------------------------------ MODULE Inductions ------------------------------
(***************************************************************************)
(* Induction over natural numbers and finite sets, in terms of sets, and   *)
(* what it says of recursive functions and of sums.                        *)
(***************************************************************************)
EXTENDS WellFoundedInduction, FiniteSetTheorems, TLAPS

\* A set of naturals has a least element.
LEMMA LeastNatural ==
  ASSUME NEW T, T \subseteq Nat, T # {}
  PROVE  \E x \in T : \A y \in T : x <= y
<1> DEFINE less == {p \in Nat \X Nat : p[1] < p[2]}
<1>1. IsWellFoundedOn(less, Nat)
  BY NatLessThanWellFounded DEF OpToRel
<1>2. PICK x \in T : \A y \in T : ~ (<<y, x>> \in less)
  <2> HIDE DEF less
  <2>1. QED  BY <1>1, WFMin
<1>3. ASSUME NEW y \in T
      PROVE  x <= y
  <2>1. x \in Nat /\ y \in Nat
    OBVIOUS
  <2>2. y < x => <<y, x>> \in less
    BY <2>1
  <2>3. QED  BY <1>2, <2>1, <2>2
<1>4. QED  BY <1>3

LEMMA Induction ==
  ASSUME NEW n \in Nat, NEW T, 0 \in T, \A i \in 0 .. n - 1 : i \in T => i + 1 \in T
  PROVE  n \in T
<1> DEFINE missing == {i \in 0 .. n : i \notin T}
<1>1. SUFFICES ASSUME n \notin T PROVE FALSE
  OBVIOUS
<1>2. missing \subseteq Nat /\ missing # {}
  BY <1>1
<1>3. PICK x \in missing : \A y \in missing : x <= y
  <2> HIDE DEF missing
  <2>1. QED  BY <1>2, LeastNatural
<1>4. x \in 0 .. n /\ x \notin T
  OBVIOUS
<1>5. x # 0 /\ x - 1 \in 0 .. n - 1
  BY <1>4
<1>6. x - 1 \in T
  BY <1>3, <1>5
<1>7. (x - 1) + 1 \in T
  BY <1>5, <1>6
<1>8. QED  BY <1>4, <1>7

\* The functions on 0 .. n that go from `start' by the steps `next'.
StepFunctions(n, S) == [1 .. n -> [S -> S]]
Runs(n, S, start, next) ==
  {f \in [0 .. n -> S] : f[0] = start /\ \A i \in 1 .. n : f[i] = next[i][f[i - 1]]}

\* There is one,
LEMMA Recursion ==
  ASSUME NEW n \in Nat, NEW S, NEW start \in S, NEW next \in StepFunctions(n, S)
  PROVE  \E f : f \in Runs(n, S, start, next)
<1> USE DEF StepFunctions
<1> DEFINE Is(f, m) == f[0] = start /\ \A i \in 1 .. m : f[i] = next[i][f[i - 1]]
           T == {m \in 0 .. n : \E f \in [0 .. m -> S] : Is(f, m)}
<1>1. 0 \in T
  <2> DEFINE f == [i \in 0 .. 0 |-> start]
  <2>1. f \in [0 .. 0 -> S] /\ Is(f, 0)
    OBVIOUS
  <2> HIDE DEF f, Is
  <2>2. QED  BY <2>1
<1>2. ASSUME NEW m \in 0 .. n - 1, m \in T
      PROVE  m + 1 \in T
  <2>1. PICK f \in [0 .. m -> S] : Is(f, m)
    <3> HIDE DEF Is
    <3>1. QED  BY <1>2
  <2> DEFINE last == next[m + 1][f[m]]
             g == [i \in 0 .. m + 1 |-> IF i = m + 1 THEN last ELSE f[i]]
  <2>2. last \in S
    OBVIOUS
  <2>3. ASSUME NEW i \in 1 .. m + 1
        PROVE  g[i] = next[i][g[i - 1]]
    <3>1. CASE i = m + 1
      <4>1. g[i] = next[i][f[m]] /\ i - 1 = m /\ g[m] = f[m]
        BY <3>1
      <4>2. QED  BY <4>1
    <3>2. CASE i # m + 1
      <4>1. i \in 1 .. m /\ i - 1 \in 0 .. m /\ i # m + 1 /\ i - 1 # m + 1
        BY <3>2
      <4>2. g[i] = f[i] /\ g[i - 1] = f[i - 1]
        BY <4>1
      <4> HIDE DEF g
      <4>3. QED  BY <2>1, <4>1, <4>2
    <3>3. QED  BY <3>1, <3>2
  <2>4. g \in [0 .. m + 1 -> S]
    <3> HIDE DEF last
    <3>1. QED  BY <2>2
  <2>5. g[0] = start
    BY <2>1
  <2>6. Is(g, m + 1)
    <3> HIDE DEF g
    <3>1. QED  BY <2>3, <2>5
  <2> HIDE DEF g, Is
  <2>7. QED  BY <2>4, <2>6
<1>3. n \in T
  <2> HIDE DEF T
  <2>1. QED  BY <1>1, <1>2, Induction
<1>4. QED  BY <1>3 DEF Runs

\* and by these it is determined.
LEMMA RecursionDetermines ==
  ASSUME NEW n \in Nat, NEW f, NEW g, f[0] = g[0], \A i \in 1 .. n : f[i - 1] = g[i - 1] => f[i] = g[i],
         f = [i \in 0 .. n |-> f[i]], g = [i \in 0 .. n |-> g[i]]
  PROVE  f = g
<1> DEFINE T == {m \in 0 .. n : f[m] = g[m]}
<1>1. 0 \in T
  OBVIOUS
<1>2. ASSUME NEW m \in 0 .. n - 1, m \in T
      PROVE  m + 1 \in T
  <2>1. m + 1 \in 1 .. n /\ (m + 1) - 1 = m /\ f[m] = g[m]
    BY <1>2
  <2>2. f[m + 1] = g[m + 1]
    BY <2>1
  <2>3. QED  BY <2>1, <2>2
<1>3. ASSUME NEW m \in 0 .. n
      PROVE  m \in T
  <2>1. \A i \in 0 .. m - 1 : i \in T => i + 1 \in T
    <3> HIDE DEF T
    <3>1. QED  BY <1>2
  <2> HIDE DEF T
  <2>2. QED  BY <1>1, <2>1, Induction
<1>4. \A m \in 0 .. n : f[m] = g[m]
  BY <1>3
<1>5. QED  BY <1>4

\* For induction over what comes before, or after,
LEMMA ByEarlier ==
  ASSUME NEW n \in Nat, NEW T,
         \A i \in 1 .. n : (\A j \in 1 .. i - 1 : j \in T) => i \in T
  PROVE  \A i \in 1 .. n : i \in T
<1> DEFINE missing == {i \in 1 .. n : i \notin T}
<1>1. SUFFICES ASSUME missing # {} PROVE FALSE
  OBVIOUS
<1>2. PICK x \in missing : \A y \in missing : x <= y
  <2>1. missing \subseteq Nat
    OBVIOUS
  <2> HIDE DEF missing
  <2>2. QED  BY <1>1, <2>1, LeastNatural
<1>3. \A j \in 1 .. x - 1 : j \in 1 .. n /\ ~ (x <= j)
  OBVIOUS
<1>4. \A j \in 1 .. x - 1 : j \in T
  BY <1>2, <1>3
<1>5. QED  BY <1>4

LEMMA ByLater ==
  ASSUME NEW n \in Nat, NEW T,
         \A i \in 1 .. n : (\A j \in i + 1 .. n : j \in T) => i \in T
  PROVE  \A i \in 1 .. n : i \in T
<1> DEFINE U == {k \in 1 .. n : n + 1 - k \in T}
<1>1. ASSUME NEW k \in 1 .. n, \A l \in 1 .. k - 1 : l \in U
      PROVE  k \in U
  <2>1. n + 1 - k \in 1 .. n
    OBVIOUS
  <2>2. ASSUME NEW j \in (n + 1 - k) + 1 .. n
        PROVE  j \in T
    <3>1. n + 1 - j \in 1 .. k - 1 /\ n + 1 - (n + 1 - j) = j
      OBVIOUS
    <3>2. QED  BY <1>1, <3>1
  <2>3. QED  BY <2>1, <2>2
<1>2. \A k \in 1 .. n : k \in U
  <2> HIDE DEF U
  <2>1. QED  BY <1>1, ByEarlier
<1>3. ASSUME NEW i \in 1 .. n
      PROVE  i \in T
  <2>1. n + 1 - i \in 1 .. n /\ n + 1 - (n + 1 - i) = i
    OBVIOUS
  <2>2. QED  BY <1>2, <2>1
<1>4. QED  BY <1>3

\* or over the subsets of a finite set.
LEMMA BySubsets ==
  ASSUME NEW S, IsFiniteSet(S), NEW T,
         \A A \in SUBSET S : (\A B \in SUBSET A : B # A => B \in T) => A \in T
  PROVE  \A A \in SUBSET S : A \in T
<1> DEFINE missing == {A \in SUBSET S : A \notin T}
           sizes == {Cardinality(A) : A \in missing}
<1>1. SUFFICES ASSUME missing # {} PROVE FALSE
  OBVIOUS
<1>2. \A A \in SUBSET S : IsFiniteSet(A) /\ Cardinality(A) \in Nat
  BY FS_Subset, FS_CardinalityType
<1>3. sizes \subseteq Nat /\ sizes # {}
  BY <1>1, <1>2
<1>4. PICK x \in sizes : \A y \in sizes : x <= y
  <2> HIDE DEF sizes
  <2>1. QED  BY <1>3, LeastNatural
<1>5. PICK A \in missing : x = Cardinality(A)
  OBVIOUS
<1>6. ASSUME NEW B \in SUBSET A, B # A
      PROVE  B \in T
  <2>1. IsFiniteSet(A) /\ A \in SUBSET S /\ B \in SUBSET S
    BY <1>2
  <2>2. Cardinality(B) <= Cardinality(A) /\ Cardinality(B) # Cardinality(A)
    BY <1>6, <2>1, FS_Subset
  <2>3. Cardinality(B) \in Nat /\ Cardinality(A) \in Nat
    BY <1>2, <2>1
  <2>4. ~ (x <= Cardinality(B))
    BY <1>5, <2>2, <2>3
  <2>5. QED  BY <1>4, <2>1, <2>4
<1>7. QED  BY <1>5, <1>6

-------------------------------------------------------------------------------
\* f adds up w over the subsets of S, one member after the other.
PickOf(s) == CHOOSE x \in s : TRUE
Adds(f, w, S) ==
  f = [s \in SUBSET S |-> IF s = {} THEN 0 ELSE w[PickOf(s)] + f[s \ {PickOf(s)}]]
Total(w, S) == (CHOOSE f : Adds(f, w, S))[S]

LEMMA Picked ==
  ASSUME NEW s, s # {}
  PROVE  PickOf(s) \in s
BY DEF PickOf

LEMMA AddsStep ==
  ASSUME NEW f, NEW w, NEW S, Adds(f, w, S), NEW s \in SUBSET S
  PROVE  f[s] = IF s = {} THEN 0 ELSE w[PickOf(s)] + f[s \ {PickOf(s)}]
BY DEF Adds

\* Two that add up agree on what both know.
LEMMA AddsAgree ==
  ASSUME NEW f, NEW g, NEW w, NEW A, NEW B, Adds(f, w, A), Adds(g, w, B),
         IsFiniteSet(A), NEW s \in SUBSET A, s \in SUBSET B
  PROVE  f[s] = g[s]
<1> DEFINE T == {t \in SUBSET A : t \in SUBSET B => f[t] = g[t]}
<1>1. ASSUME NEW t \in SUBSET A, \A u \in SUBSET t : u # t => u \in T
      PROVE  t \in T
  <2>1. CASE t = {}
    BY <2>1, AddsStep
  <2>2. CASE t # {} /\ t \in SUBSET B
    <3> DEFINE u == t \ {PickOf(t)}
    <3>1. u \in SUBSET t /\ u # t
      BY <2>2, Picked
    <3>2. f[u] = g[u]
      BY <1>1, <2>2, <3>1
    <3>3. f[t] = w[PickOf(t)] + f[u] /\ g[t] = w[PickOf(t)] + g[u]
      BY <2>2, AddsStep
    <3>4. QED  BY <3>2, <3>3
  <2>3. QED  BY <2>1, <2>2
<1>2. \A t \in SUBSET A : t \in T
  <2> HIDE DEF T
  <2>1. QED  BY <1>1, BySubsets
<1>3. QED  BY <1>2

\* There is one for each finite set,
LEMMA AddsExists ==
  ASSUME NEW w, NEW S, IsFiniteSet(S)
  PROVE  \E f : Adds(f, w, S)
<1> DEFINE T == {A \in SUBSET S : \E f : Adds(f, w, A)}
<1>1. ASSUME NEW A \in SUBSET S, \A B \in SUBSET A : B # A => B \in T
      PROVE  A \in T
  <2> DEFINE h == [s \in SUBSET A |-> IF s = {} THEN 0 ELSE w[PickOf(s)] + Total(w, s \ {PickOf(s)})]
  <2>1. ASSUME NEW t \in SUBSET A, t # A
        PROVE  h[t] = Total(w, t)
    <3>1. Adds(CHOOSE f : Adds(f, w, t), w, t)
      BY <1>1, <2>1
    <3>2. PICK f : Adds(f, w, t) /\ Total(w, t) = f[t]
      BY <3>1 DEF Total
    <3>3. CASE t = {}
      BY <3>2, <3>3, AddsStep
    <3>4. CASE t # {}
      <4> DEFINE u == t \ {PickOf(t)}
      <4>1. u \in SUBSET t /\ u # A /\ u \in SUBSET A
        BY <2>1
      <4>2. Adds(CHOOSE g : Adds(g, w, u), w, u)
        BY <1>1, <4>1
      <4>3. PICK g : Adds(g, w, u) /\ Total(w, u) = g[u]
        BY <4>2 DEF Total
      <4>4. IsFiniteSet(t)
        BY FS_Subset
      <4>5. f[u] = g[u]
        BY <3>2, <4>1, <4>3, <4>4, AddsAgree
      <4>6. Total(w, t) = w[PickOf(t)] + f[u]
        BY <3>2, <3>4, AddsStep
      <4>7. h[t] = w[PickOf(t)] + Total(w, u)
        BY <3>4
      <4>8. QED  BY <4>3, <4>5, <4>6, <4>7
    <3>5. QED  BY <3>3, <3>4
  <2>2. ASSUME NEW s \in SUBSET A
        PROVE  h[s] = IF s = {} THEN 0 ELSE w[PickOf(s)] + h[s \ {PickOf(s)}]
    <3>1. CASE s = {}
      BY <3>1
    <3>2. CASE s # {}
      <4> DEFINE u == s \ {PickOf(s)}
      <4>1. u \in SUBSET A /\ u # A
        BY <3>2, Picked
      <4>2. h[u] = Total(w, u)
        <5> HIDE DEF h, u
        <5>1. QED  BY <2>1, <4>1
      <4>3. h[s] = w[PickOf(s)] + Total(w, u)
        BY <3>2
      <4> HIDE DEF h
      <4>4. QED  BY <3>2, <4>2, <4>3
    <3>3. QED  BY <3>1, <3>2
  <2>3. Adds(h, w, A)
    <3>1. h = [s \in SUBSET A |-> h[s]]
      OBVIOUS
    <3> HIDE DEF h
    <3>2. QED  BY <2>2, <3>1, Zenon DEF Adds
  <2> HIDE DEF h
  <2>4. QED  BY <2>3
<1>2. S \in T
  <2> HIDE DEF T
  <2>1. QED  BY <1>1, BySubsets
<1>3. QED  BY <1>2

\* and what it says of a set is the set's total, whichever member is taken first.
LEMMA TotalIs ==
  ASSUME NEW f, NEW w, NEW S, IsFiniteSet(S), Adds(f, w, S), NEW s \in SUBSET S
  PROVE  f[s] = Total(w, s)
<1>1. IsFiniteSet(s)
  BY FS_Subset
<1>2. PICK g : Adds(g, w, s) /\ Total(w, s) = g[s]
  BY <1>1, AddsExists DEF Total
<1>3. s \in SUBSET s
  OBVIOUS
<1>4. QED  BY <1>2, <1>3, AddsAgree

LEMMA TotalPicks ==
  ASSUME NEW w, NEW S, IsFiniteSet(S)
  PROVE  Total(w, S) = IF S = {} THEN 0 ELSE w[PickOf(S)] + Total(w, S \ {PickOf(S)})
<1>1. PICK f : Adds(f, w, S)
  BY AddsExists
<1>2. S \in SUBSET S /\ S \ {PickOf(S)} \in SUBSET S
  OBVIOUS
<1>3. f[S] = Total(w, S) /\ f[S \ {PickOf(S)}] = Total(w, S \ {PickOf(S)})
  BY <1>1, <1>2, TotalIs
<1>4. f[S] = IF S = {} THEN 0 ELSE w[PickOf(S)] + f[S \ {PickOf(S)}]
  BY <1>1, <1>2, AddsStep
<1>5. QED  BY <1>3, <1>4

Weighs(w, S) == IsFiniteSet(S) /\ \A x \in S : w[x] \in Nat

LEMMA TotalInNat ==
  ASSUME NEW w, NEW S, Weighs(w, S)
  PROVE  Total(w, S) \in Nat
<1> DEFINE T == {A \in SUBSET S : Total(w, A) \in Nat}
<1>1. ASSUME NEW A \in SUBSET S, \A B \in SUBSET A : B # A => B \in T
      PROVE  A \in T
  <2> DEFINE B == A \ {PickOf(A)}
  <2>1. IsFiniteSet(A)
    BY FS_Subset DEF Weighs
  <2>2. Total(w, A) = IF A = {} THEN 0 ELSE w[PickOf(A)] + Total(w, B)
    BY <2>1, TotalPicks
  <2>3. A # {} => w[PickOf(A)] \in Nat /\ B # A
    BY Picked DEF Weighs
  <2>4. A # {} => Total(w, B) \in Nat
    BY <1>1, <2>3
  <2> HIDE DEF B
  <2>5. QED  BY <2>2, <2>3, <2>4
<1>2. IsFiniteSet(S)
  BY DEF Weighs
<1>3. S \in T
  <2> HIDE DEF T
  <2>1. QED  BY <1>1, <1>2, BySubsets
<1>4. QED  BY <1>3

LEMMA TotalTakes ==
  ASSUME NEW w, NEW S, Weighs(w, S), NEW x \in S
  PROVE  Total(w, S) = w[x] + Total(w, S \ {x})
<1> DEFINE T == {A \in SUBSET S : \A y \in A : Total(w, A) = w[y] + Total(w, A \ {y})}
<1>1. ASSUME NEW A \in SUBSET S, \A B \in SUBSET A : B # A => B \in T
      PROVE  A \in T
  <2>1. IsFiniteSet(A)
    BY FS_Subset DEF Weighs
  <2>2. SUFFICES ASSUME NEW y \in A
                 PROVE  Total(w, A) = w[y] + Total(w, A \ {y})
    OBVIOUS
  <2> DEFINE p == PickOf(A)
             B == A \ {p}
             C == A \ {y}
             D == B \ {y}
  <2>3. p \in A /\ Total(w, A) = w[p] + Total(w, B)
    BY <2>1, Picked, TotalPicks
  <2>4. CASE y # p
    <3>1. B \in SUBSET A /\ B # A /\ y \in B /\ C \in SUBSET A /\ C # A /\ p \in C /\ C \ {p} = D
      BY <2>3, <2>4
    <3>2. Total(w, B) = w[y] + Total(w, D)
      <4>1. B \in T
        <5> HIDE DEF T, B
        <5>1. QED  BY <1>1, <3>1
      <4>2. QED  BY <3>1, <4>1
    <3>3. Total(w, C) = w[p] + Total(w, D)
      <4>1. C \in T
        <5> HIDE DEF T, C
        <5>1. QED  BY <1>1, <3>1
      <4>2. QED  BY <3>1, <4>1
    <3>4. D \in SUBSET S /\ Weighs(w, D)
      BY FS_Subset DEF Weighs
    <3>5. Total(w, D) \in Nat /\ w[y] \in Nat /\ w[p] \in Nat
      BY <2>3, <3>4, TotalInNat DEF Weighs
    <3> HIDE DEF B, C, D, p
    <3>6. Total(w, A) = w[y] + Total(w, C)
      BY <2>3, <3>2, <3>3, <3>5
    <3>7. QED  BY <3>6 DEF C
  <2>5. QED  BY <2>3, <2>4
<1>2. IsFiniteSet(S)
  BY DEF Weighs
<1>3. S \in T
  <2> HIDE DEF T
  <2>1. QED  BY <1>1, <1>2, BySubsets
<1>4. QED  BY <1>3

\* Parts that have nothing in common add up,
LEMMA TotalOfParts ==
  ASSUME NEW w, NEW A, NEW B, Weighs(w, A), Weighs(w, B), A \intersect B = {}
  PROVE  Total(w, A \union B) = Total(w, A) + Total(w, B)
<1> DEFINE T == {C \in SUBSET B : Total(w, A \union C) = Total(w, A) + Total(w, C)}
<1>1. ASSUME NEW C \in SUBSET B, \A D \in SUBSET C : D # C => D \in T
      PROVE  C \in T
  <2>1. Weighs(w, C) /\ Weighs(w, A \union C) /\ Total(w, A) \in Nat
    BY FS_Subset, FS_Union, TotalInNat DEF Weighs
  <2>2. CASE C = {}
    <3>1. Total(w, C) = 0 /\ A \union C = A
      BY <2>1, <2>2, TotalPicks DEF Weighs
    <3>2. QED  BY <2>1, <3>1
  <2>3. CASE C # {}
    <3>1. PICK x \in C : TRUE
      BY <2>3
    <3> DEFINE D == C \ {x}
    <3>2. D \in SUBSET C /\ D # C /\ (A \union C) \ {x} = A \union D /\ x \in A \union C
      BY <3>1
    <3>3. Total(w, A \union D) = Total(w, A) + Total(w, D)
      <4>1. D \in T
        <5> HIDE DEF T, D
        <5>1. QED  BY <1>1, <3>2
      <4>2. QED  BY <4>1
    <3>4. Total(w, C) = w[x] + Total(w, D)
      BY <2>1, TotalTakes
    <3>5. Total(w, A \union C) = w[x] + Total(w, A \union D)
      BY <2>1, <3>2, TotalTakes
    <3>6. w[x] \in Nat /\ Weighs(w, D)
      BY <2>1, FS_Subset DEF Weighs
    <3>7. Total(w, D) \in Nat
      BY <3>6, TotalInNat
    <3> HIDE DEF D
    <3>8. QED  BY <2>1, <3>3, <3>4, <3>5, <3>6, <3>7
  <2>4. QED  BY <2>2, <2>3
<1>2. IsFiniteSet(B)
  BY DEF Weighs
<1>3. B \in T
  <2> HIDE DEF T
  <2>1. QED  BY <1>1, <1>2, BySubsets
<1>4. QED  BY <1>3

\* and a part is no more than the whole.
LEMMA TotalOfPart ==
  ASSUME NEW w, NEW B, Weighs(w, B), NEW A \in SUBSET B
  PROVE  Total(w, A) \in Nat /\ Total(w, B) \in Nat /\ Total(w, A) <= Total(w, B)
<1>1. Weighs(w, A) /\ Weighs(w, B \ A)
  BY FS_Subset DEF Weighs
<1>2. A \union (B \ A) = B /\ A \intersect (B \ A) = {}
  OBVIOUS
<1>3. Total(w, B) = Total(w, A) + Total(w, B \ A)
  BY <1>1, <1>2, TotalOfParts
<1>4. Total(w, A) \in Nat /\ Total(w, B \ A) \in Nat
  BY <1>1, TotalInNat
<1>5. QED  BY <1>3, <1>4
===============================================================================
