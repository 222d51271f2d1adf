----------------------------- MODULE Induction -----------------------------
(***************************************************************************)
(* Induction over data, for the proofs of this project: the least element  *)
(* of a set stands for the step of the induction, so that no fact takes an *)
(* operator as parameter. And what follows for functions that are applied  *)
(* again and again, and for sums. And what operators make of sequences.    *)
(***************************************************************************)
EXTENDS Integers, Functions, SequencesExt, FiniteSetTheorems, SequenceTheorems,
        WellFoundedInduction, TLAPS

\* A set of numbers has a least one.
LEMMA LeastNumber ==
  ASSUME NEW T, T \subseteq Nat, T # {}
  PROVE  \E m \in T : \A n \in T : m <= n
<1>1. PICK m \in T : \A n \in T : <<n, m>> \notin OpToRel(<, Nat)
  BY NatLessThanWellFounded, WFMin
<1>2. \A n \in T : <<n, m>> \in OpToRel(<, Nat) <=> n < m
  BY DEF OpToRel
<1>3. \A n \in T : ~ (n < m)
  BY <1>1, <1>2
<1> QED
  BY <1>3

\* Of subsets of a finite set one has no other with one element less.
LEMMA LeastSet ==
  ASSUME NEW S, IsFiniteSet(S), NEW B \in SUBSET SUBSET S, B # {}
  PROVE  \E t \in B : \A x \in t : t \ {x} \notin B
<1> DEFINE T == {Cardinality(t) : t \in B}
<1>1. \A t \in SUBSET S : IsFiniteSet(t) /\ Cardinality(t) \in Nat
  BY FS_Subset, FS_CardinalityType
<1>2. PICK m \in T : \A n \in T : m <= n
  <2>1. T \subseteq Nat /\ T # {}
    BY <1>1
  <2> QED
    BY <2>1, LeastNumber
<1>3. PICK t \in B : Cardinality(t) = m
  OBVIOUS
<1>4. ASSUME NEW x \in t, t \ {x} \in B PROVE FALSE
  <2>1. Cardinality(t \ {x}) = Cardinality(t) - 1
    BY <1>1, FS_RemoveElement
  <2>2. m <= Cardinality(t \ {x})
    BY <1>2, <1>4
  <2> QED
    BY <1>1, <1>3, <2>1, <2>2
<1> QED
  BY <1>4

\* The values of a function that is applied again and again, n times.
Applied(S, b, g, n) ==
  {f \in [0..n -> S] : f[0] = b /\ \A k \in 1..n : f[k] = g[k][f[k - 1]]}

\* They exist for any number of applications.
LEMMA AppliedExists ==
  ASSUME NEW S, NEW b \in S, NEW N \in Nat, NEW g \in [1..N -> [S -> S]]
  PROVE  Applied(S, b, g, N) # {}
<1> DEFINE Bad == {n \in 0..N : Applied(S, b, g, n) = {}}
<1>1. Applied(S, b, g, 0) # {}
  <2>1. [k \in 0..0 |-> b] \in [0..0 -> S]
    OBVIOUS
  <2>2. [k \in 0..0 |-> b] \in Applied(S, b, g, 0)
    BY <2>1 DEF Applied
  <2> QED
    BY <2>2
<1>2. ASSUME NEW n \in 1..N, Applied(S, b, g, n - 1) # {}
      PROVE  Applied(S, b, g, n) # {}
  <2>1. PICK f \in [0..(n - 1) -> S] :
               f[0] = b /\ \A k \in 1..(n - 1) : f[k] = g[k][f[k - 1]]
    BY <1>2 DEF Applied
  <2> DEFINE h == [k \in 0..n |-> IF k = n THEN g[n][f[n - 1]] ELSE f[k]]
  <2>2. n - 1 \in 0..(n - 1) /\ g[n] \in [S -> S]
    OBVIOUS
  <2>3. f[n - 1] \in S /\ g[n][f[n - 1]] \in S
    BY <2>1, <2>2
  <2>4. h \in [0..n -> S]
    <3> SUFFICES ASSUME NEW k \in 0..n, k # n PROVE f[k] \in S
      BY <2>3
    <3>1. k \in 0..(n - 1)
      OBVIOUS
    <3> QED
      BY <2>1, <3>1
  <2>5. h[0] = b /\ \A k \in 1..n : h[k] = g[k][h[k - 1]]
    BY <2>1
  <2>6. h \in Applied(S, b, g, n)
    BY <2>4, <2>5 DEF Applied
  <2> QED
    BY <2>6
<1>3. Bad = {}
  <2> SUFFICES ASSUME Bad # {} PROVE FALSE
    OBVIOUS
  <2>1. PICK m \in Bad : \A n \in Bad : m <= n
    <3>1. Bad \subseteq Nat
      OBVIOUS
    <3> QED
      BY <3>1, LeastNumber
  <2>2. m # 0
    BY <1>1
  <2>3. m \in 1..N /\ m - 1 \in 0..N /\ m - 1 \notin Bad
    BY <2>1, <2>2
  <2> QED
    BY <1>2, <2>1, <2>3
<1> QED
  BY <1>3

-----------------------------------------------------------------------------
(* Sums of the values of a function on a finite set.                       *)

\* The function by whose recursion the sum is defined.
Pick(t) == CHOOSE x \in t : TRUE
IsSum(g, w, S) ==
  g = [t \in SUBSET S |-> IF t = {} THEN 0 ELSE w[Pick(t)] + g[t \ {Pick(t)}]]
PartialSums(w, S) == CHOOSE g : IsSum(g, w, S)

LEMMA PickIsIn == ASSUME NEW t, t # {} PROVE Pick(t) \in t
BY DEF Pick

\* It exists, and has numbers as values.
LEMMA PartialSumsExist ==
  ASSUME NEW S, IsFiniteSet(S), NEW w \in [S -> Int]
  PROVE  /\ IsSum(PartialSums(w, S), w, S)
         /\ \A t \in SUBSET S : PartialSums(w, S)[t] \in Int
<1> DEFINE F == [SUBSET S -> Int]
           Next1(g) == [t \in SUBSET S |->
                          IF t = {} THEN 0 ELSE w[Pick(t)] + g[t \ {Pick(t)}]]
           N == Cardinality(S)
           steps == [k \in 1..N |-> [g \in F |-> Next1(g)]]
           b == [t \in SUBSET S |-> 0]
<1>1. N \in Nat
  BY FS_CardinalityType
<1>2. ASSUME NEW t \in SUBSET S, t # {}
      PROVE  Pick(t) \in t /\ t \ {Pick(t)} \in SUBSET S /\ w[Pick(t)] \in Int
  BY <1>2, PickIsIn
<1>3. ASSUME NEW g \in F PROVE Next1(g) \in F
  BY <1>2
<1>4. steps \in [1..N -> [F -> F]] /\ b \in F
  <2>1. b \in F
    OBVIOUS
  <2> HIDE DEF F, Next1
  <2>2. [g \in F |-> Next1(g)] \in [F -> F]
    BY <1>3
  <2> QED
    BY <2>1, <2>2
<1>5. PICK f \in [0..N -> F] : f[0] = b /\ \A k \in 1..N : f[k] = steps[k][f[k - 1]]
  <2> HIDE DEF F, N, steps, b
  <2> QED
    BY <1>1, <1>4, AppliedExists DEF Applied
<1>6. ASSUME NEW t \in SUBSET S
      PROVE  /\ Cardinality(t) \in 0..N
             /\ t = {} => Cardinality(t) = 0
             /\ t # {} => /\ Cardinality(t) \in 1..N
                          /\ Cardinality(t \ {Pick(t)}) = Cardinality(t) - 1
  <2>1. IsFiniteSet(t) /\ Cardinality(t) <= N
    BY FS_Subset
  <2>2. Cardinality(t) \in Nat /\ (Cardinality(t) = 0 <=> t = {})
    BY <2>1, FS_CardinalityType, FS_EmptySet
  <2>3. t # {} => Cardinality(t \ {Pick(t)}) = Cardinality(t) - 1
    BY <1>2, <2>1, FS_RemoveElement
  <2> QED
    BY <1>1, <2>1, <2>2, <2>3
<1>7. ASSUME NEW k \in 1..N PROVE f[k] = Next1(f[k - 1])
  <2>1. k - 1 \in 0..N
    BY <1>1
  <2> HIDE DEF F, N, Next1
  <2>2. f[k - 1] \in F
    BY <1>5, <2>1
  <2> QED
    BY <1>5, <2>2
<1> DEFINE sums == [t \in SUBSET S |-> f[Cardinality(t)][t]]
<1>8. ASSUME NEW t \in SUBSET S
      PROVE  sums[t] = IF t = {} THEN 0 ELSE w[Pick(t)] + sums[t \ {Pick(t)}]
  <2>1. CASE t = {}
    <3>1. Cardinality(t) = 0
      BY <1>6, <2>1
    <3> QED
      BY <1>5, <2>1, <3>1
  <2>2. CASE t # {}
    <3>1. Cardinality(t) \in 1..N /\ Cardinality(t \ {Pick(t)}) = Cardinality(t) - 1
      BY <1>6, <2>2
    <3>2. f[Cardinality(t)] = Next1(f[Cardinality(t) - 1])
      BY <1>7, <3>1
    <3>3. sums[t \ {Pick(t)}] = f[Cardinality(t) - 1][t \ {Pick(t)}]
      BY <1>2, <2>2, <3>1
    <3> QED
      BY <2>2, <3>2, <3>3
  <2> QED
    BY <2>1, <2>2
<1>9. IsSum(sums, w, S)
  BY <1>8 DEF IsSum
<1>10. IsSum(PartialSums(w, S), w, S)
  <2> HIDE DEF sums
  <2> QED
    BY <1>9 DEF PartialSums
<1>11. \A t \in SUBSET S : PartialSums(w, S)[t] \in Int
  <2> DEFINE P == PartialSums(w, S)
             B == {t \in SUBSET S : P[t] \notin Int}
  <2> HIDE DEF P
  <2> SUFFICES ASSUME B # {} PROVE FALSE
    BY DEF P
  <2>1. PICK t \in B : \A x \in t : t \ {x} \notin B
    BY LeastSet
  <2>2. P[t] = IF t = {} THEN 0 ELSE w[Pick(t)] + P[t \ {Pick(t)}]
    BY <1>10 DEF IsSum, P
  <2>3. t # {}
    BY <2>2
  <2>4. Pick(t) \in t /\ t \ {Pick(t)} \in SUBSET S /\ w[Pick(t)] \in Int
    BY <1>2, <2>3
  <2>5. P[t \ {Pick(t)}] \in Int
    BY <2>1, <2>4
  <2> QED
    BY <2>2, <2>3, <2>4, <2>5
<1> QED
  BY <1>10, <1>11

\* How they are made, element by element.
Adds(P, w, t) ==
  /\ P[t] \in Int
  /\ t = {} => P[t] = 0
  /\ t # {} => Pick(t) \in t /\ P[t] = w[Pick(t)] + P[t \ {Pick(t)}]

LEMMA PartialSumSteps ==
  ASSUME NEW S, IsFiniteSet(S), NEW w \in [S -> Int], NEW t \in SUBSET S
  PROVE  Adds(PartialSums(w, S), w, t)
<1> DEFINE P == PartialSums(w, S)
<1>1. IsSum(P, w, S) /\ P[t] \in Int
  BY PartialSumsExist
<1> HIDE DEF P
<1>2. P[t] = IF t = {} THEN 0 ELSE w[Pick(t)] + P[t \ {Pick(t)}]
  BY <1>1 DEF IsSum
<1>3. t # {} => Pick(t) \in t
  BY PickIsIn
<1>4. Adds(P, w, t)
  BY <1>1, <1>2, <1>3 DEF Adds
<1> QED
  BY <1>4 DEF P

\* Two functions are summed up in the same order.
LEMMA TwoSums ==
  ASSUME NEW S, IsFiniteSet(S), NEW w \in [S -> Int], NEW v \in [S -> Int],
         NEW t \in SUBSET S
  PROVE  LET P == PartialSums(w, S)
             Q == PartialSums(v, S)
         IN  /\ P[t] \in Int /\ Q[t] \in Int
             /\ t = {} => P[t] = 0 /\ Q[t] = 0
             /\ t # {} => \E x \in t : /\ P[t] = w[x] + P[t \ {x}]
                                      /\ Q[t] = v[x] + Q[t \ {x}]
<1>1. Adds(PartialSums(w, S), w, t) /\ Adds(PartialSums(v, S), v, t)
  BY PartialSumSteps
<1> QED
  BY <1>1 DEF Adds

LEMMA SumIsPartialSum ==
  ASSUME NEW S, NEW w \in [S -> Int]
  PROVE  SumFunction(w) = PartialSums(w, S)[S]
<1>1. SumFunction(w) = PartialSums(w, DOMAIN w)[DOMAIN w]
  BY DEF SumFunction, SumFunctionOnSet, FoldFunctionOnSet, MapThenFoldSet, PartialSums, IsSum,
         Pick
<1>2. DOMAIN w = S
  OBVIOUS
<1> QED
  BY <1>1, <1>2

LEMMA SumType ==
  ASSUME NEW S, IsFiniteSet(S), NEW w \in [S -> Int]
  PROVE  SumFunction(w) \in Int
BY SumIsPartialSum, PartialSumsExist

\* Another value at one place changes the sum by what it differs.
LEMMA SumChanges ==
  ASSUME NEW S, IsFiniteSet(S), NEW w \in [S -> Int], NEW v \in [S -> Int], NEW p \in S,
         \A x \in S \ {p} : v[x] = w[x]
  PROVE  SumFunction(v) = SumFunction(w) + v[p] - w[p]
<1> DEFINE P == PartialSums(w, S)
           Q == PartialSums(v, S)
           B == {t \in SUBSET S : Q[t] # P[t] + (IF p \in t THEN v[p] - w[p] ELSE 0)}
<1>1. ASSUME NEW t \in SUBSET S
      PROVE  /\ P[t] \in Int /\ Q[t] \in Int
             /\ t = {} => P[t] = 0 /\ Q[t] = 0
             /\ t # {} => \E x \in t : /\ P[t] = w[x] + P[t \ {x}]
                                      /\ Q[t] = v[x] + Q[t \ {x}]
  BY TwoSums
<1> HIDE DEF P, Q
<1>2. B = {}
  <2> SUFFICES ASSUME B # {} PROVE FALSE
    OBVIOUS
  <2>1. PICK t \in B : \A x \in t : t \ {x} \notin B
    BY LeastSet
  <2>2. t # {}
    BY <1>1
  <2>3. PICK x \in t : P[t] = w[x] + P[t \ {x}] /\ Q[t] = v[x] + Q[t \ {x}]
    BY <1>1, <2>2
  <2>4. Q[t \ {x}] = P[t \ {x}] + (IF p \in t \ {x} THEN v[p] - w[p] ELSE 0)
    BY <2>1
  <2>5. /\ P[t] \in Int /\ Q[t] \in Int /\ P[t \ {x}] \in Int /\ Q[t \ {x}] \in Int
        /\ w[x] \in Int /\ v[x] \in Int /\ w[p] \in Int /\ v[p] \in Int
    BY <1>1
  <2>6. x # p => v[x] = w[x]
    OBVIOUS
  <2> QED
    BY <2>3, <2>4, <2>5, <2>6
<1>3. Q[S] = P[S] + (v[p] - w[p])
  BY <1>2
<1>4. Q[S] \in Int /\ P[S] \in Int /\ v[p] \in Int /\ w[p] \in Int
  BY <1>1
<1> QED
  BY <1>3, <1>4, SumIsPartialSum DEF P, Q

\* Smaller values make a smaller sum.
LEMMA SumGrows ==
  ASSUME NEW S, IsFiniteSet(S), NEW w \in [S -> Int], NEW v \in [S -> Int],
         \A x \in S : v[x] <= w[x]
  PROVE  SumFunction(v) <= SumFunction(w)
<1> DEFINE P == PartialSums(w, S)
           Q == PartialSums(v, S)
           B == {t \in SUBSET S : ~(Q[t] <= P[t])}
<1>1. ASSUME NEW t \in SUBSET S
      PROVE  /\ P[t] \in Int /\ Q[t] \in Int
             /\ t = {} => P[t] = 0 /\ Q[t] = 0
             /\ t # {} => \E x \in t : /\ P[t] = w[x] + P[t \ {x}]
                                      /\ Q[t] = v[x] + Q[t \ {x}]
  BY TwoSums
<1> HIDE DEF P, Q
<1>2. B = {}
  <2> SUFFICES ASSUME B # {} PROVE FALSE
    OBVIOUS
  <2>1. PICK t \in B : \A x \in t : t \ {x} \notin B
    BY LeastSet
  <2>2. t # {}
    BY <1>1
  <2>3. PICK x \in t : P[t] = w[x] + P[t \ {x}] /\ Q[t] = v[x] + Q[t \ {x}]
    BY <1>1, <2>2
  <2>4. Q[t \ {x}] <= P[t \ {x}]
    BY <2>1
  <2>5. /\ P[t] \in Int /\ Q[t] \in Int /\ P[t \ {x}] \in Int /\ Q[t \ {x}] \in Int
        /\ w[x] \in Int /\ v[x] \in Int
    BY <1>1
  <2>6. v[x] <= w[x]
    OBVIOUS
  <2> QED
    BY <2>3, <2>4, <2>5, <2>6
<1>3. Q[S] <= P[S]
  BY <1>2
<1> QED
  BY <1>3, SumIsPartialSum DEF P, Q

\* Of zeros it is zero.
LEMMA SumOfZeros ==
  ASSUME NEW S, IsFiniteSet(S), NEW w \in [S -> Int], \A x \in S : w[x] = 0
  PROVE  SumFunction(w) = 0
<1> DEFINE P == PartialSums(w, S)
           B == {t \in SUBSET S : P[t] # 0}
<1>1. ASSUME NEW t \in SUBSET S
      PROVE  /\ t = {} => P[t] = 0
             /\ t # {} => \E x \in t : P[t] = w[x] + P[t \ {x}]
  BY TwoSums
<1> HIDE DEF P
<1>2. B = {}
  <2> SUFFICES ASSUME B # {} PROVE FALSE
    OBVIOUS
  <2>1. PICK t \in B : \A x \in t : t \ {x} \notin B
    BY LeastSet
  <2>2. t # {}
    BY <1>1
  <2>3. PICK x \in t : P[t] = w[x] + P[t \ {x}]
    BY <1>1, <2>2
  <2>4. P[t \ {x}] = 0 /\ w[x] = 0
    BY <2>1
  <2> QED
    BY <2>3, <2>4
<1> QED
  BY <1>2, SumIsPartialSum DEF P

-----------------------------------------------------------------------------
(* Sequences                                                               *)

\* What a sequence holds.
LEMMA ToSetOf ==
  ASSUME NEW S, NEW s \in Seq(S)
  PROVE  /\ ToSet(s) \subseteq S /\ DOMAIN s = 1..Len(s)
         /\ \A i \in 1..Len(s) : s[i] \in ToSet(s)
BY DEF ToSet

\* A function on the first n numbers is a sequence.
LEMMA ListOf ==
  ASSUME NEW T, NEW n \in Nat, NEW r \in [1..n -> T]
  PROVE  r \in Seq(T)
OBVIOUS

\* What Append, Tail, RemoveAt and InsertAt make of a sequence.
LEMMA Appended ==
  ASSUME NEW S, NEW s \in Seq(S), NEW x \in S
  PROVE  /\ Append(s, x) \in Seq(S) /\ Len(Append(s, x)) = Len(s) + 1
         /\ \A k \in 1..(Len(s) + 1) : Append(s, x)[k] = IF k = Len(s) + 1 THEN x ELSE s[k]
OBVIOUS

LEMMA ToSetOfAppend ==
  ASSUME NEW S, NEW s \in Seq(S), NEW x \in S
  PROVE  Append(s, x) \in Seq(S) /\ ToSet(Append(s, x)) = ToSet(s) \cup {x}
<1> PICK n, list : n = Len(s) /\ list = Append(s, x)
  OBVIOUS
<1>1. /\ list \in Seq(S) /\ n \in Nat /\ DOMAIN s = 1..n /\ DOMAIN list = 1..(n + 1)
      /\ \A k \in 1..(n + 1) : list[k] = IF k = n + 1 THEN x ELSE s[k]
  BY Appended
<1>2. list[n + 1] = x /\ n + 1 \in 1..(n + 1)
  BY <1>1
<1>3. \A k \in 1..n : k \in 1..(n + 1) /\ list[k] = s[k]
  BY <1>1
<1>4. \A k \in 1..(n + 1) : k = n + 1 \/ k \in 1..n
  BY <1>1
<1>5. ToSet(list) = {list[k] : k \in 1..(n + 1)} /\ ToSet(s) = {s[k] : k \in 1..n}
  BY <1>1 DEF ToSet
<1>6. ToSet(list) = ToSet(s) \cup {x}
  BY <1>2, <1>3, <1>4, <1>5
<1> QED
  BY <1>1, <1>6

LEMMA Tailed ==
  ASSUME NEW S, NEW s \in Seq(S), s # <<>>
  PROVE  /\ Head(s) = s[1] /\ Head(s) \in S /\ Tail(s) \in Seq(S)
         /\ Len(s) \in Nat \ {0} /\ Len(Tail(s)) = Len(s) - 1
         /\ \A k \in 1..(Len(s) - 1) : Tail(s)[k] = s[k + 1]
OBVIOUS

LEMMA Removed ==
  ASSUME NEW S, NEW s \in Seq(S), NEW i \in 1..Len(s)
  PROVE  LET r == RemoveAt(s, i)
         IN  /\ r \in Seq(S) /\ Len(r) = Len(s) - 1
             /\ \A k \in 1..Len(r) : r[k] = IF k < i THEN s[k] ELSE s[k + 1]
<1> DEFINE f == SubSeq(s, 1, i - 1)
           g == SubSeq(s, i + 1, Len(s))
<1>1. Len(s) \in Nat
  OBVIOUS
<1>2. /\ f \in Seq(S) /\ Len(f) = i - 1
      /\ \A k \in 1..(i - 1) : f[k] = s[k]
  BY <1>1
<1>3. /\ g \in Seq(S) /\ Len(g) = Len(s) - i
      /\ \A k \in 1..(Len(s) - i) : g[k] = s[i + k]
  BY <1>1
<1> DEFINE r == f \o g
<1>4. RemoveAt(s, i) = r
  BY DEF RemoveAt
<1> HIDE DEF f, g
<1>5. /\ r \in Seq(S) /\ Len(r) = Len(f) + Len(g)
      /\ \A k \in 1..(Len(f) + Len(g)) : r[k] = IF k <= Len(f) THEN f[k] ELSE g[k - Len(f)]
  <2>1. f \in Seq(S) /\ g \in Seq(S)
    BY <1>2, <1>3
  <2> QED
    BY <2>1, ConcatProperties
<1> HIDE DEF r
<1>6. ASSUME NEW k \in 1..Len(r) PROVE r[k] = IF k < i THEN s[k] ELSE s[k + 1]
  <2>1. CASE k < i
    <3>1. k \in 1..(i - 1) /\ k <= Len(f) /\ k \in 1..(Len(f) + Len(g))
      BY <1>1, <1>2, <1>3, <1>5, <2>1
    <3> QED
      BY <1>2, <1>5, <2>1, <3>1
  <2>2. CASE ~(k < i)
    <3>1. k - (i - 1) \in 1..(Len(s) - i) /\ i + (k - (i - 1)) = k + 1
      BY <1>1, <1>2, <1>3, <1>5, <2>2
    <3>2. k \in 1..(Len(f) + Len(g)) /\ ~(k <= Len(f)) /\ k - Len(f) = k - (i - 1)
      BY <1>1, <1>2, <1>3, <1>5, <2>2
    <3>3. r[k] = g[k - (i - 1)] /\ g[k - (i - 1)] = s[k + 1]
      BY <1>3, <1>5, <3>1, <3>2
    <3> QED
      BY <2>2, <3>3
  <2> QED
    BY <2>1, <2>2
<1> QED
  BY <1>1, <1>2, <1>3, <1>4, <1>5, <1>6

LEMMA Inserted ==
  ASSUME NEW S, NEW s \in Seq(S), NEW i \in 1..(Len(s) + 1), NEW e \in S
  PROVE  LET r == InsertAt(s, i, e)
         IN  /\ r \in Seq(S) /\ Len(r) = Len(s) + 1
             /\ \A k \in 1..Len(r) :
                  r[k] = IF k < i THEN s[k] ELSE IF k = i THEN e ELSE s[k - 1]
<1> DEFINE f == SubSeq(s, 1, i - 1)
           m == <<e>>
           g == SubSeq(s, i, Len(s))
           fm == f \o m
           r == fm \o g
<1>1. Len(s) \in Nat
  OBVIOUS
<1>2. /\ f \in Seq(S) /\ Len(f) = i - 1
      /\ \A k \in 1..(i - 1) : f[k] = s[k]
  BY <1>1
<1>3. /\ g \in Seq(S) /\ Len(g) = Len(s) - i + 1
      /\ \A k \in 1..(Len(s) - i + 1) : g[k] = s[i + k - 1]
  BY <1>1
<1>4. m \in Seq(S) /\ Len(m) = 1 /\ m[1] = e
  OBVIOUS
<1>5. InsertAt(s, i, e) = r
  BY DEF InsertAt
<1> HIDE DEF f, g, m
<1>6. /\ fm \in Seq(S) /\ Len(fm) = i
      /\ \A k \in 1..i : fm[k] = IF k < i THEN s[k] ELSE e
  <2>1. /\ fm \in Seq(S) /\ Len(fm) = Len(f) + Len(m)
        /\ \A k \in 1..(Len(f) + Len(m)) : fm[k] = IF k <= Len(f) THEN f[k] ELSE m[k - Len(f)]
    BY <1>2, <1>4, ConcatProperties
  <2> HIDE DEF fm
  <2>2. Len(f) + Len(m) = i
    BY <1>1, <1>2, <1>4
  <2>3. ASSUME NEW k \in 1..i PROVE fm[k] = IF k < i THEN s[k] ELSE e
    <3>1. CASE k < i
      <4>1. k \in 1..(i - 1) /\ k <= Len(f) /\ k \in 1..(Len(f) + Len(m))
        BY <1>1, <1>2, <2>2, <3>1
      <4>2. fm[k] = f[k] /\ f[k] = s[k]
        BY <1>2, <2>1, <4>1
      <4> QED
        BY <3>1, <4>2
    <3>2. CASE k = i
      BY <1>1, <1>2, <1>4, <2>1, <2>2, <3>2
    <3> QED
      BY <3>1, <3>2
  <2> QED
    BY <2>1, <2>2, <2>3
<1> HIDE DEF fm
<1>7. /\ r \in Seq(S) /\ Len(r) = Len(fm) + Len(g)
      /\ \A k \in 1..(Len(fm) + Len(g)) : r[k] = IF k <= Len(fm) THEN fm[k] ELSE g[k - Len(fm)]
  BY <1>3, <1>6, ConcatProperties
<1> HIDE DEF r
<1>8. ASSUME NEW k \in 1..Len(r)
      PROVE  r[k] = IF k < i THEN s[k] ELSE IF k = i THEN e ELSE s[k - 1]
  <2>1. CASE k <= i
    BY <1>1, <1>3, <1>6, <1>7, <2>1
  <2>2. CASE ~(k <= i)
    <3>1. k - i \in 1..(Len(s) - i + 1) /\ i + (k - i) - 1 = k - 1
      BY <1>1, <1>3, <1>6, <1>7, <2>2
    <3>2. g[k - i] = s[i + (k - i) - 1]
      BY <1>3, <3>1
    <3>3. r[k] = g[k - i]
      BY <1>1, <1>3, <1>6, <1>7, <2>2
    <3> QED
      BY <2>2, <3>1, <3>2, <3>3
  <2> QED
    BY <2>1, <2>2
<1>9. Len(r) = Len(s) + 1
  BY <1>1, <1>3, <1>6, <1>7
<1> QED
  BY <1>5, <1>7, <1>8, <1>9
=============================================================================
