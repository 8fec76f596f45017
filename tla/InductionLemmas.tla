--------------------------- MODULE InductionLemmas ---------------------------
(***************************************************************************)
(* Induction over numbers without an operator parameter: the property is a *)
(* set of numbers, which a first-order prover can instantiate; and the     *)
(* existence of functions that are defined by recursion or by a loop.      *)
(***************************************************************************)
EXTENDS Integers, Sequences, WellFoundedInduction, TLAPS

(* Every set of numbers that is not empty has a least one.                 *)
LEMMA LeastNumber ==
  ASSUME NEW T \in SUBSET Nat, T # {}
  PROVE  \E n \in T : \A m \in T : n <= m
<1> DEFINE R == OpToRel(<, Nat)
<1>1. IsWellFoundedOn(R, Nat)
  BY NatLessThanWellFounded, Zenon
<1>2. \A m, n \in Nat : m < n => <<m, n>> \in R
  BY DEF OpToRel
<1> HIDE DEF R
<1>3. PICK n \in T : \A m \in T : <<m, n>> \notin R
  BY <1>1, WFMin, Zenon
<1>4. \A m \in T : m \in Nat /\ n \in Nat /\ ~(m < n)
  BY <1>2, <1>3
<1>5. QED
  BY <1>4

(* A set of numbers that holds 0 and every successor holds all numbers.    *)
LEMMA SetInduction ==
  ASSUME NEW S, 0 \in S, \A n \in Nat : n \in S => n + 1 \in S
  PROVE  Nat \subseteq S
<1> SUFFICES ASSUME Nat \ S # {} PROVE FALSE
  OBVIOUS
<1>1. PICK n \in Nat \ S : \A m \in Nat \ S : n <= m
  BY LeastNumber
<1>2. n - 1 \in Nat /\ n - 1 \notin Nat \ S
  BY <1>1
<1>3. QED
  BY <1>1, <1>2

(* For every first value and every step there is a function on 0 .. n that *)
(* is computed by them.                                                    *)
LEMMA RecursionExists ==
  ASSUME NEW S, NEW a \in S, NEW n \in Nat, NEW F \in [(1 .. n) \X S -> S]
  PROVE  \E f \in [0 .. n -> S] :
           f[0] = a /\ \A i \in 1 .. n : f[i] = F[<<i, f[i - 1]>>]
<1> DEFINE Computed(f, m) == /\ f \in [0 .. m -> S] /\ f[0] = a
                             /\ \A i \in 1 .. m : f[i] = F[<<i, f[i - 1]>>]
           Reached == {m \in Nat : m <= n => \E f : Computed(f, m)}
<1>1. 0 \in Reached
  <2> DEFINE f == [i \in 0 .. 0 |-> a]
  <2>1. Computed(f, 0)
    OBVIOUS
  <2> HIDE DEF f, Computed
  <2>2. QED
    BY <2>1
<1>2. ASSUME NEW m \in Nat, m \in Reached
      PROVE  m + 1 \in Reached
  <2> SUFFICES ASSUME m + 1 <= n PROVE \E g : Computed(g, m + 1)
    OBVIOUS
  <2>1. PICK f : Computed(f, m)
    BY <1>2
  <2> DEFINE next == F[<<m + 1, f[m]>>]
             g == [i \in 0 .. m + 1 |-> IF i = m + 1 THEN next ELSE f[i]]
  <2>2. next \in S
    <3>1. f[m] \in S /\ m + 1 \in 1 .. n
      BY <2>1
    <3>2. QED
      BY <3>1
  <2>3. g \in [0 .. m + 1 -> S]
    BY <2>1, <2>2
  <2>4. \A i \in 0 .. m : g[i] = f[i]
    OBVIOUS
  <2>5. g[m + 1] = next
    OBVIOUS
  <2> HIDE DEF g
  <2>6. ASSUME NEW i \in 1 .. m + 1 PROVE g[i] = F[<<i, g[i - 1]>>]
    <3>1. CASE i = m + 1
      BY <2>4, <2>5, <3>1
    <3>2. CASE i \in 1 .. m
      <4>1. g[i] = f[i] /\ g[i - 1] = f[i - 1]
        BY <2>4, <3>2
      <4>2. QED
        BY <2>1, <3>2, <4>1
    <3>3. QED
      BY <3>1, <3>2
  <2>7. g[0] = a
    BY <2>1, <2>4
  <2>8. QED
    BY <2>3, <2>6, <2>7
<1> HIDE DEF Computed
<1>3. n \in Reached
  <2> HIDE DEF Reached
  <2>1. QED
    BY <1>1, <1>2, SetInduction
<1>4. PICK f : Computed(f, n)
  BY <1>3
<1>5. QED
  BY <1>4 DEF Computed

(* The same for functions whose values are numbers.                        *)
LEMMA NumbersByRecursion ==
  ASSUME NEW a \in Nat, NEW n \in Nat, NEW F \in [(1 .. n) \X Nat -> Nat]
  PROVE  \E f \in [0 .. n -> Nat] :
           f[0] = a /\ \A i \in 1 .. n : f[i] = F[<<i, f[i - 1]>>]
<1> DEFINE Computed(S, x, m, G) ==
             \E f \in [0 .. m -> S] : f[0] = x /\ \A i \in 1 .. m : f[i] = G[<<i, f[i - 1]>>]
<1>1. \A S : \A x \in S : \A m \in Nat : \A G \in [(1 .. m) \X S -> S] : Computed(S, x, m, G)
  BY RecursionExists
<1>2. Computed(Nat, a, n, F)
  <2> HIDE DEF Computed
  <2>1. QED
    BY <1>1
<1>3. QED
  BY <1>2

(* A loop with a number that falls in every turn, until it is 0, has a     *)
(* value for every state it can begin in.                                  *)
LEMMA LoopExists ==
  ASSUME NEW D, NEW S, NEW M \in [D -> Nat], NEW V \in [D -> S], NEW T \in [D -> D],
         \A x \in D : M[x] # 0 => M[T[x]] < M[x]
  PROVE  \E f \in [D -> S] : \A x \in D : f[x] = IF M[x] = 0 THEN V[x] ELSE f[T[x]]
<1> DEFINE Turned(f, x) == IF M[x] = 0 THEN V[x] ELSE f[T[x]]
           Good(f, n) == f \in [D -> S] /\ \A x \in D : M[x] < n => f[x] = Turned(f, x)
           Reached == {n \in Nat : \E f : Good(f, n)}
           Agreed == {n \in Nat : \A x \in D : M[x] < n =>
                        \A i, j \in Nat : \A f, g :
                          Good(f, i) /\ Good(g, j) /\ M[x] < i /\ M[x] < j => f[x] = g[x]}
<1>1. 0 \in Reached
  <2>1. Good(V, 0)
    OBVIOUS
  <2> HIDE DEF Good
  <2>. QED BY <2>1
<1>2. ASSUME NEW n \in Nat, n \in Reached
      PROVE  n + 1 \in Reached
  <2>1. PICK f : Good(f, n)
    BY <1>2
  <2> DEFINE g == [x \in D |-> IF M[x] < n THEN f[x] ELSE Turned(f, x)]
  <2>2. g \in [D -> S]
    BY <2>1
  <2>3. \A x \in D : g[x] = Turned(f, x) \/ ~(M[x] < n + 1)
    BY <2>1
  <2>4. \A x \in D : M[x] < n => g[x] = f[x]
    OBVIOUS
  <2> HIDE DEF g
  <2>5. \A x \in D : M[x] < n + 1 => g[x] = Turned(g, x)
    <3> SUFFICES ASSUME NEW x \in D, M[x] < n + 1 PROVE g[x] = Turned(g, x)
      OBVIOUS
    <3>1. g[x] = Turned(f, x)
      BY <2>3
    <3>2. M[x] # 0 => g[T[x]] = f[T[x]]
      BY <2>4
    <3>. QED BY <3>1, <3>2
  <2>6. Good(g, n + 1)
    BY <2>2, <2>5
  <2> HIDE DEF Good
  <2>. QED BY <2>6
<1>3. 0 \in Agreed
  OBVIOUS
<1>4. ASSUME NEW n \in Nat, n \in Agreed
      PROVE  n + 1 \in Agreed
  <2> SUFFICES ASSUME NEW x \in D, M[x] < n + 1, NEW i \in Nat, NEW j \in Nat, NEW f, NEW g,
                      Good(f, i), Good(g, j), M[x] < i, M[x] < j
               PROVE  f[x] = g[x]
    OBVIOUS
  <2>1. f[x] = Turned(f, x) /\ g[x] = Turned(g, x)
    OBVIOUS
  <2>2. CASE M[x] = 0
    BY <2>1, <2>2
  <2>3. CASE M[x] # 0
    <3>1. T[x] \in D /\ M[T[x]] < n /\ M[T[x]] < i /\ M[T[x]] < j
      BY <2>3
    <3> HIDE DEF Good
    <3>2. f[T[x]] = g[T[x]]
      BY <1>4, <3>1
    <3>. QED BY <2>1, <2>3, <3>2
  <2>. QED BY <2>2, <2>3
<1> HIDE DEF Good
<1>5. \A n \in Nat : n \in Reached /\ n \in Agreed
  <2> HIDE DEF Reached, Agreed
  <2>. QED BY <1>1, <1>2, <1>3, <1>4, SetInduction
<1> DEFINE F(n) == CHOOSE f : Good(f, n)
           h == [x \in D |-> F(M[x] + 1)[x]]
<1>6. \A n \in Nat : Good(F(n), n)
  BY <1>5
<1>7. \A x \in D : M[x] + 1 \in Nat /\ M[x] < M[x] + 1
  OBVIOUS
<1>8. \A x \in D : h[x] = F(M[x] + 1)[x] /\ Good(F(M[x] + 1), M[x] + 1)
  BY <1>6, <1>7
<1>9. h \in [D -> S]
  BY <1>8 DEF Good
<1> HIDE DEF h, F
<1>10. \A x \in D : h[x] = Turned(h, x)
  <2> SUFFICES ASSUME NEW x \in D PROVE h[x] = Turned(h, x)
    OBVIOUS
  <2>1. h[x] = Turned(F(M[x] + 1), x)
    BY <1>7, <1>8 DEF Good
  <2>2. CASE M[x] # 0
    <3>1. T[x] \in D /\ M[T[x]] < M[x] + 1
      BY <2>2
    <3>2. F(M[x] + 1)[T[x]] = F(M[T[x]] + 1)[T[x]]
      BY <1>5, <1>7, <1>8, <3>1
    <3>. QED BY <1>8, <2>1, <2>2, <3>1, <3>2
  <2>. QED BY <2>1, <2>2
<1>. QED BY <1>9, <1>10
=============================================================================
