---------------------- MODULE DecryptionCeremonyProofs ----------------------
(***************************************************************************)
(* Proofs about DecryptionCeremony, for any number of trustees, of server  *)
(* actions under way, of calls and of crashes; and before them, what the   *)
(* sharing of Threshold gives, for every field, key, coefficient and       *)
(* choice of shares.                                                       *)
(***************************************************************************)
EXTENDS DecryptionCeremony, FiniteSetTheorems, InductionLemmas, TLAPS

(* The congruence the arithmetic of the code computes with.                *)
Congruent(a, b) == \E k \in Int : a = b + k * FIELD_PRIME

-----------------------------------------------------------------------------
(* A number is congruent to its remainder, which is in the field.          *)
LEMMA ModCongruent ==
  ASSUME NEW n \in Int
  PROVE  Mod(n) \in 0 .. FIELD_PRIME - 1 /\ Congruent(n, Mod(n))
<1>1. FIELD_PRIME \in Int /\ FIELD_PRIME > 0
  BY FieldAssumption
<1>2. n % FIELD_PRIME \in 0 .. FIELD_PRIME - 1
  BY <1>1, SMT
<1>3. n = (n % FIELD_PRIME) + (n \div FIELD_PRIME) * FIELD_PRIME
  BY <1>1, SMT
<1>4. n \div FIELD_PRIME \in Int
  BY <1>1, SMT
<1>. QED
  BY <1>2, <1>3, <1>4 DEF Mod, Congruent

(* No two members of the field are congruent.                              *)
LEMMA CongruentInField ==
  ASSUME NEW a \in 0 .. FIELD_PRIME - 1, NEW b \in 0 .. FIELD_PRIME - 1,
         Congruent(a, b)
  PROVE  a = b
<1>1. FIELD_PRIME \in Int /\ FIELD_PRIME > 0
  BY FieldAssumption
<1>2. PICK k \in Int : a = b + k * FIELD_PRIME
  BY DEF Congruent
<1>3. k >= 1 => k * FIELD_PRIME >= FIELD_PRIME
  BY <1>1, SMT
<1>4. k <= -1 => k * FIELD_PRIME <= -FIELD_PRIME
  BY <1>1, SMT
<1>5. k = 0
  BY <1>1, <1>2, <1>3, <1>4, SMT
<1>. QED
  BY <1>1, <1>2, <1>5, SMT

(* Congruence is an equivalence that sums, differences and products keep.  *)
LEMMA CongruentLaws ==
  ASSUME NEW a \in Int, NEW b \in Int, NEW c \in Int
  PROVE  /\ Congruent(a, a)
         /\ Congruent(a, b) => Congruent(b, a)
         /\ Congruent(a, b) /\ Congruent(b, c) => Congruent(a, c)
         /\ Congruent(a, b) => Congruent(a * c, b * c)
         /\ Congruent(a, b) <=> Congruent(a - b, 0)
<1>1. FIELD_PRIME \in Int /\ FIELD_PRIME > 0
  BY FieldAssumption
<1>2. Congruent(a, a)
  <2>1. a = a + 0 * FIELD_PRIME
    BY <1>1, SMT
  <2>. QED BY <2>1 DEF Congruent
<1>3. ASSUME Congruent(a, b) PROVE Congruent(b, a)
  <2>1. PICK k \in Int : a = b + k * FIELD_PRIME
    BY <1>3 DEF Congruent
  <2>2. b = a + (-k) * FIELD_PRIME /\ -k \in Int
    BY <1>1, <2>1, SMT
  <2>. QED BY <2>2 DEF Congruent
<1>4. ASSUME Congruent(a, b), Congruent(b, c) PROVE Congruent(a, c)
  <2>1. PICK k \in Int : a = b + k * FIELD_PRIME
    BY <1>4 DEF Congruent
  <2>2. PICK j \in Int : b = c + j * FIELD_PRIME
    BY <1>4 DEF Congruent
  <2>3. a = c + (k + j) * FIELD_PRIME /\ k + j \in Int
    BY <1>1, <2>1, <2>2, SMT
  <2>. QED BY <2>3 DEF Congruent
<1>5. ASSUME Congruent(a, b) PROVE Congruent(a * c, b * c)
  <2>1. PICK k \in Int : a = b + k * FIELD_PRIME
    BY <1>5 DEF Congruent
  <2>2. a * c = b * c + (k * c) * FIELD_PRIME /\ k * c \in Int
    BY <1>1, <2>1, SMT
  <2>. QED BY <2>2 DEF Congruent
<1>6. ASSUME Congruent(a, b) PROVE Congruent(a - b, 0)
  <2>1. PICK k \in Int : a = b + k * FIELD_PRIME
    BY <1>6 DEF Congruent
  <2>2. a - b = 0 + k * FIELD_PRIME
    BY <1>1, <2>1, SMT
  <2>. QED BY <2>2 DEF Congruent
<1>7. ASSUME Congruent(a - b, 0) PROVE Congruent(a, b)
  <2>1. PICK k \in Int : a - b = 0 + k * FIELD_PRIME
    BY <1>7 DEF Congruent
  <2>2. a = b + k * FIELD_PRIME
    BY <1>1, <2>1, SMT
  <2>. QED BY <2>2 DEF Congruent
<1>. QED
  BY <1>2, <1>3, <1>4, <1>5, <1>6, <1>7

(* The laws one by one.                                                    *)
LEMMA Turned ==
  ASSUME NEW a \in Int, NEW b \in Int, Congruent(a, b)
  PROVE  Congruent(b, a)
BY CongruentLaws

(* Congruence is transitive.                                               *)
LEMMA Chained ==
  ASSUME NEW a \in Int, NEW b \in Int, NEW c \in Int, Congruent(a, b), Congruent(b, c)
  PROVE  Congruent(a, c)
BY CongruentLaws

(* Products keep congruence.                                               *)
LEMMA Multiplied ==
  ASSUME NEW a \in Int, NEW b \in Int, NEW c \in Int, Congruent(a, b)
  PROVE  Congruent(a * c, b * c)
BY CongruentLaws

-----------------------------------------------------------------------------
Divides(d, n) == \E k \in Int : n = k * d

(* A turn of Euclid's loop leaves a smaller remainder.                     *)
LEMMA EuclidTurn ==
  ASSUME NEW s \in EuclidStates, s.newR # 0
  PROVE  /\ Turn(s) \in EuclidStates /\ Turn(s).newR < s.newR
         /\ \E q \in Int : /\ Turn(s).t = s.newT /\ Turn(s).newT = s.t - q * s.newT
                           /\ Turn(s).r = s.newR /\ Turn(s).newR = s.r - q * s.newR
<1>1. s.t \in Int /\ s.newT \in Int /\ s.r \in Nat /\ s.newR \in Nat \ {0}
  BY DEF EuclidStates
<1>2. PICK a, b : a = s.r /\ b = s.newR
  OBVIOUS
<1>3. a \in Nat /\ b \in Nat \ {0}
  BY <1>1, <1>2
<1>4. a \div b \in Int /\ a % b \in 0 .. b - 1 /\ a = (a % b) + (a \div b) * b
  <2>1. a \in Int /\ b \in Int /\ b > 0
    BY <1>3
  <2>2. a \div b \in Int
    BY <2>1, SMT
  <2>3. a % b \in 0 .. b - 1
    BY <2>1, SMT
  <2>4. a = (a % b) + (a \div b) * b
    BY <2>1, SMT
  <2>. QED BY <2>2, <2>3, <2>4
<1>5. PICK q \in Int : q = a \div b
  BY <1>4
<1>6. a - q * b \in Nat /\ a - q * b < b
  <2>1. PICK m \in Nat : m = a % b /\ m < b
    BY <1>3, <1>4
  <2>2. a - q * b = m
    BY <1>3, <1>4, <1>5, <2>1
  <2>. QED BY <2>1, <2>2
<1>7. PICK n \in Nat : n = a - q * b /\ n < b
  BY <1>6
<1>8. PICK u \in Int : u = s.t - q * s.newT
  BY <1>1
<1>9. Turn(s) = [t |-> s.newT, newT |-> u, r |-> b, newR |-> n]
  BY <1>2, <1>5, <1>7, <1>8 DEF Turn
<1>10. Turn(s) \in EuclidStates
  BY <1>1, <1>3, <1>9 DEF EuclidStates
<1>11. /\ Turn(s).t = s.newT /\ Turn(s).newT = s.t - q * s.newT
       /\ Turn(s).r = s.newR /\ Turn(s).newR = s.r - q * s.newR
  <2>1. Turn(s).t = s.newT /\ Turn(s).newT = u /\ Turn(s).r = b /\ Turn(s).newR = n
    BY <1>9
  <2>. QED BY <1>2, <1>7, <1>8, <2>1
<1>12. Turn(s).newR < s.newR
  BY <1>2, <1>7, <1>9
<1>. QED BY <1>10, <1>11, <1>12

(* The loop ends: what it leaves is computed turn by turn.                 *)
LEMMA EuclidLoop ==
  ASSUME NEW s \in EuclidStates
  PROVE  /\ Euclid[s] \in Int
         /\ s.newR = 0 => Euclid[s] = s.t
         /\ s.newR # 0 => Euclid[s] = Euclid[Turn(s)]
<1> DEFINE M == [x \in EuclidStates |-> x.newR]
           V == [x \in EuclidStates |-> x.t]
           T == [x \in EuclidStates |-> IF x.newR = 0 THEN x ELSE Turn(x)]
           Step(f, x) == IF x.newR = 0 THEN x.t ELSE f[Turn(x)]
<1>1. M \in [EuclidStates -> Nat] /\ V \in [EuclidStates -> Int]
  BY DEF EuclidStates
<1>2. T \in [EuclidStates -> EuclidStates]
  BY EuclidTurn
<1>3. \A x \in EuclidStates : M[x] # 0 => M[T[x]] < M[x]
  BY EuclidTurn
<1>4. PICK f \in [EuclidStates -> Int] :
        \A x \in EuclidStates : f[x] = IF M[x] = 0 THEN V[x] ELSE f[T[x]]
  <2> HIDE DEF M, V, T
  <2> DEFINE Falls(D, m, n) == \A x \in D : m[x] # 0 => m[n[x]] < m[x]
             Valued(D, S, m, v, n) ==
               \E f \in [D -> S] : \A x \in D : f[x] = IF m[x] = 0 THEN v[x] ELSE f[n[x]]
  <2>1. \A D, S : \A m \in [D -> Nat] : \A v \in [D -> S] : \A n \in [D -> D] :
          Falls(D, m, n) => Valued(D, S, m, v, n)
    BY LoopExists
  <2>2. Falls(EuclidStates, M, T)
    BY <1>3
  <2>3. Valued(EuclidStates, Int, M, V, T)
    <3> HIDE DEF Falls, Valued
    <3>. QED BY <1>1, <1>2, <2>1, <2>2
  <2>. QED BY <2>3
<1>5. \A x \in EuclidStates : f[x] = Step(f, x)
  BY <1>4
<1>6. f = [x \in EuclidStates |-> Step(f, x)]
  BY <1>5
<1>7. Euclid = CHOOSE g : g = [x \in EuclidStates |-> Step(g, x)]
  BY DEF Euclid
<1>8. Euclid = [x \in EuclidStates |-> Step(Euclid, x)]
  BY <1>6, <1>7
<1>9. Euclid[s] = Step(Euclid, s)
  BY <1>8
<1> DEFINE Agreed == {n \in Nat : \A x \in EuclidStates : x.newR < n => Euclid[x] = f[x]}
<1>10. 0 \in Agreed
  BY DEF EuclidStates
<1>11. ASSUME NEW n \in Nat, n \in Agreed
       PROVE  n + 1 \in Agreed
  <2> SUFFICES ASSUME NEW x \in EuclidStates, x.newR < n + 1 PROVE Euclid[x] = f[x]
    OBVIOUS
  <2>1. Euclid[x] = Step(Euclid, x) /\ f[x] = Step(f, x)
    BY <1>5, <1>8
  <2>2. x.newR # 0 => Euclid[Turn(x)] = f[Turn(x)]
    <3> SUFFICES ASSUME x.newR # 0 PROVE Euclid[Turn(x)] = f[Turn(x)]
      OBVIOUS
    <3>1. Turn(x) \in EuclidStates /\ Turn(x).newR < x.newR
      BY EuclidTurn
    <3>2. Turn(x).newR \in Nat /\ x.newR \in Nat
      BY <3>1 DEF EuclidStates
    <3>3. Turn(x).newR < n
      BY <3>1, <3>2
    <3>. QED BY <1>11, <3>1, <3>3
  <2>. QED BY <2>1, <2>2
<1>12. s.newR + 1 \in Agreed
  <2>1. s.newR + 1 \in Nat
    BY DEF EuclidStates
  <2> HIDE DEF Agreed
  <2>. QED BY <1>10, <1>11, <2>1, SetInduction
<1>13. Euclid[s] = f[s]
  <2>1. s.newR < s.newR + 1
    BY DEF EuclidStates
  <2>. QED BY <1>12, <2>1
<1>. QED BY <1>9, <1>13

(* A divisor of a remainder and of the divisor divides the dividend.       *)
LEMMA DividesDividend ==
  ASSUME NEW g \in Int, NEW m \in Int, NEW n \in Int, NEW q \in Int,
         Divides(g, m), Divides(g, n - q * m)
  PROVE  Divides(g, n)
<1>1. PICK j \in Int : m = j * g
  BY DEF Divides
<1>2. PICK k \in Int : n - q * m = k * g
  BY DEF Divides
<1>3. q * m = (q * j) * g
  BY <1>1, SMT
<1>4. n = (k + q * j) * g /\ k + q * j \in Int
  BY <1>2, <1>3, SMT
<1>. QED BY <1>4 DEF Divides

(* The combination of two remainders is that of their cofactors.           *)
LEMMA CombinationsCongruent ==
  ASSUME NEW a \in Int, NEW r \in Int, NEW n \in Int, NEW t \in Int, NEW u \in Int,
         NEW q \in Int, Congruent(r, t * a), Congruent(n, u * a)
  PROVE  Congruent(r - q * n, (t - q * u) * a)
<1>1. FIELD_PRIME \in Int
  BY FieldAssumption
<1>2. PICK j \in Int : r = t * a + j * FIELD_PRIME
  BY DEF Congruent
<1>3. PICK k \in Int : n = u * a + k * FIELD_PRIME
  BY DEF Congruent
<1>4. q * n = (q * u) * a + (q * k) * FIELD_PRIME
  BY <1>1, <1>3, SMT
<1>5. (t - q * u) * a = t * a - (q * u) * a
  BY SMT
<1>6. r - q * n = (t - q * u) * a + (j - q * k) * FIELD_PRIME
  <2>1. PICK x, y, z, w, v : /\ x = t * a /\ y = (q * u) * a /\ z = j * FIELD_PRIME
                             /\ w = (q * k) * FIELD_PRIME /\ v = (j - q * k) * FIELD_PRIME
    OBVIOUS
  <2>2. x \in Int /\ y \in Int /\ z \in Int /\ w \in Int /\ v = z - w
    BY <1>1, <2>1, SMT
  <2>. QED BY <1>2, <1>4, <1>5, <2>1, <2>2
<1>. QED BY <1>6 DEF Congruent

(* Euclid's loop keeps that r is t times a, and newR newT times a, in the  *)
(* field, so it leaves the cofactor of a common divisor.                   *)
LEMMA EuclidDivides ==
  ASSUME NEW a \in Int, NEW s \in EuclidStates,
         Congruent(s.r, s.t * a), Congruent(s.newR, s.newT * a)
  PROVE  \E g \in Nat : /\ Divides(g, s.r) /\ Divides(g, s.newR)
                        /\ Congruent(g, Euclid[s] * a)
<1> DEFINE Kept(x) == Congruent(x.r, x.t * a) /\ Congruent(x.newR, x.newT * a)
           Found(x) == \E g \in Nat : /\ Divides(g, x.r) /\ Divides(g, x.newR)
                                      /\ Congruent(g, Euclid[x] * a)
           Proved == {n \in Nat : \A x \in EuclidStates : x.newR < n /\ Kept(x) => Found(x)}
<1>1. 0 \in Proved
  BY DEF EuclidStates
<1>2. ASSUME NEW n \in Nat, n \in Proved
      PROVE  n + 1 \in Proved
  <2> SUFFICES ASSUME NEW x \in EuclidStates, x.newR < n + 1, Kept(x) PROVE Found(x)
    OBVIOUS
  <2>1. x.t \in Int /\ x.newT \in Int /\ x.r \in Nat /\ x.newR \in Nat
    BY DEF EuclidStates
  <2>2. CASE x.newR = 0
    <3>1. Congruent(x.r, Euclid[x] * a)
      BY <2>2, EuclidLoop
    <3>2. Divides(x.r, x.r) /\ Divides(x.r, x.newR)
      <4>1. x.r = 1 * x.r /\ x.newR = 0 * x.r
        BY <2>1, <2>2, SMT
      <4>. QED BY <4>1 DEF Divides
    <3>. QED BY <2>1, <3>1, <3>2
  <2>3. CASE x.newR # 0
    <3>1. /\ Turn(x) \in EuclidStates /\ Turn(x).newR < x.newR
          /\ Euclid[x] = Euclid[Turn(x)]
      BY <2>3, EuclidTurn, EuclidLoop
    <3>2. PICK q \in Int : /\ Turn(x).t = x.newT /\ Turn(x).newT = x.t - q * x.newT
                           /\ Turn(x).r = x.newR /\ Turn(x).newR = x.r - q * x.newR
      BY <2>3, EuclidTurn
    <3>3. Kept(Turn(x))
      <4>1. Congruent(x.r - q * x.newR, (x.t - q * x.newT) * a)
        <5>1. /\ x.r \in Int /\ x.newR \in Int
              /\ Congruent(x.r, x.t * a) /\ Congruent(x.newR, x.newT * a)
          BY <2>1
        <5>. QED BY <2>1, <5>1, CombinationsCongruent, Zenon
      <4>. QED BY <3>2, <4>1
    <3>4. Turn(x).newR < n
      <4>1. Turn(x).newR \in Nat
        BY <3>1 DEF EuclidStates
      <4>. QED BY <2>1, <3>1, <4>1
    <3>5. PICK g \in Nat : /\ Divides(g, Turn(x).r) /\ Divides(g, Turn(x).newR)
                           /\ Congruent(g, Euclid[Turn(x)] * a)
      BY <1>2, <3>1, <3>3, <3>4
    <3>6. Divides(g, x.newR) /\ Divides(g, x.r - q * x.newR)
      BY <3>2, <3>5
    <3>7. Divides(g, x.r)
      BY <2>1, <3>6, DividesDividend
    <3>. QED BY <3>1, <3>5, <3>6, <3>7
  <2>. QED BY <2>2, <2>3
<1>3. s.newR + 1 \in Proved
  <2>1. s.newR + 1 \in Nat
    BY DEF EuclidStates
  <2> HIDE DEF Proved
  <2>. QED BY <1>1, <1>2, <2>1, SetInduction
<1>4. s.newR < s.newR + 1
  BY DEF EuclidStates
<1>. QED BY <1>3, <1>4

(* A prime and a smaller number have no divisor in common but 1.           *)
LEMMA PrimeDivisor ==
  ASSUME NEW a \in 1 .. FIELD_PRIME - 1, NEW g \in Nat, Divides(g, FIELD_PRIME), Divides(g, a)
  PROVE  g = 1
<1>1. FIELD_PRIME \in Nat /\ FIELD_PRIME >= 2 /\ a \in Nat /\ a >= 1 /\ a < FIELD_PRIME
  BY FieldAssumption, PrimeAssumption
<1>2. PICK j \in Int : a = j * g
  BY DEF Divides
<1>3. PICK k \in Int : FIELD_PRIME = k * g
  BY DEF Divides
<1>4. g >= 1 /\ j >= 1
  BY <1>1, <1>2, SMT
<1>5. g <= a
  BY <1>1, <1>2, <1>4, SMT
<1>6. FIELD_PRIME % g = 0
  <2>1. PICK m, d : m = FIELD_PRIME % g /\ d = FIELD_PRIME \div g
    OBVIOUS
  <2>2. m \in 0 .. g - 1 /\ d \in Int /\ FIELD_PRIME = g * d + m
    BY <1>1, <1>4, <2>1, SMT
  <2>3. (k - d) * g = m
    BY <1>3, <1>4, <2>2, SMT
  <2>4. k - d >= 1 => (k - d) * g >= g
    BY <1>4, <2>2, SMT
  <2>5. k - d <= -1 => (k - d) * g <= -g
    BY <1>4, <2>2, SMT
  <2>6. k - d = 0
    BY <1>4, <2>2, <2>3, <2>4, <2>5, SMT
  <2>7. (k - d) * g = 0
    BY <2>6
  <2>. QED BY <2>1, <2>3, <2>7
<1>7. g \notin 2 .. FIELD_PRIME - 1
  BY <1>6, PrimeAssumption
<1>. QED BY <1>1, <1>4, <1>5, <1>7

(* modInv inverts every number of the field but 0, for every prime.        *)
THEOREM InverseInverts ==
  ASSUME NEW a \in 1 .. FIELD_PRIME - 1
  PROVE  ModInv(a) \in Int /\ Mod(a * ModInv(a)) = 1
<1>1. /\ FIELD_PRIME \in Nat /\ FIELD_PRIME >= 2
      /\ a \in Int /\ a \in 0 .. FIELD_PRIME - 1 /\ 1 \in 0 .. FIELD_PRIME - 1
  BY FieldAssumption, PrimeAssumption
<1>2. Mod(a) = a
  BY <1>1, ModCongruent, CongruentInField
<1> DEFINE s == [t |-> 0, newT |-> 1, r |-> FIELD_PRIME, newR |-> a]
<1>3. /\ s \in EuclidStates
      /\ s.t = 0 /\ s.newT = 1 /\ s.r = FIELD_PRIME /\ s.newR = a
  BY <1>1 DEF EuclidStates
<1>4. ModInv(a) = Mod(Euclid[s])
  BY <1>2 DEF ModInv
<1> HIDE DEF s
<1>5. Congruent(s.r, s.t * a)
  <2>1. FIELD_PRIME = 0 * a + 1 * FIELD_PRIME
    BY <1>1, SMT
  <2>. QED BY <1>3, <2>1 DEF Congruent
<1>6. Congruent(s.newR, s.newT * a)
  <2>1. a = 1 * a + 0 * FIELD_PRIME
    BY <1>1, SMT
  <2>. QED BY <1>3, <2>1 DEF Congruent
<1>7. PICK e \in Int : e = Euclid[s]
  BY <1>3, EuclidLoop
<1>8. PICK g \in Nat : Divides(g, FIELD_PRIME) /\ Divides(g, a) /\ Congruent(g, e * a)
  BY <1>1, <1>3, <1>5, <1>6, <1>7, EuclidDivides
<1>9. Congruent(1, e * a)
  BY <1>8, PrimeDivisor
<1>10. PICK i \in Int : i = Mod(e) /\ Congruent(e, i)
  BY <1>1, ModCongruent
<1>11. Congruent(e * a, i * a) /\ e * a \in Int /\ i * a \in Int /\ a * i = i * a
  <2>1. e * a \in Int /\ i * a \in Int /\ a * i = i * a
    BY <1>1, <1>10
  <2>. QED BY <1>1, <1>10, <2>1, Multiplied, Zenon
<1>12. Congruent(i * a, 1)
  <2>1. Congruent(1, i * a)
    BY <1>9, <1>11, Chained
  <2>. QED BY <1>11, <2>1, Turned
<1>13. Mod(i * a) \in 0 .. FIELD_PRIME - 1 /\ Congruent(Mod(i * a), 1)
  <2>1. /\ Mod(i * a) \in 0 .. FIELD_PRIME - 1 /\ Congruent(i * a, Mod(i * a))
    BY <1>11, ModCongruent
  <2>2. Mod(i * a) \in Int
    BY <1>1, <2>1
  <2>3. Congruent(Mod(i * a), i * a)
    BY <1>11, <2>1, <2>2, Turned
  <2>. QED BY <1>11, <1>12, <2>1, <2>2, <2>3, Chained
<1>14. Mod(i * a) = 1
  BY <1>1, <1>13, CongruentInField
<1>. QED BY <1>4, <1>7, <1>10, <1>11, <1>14

-----------------------------------------------------------------------------
(* What is not a multiple of the prime has an inverse, so it cancels.      *)
LEMMA Cancels ==
  ASSUME NEW u \in Int, NEW v \in Int, ~Congruent(v, 0), Congruent(u * v, 0)
  PROVE  Congruent(u, 0)
<1>. DEFINE d == Mod(v)
<1>. DEFINE i == ModInv(d)
<1>1. d \in Int /\ Congruent(v, d) /\ d \in 0 .. FIELD_PRIME - 1
  BY ModCongruent, FieldAssumption
<1>2. d \in 1 .. FIELD_PRIME - 1
  BY <1>1, FieldAssumption
<1>3. i \in Int /\ Mod(d * i) = 1
  BY <1>2, InverseInverts
<1>. HIDE DEF d, i
<1>4. Congruent(d * i, 1)
  BY <1>1, <1>3, ModCongruent
<1>5. Congruent(v * i, 1)
  <2>1. Congruent(v * i, d * i)
    BY <1>1, <1>3, CongruentLaws
  <2>. QED BY <1>1, <1>3, <1>4, <2>1, CongruentLaws
<1>6. Congruent((v * i) * u, 1 * u)
  <2>1. v * i \in Int /\ 1 \in Int
    BY <1>3
  <2>. QED BY <1>5, <2>1, Multiplied, Zenon
<1>7. Congruent((u * v) * i, 0 * i)
  <2>1. u * v \in Int /\ 0 \in Int /\ i \in Int
    BY <1>3
  <2>. QED BY <2>1, Multiplied, Zenon
<1>8. (u * v) * i = (v * i) * u /\ 0 * i = 0 /\ 1 * u = u /\ (u * v) * i \in Int
  BY <1>3, SMT
<1>. QED
  BY <1>6, <1>7, <1>8, CongruentLaws

(* Two coordinates that differ do so in the field as well.                 *)
LEMMA CoordinatesDiffer ==
  ASSUME NEW x \in 1 .. MaxX, NEW z \in 0 .. MaxX, x # z
  PROVE  ~Congruent(x - z, 0)
<1>1. SUFFICES ASSUME Congruent(x - z, 0) PROVE FALSE
  OBVIOUS
<1>2. Congruent(x, z)
  BY <1>1, FieldAssumption, CongruentLaws
<1>3. x \in 0 .. FIELD_PRIME - 1 /\ z \in 0 .. FIELD_PRIME - 1
  BY FieldAssumption
<1>. QED
  BY <1>2, <1>3, CongruentInField

(* The key two shares give is the point at 0 of the line through them.     *)
LEMMA InterpolateOnLine ==
  ASSUME NEW a \in SharePayload, NEW b \in SharePayload, a.x # b.x
  PROVE  /\ Interpolate(a, b) \in 0 .. FIELD_PRIME - 1
         /\ Congruent(Interpolate(a, b) * (b.x - a.x), a.y * b.x - b.y * a.x)
<1>. DEFINE X == b.x - a.x
<1>. DEFINE N == a.y * b.x - b.y * a.x
<1>. DEFINE d == Mod(X)
<1>. DEFINE n == Mod(N)
<1>. DEFINE i == ModInv(d)
<1>. DEFINE k == Interpolate(a, b)
<1>1. a.x \in 1 .. MaxX /\ b.x \in 1 .. MaxX /\ a.y \in Int /\ b.y \in Int
  BY DEF SharePayload
<1>2. X \in Int /\ N \in Int
  BY <1>1, FieldAssumption
<1>3. ~Congruent(X, 0)
  <2>1. a.x \in 0 .. MaxX
    BY <1>1, FieldAssumption
  <2>. QED BY <1>1, <2>1, CoordinatesDiffer
<1>4. k = Mod(n * i)
  BY DEF Interpolate
<1>. HIDE DEF X, N, k
<1>5. d \in Int /\ Congruent(X, d) /\ d \in 0 .. FIELD_PRIME - 1
  BY <1>2, ModCongruent, FieldAssumption
<1>6. n \in Int /\ Congruent(N, n)
  BY <1>2, ModCongruent, FieldAssumption
<1>7. d \in 1 .. FIELD_PRIME - 1
  BY <1>3, <1>5, FieldAssumption
<1>8. i \in Int /\ Mod(d * i) = 1
  BY <1>7, InverseInverts
<1>. HIDE DEF d, n, i
<1>9. n * i \in Int /\ d * i \in Int
  BY <1>5, <1>6, <1>8
<1>10. k \in 0 .. FIELD_PRIME - 1 /\ k \in Int /\ Congruent(n * i, k)
  BY <1>4, <1>9, ModCongruent, FieldAssumption
<1>11. Congruent(d * i, 1)
  BY <1>8, <1>9, ModCongruent
<1>12. Congruent(X * k, d * k) /\ Congruent((n * i) * d, k * d)
  BY <1>2, <1>5, <1>9, <1>10, CongruentLaws
<1>13. Congruent((d * i) * n, 1 * n)
  <2>1. 1 \in Int
    OBVIOUS
  <2>. QED BY <1>6, <1>9, <1>11, <2>1, Multiplied, Zenon
<1>14. /\ X * k = k * X /\ d * k = k * d /\ (n * i) * d = (d * i) * n /\ 1 * n = n
       /\ k * X \in Int /\ k * d \in Int /\ (d * i) * n \in Int
  BY <1>2, <1>5, <1>6, <1>8, <1>10, SMT
<1>15. Congruent(k * X, (d * i) * n)
  <2>1. Congruent(k * X, k * d) /\ Congruent((d * i) * n, k * d)
    BY <1>12, <1>14, Zenon
  <2>2. Congruent(k * d, (d * i) * n)
    BY <1>14, <2>1, Turned, Zenon
  <2>. QED BY <1>14, <2>1, <2>2, Chained, Zenon
<1>16. Congruent(k * X, N)
  <2>1. Congruent((d * i) * n, n) /\ Congruent(n, N)
    BY <1>2, <1>6, <1>13, <1>14, Turned, Zenon
  <2>2. Congruent(k * X, n)
    BY <1>6, <1>14, <1>15, <2>1, Chained, Zenon
  <2>. QED BY <1>2, <1>6, <1>14, <2>1, <2>2, Chained, Zenon
<1>. QED
  BY <1>10, <1>16 DEF k, X, N

(* The ordinate of a share dealt lies on the line of its dealing.          *)
LEMMA DealtOnLine ==
  ASSUME NEW d \in Coefficients, NEW s \in Dealing(d)
  PROVE  s.x \in 1 .. 3 /\ s.y \in Int /\ Congruent(s.y, Secret + d * s.x)
<1>1. PICK i \in 1 .. 3 : s = [x |-> i, y |-> Mod(Secret + d * i)]
  BY DEF Dealing
<1>2. Secret \in Int /\ d \in Int
  BY FieldAssumption DEF Coefficients
<1>3. Secret + d * i \in Int
  BY <1>1, <1>2
<1>4. s.x = i /\ s.y = Mod(Secret + d * s.x)
  BY <1>1
<1>5. s.y \in Int /\ Congruent(Secret + d * s.x, s.y)
  BY <1>3, <1>4, ModCongruent, FieldAssumption
<1>. QED
  BY <1>1, <1>3, <1>4, <1>5, CongruentLaws

(* Shares dealt are shares, and the field they are from has the secret.    *)
LEMMA DealtAreShares ==
  ASSUME NEW d \in Coefficients, NEW s \in Dealing(d)
  PROVE  s \in SharePayload /\ s.x \in 1 .. MaxX /\ Secret \in 0 .. FIELD_PRIME - 1
<1>1. PICK i \in 1 .. 3 : s = [x |-> i, y |-> Mod(Secret + d * i)]
  BY DEF Dealing
<1>2. Secret + d * i \in Int
  BY <1>1, FieldAssumption DEF Coefficients
<1>3. Mod(Secret + d * i) \in 0 .. FIELD_PRIME - 1
  BY <1>2, ModCongruent
<1>4. Mod(Secret + d * i) \in Nat /\ i \in 1 .. MaxX
  BY <1>3, FieldAssumption
<1>5. Secret \in 0 .. FIELD_PRIME - 1
  BY FieldAssumption
<1>. HIDE DEF Mod
<1>. QED
  BY <1>1, <1>4, <1>5 DEF SharePayload

(* What the line of a dealing leaves of the equation of two shares, one of *)
(* them dealt: for a share a and a share b of the dealing d, the key k     *)
(* they give satisfies it.                                                 *)
LEMMA KeyEquation ==
  ASSUME NEW d \in Coefficients, NEW a \in SharePayload, NEW b \in Dealing(d),
         a.x # b.x
  PROVE  LET k == Interpolate(a, b) IN
           Congruent((k - a.y + d * a.x) * b.x + (Secret - k) * a.x, 0)
<1>. DEFINE k == Interpolate(a, b)
<1>1. b \in SharePayload /\ b.x \in Int /\ b.y \in Int /\ d \in Int /\ Secret \in Int
  BY DealtAreShares, DealtOnLine, FieldAssumption DEF Coefficients
<1>2. a.x \in Int /\ a.y \in Int
  BY FieldAssumption DEF SharePayload
<1>3. k \in Int /\ Congruent(k * (b.x - a.x), a.y * b.x - b.y * a.x)
  BY <1>1, InterpolateOnLine, FieldAssumption
<1>4. PICK p \in Int :
        k * (b.x - a.x) = a.y * b.x - b.y * a.x + p * FIELD_PRIME
  BY <1>3 DEF Congruent
<1>5. PICK q \in Int : b.y = Secret + d * b.x + q * FIELD_PRIME
  BY DealtOnLine DEF Congruent
<1>. DEFINE ax == a.x
<1>. DEFINE ay == a.y
<1>. DEFINE bx == b.x
<1>. DEFINE by == b.y
<1>. HIDE DEF k, ax, ay, bx, by
<1>6. /\ k * (bx - ax) = ay * bx - by * ax + p * FIELD_PRIME
      /\ by = Secret + d * bx + q * FIELD_PRIME
      /\ k \in Int /\ ax \in Int /\ ay \in Int /\ bx \in Int /\ by \in Int
      /\ d \in Int /\ Secret \in Int /\ FIELD_PRIME \in Int
  BY <1>1, <1>2, <1>3, <1>4, <1>5, FieldAssumption DEF ax, ay, bx, by
<1>7. by * ax = Secret * ax + (d * bx) * ax + (q * FIELD_PRIME) * ax
  BY <1>6, SMT
<1>8. (k - ay + d * ax) * bx + (Secret - k) * ax
        = 0 + (p - q * ax) * FIELD_PRIME
  BY <1>6, <1>7, SMT
<1>9. p - q * ax \in Int
  BY <1>6, SMT
<1>10. Congruent((k - ay + d * ax) * bx + (Secret - k) * ax, 0)
  BY <1>8, <1>9 DEF Congruent
<1>. QED
  BY <1>10 DEF k, ax, ay, bx

-----------------------------------------------------------------------------
(* Any two shares of one dealing give the secret                           *)
(* (splitCoordinatorKey2of3 and reconstructWithTwoShares are inverses).    *)
THEOREM DealingInterpolates ==
  ASSUME NEW d \in Coefficients, NEW a \in Dealing(d), NEW b \in Dealing(d), a.x # b.x
  PROVE  Interpolate(a, b) = Secret
<1>. DEFINE k == Interpolate(a, b)
<1>. DEFINE X == b.x - a.x
<1>1. /\ a \in SharePayload /\ b \in SharePayload
      /\ a.x \in 1 .. MaxX /\ b.x \in 1 .. MaxX /\ Secret \in 0 .. FIELD_PRIME - 1
  BY DealtAreShares
<1>2. k \in 0 .. FIELD_PRIME - 1
  BY <1>1, InterpolateOnLine
<1>3. Congruent((k - a.y + d * a.x) * b.x + (Secret - k) * a.x, 0)
  BY <1>1, KeyEquation
<1>4. PICK q \in Int : a.y = Secret + d * a.x + q * FIELD_PRIME
  BY DealtOnLine DEF Congruent
<1>5. PICK r \in Int :
        (k - a.y + d * a.x) * b.x + (Secret - k) * a.x = 0 + r * FIELD_PRIME
  BY <1>3 DEF Congruent
<1>6. a.y \in Int /\ d \in Int /\ FIELD_PRIME \in Int /\ k \in Int /\ Secret \in Int
      /\ a.x \in Int /\ b.x \in Int
  BY <1>1, <1>2, DealtOnLine, FieldAssumption DEF Coefficients
<1>. DEFINE ax == a.x
<1>. DEFINE ay == a.y
<1>. DEFINE bx == b.x
<1>. HIDE DEF k, ax, ay, bx
<1>7. /\ ay = Secret + d * ax + q * FIELD_PRIME
      /\ (k - ay + d * ax) * bx + (Secret - k) * ax = 0 + r * FIELD_PRIME
      /\ ax \in Int /\ ay \in Int /\ bx \in Int
  BY <1>4, <1>5, <1>6 DEF ax, ay, bx
<1>8. (k - ay + d * ax) * bx = (k - Secret) * bx - (q * bx) * FIELD_PRIME
  BY <1>6, <1>7, SMT
<1>9. (k - Secret) * (bx - ax) = 0 + (r + q * bx) * FIELD_PRIME
  BY <1>6, <1>7, <1>8, SMT
<1>10. r + q * bx \in Int /\ k - Secret \in Int /\ bx - ax \in Int
  BY <1>6, <1>7, SMT
<1>11. Congruent((k - Secret) * (bx - ax), 0)
  BY <1>9, <1>10 DEF Congruent
<1>12. ~Congruent(bx - ax, 0)
  <2>1. a.x \in 0 .. MaxX
    BY <1>1, FieldAssumption
  <2>. QED BY <1>1, <2>1, CoordinatesDiffer DEF ax, bx
<1>13. Congruent(k - Secret, 0)
  BY <1>10, <1>11, <1>12, Cancels, Zenon
<1>14. Congruent(k, Secret)
  BY <1>6, <1>13, CongruentLaws
<1>15. k = Secret
  BY <1>1, <1>2, <1>14, CongruentInField
<1>. QED
  BY <1>15 DEF k

(* A share of another dealing cannot agree with two of this one, on any    *)
(* key but the secret.                                                     *)
LEMMA OddShareAgrees ==
  ASSUME NEW d \in Coefficients, NEW a \in SharePayload,
         NEW b \in Dealing(d), NEW e \in Dealing(d),
         a.x # b.x, a.x # e.x, b.x # e.x, Interpolate(a, b) = Interpolate(a, e)
  PROVE  Interpolate(a, b) = Secret
<1>. DEFINE k == Interpolate(a, b)
<1>1. /\ b \in SharePayload /\ e \in SharePayload
      /\ a.x \in 1 .. MaxX /\ b.x \in 1 .. MaxX /\ e.x \in 1 .. MaxX
      /\ Secret \in 0 .. FIELD_PRIME - 1
  BY DealtAreShares DEF SharePayload
<1>2. k \in 0 .. FIELD_PRIME - 1
  BY <1>1, InterpolateOnLine
<1>3. /\ Congruent((k - a.y + d * a.x) * b.x + (Secret - k) * a.x, 0)
      /\ Congruent((k - a.y + d * a.x) * e.x + (Secret - k) * a.x, 0)
  <2>1. Congruent((k - a.y + d * a.x) * b.x + (Secret - k) * a.x, 0)
    BY KeyEquation
  <2>2. k = Interpolate(a, e)
    OBVIOUS
  <2>. HIDE DEF k
  <2>3. Congruent((k - a.y + d * a.x) * e.x + (Secret - k) * a.x, 0)
    BY <2>2, KeyEquation
  <2>. QED BY <2>1, <2>3
<1>4. a.y \in Int /\ d \in Int /\ FIELD_PRIME \in Int /\ k \in Int /\ Secret \in Int
      /\ a.x \in Int /\ b.x \in Int /\ e.x \in Int
  BY <1>1, <1>2, FieldAssumption DEF Coefficients, SharePayload
<1>. DEFINE ax == a.x
<1>. DEFINE bx == b.x
<1>. DEFINE ex == e.x
<1>. DEFINE w == k - a.y + d * ax
<1>. DEFINE v == Secret - k
<1>5. w \in Int /\ v \in Int /\ ax \in Int /\ bx \in Int /\ ex \in Int
  BY <1>4, SMT
<1>6. Congruent(w * bx + v * ax, 0) /\ Congruent(w * ex + v * ax, 0)
  BY <1>3
<1>7. ~Congruent(bx - ex, 0) /\ ~Congruent(ax - 0, 0)
  <2>1. e.x \in 0 .. MaxX /\ 0 \in 0 .. MaxX /\ a.x # 0
    BY <1>1, FieldAssumption
  <2>. QED BY <1>1, <2>1, CoordinatesDiffer
<1>. HIDE DEF k, w, v, ax, bx, ex
<1>8. PICK p \in Int : w * bx + v * ax = 0 + p * FIELD_PRIME
  BY <1>6 DEF Congruent
<1>9. PICK q \in Int : w * ex + v * ax = 0 + q * FIELD_PRIME
  BY <1>6 DEF Congruent
<1>10. w * (bx - ex) = 0 + (p - q) * FIELD_PRIME /\ p - q \in Int
  BY <1>4, <1>5, <1>8, <1>9, SMT
<1>11. Congruent(w, 0)
  <2>1. Congruent(w * (bx - ex), 0)
    BY <1>10 DEF Congruent
  <2>2. bx - ex \in Int
    BY <1>5
  <2>. QED BY <1>5, <1>7, <2>1, <2>2, Cancels, Zenon
<1>12. PICK r \in Int : w = 0 + r * FIELD_PRIME
  BY <1>11 DEF Congruent
<1>13. w * bx = (r * bx) * FIELD_PRIME
  BY <1>4, <1>5, <1>12, SMT
<1>14. v * ax = 0 + (p - r * bx) * FIELD_PRIME /\ p - r * bx \in Int
  BY <1>4, <1>5, <1>8, <1>13, SMT
<1>15. Congruent(v, 0)
  <2>1. Congruent(v * ax, 0)
    BY <1>14 DEF Congruent
  <2>2. ~Congruent(ax, 0)
    <3>1. ax - 0 = ax
      BY <1>5
    <3>. QED BY <1>7, <3>1
  <2>. QED BY <1>5, <2>1, <2>2, Cancels, Zenon
<1>16. Congruent(Secret, k)
  BY <1>4, <1>15, CongruentLaws DEF v
<1>17. k = Secret
  BY <1>1, <1>2, <1>16, CongruentInField
<1>. QED
  BY <1>17 DEF k

-----------------------------------------------------------------------------
(* What reconstructCoordinatorKeyFromShares returns, of shares all of one  *)
(* dealing, is the secret.                                                 *)
THEOREM OneDealingGivesSecret ==
  ASSUME NEW shares, NEW d \in Coefficients, shares \subseteq Dealing(d),
         NEW p \in Counted(shares), NEW k \in KeyFrom(p)
  PROVE  k = Secret
<1>1. p[1] \in Dealing(d) /\ p[2] \in Dealing(d) /\ p[1].x # p[2].x
  BY DEF Counted
<1>2. k = Interpolate(p[1], p[2])
  BY DEF KeyFrom
<1>. QED
  BY <1>1, <1>2, DealingInterpolates

(* What it returns of three shares with distinct coordinates, two of them  *)
(* of one dealing, is the secret as well, in whatever order they are.      *)
THEOREM TwoOfThreeGiveSecret ==
  ASSUME NEW shares \in SUBSET SharePayload, IsFiniteSet(shares),
         Cardinality(shares) = 3, Cardinality(Coordinates(shares)) = 3,
         NEW d \in Coefficients, Cardinality(shares \cap Dealing(d)) >= 2,
         NEW p \in Counted(shares), NEW k \in KeyFrom(p)
  PROVE  k = Secret
<1>. DEFINE a == p[1]
<1>. DEFINE b == p[2]
<1>. DEFINE e == p[3]
<1>1. /\ a \in shares /\ b \in shares /\ e \in shares
      /\ a.x # b.x /\ a.x # e.x /\ b.x # e.x
  BY DEF Counted
<1>2. k = Interpolate(a, b) /\ k = Interpolate(a, e)
  BY DEF KeyFrom
<1>. HIDE DEF a, b, e
<1>3. shares = {a, b, e}
  <2>1. IsFiniteSet({a, b, e}) /\ Cardinality({a, b, e}) = 3
    <3>. DEFINE One == {a}
    <3>. DEFINE Two == One \cup {b}
    <3>. DEFINE Three == Two \cup {e}
    <3>1. IsFiniteSet(One) /\ Cardinality(One) = 1
      BY FS_Singleton
    <3>2. b \notin One /\ e \notin Two /\ {a, b, e} = Three
      BY <1>1
    <3>. HIDE DEF One
    <3>3. IsFiniteSet(Two) /\ Cardinality(Two) = 2
      BY <3>1, <3>2, FS_AddElement
    <3>. HIDE DEF Two
    <3>4. IsFiniteSet(Three) /\ Cardinality(Three) = 3
      BY SMTT(40), <3>2, <3>3, FS_AddElement
    <3>. QED BY <3>2, <3>4
  <2>2. {a, b, e} \subseteq shares
    BY <1>1
  <2>. QED BY <2>1, <2>2, FS_Subset
<1>4. ASSUME NEW s, shares \cap Dealing(d) \subseteq {s} PROVE FALSE
  <2>1. IsFiniteSet({s}) /\ Cardinality({s}) = 1
    BY FS_Singleton
  <2>2. Cardinality(shares \cap Dealing(d)) <= 1
    BY <1>4, <2>1, FS_Subset
  <2>3. Cardinality(shares \cap Dealing(d)) \in Nat
    BY <1>4, <2>1, FS_Subset, FS_CardinalityType
  <2>. QED BY <2>2, <2>3
<1>5. \/ a \in Dealing(d) /\ b \in Dealing(d)
      \/ a \in Dealing(d) /\ e \in Dealing(d)
      \/ b \in Dealing(d) /\ e \in Dealing(d)
  <2>1. SUFFICES ASSUME ~(a \in Dealing(d) /\ b \in Dealing(d)),
                        ~(a \in Dealing(d) /\ e \in Dealing(d)),
                        ~(b \in Dealing(d) /\ e \in Dealing(d))
                 PROVE  FALSE
    OBVIOUS
  <2>2. PICK s \in {a, b, e} : shares \cap Dealing(d) \subseteq {s}
    BY <1>3, <2>1
  <2>. QED BY <1>4, <2>2
<1>6. CASE a \in Dealing(d) /\ b \in Dealing(d)
  BY <1>1, <1>2, <1>6, DealingInterpolates
<1>7. CASE a \in Dealing(d) /\ e \in Dealing(d)
  BY <1>1, <1>2, <1>7, DealingInterpolates
<1>8. CASE b \in Dealing(d) /\ e \in Dealing(d)
  <2>1. a \in SharePayload
    BY <1>1
  <2>. QED BY <1>1, <1>2, <1>8, <2>1, OddShareAgrees
<1>. QED
  BY <1>5, <1>6, <1>7, <1>8

-----------------------------------------------------------------------------
(* The ceremony.                                                           *)

Quorum(i) == shareCount(i) >= thresholdRequired

(* What a server action knows, from what it read, at each of its steps:    *)
(* shares are never taken back, so a quorum it saw is still there when it  *)
(* writes, and a call past the phase check stays past it.                  *)
PastPhaseCheck == {"existing", "insert", "created", "upsert", "reload", "recount",
                   "status", "count", "close", "shares"}
OnCeremony == {"upsert", "reload", "recount", "status", "count", "close", "shares"}
CallKnows(c) ==
  /\ call[c].pc \in PastPhaseCheck => phase >= VOTING_CLOSED
  /\ call[c].pc \in OnCeremony => call[c].id \in DOMAIN ceremonies
  /\ call[c].pc = "load" => call[c].request.op # "create"
  /\ call[c].pc = "upsert" => call[c].request \in SubmitRequests
  /\ call[c].pc \in {"phase", "existing", "insert", "created"} =>
       call[c].request \in CreateRequests \cup SubmitRequests
  /\ call[c].pc = "recount" /\ call[c].seen # "OPEN" => Quorum(call[c].id)
  /\ call[c].pc = "status" => call[c].seen = "READY" /\ Quorum(call[c].id)
  /\ call[c].pc = "close" => Quorum(call[c].id)

CallsKnow == \A c \in Calls : CallKnows(c)

(* A key in hand was put together, by reconstructCoordinatorKeyFromShares, *)
(* from the finitely many shares it is said to come from.                  *)
Given(r) == IsFiniteSet(r.from) /\ \E p \in Counted(r.from) : r.key \in KeyFrom(p)
KeysGiven == \A r \in reconstructed : Given(r)

IInv == TypeOK /\ ReadyHasQuorum /\ KeyHeldUntilVotingCloses /\ CallsKnow /\ KeysGiven

(* Rows stay, and no share is ever taken back.                             *)
Grown ==
  /\ DOMAIN ceremonies \subseteq DOMAIN ceremonies'
  /\ \A i \in DOMAIN ceremonies, t \in Trustees :
       ceremonies[i].shares[t] # NoShare => ceremonies'[i].shares[t] # NoShare
  /\ phase' >= phase

-----------------------------------------------------------------------------
(* Type correctness                                                        *)

(* A call that moves on stays a well-formed call, and one that returns is  *)
(* idle, as long as no row disappears.                                     *)
LEMMA CallTypes ==
  ASSUME TypeOK, NEW c \in Calls, DOMAIN ceremonies \subseteq DOMAIN ceremonies'
  PROVE  LET Typed == call' \in [Calls -> {Idle} \cup UnderWay'] IN
         /\ UNCHANGED call => Typed
         /\ Return(c) => Typed
         /\ \A pc \in Positions : call[c] # Idle /\ Goto(c, pc) => Typed
<1>1. UnderWay \subseteq UnderWay'
  BY DEF UnderWay
<1>2. call \in [Calls -> {Idle} \cup UnderWay']
  BY <1>1 DEF TypeOK
<1>3. ASSUME NEW pc \in Positions, call[c] # Idle, Goto(c, pc)
      PROVE  call' \in [Calls -> {Idle} \cup UnderWay']
  <2>1. call[c] \in UnderWay'
    BY <1>2, <1>3
  <2>2. [call[c] EXCEPT !.pc = pc] \in UnderWay'
    BY <2>1, <1>3 DEF UnderWay
  <2>3. call' = [call EXCEPT ![c] = [call[c] EXCEPT !.pc = pc]]
    BY <1>3 DEF Goto
  <2>. QED BY <1>2, <2>2, <2>3
<1>. QED BY <1>2, <1>3 DEF Return

(* A submission is among the requests a call was begun with.               *)
LEMMA RequestKinds ==
  ASSUME NEW q \in Requests
  PROVE  /\ q.op \in {"create", "submit", "close", "tally"}
         /\ q.op = "create" => q \in CreateRequests
         /\ q.op = "submit" => q \in SubmitRequests
         /\ q.op \in {"close", "tally"} => q.ceremony \in Ids \cup {NoCeremony}
  BY DEF Requests, CreateRequests, SubmitRequests, CloseRequests, TallyRequests, Ids,
         NoCeremony

(* Writing one row of the table leaves a table with the same rows.         *)
LEMMA RowWritten ==
  ASSUME TypeOK, NEW i \in DOMAIN ceremonies, NEW row \in Ceremony,
         ceremonies' = [ceremonies EXCEPT ![i] = row]
  PROVE  ceremonies' \in Seq(Ceremony) /\ DOMAIN ceremonies' = DOMAIN ceremonies
  BY DEF TypeOK

(* The keys the resolution of a tally adds are given by the shares of its  *)
(* ceremony, which has its quorum.                                         *)
LEMMA KeysResolved ==
  ASSUME TypeOK, NEW c \in Calls, CallKnows(c), ResolveCoordinatorPrivateKey(c),
         NEW r \in reconstructed'
  PROVE  \/ r \in reconstructed
         \/ r \in Reconstruction /\ Given(r) /\ r.ceremony = call[c].id /\ Quorum(r.ceremony)
<1>. SUFFICES ASSUME r \notin reconstructed
     PROVE  r \in Reconstruction /\ Given(r) /\ r.ceremony = call[c].id /\ Quorum(r.ceremony)
  OBVIOUS
<1>. DEFINE i == call[c].id
<1>. DEFINE table == SharesOf(i)
<1>1. i \in DOMAIN ceremonies
  BY DEF ResolveCoordinatorPrivateKey, At, CallKnows, OnCeremony
<1>2. table \subseteq Shares /\ IsFiniteSet(table)
  <2>. DEFINE all == {ceremonies[i].shares[t] : t \in Trustees}
  <2>1. ceremonies[i] \in Ceremony
    BY <1>1 DEF TypeOK
  <2>2. table \subseteq all /\ table \subseteq Shares
    BY <2>1 DEF SharesOf, Ceremony
  <2>3. IsFiniteSet(all)
    <3>1. ceremonies[i].shares \in Surjection(Trustees, all)
      BY <2>1 DEF Ceremony, Surjection
    <3>. HIDE DEF all
    <3>. QED BY <3>1, FiniteTrusteesAssumption, FS_Surjection
  <2>. QED BY <2>2, <2>3, FS_Subset
<1>. HIDE DEF table
<1>3. PICK p \in Counted(table) :
        Quorum(i) /\ \E k \in KeyFrom(p) : r = [ceremony |-> i, from |-> table, key |-> k]
  BY DEF ResolveCoordinatorPrivateKey, Quorum, table
<1>. PICK k \in KeyFrom(p) : r = [ceremony |-> i, from |-> table, key |-> k]
  BY <1>3
<1>4. k \in 0 .. MaxByte
  <2>1. p[1] \in SharePayload /\ p[2] \in SharePayload /\ p[1].x # p[2].x
    BY <1>2, SharesAssumption DEF Counted
  <2>2. k = Interpolate(p[1], p[2]) /\ k <= MaxByte
    BY DEF KeyFrom
  <2>. QED BY <2>1, <2>2, InterpolateOnLine, FieldAssumption
<1>5. r \in Reconstruction /\ r.ceremony = i /\ r.from = table /\ r.key = k
  BY <1>1, <1>2, <1>3, <1>4 DEF Reconstruction
<1>. QED
  BY <1>2, <1>3, <1>5 DEF Given

(* What a step of the server action c does to the table, and that it stays *)
(* well typed; every other variable but call is left alone by all of them. *)
LEMMA CallStepTypes ==
  ASSUME TypeOK, CallsKnow, NEW c \in Calls, CallStep(c)
  PROVE  TypeOK' /\ DOMAIN ceremonies \subseteq DOMAIN ceremonies'
<1>. DEFINE Typed == call' \in [Calls -> {Idle} \cup UnderWay']
<1>1. CallKnows(c)
  BY DEF CallsKnow
<1>2. ASSUME UNCHANGED <<phase, ceremonies, served, crashes>>,
             reconstructed' \subseteq Reconstruction, Typed
      PROVE  TypeOK' /\ DOMAIN ceremonies \subseteq DOMAIN ceremonies'
  BY <1>2 DEF TypeOK, Reconstruction
<1>3. ASSUME UNCHANGED <<phase, reconstructed, served, crashes>>,
             ceremonies' \in Seq(Ceremony), Typed,
             DOMAIN ceremonies \subseteq DOMAIN ceremonies'
      PROVE  TypeOK' /\ DOMAIN ceremonies \subseteq DOMAIN ceremonies'
  BY <1>3 DEF TypeOK, Reconstruction
<1>4. reconstructed \subseteq Reconstruction
  BY DEF TypeOK
<1>. \A i \in DOMAIN ceremonies : ceremonies[i] \in Ceremony
  BY DEF TypeOK
<1>5. ASSUME NEW i \in Open, UNCHANGED ceremonies, call[c] # Idle,
             call[c].request \in CreateRequests \cup SubmitRequests,
             CreatedOrFound(c, i)
      PROVE  Typed
  <2>1. CASE Return(c)
    BY <2>1, <1>5, CallTypes
  <2>2. CASE call' = [call EXCEPT ![c].pc = "upsert", ![c].id = i]
    <3>1. call \in [Calls -> {Idle} \cup UnderWay'] /\ call[c] \in UnderWay'
      BY <1>5 DEF TypeOK, UnderWay
    <3>2. [call[c] EXCEPT !.pc = "upsert", !.id = i] \in UnderWay'
      BY <3>1, <1>5 DEF UnderWay, Positions, Open
    <3>3. call' = [call EXCEPT ![c] = [call[c] EXCEPT !.pc = "upsert", !.id = i]]
      BY <2>2, <3>1
    <3>. QED BY <3>1, <3>2, <3>3
  <2>. QED BY <1>5, <2>1, <2>2 DEF CreatedOrFound
<1>6. CASE Load(c)
  <2>1. call[c] # Idle /\ UNCHANGED <<phase, ceremonies, reconstructed, served, crashes>>
    BY <1>6 DEF Load, At, Idle
  <2>2. PICK i \in DOMAIN ceremonies \cup {NoCeremony} :
          \/ Goto(c, "phase") \/ Return(c)
          \/ call' = [call EXCEPT ![c].id = i, ![c].pc =
                CASE call[c].request.op = "submit" -> "upsert"
                  [] call[c].request.op = "close" -> "count"
                  [] call[c].request.op = "tally" -> "shares"]
    BY <1>6 DEF Load
  <2>3. CASE Goto(c, "phase") \/ Return(c)
    BY <2>1, <2>3, <1>2, <1>4, CallTypes DEF Positions
  <2>4. CASE call' = [call EXCEPT ![c].id = i, ![c].pc =
                CASE call[c].request.op = "submit" -> "upsert"
                  [] call[c].request.op = "close" -> "count"
                  [] call[c].request.op = "tally" -> "shares"]
    <3>1. call \in [Calls -> {Idle} \cup UnderWay'] /\ call[c] \in UnderWay'
      BY <2>1 DEF TypeOK, UnderWay
    <3>2. call[c].request.op \in {"submit", "close", "tally"}
      BY <1>1, <1>6, <3>1, RequestKinds DEF CallKnows, Load, At, UnderWay, Idle
    <3>3. PICK pc \in Positions : call' = [call EXCEPT ![c].id = i, ![c].pc = pc]
      BY <2>4, <3>2 DEF Positions
    <3>4. [call[c] EXCEPT !.id = i, !.pc = pc] \in UnderWay'
      BY <2>1, <3>1 DEF UnderWay
    <3>5. call' = [call EXCEPT ![c] = [call[c] EXCEPT !.id = i, !.pc = pc]]
      BY <3>1, <3>3
    <3>6. Typed
      BY <3>1, <3>4, <3>5
    <3>. QED BY <3>6, <2>1, <1>2, <1>4
  <2>. QED BY <2>2, <2>3, <2>4
<1>7. CASE CheckPhase(c)
  BY <1>7, <1>2, <1>4, CallTypes DEF CheckPhase, At, Idle, Positions
<1>8. CASE CheckExisting(c)
  BY <1>8, <1>1, <1>2, <1>4, <1>5, CallTypes DEF CheckExisting, CallKnows, At, Idle, Positions
<1>9. CASE Insert(c)
  <2>1. NewCeremony \in Ceremony
    BY DEF NewCeremony, Ceremony
  <2>2. ceremonies' \in Seq(Ceremony) /\ DOMAIN ceremonies \subseteq DOMAIN ceremonies'
    BY <1>9, <2>1 DEF Insert, TypeOK
  <2>3. Typed
    BY <1>9, <2>2, CallTypes DEF Insert, At, Idle, Positions
  <2>. QED BY <1>3, <1>9, <2>2, <2>3 DEF Insert
<1>10. CASE LoadCreated(c)
  <2>1. PICK i \in Open \cup {NoCeremony} : CreatedOrFound(c, i)
    BY <1>10 DEF LoadCreated
  <2>2. CASE i = NoCeremony
    BY <2>1, <2>2, <1>2, <1>4, <1>10, CallTypes DEF CreatedOrFound, LoadCreated
  <2>3. CASE i \in Open
    BY <2>1, <2>3, <1>1, <1>2, <1>4, <1>5, <1>10
       DEF LoadCreated, CallKnows, At, Idle
  <2>. QED BY <2>1, <2>2, <2>3
<1>11. CASE Upsert(c)
  <2>1. PICK i \in DOMAIN ceremonies : i = call[c].id
    BY <1>1, <1>11 DEF Upsert, At, CallKnows, OnCeremony
  <2>2. CASE /\ ceremonies' = [ceremonies EXCEPT ![i].shares[call[c].request.trustee] =
                                 call[c].request.share]
             /\ Goto(c, "reload")
    <3>1. call[c].request \in SubmitRequests
      BY <1>1, <1>11 DEF Upsert, At, CallKnows
    <3>3. [ceremonies[i] EXCEPT !.shares[call[c].request.trustee] =
             call[c].request.share] \in Ceremony
      BY <3>1 DEF Ceremony, SubmitRequests
    <3>4. ceremonies' \in Seq(Ceremony) /\ DOMAIN ceremonies' = DOMAIN ceremonies
      BY <2>2, <3>3, RowWritten
    <3>5. Typed
      BY <2>2, <3>4, <1>11, CallTypes DEF Upsert, At, Idle, Positions
    <3>. QED BY <3>4, <3>5, <1>3, <1>11 DEF Upsert
  <2>3. CASE Return(c) /\ UNCHANGED ceremonies
    BY <2>3, <1>2, <1>4, <1>11, CallTypes DEF Upsert
  <2>. QED BY <2>1, <2>2, <2>3, <1>11 DEF Upsert
<1>12. CASE Reload(c)
  <2>1. PICK i \in DOMAIN ceremonies : i = call[c].id
    BY <1>1, <1>12 DEF Reload, At, CallKnows, OnCeremony
  <2>2. ceremonies[i].status \in {"OPEN", "READY", "CLOSED"}
    BY DEF Ceremony
  <2>3. call \in [Calls -> {Idle} \cup UnderWay'] /\ call[c] \in UnderWay'
    BY <1>12 DEF Reload, TypeOK, UnderWay, At, Idle
  <2>4. [call[c] EXCEPT !.seen = ceremonies[i].status, !.pc = "recount"] \in UnderWay'
    BY <2>2, <2>3 DEF UnderWay, Positions
  <2>5. call' = [call EXCEPT ![c] =
                   [call[c] EXCEPT !.seen = ceremonies[i].status, !.pc = "recount"]]
    BY <1>12, <2>1, <2>3 DEF Reload
  <2>6. Typed
    BY <2>3, <2>4, <2>5
  <2>. QED BY <2>6, <1>2, <1>4, <1>12 DEF Reload
<1>13. CASE Recount(c)
  <2>1. UNCHANGED <<phase, ceremonies, reconstructed, served, crashes>>
    BY <1>13 DEF Recount
  <2>2. CASE Return(c)
    BY <2>1, <2>2, <1>2, <1>4, CallTypes
  <2>3. CASE call' = [call EXCEPT ![c].seen = NextStatus(call[c].id), ![c].pc = "status"]
    <3>1. call \in [Calls -> {Idle} \cup UnderWay'] /\ call[c] \in UnderWay'
      BY <1>13 DEF Recount, TypeOK, UnderWay, At, Idle
    <3>2. [call[c] EXCEPT !.seen = NextStatus(call[c].id), !.pc = "status"] \in UnderWay'
      BY <3>1 DEF UnderWay, Positions, NextStatus
    <3>3. call' = [call EXCEPT ![c] =
                     [call[c] EXCEPT !.seen = NextStatus(call[c].id), !.pc = "status"]]
      BY <2>3, <3>1
    <3>4. Typed
      BY <3>1, <3>2, <3>3
    <3>. QED BY <3>4, <2>1, <1>2, <1>4
  <2>. QED BY <1>13, <2>2, <2>3 DEF Recount
<1>14. CASE UpdateStatus(c)
  <2>1. PICK i \in DOMAIN ceremonies : i = call[c].id
    BY <1>1, <1>14 DEF UpdateStatus, At, CallKnows, OnCeremony
  <2>2. [ceremonies[i] EXCEPT !.status = call[c].seen] \in Ceremony
    BY <1>1, <1>14 DEF Ceremony, UpdateStatus, At, CallKnows
  <2>3. ceremonies' \in Seq(Ceremony) /\ DOMAIN ceremonies' = DOMAIN ceremonies
    BY <1>14, <2>1, <2>2, RowWritten DEF UpdateStatus
  <2>. QED BY <1>3, <1>14, <2>3, CallTypes DEF UpdateStatus
<1>15. CASE Count(c)
  BY <1>15, <1>2, <1>4, CallTypes DEF Count, At, Idle, Positions
<1>16. CASE Close(c)
  <2>1. PICK i \in DOMAIN ceremonies : i = call[c].id
    BY <1>1, <1>16 DEF Close, At, CallKnows, OnCeremony
  <2>2. [ceremonies[i] EXCEPT !.status = "CLOSED", !.closedAt = TRUE] \in Ceremony
    BY DEF Ceremony
  <2>3. ceremonies' = [ceremonies EXCEPT ![i] =
                         [ceremonies[i] EXCEPT !.status = "CLOSED", !.closedAt = TRUE]]
    BY <1>16, <2>1 DEF Close, TypeOK
  <2>4. ceremonies' \in Seq(Ceremony) /\ DOMAIN ceremonies' = DOMAIN ceremonies
    BY <2>2, <2>3, RowWritten
  <2>. QED BY <1>3, <1>16, <2>4, CallTypes DEF Close
<1>17. CASE ResolveCoordinatorPrivateKey(c)
  <2>1. call[c].id \in DOMAIN ceremonies
    BY <1>1, <1>17 DEF ResolveCoordinatorPrivateKey, At, CallKnows, OnCeremony
  <2>2. reconstructed' \subseteq Reconstruction
    BY <1>1, <1>4, <1>17, KeysResolved
  <2>. QED BY <2>2, <1>2, <1>17, CallTypes DEF ResolveCoordinatorPrivateKey
<1>. QED
  BY <1>6, <1>7, <1>8, <1>9, <1>10, <1>11, <1>12, <1>13, <1>14, <1>15, <1>16, <1>17
     DEF CallStep, CreateStep, SubmitStep, CloseStep

-----------------------------------------------------------------------------
(* Shares are never taken back                                             *)

(* A quorum stays a quorum while rows and shares only ever come.           *)
LEMMA QuorumKept ==
  ASSUME Grown, NEW i \in DOMAIN ceremonies, Quorum(i)
  PROVE  Quorum(i)'
<1>. DEFINE Have == {t \in Trustees : ceremonies[i].shares[t] # NoShare}
            Later == {t \in Trustees : ceremonies'[i].shares[t] # NoShare}
<1>1. Have \subseteq Later
  BY DEF Grown
<1>2. IsFiniteSet(Later)
  BY FiniteTrusteesAssumption, FS_Subset
<1>3. Cardinality(Have) <= Cardinality(Later)
  BY <1>1, <1>2, FS_Subset
<1>4. Cardinality(Have) \in Nat /\ Cardinality(Later) \in Nat
  BY <1>1, <1>2, FS_Subset, FS_CardinalityType
<1>. QED BY <1>3, <1>4 DEF Quorum, shareCount, thresholdRequired

(* No step of a server action removes a row or a share.                    *)
LEMMA CallStepGrows ==
  ASSUME TypeOK, CallsKnow, NEW c \in Calls, CallStep(c)
  PROVE  Grown
<1>1. CallKnows(c)
  BY DEF CallsKnow
<1>2. phase \in Int
  BY DEF TypeOK, VOTING_OPEN, VOTING_CLOSED
<1>3. \A i \in DOMAIN ceremonies : ceremonies[i] \in Ceremony
  BY DEF TypeOK
<1>4. ASSUME UNCHANGED <<phase, ceremonies>>
      PROVE  Grown
  BY <1>2, <1>4 DEF Grown
<1>5. CASE Insert(c)
  BY <1>2, <1>5 DEF Insert, Grown, TypeOK
<1>6. CASE Upsert(c)
  <2>1. CASE UNCHANGED ceremonies
    BY <2>1, <1>4, <1>6 DEF Upsert
  <2>2. CASE ceremonies' = [ceremonies EXCEPT
               ![call[c].id].shares[call[c].request.trustee] = call[c].request.share]
    <3>1. call[c].request.share \in Shares
      BY <1>1, <1>6 DEF Upsert, At, CallKnows, SubmitRequests
    <3>2. call[c].request.share # NoShare
      BY <3>1, SharesAssumption
    <3>3. UNCHANGED phase
      BY <1>6 DEF Upsert
    <3>. QED BY <1>2, <1>3, <2>2, <3>2, <3>3 DEF Grown, Ceremony
  <2>. QED BY <1>6, <2>1, <2>2 DEF Upsert
<1>7. CASE UpdateStatus(c)
  BY <1>2, <1>3, <1>7 DEF UpdateStatus, Grown, Ceremony
<1>8. CASE Close(c)
  BY <1>2, <1>3, <1>8 DEF Close, Grown, Ceremony
<1>9. CASE \/ Load(c) \/ CheckPhase(c) \/ CheckExisting(c) \/ LoadCreated(c)
           \/ Reload(c) \/ Recount(c) \/ Count(c) \/ ResolveCoordinatorPrivateKey(c)
  BY <1>4, <1>9 DEF Load, CheckPhase, CheckExisting, LoadCreated, Reload, Recount, Count,
                   ResolveCoordinatorPrivateKey
<1>. QED
  BY <1>5, <1>6, <1>7, <1>8, <1>9 DEF CallStep, CreateStep, SubmitStep, CloseStep

-----------------------------------------------------------------------------
(* What calls know stays true                                              *)

(* A call another step did not touch still knows what it knew.             *)
LEMMA OthersKnow ==
  ASSUME Grown, NEW c \in Calls, CallKnows(c), UNCHANGED call[c],
         phase \in Int, phase' \in Int
  PROVE  CallKnows(c)'
<1>1. \A i \in DOMAIN ceremonies : i \in DOMAIN ceremonies' /\ (Quorum(i) => Quorum(i)')
  BY QuorumKept DEF Grown
<1>2. phase >= VOTING_CLOSED => phase' >= VOTING_CLOSED
  BY DEF Grown, VOTING_CLOSED
<1>. QED BY <1>1, <1>2 DEF CallKnows, OnCeremony, PastPhaseCheck

(* An idle call knows nothing.                                             *)
LEMMA IdleKnows ==
  ASSUME NEW c \in Calls, call[c] = Idle
  PROVE  CallKnows(c)
  BY DEF CallKnows, Idle, PastPhaseCheck, OnCeremony

(* The call that moves knows what its next position asks of it.            *)
LEMMA MoverKnows ==
  ASSUME TypeOK, CallsKnow, ReadyHasQuorum, KeyHeldUntilVotingCloses,
         NEW c \in Calls, CallStep(c), Grown
  PROVE  CallKnows(c)'
<1>1. CallKnows(c)
  BY DEF CallsKnow
<1>2. call \in [Calls -> {Idle} \cup UnderWay] /\ phase \in Int
  BY DEF TypeOK, VOTING_OPEN, VOTING_CLOSED
<1>3. ASSUME Return(c)
      PROVE  CallKnows(c)'
  BY <1>2, <1>3, IdleKnows DEF Return, CallKnows, Idle, PastPhaseCheck, OnCeremony
<1>4. ASSUME call[c] # Idle, NEW pc \in Positions, Goto(c, pc)
      PROVE  call'[c] = [call[c] EXCEPT !.pc = pc] /\ call[c] \in UnderWay
  BY <1>2, <1>4 DEF Goto
<1>5. \A i \in DOMAIN ceremonies :
        i \in DOMAIN ceremonies' /\ (Quorum(i) => Quorum(i)')
  BY QuorumKept DEF Grown
<1>6. ASSUME NEW i \in Open, call[c] # Idle, UNCHANGED <<phase, ceremonies>>,
             phase >= VOTING_CLOSED,
             call[c].request \in CreateRequests \cup SubmitRequests, CreatedOrFound(c, i)
      PROVE  CallKnows(c)'
  <2>1. CASE Return(c)
    BY <2>1, <1>3
  <2>2. CASE /\ call[c].request.op # "create"
             /\ call' = [call EXCEPT ![c].pc = "upsert", ![c].id = i]
    <3>1. call[c] \in UnderWay
      BY <1>2, <1>6
    <3>2. call'[c] = [call[c] EXCEPT !.pc = "upsert", !.id = i]
      BY <1>2, <2>2
    <3>3. call[c].request \in SubmitRequests
      BY <1>6, <2>2 DEF CreateRequests
    <3>4. /\ call'[c].pc = "upsert" /\ call'[c].id = i
          /\ call'[c].request = call[c].request
      BY <3>1, <3>2 DEF UnderWay
    <3>. QED BY <1>6, <3>3, <3>4 DEF CallKnows, Open
  <2>. QED BY <1>6, <2>1, <2>2 DEF CreatedOrFound
<1>7. CASE Load(c)
  <2>1. /\ call[c] # Idle /\ call[c] \in UnderWay /\ call[c].request.op # "create"
        /\ UNCHANGED <<phase, ceremonies>>
    BY <1>1, <1>2, <1>7 DEF Load, At, Idle, CallKnows
  <2>2. call[c].request \in Requests
    BY <2>1 DEF UnderWay
  <2>3. PICK i \in DOMAIN ceremonies \cup {NoCeremony} :
          \/ call[c].request.op = "submit" /\ Goto(c, "phase")
          \/ Return(c)
          \/ /\ i # NoCeremony
             /\ call' = [call EXCEPT ![c].id = i, ![c].pc =
                  CASE call[c].request.op = "submit" -> "upsert"
                    [] call[c].request.op = "close" -> "count"
                    [] call[c].request.op = "tally" -> "shares"]
    BY <1>7 DEF Load
  <2>4. CASE call[c].request.op = "submit" /\ Goto(c, "phase")
    <3>1. call'[c].pc = "phase" /\ call'[c].request = call[c].request
      BY <2>1, <2>4, <1>4 DEF UnderWay, Positions
    <3>. QED
      BY <2>2, <2>4, <3>1, RequestKinds DEF CallKnows, PastPhaseCheck, OnCeremony
  <2>5. CASE /\ i # NoCeremony
             /\ call' = [call EXCEPT ![c].id = i, ![c].pc =
                  CASE call[c].request.op = "submit" -> "upsert"
                    [] call[c].request.op = "close" -> "count"
                    [] call[c].request.op = "tally" -> "shares"]
    <3>1. phase >= VOTING_CLOSED
      BY <1>2, <2>5 DEF KeyHeldUntilVotingCloses, TypeOK, VOTING_OPEN, VOTING_CLOSED
    <3>2. PICK pc \in {"upsert", "count", "shares"} :
            /\ call' = [call EXCEPT ![c].id = i, ![c].pc = pc]
            /\ pc = "upsert" => call[c].request.op = "submit"
      BY <2>1, <2>2, <2>5, RequestKinds
    <3>3. call'[c] = [call[c] EXCEPT !.id = i, !.pc = pc]
      BY <1>2, <3>2
    <3>4. call'[c].pc = pc /\ call'[c].id = i /\ call'[c].request = call[c].request
      BY <2>1, <3>3 DEF UnderWay
    <3>. QED
      BY <2>1, <2>2, <2>5, <3>1, <3>2, <3>4, RequestKinds DEF CallKnows
  <2>. QED BY <2>3, <2>4, <2>5, <1>3
<1>8. CASE CheckPhase(c)
  <2>1. CASE phase >= VOTING_CLOSED /\ Goto(c, "existing")
    <3>1. /\ call'[c].pc = "existing" /\ call'[c].request = call[c].request
          /\ UNCHANGED phase
      BY <1>4, <1>8, <2>1 DEF CheckPhase, At, Idle, UnderWay, Positions
    <3>. QED BY <1>1, <1>8, <2>1, <3>1 DEF CheckPhase, At, CallKnows, OnCeremony
  <2>. QED BY <2>1, <1>3, <1>8 DEF CheckPhase
<1>9. CASE CheckExisting(c)
  <2>1. /\ call[c] # Idle /\ call[c].pc = "existing" /\ phase >= VOTING_CLOSED
        /\ call[c].request \in CreateRequests \cup SubmitRequests
        /\ UNCHANGED <<phase, ceremonies>>
    BY <1>1, <1>9 DEF CheckExisting, At, Idle, CallKnows, PastPhaseCheck
  <2>2. CASE Goto(c, "insert")
    <3>1. call'[c].pc = "insert" /\ call'[c].request = call[c].request
      BY <1>4, <2>1, <2>2 DEF UnderWay, Positions
    <3>. QED BY <2>1, <3>1 DEF CallKnows, OnCeremony
  <2>. QED BY <1>6, <1>9, <2>1, <2>2 DEF CheckExisting
<1>10. CASE Insert(c)
  <2>1. /\ call[c] # Idle /\ call[c].pc = "insert" /\ phase >= VOTING_CLOSED
        /\ call[c].request \in CreateRequests \cup SubmitRequests
        /\ UNCHANGED phase /\ Goto(c, "created")
    BY <1>1, <1>10 DEF Insert, At, Idle, CallKnows, PastPhaseCheck
  <2>2. call'[c].pc = "created" /\ call'[c].request = call[c].request
    BY <1>4, <2>1 DEF UnderWay, Positions
  <2>. QED BY <2>1, <2>2 DEF CallKnows, OnCeremony
<1>11. CASE LoadCreated(c)
  <2>1. /\ call[c] # Idle /\ phase >= VOTING_CLOSED
        /\ call[c].request \in CreateRequests \cup SubmitRequests
        /\ UNCHANGED <<phase, ceremonies>>
    BY <1>1, <1>11 DEF LoadCreated, At, Idle, CallKnows, PastPhaseCheck
  <2>2. PICK i \in Open \cup {NoCeremony} : CreatedOrFound(c, i)
    BY <1>11 DEF LoadCreated
  <2>3. CASE i = NoCeremony
    BY <1>3, <2>2, <2>3 DEF CreatedOrFound
  <2>. QED BY <1>6, <2>1, <2>2, <2>3
<1>12. CASE Upsert(c)
  <2>1. /\ call[c] # Idle /\ phase >= VOTING_CLOSED /\ UNCHANGED phase
        /\ call[c].id \in DOMAIN ceremonies
    BY <1>1, <1>12 DEF Upsert, At, Idle, CallKnows, PastPhaseCheck, OnCeremony
  <2>2. CASE Goto(c, "reload")
    <3>1. call'[c].pc = "reload" /\ call'[c].id = call[c].id
      BY <1>4, <2>1, <2>2 DEF UnderWay, Positions
    <3>. QED BY <1>5, <2>1, <3>1 DEF CallKnows
  <2>. QED BY <1>3, <1>12, <2>2 DEF Upsert
<1>13. CASE Reload(c)
  <2>1. /\ call[c] \in UnderWay /\ phase >= VOTING_CLOSED
        /\ call[c].id \in DOMAIN ceremonies /\ UNCHANGED <<phase, ceremonies>>
    BY <1>1, <1>2, <1>13
       DEF Reload, At, Idle, CallKnows, PastPhaseCheck, OnCeremony
  <2>2. call'[c] = [call[c] EXCEPT !.seen = ceremonies[call[c].id].status,
                                   !.pc = "recount"]
    BY <1>2, <1>13 DEF Reload
  <2>3. /\ call'[c].pc = "recount" /\ call'[c].id = call[c].id
        /\ call'[c].seen = ceremonies[call[c].id].status
    BY <2>1, <2>2 DEF UnderWay
  <2>4. ceremonies[call[c].id].status # "OPEN" => Quorum(call[c].id)
    BY <2>1 DEF ReadyHasQuorum, Quorum
  <2>. QED BY <1>5, <2>1, <2>3, <2>4 DEF CallKnows
<1>14. CASE Recount(c)
  <2>1. /\ call[c] \in UnderWay /\ phase >= VOTING_CLOSED
        /\ call[c].id \in DOMAIN ceremonies /\ UNCHANGED <<phase, ceremonies>>
        /\ call[c].seen # "OPEN" => Quorum(call[c].id)
    BY <1>1, <1>2, <1>14
       DEF Recount, At, Idle, CallKnows, PastPhaseCheck, OnCeremony
  <2>2. CASE /\ call[c].seen # NextStatus(call[c].id)
             /\ call' = [call EXCEPT ![c].seen = NextStatus(call[c].id),
                                     ![c].pc = "status"]
    <3>1. call'[c] = [call[c] EXCEPT !.seen = NextStatus(call[c].id), !.pc = "status"]
      BY <1>2, <2>2
    <3>2. /\ call'[c].pc = "status" /\ call'[c].id = call[c].id
          /\ call'[c].seen = NextStatus(call[c].id)
      BY <2>1, <3>1 DEF UnderWay
    <3>3. NextStatus(call[c].id) = "READY" /\ Quorum(call[c].id)
      BY <2>1, <2>2 DEF NextStatus, Quorum
    <3>. QED BY <1>5, <2>1, <3>2, <3>3 DEF CallKnows
  <2>. QED BY <1>3, <1>14, <2>2 DEF Recount
<1>15. CASE UpdateStatus(c)
  BY <1>3, <1>15 DEF UpdateStatus
<1>16. CASE Count(c)
  <2>1. /\ call[c] # Idle /\ phase >= VOTING_CLOSED
        /\ call[c].id \in DOMAIN ceremonies /\ UNCHANGED <<phase, ceremonies>>
    BY <1>1, <1>16 DEF Count, At, Idle, CallKnows, PastPhaseCheck, OnCeremony
  <2>2. CASE Quorum(call[c].id) /\ Goto(c, "close")
    <3>1. call'[c].pc = "close" /\ call'[c].id = call[c].id
      BY <1>4, <2>1, <2>2 DEF UnderWay, Positions
    <3>. QED BY <1>5, <2>1, <2>2, <3>1 DEF CallKnows
  <2>. QED BY <1>3, <1>16, <2>2 DEF Count, Quorum
<1>17. CASE Close(c)
  BY <1>3, <1>17 DEF Close
<1>18. CASE ResolveCoordinatorPrivateKey(c)
  BY <1>3, <1>18 DEF ResolveCoordinatorPrivateKey
<1>. QED
  BY <1>7, <1>8, <1>9, <1>10, <1>11, <1>12, <1>13, <1>14, <1>15, <1>16, <1>17, <1>18
     DEF CallStep, CreateStep, SubmitStep, CloseStep

(* A step of one server action moves no other one.                         *)
LEMMA OthersStay ==
  ASSUME TypeOK, NEW c \in Calls, CallStep(c), NEW d \in Calls, d # c
  PROVE  UNCHANGED call[d]
<1>. call \in [Calls -> {Idle} \cup UnderWay]
  BY DEF TypeOK
<1>1. CASE Load(c)
  BY <1>1 DEF Load, Goto, Return
<1>2. CASE CreateStep(c)
  BY <1>2 DEF CreateStep, CheckPhase, CheckExisting, Insert, LoadCreated, CreatedOrFound,
              Goto, Return
<1>3. CASE SubmitStep(c)
  BY <1>3 DEF SubmitStep, Upsert, Reload, Recount, UpdateStatus, Goto, Return
<1>4. CASE CloseStep(c) \/ ResolveCoordinatorPrivateKey(c)
  BY <1>4 DEF CloseStep, Count, Close, ResolveCoordinatorPrivateKey, Goto, Return
<1>. QED BY <1>1, <1>2, <1>3, <1>4 DEF CallStep

-----------------------------------------------------------------------------
(* The invariant                                                           *)

(* A status is only ever raised by a call that knows of a quorum.          *)
LEMMA CallStepKeepsReady ==
  ASSUME IInv, NEW c \in Calls, CallStep(c), Grown
  PROVE  ReadyHasQuorum'
<1>. USE DEF IInv
<1>1. CallKnows(c)
  BY DEF CallsKnow
<1>2. \A i \in DOMAIN ceremonies :
        /\ ceremonies[i] \in Ceremony
        /\ Quorum(i) => Quorum(i)'
        /\ ceremonies[i].status # "OPEN" \/ ceremonies[i].closedAt => Quorum(i)
  BY QuorumKept DEF TypeOK, ReadyHasQuorum, Quorum
<1>3. SUFFICES ASSUME NEW i \in DOMAIN ceremonies',
                      ceremonies'[i].status # "OPEN" \/ ceremonies'[i].closedAt
               PROVE  Quorum(i)'
  BY DEF ReadyHasQuorum, Quorum
<1>4. CASE UNCHANGED ceremonies
  BY <1>2, <1>3, <1>4
<1>5. CASE Insert(c)
  <2>1. CASE i \in DOMAIN ceremonies
    BY <1>2, <1>3, <1>5, <2>1 DEF Insert, TypeOK
  <2>2. CASE i \notin DOMAIN ceremonies
    BY <1>3, <1>5, <2>2 DEF Insert, TypeOK, NewCeremony
  <2>. QED BY <2>1, <2>2
<1>6. CASE /\ At(c, "upsert")
           /\ ceremonies' = [ceremonies EXCEPT
                 ![call[c].id].shares[call[c].request.trustee] = call[c].request.share]
  <2>1. /\ i \in DOMAIN ceremonies
        /\ ceremonies'[i].status = ceremonies[i].status
        /\ ceremonies'[i].closedAt = ceremonies[i].closedAt
    BY <1>2, <1>6 DEF Ceremony
  <2>. QED BY <1>2, <1>3, <2>1
<1>7. CASE UpdateStatus(c)
  <2>1. i \in DOMAIN ceremonies /\ Quorum(call[c].id)
    BY <1>1, <1>7 DEF UpdateStatus, At, CallKnows
  <2>2. i # call[c].id =>
          ceremonies'[i] = ceremonies[i]
    BY <1>7, <2>1 DEF UpdateStatus
  <2>. QED BY <1>2, <1>3, <2>1, <2>2
<1>8. CASE Close(c)
  <2>1. i \in DOMAIN ceremonies /\ Quorum(call[c].id)
    BY <1>1, <1>8 DEF Close, At, CallKnows
  <2>2. i # call[c].id =>
          ceremonies'[i] = ceremonies[i]
    BY <1>8, <2>1 DEF Close
  <2>. QED BY <1>2, <1>3, <2>1, <2>2
<1>9. CASE \/ Load(c) \/ CheckPhase(c) \/ CheckExisting(c) \/ LoadCreated(c)
           \/ Reload(c) \/ Recount(c) \/ Count(c) \/ ResolveCoordinatorPrivateKey(c)
  BY <1>4, <1>9 DEF Load, CheckPhase, CheckExisting, LoadCreated, Reload, Recount, Count,
                   ResolveCoordinatorPrivateKey
<1>10. CASE Upsert(c)
  BY <1>4, <1>6, <1>10 DEF Upsert
<1>. QED
  BY <1>5, <1>7, <1>8, <1>9, <1>10 DEF CallStep, CreateStep, SubmitStep, CloseStep

(* Ceremonies are opened, and keys reconstructed, only past the phase      *)
(* check.                                                                  *)
LEMMA CallStepKeepsKeyHeld ==
  ASSUME IInv, NEW c \in Calls, CallStep(c), Grown
  PROVE  KeyHeldUntilVotingCloses'
<1>. USE DEF IInv
<1>1. CallKnows(c)
  BY DEF CallsKnow
<1>2. \A r \in reconstructed :
        r.ceremony \in DOMAIN ceremonies /\ Quorum(r.ceremony) /\ Quorum(r.ceremony)'
  BY QuorumKept DEF KeyHeldUntilVotingCloses, Quorum, TypeOK, Reconstruction
<1>3. /\ UNCHANGED phase
      /\ \A r \in reconstructed' : Quorum(r.ceremony)'
      /\ UNCHANGED <<ceremonies, reconstructed>> \/ phase >= VOTING_CLOSED
  <2>1. CASE ResolveCoordinatorPrivateKey(c)
    <3>1. phase >= VOTING_CLOSED /\ UNCHANGED <<phase, ceremonies>>
      BY <1>1, <2>1 DEF ResolveCoordinatorPrivateKey, At, CallKnows, PastPhaseCheck
    <3>2. \A r \in reconstructed' : Quorum(r.ceremony)
      BY <1>1, <1>2, <2>1, KeysResolved
    <3>. QED BY <3>1, <3>2 DEF Quorum, shareCount
  <2>2. CASE Insert(c) \/ Upsert(c) \/ UpdateStatus(c) \/ Close(c)
    BY <1>1, <1>2, <2>2 DEF Insert, Upsert, UpdateStatus, Close, At, CallKnows,
                           PastPhaseCheck
  <2>3. CASE \/ Load(c) \/ CheckPhase(c) \/ CheckExisting(c) \/ LoadCreated(c)
             \/ Reload(c) \/ Recount(c) \/ Count(c)
    BY <1>2, <2>3 DEF Load, CheckPhase, CheckExisting, LoadCreated, Reload, Recount, Count
  <2>. QED BY <2>1, <2>2, <2>3 DEF CallStep, CreateStep, SubmitStep, CloseStep
<1>. QED
  <2>1. ASSUME phase' < VOTING_CLOSED
        PROVE  ceremonies' = <<>> /\ reconstructed' = {}
    BY <1>3, <2>1 DEF KeyHeldUntilVotingCloses, VOTING_CLOSED, VOTING_OPEN, TypeOK
  <2>2. \A r \in reconstructed' : (shareCount(r.ceremony) >= thresholdRequired)'
    BY <1>3 DEF Quorum
  <2>. QED BY <2>1, <2>2 DEF KeyHeldUntilVotingCloses

(* No other step of a server action puts a key together.                   *)
LEMMA CallStepKeepsKeysGiven ==
  ASSUME IInv, NEW c \in Calls, CallStep(c)
  PROVE  KeysGiven'
<1>. USE DEF IInv
<1>1. CASE ResolveCoordinatorPrivateKey(c)
  BY <1>1, KeysResolved DEF KeysGiven, CallsKnow
<1>2. CASE ~ResolveCoordinatorPrivateKey(c)
  <2>1. UNCHANGED reconstructed
    BY <1>2 DEF CallStep, CreateStep, SubmitStep, CloseStep, Load, CheckPhase, CheckExisting,
                Insert, LoadCreated, Upsert, Reload, Recount, UpdateStatus, Count, Close
  <2>. QED BY <2>1 DEF KeysGiven
<1>. QED
  BY <1>1, <1>2

(* A call that begins knows nothing yet, except that it is not a creation  *)
(* if it starts by loading a ceremony.                                     *)
LEMMA BeginKeeps ==
  ASSUME IInv, NEW c \in Calls, Begin(c)
  PROVE  IInv'
<1>. USE DEF IInv
<1>. DEFINE First(q) == [pc |-> IF q.op = "create" THEN "phase" ELSE "load",
                         request |-> q, id |-> NoCeremony, seen |-> "OPEN"]
<1>1. PICK q \in Requests : call' = [call EXCEPT ![c] = First(q)]
  BY DEF Begin
<1>2. call \in [Calls -> {Idle} \cup UnderWay] /\ phase \in Int
  BY DEF TypeOK, VOTING_OPEN, VOTING_CLOSED
<1>3. UNCHANGED <<phase, ceremonies, reconstructed, crashes>> /\ UnderWay' = UnderWay
  BY DEF Begin, UnderWay
<1>4. First(q) \in UnderWay
  BY DEF UnderWay, Positions
<1>5. TypeOK'
  <2>1. call' \in [Calls -> {Idle} \cup UnderWay']
    BY <1>1, <1>2, <1>3, <1>4
  <2>2. served' \in 0 .. MaxCalls
    BY CeremonyBoundsAssumption DEF Begin, TypeOK
  <2>. QED BY <1>3, <2>1, <2>2 DEF TypeOK, Reconstruction
<1>6. ReadyHasQuorum' /\ KeyHeldUntilVotingCloses' /\ KeysGiven'
  BY <1>3 DEF ReadyHasQuorum, KeyHeldUntilVotingCloses, shareCount, KeysGiven
<1>7. CallKnows(c)'
  <2>1. call'[c] = First(q)
    BY <1>1, <1>2
  <2>. QED BY <2>1, RequestKinds DEF CallKnows, PastPhaseCheck, OnCeremony
<1>8. ASSUME NEW d \in Calls, d # c
      PROVE  CallKnows(d)'
  BY <1>1, <1>2, <1>3, <1>8, OthersKnow DEF CallsKnow, Grown
<1>. QED BY <1>5, <1>6, <1>7, <1>8 DEF CallsKnow

(* Every step keeps the invariant.                                         *)
LEMMA NextKeeps ==
  ASSUME IInv, [Next]_vars
  PROVE  IInv'
<1>1. phase \in Int
  BY DEF IInv, TypeOK, VOTING_OPEN, VOTING_CLOSED
<1>2. CASE \E c \in Calls : Begin(c)
  BY <1>2, BeginKeeps
<1>3. ASSUME NEW c \in Calls, CallStep(c)
      PROVE  IInv'
  <2>1. TypeOK' /\ Grown
    BY <1>3, CallStepTypes, CallStepGrows DEF IInv
  <2>2. phase' \in Int
    BY <2>1 DEF TypeOK, VOTING_OPEN, VOTING_CLOSED
  <2>3. CallKnows(c)'
    BY <1>3, <2>1, MoverKnows DEF IInv
  <2>4. \A d \in Calls : d # c => CallKnows(d)'
    BY <1>1, <1>3, <2>1, <2>2, OthersStay, OthersKnow DEF IInv, CallsKnow
  <2>. QED
    BY <1>3, <2>1, <2>3, <2>4, CallStepKeepsReady, CallStepKeepsKeyHeld,
       CallStepKeepsKeysGiven DEF IInv, CallsKnow
<1>4. ASSUME NEW c \in Calls, Crash(c)
      PROVE  IInv'
  <2>1. /\ UNCHANGED <<phase, ceremonies, reconstructed, served>> /\ Return(c)
        /\ UnderWay' = UnderWay
    BY <1>4 DEF Crash, UnderWay
  <2>2. call' = [call EXCEPT ![c] = Idle] /\ call \in [Calls -> {Idle} \cup UnderWay]
    BY <2>1 DEF Return, IInv, TypeOK
  <2>3. crashes' \in 0 .. MaxCrashes
    BY <1>4, CeremonyBoundsAssumption DEF Crash, IInv, TypeOK
  <2>4. TypeOK'
    BY <2>1, <2>2, <2>3 DEF IInv, TypeOK, Reconstruction
  <2>5. ReadyHasQuorum' /\ KeyHeldUntilVotingCloses' /\ KeysGiven'
    BY <2>1 DEF IInv, ReadyHasQuorum, KeyHeldUntilVotingCloses, shareCount, KeysGiven
  <2>6. ASSUME NEW d \in Calls
        PROVE  CallKnows(d)'
    BY <1>1, <2>1, <2>2, <2>6, IdleKnows, OthersKnow
       DEF IInv, CallsKnow, Grown, CallKnows, Idle, PastPhaseCheck, OnCeremony
  <2>. QED BY <2>4, <2>5, <2>6 DEF IInv, CallsKnow
<1>5. CASE StorePhase
  <2>1. UNCHANGED <<ceremonies, call, reconstructed, served, crashes>>
    BY <1>5 DEF StorePhase
  <2>2. phase' = VOTING_CLOSED /\ phase = VOTING_OPEN
    BY <1>5 DEF StorePhase, IInv, TypeOK, VOTING_OPEN, VOTING_CLOSED
  <2>3. TypeOK' /\ ReadyHasQuorum' /\ KeysGiven'
    BY <2>1, <2>2 DEF IInv, TypeOK, ReadyHasQuorum, shareCount, KeysGiven,
                      UnderWay, Reconstruction, VOTING_OPEN, VOTING_CLOSED
  <2>6. KeyHeldUntilVotingCloses'
    BY <2>1, <2>2 DEF IInv, KeyHeldUntilVotingCloses, shareCount, VOTING_CLOSED
  <2>4. Grown /\ phase' \in Int
    BY <2>1, <2>2 DEF Grown, VOTING_OPEN, VOTING_CLOSED
  <2>5. CallsKnow'
    BY <1>1, <2>1, <2>4, OthersKnow DEF IInv, CallsKnow
  <2>. QED BY <2>3, <2>5, <2>6 DEF IInv
<1>6. CASE UNCHANGED vars
  BY <1>6 DEF vars, IInv, TypeOK, UnderWay, Reconstruction, ReadyHasQuorum,
              KeyHeldUntilVotingCloses, shareCount, CallsKnow, CallKnows, Quorum, KeysGiven
<1>. QED BY <1>2, <1>3, <1>4, <1>5, <1>6 DEF Next, Quiet

(* What the theorems below rest on, for every behaviour.                   *)
LEMMA Invariant == Safety => []IInv
<1>1. Init => IInv
  <2>. SUFFICES ASSUME Init PROVE IInv
    OBVIOUS
  <2>1. TypeOK
    BY CeremonyBoundsAssumption DEF Init, TypeOK
  <2>2. ReadyHasQuorum /\ KeyHeldUntilVotingCloses /\ KeysGiven
    BY DEF Init, ReadyHasQuorum, KeyHeldUntilVotingCloses, KeysGiven
  <2>3. CallsKnow
    BY IdleKnows DEF Init, CallsKnow
  <2>. QED BY <2>1, <2>2, <2>3 DEF IInv
<1>. QED BY <1>1, NextKeeps, PTL DEF Safety

-----------------------------------------------------------------------------
(* Every reachable state is well typed.                                    *)
THEOREM TypeCorrect == Spec => []TypeOK
  BY Invariant, PTL DEF Spec, IInv

(* createDecryptionCeremonyAction checks the phase before it inserts, and  *)
(* however its awaits interleave with the rest, no ceremony exists and no  *)
(* coordinator key is reconstructed before voting has closed.              *)
THEOREM KeyHeld == Spec => []KeyHeldUntilVotingCloses
  BY Invariant, PTL DEF Spec, IInv

(* A ceremony shown READY or closed has, and keeps, its quorum of shares:  *)
(* closeDecryptionCeremonyAction and the status update of a submission     *)
(* both act on counts read earlier, and both are right to.                 *)
THEOREM QuorumBehindReady == Spec => []ReadyHasQuorum
  BY Invariant, PTL DEF Spec, IInv

(* generateCoordinatorSharesAction deals anew every time, and a ceremony   *)
(* takes what shares it is given.  A key that comes out of shares of one   *)
(* dealing, or of three with two of one dealing, is the coordinator's.     *)
THEOREM KeyIsRight == Spec => []KeyIsCoordinators
<1>1. ASSUME TypeOK, KeysGiven
      PROVE  KeyIsCoordinators
  <2>. SUFFICES ASSUME NEW r \in reconstructed,
                       OneDealing(r.from) \/ TwoOfThree(r.from)
                PROVE  r.key = Secret
    BY DEF KeyIsCoordinators
  <2>1. r.from \in SUBSET SharePayload /\ IsFiniteSet(r.from)
    BY <1>1, SharesAssumption DEF TypeOK, Reconstruction, KeysGiven, Given
  <2>2. PICK p \in Counted(r.from) : r.key \in KeyFrom(p)
    BY <1>1 DEF KeysGiven, Given
  <2>3. CASE OneDealing(r.from)
    BY <2>2, <2>3, OneDealingGivesSecret DEF OneDealing
  <2>4. CASE TwoOfThree(r.from)
    BY <2>1, <2>2, <2>4, TwoOfThreeGiveSecret DEF TwoOfThree
  <2>. QED BY <2>3, <2>4
<1>. QED BY <1>1, Invariant, PTL DEF Spec, IInv

(* The check in submitDecryptionShareAction is made long before its upsert; *)
(* the upsert's own condition is what keeps a CLOSED ceremony from taking   *)
(* a share in between.                                                      *)
THEOREM ClosedIsShut == Spec => ClosedTakesNoShare
<1>1. ASSUME IInv, [Next]_vars
      PROVE  ClosedTakesNoShareStep
  <2>. SUFFICES ASSUME NEW i \in DOMAIN ceremonies, ceremonies[i].status = "CLOSED"
                PROVE  ceremonies'[i].shares = ceremonies[i].shares
    BY DEF ClosedTakesNoShareStep
  <2>1. ceremonies[i] \in Ceremony
    BY <1>1 DEF IInv, TypeOK
  <2>2. CASE UNCHANGED ceremonies
    BY <2>2
  <2>3. ASSUME NEW c \in Calls, Insert(c)
        PROVE  ceremonies'[i].shares = ceremonies[i].shares
    BY <1>1, <2>3 DEF Insert, IInv, TypeOK
  <2>4. ASSUME NEW c \in Calls, Upsert(c)
        PROVE  ceremonies'[i].shares = ceremonies[i].shares
    <3>1. CASE i = call[c].id
      BY <2>4, <3>1 DEF Upsert
    <3>2. CASE i # call[c].id
      BY <2>1, <2>4, <3>2 DEF Upsert
    <3>. QED BY <3>1, <3>2
  <2>5. ASSUME NEW c \in Calls, UpdateStatus(c) \/ Close(c)
        PROVE  ceremonies'[i].shares = ceremonies[i].shares
    BY <2>1, <2>5 DEF UpdateStatus, Close, Ceremony
  <2>6. ASSUME NEW c \in Calls,
               \/ Begin(c) \/ Crash(c) \/ Load(c) \/ CheckPhase(c) \/ CheckExisting(c)
               \/ LoadCreated(c) \/ Reload(c) \/ Recount(c) \/ Count(c)
               \/ ResolveCoordinatorPrivateKey(c)
        PROVE  UNCHANGED ceremonies
    BY <2>6 DEF Begin, Crash, Load, CheckPhase, CheckExisting, LoadCreated, Reload, Recount,
                Count, ResolveCoordinatorPrivateKey
  <2>7. CASE StorePhase \/ UNCHANGED vars
    BY <2>2, <2>7 DEF StorePhase, vars
  <2>. QED
    BY <1>1, <2>2, <2>3, <2>4, <2>5, <2>6, <2>7
       DEF Next, Quiet, CallStep, CreateStep, SubmitStep, CloseStep
<1>. QED BY <1>1, Invariant, PTL DEF Spec, Safety, ClosedTakesNoShare

=============================================================================
