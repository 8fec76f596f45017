----------------------------- MODULE Threshold -----------------------------
(***************************************************************************)
(* The 2-of-3 sharing of the coordinator's key, packages/crypto            *)
(* threshold.ts.  The 32 bytes of the key are shared, and put together     *)
(* again, each by itself and all alike: one of them stands for the key.    *)
(***************************************************************************)
EXTENDS Integers, FiniteSets

CONSTANTS
  FIELD_PRIME, \* 65521 in the code
  MaxByte,     \* the largest byte, 255
  MaxX,        \* the largest coordinate accepted, 255
  Secret       \* COORDINATOR_PRIVATE_KEY, one byte of it

Mod(n) == n % FIELD_PRIME

(* The extended Euclidean algorithm: a turn of its loop, and what the loop *)
(* leaves in t.                                                            *)
EuclidStates == [t : Int, newT : Int, r : Nat, newR : Nat]
Turn(s) ==
  LET q == s.r \div s.newR
  IN  [t |-> s.newT, newT |-> s.t - q * s.newT, r |-> s.newR, newR |-> s.r - q * s.newR]
Euclid[s \in EuclidStates] == IF s.newR = 0 THEN s.t ELSE Euclid[Turn(s)]
ModInv(a) == Mod(Euclid[[t |-> 0, newT |-> 1, r |-> FIELD_PRIME, newR |-> Mod(a)]])

ASSUME FieldAssumption ==
  /\ FIELD_PRIME \in Nat /\ MaxX \in Nat /\ MaxByte \in Nat
  /\ MaxX < FIELD_PRIME /\ MaxByte < FIELD_PRIME /\ 3 <= MaxX
  /\ Secret \in 0 .. MaxByte

(* So modInv throws for no a but 0.                                        *)
ASSUME PrimeAssumption ==
  FIELD_PRIME >= 2 /\ \A d \in 2 .. FIELD_PRIME - 1 : FIELD_PRIME % d # 0

(* parseThresholdSharePayload; the sixteen bits of a y may exceed the prime. *)
SharePayload == [x : 1 .. MaxX, y : Nat]

(* splitCoordinatorKey2of3 with the random coefficient coeff.              *)
Dealing(coeff) == {[x |-> i, y |-> Mod(Secret + coeff * i)] : i \in 1 .. 3}
Coefficients == 0 .. FIELD_PRIME - 1

(* Mutant: the ordinates are weighed by their own coordinates.             *)
InterpolateOwn(a, b) ==
  Mod(Mod(a.y * a.x - b.y * b.x) * ModInv(Mod(b.x - a.x)))

(* reconstructWithTwoShares: the line through a and b, at 0.               *)
Interpolate(a, b) ==
  Mod(Mod(a.y * b.x - b.y * a.x) * ModInv(Mod(b.x - a.x)))

(* The shares that count, of a table read in the order of its trustees'    *)
(* names: the first two with distinct coordinates, and a third if there is *)
(* one, of those that come first with theirs.                              *)
Coordinates(shares) == {s.x : s \in shares}
Counted(shares) ==
  {p \in shares \X shares \X shares :
     /\ p[1].x # p[2].x
     /\ IF Cardinality(Coordinates(shares)) >= 3 THEN p[3].x \notin {p[1].x, p[2].x}
        ELSE p[3] = p[2]}

(* Mutant: the third share is not looked at.                               *)
KeyFromTwo(p) == {k \in {Interpolate(p[1], p[2])} : k <= MaxByte}

(* The key they give, if they are consistent.                              *)
KeyFrom(p) ==
  {k \in {Interpolate(p[1], p[2])} : k <= MaxByte /\ Interpolate(p[1], p[3]) = k}
=============================================================================
