------------------------ MODULE MCDecryptionCeremony ------------------------
(***************************************************************************)
(* Instances of DecryptionCeremony for TLC.                                *)
(***************************************************************************)
EXTENDS DecryptionCeremony, TLC

CONSTANTS s1, s2, t1, t2, t3

(* The shares dealt with the coefficients 1 and 3, for Secret = 5 in the   *)
(* field of 11.                                                            *)
A1 == [x |-> 1, y |-> 6]
A2 == [x |-> 2, y |-> 7]
B3 == [x |-> 3, y |-> 3]
DealtShares == {A1, A2, B3}
(* Three trustees, the third with a share of another dealing: any two of   *)
(* them give a key, and the three together none.                           *)
TrusteeShares == {<<t1, A1>>, <<t2, A2>>, <<t3, B3>>}

CallSymmetry == Permutations(Calls)
=============================================================================
