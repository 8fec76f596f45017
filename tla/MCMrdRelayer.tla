---------------------------- MODULE MCMrdRelayer ----------------------------
(***************************************************************************)
(* Instances of MrdRelayer for TLC.                                        *)
(***************************************************************************)
EXTENDS MrdRelayer

CONSTANTS aea, n1, k1, k2, c1, c2, w1, w2

SignupOf(n, k) == [kind |-> "SIGNUP", election |-> 0, nullifier |-> n, key |-> k]
BallotOf(k, c) == [kind |-> "BALLOT", election |-> 0, key |-> k, ciphertext |-> c]

(* One voter: a signup, and a ballot signed with the key it enrols.        *)
Permit(k) == [signer |-> aea, election |-> 0, nullifier |-> n1, key |-> k]
OneVoterPermits == {Permit(k1)}
OneVoterBallotSigs == {[key |-> k1, election |-> 0, ciphertext |-> c1]}
OneVoterPosts == {SignupOf(n1, k1), BallotOf(k1, c1)}

(* The same voter lost the key and enrols again with another: both signups *)
(* carry a good permit for the same nullifier, and only one can land.      *)
TwoKeyPermits == {Permit(k1), Permit(k2)}
TwoKeyPosts == {SignupOf(n1, k1), SignupOf(n1, k2)}

(* Worker loops are interchangeable.                                       *)
WorkerSymmetry == Permutations(Workers)
=============================================================================
