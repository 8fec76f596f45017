------------------------- MODULE MCElectionRegistry -------------------------
(***************************************************************************)
(* Instances of ElectionRegistry for TLC.                                  *)
(***************************************************************************)
EXTENDS ElectionRegistry

CONSTANTS aea, rea, tv, dv, n1, n2, k1, k2, c1, c2

Permit(s, e, n, k) == [signer |-> s, election |-> e, nullifier |-> n, key |-> k]
Ballot(k, e, c) == [key |-> k, election |-> e, ciphertext |-> c]

(* Two elections.  In election 0 nullifier n1 holds permits for both keys  *)
(* (an enrolment redone with a new key) and k1 signed two ballots.  In     *)
(* election 1 only k1 holds a permit, while k2 signed a ballot: each has   *)
(* something that is good in the other election only.                      *)
RollPermits ==
  {Permit(rea, 0, n1, k1), Permit(rea, 0, n1, k2), Permit(rea, 0, n2, k2),
   Permit(rea, 0, n2, k1), Permit(aea, 0, n2, k2), Permit(rea, 1, n1, k1)}
RollBallotSigs ==
  {Ballot(k1, 0, c1), Ballot(k1, 0, c2), Ballot(k2, 0, c1), Ballot(k2, 1, c1)}

(* One election, one voter: enough to watch what settles and when.         *)
OneVoterPermits == {Permit(rea, 0, n1, k1)}
OneVoterBallotSigs == {Ballot(k1, 0, c1)}

(* A permit as evidence-api and the SDK issue it: no voting key in it.     *)
IssuedPermits == {Permit(rea, 0, n1, Unbound)}
=============================================================================
