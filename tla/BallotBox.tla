------------------------------ MODULE BallotBox ------------------------------
(***************************************************************************)
(* What the on-chain core promises its voters, without contracts, events   *)
(* or signatures: per election, a roll that fills while registration is    *)
(* open, a box that takes one ballot per name on the roll while voting is  *)
(* open and numbers them as they come, and a count published only once     *)
(* both certificates are in.                                               *)
(***************************************************************************)
EXTENDS Naturals, FiniteSets

CONSTANTS ElectionIds, Voters, Ballots

Stages == {"preparing", "registering", "sealed", "voting", "counting", "published"}
Certificates == {"tally", "decryption"}

VARIABLES stage, roll, voted, box, certified

boxVars == <<stage, roll, voted, box, certified>>

BoxInit ==
  /\ stage = [e \in ElectionIds |-> "preparing"]
  /\ roll = [e \in ElectionIds |-> {}]
  /\ voted = [e \in ElectionIds |-> {}]
  /\ box = [e \in ElectionIds |-> {}]
  /\ certified = [e \in ElectionIds |-> {}]

Advance(e, from, to) ==
  /\ stage[e] = from
  /\ stage' = [stage EXCEPT ![e] = to]
  /\ UNCHANGED <<roll, voted, box, certified>>

Enrol(e, v) ==
  /\ stage[e] = "registering"
  /\ v \notin roll[e]
  /\ roll' = [roll EXCEPT ![e] = @ \cup {v}]
  /\ UNCHANGED <<stage, voted, box, certified>>

(* The ballot takes the next free position of the box.                     *)
Cast(e, v, b) ==
  /\ stage[e] = "voting"
  /\ v \in roll[e] \ voted[e]
  /\ voted' = [voted EXCEPT ![e] = @ \cup {v}]
  /\ box' = [box EXCEPT ![e] = @ \cup {<<Cardinality(voted[e]), b>>}]
  /\ UNCHANGED <<stage, roll, certified>>

Certify(e, c) ==
  /\ stage[e] = "counting"
  /\ certified' = [certified EXCEPT ![e] = @ \cup {c}]
  /\ UNCHANGED <<stage, roll, voted, box>>

Publish(e) ==
  /\ certified[e] = Certificates
  /\ Advance(e, "counting", "published")

BoxNext ==
  \E e \in ElectionIds :
    \/ Advance(e, "preparing", "registering")
    \/ Advance(e, "registering", "sealed")
    \/ Advance(e, "sealed", "voting")
    \/ Advance(e, "voting", "counting")
    \/ \E v \in Voters : Enrol(e, v)
    \/ \E v \in Voters, b \in Ballots : Cast(e, v, b)
    \/ \E c \in Certificates : Certify(e, c)
    \/ Publish(e)

BoxSpec == BoxInit /\ [][BoxNext]_boxVars
=============================================================================
