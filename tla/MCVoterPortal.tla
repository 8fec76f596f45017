---------------------------- MODULE MCVoterPortal ----------------------------
(* VoterPortal for TLC: one tab, two permits over its voting address and one   *)
(* over the nullifier alone, as the evidence API signs them.                   *)
EXTENDS VoterPortal

CONSTANTS t1, n1, n2, n3

=============================================================================
