------------------------- MODULE MCTallyPublication -------------------------
(***************************************************************************)
(* TallyPublication and ExportedEvidence for TLC: clicks are               *)
(* interchangeable.  Either the board's clicks interleave and nobody reads *)
(* the evidence, or one click at a time of one count, none of them cut     *)
(* short, goes on while the evidence is read: part says which.             *)
(***************************************************************************)
EXTENDS ExportedEvidence, TLC

VARIABLE part

RunSymmetry == Permutations(Runs)

OneClickNext ==
  /\ Next
  /\ started' <= 1 /\ faults' = 0
  /\ Cardinality({r \in Runs : run'[r] # Idle}) <= 1

BoardInit == Init /\ ExportInit /\ part \in {"BOARD", "EXPORT"}
BoardNext ==
  /\ UNCHANGED part
  /\ \/ part = "BOARD" /\ Next /\ UNCHANGED exportVars
     \/ part = "EXPORT" /\ OneClickNext /\ UNCHANGED exportVars
     \/ part = "EXPORT" /\ ExportStep /\ UNCHANGED vars

BoardSpec == BoardInit /\ [][BoardNext]_<<vars, exportVars, part>>
=============================================================================
