------------------------- MODULE MCEvidenceIndexer -------------------------
(* A small instance of EvidenceIndexer for TLC: one election that is        *)
(* created, changes phase, and leaves a transcript.                         *)
EXTENDS EvidenceIndexer

CONSTANTS e1

MCElections == {e1}
Created == [event |-> "ElectionCreated", election |-> e1]
Opened == [event |-> "PhaseChanged", election |-> e1, newPhase |-> 1]
Closed == [event |-> "PhaseChanged", election |-> e1, newPhase |-> 2]
Transcript == [event |-> "TallyTranscriptCommitmentPublished", election |-> e1]

(* Events of every kind, of which the canary looks at the change of phase, *)
(* and not at the transcript.                                              *)
RewriteTxs == {Created, Opened, Closed, Transcript}
=============================================================================
