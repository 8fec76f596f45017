------------------------------- MODULE OffChain -------------------------------
(***************************************************************************)
(* What happens beside the chain, side by side: the enrolment desk, the    *)
(* ballot catalogue, the evidence audit and the public roll share no       *)
(* state.  part says which of them runs, and the others stay as they       *)
(* begin.  The roll runs with the observers and the indexer, or with the   *)
(* attempts of the audit CLI.                                              *)
(***************************************************************************)
EXTENDS EnrolmentDesk, EvidenceAudit, BallotCatalogue, PublicRoll

VARIABLE part

offChainVars == <<deskVars, auditVars, catalogueVars, rollVars, part>>

OffChainInit ==
    /\ DeskInit /\ AuditInit /\ CatalogueInit /\ RollInit
    /\ part \in {"DESK", "AUDIT", "CATALOGUE", "ROLL", "ATTEMPTS"}

OffChainNext ==
    /\ UNCHANGED part
    /\ \/ part = "DESK" /\ DeskNext /\ UNCHANGED <<auditVars, catalogueVars, rollVars>>
       \/ part = "AUDIT" /\ AuditNext /\ UNCHANGED <<deskVars, catalogueVars, rollVars>>
       \/ part = "CATALOGUE" /\ CatalogueNext /\ UNCHANGED <<deskVars, auditVars, rollVars>>
       \/ part = "ROLL" /\ EnrolStep /\ UNCHANGED <<deskVars, auditVars, catalogueVars>>
       \/ part = "ROLL" /\ ObserveStep /\ UNCHANGED <<deskVars, auditVars, catalogueVars>>
       \/ part = "ATTEMPTS" /\ EnrolStep /\ UNCHANGED <<deskVars, auditVars, catalogueVars>>
       \/ part = "ATTEMPTS" /\ AttemptStep /\ UNCHANGED <<deskVars, auditVars, catalogueVars>>

OffChainSpec == OffChainInit /\ [][OffChainNext]_offChainVars

(* The tables and the processes of the part that runs hold what they should. *)
OffChainTypeOK ==
    /\ part = "DESK" => DeskTypeOK
    /\ part = "AUDIT" => AuditTypeOK
    /\ part = "CATALOGUE" => CatalogueTypeOK
    /\ part \in {"ROLL", "ATTEMPTS"} => RollTypeOK

===============================================================================
