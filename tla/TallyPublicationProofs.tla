----------------------- MODULE TallyPublicationProofs -----------------------
(***************************************************************************)
(* Proofs about TallyPublication, for any number of clicks, of processings *)
(* and of faults, and about what ExportedEvidence makes of its tables, for *)
(* any number of commands and of failed requests.                          *)
(***************************************************************************)
EXTENDS ExportedEvidence, FiniteSetTheorems, TLAPS

Unrewritten == rewrites = 0
Verified(status) == status \in {"VERIFIED_OFFCHAIN", "VERIFIED_ONCHAIN"}
OnChain(j, c) == proofs[j][c] = "VERIFIED_ONCHAIN"
Processed(j) ==
  /\ j \in committed
  /\ faults = 0 => tallyJobs[j].status = "COMPLETED"

(* Where each kind of run can stand.                                       *)
ProcessPositions == {"job", "ensureTallying", "move", "commit", "update"}
ActaPositions == {"acta", "content"}
GeneratePositions == {"prove", "verify", "key", "proveDecryption"}
SubmitPositions ==
  {"row", "still", "stale", "verifier", "flag", "mark", "gateState", "proofState"}
PublishPositions ==
  {"gate", "payloadGate", "existing", "insert", "advance", "publishResults", "audit",
   "openAudit", "auditRow"}
InPlace(r) ==
  /\ run[r].job \in 1 .. started
  /\ run[r].op = "process" => run[r].pc \in ProcessPositions \cup ActaPositions
  /\ run[r].op = "generate" => run[r].pc \in GeneratePositions
  /\ run[r].op = "submit" => run[r].pc \in SubmitPositions
  /\ run[r].op = "publish" => run[r].pc \in PublishPositions \cup ActaPositions
RunsInPlace == \A r \in Runs : run[r] # Idle => InPlace(r)

(* What a run knows of its job's processing: nobody else processes it, and *)
(* what it has passed is done.                                             *)
KnowsProcessed(r) ==
  /\ run[r].op = "process" =>
       /\ run[r].pc = "job" => run[r].job \notin committed
       /\ run[r].pc = "update" => run[r].job \in committed
       /\ run[r].pc \in ActaPositions => Processed(run[r].job)
       /\ \A other \in Runs \ {r} :
            run[other] # Idle /\ run[other].op = "process" =>
              run[other].job # run[r].job
  /\ run[r].op # "process" => Processed(run[r].job)
ProcessingOK ==
  /\ \A r \in Runs : run[r] # Idle => KnowsProcessed(r)
  /\ committed \subseteq 1 .. started
  /\ \A a \in contents : Processed(a.job)
  /\ \A j \in Jobs : tallyJobs[j].status = "COMPLETED" => j \in committed

(* What a run knows of the proofs.                                         *)
KnowsProofs(r) ==
  /\ run[r].op = "generate" =>
       /\ proofs[run[r].job]["TALLY"] # "none"
       /\ ~Verified(proofs[run[r].job]["DECRYPTION"])
       /\ \A other \in Runs \ {r} :
            run[other] # Idle /\ run[other].op = "generate" =>
              run[other].job # run[r].job
  /\ run[r].op = "submit" =>
       /\ Verified(proofs[run[r].job]["DECRYPTION"])
       /\ Unrewritten =>
            /\ run[r].circuit = "DECRYPTION" => OnChain(run[r].job, "TALLY")
            /\ run[r].pc = "mark" => run[r].circuit \in verified
            /\ run[r].pc = "still" => OnChain(run[r].job, run[r].circuit)
            /\ run[r].pc # "stale"
            /\ run[r].pc = "proofState" /\ run[r].proofState = "VERIFIED" =>
                 verified = Circuits
  /\ run[r].op = "publish" =>
       /\ proofs[run[r].job]["TALLY"] # "none"
       /\ Unrewritten => verified = Circuits
RowsOK(j) ==
  /\ Verified(proofs[j]["DECRYPTION"]) =>
       /\ transcript[j] = "right" /\ j \in committed
       /\ proofs[j]["TALLY"] # "none"
  /\ Unrewritten =>
       /\ \A c \in Circuits : OnChain(j, c) => c \in verified
       /\ OnChain(j, "DECRYPTION") => OnChain(j, "TALLY")
       /\ tallyJobs[j].proofState = "VERIFIED" => verified = Circuits
ProofsOK ==
  /\ \A r \in Runs : run[r] # Idle => KnowsProofs(r)
  /\ \A j \in Jobs : RowsOK(j)

(* What a run knows of the evidence, and how many payloads there can be:   *)
(* who is about to insert one found none.                                  *)
Inserting == {r \in Runs : run[r].pc = "insert"}
KnowsEvidence(r) ==
  /\ run[r].pc = "content" => ActaOf(r) \in anchored
  /\ run[r].op = "publish" /\ run[r].pc \in {"acta", "content", "advance", "publishResults"} =>
       payloads # <<>>
  /\ run[r].pc \in {"advance", "publishResults"} =>
       \E a \in contents : a.kind = "ACTA_RESULTADOS"
EvidenceOK ==
  /\ \A r \in Runs : run[r] # Idle => KnowsEvidence(r)
  /\ \A i \in DOMAIN payloads :
       /\ Processed(payloads[i])
       /\ proofs[payloads[i]]["TALLY"] # "none"
       /\ Unrewritten => verified = Circuits
  /\ payloads # <<>> => Len(payloads) + Cardinality(Inserting) <= Cardinality(Runs)
  /\ PublicationLeavesEvidence

IInv == PublicationTypeOK /\ RunsInPlace /\ ProcessingOK /\ ProofsOK /\ EvidenceOK

-----------------------------------------------------------------------------
(* What a step does to the runs                                            *)

RunsTyped == run \in [Runs -> {Idle} \cup UnderWay]
Elsewhere(r) == RunsTyped' /\ \A other \in Runs \ {r} : run'[other] = run[other]
Stopped(r) == run'[r] = Idle /\ Elsewhere(r)
Moved(r, pc) ==
  /\ run'[r] # Idle
  /\ run'[r].pc = pc /\ run'[r].op = run[r].op /\ run'[r].job = run[r].job
  /\ Elsewhere(r)
MovedOn(r, pc) ==
  /\ Moved(r, pc)
  /\ run'[r].circuit = run[r].circuit /\ run'[r].proofState = run[r].proofState
Begun(r, op, pc, j) ==
  /\ run[r] = Idle
  /\ run'[r] # Idle
  /\ run'[r].pc = pc /\ run'[r].op = op /\ run'[r].job = j /\ run'[r].circuit = "TALLY"
  /\ Elsewhere(r)

(* A run that stands somewhere is under way.                               *)
LEMMA Standing ==
  ASSUME RunsTyped, NEW r \in Runs
  PROVE  /\ run[r] # Idle <=> run[r] \in UnderWay
         /\ \A pc \in Positions : At(r, pc) => run[r] # Idle
<1>1. Idle \notin UnderWay
  BY DEF Idle, UnderWay, Positions
<1>2. \A pc \in Positions : At(r, pc) => run[r] # Idle
  BY DEF At, Idle, Positions
<1>. QED BY <1>1, <1>2 DEF RunsTyped

(* A run whose record is replaced by another leaves the others alone.      *)
LEMMA Replaced ==
  ASSUME RunsTyped, NEW r \in Runs, NEW record \in {Idle} \cup UnderWay,
         run' = [run EXCEPT ![r] = record]
  PROVE  run'[r] = record /\ Elsewhere(r)
  BY DEF RunsTyped, Elsewhere

(* Going on to a position.                                                 *)
LEMMA GotoMoves ==
  ASSUME RunsTyped, NEW r \in Runs, run[r] # Idle, NEW pc \in Positions, Goto(r, pc)
  PROVE  MovedOn(r, pc)
<1>. DEFINE record == [run[r] EXCEPT !.pc = pc]
<1>1. run[r] \in UnderWay
  BY Standing
<1>2. record \in UnderWay
  BY <1>1 DEF UnderWay
<1>3. /\ record.pc = pc /\ record.op = run[r].op /\ record.job = run[r].job
      /\ record.circuit = run[r].circuit /\ record.proofState = run[r].proofState
  BY <1>1 DEF UnderWay
<1>4. record # Idle
  BY <1>3 DEF Idle, Positions
<1>5. run' = [run EXCEPT ![r] = record]
  BY DEF Goto, RunsTyped
<1>. HIDE DEF record
<1>6. run'[r] = record /\ Elsewhere(r)
  BY <1>2, <1>5, Replaced
<1>. QED BY <1>3, <1>4, <1>6 DEF MovedOn, Moved

(* Stopping.                                                               *)
LEMMA StopStops ==
  ASSUME RunsTyped, NEW r \in Runs, Stop(r)
  PROVE  Stopped(r)
  BY Replaced DEF Stop, Stopped

(* Starting.                                                               *)
LEMMA StartBegins ==
  ASSUME RunsTyped, NEW r \in Runs, NEW pc \in Positions, NEW j \in Jobs,
         NEW op \in {"process", "generate", "submit", "publish"}, Start(r, op, pc, j)
  PROVE  Begun(r, op, pc, j)
<1>. DEFINE record == [op |-> op, pc |-> pc, job |-> j, circuit |-> "TALLY", seen |-> 0,
                       proofState |-> "NOT_IMPLEMENTED"]
<1>1. record \in UnderWay
  BY DEF UnderWay, Circuits, ProofStates
<1>2. record # Idle
  BY DEF Idle, Positions
<1>3. record.pc = pc /\ record.op = op /\ record.job = j /\ record.circuit = "TALLY"
  OBVIOUS
<1>4. run[r] = Idle /\ run' = [run EXCEPT ![r] = record]
  BY DEF Start
<1>. HIDE DEF record
<1>5. run'[r] = record /\ Elsewhere(r)
  BY <1>1, <1>4, Replaced
<1>. QED BY <1>2, <1>3, <1>4, <1>5 DEF Begun

(* Going on with something learnt: the phase seen, the other circuit, the  *)
(* state of the gate.                                                      *)
LEMMA LearntMoves ==
  ASSUME RunsTyped, NEW r \in Runs, run[r] # Idle, NEW record \in UnderWay,
         record.op = run[r].op, record.job = run[r].job,
         run' = [run EXCEPT ![r] = record]
  PROVE  Moved(r, record.pc) /\ run'[r] = record
<1>1. record # Idle
  BY DEF UnderWay, Idle
<1>2. run'[r] = record /\ Elsewhere(r)
  BY Replaced
<1>. QED BY <1>1, <1>2 DEF Moved

(* The phase of the election, read or moved.                               *)
LEMMA PhaseMoves ==
  ASSUME RunsTyped, NEW r \in Runs, phase \in VOTING_OPEN .. AUDIT_WINDOW
  PROVE  /\ ReadPhase(r) => MovedOn(r, "commit") \/ Moved(r, "move") \/ Stopped(r)
         /\ MovePhase(r) => Moved(r, "ensureTallying") \/ Stopped(r)
<1>1. ASSUME ReadPhase(r)
      PROVE  MovedOn(r, "commit") \/ Moved(r, "move") \/ Stopped(r)
  <2>1. run[r] # Idle /\ run[r] \in UnderWay
    BY <1>1, Standing DEF ReadPhase, Positions
  <2>2. CASE Goto(r, "commit")
    BY <2>1, <2>2, GotoMoves DEF Positions
  <2>3. CASE phase < TALLYING /\ run' = [run EXCEPT ![r].pc = "move", ![r].seen = phase]
    <3>. DEFINE record == [run[r] EXCEPT !.pc = "move", !.seen = phase]
    <3>1. phase \in VOTING_OPEN .. TALLYING - 1
      BY <2>3 DEF VOTING_OPEN, TALLYING, AUDIT_WINDOW
    <3>2. record \in UnderWay /\ record.op = run[r].op /\ record.job = run[r].job
          /\ record.pc = "move"
      BY <2>1, <3>1 DEF UnderWay, Positions
    <3>3. run' = [run EXCEPT ![r] = record]
      BY <2>3 DEF RunsTyped
    <3>. HIDE DEF record
    <3>. QED BY ZenonT(40), <2>1, <3>2, <3>3, LearntMoves
  <2>4. CASE Stop(r)
    BY <2>4, StopStops
  <2>. QED BY <1>1, <2>2, <2>3, <2>4 DEF ReadPhase
<1>2. ASSUME MovePhase(r)
      PROVE  Moved(r, "ensureTallying") \/ Stopped(r)
  <2>1. run[r] # Idle /\ run[r] \in UnderWay
    BY <1>2, Standing DEF MovePhase, Positions
  <2>2. CASE run' = [run EXCEPT ![r].pc = "ensureTallying", ![r].seen = 0]
    <3>. DEFINE record == [run[r] EXCEPT !.pc = "ensureTallying", !.seen = 0]
    <3>1. record \in UnderWay /\ record.op = run[r].op /\ record.job = run[r].job
          /\ record.pc = "ensureTallying"
      BY <2>1 DEF UnderWay, Positions
    <3>2. run' = [run EXCEPT ![r] = record]
      BY <2>2 DEF RunsTyped
    <3>. HIDE DEF record
    <3>. QED BY ZenonT(40), <2>1, <3>1, <3>2, LearntMoves
  <2>3. CASE Stop(r)
    BY <2>3, StopStops
  <2>. QED BY <1>2, <2>2, <2>3 DEF MovePhase
<1>. QED BY <1>1, <1>2

(* A submission's way on from a circuit that is done.                      *)
LEMMA NextCircuitMoves ==
  ASSUME RunsTyped, NEW r \in Runs, run[r] # Idle, NextCircuit(r)
  PROVE  \/ /\ run[r].circuit = "TALLY" /\ Moved(r, "row")
            /\ run'[r].circuit = "DECRYPTION"
         \/ MovedOn(r, "gateState")
<1>1. run[r] \in UnderWay
  BY Standing
<1>2. CASE run[r].circuit = "TALLY"
  <2>. DEFINE record == [run[r] EXCEPT !.circuit = "DECRYPTION", !.pc = "row"]
  <2>1. record \in UnderWay /\ record.op = run[r].op /\ record.job = run[r].job
        /\ record.pc = "row" /\ record.circuit = "DECRYPTION"
    BY <1>1 DEF UnderWay, Positions, Circuits
  <2>2. run' = [run EXCEPT ![r] = record]
    BY <1>2 DEF RunsTyped, NextCircuit
  <2>. HIDE DEF record
  <2>. QED BY <1>2, <2>1, <2>2, LearntMoves
<1>3. CASE run[r].circuit # "TALLY"
  BY <1>3, GotoMoves DEF NextCircuit, Positions
<1>. QED BY <1>2, <1>3

(* The state of the gate, read for the job's row.                          *)
LEMMA GateStateMoves ==
  ASSUME RunsTyped, NEW r \in Runs, LoadGateState(r)
  PROVE  Moved(r, "proofState") /\ run'[r].proofState = GateProofState(Job(r))
<1>. DEFINE state == GateProofState(Job(r))
            record == [run[r] EXCEPT !.pc = "proofState", !.proofState = state]
<1>1. run[r] # Idle /\ run[r] \in UnderWay
  BY Standing DEF LoadGateState, Positions
<1>2. state \in ProofStates
  BY DEF GateProofState, ProofStates
<1>3. run' = [run EXCEPT ![r] = record]
  BY DEF LoadGateState, RunsTyped
<1>. HIDE DEF state
<1>4. record \in UnderWay /\ record.op = run[r].op /\ record.job = run[r].job
      /\ record.pc = "proofState" /\ record.proofState = state
  BY <1>1, <1>2 DEF UnderWay, Positions
<1>. HIDE DEF record
<1>5. Moved(r, "proofState") /\ run'[r] = record
  BY ZenonT(40), <1>1, <1>3, <1>4, LearntMoves
<1>. QED BY <1>4, <1>5 DEF state

(* Where the run of each action goes.                                      *)
LEMMA RunMoves ==
  ASSUME RunsTyped, NEW r \in Runs
  PROVE  /\ CreateTallyJob(r) => MovedOn(r, "ensureTallying")
         /\ CommitTranscript(r) => MovedOn(r, "update") \/ Stopped(r)
         /\ UpdateTallyJobStatus(r) \/ UpdateTallyJobFails(r) => MovedOn(r, "acta")
         /\ AnchorActa(r) => MovedOn(r, "content")
         /\ PersistActaContent(r) =>
              IF run[r].op = "process" THEN Stopped(r) ELSE MovedOn(r, "advance")
         /\ ProveTally(r) => MovedOn(r, "verify") \/ Stopped(r)
         /\ VerifyTallyOffchain(r) => MovedOn(r, "key") \/ Stopped(r)
         /\ ResolveKey(r) => MovedOn(r, "proveDecryption") \/ Stopped(r)
         /\ ProveDecryption(r) \/ FailureUnrecorded(r) => Stopped(r)
         /\ ReadProofRow(r) => MovedOn(r, "still") \/ MovedOn(r, "verifier") \/ Stopped(r)
         /\ ResetStaleProof(r) \/ UpdateProofState(r) => Stopped(r)
         /\ CallVerifier(r) => MovedOn(r, "flag") \/ Stopped(r)
         /\ ReadFlag(r) => MovedOn(r, "mark") \/ Stopped(r)
         /\ PassGate(r) => MovedOn(r, "payloadGate") \/ Stopped(r)
         /\ PassPayloadGate(r) => MovedOn(r, "existing") \/ Stopped(r)
         /\ FindPayload(r) => MovedOn(r, "acta") \/ MovedOn(r, "insert")
         /\ InsertPayload(r) => MovedOn(r, "acta")
         /\ AdvanceToResults(r) =>
              MovedOn(r, "audit") \/ MovedOn(r, "publishResults") \/ Stopped(r)
         /\ PublishResults(r) => MovedOn(r, "audit") \/ Stopped(r)
         /\ ReadAuditPhase(r) => MovedOn(r, "openAudit") \/ Stopped(r)
         /\ OpenAuditWindow(r) => MovedOn(r, "auditRow") \/ Stopped(r)
         /\ InsertAuditWindow(r) \/ CutShort(r) => Stopped(r)
<1>1. \A pc, to \in Positions : At(r, pc) /\ Goto(r, to) => MovedOn(r, to)
  BY Standing, GotoMoves
<1>2. Stop(r) => Stopped(r)
  BY StopStops
<1>3. /\ CreateTallyJob(r) => MovedOn(r, "ensureTallying")
      /\ CommitTranscript(r) => MovedOn(r, "update") \/ Stopped(r)
      /\ UpdateTallyJobStatus(r) \/ UpdateTallyJobFails(r) => MovedOn(r, "acta")
      /\ AnchorActa(r) => MovedOn(r, "content")
  BY <1>1, <1>2 DEF CreateTallyJob, CommitTranscript, UpdateTallyJobStatus,
       UpdateTallyJobFails, AnchorActa, Positions
<1>4. PersistActaContent(r) =>
        IF run[r].op = "process" THEN Stopped(r) ELSE MovedOn(r, "advance")
  BY <1>1, <1>2 DEF PersistActaContent, Positions
<1>5. /\ ProveTally(r) => MovedOn(r, "verify") \/ Stopped(r)
      /\ VerifyTallyOffchain(r) => MovedOn(r, "key") \/ Stopped(r)
      /\ ResolveKey(r) => MovedOn(r, "proveDecryption") \/ Stopped(r)
      /\ ProveDecryption(r) \/ FailureUnrecorded(r) => Stopped(r)
  BY <1>1, <1>2 DEF ProveTally, VerifyTallyOffchain, ResolveKey, ProveDecryption,
       FailureUnrecorded, ProofFails, Positions
<1>6. /\ ReadProofRow(r) => MovedOn(r, "still") \/ MovedOn(r, "verifier") \/ Stopped(r)
      /\ ResetStaleProof(r) \/ UpdateProofState(r) => Stopped(r)
      /\ CallVerifier(r) => MovedOn(r, "flag") \/ Stopped(r)
      /\ ReadFlag(r) => MovedOn(r, "mark") \/ Stopped(r)
  BY <1>1, <1>2 DEF ReadProofRow, ResetStaleProof, UpdateProofState, CallVerifier,
       ReadFlag, Positions
<1>7. /\ PassGate(r) => MovedOn(r, "payloadGate") \/ Stopped(r)
      /\ PassPayloadGate(r) => MovedOn(r, "existing") \/ Stopped(r)
      /\ FindPayload(r) => MovedOn(r, "acta") \/ MovedOn(r, "insert")
      /\ InsertPayload(r) => MovedOn(r, "acta")
      /\ AdvanceToResults(r) =>
           MovedOn(r, "audit") \/ MovedOn(r, "publishResults") \/ Stopped(r)
  BY <1>1, <1>2 DEF PassGate, PassPayloadGate, FindPayload, InsertPayload,
       AdvanceToResults, Positions
<1>8. /\ PublishResults(r) => MovedOn(r, "audit") \/ Stopped(r)
      /\ ReadAuditPhase(r) => MovedOn(r, "openAudit") \/ Stopped(r)
      /\ OpenAuditWindow(r) => MovedOn(r, "auditRow") \/ Stopped(r)
      /\ InsertAuditWindow(r) \/ CutShort(r) => Stopped(r)
  BY <1>1, <1>2 DEF PublishResults, ReadAuditPhase, OpenAuditWindow,
       InsertAuditWindow, CutShort, Positions
<1>. QED BY <1>3, <1>4, <1>5, <1>6, <1>7, <1>8

-----------------------------------------------------------------------------
(* The type invariant                                                      *)

ChainTyped ==
  /\ phase \in VOTING_OPEN .. AUDIT_WINDOW /\ verified \subseteq Circuits
  /\ committed \subseteq Jobs /\ anchored \subseteq Actas
JobsTyped ==
  /\ transcript \in [Jobs -> {"none", "right", "wrong"}]
  /\ tallyJobs \in [Jobs -> TallyJob]
  /\ proofs \in [Jobs -> [Circuits -> ProofStatuses]]
EvidenceTyped ==
  payloads \in Seq(Jobs) /\ contents \subseteq Actas /\ auditWindow \in BOOLEAN
BoundsTyped ==
  /\ started \in 0 .. MaxJobs /\ faults \in 0 .. MaxFaults /\ rewrites \in 0 .. faults
  /\ byConsole \in BOOLEAN

(* The type invariant by its parts.                                        *)
LEMMA TypeParts ==
  /\ PublicationTypeOK <=>
       RunsTyped /\ ChainTyped /\ JobsTyped /\ EvidenceTyped /\ BoundsTyped
  /\ PublicationTypeOK' <=>
       RunsTyped' /\ ChainTyped' /\ JobsTyped' /\ EvidenceTyped' /\ BoundsTyped'
  BY DEF PublicationTypeOK, RunsTyped, ChainTyped, JobsTyped, EvidenceTyped, BoundsTyped

(* A part that keeps its variables keeps its types.                        *)
LEMMA PartsStay ==
  /\ ChainTyped /\ UNCHANGED chainVars => ChainTyped'
  /\ JobsTyped /\ UNCHANGED jobVars => JobsTyped'
  /\ EvidenceTyped /\ UNCHANGED evidenceVars => EvidenceTyped'
  /\ BoundsTyped /\ UNCHANGED boundVars => BoundsTyped'
  /\ RunsTyped /\ UNCHANGED run => RunsTyped'
<1>1. ChainTyped /\ UNCHANGED chainVars => ChainTyped'
  BY DEF ChainTyped, chainVars
<1>2. JobsTyped /\ UNCHANGED jobVars => JobsTyped'
  BY DEF JobsTyped, jobVars
<1>3. EvidenceTyped /\ UNCHANGED evidenceVars => EvidenceTyped'
  BY DEF EvidenceTyped, evidenceVars
<1>4. BoundsTyped /\ UNCHANGED boundVars => BoundsTyped'
  BY DEF BoundsTyped, boundVars
<1>. QED BY <1>1, <1>2, <1>3, <1>4 DEF RunsTyped

(* A fault more, within the bound.                                         *)
LEMMA FaultTyped ==
  ASSUME BoundsTyped, faults < MaxFaults, faults' = faults + 1,
         UNCHANGED <<started, rewrites, byConsole>>
  PROVE  BoundsTyped'
  BY PublicationBoundsAssumption DEF BoundsTyped

(* Any row of a proof can be given any status.                             *)
LEMMA SetProofTyped ==
  ASSUME JobsTyped, NEW j \in Jobs, NEW c \in Circuits, NEW status \in ProofStatuses,
         SetProof(j, c, status), UNCHANGED <<transcript, tallyJobs>>
  PROVE  JobsTyped'
  BY DEF JobsTyped, SetProof

(* The job and the circuit of a run that stands somewhere.                 *)
LEMMA JobTyped ==
  ASSUME RunsTyped, NEW r \in Runs, NEW pc \in Positions, At(r, pc)
  PROVE  /\ run[r] # Idle /\ Job(r) \in Jobs /\ run[r].circuit \in Circuits
         /\ run[r].proofState \in ProofStates /\ ActaOf(r) \in Actas
<1>1. run[r] # Idle /\ run[r] \in UnderWay
  BY Standing
<1>2. Job(r) \in Jobs /\ run[r].circuit \in Circuits /\ run[r].proofState \in ProofStates
  BY <1>1 DEF UnderWay, Job
<1>3. ActaOf(r) \in Actas
  BY <1>2 DEF ActaOf, ActaEscrutinio, ActaResultados, Actas
<1>. QED BY <1>1, <1>2, <1>3

(* What the actions of a run under way do to the runs keeps them typed.    *)
LEMMA RunTypeStep ==
  ASSUME RunsTyped, phase \in VOTING_OPEN .. AUDIT_WINDOW, NEW r \in Runs,
         \/ ProcessStep(r) \/ ActaStep(r) \/ ProveStep(r) \/ SubmitStep(r)
         \/ PublishStep(r) \/ CutShort(r)
  PROVE  RunsTyped'
<1>. USE DEF MovedOn, Moved, Stopped, Elsewhere
<1>1. CASE ProcessStep(r)
  BY <1>1, PhaseMoves, RunMoves DEF ProcessStep
<1>2. CASE ActaStep(r)
  BY <1>2, RunMoves DEF ActaStep
<1>3. CASE ProveStep(r)
  BY <1>3, RunMoves DEF ProveStep
<1>4. CASE SubmitStep(r)
  <2>1. CASE StillVerified(r)
    <3>1. run[r] # Idle
      BY <2>1, JobTyped DEF StillVerified, Positions
    <3>2. Goto(r, "stale") => RunsTyped'
      BY <3>1, GotoMoves DEF Positions
    <3>. QED BY <2>1, <3>1, <3>2, NextCircuitMoves DEF StillVerified
  <2>2. CASE MarkVerifiedOnchain(r)
    <3>1. run[r] # Idle
      BY <2>2, JobTyped DEF MarkVerifiedOnchain, Positions
    <3>. QED BY <2>2, <3>1, NextCircuitMoves DEF MarkVerifiedOnchain
  <2>3. CASE LoadGateState(r)
    BY <2>3, GateStateMoves
  <2>. QED BY <1>4, <2>1, <2>2, <2>3, RunMoves DEF SubmitStep
<1>5. CASE PublishStep(r)
  BY <1>5, RunMoves DEF PublishStep
<1>6. CASE CutShort(r)
  BY <1>6, RunMoves
<1>. QED BY <1>1, <1>2, <1>3, <1>4, <1>5, <1>6

(* The steps of the processing keep every type.                            *)
LEMMA ProcessTypeStep ==
  ASSUME PublicationTypeOK, NEW r \in Runs, ProcessStep(r)
  PROVE  PublicationTypeOK'
<1>1. RunsTyped /\ ChainTyped /\ JobsTyped /\ EvidenceTyped /\ BoundsTyped
  BY TypeParts
<1>2. RunsTyped'
  BY <1>1, RunTypeStep DEF ChainTyped
<1>3. CASE CreateTallyJob(r)
  <2>1. Job(r) \in Jobs
    BY <1>1, <1>3, JobTyped DEF CreateTallyJob, Positions
  <2>2. JobsTyped'
    BY <1>1, <1>3, <2>1 DEF CreateTallyJob, JobsTyped, TallyJob
  <2>. QED BY <1>1, <1>2, <1>3, <2>2, TypeParts, PartsStay DEF CreateTallyJob
<1>4. CASE ReadPhase(r)
  BY <1>1, <1>2, <1>4, TypeParts, PartsStay DEF ReadPhase
<1>5. CASE MovePhase(r)
  <2>1. run[r] # Idle /\ run[r] \in UnderWay
    BY <1>1, <1>5, Standing DEF MovePhase, Positions
  <2>2. run[r].seen \in {0} \cup (VOTING_OPEN .. TALLYING - 1)
    BY <2>1 DEF UnderWay
  <2>3. phase' \in VOTING_OPEN .. AUDIT_WINDOW
    BY <1>1, <1>5, <2>2
       DEF MovePhase, ChainTyped, VOTING_OPEN, TALLYING, AUDIT_WINDOW
  <2>4. ChainTyped'
    BY <1>1, <1>5, <2>3 DEF MovePhase, ChainTyped
  <2>. QED BY <1>1, <1>2, <1>5, <2>4, TypeParts, PartsStay DEF MovePhase
<1>6. CASE CommitTranscript(r)
  <2>1. Job(r) \in Jobs
    BY <1>1, <1>6, JobTyped DEF CommitTranscript, Positions
  <2>2. ChainTyped'
    BY <1>1, <1>6, <2>1 DEF CommitTranscript, ChainTyped
  <2>. QED BY <1>1, <1>2, <1>6, <2>2, TypeParts, PartsStay DEF CommitTranscript
<1>7. CASE UpdateTallyJobStatus(r)
  <2>1. Job(r) \in Jobs
    BY <1>1, <1>7, JobTyped DEF UpdateTallyJobStatus, Positions
  <2>2. JobsTyped'
    BY <1>1, <1>7, <2>1 DEF UpdateTallyJobStatus, JobsTyped, TallyJob, ProofStates
  <2>. QED BY <1>1, <1>2, <1>7, <2>2, TypeParts, PartsStay DEF UpdateTallyJobStatus
<1>8. CASE UpdateTallyJobFails(r)
  <2>1. BoundsTyped'
    BY <1>1, <1>8, FaultTyped DEF UpdateTallyJobFails
  <2>. QED BY <1>1, <1>2, <1>8, <2>1, TypeParts, PartsStay DEF UpdateTallyJobFails
<1>. QED BY <1>3, <1>4, <1>5, <1>6, <1>7, <1>8 DEF ProcessStep

(* The steps of an acta keep every type.                                   *)
LEMMA ActaTypeStep ==
  ASSUME PublicationTypeOK, NEW r \in Runs, ActaStep(r)
  PROVE  PublicationTypeOK'
<1>1. RunsTyped /\ ChainTyped /\ JobsTyped /\ EvidenceTyped /\ BoundsTyped
  BY TypeParts
<1>2. RunsTyped'
  BY <1>1, RunTypeStep DEF ChainTyped
<1>3. ActaOf(r) \in Actas
  BY <1>1, JobTyped DEF ActaStep, AnchorActa, PersistActaContent, Positions
<1>4. CASE AnchorActa(r)
  <2>1. ChainTyped'
    BY <1>1, <1>3, <1>4 DEF AnchorActa, ChainTyped
  <2>. QED BY <1>1, <1>2, <1>4, <2>1, TypeParts, PartsStay DEF AnchorActa
<1>5. CASE PersistActaContent(r)
  <2>1. EvidenceTyped'
    BY <1>1, <1>3, <1>5 DEF PersistActaContent, EvidenceTyped
  <2>. QED BY <1>1, <1>2, <1>5, <2>1, TypeParts, PartsStay DEF PersistActaContent
<1>. QED BY <1>4, <1>5 DEF ActaStep

(* The steps of the proving keep every type.                               *)
LEMMA ProveTypeStep ==
  ASSUME PublicationTypeOK, NEW r \in Runs, ProveStep(r)
  PROVE  PublicationTypeOK'
<1>1. RunsTyped /\ ChainTyped /\ JobsTyped /\ EvidenceTyped /\ BoundsTyped
  BY TypeParts
<1>2. RunsTyped'
  BY <1>1, RunTypeStep DEF ChainTyped
<1>3. Job(r) \in Jobs
  <2>1. \E pc \in Positions : At(r, pc)
    BY DEF ProveStep, ProveTally, VerifyTallyOffchain, ResolveKey, ProveDecryption,
       FailureUnrecorded, At, Positions
  <2>. QED BY <1>1, <2>1, JobTyped
<1>4. JobsTyped' /\ UNCHANGED <<chainVars, evidenceVars>>
  <2>1. \A c \in Circuits, status \in ProofStatuses :
          SetProof(Job(r), c, status) /\ UNCHANGED <<transcript, tallyJobs>> => JobsTyped'
    BY <1>1, <1>3, SetProofTyped
  <2>. QED BY <2>1 DEF ProveStep, ProveTally, VerifyTallyOffchain, ResolveKey,
              ProveDecryption, FailureUnrecorded, ProofFails, Circuits, ProofStatuses
<1>5. BoundsTyped'
  <2>1. CASE FailureUnrecorded(r)
    BY <1>1, <2>1, FaultTyped DEF FailureUnrecorded
  <2>2. CASE ~FailureUnrecorded(r)
    BY <1>1, <2>2, PartsStay DEF ProveStep, ProveTally, VerifyTallyOffchain,
       ResolveKey, ProveDecryption
  <2>. QED BY <2>1, <2>2
<1>. QED BY <1>1, <1>2, <1>4, <1>5, TypeParts, PartsStay

(* The steps of a submission keep every type.                              *)
LEMMA SubmitTypeStep ==
  ASSUME PublicationTypeOK, NEW r \in Runs, SubmitStep(r)
  PROVE  PublicationTypeOK'
<1>1. RunsTyped /\ ChainTyped /\ JobsTyped /\ EvidenceTyped /\ BoundsTyped
  BY TypeParts
<1>2. RunsTyped'
  BY <1>1, RunTypeStep DEF ChainTyped
<1>3. Job(r) \in Jobs /\ run[r].circuit \in Circuits /\ run[r].proofState \in ProofStates
  <2>1. \E pc \in Positions : At(r, pc)
    BY DEF SubmitStep, ReadProofRow, StillVerified, ResetStaleProof, CallVerifier,
       ReadFlag, MarkVerifiedOnchain, LoadGateState, UpdateProofState, Positions
  <2>. QED BY <1>1, <2>1, JobTyped
<1>4. CASE ReadProofRow(r) \/ StillVerified(r) \/ ReadFlag(r) \/ LoadGateState(r)
  BY <1>1, <1>2, <1>4, TypeParts, PartsStay
     DEF ReadProofRow, StillVerified, ReadFlag, LoadGateState
<1>5. CASE ResetStaleProof(r) \/ MarkVerifiedOnchain(r)
  <2>1. JobsTyped'
    BY <1>1, <1>3, <1>5, SetProofTyped
       DEF ResetStaleProof, MarkVerifiedOnchain, ProofStatuses
  <2>. QED BY <1>1, <1>2, <1>5, <2>1, TypeParts, PartsStay
           DEF ResetStaleProof, MarkVerifiedOnchain
<1>6. CASE CallVerifier(r)
  <2>1. ChainTyped'
    BY <1>1, <1>3, <1>6 DEF CallVerifier, ChainTyped
  <2>. QED BY <1>1, <1>2, <1>6, <2>1, TypeParts, PartsStay DEF CallVerifier
<1>7. CASE UpdateProofState(r)
  <2>1. JobsTyped'
    BY <1>1, <1>3, <1>7 DEF UpdateProofState, JobsTyped, TallyJob
  <2>. QED BY <1>1, <1>2, <1>7, <2>1, TypeParts, PartsStay DEF UpdateProofState
<1>. QED BY <1>4, <1>5, <1>6, <1>7 DEF SubmitStep

(* The steps of a publication keep every type.                             *)
LEMMA PublishTypeStep ==
  ASSUME PublicationTypeOK, NEW r \in Runs, PublishStep(r)
  PROVE  PublicationTypeOK'
<1>1. RunsTyped /\ ChainTyped /\ JobsTyped /\ EvidenceTyped /\ BoundsTyped
  BY TypeParts
<1>2. RunsTyped'
  BY <1>1, RunTypeStep DEF ChainTyped
<1>3. CASE \/ PassGate(r) \/ PassPayloadGate(r) \/ FindPayload(r)
           \/ AdvanceToResults(r) \/ ReadAuditPhase(r)
  BY <1>1, <1>2, <1>3, TypeParts, PartsStay
     DEF PassGate, PassPayloadGate, FindPayload, AdvanceToResults, ReadAuditPhase
<1>4. CASE InsertPayload(r)
  <2>1. Job(r) \in Jobs
    BY <1>1, <1>4, JobTyped DEF InsertPayload, Positions
  <2>2. EvidenceTyped'
    BY <1>1, <1>4, <2>1 DEF InsertPayload, EvidenceTyped
  <2>. QED BY <1>1, <1>2, <1>4, <2>2, TypeParts, PartsStay DEF InsertPayload
<1>5. CASE PublishResults(r) \/ OpenAuditWindow(r)
  <2>1. ChainTyped'
    BY <1>1, <1>5 DEF PublishResults, OpenAuditWindow, ChainTyped, VOTING_OPEN,
       RESULTS_PUBLISHED, AUDIT_WINDOW
  <2>. QED BY <1>1, <1>2, <1>5, <2>1, TypeParts, PartsStay
           DEF PublishResults, OpenAuditWindow
<1>6. CASE InsertAuditWindow(r)
  <2>1. EvidenceTyped'
    BY <1>1, <1>6 DEF InsertAuditWindow, EvidenceTyped
  <2>. QED BY <1>1, <1>2, <1>6, <2>1, TypeParts, PartsStay DEF InsertAuditWindow
<1>. QED BY <1>3, <1>4, <1>5, <1>6 DEF PublishStep

(* What each kind of click begins.                                         *)
LEMMA Beginnings ==
  ASSUME RunsTyped, BoundsTyped, NEW r \in Runs
  PROVE  /\ ProcessBallots(r) =>
              Begun(r, "process", "job", started + 1) /\ started + 1 \in Jobs
         /\ BeginProving(r) => \E j \in Pages : Begun(r, "generate", "prove", j)
         /\ BeginSubmission(r) => \E j \in Pages : Begun(r, "submit", "row", j)
         /\ BeginPublication(r) =>
              \E j \in Pages : \E pc \in {"audit", "gate"} :
                GateReady(j) /\ Begun(r, "publish", pc, j)
<1>1. \A j \in Pages : j \in Jobs
  BY DEF Pages
<1>2. ASSUME ProcessBallots(r)
      PROVE  Begun(r, "process", "job", started + 1) /\ started + 1 \in Jobs
  <2>1. started + 1 \in Jobs
    BY <1>2, PublicationBoundsAssumption DEF ProcessBallots, BoundsTyped, Jobs
  <2>. QED BY <1>2, <2>1, StartBegins DEF ProcessBallots, Positions
<1>3. BeginProving(r) => \E j \in Pages : Begun(r, "generate", "prove", j)
  BY <1>1, StartBegins DEF BeginProving, Positions
<1>4. BeginSubmission(r) => \E j \in Pages : Begun(r, "submit", "row", j)
  BY <1>1, StartBegins DEF BeginSubmission, Positions
<1>5. BeginPublication(r) =>
        \E j \in Pages : \E pc \in {"audit", "gate"} :
          GateReady(j) /\ Begun(r, "publish", pc, j)
  BY <1>1, StartBegins DEF BeginPublication, Positions
<1>. QED BY <1>2, <1>3, <1>4, <1>5

(* Every step keeps the types.                                             *)
LEMMA TypeStep ==
  ASSUME PublicationTypeOK, [Next]_vars
  PROVE  PublicationTypeOK'
<1>1. RunsTyped /\ ChainTyped /\ JobsTyped /\ EvidenceTyped /\ BoundsTyped
  BY TypeParts
<1>2. ASSUME NEW r \in Runs, Begin(r)
      PROVE  PublicationTypeOK'
  <2>1. RunsTyped'
    BY <1>1, <1>2, Beginnings DEF Begin, Begun, Elsewhere
  <2>2. CASE ProcessBallots(r)
    <3>1. started + 1 \in Jobs
      BY <1>1, <2>2, Beginnings
    <3>2. JobsTyped'
      BY <1>1, <2>2, <3>1 DEF ProcessBallots, JobsTyped
    <3>3. BoundsTyped'
      BY <1>1, <2>2, <3>1 DEF ProcessBallots, BoundsTyped, Jobs
    <3>. QED BY <1>1, <2>1, <2>2, <3>2, <3>3, TypeParts, PartsStay DEF ProcessBallots
  <2>3. CASE BeginProving(r)
    <3>1. JobsTyped'
      BY <1>1, <2>3, SetProofTyped DEF BeginProving, Pages, Circuits, ProofStatuses
    <3>. QED BY <1>1, <2>1, <2>3, <3>1, TypeParts, PartsStay DEF BeginProving
  <2>4. CASE BeginSubmission(r) \/ BeginPublication(r)
    BY <1>1, <2>1, <2>4, TypeParts, PartsStay DEF BeginSubmission, BeginPublication
  <2>. QED BY <1>2, <2>2, <2>3, <2>4 DEF Begin
<1>3. ASSUME NEW r \in Runs, CutShort(r)
      PROVE  PublicationTypeOK'
  <2>1. RunsTyped' /\ BoundsTyped'
    BY <1>1, <1>3, RunTypeStep, FaultTyped DEF CutShort, ChainTyped
  <2>. QED BY <1>1, <1>3, <2>1, TypeParts, PartsStay DEF CutShort
<1>4. CASE ConsoleTransition
  <2>1. ChainTyped'
    BY <1>1, <1>4 DEF ConsoleTransition, ChainTyped, VOTING_OPEN, AUDIT_WINDOW
  <2>2. BoundsTyped'
    BY <1>1, <1>4 DEF ConsoleTransition, BoundsTyped
  <2>. QED BY <1>1, <1>4, <2>1, <2>2, TypeParts, PartsStay DEF ConsoleTransition
<1>5. CASE RewriteChain
  <2>1. ChainTyped'
    BY <1>1, <1>5 DEF RewriteChain, ChainTyped
  <2>2. BoundsTyped'
    BY <1>1, <1>5, PublicationBoundsAssumption DEF RewriteChain, BoundsTyped
  <2>. QED BY <1>1, <1>5, <2>1, <2>2, TypeParts, PartsStay DEF RewriteChain
<1>6. CASE UNCHANGED vars
  BY <1>1, <1>6, TypeParts, PartsStay DEF vars
<1>. QED BY <1>2, <1>3, <1>4, <1>5, <1>6, ProcessTypeStep, ActaTypeStep, ProveTypeStep,
         SubmitTypeStep, PublishTypeStep DEF Next

(* The types hold initially.                                               *)
LEMMA TypeInit == Init => PublicationTypeOK
<1>. SUFFICES ASSUME Init PROVE PublicationTypeOK
  OBVIOUS
<1>1. ChainTyped
  BY DEF Init, ChainTyped, VOTING_OPEN, AUDIT_WINDOW
<1>2. JobsTyped
  BY DEF Init, JobsTyped, NoTallyJob, TallyJob, ProofStates, ProofStatuses
<1>. auditWindow \in BOOLEAN /\ byConsole \in BOOLEAN
  BY Zenon DEF Init
<1>3. EvidenceTyped
  <2>1. payloads \in Seq(Jobs) /\ contents \subseteq Actas
    BY DEF Init
  <2>. QED BY <2>1 DEF EvidenceTyped
<1>4. BoundsTyped
  <2>1. started \in 0 .. MaxJobs /\ faults \in 0 .. MaxFaults /\ rewrites \in 0 .. faults
    BY PublicationBoundsAssumption DEF Init
  <2>. QED BY <2>1 DEF BoundsTyped
<1>5. RunsTyped
  BY DEF Init, RunsTyped
<1>. QED BY <1>1, <1>2, <1>3, <1>4, <1>5, TypeParts

(* The phase, the flags, the tables and the runs keep their types, through *)
(* every interleaving of clicks, fault and rewrite of the chain.           *)
THEOREM TypeCorrect == Spec => []PublicationTypeOK
<1>. QED BY TypeInit, TypeStep, PTL DEF Spec

-----------------------------------------------------------------------------
(* Where runs stand                                                        *)

(* The position of a run tells its kind.                                   *)
LEMMA KindOfRun ==
  ASSUME RunsTyped, RunsInPlace, NEW r \in Runs, run[r] # Idle
  PROVE  /\ run[r].pc \in ProcessPositions <=>
              run[r].op = "process" /\ run[r].pc \notin ActaPositions
         /\ run[r].pc \in GeneratePositions <=> run[r].op = "generate"
         /\ run[r].pc \in SubmitPositions <=> run[r].op = "submit"
         /\ run[r].pc \in PublishPositions <=>
              run[r].op = "publish" /\ run[r].pc \notin ActaPositions
         /\ run[r].pc \in ActaPositions => run[r].op \in {"process", "publish"}
         /\ run[r].job \in 1 .. started /\ run[r].job \in Jobs
<1>1. run[r] \in UnderWay /\ InPlace(r)
  BY Standing DEF RunsInPlace
<1>2. run[r].op \in {"process", "generate", "submit", "publish"} /\ run[r].job \in Jobs
  BY <1>1 DEF UnderWay
<1>. QED BY <1>1, <1>2 DEF InPlace, ProcessPositions, GeneratePositions,
         SubmitPositions, PublishPositions, ActaPositions

(* A run that goes on, stops or begins where its kind may stand.           *)
LEMMA PlaceKept ==
  ASSUME RunsTyped, RunsInPlace, BoundsTyped, BoundsTyped', started <= started',
         NEW r \in Runs, Elsewhere(r), run'[r] = Idle \/ InPlace(r)'
  PROVE  RunsInPlace'
<1>1. ASSUME NEW other \in Runs, other # r, run'[other] # Idle
      PROVE  InPlace(other)'
  <2>1. run'[other] = run[other] /\ InPlace(other)
    BY <1>1 DEF Elsewhere, RunsInPlace
  <2>. QED BY <2>1 DEF InPlace, BoundsTyped
<1>. QED BY <1>1 DEF RunsInPlace

(* A run that goes on to a position of its kind.                           *)
LEMMA PlaceMoved ==
  ASSUME PublicationTypeOK, RunsInPlace, BoundsTyped', started <= started',
         NEW r \in Runs, run[r] # Idle, NEW pc \in Positions, Moved(r, pc),
         \/ run[r].op = "process" /\ pc \in ProcessPositions \cup ActaPositions
         \/ run[r].op = "generate" /\ pc \in GeneratePositions
         \/ run[r].op = "submit" /\ pc \in SubmitPositions
         \/ run[r].op = "publish" /\ pc \in PublishPositions \cup ActaPositions
  PROVE  RunsInPlace'
<1>1. RunsTyped /\ BoundsTyped
  BY TypeParts
<1>2. run[r].job \in 1 .. started
  BY <1>1, KindOfRun
<1>3. InPlace(r)'
  BY <1>1, <1>2 DEF InPlace, Moved, BoundsTyped
<1>. QED BY <1>1, <1>3, PlaceKept DEF Moved

(* A page that is shown is of a job begun.                                 *)
LEMMA PagesProcessed ==
  ASSUME ProcessingOK, NEW j \in Pages
  PROVE  j \in Jobs /\ j \in 1 .. started /\ Processed(j)
<1>1. Processed(j)
  BY DEF Pages, ProcessingOK, ActaEscrutinio
<1>. QED BY <1>1 DEF Pages, Processed, ProcessingOK

(* Runs stay where their kind may stand.                                   *)
LEMMA PlaceStep ==
  ASSUME PublicationTypeOK, RunsInPlace, ProcessingOK, [Next]_vars
  PROVE  RunsInPlace'
<1>1. /\ RunsTyped /\ BoundsTyped /\ RunsTyped' /\ BoundsTyped' /\ ChainTyped
      /\ phase \in VOTING_OPEN .. AUDIT_WINDOW
  BY TypeParts, TypeStep DEF ChainTyped
<1>2. \A r \in Runs : started <= started' /\ Stopped(r) => RunsInPlace'
  BY <1>1, PlaceKept DEF Stopped
<1>3. ASSUME NEW r \in Runs, Begin(r)
      PROVE  RunsInPlace'
  <2>1. CASE ProcessBallots(r)
    <3>1. started' = started + 1 /\ Begun(r, "process", "job", started + 1)
      BY <1>1, <2>1, Beginnings DEF ProcessBallots
    <3>2. InPlace(r)'
      BY <1>1, <3>1 DEF InPlace, Begun, ProcessPositions, BoundsTyped
    <3>. QED BY <1>1, <3>1, <3>2, PlaceKept DEF Begun, BoundsTyped
  <2>2. CASE BeginProving(r) \/ BeginSubmission(r) \/ BeginPublication(r)
    <3>1. started' = started
      BY <2>2 DEF BeginProving, BeginSubmission, BeginPublication, boundVars
    <3>2. \A j \in Pages : j \in 1 .. started
      BY PagesProcessed
    <3>3. InPlace(r)' /\ Elsewhere(r)
      BY <1>1, <2>2, <3>1, <3>2, Beginnings
         DEF InPlace, Begun, GeneratePositions, SubmitPositions, PublishPositions
    <3>. QED BY <1>1, <3>1, <3>3, PlaceKept DEF BoundsTyped
  <2>. QED BY <1>3, <2>1, <2>2 DEF Begin
<1>4. ASSUME NEW r \in Runs, ProcessStep(r)
      PROVE  RunsInPlace'
  <2>1. started' = started /\ run[r] # Idle /\ run[r].pc \in ProcessPositions
    BY <1>1, <1>4, Standing
       DEF ProcessStep, CreateTallyJob, ReadPhase, MovePhase, CommitTranscript,
           UpdateTallyJobStatus, UpdateTallyJobFails, boundVars, At, ProcessPositions,
           Positions
  <2>2. run[r].op = "process"
    BY <1>1, <2>1, KindOfRun
  <2>3. \A pc \in ProcessPositions \cup {"acta"} : Moved(r, pc) => RunsInPlace'
    BY <1>1, <2>1, <2>2, PlaceMoved
       DEF BoundsTyped, ProcessPositions, ActaPositions, Positions
  <2>. QED BY <1>1, <1>2, <1>4, <2>1, <2>3, PhaseMoves, RunMoves
           DEF ProcessStep, MovedOn, BoundsTyped, ProcessPositions
<1>5. ASSUME NEW r \in Runs, ActaStep(r)
      PROVE  RunsInPlace'
  <2>1. started' = started /\ run[r] # Idle /\ run[r].pc \in ActaPositions
    BY <1>1, <1>5, Standing
       DEF ActaStep, AnchorActa, PersistActaContent, boundVars, At, ActaPositions,
           Positions
  <2>2. run[r].op \in {"process", "publish"}
    BY <1>1, <2>1, KindOfRun
  <2>3. Moved(r, "content") => RunsInPlace'
    BY <1>1, <2>1, <2>2, PlaceMoved DEF BoundsTyped, ActaPositions, Positions
  <2>4. Moved(r, "advance") /\ run[r].op # "process" => RunsInPlace'
    BY <1>1, <2>1, <2>2, PlaceMoved DEF BoundsTyped, PublishPositions, Positions
  <2>. QED BY <1>1, <1>2, <1>5, <2>1, <2>3, <2>4, RunMoves
           DEF ActaStep, MovedOn, BoundsTyped
<1>6. ASSUME NEW r \in Runs, ProveStep(r)
      PROVE  RunsInPlace'
  <2>1. started' = started /\ run[r] # Idle /\ run[r].pc \in GeneratePositions
    BY <1>1, <1>6, Standing
       DEF ProveStep, ProveTally, VerifyTallyOffchain, ResolveKey, ProveDecryption,
           FailureUnrecorded, boundVars, At, GeneratePositions, Positions
  <2>2. run[r].op = "generate"
    BY <1>1, <2>1, KindOfRun
  <2>3. \A pc \in GeneratePositions : Moved(r, pc) => RunsInPlace'
    BY <1>1, <2>1, <2>2, PlaceMoved DEF BoundsTyped, GeneratePositions, Positions
  <2>. QED BY <1>1, <1>2, <1>6, <2>1, <2>3, RunMoves
           DEF ProveStep, MovedOn, BoundsTyped, GeneratePositions
<1>7. ASSUME NEW r \in Runs, SubmitStep(r)
      PROVE  RunsInPlace'
  <2>1. started' = started /\ run[r] # Idle /\ run[r].pc \in SubmitPositions
    BY <1>1, <1>7, Standing
       DEF SubmitStep, ReadProofRow, StillVerified, ResetStaleProof, CallVerifier,
           ReadFlag, MarkVerifiedOnchain, LoadGateState, UpdateProofState, boundVars,
           At, SubmitPositions, Positions
  <2>2. run[r].op = "submit"
    BY <1>1, <2>1, KindOfRun
  <2>3. \A pc \in SubmitPositions : Moved(r, pc) => RunsInPlace'
    BY <1>1, <2>1, <2>2, PlaceMoved DEF BoundsTyped, SubmitPositions, Positions
  <2>4. StillVerified(r) \/ MarkVerifiedOnchain(r) \/ LoadGateState(r) => RunsInPlace'
    <3>1. NextCircuit(r) => RunsInPlace'
      BY <1>1, <2>1, <2>3, NextCircuitMoves DEF MovedOn, SubmitPositions
    <3>2. Goto(r, "stale") => RunsInPlace'
      BY <1>1, <2>1, <2>3, GotoMoves DEF MovedOn, SubmitPositions, Positions
    <3>3. LoadGateState(r) => RunsInPlace'
      BY <1>1, <2>3, GateStateMoves DEF SubmitPositions
    <3>. QED BY <3>1, <3>2, <3>3 DEF StillVerified, MarkVerifiedOnchain
  <2>. QED BY <1>1, <1>2, <1>7, <2>1, <2>3, <2>4, RunMoves
           DEF SubmitStep, MovedOn, BoundsTyped, SubmitPositions
<1>8. ASSUME NEW r \in Runs, PublishStep(r)
      PROVE  RunsInPlace'
  <2>1. started' = started /\ run[r] # Idle /\ run[r].pc \in PublishPositions
    BY <1>1, <1>8, Standing
       DEF PublishStep, PassGate, PassPayloadGate, FindPayload, InsertPayload,
           AdvanceToResults, PublishResults, ReadAuditPhase, OpenAuditWindow,
           InsertAuditWindow, boundVars, At, PublishPositions, Positions
  <2>2. run[r].op = "publish"
    BY <1>1, <2>1, KindOfRun
  <2>3. \A pc \in PublishPositions \cup {"acta"} : Moved(r, pc) => RunsInPlace'
    BY <1>1, <2>1, <2>2, PlaceMoved
       DEF BoundsTyped, PublishPositions, ActaPositions, Positions
  <2>. QED BY <1>1, <1>2, <1>8, <2>1, <2>3, RunMoves
           DEF PublishStep, MovedOn, BoundsTyped, PublishPositions
<1>9. ASSUME NEW r \in Runs, CutShort(r)
      PROVE  RunsInPlace'
  BY <1>1, <1>2, <1>9, RunMoves DEF CutShort, BoundsTyped
<1>10. CASE ConsoleTransition \/ RewriteChain \/ UNCHANGED vars
  <2>1. run' = run /\ started' = started
    BY <1>10 DEF ConsoleTransition, RewriteChain, vars, boundVars
  <2>. QED BY <2>1 DEF RunsInPlace, InPlace
<1>. QED BY <1>3, <1>4, <1>5, <1>6, <1>7, <1>8, <1>9, <1>10 DEF Next

-----------------------------------------------------------------------------
(* Processing                                                              *)

(* What a step of one run must leave for ProcessingOK to be kept: the      *)
(* processed jobs processed, and the other runs' jobs alone.               *)
LEMMA ProcessingKept ==
  ASSUME PublicationTypeOK, ProcessingOK, NEW r \in Runs, Elsewhere(r),
         committed' \subseteq 1 .. started',
         \A other \in Runs \ {r} :
           run[other] # Idle /\ run[other].op = "process" =>
             (run[other].job \in committed' <=> run[other].job \in committed),
         \A j \in Jobs : /\ tallyJobs'[j].status = "COMPLETED" => j \in committed'
                         /\ Processed(j) => Processed(j)',
         \A a \in contents' : a \in contents \/ Processed(a.job),
         contents' \subseteq Actas, run'[r] # Idle => KnowsProcessed(r)'
  PROVE  ProcessingOK'
<1>1. RunsTyped /\ contents \subseteq Actas
  BY TypeParts DEF EvidenceTyped
<1>2. \A a \in contents' : Processed(a.job)'
  <2>1. \A a \in contents' : a.job \in Jobs
    BY DEF Actas
  <2>. QED BY <2>1 DEF ProcessingOK
<1>3. ASSUME NEW other \in Runs, other # r, run'[other] # Idle
      PROVE  KnowsProcessed(other)'
  <2>1. run'[other] = run[other] /\ KnowsProcessed(other)
    BY <1>3 DEF Elsewhere, ProcessingOK
  <2>2. PICK j \in Jobs : j = run[other].job
    BY <1>1, <1>3, <2>1, Standing DEF UnderWay
  <2>3. (Processed(j) <=> Processed(run[other].job)) /\ (Processed(j) => Processed(j)')
    BY <2>2
  <2>4. Processed(run[other].job) => Processed(run[other].job)'
    BY <2>1, <2>2, <2>3 DEF Processed
  <2>5. CASE run[other].op # "process"
    BY <2>1, <2>4, <2>5 DEF KnowsProcessed
  <2>6. CASE run[other].op = "process"
    <3>1. /\ run'[other].pc = "job" => run'[other].job \notin committed'
          /\ run'[other].pc = "update" => run'[other].job \in committed'
      BY <1>3, <2>1, <2>6 DEF KnowsProcessed
    <3>2. run'[other].pc \in ActaPositions => Processed(run[other].job)'
      BY <2>1, <2>4, <2>6 DEF KnowsProcessed
    <3>3. ASSUME NEW third \in Runs \ {other}, run'[third] # Idle,
                 run'[third].op = "process"
          PROVE  run'[third].job # run'[other].job
      <4>1. CASE third = r
        BY <1>3, <2>1, <2>6, <3>3, <4>1 DEF KnowsProcessed
      <4>2. CASE third # r
        <5>1. run'[third] = run[third]
          BY <3>3, <4>2 DEF Elsewhere
        <5>. QED BY <2>1, <2>6, <3>3, <5>1 DEF KnowsProcessed
      <4>. QED BY <4>1, <4>2
    <3>. QED BY <2>1, <2>6, <3>1, <3>2, <3>3 DEF KnowsProcessed
  <2>. QED BY <2>5, <2>6
<1>. QED BY <1>2, <1>3 DEF ProcessingOK

(* A step that commits to nothing and completes nothing.                   *)
ProcessingQuiet ==
  /\ committed' = committed /\ started' \in Nat /\ started <= started'
  /\ faults' \in Nat /\ faults <= faults'
  /\ \A j \in Jobs : tallyJobs'[j].status = tallyJobs[j].status

(* It leaves the jobs that are processed so.                               *)
LEMMA QuietProcessed ==
  ASSUME PublicationTypeOK, ProcessingQuiet, NEW j \in Jobs, Processed(j)
  PROVE  Processed(j)'
  BY TypeParts DEF Processed, ProcessingQuiet, BoundsTyped

(* It keeps what is known of the processing, if its run knows as much.     *)
LEMMA QuietKept ==
  ASSUME PublicationTypeOK, ProcessingOK, ProcessingQuiet, NEW r \in Runs, Elsewhere(r),
         \A a \in contents' : a \in contents \/ Processed(a.job),
         contents' \subseteq Actas, run'[r] # Idle => KnowsProcessed(r)'
  PROVE  ProcessingOK'
<1>1. committed' \subseteq 1 .. started'
  BY TypeParts DEF ProcessingOK, ProcessingQuiet, BoundsTyped
<1>2. \A j \in Jobs : tallyJobs'[j].status = "COMPLETED" => j \in committed'
  BY DEF ProcessingOK, ProcessingQuiet
<1>3. \A j \in Jobs : Processed(j) => Processed(j)'
  BY QuietProcessed
<1>. QED BY <1>1, <1>2, <1>3, ProcessingKept DEF ProcessingQuiet

(* A run that goes on knows what it knew.                                  *)
LEMMA QuietMoved ==
  ASSUME PublicationTypeOK, ProcessingOK, ProcessingQuiet, contents' = contents,
         NEW r \in Runs, run[r] # Idle, NEW pc, Moved(r, pc), pc \notin {"job", "update"},
         run[r].op = "process" /\ pc \in ActaPositions => run[r].pc \in ActaPositions
  PROVE  ProcessingOK'
<1>1. contents' \subseteq Actas /\ RunsTyped
  BY TypeParts DEF EvidenceTyped
<1>2. KnowsProcessed(r) /\ run[r].job \in Jobs
  BY <1>1, Standing DEF ProcessingOK, UnderWay
<1>3. Processed(run[r].job) => Processed(run[r].job)'
  <2>1. PICK j \in Jobs : j = run[r].job
    BY <1>2
  <2>2. Processed(j) => Processed(j)'
    BY QuietProcessed
  <2>. QED BY <2>1, <2>2 DEF Moved, Processed
<1>4. ASSUME run[r].op = "process", NEW other \in Runs \ {r}, run'[other] # Idle,
             run'[other].op = "process"
      PROVE  run'[other].job # run'[r].job
  BY <1>2, <1>4 DEF KnowsProcessed, Moved, Elsewhere
<1>5. KnowsProcessed(r)'
  BY <1>2, <1>3, <1>4 DEF KnowsProcessed, Moved
<1>. QED BY <1>1, <1>5, QuietKept DEF Moved

(* One that stops knows nothing.                                           *)
LEMMA QuietStopped ==
  ASSUME PublicationTypeOK, ProcessingOK, ProcessingQuiet, contents' = contents,
         NEW r \in Runs, Stopped(r)
  PROVE  ProcessingOK'
<1>1. contents' \subseteq Actas
  BY TypeParts DEF EvidenceTyped
<1>. QED BY <1>1, QuietKept DEF Stopped

(* One that begins does so from a page that shows its job processed.       *)
LEMMA QuietBegun ==
  ASSUME PublicationTypeOK, ProcessingOK, ProcessingQuiet, contents' = contents,
         NEW r \in Runs, NEW op, op # "process", NEW pc, NEW j \in Pages,
         Begun(r, op, pc, j)
  PROVE  ProcessingOK'
<1>1. contents' \subseteq Actas
  BY TypeParts DEF EvidenceTyped
<1>2. Processed(j)'
  BY PagesProcessed, QuietProcessed
<1>3. KnowsProcessed(r)'
  BY <1>2 DEF KnowsProcessed, Begun, Processed
<1>. QED BY <1>1, <1>3, QuietKept DEF Begun

(* A processing that begins is of a job nobody has seen.                   *)
LEMMA ProcessBallotsProcessing ==
  ASSUME PublicationTypeOK, RunsInPlace, ProcessingOK, NEW r \in Runs, ProcessBallots(r)
  PROVE  ProcessingOK'
<1>1. RunsTyped /\ BoundsTyped /\ EvidenceTyped
  BY TypeParts
<1>2. Begun(r, "process", "job", started + 1)
  BY <1>1, Beginnings
<1>3. /\ started' = started + 1 /\ committed' = committed /\ tallyJobs' = tallyJobs
      /\ faults' = faults /\ contents' = contents
  BY DEF ProcessBallots, chainVars, evidenceVars
<1>4. ProcessingQuiet
  BY <1>1, <1>3 DEF ProcessingQuiet, BoundsTyped
<1>5. started + 1 \notin committed
  BY <1>1 DEF ProcessingOK, BoundsTyped
<1>6. ASSUME NEW other \in Runs \ {r}, run'[other] # Idle
      PROVE  run'[other].job # started + 1
  <2>1. run'[other] = run[other] /\ run[other] # Idle
    BY <1>2, <1>6 DEF Begun, Elsewhere
  <2>2. run[other].job \in 1 .. started
    BY <1>1, <2>1, KindOfRun
  <2>. QED BY <1>1, <2>1, <2>2 DEF BoundsTyped
<1>7. KnowsProcessed(r)'
  BY <1>2, <1>3, <1>5, <1>6 DEF KnowsProcessed, Begun, ActaPositions
<1>. QED BY <1>1, <1>2, <1>3, <1>4, <1>7, QuietKept DEF Begun, EvidenceTyped

(* The job a processing creates is not yet committed to.                   *)
LEMMA CreateTallyJobProcessing ==
  ASSUME PublicationTypeOK, RunsInPlace, ProcessingOK, NEW r \in Runs, CreateTallyJob(r)
  PROVE  ProcessingOK'
<1>1. RunsTyped /\ BoundsTyped /\ EvidenceTyped /\ JobsTyped
  BY TypeParts
<1>2. run[r] # Idle /\ run[r].pc = "job" /\ MovedOn(r, "ensureTallying")
  BY <1>1, Standing, RunMoves DEF CreateTallyJob, At, Positions
<1>3. run[r].op = "process" /\ run[r].job \in Jobs
  BY <1>1, <1>2, KindOfRun DEF ProcessPositions
<1>4. KnowsProcessed(r) /\ run[r].job \notin committed
  BY <1>2, <1>3 DEF ProcessingOK, KnowsProcessed
<1>5. /\ started' = started /\ committed' = committed /\ faults' = faults
      /\ contents' = contents
      /\ tallyJobs' = [tallyJobs EXCEPT ![run[r].job].status = "RUNNING"]
  BY DEF CreateTallyJob, chainVars, evidenceVars, boundVars, Job
<1>6. \A j \in Jobs : j # run[r].job => tallyJobs'[j] = tallyJobs[j]
  BY <1>1, <1>5 DEF JobsTyped
<1>7. tallyJobs'[run[r].job].status = "RUNNING"
  BY <1>1, <1>3, <1>5 DEF JobsTyped, TallyJob
<1>8. ASSUME NEW j \in Jobs
      PROVE  /\ tallyJobs'[j].status = "COMPLETED" => j \in committed'
             /\ Processed(j) => Processed(j)'
  BY <1>4, <1>5, <1>6, <1>7 DEF ProcessingOK, Processed
<1>9. KnowsProcessed(r)'
  BY <1>2, <1>3, <1>4 DEF KnowsProcessed, MovedOn, Moved, Elsewhere, ActaPositions
<1>10. committed' \subseteq 1 .. started' /\ contents' \subseteq Actas
  BY <1>1, <1>5 DEF ProcessingOK, EvidenceTyped
<1>. QED BY <1>2, <1>5, <1>8, <1>9, <1>10, ProcessingKept DEF MovedOn, Moved

(* The commitment is to the run's own job, which no other run processes.   *)
LEMMA CommitTranscriptProcessing ==
  ASSUME PublicationTypeOK, RunsInPlace, ProcessingOK, NEW r \in Runs, CommitTranscript(r)
  PROVE  ProcessingOK'
<1>1. RunsTyped /\ BoundsTyped /\ EvidenceTyped /\ JobsTyped
  BY TypeParts
<1>2. run[r] # Idle /\ run[r].pc = "commit"
  BY <1>1, Standing DEF CommitTranscript, At, Positions
<1>3. run[r].op = "process" /\ run[r].job \in 1 .. started
  BY <1>1, <1>2, KindOfRun DEF ProcessPositions
<1>4. KnowsProcessed(r)
  BY <1>2 DEF ProcessingOK
<1>5. /\ started' = started /\ faults' = faults /\ contents' = contents
      /\ tallyJobs' = tallyJobs
  BY DEF CommitTranscript, jobVars, evidenceVars, boundVars
<1>6. CASE phase = TALLYING
  <2>1. committed' = committed \cup {run[r].job} /\ MovedOn(r, "update")
    <3>1. committed' = committed \cup {run[r].job} /\ Goto(r, "update")
      BY <1>6 DEF CommitTranscript, Job
    <3>. QED BY <1>1, <1>2, <3>1, GotoMoves DEF Positions
  <2>2. \A j \in Jobs : /\ tallyJobs'[j].status = "COMPLETED" => j \in committed'
                        /\ Processed(j) => Processed(j)'
    BY <1>5, <2>1 DEF ProcessingOK, Processed
  <2>3. \A other \in Runs \ {r} :
          run[other] # Idle /\ run[other].op = "process" => run[other].job # run[r].job
    BY <1>3, <1>4 DEF KnowsProcessed
  <2>4. KnowsProcessed(r)'
    BY <1>3, <2>1, <2>3 DEF KnowsProcessed, MovedOn, Moved, Elsewhere, ActaPositions
  <2>5. committed' \subseteq 1 .. started' /\ contents' \subseteq Actas
    BY <1>1, <1>3, <1>5, <2>1 DEF ProcessingOK, EvidenceTyped
  <2>. QED BY <1>5, <2>1, <2>2, <2>3, <2>4, <2>5, ProcessingKept DEF MovedOn, Moved
<1>7. CASE phase # TALLYING
  <2>1. ProcessingQuiet
    BY <1>1, <1>5, <1>7 DEF CommitTranscript, ProcessingQuiet, BoundsTyped
  <2>2. Stopped(r)
    BY <1>1, <1>7, StopStops DEF CommitTranscript
  <2>. QED BY <1>5, <2>1, <2>2, QuietStopped
<1>. QED BY <1>6, <1>7

(* The job is completed, or a fault is spent on leaving it as it is.       *)
LEMMA UpdateTallyJobProcessing ==
  ASSUME PublicationTypeOK, RunsInPlace, ProcessingOK, NEW r \in Runs,
         UpdateTallyJobStatus(r) \/ UpdateTallyJobFails(r)
  PROVE  ProcessingOK'
<1>1. RunsTyped /\ BoundsTyped /\ EvidenceTyped /\ JobsTyped
  BY TypeParts
<1>2. run[r] # Idle /\ run[r].pc = "update" /\ MovedOn(r, "acta")
  BY <1>1, Standing, RunMoves DEF UpdateTallyJobStatus, UpdateTallyJobFails, At, Positions
<1>3. run[r].op = "process" /\ run[r].job \in Jobs
  BY <1>1, <1>2, KindOfRun DEF ProcessPositions
<1>4. KnowsProcessed(r) /\ run[r].job \in committed
  BY <1>2, <1>3 DEF ProcessingOK, KnowsProcessed
<1>5. started' = started /\ committed' = committed /\ contents' = contents
  BY DEF UpdateTallyJobStatus, UpdateTallyJobFails, chainVars, evidenceVars, boundVars
<1>6. faults' \in Nat /\ faults <= faults'
  BY <1>1 DEF UpdateTallyJobStatus, UpdateTallyJobFails, boundVars, BoundsTyped
<1>7. /\ \A j \in Jobs : tallyJobs'[j].status # tallyJobs[j].status =>
           j = run[r].job /\ tallyJobs'[j].status = "COMPLETED"
      /\ faults' = 0 => tallyJobs'[run[r].job].status = "COMPLETED"
  <2>1. CASE UpdateTallyJobStatus(r)
    <3>1. tallyJobs' = [tallyJobs EXCEPT ![run[r].job] =
                          [status |-> "COMPLETED", proofState |-> "TRANSCRIPT_COMMITTED"]]
      BY <2>1 DEF UpdateTallyJobStatus, Job
    <3>. QED BY <1>1, <1>3, <3>1 DEF JobsTyped
  <2>2. CASE UpdateTallyJobFails(r)
    BY <1>1, <2>2 DEF UpdateTallyJobFails, jobVars, BoundsTyped
  <2>. QED BY <2>1, <2>2
<1>8. ASSUME NEW j \in Jobs
      PROVE  /\ tallyJobs'[j].status = "COMPLETED" => j \in committed'
             /\ Processed(j) => Processed(j)'
  BY <1>1, <1>4, <1>5, <1>6, <1>7 DEF ProcessingOK, Processed, BoundsTyped
<1>9. Processed(run[r].job)'
  BY <1>2, <1>4, <1>5, <1>7 DEF Processed, MovedOn, Moved
<1>10. KnowsProcessed(r)'
  BY <1>2, <1>3, <1>4, <1>9 DEF KnowsProcessed, MovedOn, Moved, Elsewhere
<1>11. committed' \subseteq 1 .. started' /\ contents' \subseteq Actas
  BY <1>1, <1>5 DEF ProcessingOK, EvidenceTyped
<1>. QED BY <1>2, <1>5, <1>8, <1>10, <1>11, ProcessingKept DEF MovedOn, Moved

(* An acta is of a processed job.                                          *)
LEMMA PersistActaProcessing ==
  ASSUME PublicationTypeOK, RunsInPlace, ProcessingOK, NEW r \in Runs,
         PersistActaContent(r)
  PROVE  ProcessingOK'
<1>1. RunsTyped /\ BoundsTyped /\ EvidenceTyped
  BY TypeParts
<1>2. run[r] # Idle /\ run[r].pc = "content" /\ ActaOf(r) \in Actas
  BY <1>1, Standing, JobTyped DEF PersistActaContent, At, Positions
<1>3. KnowsProcessed(r) /\ run[r].job \in Jobs /\ run[r].op \in {"process", "publish"}
  BY <1>1, <1>2, KindOfRun DEF ProcessingOK, ActaPositions
<1>4. Processed(run[r].job) /\ ActaOf(r).job = run[r].job
  BY <1>2, <1>3
     DEF KnowsProcessed, ActaPositions, ActaOf, ActaEscrutinio, ActaResultados, Job
<1>5. /\ committed' = committed /\ tallyJobs' = tallyJobs /\ faults' = faults
      /\ started' = started /\ contents' = contents \cup {ActaOf(r)}
  BY DEF PersistActaContent, chainVars, jobVars, boundVars
<1>6. ProcessingQuiet
  BY <1>1, <1>5 DEF ProcessingQuiet, BoundsTyped
<1>7. contents' \subseteq Actas /\ \A a \in contents' : a \in contents \/ Processed(a.job)
  BY <1>1, <1>2, <1>4, <1>5 DEF EvidenceTyped
<1>8. Elsewhere(r) /\ (run'[r] # Idle => KnowsProcessed(r)')
  <2>1. CASE run[r].op = "process"
    BY <1>1, <2>1, RunMoves DEF Stopped
  <2>2. CASE run[r].op # "process"
    <3>1. MovedOn(r, "advance")
      BY <1>1, <2>2, RunMoves
    <3>2. Processed(run[r].job)'
      BY <1>4, <1>5, <3>1 DEF Processed, MovedOn, Moved
    <3>. QED BY <2>2, <3>1, <3>2 DEF KnowsProcessed, MovedOn, Moved
  <2>. QED BY <2>1, <2>2
<1>. QED BY <1>6, <1>7, <1>8, QuietKept

(* Every step keeps what is known of the processing.                       *)
LEMMA ProcessingStep ==
  ASSUME PublicationTypeOK, RunsInPlace, ProcessingOK, [Next]_vars
  PROVE  ProcessingOK'
<1>1. RunsTyped /\ BoundsTyped /\ JobsTyped /\ phase \in VOTING_OPEN .. AUDIT_WINDOW
  BY TypeParts DEF ChainTyped
<1>2. \A r \in Runs : ProcessingQuiet /\ contents' = contents /\ Stopped(r) => ProcessingOK'
  BY QuietStopped
<1>3. \A r \in Runs : \A pc \in Positions \ {"job", "update", "acta", "content"} :
        ProcessingQuiet /\ contents' = contents /\ run[r] # Idle /\ Moved(r, pc)
          => ProcessingOK'
  BY QuietMoved DEF ActaPositions
<1>4. ASSUME committed' = committed, started' = started, faults' \in Nat,
             faults <= faults', tallyJobs' = tallyJobs
      PROVE  ProcessingQuiet
  BY <1>1, <1>4 DEF ProcessingQuiet, BoundsTyped
<1>5. ASSUME NEW r \in Runs, BeginProving(r) \/ BeginSubmission(r) \/ BeginPublication(r)
      PROVE  ProcessingOK'
  <2>1. ProcessingQuiet /\ contents' = contents
    BY <1>1, <1>4, <1>5 DEF BeginProving, BeginSubmission, BeginPublication, chainVars,
       jobVars, evidenceVars, boundVars, BoundsTyped
  <2>. QED BY <1>1, <1>5, <2>1, Beginnings, QuietBegun
<1>6. ASSUME NEW r \in Runs, ReadPhase(r) \/ MovePhase(r)
      PROVE  ProcessingOK'
  <2>1. ProcessingQuiet /\ contents' = contents /\ run[r] # Idle
    BY <1>1, <1>4, <1>6, Standing DEF ReadPhase, MovePhase, chainVars, jobVars,
       evidenceVars, boundVars, BoundsTyped, Positions
  <2>. QED BY <1>1, <1>2, <1>3, <1>6, <2>1, PhaseMoves DEF MovedOn, Positions
<1>7. ASSUME NEW r \in Runs, AnchorActa(r)
      PROVE  ProcessingOK'
  <2>1. ProcessingQuiet /\ contents' = contents /\ run[r] # Idle /\ run[r].pc = "acta"
    BY <1>1, <1>4, <1>7, Standing DEF AnchorActa, jobVars, evidenceVars, boundVars,
       BoundsTyped, At, Positions
  <2>. QED BY <1>1, <1>7, <2>1, RunMoves, QuietMoved DEF MovedOn, ActaPositions
<1>8. ASSUME NEW r \in Runs, ProveStep(r)
      PROVE  ProcessingOK'
  <2>1. ProcessingQuiet /\ contents' = contents
    BY <1>1, <1>4, <1>8 DEF ProveStep, ProveTally, VerifyTallyOffchain, ResolveKey,
       ProveDecryption, FailureUnrecorded, chainVars, evidenceVars, boundVars, BoundsTyped
  <2>2. ~Stopped(r) => run[r] # Idle
    BY <1>1, <1>8, Standing, RunMoves DEF ProveStep, ProveTally, VerifyTallyOffchain,
       ResolveKey, Positions
  <2>. QED BY <1>1, <1>2, <1>3, <1>8, <2>1, <2>2, RunMoves
           DEF ProveStep, MovedOn, Positions
<1>9. ASSUME NEW r \in Runs, SubmitStep(r)
      PROVE  ProcessingOK'
  <2>1. run[r] # Idle
    BY <1>1, <1>9, Standing DEF SubmitStep, ReadProofRow, StillVerified,
       ResetStaleProof, CallVerifier, ReadFlag, MarkVerifiedOnchain, LoadGateState,
       UpdateProofState, Positions
  <2>2. contents' = contents /\ committed' = committed /\ started' = started
        /\ faults' = faults
    BY <1>9 DEF SubmitStep, ReadProofRow, StillVerified, ResetStaleProof, CallVerifier,
       ReadFlag, MarkVerifiedOnchain, LoadGateState, UpdateProofState, chainVars,
       evidenceVars, boundVars
  <2>3. \A j \in Jobs : tallyJobs'[j].status = tallyJobs[j].status
    <3>1. CASE UpdateProofState(r)
      BY <1>1, <3>1 DEF UpdateProofState, JobsTyped, TallyJob
    <3>2. CASE ~UpdateProofState(r)
      BY <1>9, <3>2 DEF SubmitStep, ReadProofRow, StillVerified, ResetStaleProof,
         CallVerifier, ReadFlag, MarkVerifiedOnchain, LoadGateState, jobVars
    <3>. QED BY <3>1, <3>2
  <2>4. ProcessingQuiet
    BY <1>1, <2>2, <2>3 DEF ProcessingQuiet, BoundsTyped
  <2>5. NextCircuit(r) => ProcessingOK'
    BY <1>1, <1>3, <2>1, <2>2, <2>4, NextCircuitMoves DEF MovedOn, Positions
  <2>6. Goto(r, "stale") => ProcessingOK'
    BY <1>1, <1>3, <2>1, <2>2, <2>4, GotoMoves DEF MovedOn, Positions
  <2>7. LoadGateState(r) => ProcessingOK'
    BY <1>1, <1>3, <2>1, <2>2, <2>4, GateStateMoves DEF Positions
  <2>8. StillVerified(r) \/ MarkVerifiedOnchain(r) => ProcessingOK'
    BY <2>5, <2>6 DEF StillVerified, MarkVerifiedOnchain
  <2>. QED BY <1>1, <1>2, <1>3, <1>9, <2>1, <2>2, <2>4, <2>7, <2>8, RunMoves
           DEF SubmitStep, MovedOn, Positions
<1>10. ASSUME NEW r \in Runs, PublishStep(r)
       PROVE  ProcessingOK'
  <2>1. run[r] # Idle /\ run[r].pc \in PublishPositions
    BY <1>1, <1>10, Standing DEF PublishStep, PassGate, PassPayloadGate, FindPayload,
       InsertPayload, AdvanceToResults, PublishResults, ReadAuditPhase,
       OpenAuditWindow, InsertAuditWindow, At, Positions, PublishPositions
  <2>2. ProcessingQuiet /\ contents' = contents
    BY <1>1, <1>4, <1>10 DEF PublishStep, PassGate, PassPayloadGate, FindPayload,
       InsertPayload, AdvanceToResults, PublishResults, ReadAuditPhase,
       OpenAuditWindow, InsertAuditWindow, chainVars, jobVars, evidenceVars, boundVars,
       BoundsTyped
  <2>3. Moved(r, "acta") => ProcessingOK'
    BY <1>1, <2>1, <2>2, KindOfRun, QuietMoved
  <2>. QED BY <1>1, <1>2, <1>3, <1>10, <2>1, <2>2, <2>3, RunMoves
           DEF PublishStep, MovedOn, Positions
<1>11. ASSUME NEW r \in Runs, CutShort(r)
       PROVE  ProcessingOK'
  <2>1. ProcessingQuiet /\ contents' = contents
    BY <1>1, <1>4, <1>11 DEF CutShort, chainVars, jobVars, evidenceVars, BoundsTyped
  <2>. QED BY <1>1, <1>2, <1>11, <2>1, RunMoves
<1>12. CASE ConsoleTransition \/ RewriteChain \/ UNCHANGED vars
  <2>1. /\ run' = run /\ committed' = committed /\ tallyJobs' = tallyJobs
        /\ contents' = contents /\ started' = started
        /\ faults' \in Nat /\ faults <= faults'
    BY <1>1, <1>12 DEF ConsoleTransition, RewriteChain, vars, chainVars, jobVars,
       evidenceVars, boundVars, BoundsTyped
  <2>2. \A j : Processed(j) => Processed(j)'
    BY <1>1, <2>1 DEF Processed, BoundsTyped
  <2>3. \A r \in Runs : run[r] # Idle => KnowsProcessed(r)'
    <3>1. \A r \in Runs : Processed(run[r].job) => Processed(run[r].job)'
      BY <1>1, <2>1 DEF Processed, BoundsTyped
    <3>. QED BY <2>1, <3>1 DEF ProcessingOK, KnowsProcessed
  <2>. QED BY <2>1, <2>2, <2>3 DEF ProcessingOK
<1>. QED BY <1>5, <1>6, <1>7, <1>8, <1>9, <1>10, <1>11, <1>12,
         ProcessBallotsProcessing, CreateTallyJobProcessing, CommitTranscriptProcessing,
         UpdateTallyJobProcessing, PersistActaProcessing
         DEF Next, Begin, ProcessStep, ActaStep

-----------------------------------------------------------------------------
(* Proofs                                                                  *)

(* What a step leaves of the proofs: rows begun stay, the verified ones    *)
(* stay so, and no other run's job becomes verified.                       *)
ProofsStay(r) ==
  /\ Unrewritten' => Unrewritten /\ verified \subseteq verified'
  /\ verified' \subseteq Circuits
  /\ \A j \in Jobs :
       /\ proofs[j]["TALLY"] # "none" => proofs'[j]["TALLY"] # "none"
       /\ Verified(proofs[j]["DECRYPTION"]) =>
            /\ Verified(proofs'[j]["DECRYPTION"])
            /\ Unrewritten' => \A c \in Circuits : OnChain(j, c) => OnChain(j, c)'
       /\ Verified(proofs'[j]["DECRYPTION"]) =>
            \/ Verified(proofs[j]["DECRYPTION"])
            \/ run[r] # Idle /\ run[r].op = "generate" /\ run[r].job = j

(* The knowledge of the other runs survives such a step.                   *)
LEMMA ProofsKept ==
  ASSUME PublicationTypeOK, ProofsOK, NEW r \in Runs, Elsewhere(r), ProofsStay(r),
         \A j \in Jobs : RowsOK(j)', run'[r] # Idle => KnowsProofs(r)'
  PROVE  ProofsOK'
<1>1. RunsTyped /\ verified \subseteq Circuits
  BY TypeParts DEF ChainTyped
<1>2. ASSUME NEW other \in Runs, other # r, run'[other] # Idle
      PROVE  KnowsProofs(other)'
  <2>1. run'[other] = run[other] /\ KnowsProofs(other) /\ run[other] \in UnderWay
    BY <1>1, <1>2, Standing DEF Elsewhere, ProofsOK
  <2>2. PICK j \in Jobs : j = run[other].job
    BY <2>1 DEF UnderWay
  <2>3. run[other].circuit \in Circuits
    BY <2>1 DEF UnderWay
  <2>4. CASE run[other].op = "generate"
    <3>1. proofs[j]["TALLY"] # "none" /\ ~Verified(proofs[j]["DECRYPTION"])
      BY <2>1, <2>2, <2>4 DEF KnowsProofs
    <3>2. ~(run[r] # Idle /\ run[r].op = "generate" /\ run[r].job = j)
      BY <1>2, <2>1, <2>2, <2>4 DEF KnowsProofs
    <3>3. proofs'[j]["TALLY"] # "none" /\ ~Verified(proofs'[j]["DECRYPTION"])
      BY <3>1, <3>2 DEF ProofsStay
    <3>4. ASSUME NEW third \in Runs \ {other}, run'[third] # Idle,
                 run'[third].op = "generate"
          PROVE  run'[third].job # run'[other].job
      <4>1. CASE third = r
        BY <1>2, <2>1, <2>4, <3>4, <4>1 DEF KnowsProofs
      <4>2. CASE third # r
        <5>1. run'[third] = run[third]
          BY <3>4, <4>2 DEF Elsewhere
        <5>. QED BY <2>1, <2>4, <3>4, <5>1 DEF KnowsProofs
      <4>. QED BY <4>1, <4>2
    <3>. QED BY <2>1, <2>2, <2>4, <3>3, <3>4 DEF KnowsProofs
  <2>5. CASE run[other].op = "submit"
    <3>1. Verified(proofs[j]["DECRYPTION"])
      BY <2>1, <2>2, <2>5 DEF KnowsProofs
    <3>2. Verified(proofs'[j]["DECRYPTION"])
      BY <3>1 DEF ProofsStay
    <3>3. ASSUME Unrewritten'
          PROVE  /\ Unrewritten /\ verified \subseteq verified' /\ verified' \subseteq Circuits
                 /\ \A c \in Circuits : OnChain(j, c) => OnChain(j, c)'
      BY <3>1, <3>3 DEF ProofsStay
    <3>4. ASSUME Unrewritten'
          PROVE  /\ run[other].circuit = "DECRYPTION" => OnChain(j, "TALLY")
                 /\ run[other].pc = "mark" => run[other].circuit \in verified
                 /\ run[other].pc = "still" => OnChain(j, run[other].circuit)
                 /\ run[other].pc # "stale"
                 /\ run[other].pc = "proofState" /\ run[other].proofState = "VERIFIED" =>
                      verified = Circuits
      BY <2>1, <2>2, <2>5, <3>3, <3>4 DEF KnowsProofs, OnChain
    <3>5. ASSUME Unrewritten'
          PROVE  /\ run'[other].circuit = "DECRYPTION" => OnChain(j, "TALLY")'
                 /\ run'[other].pc = "mark" => run'[other].circuit \in verified'
                 /\ run'[other].pc = "still" =>
                      proofs'[j][run'[other].circuit] = "VERIFIED_ONCHAIN"
                 /\ run'[other].pc # "stale"
                 /\ run'[other].pc = "proofState" /\ run'[other].proofState = "VERIFIED" =>
                      verified' = Circuits
      BY <2>1, <2>3, <3>3, <3>4, <3>5 DEF OnChain, Circuits
    <3>. QED BY <2>1, <2>2, <2>5, <3>2, <3>5 DEF KnowsProofs, OnChain
  <2>6. CASE run[other].op = "publish"
    <3>1. proofs'[j]["TALLY"] # "none"
      BY <2>1, <2>2, <2>6 DEF KnowsProofs, ProofsStay
    <3>2. Unrewritten' => verified' = Circuits
      BY <2>1, <2>6 DEF KnowsProofs, ProofsStay
    <3>. QED BY <2>1, <2>2, <2>6, <3>1, <3>2 DEF KnowsProofs
  <2>7. run[other].op \notin {"generate", "submit", "publish"} => KnowsProofs(other)'
    BY <2>1 DEF KnowsProofs
  <2>. QED BY <2>4, <2>5, <2>6, <2>7
<1>. QED BY <1>2 DEF ProofsOK

(* A step that leaves the rows as they are, and gives nobody VERIFIED.     *)
ProofsQuiet ==
  /\ proofs' = proofs /\ transcript' = transcript /\ committed \subseteq committed'
  /\ Unrewritten' => Unrewritten /\ verified \subseteq verified'
  /\ verified' \subseteq Circuits
  /\ \A j \in Jobs : tallyJobs'[j].proofState # tallyJobs[j].proofState =>
       tallyJobs'[j].proofState # "VERIFIED"

(* It keeps what is known of the proofs, if its run knows as much.         *)
LEMMA QuietProofsKept ==
  ASSUME PublicationTypeOK, ProofsOK, ProofsQuiet, NEW r \in Runs, Elsewhere(r),
         run'[r] # Idle => KnowsProofs(r)'
  PROVE  ProofsOK'
<1>1. ProofsStay(r)
  BY DEF ProofsStay, ProofsQuiet, OnChain
<1>2. ASSUME NEW j \in Jobs
      PROVE  RowsOK(j)'
  <2>1. RowsOK(j)
    BY DEF ProofsOK
  <2>. QED BY <2>1 DEF RowsOK, ProofsQuiet, OnChain
<1>. QED BY <1>1, <1>2, ProofsKept

(* A run that stops.                                                       *)
LEMMA QuietProofsStopped ==
  ASSUME PublicationTypeOK, ProofsOK, ProofsQuiet, NEW r \in Runs, Stopped(r)
  PROVE  ProofsOK'
  BY QuietProofsKept DEF Stopped

(* A run that goes on learning nothing of the proofs.                      *)
LEMMA QuietProofsMoved ==
  ASSUME PublicationTypeOK, ProofsOK, ProofsQuiet, NEW r \in Runs, run[r] # Idle,
         NEW pc, Moved(r, pc),
         run[r].op = "submit" =>
           /\ run'[r].circuit = run[r].circuit
           /\ pc \notin {"mark", "still", "stale", "proofState"}
  PROVE  ProofsOK'
<1>1. RunsTyped /\ verified \subseteq Circuits
  BY TypeParts DEF ChainTyped
<1>2. KnowsProofs(r) /\ run[r] \in UnderWay
  BY <1>1, Standing DEF ProofsOK
<1>3. /\ run'[r].op = run[r].op /\ run'[r].job = run[r].job /\ run'[r].pc = pc
      /\ proofs' = proofs /\ Elsewhere(r)
      /\ Unrewritten' => Unrewritten /\ verified \subseteq verified' /\ verified' \subseteq Circuits
  BY DEF Moved, ProofsQuiet
<1>4. run[r].op = "generate" => KnowsProofs(r)'
  <2>1. \A other \in Runs \ {r} : run'[other] = run[other]
    BY <1>3 DEF Elsewhere
  <2>. QED BY <1>2, <1>3, <2>1 DEF KnowsProofs
<1>5. run[r].op = "submit" => KnowsProofs(r)'
  BY <1>2, <1>3 DEF KnowsProofs, OnChain
<1>6. run[r].op = "publish" => KnowsProofs(r)'
  BY <1>1, <1>2, <1>3 DEF KnowsProofs
<1>7. run[r].op = "process" => KnowsProofs(r)'
  BY <1>3 DEF KnowsProofs
<1>8. KnowsProofs(r)'
  BY <1>2, <1>4, <1>5, <1>6, <1>7 DEF UnderWay
<1>. QED BY <1>3, <1>8, QuietProofsKept

(* A row that is set, and the others.                                      *)
LEMMA SetProofSets ==
  ASSUME JobsTyped, NEW j \in Jobs, NEW c \in Circuits, NEW status, SetProof(j, c, status)
  PROVE  /\ proofs'[j][c] = status
         /\ \A k \in Jobs, d \in Circuits : k # j \/ d # c => proofs'[k][d] = proofs[k][d]
  BY DEF JobsTyped, SetProof

(* A proving run writes a row of its own job, whose decryption is not      *)
(* verified: nothing anybody knows is lost.                                *)
LEMMA GenerateSets ==
  ASSUME PublicationTypeOK, ProofsOK, NEW r \in Runs, NEW j \in Jobs, NEW c \in Circuits,
         NEW status, status # "none", status # "VERIFIED_ONCHAIN", SetProof(j, c, status),
         UNCHANGED <<chainVars, transcript, tallyJobs, rewrites>>,
         ~Verified(proofs[j]["DECRYPTION"]), Elsewhere(r),
         c = "DECRYPTION" => proofs[j]["TALLY"] # "none",
         c = "DECRYPTION" /\ Verified(status) =>
           /\ transcript[j] = "right" /\ j \in committed
           /\ run[r] # Idle /\ run[r].op = "generate" /\ run[r].job = j,
         run'[r] # Idle => KnowsProofs(r)'
  PROVE  ProofsOK'
<1>1. JobsTyped /\ verified \subseteq Circuits
  BY TypeParts DEF ChainTyped
<1>2. /\ proofs'[j][c] = status
      /\ \A k \in Jobs, d \in Circuits : k # j \/ d # c => proofs'[k][d] = proofs[k][d]
  BY <1>1, SetProofSets
<1>3. /\ rewrites' = rewrites /\ verified' = verified /\ committed' = committed
      /\ transcript' = transcript /\ tallyJobs' = tallyJobs
  BY DEF chainVars
<1>4. "TALLY" \in Circuits /\ "DECRYPTION" \in Circuits
  BY DEF Circuits
<1>5. ASSUME NEW k \in Jobs
      PROVE  RowsOK(k)'
  <2>1. RowsOK(k)
    BY DEF ProofsOK
  <2>2. CASE k # j
    <3>1. \A d \in Circuits : proofs'[k][d] = proofs[k][d]
      BY <1>2, <2>2
    <3>. QED BY <1>3, <1>4, <2>1, <3>1 DEF RowsOK, OnChain, Unrewritten
  <2>3. CASE k = j
    <3>1. /\ \A d \in Circuits : proofs'[j][d] = "VERIFIED_ONCHAIN" =>
               d # c /\ proofs[j][d] = "VERIFIED_ONCHAIN"
          /\ proofs'[j]["DECRYPTION"] # "VERIFIED_ONCHAIN"
      BY <1>2, <1>4 DEF Verified
    <3>2. Verified(proofs'[j]["DECRYPTION"]) =>
            transcript[j] = "right" /\ j \in committed /\ proofs'[j]["TALLY"] # "none"
      BY <1>2, <1>4 DEF Circuits
    <3>. QED BY <1>3, <2>1, <2>3, <3>1, <3>2 DEF RowsOK, OnChain, Unrewritten
  <2>. QED BY <2>2, <2>3
<1>6. ProofsStay(r)
  <2>1. \A k \in Jobs : k # j => \A d \in Circuits : proofs'[k][d] = proofs[k][d]
    BY <1>2
  <2>2. proofs[j]["TALLY"] # "none" => proofs'[j]["TALLY"] # "none"
    BY <1>2, <1>4
  <2>3. Verified(proofs'[j]["DECRYPTION"]) =>
          run[r] # Idle /\ run[r].op = "generate" /\ run[r].job = j
    BY <1>2, <1>4
  <2>. QED BY <1>1, <1>3, <1>4, <2>1, <2>2, <2>3 DEF ProofsStay, OnChain, Unrewritten
<1>. QED BY <1>5, <1>6, ProofsKept

(* Nobody proves a job whose tally has a row already.                      *)
LEMMA BeginProvingProofs ==
  ASSUME PublicationTypeOK, ProofsOK, NEW r \in Runs, BeginProving(r)
  PROVE  ProofsOK'
<1>1. RunsTyped /\ JobsTyped /\ BoundsTyped
  BY TypeParts
<1>2. PICK j \in Pages : /\ proofs[j]["TALLY"] = "none"
                         /\ Start(r, "generate", "prove", j)
                         /\ SetProof(j, "TALLY", "BUILDING")
                         /\ UNCHANGED <<chainVars, transcript, tallyJobs, rewrites>>
  BY DEF BeginProving, boundVars
<1>3. j \in Jobs /\ Begun(r, "generate", "prove", j)
  BY <1>1, <1>2, StartBegins DEF Pages, Positions
<1>4. ~Verified(proofs[j]["DECRYPTION"])
  BY <1>2, <1>3 DEF ProofsOK, RowsOK
<1>5. /\ proofs'[j]["TALLY"] = "BUILDING"
      /\ proofs'[j]["DECRYPTION"] = proofs[j]["DECRYPTION"]
  BY <1>1, <1>2, <1>3, SetProofSets DEF Circuits
<1>6. ASSUME NEW other \in Runs \ {r}, run'[other] # Idle, run'[other].op = "generate"
      PROVE  run'[other].job # j
  <2>1. run'[other] = run[other] /\ KnowsProofs(other)
    BY <1>3, <1>6 DEF Begun, Elsewhere, ProofsOK
  <2>. QED BY <1>2, <1>6, <2>1 DEF KnowsProofs
<1>7. KnowsProofs(r)'
  BY <1>3, <1>4, <1>5, <1>6 DEF KnowsProofs, Begun
<1>. QED BY <1>2, <1>3, <1>4, <1>7, GenerateSets DEF Begun, Circuits

(* The proving, to its end or to its failure.                              *)
LEMMA ProveStepProofs ==
  ASSUME PublicationTypeOK, RunsInPlace, ProcessingOK, ProofsOK, NEW r \in Runs,
         ProveStep(r)
  PROVE  ProofsOK'
<1>1. RunsTyped /\ JobsTyped /\ BoundsTyped
  BY TypeParts
<1>2. run[r] # Idle /\ run[r].pc \in GeneratePositions
  BY <1>1, Standing
     DEF ProveStep, ProveTally, VerifyTallyOffchain, ResolveKey, ProveDecryption,
         FailureUnrecorded, At, GeneratePositions, Positions
<1>3. run[r].op = "generate"
  BY <1>1, <1>2, KindOfRun
<1>4. PICK j \in Jobs : j = run[r].job
  BY <1>1, <1>2, KindOfRun
<1>5. /\ proofs[j]["TALLY"] # "none" /\ ~Verified(proofs[j]["DECRYPTION"])
      /\ j \in committed
      /\ \A other \in Runs \ {r} :
           run[other] # Idle /\ run[other].op = "generate" => run[other].job # j
  BY <1>2, <1>3, <1>4 DEF ProofsOK, KnowsProofs, ProcessingOK, KnowsProcessed, Processed
<1>6. UNCHANGED <<chainVars, transcript, tallyJobs, rewrites>>
  BY DEF ProveStep, ProveTally, VerifyTallyOffchain, ResolveKey, ProveDecryption,
     FailureUnrecorded, boundVars
<1>7. ASSUME NEW c \in Circuits, NEW status \in ProofStatuses \ {"none", "VERIFIED_ONCHAIN"},
             SetProof(j, c, status), Stopped(r),
             c = "DECRYPTION" /\ Verified(status) => transcript[j] = "right"
      PROVE  ProofsOK'
  BY <1>2, <1>3, <1>4, <1>5, <1>6, <1>7, GenerateSets DEF Stopped
<1>8. ASSUME NEW pc, NEW c \in Circuits,
             NEW status \in ProofStatuses \ {"none", "VERIFIED_ONCHAIN"},
             SetProof(j, c, status), MovedOn(r, pc), c = "DECRYPTION" => ~Verified(status)
      PROVE  ProofsOK'
  <2>1. proofs'[j]["TALLY"] # "none" /\ ~Verified(proofs'[j]["DECRYPTION"])
    BY <1>1, <1>5, <1>8, SetProofSets DEF Circuits
  <2>2. \A other \in Runs \ {r} :
          run'[other] # Idle /\ run'[other].op = "generate" => run'[other].job # j
    BY <1>5, <1>8 DEF MovedOn, Moved, Elsewhere
  <2>3. KnowsProofs(r)'
    BY <1>3, <1>4, <1>8, <2>1, <2>2 DEF KnowsProofs, MovedOn, Moved
  <2>. QED BY <1>5, <1>6, <1>8, <2>3, GenerateSets DEF MovedOn, Moved
<1>9. Stop(r) => Stopped(r)
  BY <1>1, StopStops
<1>10. ASSUME NEW c \in Circuits, ProofFails(r, c)
       PROVE  ProofsOK'
  BY <1>4, <1>7, <1>9, <1>10 DEF ProofFails, Job, Verified, ProofStatuses
<1>11. CASE ProveTally(r)
  <2>1. SetProof(j, "TALLY", "PROVED") /\ Goto(r, "verify") => ProofsOK'
    BY <1>1, <1>2, <1>8, GotoMoves DEF Circuits, ProofStatuses, Positions
  <2>. QED BY <1>4, <1>10, <1>11, <2>1 DEF ProveTally, Job, Circuits
<1>12. CASE VerifyTallyOffchain(r)
  <2>1. SetProof(j, "TALLY", "VERIFIED_OFFCHAIN") /\ Goto(r, "key") => ProofsOK'
    BY <1>1, <1>2, <1>8, GotoMoves DEF Circuits, ProofStatuses, Positions
  <2>. QED BY <1>4, <1>10, <1>12, <2>1 DEF VerifyTallyOffchain, Job, Circuits
<1>13. CASE ResolveKey(r)
  <2>1. SetProof(j, "DECRYPTION", "BUILDING") /\ Goto(r, "proveDecryption") => ProofsOK'
    BY <1>1, <1>2, <1>8, GotoMoves DEF Verified, Circuits, ProofStatuses, Positions
  <2>. QED BY <1>4, <1>10, <1>13, <2>1 DEF ResolveKey, Job, Circuits
<1>14. CASE ProveDecryption(r)
  <2>1. SetProof(j, "DECRYPTION", "VERIFIED_OFFCHAIN") /\ transcript[j] = "right" /\ Stop(r)
          => ProofsOK'
    BY <1>7, <1>9 DEF Circuits, ProofStatuses
  <2>. QED BY <1>4, <1>10, <1>14, <2>1 DEF ProveDecryption, Job, Circuits
<1>15. CASE FailureUnrecorded(r)
  BY <1>10, <1>15 DEF FailureUnrecorded, Circuits
<1>. QED BY <1>11, <1>12, <1>13, <1>14, <1>15 DEF ProveStep

(* A submission: the rows it marks are so on chain, and what it learns on  *)
(* the way is true as long as the chain is not rewritten.                  *)
LEMMA SubmitStepProofs ==
  ASSUME PublicationTypeOK, RunsInPlace, ProofsOK, NEW r \in Runs, SubmitStep(r)
  PROVE  ProofsOK'
<1>1. RunsTyped /\ JobsTyped /\ verified \subseteq Circuits /\ rewrites \in Nat
  BY TypeParts DEF ChainTyped, BoundsTyped
<1>2. run[r] # Idle /\ run[r].pc \in SubmitPositions /\ run[r] \in UnderWay
  BY <1>1, Standing DEF SubmitStep, ReadProofRow, StillVerified, ResetStaleProof,
     CallVerifier, ReadFlag, MarkVerifiedOnchain, LoadGateState, UpdateProofState, At,
     SubmitPositions, Positions
<1>3. run[r].op = "submit" /\ run[r].circuit \in Circuits
  BY <1>1, <1>2, KindOfRun DEF UnderWay
<1>4. PICK j \in Jobs : j = run[r].job
  BY <1>1, <1>2, KindOfRun
<1>5. /\ Verified(proofs[j]["DECRYPTION"]) /\ RowsOK(j)
      /\ proofs[j]["TALLY"] # "none"
  BY <1>2, <1>3, <1>4 DEF ProofsOK, KnowsProofs, RowsOK
<1>6. ASSUME Unrewritten
      PROVE  /\ run[r].circuit = "DECRYPTION" => OnChain(j, "TALLY")
             /\ run[r].pc = "mark" => run[r].circuit \in verified
             /\ run[r].pc = "still" => OnChain(j, run[r].circuit)
             /\ run[r].pc # "stale"
             /\ run[r].pc = "proofState" /\ run[r].proofState = "VERIFIED" =>
                  verified = Circuits
  BY <1>2, <1>3, <1>4, <1>6 DEF ProofsOK, KnowsProofs, OnChain
<1>7. rewrites' = rewrites /\ transcript' = transcript /\ committed' = committed
  BY DEF SubmitStep, ReadProofRow, StillVerified, ResetStaleProof, CallVerifier,
     ReadFlag, MarkVerifiedOnchain, LoadGateState, UpdateProofState, boundVars,
     jobVars, chainVars
<1>8. ASSUME NEW pc, Moved(r, pc), Verified(proofs'[j]["DECRYPTION"]),
             Unrewritten' =>
               /\ run'[r].circuit = "DECRYPTION" => proofs'[j]["TALLY"] = "VERIFIED_ONCHAIN"
               /\ pc = "mark" => run'[r].circuit \in verified'
               /\ pc = "still" => proofs'[j][run'[r].circuit] = "VERIFIED_ONCHAIN"
               /\ pc # "stale"
               /\ pc = "proofState" /\ run'[r].proofState = "VERIFIED" => verified' = Circuits
      PROVE  KnowsProofs(r)'
  BY <1>3, <1>4, <1>8 DEF KnowsProofs, Moved, OnChain
<1>9. Stop(r) => Stopped(r)
  BY <1>1, StopStops
<1>10. UNCHANGED <<chainVars, jobVars>> => ProofsQuiet
  BY <1>1, <1>7 DEF ProofsQuiet, chainVars, jobVars, Unrewritten
<1>11. ASSUME UNCHANGED <<chainVars, jobVars>>, NEW pc, MovedOn(r, pc),
              pc \notin {"mark", "still", "stale", "proofState"}
       PROVE  ProofsOK'
  BY <1>2, <1>10, <1>11, QuietProofsMoved DEF MovedOn
<1>12. CASE ReadProofRow(r)
  <2>1. UNCHANGED <<chainVars, jobVars>> /\ ProofsQuiet
    BY <1>10, <1>12 DEF ReadProofRow
  <2>2. CASE proofs[j][run[r].circuit] = "VERIFIED_ONCHAIN" /\ Goto(r, "still")
    <3>1. MovedOn(r, "still")
      BY <1>1, <1>2, <2>2, GotoMoves DEF Positions
    <3>2. proofs' = proofs
      BY <2>1 DEF jobVars
    <3>3. KnowsProofs(r)'
      BY <1>5, <1>6, <1>7, <1>8, <2>2, <3>1, <3>2 DEF MovedOn, OnChain, Unrewritten
    <3>. QED BY <2>1, <3>1, <3>3, QuietProofsKept DEF MovedOn, Moved
  <2>3. CASE Goto(r, "verifier")
    BY <1>1, <1>2, <1>11, <2>1, <2>3, GotoMoves DEF Positions
  <2>4. CASE Stop(r)
    BY <1>9, <2>1, <2>4, QuietProofsStopped
  <2>. QED BY <1>4, <1>12, <2>2, <2>3, <2>4 DEF ReadProofRow, Job
<1>13. ASSUME NextCircuit(r), Verified(proofs'[j]["DECRYPTION"]),
              Unrewritten' => proofs'[j][run[r].circuit] = "VERIFIED_ONCHAIN",
              Unrewritten' /\ run[r].circuit = "DECRYPTION" =>
                proofs'[j]["TALLY"] = "VERIFIED_ONCHAIN"
       PROVE  Elsewhere(r) /\ KnowsProofs(r)'
  <2>1. CASE run[r].circuit = "TALLY" /\ Moved(r, "row") /\ run'[r].circuit = "DECRYPTION"
    <3>1. KnowsProofs(r)'
      BY <1>8, <1>13, <2>1
    <3>. QED BY <2>1, <3>1 DEF Moved
  <2>2. CASE MovedOn(r, "gateState")
    <3>1. KnowsProofs(r)'
      BY <1>8, <1>13, <2>2 DEF MovedOn
    <3>. QED BY <2>2, <3>1 DEF MovedOn, Moved
  <2>. QED BY <1>1, <1>2, <1>13, <2>1, <2>2, NextCircuitMoves
<1>14. CASE StillVerified(r)
  <2>1. UNCHANGED <<chainVars, jobVars>> /\ ProofsQuiet /\ run[r].pc = "still"
    BY <1>10, <1>14 DEF StillVerified, At
  <2>2. proofs' = proofs /\ verified' = verified
    BY <2>1 DEF jobVars, chainVars
  <2>3. CASE NextCircuit(r)
    BY <1>5, <1>6, <1>7, <1>13, <2>1, <2>2, <2>3, QuietProofsKept
       DEF OnChain, Unrewritten
  <2>4. CASE run[r].circuit \notin verified /\ Goto(r, "stale")
    <3>1. MovedOn(r, "stale")
      BY <1>1, <1>2, <2>4, GotoMoves DEF Positions
    <3>2. ~Unrewritten
      BY <1>3, <1>5, <1>6, <2>1, <2>4 DEF RowsOK
    <3>3. KnowsProofs(r)'
      BY <1>5, <1>7, <1>8, <2>2, <3>1, <3>2 DEF MovedOn, Unrewritten
    <3>. QED BY <2>1, <3>1, <3>3, QuietProofsKept DEF MovedOn, Moved
  <2>. QED BY <1>14, <2>3, <2>4 DEF StillVerified
<1>15. CASE ResetStaleProof(r)
  <2>1. /\ SetProof(j, run[r].circuit, "VERIFIED_OFFCHAIN") /\ Stopped(r)
        /\ verified' = verified /\ tallyJobs' = tallyJobs /\ run[r].pc = "stale"
    BY <1>4, <1>9, <1>15 DEF ResetStaleProof, Job, chainVars, At
  <2>2. ~Unrewritten'
    BY <1>6, <1>7, <2>1 DEF Unrewritten
  <2>3. /\ proofs'[j][run[r].circuit] = "VERIFIED_OFFCHAIN"
        /\ \A k \in Jobs, d \in Circuits :
             k # j \/ d # run[r].circuit => proofs'[k][d] = proofs[k][d]
    BY <1>1, <1>3, <2>1, SetProofSets
  <2>4. \A k \in Jobs : /\ Verified(proofs'[k]["DECRYPTION"]) <=>
                             Verified(proofs[k]["DECRYPTION"])
                        /\ proofs[k]["TALLY"] # "none" => proofs'[k]["TALLY"] # "none"
    BY <1>3, <1>5, <2>3 DEF Circuits, Verified
  <2>5. \A k \in Jobs : RowsOK(k)'
    BY <1>7, <2>2, <2>4 DEF ProofsOK, RowsOK
  <2>6. ProofsStay(r)
    BY <1>1, <2>1, <2>2, <2>4 DEF ProofsStay
  <2>. QED BY <2>1, <2>5, <2>6, ProofsKept DEF Stopped
<1>16. CASE CallVerifier(r)
  <2>1. ProofsQuiet
    BY <1>1, <1>3, <1>7, <1>16 DEF CallVerifier, ProofsQuiet, jobVars, Unrewritten
  <2>2. MovedOn(r, "flag") \/ Stopped(r)
    BY <1>1, <1>16, RunMoves
  <2>. QED BY <1>2, <2>1, <2>2, QuietProofsMoved, QuietProofsStopped DEF MovedOn
<1>17. CASE ReadFlag(r)
  <2>1. UNCHANGED <<chainVars, jobVars>> /\ ProofsQuiet
    BY <1>10, <1>17 DEF ReadFlag
  <2>2. CASE run[r].circuit \in verified /\ Goto(r, "mark")
    <3>1. MovedOn(r, "mark")
      BY <1>1, <1>2, <2>2, GotoMoves DEF Positions
    <3>2. proofs' = proofs /\ verified' = verified
      BY <2>1 DEF jobVars, chainVars
    <3>3. KnowsProofs(r)'
      BY <1>5, <1>6, <1>7, <1>8, <2>2, <3>1, <3>2 DEF MovedOn, OnChain, Unrewritten
    <3>. QED BY <2>1, <3>1, <3>3, QuietProofsKept DEF MovedOn, Moved
  <2>3. CASE Stop(r)
    BY <1>9, <2>1, <2>3, QuietProofsStopped
  <2>. QED BY <1>17, <2>2, <2>3 DEF ReadFlag
<1>18. CASE MarkVerifiedOnchain(r)
  <2>1. /\ SetProof(j, run[r].circuit, "VERIFIED_ONCHAIN") /\ NextCircuit(r)
        /\ verified' = verified /\ tallyJobs' = tallyJobs /\ run[r].pc = "mark"
    BY <1>4, <1>18 DEF MarkVerifiedOnchain, Job, chainVars, At
  <2>2. /\ proofs'[j][run[r].circuit] = "VERIFIED_ONCHAIN"
        /\ \A k \in Jobs, d \in Circuits :
             k # j \/ d # run[r].circuit => proofs'[k][d] = proofs[k][d]
    BY <1>1, <1>3, <2>1, SetProofSets
  <2>3. \A k \in Jobs : /\ Verified(proofs'[k]["DECRYPTION"]) <=>
                             Verified(proofs[k]["DECRYPTION"])
                        /\ proofs[k]["TALLY"] # "none" => proofs'[k]["TALLY"] # "none"
                        /\ \A c \in Circuits : OnChain(k, c) => OnChain(k, c)'
    BY <1>3, <1>5, <2>2 DEF Circuits, Verified, OnChain
  <2>4. ASSUME NEW k \in Jobs
        PROVE  RowsOK(k)'
    <3>1. RowsOK(k)
      BY DEF ProofsOK
    <3>2. ASSUME Unrewritten', k = j
          PROVE  /\ \A c \in Circuits : OnChain(k, c)' => c \in verified'
                 /\ OnChain(k, "DECRYPTION")' => OnChain(k, "TALLY")'
      <4>1. Unrewritten /\ run[r].circuit \in verified
        BY <1>6, <1>7, <2>1, <3>2 DEF Unrewritten
      <4>2. \A c \in Circuits : OnChain(k, c)' => c = run[r].circuit \/ OnChain(k, c)
        BY <2>2, <3>2 DEF OnChain
      <4>3. \A c \in Circuits : OnChain(k, c)' => c \in verified'
        BY <2>1, <3>1, <4>1, <4>2 DEF RowsOK
      <4>4. OnChain(k, "DECRYPTION")' => OnChain(k, "TALLY")'
        BY <1>3, <1>6, <2>3, <3>1, <3>2, <4>1, <4>2 DEF RowsOK, Circuits
      <4>. QED BY <4>3, <4>4
    <3>3. ASSUME Unrewritten', k # j
          PROVE  /\ \A c \in Circuits : OnChain(k, c)' => c \in verified'
                 /\ OnChain(k, "DECRYPTION")' => OnChain(k, "TALLY")'
      <4>1. \A c \in Circuits : OnChain(k, c)' => OnChain(k, c)
        BY <2>2, <3>3 DEF OnChain
      <4>. QED BY <1>7, <2>1, <2>3, <3>1, <3>3, <4>1 DEF RowsOK, Circuits, Unrewritten
    <3>4. Unrewritten' /\ tallyJobs'[k].proofState = "VERIFIED" => verified' = Circuits
      BY <1>7, <2>1, <3>1 DEF RowsOK, Unrewritten
    <3>. QED BY <1>7, <2>3, <3>1, <3>2, <3>3, <3>4 DEF RowsOK
  <2>5. ProofsStay(r)
    BY <1>1, <1>7, <2>1, <2>3 DEF ProofsStay, Unrewritten
  <2>6. Verified(proofs'[j]["DECRYPTION"])
    BY <1>5, <2>3
  <2>7. Unrewritten' /\ run[r].circuit = "DECRYPTION" =>
          proofs'[j]["TALLY"] = "VERIFIED_ONCHAIN"
    BY <1>6, <1>7, <2>3 DEF Unrewritten, OnChain, Circuits
  <2>8. Elsewhere(r) /\ KnowsProofs(r)'
    BY <1>13, <2>1, <2>2, <2>6, <2>7
  <2>. QED BY <2>4, <2>5, <2>8, ProofsKept
<1>19. CASE LoadGateState(r)
  <2>1. UNCHANGED <<chainVars, jobVars>> /\ ProofsQuiet
    BY <1>10, <1>19 DEF LoadGateState
  <2>2. Moved(r, "proofState") /\ run'[r].proofState = GateProofState(Job(r))
    BY <1>1, <1>19, GateStateMoves
  <2>3. run'[r].circuit = run[r].circuit
    BY <1>1, <1>2, <1>19 DEF LoadGateState, RunsTyped, UnderWay
  <2>4. run'[r].proofState = "VERIFIED" => verified = Circuits
    BY <2>2 DEF GateProofState, GateReady
  <2>5. proofs' = proofs /\ verified' = verified
    BY <2>1 DEF jobVars, chainVars
  <2>6. KnowsProofs(r)'
    BY <1>5, <1>6, <1>7, <1>8, <2>2, <2>3, <2>4, <2>5 DEF OnChain, Unrewritten
  <2>. QED BY <2>1, <2>2, <2>6, QuietProofsKept DEF Moved
<1>20. CASE UpdateProofState(r)
  <2>1. /\ tallyJobs' = [tallyJobs EXCEPT ![j].proofState = run[r].proofState]
        /\ Stopped(r) /\ proofs' = proofs /\ verified' = verified
        /\ run[r].pc = "proofState"
    BY <1>4, <1>9, <1>20 DEF UpdateProofState, Job, chainVars, At
  <2>2. /\ tallyJobs'[j].proofState = run[r].proofState
        /\ \A k \in Jobs : k # j => tallyJobs'[k] = tallyJobs[k]
    BY <1>1, <2>1 DEF JobsTyped, TallyJob
  <2>3. ASSUME NEW k \in Jobs
        PROVE  RowsOK(k)'
    <3>1. RowsOK(k)
      BY DEF ProofsOK
    <3>2. Unrewritten' /\ tallyJobs'[k].proofState = "VERIFIED" => verified' = Circuits
      BY <1>6, <1>7, <2>1, <2>2, <3>1 DEF RowsOK, Unrewritten
    <3>. QED BY <1>7, <2>1, <3>1, <3>2 DEF RowsOK, OnChain, Unrewritten
  <2>4. ProofsStay(r)
    BY <1>1, <1>7, <2>1 DEF ProofsStay, OnChain, Unrewritten
  <2>. QED BY <2>1, <2>3, <2>4, ProofsKept DEF Stopped
<1>. QED BY <1>12, <1>14, <1>15, <1>16, <1>17, <1>18, <1>19, <1>20 DEF SubmitStep

(* A processing that begins counts a job that no proof is of.              *)
LEMMA ProcessBallotsProofs ==
  ASSUME PublicationTypeOK, ProcessingOK, ProofsOK, NEW r \in Runs, ProcessBallots(r)
  PROVE  ProofsOK'
<1>1. RunsTyped /\ BoundsTyped /\ JobsTyped /\ verified \subseteq Circuits
  BY TypeParts DEF ChainTyped
<1>2. Begun(r, "process", "job", started + 1)
  BY <1>1, Beginnings
<1>3. /\ proofs' = proofs /\ tallyJobs' = tallyJobs /\ committed' = committed
      /\ verified' = verified /\ rewrites' = rewrites
      /\ \A j \in Jobs : j # started + 1 => transcript'[j] = transcript[j]
  BY <1>1 DEF ProcessBallots, chainVars, JobsTyped
<1>4. ASSUME NEW j \in Jobs
      PROVE  RowsOK(j)'
  <2>1. RowsOK(j) /\ (j \in committed => j # started + 1)
    BY <1>1 DEF ProofsOK, ProcessingOK, BoundsTyped
  <2>. QED BY <1>3, <2>1 DEF RowsOK, OnChain, Unrewritten
<1>5. ProofsStay(r)
  BY <1>1, <1>3 DEF ProofsStay, OnChain, Unrewritten
<1>6. KnowsProofs(r)'
  BY <1>2 DEF KnowsProofs, Begun
<1>. QED BY <1>2, <1>4, <1>5, <1>6, ProofsKept DEF Begun

(* A submission or a publication begins behind what its button asks for.   *)
LEMMA BeginBoardProofs ==
  ASSUME PublicationTypeOK, ProofsOK, NEW r \in Runs,
         BeginSubmission(r) \/ BeginPublication(r)
  PROVE  ProofsOK'
<1>1. RunsTyped /\ verified \subseteq Circuits
  BY TypeParts DEF ChainTyped
<1>2. /\ proofs' = proofs /\ verified' = verified /\ rewrites' = rewrites
      /\ transcript' = transcript /\ tallyJobs' = tallyJobs /\ committed' = committed
  BY DEF BeginSubmission, BeginPublication, chainVars, jobVars, boundVars
<1>3. ProofsQuiet
  BY <1>1, <1>2 DEF ProofsQuiet, Unrewritten
<1>4. CASE BeginSubmission(r)
  <2>1. PICK j \in Pages : Verified(proofs[j]["DECRYPTION"]) /\ Start(r, "submit", "row", j)
    BY <1>4 DEF BeginSubmission, Verified
  <2>2. Begun(r, "submit", "row", j)
    BY <1>1, <2>1, StartBegins DEF Pages, Positions
  <2>3. KnowsProofs(r)'
    BY <1>2, <2>1, <2>2 DEF KnowsProofs, Begun
  <2>. QED BY <1>3, <2>2, <2>3, QuietProofsKept DEF Begun
<1>5. CASE BeginPublication(r)
  <2>1. PICK j \in Pages : \E pc \in {"audit", "gate"} :
          GateReady(j) /\ Begun(r, "publish", pc, j)
    BY <1>1, <1>5, TypeParts, Beginnings
  <2>2. KnowsProofs(r)'
    BY <1>2, <2>1 DEF KnowsProofs, Begun, GateReady
  <2>. QED BY <1>3, <2>1, <2>2, QuietProofsKept DEF Begun
<1>. QED BY <1>4, <1>5

(* Every step keeps what is known of the proofs.                           *)
LEMMA ProofsStep ==
  ASSUME PublicationTypeOK, RunsInPlace, ProcessingOK, ProofsOK, [Next]_vars
  PROVE  ProofsOK'
<1>1. RunsTyped /\ BoundsTyped /\ JobsTyped /\ phase \in VOTING_OPEN .. AUDIT_WINDOW
      /\ verified \subseteq Circuits
  BY TypeParts DEF ChainTyped
<1>2. \A r \in Runs : ProofsQuiet /\ Stopped(r) => ProofsOK'
  BY QuietProofsStopped
<1>3. \A r \in Runs : \A pc \in Positions :
        ProofsQuiet /\ run[r] # Idle /\ run[r].op # "submit" /\ Moved(r, pc) => ProofsOK'
  BY QuietProofsMoved
<1>4. ASSUME proofs' = proofs, transcript' = transcript, committed \subseteq committed',
             tallyJobs' = tallyJobs, rewrites' = rewrites, verified' = verified
      PROVE  ProofsQuiet
  BY <1>1, <1>4 DEF ProofsQuiet, Unrewritten
<1>5. ASSUME NEW r \in Runs, ProcessStep(r)
      PROVE  ProofsOK'
  <2>1. run[r] # Idle /\ run[r].pc \in ProcessPositions
    BY <1>1, <1>5, Standing
       DEF ProcessStep, CreateTallyJob, ReadPhase, MovePhase, CommitTranscript,
           UpdateTallyJobStatus, UpdateTallyJobFails, At, ProcessPositions, Positions
  <2>2. run[r].op = "process" /\ Job(r) \in Jobs
    BY <1>1, <2>1, KindOfRun DEF Job
  <2>3. /\ proofs' = proofs /\ transcript' = transcript /\ committed \subseteq committed'
        /\ rewrites' = rewrites /\ verified' = verified
    BY <1>5 DEF ProcessStep, CreateTallyJob, ReadPhase, MovePhase, CommitTranscript,
       UpdateTallyJobStatus, UpdateTallyJobFails, chainVars, jobVars, boundVars
  <2>4. \A j \in Jobs : tallyJobs'[j].proofState # tallyJobs[j].proofState =>
          tallyJobs'[j].proofState # "VERIFIED"
    <3>1. CASE CreateTallyJob(r)
      BY <1>1, <3>1 DEF CreateTallyJob, JobsTyped, TallyJob
    <3>2. CASE UpdateTallyJobStatus(r)
      BY <1>1, <2>2, <3>2 DEF UpdateTallyJobStatus, JobsTyped, TallyJob
    <3>3. CASE ~(CreateTallyJob(r) \/ UpdateTallyJobStatus(r))
      BY <1>5, <3>3 DEF ProcessStep, ReadPhase, MovePhase, CommitTranscript,
         UpdateTallyJobFails, jobVars
    <3>. QED BY <3>1, <3>2, <3>3
  <2>5. ProofsQuiet
    BY <1>1, <2>3, <2>4 DEF ProofsQuiet, Unrewritten
  <2>. QED BY <1>1, <1>2, <1>3, <1>5, <2>1, <2>2, <2>5, PhaseMoves, RunMoves
           DEF ProcessStep, MovedOn, Positions
<1>6. ASSUME NEW r \in Runs, ActaStep(r) \/ PublishStep(r)
      PROVE  ProofsOK'
  <2>1. run[r] # Idle /\ run[r].pc \in ActaPositions \cup PublishPositions
    BY <1>1, <1>6, Standing
       DEF ActaStep, AnchorActa, PersistActaContent, PublishStep, PassGate,
           PassPayloadGate, FindPayload, InsertPayload, AdvanceToResults,
           PublishResults, ReadAuditPhase, OpenAuditWindow, InsertAuditWindow, At,
           ActaPositions, PublishPositions, Positions
  <2>2. run[r].op # "submit"
    BY <1>1, <2>1, KindOfRun
  <2>3. ProofsQuiet
    BY <1>4, <1>6
       DEF ActaStep, AnchorActa, PersistActaContent, PublishStep, PassGate,
           PassPayloadGate, FindPayload, InsertPayload, AdvanceToResults,
           PublishResults, ReadAuditPhase, OpenAuditWindow, InsertAuditWindow,
           chainVars, jobVars, boundVars
  <2>. QED BY <1>1, <1>2, <1>3, <1>6, <2>1, <2>2, <2>3, RunMoves
           DEF ActaStep, PublishStep, MovedOn, Positions
<1>7. ASSUME NEW r \in Runs, CutShort(r)
      PROVE  ProofsOK'
  <2>1. ProofsQuiet
    BY <1>4, <1>7 DEF CutShort, chainVars, jobVars
  <2>. QED BY <1>1, <1>2, <1>7, <2>1, RunMoves
<1>8. CASE ConsoleTransition \/ UNCHANGED vars
  <2>1. UNCHANGED <<proofs, transcript, committed, tallyJobs, rewrites, verified, run>>
    BY <1>8 DEF ConsoleTransition, vars, chainVars, jobVars, boundVars
  <2>. QED BY <2>1 DEF ProofsOK, KnowsProofs, RowsOK, OnChain, Unrewritten
<1>9. CASE RewriteChain
  <2>1. UNCHANGED <<proofs, transcript, committed, tallyJobs, run>> /\ ~Unrewritten'
    BY <1>1, <1>9 DEF RewriteChain, jobVars, BoundsTyped, Unrewritten
  <2>. QED BY <2>1 DEF ProofsOK, KnowsProofs, RowsOK, OnChain
<1>. QED BY <1>5, <1>6, <1>7, <1>8, <1>9, ProcessBallotsProofs, BeginProvingProofs,
         BeginBoardProofs, ProveStepProofs, SubmitStepProofs DEF Next, Begin

-----------------------------------------------------------------------------
(* The tables                                                              *)

TablesInv == PublicationTypeOK /\ RunsInPlace /\ ProcessingOK /\ ProofsOK

(* What is known holds when nothing has happened.                          *)
LEMMA TablesInit == Init => TablesInv
<1>. SUFFICES ASSUME Init PROVE TablesInv
  OBVIOUS
<1>1. RunsInPlace
  BY DEF Init, RunsInPlace
<1>2. ProcessingOK
  BY DEF Init, ProcessingOK, NoTallyJob
<1>3. ProofsOK
  BY DEF Init, ProofsOK, RowsOK, OnChain, Verified, NoTallyJob, Circuits
<1>. QED BY <1>1, <1>2, <1>3, TypeInit DEF TablesInv

(* And is kept by every step.                                              *)
LEMMA TablesStep == TablesInv /\ [Next]_vars => TablesInv'
  BY TypeStep, PlaceStep, ProcessingStep, ProofsStep DEF TablesInv

(* The rows of the proofs and of the jobs never say more than happened,    *)
(* wherever a run stops and whatever runs with it.                         *)
THEOREM RowsAreTruthful == Spec => []RowsTruthful
<1>1. TablesInv => RowsTruthful
  <2>. SUFFICES ASSUME TablesInv, NEW j \in Jobs
       PROVE  /\ rewrites = 0 =>
                   /\ \A c \in Circuits :
                        proofs[j][c] = "VERIFIED_ONCHAIN" => c \in verified
                   /\ proofs[j]["DECRYPTION"] = "VERIFIED_ONCHAIN" =>
                        proofs[j]["TALLY"] = "VERIFIED_ONCHAIN"
                   /\ tallyJobs[j].proofState = "VERIFIED" => verified = Circuits
              /\ proofs[j]["DECRYPTION"] \in {"VERIFIED_OFFCHAIN", "VERIFIED_ONCHAIN"} =>
                   transcript[j] = "right"
              /\ tallyJobs[j].status = "COMPLETED" => j \in committed
    BY DEF RowsTruthful
  <2>. QED BY DEF TablesInv, ProcessingOK, ProofsOK, RowsOK, OnChain, Unrewritten,
              Verified
<1>. QED BY <1>1, TablesInit, TablesStep, PTL DEF Spec

-----------------------------------------------------------------------------
(* Evidence                                                                *)

(* What no step undoes.                                                    *)
WorldStays ==
  /\ Unrewritten' => Unrewritten /\ verified \subseteq verified'
  /\ verified' \subseteq Circuits
  /\ faults' = 0 => faults = 0
  /\ \A j \in Jobs :
       /\ Processed(j) => Processed(j)'
       /\ proofs[j]["TALLY"] # "none" => proofs'[j]["TALLY"] # "none"

(* A job that is processed stays so: only its own processing, not yet past *)
(* the commitment, resets its status.                                      *)
LEMMA ProcessedStays ==
  ASSUME TablesInv, [Next]_vars, NEW j \in Jobs, Processed(j)
  PROVE  Processed(j)'
<1>1. RunsTyped /\ JobsTyped /\ BoundsTyped
  BY TypeParts DEF TablesInv
<1>2. CASE \E r \in Runs : CreateTallyJob(r)
  <2>1. PICK r \in Runs : CreateTallyJob(r)
    BY <1>2
  <2>2. run[r] # Idle /\ run[r].pc = "job"
    BY <1>1, <2>1, Standing DEF CreateTallyJob, At, Positions
  <2>3. run[r].op = "process"
    BY <1>1, <2>2, KindOfRun DEF TablesInv, ProcessPositions
  <2>4. run[r].job # j
    BY <2>2, <2>3 DEF TablesInv, ProcessingOK, KnowsProcessed, Processed
  <2>5. tallyJobs'[j] = tallyJobs[j] /\ committed' = committed /\ faults' = faults
    BY <1>1, <2>1, <2>4 DEF CreateTallyJob, JobsTyped, Job, chainVars, boundVars
  <2>. QED BY <2>5 DEF Processed
<1>3. CASE \E r \in Runs : UpdateTallyJobStatus(r) \/ UpdateProofState(r)
  <2>1. PICK r \in Runs : UpdateTallyJobStatus(r) \/ UpdateProofState(r)
    BY <1>3
  <2>2. tallyJobs[j].status = "COMPLETED" => tallyJobs'[j].status = "COMPLETED"
    BY <1>1, <2>1 DEF UpdateTallyJobStatus, UpdateProofState, JobsTyped, TallyJob
  <2>3. committed' = committed /\ faults' = faults
    BY <2>1 DEF UpdateTallyJobStatus, UpdateProofState, chainVars, boundVars
  <2>. QED BY <2>2, <2>3 DEF Processed
<1>4. CASE ~\E r \in Runs :
             CreateTallyJob(r) \/ UpdateTallyJobStatus(r) \/ UpdateProofState(r)
  <2>1. /\ tallyJobs' = tallyJobs /\ committed \subseteq committed'
        /\ faults' = faults \/ faults' = faults + 1
    BY ZenonT(40), <1>4
       DEF Next, Begin, ProcessBallots, BeginProving, BeginSubmission, BeginPublication,
           ProcessStep, ReadPhase, MovePhase, CommitTranscript, UpdateTallyJobFails,
           ActaStep, AnchorActa, PersistActaContent,
           ProveStep, ProveTally, VerifyTallyOffchain, ResolveKey, ProveDecryption,
           FailureUnrecorded,
           SubmitStep, ReadProofRow, StillVerified, ResetStaleProof, CallVerifier,
           ReadFlag, MarkVerifiedOnchain, LoadGateState,
           PublishStep, PassGate, PassPayloadGate, FindPayload, InsertPayload,
           AdvanceToResults, PublishResults, ReadAuditPhase, OpenAuditWindow,
           InsertAuditWindow, CutShort, ConsoleTransition, RewriteChain,
           vars, chainVars, jobVars, boundVars
  <2>. QED BY <1>1, <2>1 DEF Processed, BoundsTyped
<1>. QED BY <1>2, <1>3, <1>4

(* A row of a tally, once there, stays.                                    *)
LEMMA TallyRowStays ==
  ASSUME TablesInv, [Next]_vars, NEW j \in Jobs, proofs[j]["TALLY"] # "none"
  PROVE  proofs'[j]["TALLY"] # "none"
<1>1. RunsTyped /\ JobsTyped
  BY TypeParts DEF TablesInv
<1>2. \A k, c, status :
        SetProof(k, c, status) /\ status # "none" => proofs'[j]["TALLY"] # "none"
  BY <1>1 DEF SetProof, JobsTyped, Circuits
<1>3. ASSUME NEW r \in Runs, BeginProving(r) \/ ResetStaleProof(r) \/ MarkVerifiedOnchain(r)
      PROVE  proofs'[j]["TALLY"] # "none"
  BY <1>2, <1>3 DEF BeginProving, ResetStaleProof, MarkVerifiedOnchain
<1>4. ASSUME NEW r \in Runs, ProveStep(r)
      PROVE  proofs'[j]["TALLY"] # "none"
  BY <1>2, <1>4
     DEF ProveStep, ProveTally, VerifyTallyOffchain, ResolveKey, ProveDecryption,
         FailureUnrecorded, ProofFails
<1>5. ASSUME ~\E r \in Runs : \/ BeginProving(r) \/ ResetStaleProof(r)
                              \/ MarkVerifiedOnchain(r) \/ ProveStep(r)
      PROVE  proofs' = proofs
  BY <1>5
     DEF Next, Begin, ProcessBallots, BeginSubmission, BeginPublication,
         ProcessStep, CreateTallyJob, ReadPhase, MovePhase, CommitTranscript,
         UpdateTallyJobStatus, UpdateTallyJobFails, ActaStep, AnchorActa,
         PersistActaContent,
         SubmitStep, ReadProofRow, StillVerified, CallVerifier,
         ReadFlag, LoadGateState, UpdateProofState,
         PublishStep, PassGate, PassPayloadGate, FindPayload, InsertPayload,
         AdvanceToResults, PublishResults, ReadAuditPhase, OpenAuditWindow,
         InsertAuditWindow, CutShort, ConsoleTransition, RewriteChain, vars, jobVars
<1>. QED BY <1>3, <1>4, <1>5

(* Nothing is undone, but by a rewrite of the chain.                       *)
LEMMA NothingUndone ==
  ASSUME TablesInv, [Next]_vars
  PROVE  WorldStays
<1>1. BoundsTyped /\ BoundsTyped' /\ verified' \subseteq Circuits
  BY TypeParts, TypeStep DEF TablesInv, ChainTyped
<1>2. CASE RewriteChain
  BY <1>1, <1>2, ProcessedStays, TallyRowStays
     DEF RewriteChain, WorldStays, BoundsTyped, Unrewritten
<1>3. CASE ~RewriteChain
  <2>1. /\ rewrites' = rewrites /\ verified \subseteq verified'
        /\ faults' = faults \/ faults' = faults + 1
    BY ZenonT(40), <1>3
       DEF Next, Begin, ProcessBallots, BeginProving, BeginSubmission, BeginPublication,
           ProcessStep, CreateTallyJob, ReadPhase, MovePhase, CommitTranscript,
           UpdateTallyJobStatus, UpdateTallyJobFails, ActaStep, AnchorActa,
           PersistActaContent,
           ProveStep, ProveTally, VerifyTallyOffchain, ResolveKey, ProveDecryption,
           FailureUnrecorded,
           SubmitStep, ReadProofRow, StillVerified, ResetStaleProof, CallVerifier,
           ReadFlag, MarkVerifiedOnchain, LoadGateState, UpdateProofState,
           PublishStep, PassGate, PassPayloadGate, FindPayload, InsertPayload,
           AdvanceToResults, PublishResults, ReadAuditPhase, OpenAuditWindow,
           InsertAuditWindow, CutShort, ConsoleTransition, vars, chainVars, boundVars
  <2>. QED BY <1>1, <2>1, ProcessedStays, TallyRowStays
           DEF WorldStays, Unrewritten, BoundsTyped
<1>. QED BY <1>2, <1>3

(* What backs a payload of a job.                                          *)
Backed(j) ==
  /\ Processed(j) /\ proofs[j]["TALLY"] # "none"
  /\ Unrewritten => verified = Circuits
AtMostOneEach ==
  payloads # <<>> => Len(payloads) + Cardinality(Inserting) <= Cardinality(Runs)

(* Backing is not undone.                                                  *)
LEMMA BackedStays ==
  ASSUME WorldStays, NEW j \in Jobs, Backed(j), verified \subseteq Circuits
  PROVE  Backed(j)'
  BY DEF WorldStays, Backed

(* What a step of one run must leave for EvidenceOK to be kept.            *)
LEMMA EvidenceKept ==
  ASSUME TablesInv, TablesInv', WorldStays, EvidenceOK, NEW r \in Runs, Elsewhere(r),
         anchored \subseteq anchored', contents \subseteq contents',
         payloads # <<>> => payloads' # <<>>,
         \A i \in DOMAIN payloads' :
           Backed(payloads'[i]) \/ (i \in DOMAIN payloads /\ payloads'[i] = payloads[i]),
         run'[r] # Idle => KnowsEvidence(r)', AtMostOneEach', PublicationLeavesEvidence'
  PROVE  EvidenceOK'
<1>1. /\ RunsTyped /\ verified \subseteq Circuits /\ payloads \in Seq(Jobs)
      /\ payloads' \in Seq(Jobs)
  BY TypeParts DEF TablesInv, ChainTyped, EvidenceTyped
<1>2. ASSUME NEW i \in DOMAIN payloads'
      PROVE  Backed(payloads[i])'
  <2>1. PICK j \in Jobs : j = payloads'[i]
    BY <1>1
  <2>2. i \in DOMAIN payloads => Backed(payloads[i])
    BY DEF EvidenceOK, Backed
  <2>3. Backed(j)
    BY <2>1, <2>2
  <2>4. Backed(j)'
    BY <1>1, <2>3, BackedStays
  <2>. QED BY <2>1, <2>4 DEF Backed, Processed
<1>3. ASSUME NEW other \in Runs, other # r, run'[other] # Idle
      PROVE  KnowsEvidence(other)'
  <2>1. run'[other] = run[other] /\ KnowsEvidence(other)
    BY <1>3 DEF Elsewhere, EvidenceOK
  <2>2. run'[other].pc = "content" => ActaOf(other)' \in anchored'
    BY <2>1 DEF KnowsEvidence, ActaOf, Job
  <2>. QED BY <2>1, <2>2 DEF KnowsEvidence
<1>. QED BY <1>2, <1>3 DEF EvidenceOK, Backed, AtMostOneEach

(* The number of runs about to insert does not grow unless one comes to.   *)
LEMMA InsertingStays ==
  ASSUME RunsTyped, NEW r \in Runs, Elsewhere(r), run'[r].pc # "insert"
  PROVE  /\ IsFiniteSet(Inserting) /\ IsFiniteSet(Inserting')
         /\ Cardinality(Inserting') \in Nat /\ Cardinality(Inserting) \in Nat
         /\ Cardinality(Runs) \in Nat
         /\ Cardinality(Inserting') <= Cardinality(Inserting)
         /\ At(r, "insert") =>
              Cardinality(Inserting') + 1 <= Cardinality(Inserting)
         /\ Cardinality(Inserting') + 1 <= Cardinality(Runs)
<1>1. Inserting' \subseteq Inserting \ {r} /\ Inserting \subseteq Runs
  BY DEF Inserting, Elsewhere
<1>2. /\ IsFiniteSet(Inserting) /\ IsFiniteSet(Inserting') /\ IsFiniteSet(Inserting \ {r})
      /\ IsFiniteSet(Runs \ {r})
  BY <1>1, FiniteRunsAssumption, FS_Subset
<1>3. /\ Cardinality(Inserting') \in Nat /\ Cardinality(Inserting) \in Nat
      /\ Cardinality(Runs) \in Nat
  BY <1>2, FiniteRunsAssumption, FS_CardinalityType
<1>4. Cardinality(Inserting') <= Cardinality(Inserting)
  BY <1>1, <1>2, FS_Subset
<1>5. Cardinality(Inserting') <= Cardinality(Runs \ {r})
  BY <1>1, <1>2, FS_Subset
<1>6. Cardinality(Runs \ {r}) = Cardinality(Runs) - 1
  BY FiniteRunsAssumption, FS_RemoveElement
<1>7. ASSUME At(r, "insert")
      PROVE  Cardinality(Inserting') + 1 <= Cardinality(Inserting)
  <2>1. r \in Inserting
    BY <1>7 DEF At, Inserting
  <2>2. Cardinality(Inserting \ {r}) = Cardinality(Inserting) - 1
    BY <1>2, <2>1, FS_RemoveElement
  <2>3. Cardinality(Inserting') <= Cardinality(Inserting \ {r})
    BY <1>1, <1>2, FS_Subset
  <2>. QED BY <1>3, <2>2, <2>3
<1>. QED BY <1>2, <1>3, <1>4, <1>5, <1>6, <1>7

(* A step that inserts no payload and is not about to.                     *)
LEMMA CountKept ==
  ASSUME TablesInv, EvidenceOK, NEW r \in Runs, Elsewhere(r), run'[r].pc # "insert",
         payloads' = payloads
  PROVE  AtMostOneEach'
<1>1. RunsTyped /\ payloads \in Seq(Jobs)
  BY TypeParts DEF TablesInv, EvidenceTyped
<1>2. Len(payloads) \in Nat
  BY <1>1
<1>3. Cardinality(Inserting) \in Nat /\ Cardinality(Inserting') \in Nat
      /\ Cardinality(Inserting') <= Cardinality(Inserting) /\ Cardinality(Runs) \in Nat
  BY <1>1, InsertingStays
<1>. QED BY <1>2, <1>3 DEF AtMostOneEach, EvidenceOK

(* A step that does not move the phase past the tally, and adds to the     *)
(* evidence if to anything.                                                *)
LEMMA LeavesKept ==
  ASSUME TablesInv, TablesInv', WorldStays, EvidenceOK, NEW r \in Runs, Elsewhere(r),
         contents \subseteq contents', contents' \subseteq anchored',
         payloads # <<>> => payloads' # <<>>, auditWindow => auditWindow',
         byConsole' = byConsole, phase' = phase \/ phase' <= TALLYING,
         verified \subseteq verified', faults' = 0 /\ At(r, "auditRow") => auditWindow'
  PROVE  PublicationLeavesEvidence'
<1>1. /\ phase \in VOTING_OPEN .. AUDIT_WINDOW /\ phase' \in VOTING_OPEN .. AUDIT_WINDOW
      /\ verified' \subseteq Circuits
  BY TypeParts DEF TablesInv, ChainTyped
<1>2. PublicationLeavesEvidence
  BY DEF EvidenceOK
<1>3. phase' >= RESULTS_PUBLISHED => phase' = phase
  BY <1>1 DEF RESULTS_PUBLISHED, TALLYING, VOTING_OPEN, AUDIT_WINDOW
<1>4. phase' >= AUDIT_WINDOW => phase' >= RESULTS_PUBLISHED
  BY <1>1 DEF RESULTS_PUBLISHED, VOTING_OPEN, AUDIT_WINDOW
<1>5. ASSUME NEW other \in Runs, At(other, "auditRow"), faults' = 0
      PROVE  auditWindow' \/ At(other, "auditRow")'
  BY <1>5 DEF At, Elsewhere
<1>6. phase' >= AUDIT_WINDOW /\ ~byConsole' /\ faults' = 0 =>
        auditWindow' \/ \E other \in Runs : At(other, "auditRow")'
  BY <1>2, <1>3, <1>4, <1>5 DEF PublicationLeavesEvidence, WorldStays
<1>7. phase' >= RESULTS_PUBLISHED => verified' = Circuits
  BY <1>1, <1>2, <1>3 DEF PublicationLeavesEvidence
<1>. QED BY <1>2, <1>3, <1>6, <1>7 DEF PublicationLeavesEvidence

(* A step that leaves the evidence as it is and goes nowhere near it.      *)
Plain(r) ==
  /\ Elsewhere(r) /\ anchored' = anchored /\ UNCHANGED evidenceVars
  /\ byConsole' = byConsole
  /\ phase' = phase \/ phase' <= TALLYING
  /\ verified \subseteq verified'
  /\ run'[r].pc \notin {"insert", "content", "advance", "publishResults"}
  /\ run'[r] # Idle /\ run'[r].pc = "acta" => run'[r].op = "process"
  /\ faults' = 0 => ~At(r, "auditRow")

(* Such a step keeps the evidence.                                         *)
LEMMA PlainKept ==
  ASSUME TablesInv, TablesInv', WorldStays, EvidenceOK, NEW r \in Runs, Plain(r)
  PROVE  EvidenceOK'
<1>1. /\ payloads' = payloads /\ contents' = contents /\ auditWindow' = auditWindow
      /\ anchored' = anchored /\ Elsewhere(r)
  BY DEF Plain, evidenceVars
<1>2. run'[r] # Idle => KnowsEvidence(r)'
  BY DEF Plain, KnowsEvidence
<1>3. AtMostOneEach'
  BY <1>1, CountKept DEF Plain
<1>4. PublicationLeavesEvidence'
  BY <1>1, LeavesKept DEF Plain, EvidenceOK, PublicationLeavesEvidence
<1>. QED BY <1>1, <1>2, <1>3, <1>4, EvidenceKept

(* The steps that are plain.                                               *)
LEMMA PlainSteps ==
  ASSUME TablesInv, TablesInv', NEW r \in Runs,
         \/ Begin(r) \/ ProcessStep(r) \/ ProveStep(r) \/ SubmitStep(r) \/ CutShort(r)
         \/ PassGate(r) \/ PassPayloadGate(r) \/ ReadAuditPhase(r)
  PROVE  Plain(r)
<1>1. /\ RunsTyped /\ BoundsTyped /\ RunsInPlace
      /\ phase \in VOTING_OPEN .. AUDIT_WINDOW
  BY TypeParts DEF TablesInv, ChainTyped
<1>2. Stopped(r) => Elsewhere(r) /\ run'[r] = Idle /\ run'[r].pc = "idle"
  BY DEF Stopped, Idle
<1>3. \A pc : Moved(r, pc) => Elsewhere(r) /\ run'[r].pc = pc /\ run'[r].op = run[r].op
  BY DEF Moved
<1>4. CASE Begin(r)
  <2>1. /\ anchored' = anchored /\ UNCHANGED evidenceVars /\ byConsole' = byConsole
        /\ phase' = phase /\ verified' = verified
    BY <1>4 DEF Begin, ProcessBallots, BeginProving, BeginSubmission, BeginPublication,
       chainVars, boundVars
  <2>2. ~At(r, "auditRow")
    BY <1>1, <1>4, Beginnings DEF Begin, Begun, At, Idle
  <2>3. /\ Elsewhere(r)
        /\ run'[r].pc \notin {"insert", "content", "advance", "publishResults", "acta"}
    BY <1>1, <1>4, Beginnings DEF Begin, Begun
  <2>. QED BY <2>1, <2>2, <2>3 DEF Plain
<1>5. CASE ProcessStep(r)
  <2>1. run[r].pc \in ProcessPositions /\ run[r] # Idle
    BY <1>1, <1>5, Standing
       DEF ProcessStep, CreateTallyJob, ReadPhase, MovePhase, CommitTranscript,
           UpdateTallyJobStatus, UpdateTallyJobFails, At, ProcessPositions, Positions
  <2>2. run[r].op = "process"
    BY <1>1, <2>1, KindOfRun
  <2>3. /\ anchored' = anchored /\ UNCHANGED evidenceVars /\ byConsole' = byConsole
        /\ verified' = verified
    BY <1>5 DEF ProcessStep, CreateTallyJob, ReadPhase, MovePhase, CommitTranscript,
       UpdateTallyJobStatus, UpdateTallyJobFails, chainVars, boundVars
  <2>4. phase' = phase \/ phase' <= TALLYING
    <3>1. CASE MovePhase(r)
      <4>1. run[r].seen \in {0} \cup (VOTING_OPEN .. TALLYING - 1)
        BY <1>1, <2>1, Standing DEF UnderWay
      <4>. QED BY <1>1, <3>1, <4>1 DEF MovePhase, VOTING_OPEN, TALLYING, AUDIT_WINDOW
    <3>2. CASE ~MovePhase(r)
      BY <1>5, <3>2 DEF ProcessStep, CreateTallyJob, ReadPhase, CommitTranscript,
         UpdateTallyJobStatus, UpdateTallyJobFails, chainVars
    <3>. QED BY <3>1, <3>2
  <2>5. /\ Elsewhere(r)
        /\ run'[r] = Idle \/ run'[r].op = "process"
        /\ run'[r].pc \notin {"insert", "content", "advance", "publishResults"}
    BY <1>1, <1>2, <1>3, <1>5, <2>2, PhaseMoves, RunMoves DEF ProcessStep, MovedOn
  <2>6. ~At(r, "auditRow")
    BY <2>1 DEF At, ProcessPositions
  <2>. QED BY <2>3, <2>4, <2>5, <2>6 DEF Plain
<1>6. CASE ProveStep(r)
  <2>1. /\ anchored' = anchored /\ UNCHANGED evidenceVars /\ byConsole' = byConsole
        /\ phase' = phase /\ verified' = verified
    BY <1>6 DEF ProveStep, ProveTally, VerifyTallyOffchain, ResolveKey,
       ProveDecryption, FailureUnrecorded, chainVars, boundVars
  <2>2. ~At(r, "auditRow")
    BY <1>6 DEF ProveStep, ProveTally, VerifyTallyOffchain, ResolveKey,
       ProveDecryption, FailureUnrecorded, At
  <2>3. /\ Elsewhere(r)
        /\ run'[r].pc \notin {"insert", "content", "advance", "publishResults", "acta"}
    BY <1>1, <1>2, <1>3, <1>6, RunMoves DEF ProveStep, MovedOn
  <2>. QED BY <2>1, <2>2, <2>3 DEF Plain
<1>7. CASE SubmitStep(r)
  <2>1. run[r] # Idle /\ ~At(r, "auditRow")
    BY <1>1, <1>7, Standing DEF SubmitStep, ReadProofRow, StillVerified,
       ResetStaleProof, CallVerifier, ReadFlag, MarkVerifiedOnchain, LoadGateState,
       UpdateProofState, At, Positions
  <2>2. /\ anchored' = anchored /\ UNCHANGED evidenceVars /\ byConsole' = byConsole
        /\ phase' = phase /\ verified \subseteq verified'
    BY <1>7 DEF SubmitStep, ReadProofRow, StillVerified, ResetStaleProof, CallVerifier,
       ReadFlag, MarkVerifiedOnchain, LoadGateState, UpdateProofState, chainVars,
       boundVars
  <2>3. /\ NextCircuit(r) => Moved(r, "row") \/ Moved(r, "gateState")
        /\ Goto(r, "stale") => Moved(r, "stale")
        /\ LoadGateState(r) => Moved(r, "proofState")
    BY <1>1, <2>1, NextCircuitMoves, GotoMoves, GateStateMoves DEF MovedOn, Positions
  <2>4. /\ Elsewhere(r)
        /\ run'[r].pc \notin {"insert", "content", "advance", "publishResults", "acta"}
    <3>1. StillVerified(r) \/ MarkVerifiedOnchain(r) => NextCircuit(r) \/ Goto(r, "stale")
      BY DEF StillVerified, MarkVerifiedOnchain
    <3>. QED BY <1>1, <1>2, <1>3, <1>7, <2>3, <3>1, RunMoves DEF SubmitStep, MovedOn
  <2>. QED BY <2>1, <2>2, <2>4 DEF Plain
<1>8. CASE CutShort(r)
  <2>1. /\ anchored' = anchored /\ UNCHANGED evidenceVars /\ byConsole' = byConsole
        /\ phase' = phase /\ verified' = verified /\ faults' # 0
    BY <1>1, <1>8 DEF CutShort, chainVars, BoundsTyped
  <2>2. Stopped(r)
    BY <1>1, <1>8, RunMoves
  <2>. QED BY <1>2, <2>1, <2>2 DEF Plain
<1>9. CASE PassGate(r) \/ PassPayloadGate(r) \/ ReadAuditPhase(r)
  <2>1. /\ anchored' = anchored /\ UNCHANGED evidenceVars /\ byConsole' = byConsole
        /\ phase' = phase /\ verified' = verified /\ ~At(r, "auditRow")
    BY <1>9 DEF PassGate, PassPayloadGate, ReadAuditPhase, chainVars, boundVars, At
  <2>2. /\ Elsewhere(r)
        /\ run'[r].pc \notin {"insert", "content", "advance", "publishResults", "acta"}
    BY <1>1, <1>2, <1>3, <1>9, RunMoves DEF MovedOn
  <2>. QED BY <2>1, <2>2 DEF Plain
<1>. QED BY <1>4, <1>5, <1>6, <1>7, <1>8, <1>9

(* An acta is anchored before its content is served, and a publication     *)
(* that serves it goes on with a payload there.                            *)
LEMMA ActaEvidence ==
  ASSUME TablesInv, TablesInv', WorldStays, EvidenceOK, NEW r \in Runs, ActaStep(r)
  PROVE  EvidenceOK'
<1>1. RunsTyped /\ RunsInPlace /\ contents \subseteq anchored
  BY TypeParts DEF TablesInv, EvidenceOK, PublicationLeavesEvidence
<1>2. run[r] # Idle /\ run[r].pc \in ActaPositions /\ ~At(r, "auditRow")
  BY <1>1, Standing DEF ActaStep, AnchorActa, PersistActaContent, At, ActaPositions,
     Positions
<1>3. KnowsEvidence(r) /\ run[r].op \in {"process", "publish"}
  BY <1>1, <1>2, KindOfRun DEF EvidenceOK
<1>4. /\ payloads' = payloads /\ auditWindow' = auditWindow /\ phase' = phase
      /\ verified' = verified /\ byConsole' = byConsole
  BY DEF ActaStep, AnchorActa, PersistActaContent, chainVars, evidenceVars, boundVars
<1>5. CASE AnchorActa(r)
  <2>1. anchored' = anchored \cup {ActaOf(r)} /\ contents' = contents
    BY <1>5 DEF AnchorActa, evidenceVars
  <2>2. Moved(r, "content")
    BY <1>1, <1>5, RunMoves DEF MovedOn
  <2>3. ActaOf(r)' = ActaOf(r)
    BY <2>2 DEF ActaOf, Job, Moved
  <2>4. KnowsEvidence(r)'
    BY <1>2, <1>3, <1>4, <1>5, <2>1, <2>2, <2>3
       DEF KnowsEvidence, Moved, AnchorActa, At
  <2>5. AtMostOneEach' /\ PublicationLeavesEvidence'
    BY <1>1, <1>2, <1>4, <2>1, <2>2, CountKept, LeavesKept DEF Moved
  <2>. QED BY <1>4, <2>1, <2>2, <2>4, <2>5, EvidenceKept DEF Moved
<1>6. CASE PersistActaContent(r)
  <2>1. /\ contents' = contents \cup {ActaOf(r)} /\ anchored' = anchored
        /\ run[r].pc = "content" /\ ActaOf(r) \in anchored
    BY <1>3, <1>6 DEF PersistActaContent, chainVars, At, KnowsEvidence
  <2>2. CASE run[r].op = "process"
    <3>1. Elsewhere(r) /\ run'[r] = Idle /\ run'[r].pc # "insert"
      BY <1>1, <1>6, <2>2, RunMoves DEF Stopped, Idle
    <3>2. AtMostOneEach' /\ PublicationLeavesEvidence'
      BY <1>1, <1>2, <1>4, <2>1, <3>1, CountKept, LeavesKept
    <3>. QED BY <1>4, <2>1, <3>1, <3>2, EvidenceKept
  <2>3. CASE run[r].op = "publish"
    <3>1. Moved(r, "advance")
      BY <1>1, <1>6, <2>3, RunMoves DEF MovedOn
    <3>2. ActaOf(r).kind = "ACTA_RESULTADOS"
      BY <2>3 DEF ActaOf, ActaResultados
    <3>3. KnowsEvidence(r)'
      BY <1>3, <1>4, <2>1, <2>3, <3>1, <3>2 DEF KnowsEvidence, Moved
    <3>4. AtMostOneEach' /\ PublicationLeavesEvidence'
      BY <1>1, <1>2, <1>4, <2>1, <3>1, CountKept, LeavesKept DEF Moved
    <3>. QED BY <1>4, <2>1, <3>1, <3>3, <3>4, EvidenceKept DEF Moved
  <2>. QED BY <1>3, <2>2, <2>3
<1>. QED BY <1>5, <1>6 DEF ActaStep

(* Who finds no payload is about to insert one; there is none to count.    *)
LEMMA FindPayloadEvidence ==
  ASSUME TablesInv, TablesInv', WorldStays, EvidenceOK, NEW r \in Runs, FindPayload(r)
  PROVE  EvidenceOK'
<1>1. RunsTyped
  BY TypeParts DEF TablesInv
<1>2. run[r] # Idle /\ run[r].pc = "existing"
  BY <1>1, Standing DEF FindPayload, At, Positions
<1>3. /\ payloads' = payloads /\ contents' = contents /\ auditWindow' = auditWindow
      /\ anchored' = anchored /\ phase' = phase /\ verified' = verified
      /\ byConsole' = byConsole
  BY DEF FindPayload, chainVars, evidenceVars, boundVars
<1>4. CASE payloads # <<>>
  <2>1. Moved(r, "acta")
    BY <1>1, <1>2, <1>4, GotoMoves DEF FindPayload, MovedOn, Positions
  <2>2. KnowsEvidence(r)'
    BY <1>3, <1>4, <2>1 DEF KnowsEvidence, Moved
  <2>3. AtMostOneEach'
    BY <1>3, <2>1, CountKept DEF Moved
  <2>4. PublicationLeavesEvidence'
    BY <1>2, <1>3, <2>1, LeavesKept DEF Moved, At, EvidenceOK, PublicationLeavesEvidence
  <2>. QED BY <1>3, <2>1, <2>2, <2>3, <2>4, EvidenceKept DEF Moved
<1>5. CASE payloads = <<>>
  <2>1. Moved(r, "insert")
    BY <1>1, <1>2, <1>5, GotoMoves DEF FindPayload, MovedOn, Positions
  <2>2. KnowsEvidence(r)'
    BY <2>1 DEF KnowsEvidence, Moved
  <2>3. AtMostOneEach'
    BY <1>3, <1>5 DEF AtMostOneEach
  <2>4. PublicationLeavesEvidence'
    BY <1>2, <1>3, <2>1, LeavesKept DEF Moved, At, EvidenceOK, PublicationLeavesEvidence
  <2>. QED BY <1>3, <2>1, <2>2, <2>3, <2>4, EvidenceKept DEF Moved
<1>. QED BY <1>4, <1>5

(* A payload is inserted behind the gate, one for each run at most.        *)
LEMMA InsertPayloadEvidence ==
  ASSUME TablesInv, TablesInv', WorldStays, EvidenceOK, NEW r \in Runs, InsertPayload(r)
  PROVE  EvidenceOK'
<1>1. RunsTyped /\ RunsInPlace /\ payloads \in Seq(Jobs)
  BY TypeParts DEF TablesInv, EvidenceTyped
<1>2. run[r] # Idle /\ run[r].pc = "insert" /\ Moved(r, "acta")
  BY <1>1, Standing, RunMoves DEF InsertPayload, MovedOn, At, Positions
<1>3. run[r].op = "publish" /\ Job(r) \in Jobs
  BY <1>1, <1>2, KindOfRun DEF PublishPositions, ActaPositions, Job
<1>4. Backed(Job(r))
  BY <1>2, <1>3 DEF TablesInv, ProcessingOK, KnowsProcessed, ProofsOK, KnowsProofs,
     Backed, Job
<1>5. /\ payloads' = Append(payloads, Job(r)) /\ contents' = contents
      /\ auditWindow' = auditWindow /\ anchored' = anchored /\ phase' = phase
      /\ verified' = verified /\ byConsole' = byConsole
  BY DEF InsertPayload, chainVars, boundVars
<1>6. /\ payloads' # <<>> /\ Len(payloads') = Len(payloads) + 1 /\ Len(payloads) \in Nat
      /\ \A i \in DOMAIN payloads' :
           payloads'[i] = Job(r) \/ (i \in DOMAIN payloads /\ payloads'[i] = payloads[i])
  BY <1>1, <1>3, <1>5
<1>7. \A i \in DOMAIN payloads' :
        Backed(payloads'[i]) \/ (i \in DOMAIN payloads /\ payloads'[i] = payloads[i])
  BY <1>4, <1>6
<1>8. KnowsEvidence(r)'
  BY <1>2, <1>6 DEF KnowsEvidence, Moved
<1>9. AtMostOneEach'
  <2>1. /\ Cardinality(Inserting) \in Nat /\ Cardinality(Inserting') \in Nat
        /\ Cardinality(Runs) \in Nat
        /\ Cardinality(Inserting') + 1 <= Cardinality(Inserting)
        /\ Cardinality(Inserting') + 1 <= Cardinality(Runs)
    BY <1>1, <1>2, InsertingStays DEF Moved, At
  <2>2. CASE payloads = <<>>
    BY <1>6, <2>1, <2>2 DEF AtMostOneEach
  <2>3. CASE payloads # <<>>
    BY <1>6, <2>1, <2>3 DEF AtMostOneEach, EvidenceOK
  <2>. QED BY <2>2, <2>3
<1>10. PublicationLeavesEvidence'
  BY <1>2, <1>5, <1>6, LeavesKept DEF Moved, At, EvidenceOK, PublicationLeavesEvidence
<1>. QED BY <1>2, <1>5, <1>6, <1>7, <1>8, <1>9, <1>10, EvidenceKept DEF Moved

(* The phase moves to the results once payload and acta are there, and to  *)
(* the audit window with its row still to be written.                      *)
LEMMA AdvanceEvidence ==
  ASSUME TablesInv, TablesInv', WorldStays, EvidenceOK, NEW r \in Runs,
         AdvanceToResults(r) \/ PublishResults(r) \/ OpenAuditWindow(r)
  PROVE  EvidenceOK'
<1>1. RunsTyped /\ RunsInPlace /\ contents \subseteq anchored
  BY TypeParts DEF TablesInv, EvidenceOK, PublicationLeavesEvidence
<1>2. /\ run[r] # Idle /\ ~At(r, "auditRow")
      /\ run[r].pc \in {"advance", "publishResults", "openAudit"}
  BY <1>1, Standing DEF AdvanceToResults, PublishResults, OpenAuditWindow, At, Positions
<1>3. KnowsEvidence(r) /\ run[r].op = "publish"
  BY <1>1, <1>2, KindOfRun DEF EvidenceOK, PublishPositions
<1>4. /\ payloads' = payloads /\ contents' = contents /\ auditWindow' = auditWindow
      /\ anchored' = anchored /\ verified' = verified /\ byConsole' = byConsole
      /\ faults' = faults
  BY DEF AdvanceToResults, PublishResults, OpenAuditWindow, chainVars, evidenceVars,
     boundVars
<1>5. /\ AdvanceToResults(r) =>
           Moved(r, "audit") \/ Moved(r, "publishResults") \/ Stopped(r)
      /\ PublishResults(r) => Moved(r, "audit") \/ Stopped(r)
      /\ OpenAuditWindow(r) => Moved(r, "auditRow") \/ Stopped(r)
  BY <1>1, RunMoves DEF MovedOn
<1>6. Elsewhere(r) /\ run'[r].pc # "insert"
  BY <1>5 DEF Moved, Stopped, Idle
<1>7. run'[r] # Idle => KnowsEvidence(r)'
  <2>1. CASE AdvanceToResults(r) /\ Moved(r, "publishResults")
    BY <1>3, <1>4, <2>1 DEF KnowsEvidence, Moved, AdvanceToResults, At
  <2>2. CASE run'[r].pc \in {"audit", "auditRow"}
    BY <2>2 DEF KnowsEvidence
  <2>. QED BY <1>5, <2>1, <2>2 DEF Moved, Stopped
<1>8. AtMostOneEach'
  BY <1>4, <1>6, CountKept
<1>9. PublicationLeavesEvidence'
  <2>1. CASE phase' = phase
    BY <1>1, <1>2, <1>4, <1>6, <2>1, LeavesKept
  <2>2. CASE PublishResults(r) /\ phase' # phase
    <3>1. /\ phase' = RESULTS_PUBLISHED /\ verified = Circuits
          /\ run[r].pc = "publishResults"
      BY <2>2 DEF PublishResults, At
    <3>2. ~(phase' >= AUDIT_WINDOW)
      BY <3>1 DEF RESULTS_PUBLISHED, AUDIT_WINDOW
    <3>. QED BY <1>1, <1>3, <1>4, <3>1, <3>2
             DEF PublicationLeavesEvidence, KnowsEvidence
  <2>3. CASE OpenAuditWindow(r) /\ phase' # phase
    <3>1. phase = RESULTS_PUBLISHED /\ phase' = AUDIT_WINDOW /\ Goto(r, "auditRow")
      BY <2>3 DEF OpenAuditWindow
    <3>2. At(r, "auditRow")'
      BY <1>1, <1>2, <3>1, GotoMoves DEF MovedOn, Moved, At, Positions
    <3>3. phase >= RESULTS_PUBLISHED
      BY <3>1 DEF RESULTS_PUBLISHED
    <3>. QED BY <1>1, <1>4, <3>2, <3>3 DEF EvidenceOK, PublicationLeavesEvidence
  <2>. QED BY <2>1, <2>2, <2>3 DEF AdvanceToResults, chainVars
<1>. QED BY <1>4, <1>6, <1>7, <1>8, <1>9, EvidenceKept

(* The row of the audit window.                                            *)
LEMMA AuditRowEvidence ==
  ASSUME TablesInv, TablesInv', WorldStays, EvidenceOK, NEW r \in Runs,
         InsertAuditWindow(r)
  PROVE  EvidenceOK'
<1>1. RunsTyped /\ contents \subseteq anchored
  BY TypeParts DEF TablesInv, EvidenceOK, PublicationLeavesEvidence
<1>2. /\ payloads' = payloads /\ contents' = contents /\ auditWindow' = TRUE
      /\ anchored' = anchored /\ phase' = phase /\ verified' = verified
      /\ byConsole' = byConsole
  BY DEF InsertAuditWindow, chainVars, boundVars
<1>3. Elsewhere(r) /\ run'[r] = Idle /\ run'[r].pc # "insert"
  BY <1>1, RunMoves DEF Stopped, Idle
<1>4. AtMostOneEach' /\ PublicationLeavesEvidence'
  BY <1>1, <1>2, <1>3, CountKept, LeavesKept
<1>. QED BY <1>2, <1>3, <1>4, EvidenceKept

(* The console, the chain, and a step that changes nothing.                *)
LEMMA WorldEvidence ==
  ASSUME TablesInv, TablesInv', WorldStays, EvidenceOK,
         ConsoleTransition \/ RewriteChain \/ UNCHANGED vars
  PROVE  EvidenceOK'
<1>1. /\ phase \in VOTING_OPEN .. AUDIT_WINDOW /\ payloads \in Seq(Jobs)
      /\ verified \subseteq Circuits /\ byConsole \in BOOLEAN
  BY TypeParts DEF TablesInv, ChainTyped, EvidenceTyped, BoundsTyped
<1>2. /\ run' = run /\ payloads' = payloads /\ contents' = contents
      /\ auditWindow' = auditWindow /\ anchored' = anchored
  BY DEF ConsoleTransition, RewriteChain, vars, chainVars, evidenceVars
<1>3. ASSUME NEW i \in DOMAIN payloads
      PROVE  Backed(payloads[i])'
  <2>1. PICK j \in Jobs : j = payloads[i]
    BY <1>1
  <2>2. Backed(j)
    BY <2>1 DEF EvidenceOK, Backed
  <2>3. Backed(j)'
    BY <1>1, <2>2, BackedStays
  <2>. QED BY <1>2, <2>1, <2>3 DEF Backed, Processed
<1>4. \A r \in Runs : run'[r] # Idle => KnowsEvidence(r)'
  BY <1>2 DEF EvidenceOK, KnowsEvidence, ActaOf, Job
<1>5. AtMostOneEach'
  BY <1>2 DEF EvidenceOK, AtMostOneEach, Inserting
<1>6. PublicationLeavesEvidence
  BY DEF EvidenceOK
<1>7. CASE ConsoleTransition
  <2>1. /\ phase' = phase + 1 /\ verified' = verified /\ faults' = faults
        /\ phase = TALLYING => verified = Circuits
        /\ ~byConsole' => ~byConsole /\ ~(phase >= TALLYING)
    BY <1>7 DEF ConsoleTransition
  <2>2. phase' >= RESULTS_PUBLISHED => phase = TALLYING \/ phase >= RESULTS_PUBLISHED
    BY <1>1, <2>1 DEF RESULTS_PUBLISHED, TALLYING, VOTING_OPEN, AUDIT_WINDOW
  <2>3. phase' >= RESULTS_PUBLISHED \/ phase' >= AUDIT_WINDOW => phase >= TALLYING
    BY <1>1, <2>1 DEF RESULTS_PUBLISHED, TALLYING, VOTING_OPEN, AUDIT_WINDOW
  <2>4. PublicationLeavesEvidence'
    BY <1>2, <1>6, <2>1, <2>2, <2>3 DEF PublicationLeavesEvidence
  <2>. QED BY <1>2, <1>3, <1>4, <1>5, <2>4 DEF EvidenceOK, Backed, AtMostOneEach
<1>8. CASE RewriteChain
  <2>1. phase = TALLYING /\ phase' = phase
    BY <1>8 DEF RewriteChain
  <2>2. ~(phase' >= RESULTS_PUBLISHED) /\ ~(phase' >= AUDIT_WINDOW)
    BY <2>1 DEF TALLYING, RESULTS_PUBLISHED, AUDIT_WINDOW
  <2>3. PublicationLeavesEvidence'
    BY <1>2, <1>6, <2>2 DEF PublicationLeavesEvidence
  <2>. QED BY <1>2, <1>3, <1>4, <1>5, <2>3 DEF EvidenceOK, Backed, AtMostOneEach
<1>9. CASE UNCHANGED vars
  <2>1. phase' = phase /\ verified' = verified /\ byConsole' = byConsole /\ faults' = faults
    BY <1>9 DEF vars, chainVars, boundVars
  <2>2. PublicationLeavesEvidence'
    BY <1>2, <1>6, <2>1 DEF PublicationLeavesEvidence, At
  <2>. QED BY <1>2, <1>3, <1>4, <1>5, <2>2 DEF EvidenceOK, Backed, AtMostOneEach
<1>. QED BY <1>7, <1>8, <1>9

-----------------------------------------------------------------------------
(* The invariant and what follows                                          *)

(* The invariant holds when nothing has happened.                          *)
LEMMA InvInit == Init => IInv
<1>. SUFFICES ASSUME Init PROVE IInv
  OBVIOUS
<1>1. TablesInv
  BY TablesInit
<1>2. \A r \in Runs : run[r] = Idle
  BY DEF Init
<1>3. payloads = <<>> /\ contents = {} /\ anchored = {}
  BY DEF Init
<1>4. ~(phase >= RESULTS_PUBLISHED) /\ ~(phase >= AUDIT_WINDOW)
  BY DEF Init, VOTING_OPEN, RESULTS_PUBLISHED, AUDIT_WINDOW
<1>5. EvidenceOK
  BY <1>2, <1>3, <1>4 DEF EvidenceOK, PublicationLeavesEvidence
<1>. QED BY <1>1, <1>5 DEF IInv, TablesInv

(* And is kept by every step.                                              *)
LEMMA InvStep == IInv /\ [Next]_vars => IInv'
<1>. SUFFICES ASSUME IInv, [Next]_vars PROVE IInv'
  OBVIOUS
<1>1. TablesInv /\ EvidenceOK
  BY DEF IInv, TablesInv
<1>2. TablesInv' /\ WorldStays
  BY <1>1, TablesStep, NothingUndone
<1>3. ASSUME NEW r \in Runs,
             \/ Begin(r) \/ ProcessStep(r) \/ ProveStep(r) \/ SubmitStep(r) \/ CutShort(r)
             \/ PassGate(r) \/ PassPayloadGate(r) \/ ReadAuditPhase(r)
      PROVE  EvidenceOK'
  BY <1>1, <1>2, <1>3, PlainSteps, PlainKept
<1>4. ASSUME NEW r \in Runs, PublishStep(r) \/ ActaStep(r)
      PROVE  EvidenceOK'
  BY <1>1, <1>2, <1>3, <1>4, ActaEvidence, FindPayloadEvidence, InsertPayloadEvidence,
     AdvanceEvidence, AuditRowEvidence DEF PublishStep
<1>5. ASSUME ConsoleTransition \/ RewriteChain \/ UNCHANGED vars
      PROVE  EvidenceOK'
  BY <1>1, <1>2, <1>5, WorldEvidence
<1>6. EvidenceOK'
  BY <1>3, <1>4, <1>5 DEF Next
<1>. QED BY <1>2, <1>6 DEF IInv, TablesInv

(* A payload is public only of a job that is processed and while both      *)
(* proofs of the election are on chain, and there is at most one for each  *)
(* click, whoever raced for it.                                            *)
THEOREM PayloadsAreBacked == Spec => []PayloadBacked
<1>1. IInv => PayloadBacked
  <2>. SUFFICES ASSUME IInv PROVE PayloadBacked
    OBVIOUS
  <2>1. EvidenceOK /\ RunsTyped /\ payloads \in Seq(Jobs)
    BY TypeParts DEF IInv, EvidenceTyped
  <2>2. /\ Len(payloads) \in Nat /\ Cardinality(Runs) \in Nat
        /\ Cardinality(Inserting) \in Nat
    <3>1. Inserting \subseteq Runs
      BY DEF Inserting
    <3>. QED BY <2>1, <3>1, FiniteRunsAssumption, FS_Subset, FS_CardinalityType
  <2>3. Len(payloads) <= Cardinality(Runs)
    <3>1. CASE payloads = <<>>
      BY <2>2, <3>1
    <3>2. CASE payloads # <<>>
      BY <2>1, <2>2, <3>2 DEF EvidenceOK
    <3>. QED BY <3>1, <3>2
  <2>. QED BY <2>1, <2>3 DEF EvidenceOK, PayloadBacked, Processed, Unrewritten
<1>. QED BY <1>1, InvInit, InvStep, PTL DEF Spec

(* Wherever a run stops, the phase is not ahead of the payload, the actas  *)
(* and the row of the audit window that should go with it.                 *)
THEOREM PublicationIsEvidenced == Spec => []PublicationLeavesEvidence
<1>1. IInv => PublicationLeavesEvidence
  BY DEF IInv, EvidenceOK
<1>. QED BY <1>1, InvInit, InvStep, PTL DEF Spec

-----------------------------------------------------------------------------
(* The evidence as it leaves the system                                    *)

(* The acta of results is anchored by a click that found a payload or made *)
(* one.                                                                    *)
ResultsHavePayload ==
  (\E a \in anchored : a.kind = "ACTA_RESULTADOS") => payloads # <<>>
BoardInv == IInv /\ ResultsHavePayload

(* What the board never takes back.                                        *)
BoardGrows ==
  /\ anchored \subseteq anchored' /\ contents \subseteq contents'
  /\ payloads # <<>> => payloads' # <<>>
  /\ byConsole => byConsole'

Counts == [results : Nat, actas : Nat, anchors : Nat]
Readings ==
  [acts : SUBSET Actas, signed : SUBSET Actas, valid : SUBSET Actas, results : Nat,
   window : BOOLEAN, materialized : BOOLEAN, detailed : Nat]
Readers ==
  [op : {"NONE", "EXPORT", "VERIFY"}, at : 0 .. 4, todo : SUBSET Actas, act : SUBSET Actas,
   asked : SUBSET Queries, got : Readings, dropped : BOOLEAN, ended : {"NO", "DONE", "FAILED"}]

Ordered(acts) == \A j \in Jobs : ActaResultados(j) \in acts => ActaEscrutinio(j) \in acts
HasResults(acts) == \E j \in Jobs : ActaResultados(j) \in acts
Evidenced == payloads # <<>> \/ byConsole

(* What is indexed, counted and stored.                                    *)
StoreSound ==
  /\ anchorRows \subseteq anchored /\ Ordered(anchorRows)
  /\ counted \in Seq(Counts) /\ bundles \in Seq(Counts)
  /\ \A i \in DOMAIN counted : counted[i].results > 0 \/ byConsole
  /\ \A i \in DOMAIN bundles : bundles[i].results > 0 \/ byConsole
  /\ counted # <<>> \/ bundles # <<>> => Evidenced

(* What a command has read is still there, as far as nothing was dropped:  *)
(* the acts listed have their payload, the acts verified their content, a  *)
(* bundle seen its payload; and it stands where it has read it.            *)
ExportSound ==
  reader.op = "EXPORT" =>
    /\ reader.at \in 1 .. 4
    /\ reader.ended = "DONE" => reader.at = 4
    /\ reader.act # {} => reader.at = 2
    /\ reader.act \subseteq reader.todo
    /\ Ordered(reader.got.acts)
    /\ HasResults(reader.got.acts) => payloads # <<>>
    /\ reader.got.valid \subseteq contents
    /\ ~reader.dropped =>
         /\ reader.got.valid \subseteq reader.got.signed \cup reader.act
         /\ HasResults(reader.got.acts) /\ reader.at = 4 => reader.got.results > 0
VerifySound ==
  reader.op = "VERIFY" =>
    /\ reader.at \in 1 .. 2
    /\ reader.ended = "DONE" => reader.at = 2
    /\ reader.at = 2 => reader.asked = {}
    /\ reader.got.materialized => Evidenced
    /\ ~reader.dropped /\ reader.at = 2 /\ reader.got.materialized =>
         reader.got.detailed > 0 \/ byConsole
ReaderSound == reader \in Readers /\ ExportSound /\ VerifySound

ExportInv == StoreSound /\ ReaderSound

(* The board's steps add to what it keeps.                                 *)
LEMMA StepGrows ==
  ASSUME IInv, [Next]_vars
  PROVE  BoardGrows
<1>1. payloads \in Seq(Jobs)
  BY DEF IInv, PublicationTypeOK
<1>2. CASE \E r \in Runs : InsertPayload(r)
  <2>1. PICK r \in Runs : InsertPayload(r)
    BY <1>2
  <2>2. run[r] # Idle /\ Job(r) \in Jobs
    <3>1. RunsTyped /\ At(r, "insert")
      BY <2>1 DEF IInv, PublicationTypeOK, RunsTyped, InsertPayload
    <3>2. run[r] # Idle
      BY <3>1 DEF At, Idle
    <3>. QED BY <3>1, <3>2 DEF RunsTyped, UnderWay, Job
  <2>3. payloads' = Append(payloads, Job(r)) /\ UNCHANGED <<chainVars, contents, byConsole>>
    BY <2>1 DEF InsertPayload, boundVars
  <2>4. payloads' # <<>>
    <3>1. PICK s, j : s = payloads /\ j = Job(r)
      OBVIOUS
    <3>2. s \in Seq(Jobs) /\ j \in Jobs
      BY <1>1, <2>2, <3>1
    <3>3. Len(Append(s, j)) = Len(s) + 1 /\ Len(s) \in Nat /\ Len(<<>>) = 0
      BY <3>2
    <3>4. Append(s, j) # <<>>
      BY <3>3
    <3>. QED BY <2>3, <3>1, <3>4
  <2>. QED BY <2>3, <2>4 DEF BoardGrows, chainVars
<1>3. CASE ~\E r \in Runs : InsertPayload(r)
  <2>1. /\ anchored \subseteq anchored' /\ contents \subseteq contents' /\ payloads' = payloads
    BY ZenonT(40), <1>3
       DEF Next, Begin, ProcessBallots, BeginProving, BeginSubmission, BeginPublication,
           ProcessStep, CreateTallyJob, ReadPhase, MovePhase, CommitTranscript,
           UpdateTallyJobStatus, UpdateTallyJobFails, ActaStep, AnchorActa,
           PersistActaContent,
           ProveStep, ProveTally, VerifyTallyOffchain, ResolveKey, ProveDecryption,
           FailureUnrecorded,
           SubmitStep, ReadProofRow, StillVerified, ResetStaleProof, CallVerifier,
           ReadFlag, MarkVerifiedOnchain, LoadGateState, UpdateProofState,
           PublishStep, PassGate, PassPayloadGate, FindPayload,
           AdvanceToResults, PublishResults, ReadAuditPhase, OpenAuditWindow,
           InsertAuditWindow, CutShort, ConsoleTransition, RewriteChain, vars, chainVars,
           evidenceVars, boundVars
  <2>2. ConsoleTransition \/ byConsole' = byConsole
    BY ZenonT(40), <1>3
       DEF Next, Begin, ProcessBallots, BeginProving, BeginSubmission, BeginPublication,
           ProcessStep, CreateTallyJob, ReadPhase, MovePhase, CommitTranscript,
           UpdateTallyJobStatus, UpdateTallyJobFails, ActaStep, AnchorActa,
           PersistActaContent,
           ProveStep, ProveTally, VerifyTallyOffchain, ResolveKey, ProveDecryption,
           FailureUnrecorded,
           SubmitStep, ReadProofRow, StillVerified, ResetStaleProof, CallVerifier,
           ReadFlag, MarkVerifiedOnchain, LoadGateState, UpdateProofState,
           PublishStep, PassGate, PassPayloadGate, FindPayload,
           AdvanceToResults, PublishResults, ReadAuditPhase, OpenAuditWindow,
           InsertAuditWindow, CutShort, RewriteChain, vars, chainVars,
           evidenceVars, boundVars
  <2>3. byConsole => byConsole'
    BY <2>2 DEF ConsoleTransition
  <2>. QED BY <2>1, <2>3 DEF BoardGrows
<1>. QED BY <1>2, <1>3

(* Only a click that has its payload anchors an acta of results.           *)
LEMMA AnchorsWithPayload ==
  ASSUME BoardInv, [Next]_vars
  PROVE  ResultsHavePayload'
<1>1. BoardGrows
  BY StepGrows DEF BoardInv
<1>2. CASE \E r \in Runs : AnchorActa(r)
  <2>1. PICK r \in Runs : AnchorActa(r)
    BY <1>2
  <2>2. /\ anchored' = anchored \cup {ActaOf(r)} /\ payloads' = payloads
        /\ run[r].pc = "acta" /\ run[r] # Idle
    BY <2>1 DEF AnchorActa, At, Idle, evidenceVars
  <2>3. InPlace(r) /\ KnowsEvidence(r) /\ run[r] \in UnderWay
    BY <2>2 DEF BoardInv, IInv, RunsInPlace, EvidenceOK, PublicationTypeOK
  <2>4. CASE run[r].op = "process"
    <3>1. ActaOf(r).kind = "ACTA_ESCRUTINIO"
      BY <2>4 DEF ActaOf, ActaEscrutinio
    <3>. QED BY <2>2, <3>1 DEF BoardInv, ResultsHavePayload
  <2>5. CASE run[r].op # "process"
    <3>1. run[r].op = "publish"
      BY <2>2, <2>3, <2>5 DEF UnderWay, InPlace, GeneratePositions, SubmitPositions
    <3>2. payloads # <<>>
      BY <2>2, <2>3, <3>1 DEF KnowsEvidence
    <3>. QED BY <2>2, <3>2 DEF ResultsHavePayload
  <2>. QED BY <2>4, <2>5
<1>3. CASE ~\E r \in Runs : AnchorActa(r)
  <2>1. anchored' = anchored
    BY ZenonT(40), <1>3
       DEF Next, Begin, ProcessBallots, BeginProving, BeginSubmission, BeginPublication,
           ProcessStep, CreateTallyJob, ReadPhase, MovePhase, CommitTranscript,
           UpdateTallyJobStatus, UpdateTallyJobFails, ActaStep,
           PersistActaContent,
           ProveStep, ProveTally, VerifyTallyOffchain, ResolveKey, ProveDecryption,
           FailureUnrecorded,
           SubmitStep, ReadProofRow, StillVerified, ResetStaleProof, CallVerifier,
           ReadFlag, MarkVerifiedOnchain, LoadGateState, UpdateProofState,
           PublishStep, PassGate, PassPayloadGate, FindPayload, InsertPayload,
           AdvanceToResults, PublishResults, ReadAuditPhase, OpenAuditWindow,
           InsertAuditWindow, CutShort, ConsoleTransition, RewriteChain, vars, chainVars
  <2>. QED BY <1>1, <2>1 DEF BoardInv, ResultsHavePayload, BoardGrows
<1>. QED BY <1>2, <1>3

(* The requests of an export by their places.                              *)
LEMMA PlacesOfRequests ==
  /\ Len(Requests) = 4
  /\ Requests[1] = "ACTS" /\ Requests[2] = "DETAILS" /\ Requests[3] = "RESULTS"
  /\ Requests[4] = "WINDOW"
  BY DEF Requests

(* Where the export is when it asks.                                       *)
LEMMA AskingPlace ==
  ASSUME ReaderSound, NEW request, Asking(request)
  PROVE  /\ reader.op = "EXPORT" /\ reader.ended = "NO"
         /\ request = "ACTS" => reader.at = 1
         /\ request = "DETAILS" => reader.at = 2
         /\ request = "RESULTS" => reader.at = 3
         /\ request = "WINDOW" => reader.at = 4
<1>1. reader.op = "EXPORT" /\ reader.ended = "NO" /\ Requests[reader.at] = request
  BY DEF Asking, Running
<1>2. reader.at \in 1 .. 4
  BY <1>1 DEF ReaderSound, ExportSound
<1>. QED BY <1>1, <1>2, PlacesOfRequests

(* There are finitely many actas.                                          *)
LEMMA ActasAreFinite == IsFiniteSet(Actas)
<1> DEFINE Kinds == {"ACTA_ESCRUTINIO", "ACTA_RESULTADOS"}
           S == Kinds \X Jobs
           f == [p \in S |-> [kind |-> p[1], job |-> p[2]]]
<1>1. IsFiniteSet(Kinds) /\ IsFiniteSet(Jobs)
  <2>1. IsFiniteSet({"ACTA_ESCRUTINIO"})
    BY FS_Singleton
  <2>2. IsFiniteSet({"ACTA_ESCRUTINIO"} \cup {"ACTA_RESULTADOS"})
    BY <2>1, FS_AddElement
  <2>3. Kinds = {"ACTA_ESCRUTINIO"} \cup {"ACTA_RESULTADOS"}
    OBVIOUS
  <2>4. IsFiniteSet(1 .. MaxJobs)
    BY FS_Interval, PublicationBoundsAssumption
  <2>. QED BY <2>2, <2>3, <2>4 DEF Jobs
<1>2. IsFiniteSet(S)
  BY <1>1, FS_Product
<1>3. \A a \in Actas : \E p \in S : f[p] = a
  <2> TAKE a \in Actas
  <2>1. PICK k, j : k = a.kind /\ j = a.job
    OBVIOUS
  <2>2. k \in Kinds /\ j \in Jobs /\ a = [kind |-> k, job |-> j]
    BY <2>1 DEF Actas
  <2>3. <<k, j>> \in S /\ f[<<k, j>>] = [kind |-> k, job |-> j]
    BY <2>2
  <2>. QED BY <2>2, <2>3
<1>4. f \in [S -> Actas]
  BY DEF Actas
<1>5. f \in Surjection(S, Actas)
  BY <1>3, <1>4 DEF Surjection
<1>. QED BY <1>2, <1>5, FS_Surjection

(* A step of the readers or the tables leaves the board alone.             *)
LEMMA BoardStands == UNCHANGED vars => BoardGrows
  BY DEF BoardGrows, vars, chainVars, evidenceVars, boundVars

(* What a command has read stays true while the board adds to its tables.  *)
LEMMA ReaderUnmoved ==
  ASSUME ReaderSound, BoardGrows, UNCHANGED reader
  PROVE  ReaderSound'
<1>1. ExportSound'
  BY DEF ReaderSound, ExportSound, BoardGrows
<1>2. VerifySound'
  BY DEF ReaderSound, VerifySound, Evidenced, BoardGrows
<1>. QED BY <1>1, <1>2 DEF ReaderSound

(* So does what is indexed and counted.                                    *)
LEMMA StoreUnmoved ==
  ASSUME StoreSound, BoardGrows, UNCHANGED bundleVars
  PROVE  StoreSound'
  BY DEF StoreSound, BoardGrows, bundleVars, Evidenced

(* An anchor is indexed after that of its count.                           *)
LEMMA IndexAnchorSound ==
  ASSUME ExportInv, NEW a \in Actas, IndexAnchor(a), UNCHANGED vars
  PROVE  ExportInv'
<1>1. BoardGrows /\ UNCHANGED <<anchored, payloads, byConsole>>
  BY BoardStands DEF vars, chainVars, evidenceVars, boundVars
<1>2. ReaderSound'
  BY <1>1, ReaderUnmoved DEF ExportInv, IndexAnchor
<1>3. /\ a \in anchored /\ anchorRows' = anchorRows \cup {a}
      /\ a.kind = "ACTA_RESULTADOS" => ActaEscrutinio(a.job) \in anchorRows
      /\ counted' = counted /\ bundles' = bundles
  BY DEF IndexAnchor
<1>4. Ordered(anchorRows)'
  <2>1. \A j \in Jobs : ActaResultados(j) = a => ActaEscrutinio(j) \in anchorRows
    BY <1>3 DEF ActaResultados
  <2>. QED BY <1>3, <2>1 DEF ExportInv, StoreSound, Ordered
<1>5. StoreSound'
  BY <1>1, <1>3, <1>4 DEF ExportInv, StoreSound, Evidenced
<1>. QED BY <1>2, <1>5 DEF ExportInv

(* The audit window is open, so the board has published, or the console    *)
(* moved the phase.                                                        *)
LEMMA CountEvidenceSound ==
  ASSUME ExportInv, BoardInv, CountEvidence, UNCHANGED vars
  PROVE  ExportInv'
<1>1. BoardGrows /\ UNCHANGED <<anchored, payloads, byConsole>>
  BY BoardStands DEF vars, chainVars, evidenceVars, boundVars
<1>2. ReaderSound'
  BY <1>1, ReaderUnmoved DEF ExportInv, CountEvidence
<1> DEFINE row == [results |-> Len(payloads), actas |-> Cardinality(contents),
                   anchors |-> Cardinality(anchorRows)]
<1>3. counted' = <<row>> /\ anchorRows' = anchorRows /\ bundles' = bundles
  BY DEF CountEvidence
<1>4. Evidenced
  BY DEF CountEvidence, BoardInv, IInv, EvidenceOK, PublicationLeavesEvidence, Evidenced,
         AUDIT_WINDOW, RESULTS_PUBLISHED
<1>5. payloads \in Seq(Jobs) /\ contents \subseteq Actas /\ anchorRows \subseteq Actas
  BY DEF BoardInv, IInv, PublicationTypeOK, ExportInv, StoreSound
<1>6. row \in Counts
  <2>1. Cardinality(contents) \in Nat /\ Cardinality(anchorRows) \in Nat
    BY <1>5, ActasAreFinite, FS_Subset, FS_CardinalityType
  <2>. QED BY <1>5, <2>1 DEF Counts
<1>7. row.results > 0 \/ byConsole
  <2>1. PICK s : s = payloads
    OBVIOUS
  <2>2. s \in Seq(Jobs) /\ (s # <<>> => Len(s) > 0)
    BY <1>5, <2>1
  <2>. QED BY <1>4, <2>1, <2>2 DEF Evidenced
<1> HIDE DEF row
<1>8. counted' \in Seq(Counts) /\ DOMAIN counted' = {1} /\ counted'[1] = row
  BY <1>3, <1>6
<1>9. StoreSound'
  BY <1>1, <1>3, <1>4, <1>7, <1>8 DEF ExportInv, StoreSound, Evidenced
<1>. QED BY <1>2, <1>9 DEF ExportInv

(* What was counted is stored.                                             *)
LEMMA InsertBundleSound ==
  ASSUME ExportInv, InsertBundle, UNCHANGED vars
  PROVE  ExportInv'
<1>1. BoardGrows /\ UNCHANGED <<anchored, payloads, byConsole>>
  BY BoardStands DEF vars, chainVars, evidenceVars, boundVars
<1>2. ReaderSound'
  BY <1>1, ReaderUnmoved DEF ExportInv, InsertBundle
<1>3. /\ counted # <<>> /\ bundles' = bundles \o counted /\ counted' = <<>>
      /\ anchorRows' = anchorRows
  BY DEF InsertBundle
<1>4. /\ bundles' \in Seq(Counts)
      /\ \A i \in DOMAIN bundles' : bundles'[i].results > 0 \/ byConsole
  <2>1. PICK b, c : b = bundles /\ c = counted
    OBVIOUS
  <2>2. /\ b \in Seq(Counts) /\ c \in Seq(Counts)
        /\ \A i \in DOMAIN b : b[i].results > 0 \/ byConsole
        /\ \A i \in DOMAIN c : c[i].results > 0 \/ byConsole
    BY <2>1 DEF ExportInv, StoreSound
  <2>3. /\ b \o c \in Seq(Counts)
        /\ \A i \in DOMAIN (b \o c) :
             \/ i \in DOMAIN b /\ (b \o c)[i] = b[i]
             \/ i - Len(b) \in DOMAIN c /\ (b \o c)[i] = c[i - Len(b)]
    BY <2>2
  <2>. QED BY <1>3, <2>1, <2>2, <2>3
<1>5. counted' \in Seq(Counts) /\ DOMAIN counted' = {}
  BY <1>3
<1>6. StoreSound'
  BY <1>1, <1>3, <1>4, <1>5 DEF ExportInv, StoreSound, Evidenced
<1>. QED BY <1>2, <1>6 DEF ExportInv

-----------------------------------------------------------------------------
(* The commands                                                            *)

(* A command begins with nothing read.                                     *)
LEMMA StartCommandSound ==
  ASSUME ReaderSound, NEW op \in {"EXPORT", "VERIFY"}, StartCommand(op), UNCHANGED vars
  PROVE  ReaderSound'
<1> DEFINE begun == [IdleReader EXCEPT !.op = op, !.at = 1, !.asked = Queries]
<1>1. reader' = begun
  BY DEF StartCommand
<1>2. Nothing \in Readings /\ Nothing.acts = {} /\ Nothing.valid = {} /\ ~Nothing.materialized
  BY DEF Nothing, Readings
<1>3. /\ IdleReader \in Readers /\ IdleReader.got = Nothing /\ IdleReader.act = {}
      /\ IdleReader.todo = {} /\ ~IdleReader.dropped /\ IdleReader.ended = "NO"
  BY <1>2 DEF IdleReader, Readers
<1>4. /\ begun \in Readers /\ begun.op = op /\ begun.at = 1 /\ begun.asked = Queries
      /\ begun.got = Nothing /\ begun.act = {} /\ begun.todo = {} /\ ~begun.dropped
      /\ begun.ended = "NO"
  <2>1. PICK idle : idle = IdleReader
    OBVIOUS
  <2>2. PICK n : n = 1 /\ n \in 0 .. 4
    OBVIOUS
  <2>3. PICK q : q = Queries
    OBVIOUS
  <2>4. begun = [idle EXCEPT !.op = op, !.at = n, !.asked = q]
    BY <2>1, <2>2, <2>3
  <2> HIDE DEF begun
  <2>5. idle \in Readers
    BY <1>3, <2>1
  <2>6. q \in SUBSET Queries
    BY <2>3
  <2>7. begun \in Readers
    BY <2>2, <2>4, <2>5, <2>6 DEF Readers
  <2>8. /\ begun.op = op /\ begun.at = n /\ begun.asked = q /\ begun.got = idle.got
        /\ begun.act = idle.act /\ begun.todo = idle.todo /\ begun.dropped = idle.dropped
        /\ begun.ended = idle.ended
    BY <2>4, <2>5 DEF Readers
  <2>. QED BY <1>3, <2>1, <2>2, <2>3, <2>7, <2>8
<1> HIDE DEF begun
<1>5. ExportSound'
  BY <1>1, <1>2, <1>4 DEF ExportSound, Ordered, HasResults
<1>6. VerifySound'
  BY <1>1, <1>2, <1>4 DEF VerifySound
<1>. QED BY <1>1, <1>4, <1>5, <1>6 DEF ReaderSound

(* A command that fails has read what it read.                             *)
LEMMA CommandFailsSound ==
  ASSUME ReaderSound, CommandFails, UNCHANGED vars
  PROVE  ReaderSound'
<1>1. reader' = [reader EXCEPT !.ended = "FAILED"]
  BY DEF CommandFails, Refuse
<1>2. reader' \in Readers
  BY <1>1 DEF ReaderSound, Readers
<1>3. /\ reader'.op = reader.op /\ reader'.at = reader.at /\ reader'.todo = reader.todo
      /\ reader'.act = reader.act /\ reader'.asked = reader.asked /\ reader'.got = reader.got
      /\ reader'.dropped = reader.dropped /\ reader'.ended = "FAILED"
  BY <1>1 DEF ReaderSound, Readers
<1>4. UNCHANGED <<payloads, contents, byConsole>>
  BY DEF vars, evidenceVars, boundVars
<1>5. ExportSound'
  BY <1>3, <1>4 DEF ReaderSound, ExportSound
<1>6. VerifySound'
  BY <1>3, <1>4 DEF ReaderSound, VerifySound, Evidenced
<1>. QED BY <1>2, <1>5, <1>6 DEF ReaderSound

(* To the next request with what was read, or to the end.                  *)
LEMMA NextRequestMoves ==
  ASSUME ReaderSound, NEW got \in Readings,
         reader.op = "EXPORT", reader.ended = "NO"
  PROVE  LET next == NextRequest(got)
         IN  /\ next \in Readers
             /\ next.op = "EXPORT" /\ next.got = got /\ next.todo = reader.todo
             /\ next.act = reader.act /\ next.asked = reader.asked
             /\ next.dropped = reader.dropped
             /\ IF reader.at = 4 THEN next.at = 4 /\ next.ended = "DONE"
                ELSE next.at = reader.at + 1 /\ next.ended = "NO"
<1> DEFINE next == NextRequest(got)
<1>1. reader \in Readers /\ reader.at \in 1 .. 4
  BY DEF ReaderSound, ExportSound
<1>2. CASE reader.at = 4
  <2>1. next = [reader EXCEPT !.got = got, !.ended = "DONE"]
    BY <1>2, PlacesOfRequests DEF NextRequest
  <2> HIDE DEF next
  <2>2. next \in Readers
    BY <1>1, <2>1 DEF Readers
  <2>3. /\ next.op = reader.op /\ next.got = got /\ next.todo = reader.todo
        /\ next.act = reader.act /\ next.asked = reader.asked
        /\ next.dropped = reader.dropped /\ next.at = reader.at /\ next.ended = "DONE"
    BY <1>1, <2>1 DEF Readers
  <2>. QED BY <1>2, <2>2, <2>3 DEF next
<1>3. CASE reader.at # 4
  <2>1. next = [reader EXCEPT !.got = got, !.at = reader.at + 1]
    BY <1>3, PlacesOfRequests DEF NextRequest
  <2> HIDE DEF next
  <2>2. next \in Readers
    <3>1. PICK n : n = reader.at + 1
      OBVIOUS
    <3>2. n \in 0 .. 4 /\ next = [reader EXCEPT !.got = got, !.at = n]
      BY <1>1, <1>3, <2>1, <3>1
    <3>. QED BY <1>1, <3>2 DEF Readers
  <2>3. /\ next.op = reader.op /\ next.got = got /\ next.todo = reader.todo
        /\ next.act = reader.act /\ next.asked = reader.asked
        /\ next.dropped = reader.dropped /\ next.at = reader.at + 1 /\ next.ended = reader.ended
    BY <1>1, <2>1 DEF Readers
  <2>. QED BY <1>3, <2>2, <2>3 DEF next
<1>. QED BY <1>2, <1>3

(* The acts listed are those indexed.                                      *)
LEMMA ListActsSound ==
  ASSUME ExportInv, BoardInv, ListActs, UNCHANGED vars
  PROVE  ReaderSound'
<1> DEFINE got == [reader.got EXCEPT !.acts = anchorRows]
<1>1. /\ reader' = [NextRequest(got) EXCEPT !.todo = anchorRows]
      /\ reader.op = "EXPORT" /\ reader.ended = "NO" /\ reader.at = 1
  BY AskingPlace DEF ListActs, ExportInv
<1>2. ReaderSound /\ reader.got \in Readings /\ anchorRows \subseteq Actas
  BY DEF ExportInv, ReaderSound, Readers, StoreSound, BoardInv, IInv, PublicationTypeOK
<1>3. /\ got \in Readings /\ got.acts = anchorRows /\ got.valid = reader.got.valid
      /\ got.signed = reader.got.signed
  BY <1>2 DEF Readings
<1> HIDE DEF got
<1>4. PICK next : next = NextRequest(got)
  OBVIOUS
<1>5. /\ next \in Readers
      /\ next.op = "EXPORT" /\ next.got = got /\ next.act = reader.act
      /\ next.dropped = reader.dropped /\ next.at = 2 /\ next.ended = "NO"
  BY <1>1, <1>2, <1>3, <1>4, NextRequestMoves
<1>6. reader' \in Readers
  BY <1>1, <1>2, <1>4, <1>5 DEF Readers
<1>7. /\ reader'.op = "EXPORT" /\ reader'.got = got /\ reader'.act = reader.act
      /\ reader'.dropped = reader.dropped /\ reader'.at = 2 /\ reader'.ended = "NO"
  BY <1>1, <1>4, <1>5 DEF Readers
<1>8. reader.act = {}
  BY <1>1, <1>2 DEF ReaderSound, ExportSound
<1>9. HasResults(anchorRows) => payloads # <<>>
  <2>1. \A j \in Jobs : ActaResultados(j).kind = "ACTA_RESULTADOS"
    BY DEF ActaResultados
  <2>. QED BY <2>1 DEF HasResults, ExportInv, StoreSound, BoardInv, ResultsHavePayload
<1>10. Ordered(anchorRows) /\ UNCHANGED <<payloads, contents, byConsole>>
  BY DEF ExportInv, StoreSound, vars, evidenceVars, boundVars
<1>11. ExportSound'
  BY <1>1, <1>2, <1>3, <1>7, <1>8, <1>9, <1>10
     DEF ReaderSound, ExportSound, Ordered, HasResults
<1>. QED BY <1>6, <1>7, <1>11 DEF ReaderSound, VerifySound

(* An act's verdict is about the tables as they are.                       *)
LEMMA FetchActSound ==
  ASSUME ReaderSound, NEW a \in Actas, FetchAct(a), UNCHANGED vars
  PROVE  ReaderSound'
<1> DEFINE new == {b \in {a} : VerificationStatus(b) = "VALID"}
<1>1. /\ reader' = [reader EXCEPT !.act = {a}, !.got.valid = @ \cup new]
      /\ reader.op = "EXPORT" /\ reader.at = 2 /\ reader.ended = "NO"
      /\ a \in reader.todo /\ reader.act = {}
  BY AskingPlace DEF FetchAct
<1>2. new \subseteq {a} \cap contents
  BY DEF VerificationStatus, SignatureVerifies
<1> HIDE DEF new
<1>3. reader \in Readers /\ reader.got \in Readings
  BY DEF ReaderSound, Readers
<1>4. reader'.got = [reader.got EXCEPT !.valid = reader.got.valid \cup new]
  BY <1>1, <1>3 DEF Readers
<1>5. /\ reader'.got \in Readings /\ reader'.got.acts = reader.got.acts
      /\ reader'.got.valid = reader.got.valid \cup new
      /\ reader'.got.signed = reader.got.signed
  BY <1>2, <1>3, <1>4 DEF Readings
<1>6. /\ reader'.op = "EXPORT" /\ reader'.at = 2 /\ reader'.ended = "NO"
      /\ reader'.todo = reader.todo /\ reader'.act = {a}
      /\ reader'.dropped = reader.dropped
  BY <1>1, <1>3 DEF Readers
<1>7. reader' = [reader EXCEPT !.act = {a}, !.got = reader'.got]
  BY <1>1, <1>3, <1>4 DEF Readers
<1>8. reader' \in Readers
  <2>1. PICK g : g = reader'.got
    OBVIOUS
  <2>2. g \in Readings /\ reader' = [reader EXCEPT !.act = {a}, !.got = g]
    BY <1>5, <1>7, <2>1
  <2>. QED BY <1>3, <2>2 DEF Readers
<1>9. UNCHANGED <<payloads, contents, byConsole>>
  BY DEF vars, evidenceVars, boundVars
<1>10. /\ Ordered(reader.got.acts) /\ reader.got.valid \subseteq contents
       /\ HasResults(reader.got.acts) => payloads # <<>>
       /\ ~reader.dropped => reader.got.valid \subseteq reader.got.signed
  BY <1>1 DEF ReaderSound, ExportSound
<1>11. reader'.got.valid \subseteq contents
  BY <1>2, <1>5, <1>10
<1>12. ~reader.dropped => reader'.got.valid \subseteq reader'.got.signed \cup {a}
  BY <1>2, <1>5, <1>10
<1>13. Ordered(reader'.got.acts) /\ (HasResults(reader'.got.acts) => payloads # <<>>)
  BY <1>5, <1>10
<1>14. ExportSound'
  <2>1. reader'.act \subseteq reader'.todo
    BY <1>1, <1>6
  <2>2. (Ordered(reader.got.acts))' <=> Ordered(reader'.got.acts)
    BY DEF Ordered
  <2>3. (HasResults(reader.got.acts))' <=> HasResults(reader'.got.acts)
    BY DEF HasResults
  <2>4. (HasResults(reader.got.acts))' => payloads' # <<>>
    BY <1>9, <1>13, <2>3
  <2>5. reader'.got.valid \subseteq contents'
    BY <1>9, <1>11
  <2>6. ~reader'.dropped => reader'.got.valid \subseteq reader'.got.signed \cup reader'.act
    BY <1>6, <1>12
  <2>7. reader'.at \in 1 .. 4 /\ reader'.at # 4 /\ reader'.ended # "DONE"
    BY <1>6
  <2>. QED BY <1>6, <1>13, <2>1, <2>2, <2>4, <2>5, <2>6, <2>7 DEF ExportSound
<1>. QED BY <1>6, <1>8, <1>14 DEF ReaderSound, VerifySound

(* An act verified has its content still; a request for it that fails is   *)
(* passed over.                                                            *)
LEMMA FetchContentSound ==
  ASSUME ReaderSound, NEW a \in Actas, FetchContent(a), UNCHANGED vars
  PROVE  ReaderSound'
<1> DEFINE done == [reader EXCEPT !.todo = @ \ {a}, !.act = {}]
<1>1. /\ \/ reader' = [done EXCEPT !.got.signed = @ \cup ({a} \cap contents)]
         \/ reader' = [done EXCEPT !.dropped = TRUE]
      /\ reader.op = "EXPORT" /\ reader.at = 2 /\ reader.ended = "NO" /\ reader.act = {a}
  BY AskingPlace DEF FetchContent, Refuse
<1>2. reader \in Readers /\ reader.got \in Readings
  BY DEF ReaderSound, Readers
<1>3. /\ done \in Readers /\ done.got = reader.got /\ done.act = {} /\ done.at = 2
      /\ done.op = "EXPORT" /\ done.ended = "NO" /\ done.dropped = reader.dropped
  BY <1>1, <1>2 DEF Readers
<1> HIDE DEF done
<1>4. UNCHANGED <<payloads, contents, byConsole>>
  BY DEF vars, evidenceVars, boundVars
<1>5. CASE reader' = [done EXCEPT !.got.signed = @ \cup ({a} \cap contents)]
  <2>1. reader'.got = [reader.got EXCEPT !.signed = reader.got.signed \cup ({a} \cap contents)]
    BY <1>3, <1>5 DEF Readers
  <2>2. /\ reader'.got \in Readings /\ reader'.got.acts = reader.got.acts
        /\ reader'.got.valid = reader.got.valid
        /\ reader'.got.signed = reader.got.signed \cup ({a} \cap contents)
    BY <1>2, <2>1 DEF Readings
  <2>3. /\ reader'.op = "EXPORT" /\ reader'.at = 2 /\ reader'.ended = "NO"
        /\ reader'.act = {} /\ reader'.dropped = reader.dropped
    BY <1>3, <1>5 DEF Readers
  <2>4. reader' \in Readers
    <3>1. PICK g : g = reader'.got
      OBVIOUS
    <3>2. g \in Readings /\ reader' = [done EXCEPT !.got = g]
      BY <1>3, <1>5, <2>1, <2>2, <3>1 DEF Readers
    <3>. QED BY <1>3, <3>2 DEF Readers
  <2>5. ExportSound'
    BY <1>1, <1>4, <2>2, <2>3 DEF ReaderSound, ExportSound, Ordered, HasResults
  <2>. QED BY <2>3, <2>4, <2>5 DEF ReaderSound, VerifySound
<1>6. CASE reader' = [done EXCEPT !.dropped = TRUE]
  <2>1. /\ reader'.op = "EXPORT" /\ reader'.at = 2 /\ reader'.ended = "NO"
        /\ reader'.act = {} /\ reader'.dropped /\ reader'.got = reader.got
    BY <1>3, <1>6 DEF Readers
  <2>2. reader' \in Readers
    BY <1>3, <1>6 DEF Readers
  <2>3. ExportSound'
    BY <1>1, <1>4, <2>1 DEF ReaderSound, ExportSound, Ordered, HasResults
  <2>. QED BY <2>1, <2>2, <2>3 DEF ReaderSound, VerifySound
<1>. QED BY <1>1, <1>5, <1>6

(* Every act listed was asked for: none is half read.                      *)
LEMMA DetailsDoneSound ==
  ASSUME ReaderSound, DetailsDone, UNCHANGED vars
  PROVE  ReaderSound'
<1>1. /\ reader' = NextRequest(reader.got)
      /\ reader.op = "EXPORT" /\ reader.at = 2 /\ reader.ended = "NO" /\ reader.todo = {}
  BY AskingPlace DEF DetailsDone, Receive
<1>2. reader.got \in Readings
  BY DEF ReaderSound, Readers
<1>3. PICK got : got = reader.got
  OBVIOUS
<1>4. /\ reader' \in Readers /\ reader'.op = "EXPORT" /\ reader'.got = reader.got
      /\ reader'.act = reader.act /\ reader'.dropped = reader.dropped
      /\ reader'.at = 3 /\ reader'.ended = "NO" /\ reader'.todo = {}
  <2>1. got \in Readings
    BY <1>2, <1>3
  <2>. QED BY <1>1, <1>3, <2>1, NextRequestMoves
<1>5. UNCHANGED <<payloads, contents, byConsole>>
  BY DEF vars, evidenceVars, boundVars
<1>6. reader.act = {}
  BY <1>1 DEF ReaderSound, ExportSound
<1>7. ExportSound'
  BY <1>1, <1>4, <1>5, <1>6 DEF ReaderSound, ExportSound, Ordered, HasResults
<1>. QED BY <1>4, <1>7 DEF ReaderSound, VerifySound

(* The results are read after the acts: there are some if there is an acta *)
(* of results.                                                             *)
LEMMA FetchResultsSound ==
  ASSUME ReaderSound, payloads \in Seq(Jobs), FetchResults, UNCHANGED vars
  PROVE  ReaderSound'
<1>1. /\ reader' = NextRequest([reader.got EXCEPT !.results = Len(payloads)])
      /\ reader.op = "EXPORT" /\ reader.at = 3 /\ reader.ended = "NO"
  BY AskingPlace DEF FetchResults, Receive
<1>2. PICK got : got = [reader.got EXCEPT !.results = Len(payloads)]
  OBVIOUS
<1>3. reader.got \in Readings /\ Len(payloads) \in Nat
      /\ (payloads # <<>> => Len(payloads) > 0)
  <2>1. PICK s : s = payloads
    OBVIOUS
  <2>2. s \in Seq(Jobs) => Len(s) \in Nat /\ (s # <<>> => Len(s) > 0)
    OBVIOUS
  <2>. QED BY <2>1, <2>2 DEF ReaderSound, Readers
<1>4. /\ got \in Readings /\ got.acts = reader.got.acts /\ got.valid = reader.got.valid
      /\ got.signed = reader.got.signed /\ got.results = Len(payloads)
  BY <1>2, <1>3 DEF Readings
<1>5. /\ reader' \in Readers /\ reader'.op = "EXPORT" /\ reader'.got = got
      /\ reader'.act = reader.act /\ reader'.dropped = reader.dropped
      /\ reader'.at = 4 /\ reader'.ended = "NO" /\ reader'.todo = reader.todo
  BY <1>1, <1>2, <1>4, NextRequestMoves
<1>6. UNCHANGED <<payloads, contents, byConsole>>
  BY DEF vars, evidenceVars, boundVars
<1>7. reader.act = {}
  BY <1>1 DEF ReaderSound, ExportSound
<1>8. ExportSound'
  BY <1>1, <1>3, <1>4, <1>5, <1>6, <1>7 DEF ReaderSound, ExportSound, Ordered, HasResults
<1>. QED BY <1>5, <1>8 DEF ReaderSound, VerifySound

(* The window is the last thing asked for.                                 *)
LEMMA FetchWindowSound ==
  ASSUME ReaderSound, auditWindow \in BOOLEAN, FetchWindow, UNCHANGED vars
  PROVE  ReaderSound'
<1>1. /\ reader' = NextRequest([reader.got EXCEPT !.window = auditWindow])
      /\ reader.op = "EXPORT" /\ reader.at = 4 /\ reader.ended = "NO"
  BY AskingPlace DEF FetchWindow, Receive
<1>2. PICK got : got = [reader.got EXCEPT !.window = auditWindow]
  OBVIOUS
<1>3. reader.got \in Readings
  BY DEF ReaderSound, Readers
<1>4. /\ got \in Readings /\ got.acts = reader.got.acts /\ got.valid = reader.got.valid
      /\ got.signed = reader.got.signed /\ got.results = reader.got.results
  BY <1>2, <1>3 DEF Readings
<1>5. /\ reader' \in Readers /\ reader'.op = "EXPORT" /\ reader'.got = got
      /\ reader'.act = reader.act /\ reader'.dropped = reader.dropped
      /\ reader'.at = 4 /\ reader'.ended = "DONE" /\ reader'.todo = reader.todo
  BY <1>1, <1>2, <1>4, NextRequestMoves
<1>6. UNCHANGED <<payloads, contents, byConsole>>
  BY DEF vars, evidenceVars, boundVars
<1>7. reader.act = {}
  BY <1>1 DEF ReaderSound, ExportSound
<1>8. ExportSound'
  BY <1>1, <1>4, <1>5, <1>6, <1>7 DEF ReaderSound, ExportSound, Ordered, HasResults
<1>. QED BY <1>5, <1>8 DEF ReaderSound, VerifySound

(* A request passed over is remembered as dropped.                         *)
LEMMA PassOverSound ==
  ASSUME ReaderSound, PassOver, UNCHANGED vars
  PROVE  ReaderSound'
<1>1. /\ reader' = [NextRequest(reader.got) EXCEPT !.dropped = TRUE]
      /\ reader.op = "EXPORT" /\ reader.at \in {3, 4} /\ reader.ended = "NO"
  BY AskingPlace DEF PassOver, Refuse
<1>2. PICK got, next : got = reader.got /\ next = NextRequest(got)
  OBVIOUS
<1>3. got \in Readings
  BY <1>2 DEF ReaderSound, Readers
<1>4. /\ next \in Readers /\ next.op = "EXPORT" /\ next.got = got
      /\ next.act = reader.act /\ next.at = 4
  BY <1>1, <1>2, <1>3, NextRequestMoves
<1>5. /\ reader' \in Readers /\ reader'.op = "EXPORT" /\ reader'.got = got
      /\ reader'.act = reader.act /\ reader'.dropped /\ reader'.at = 4
  BY <1>1, <1>2, <1>4 DEF Readers
<1>6. UNCHANGED <<payloads, contents, byConsole>>
  BY DEF vars, evidenceVars, boundVars
<1>7. reader.act = {}
  BY <1>1 DEF ReaderSound, ExportSound
<1>8. ExportSound'
  BY <1>1, <1>2, <1>5, <1>6, <1>7 DEF ReaderSound, ExportSound, Ordered, HasResults
<1>. QED BY <1>5, <1>8 DEF ReaderSound, VerifySound

(* A bundle that is seen was counted, so a payload was there.              *)
LEMMA QueryBundleSound ==
  ASSUME ExportInv, BoardInv, NEW q \in Queries, QueryBundle(q), UNCHANGED vars
  PROVE  ReaderSound'
<1> DEFINE got == reader.got
           read == CASE q = "EXPORTS" -> [got EXCEPT !.materialized = bundles # <<>>]
                     [] q = "PAYLOADS" -> [got EXCEPT !.results = Len(payloads)]
                     [] q = "ACTAS" -> [got EXCEPT !.acts = contents]
<1>1. /\ reader' = [reader EXCEPT !.asked = @ \ {q}, !.got = read]
      /\ reader.op = "VERIFY" /\ reader.ended = "NO" /\ q \in reader.asked
  BY DEF QueryBundle, Running
<1>2. reader \in Readers /\ got \in Readings
  BY DEF ExportInv, ReaderSound, Readers
<1>3. Len(payloads) \in Nat /\ contents \subseteq Actas
  BY DEF BoardInv, IInv, PublicationTypeOK
<1>4. /\ read \in Readings
      /\ read.materialized => got.materialized \/ bundles # <<>>
  <2>1. CASE q = "EXPORTS"
    <3>1. read = [got EXCEPT !.materialized = bundles # <<>>]
      BY <2>1
    <3> HIDE DEF read, got
    <3>2. (bundles # <<>>) \in BOOLEAN
      OBVIOUS
    <3>. QED BY <1>2, <3>1, <3>2 DEF Readings
  <2>2. CASE q = "PAYLOADS"
    <3>1. read = [got EXCEPT !.results = Len(payloads)]
      BY <2>2
    <3> HIDE DEF read, got
    <3>. QED BY <1>2, <1>3, <3>1 DEF Readings
  <2>3. CASE q = "ACTAS"
    <3>1. read = [got EXCEPT !.acts = contents]
      BY <2>3
    <3> HIDE DEF read, got
    <3>. QED BY <1>2, <1>3, <3>1 DEF Readings
  <2>. QED BY <2>1, <2>2, <2>3 DEF Queries
<1>5. PICK r : r = read
  OBVIOUS
<1>6. reader' = [reader EXCEPT !.asked = @ \ {q}, !.got = r] /\ r \in Readings
  BY <1>1, <1>4, <1>5
<1>7. /\ reader' \in Readers /\ reader'.op = "VERIFY" /\ reader'.at = reader.at
      /\ reader'.ended = "NO" /\ reader'.got = r
  BY <1>1, <1>2, <1>6 DEF Readers
<1>8. r.materialized => got.materialized \/ bundles # <<>>
  BY <1>4, <1>5
<1> HIDE DEF read
<1>9. Evidenced' <=> Evidenced
  BY DEF Evidenced, vars, evidenceVars, boundVars
<1>10. reader.at = 1
  <2>1. reader.at \in 1 .. 2 /\ (reader.at = 2 => reader.asked = {})
    BY <1>1 DEF ExportInv, ReaderSound, VerifySound
  <2>. QED BY <1>1, <2>1
<1>11. r.materialized => Evidenced
  BY <1>1, <1>8 DEF ExportInv, ReaderSound, VerifySound, StoreSound
<1>12. VerifySound'
  BY <1>7, <1>9, <1>10, <1>11 DEF VerifySound
<1>. QED BY <1>7, <1>12 DEF ReaderSound, ExportSound

(* The results of a bundle are asked for after the bundle.                 *)
LEMMA FetchDetailedResultSound ==
  ASSUME ReaderSound, payloads \in Seq(Jobs), FetchDetailedResult, UNCHANGED vars
  PROVE  ReaderSound'
<1> DEFINE next == [reader EXCEPT !.at = 2, !.todo = reader.got.acts]
<1>1. /\ \/ reader' = [next EXCEPT !.got.detailed = Len(payloads)]
         \/ reader' = [next EXCEPT !.dropped = TRUE]
      /\ reader.op = "VERIFY" /\ reader.asked = {} /\ reader.at = 1 /\ reader.ended = "NO"
  BY DEF FetchDetailedResult, Running, Refuse
<1>2. reader \in Readers /\ reader.got \in Readings
  BY DEF ReaderSound, Readers
<1>3. reader.got.acts \in SUBSET Actas
  BY <1>2 DEF Readings
<1>4. /\ next \in Readers /\ next.op = "VERIFY" /\ next.at = 2 /\ next.ended = "NO"
      /\ next.asked = {} /\ next.got = reader.got /\ next.dropped = reader.dropped
  <2>1. PICK acts : acts = reader.got.acts
    OBVIOUS
  <2>2. acts \in SUBSET Actas /\ next = [reader EXCEPT !.at = 2, !.todo = acts]
    BY <1>3, <2>1
  <2> HIDE DEF next
  <2>3. next \in Readers
    <3>1. PICK n : n = 2 /\ n \in 0 .. 4
      OBVIOUS
    <3>2. next = [reader EXCEPT !.at = n, !.todo = acts]
      BY <2>2, <3>1
    <3>. QED BY <1>2, <2>2, <3>1, <3>2 DEF Readers
  <2>4. /\ next.op = reader.op /\ next.at = 2 /\ next.ended = reader.ended
        /\ next.asked = reader.asked /\ next.got = reader.got /\ next.dropped = reader.dropped
    BY <1>2, <2>2 DEF Readers
  <2>. QED BY <1>1, <2>3, <2>4
<1> HIDE DEF next
<1>5. UNCHANGED <<payloads, byConsole>> /\ (Evidenced' <=> Evidenced)
  BY DEF Evidenced, vars, evidenceVars, boundVars
<1>6. Len(payloads) \in Nat /\ (payloads # <<>> => Len(payloads) > 0)
  <2>1. PICK s : s = payloads
    OBVIOUS
  <2>2. s \in Seq(Jobs) => Len(s) \in Nat /\ (s # <<>> => Len(s) > 0)
    OBVIOUS
  <2>. QED BY <2>1, <2>2
<1>7. reader.got.materialized => Evidenced
  BY <1>1 DEF ReaderSound, VerifySound
<1>8. CASE reader' = [next EXCEPT !.got.detailed = Len(payloads)]
  <2>1. PICK g : g = [reader.got EXCEPT !.detailed = Len(payloads)]
    OBVIOUS
  <2>2. g \in Readings /\ g.detailed = Len(payloads) /\ g.materialized = reader.got.materialized
    BY <1>2, <1>6, <2>1 DEF Readings
  <2>3. reader' = [next EXCEPT !.got = g]
    BY <1>4, <1>8, <2>1 DEF Readers
  <2>4. /\ reader' \in Readers /\ reader'.op = "VERIFY" /\ reader'.at = 2
        /\ reader'.asked = {} /\ reader'.ended = "NO" /\ reader'.got = g
    BY <1>4, <2>2, <2>3 DEF Readers
  <2>5. VerifySound'
    BY <1>5, <1>6, <1>7, <2>2, <2>4 DEF VerifySound, Evidenced
  <2>. QED BY <2>4, <2>5 DEF ReaderSound, ExportSound
<1>9. CASE reader' = [next EXCEPT !.dropped = TRUE]
  <2>1. /\ reader' \in Readers /\ reader'.op = "VERIFY" /\ reader'.at = 2 /\ reader'.dropped
        /\ reader'.asked = {} /\ reader'.ended = "NO" /\ reader'.got = reader.got
    BY <1>4, <1>9 DEF Readers
  <2>2. VerifySound'
    BY <1>5, <1>7, <2>1 DEF VerifySound
  <2>. QED BY <2>1, <2>2 DEF ReaderSound, ExportSound
<1>. QED BY <1>1, <1>8, <1>9

(* The verification of an acta changes nothing of what was read before.    *)
LEMMA VerifyBundleActaSound ==
  ASSUME ReaderSound, NEW a \in Actas, VerifyBundleActa(a), UNCHANGED vars
  PROVE  ReaderSound'
<1> DEFINE new == {b \in {a} : VerificationStatus(b) = "VALID"}
<1>1. /\ \/ reader' = [reader EXCEPT !.todo = @ \ {a}, !.got.valid = @ \cup new]
         \/ reader' = [reader EXCEPT !.todo = @ \ {a}, !.dropped = TRUE]
      /\ reader.op = "VERIFY" /\ reader.at = 2 /\ reader.ended = "NO"
  BY DEF VerifyBundleActa, Running, Refuse
<1>2. reader \in Readers /\ reader.got \in Readings /\ new \subseteq Actas
  BY DEF ReaderSound, Readers
<1> HIDE DEF new
<1>3. UNCHANGED <<payloads, byConsole>> /\ (Evidenced' <=> Evidenced)
  BY DEF Evidenced, vars, evidenceVars, boundVars
<1>4. CASE reader' = [reader EXCEPT !.todo = @ \ {a}, !.got.valid = @ \cup new]
  <2>1. PICK g : g = [reader.got EXCEPT !.valid = reader.got.valid \cup new]
    OBVIOUS
  <2>2. /\ g \in Readings /\ g.detailed = reader.got.detailed
        /\ g.materialized = reader.got.materialized
    BY <1>2, <2>1 DEF Readings
  <2>3. reader' = [reader EXCEPT !.todo = @ \ {a}, !.got = g]
    BY <1>2, <1>4, <2>1 DEF Readers
  <2>4. /\ reader' \in Readers /\ reader'.op = "VERIFY" /\ reader'.at = 2
        /\ reader'.asked = reader.asked /\ reader'.ended = "NO" /\ reader'.got = g
        /\ reader'.dropped = reader.dropped
    BY <1>1, <1>2, <2>2, <2>3 DEF Readers
  <2>5. VerifySound'
    BY <1>1, <1>3, <2>2, <2>4 DEF ReaderSound, VerifySound
  <2>. QED BY <2>4, <2>5 DEF ReaderSound, ExportSound
<1>5. CASE reader' = [reader EXCEPT !.todo = @ \ {a}, !.dropped = TRUE]
  <2>1. /\ reader' \in Readers /\ reader'.op = "VERIFY" /\ reader'.at = 2 /\ reader'.dropped
        /\ reader'.asked = reader.asked /\ reader'.ended = "NO" /\ reader'.got = reader.got
    BY <1>1, <1>2, <1>5 DEF Readers
  <2>2. VerifySound'
    BY <1>1, <1>3, <2>1 DEF ReaderSound, VerifySound
  <2>. QED BY <2>1, <2>2 DEF ReaderSound, ExportSound
<1>. QED BY <1>1, <1>4, <1>5

(* The report is what was read.                                            *)
LEMMA ReportBundleSound ==
  ASSUME ReaderSound, ReportBundle, UNCHANGED vars
  PROVE  ReaderSound'
<1>1. reader' = [reader EXCEPT !.ended = "DONE"] /\ reader.op = "VERIFY" /\ reader.at = 2
  BY DEF ReportBundle, Running
<1>2. /\ reader' \in Readers /\ reader'.op = "VERIFY" /\ reader'.at = 2
      /\ reader'.asked = reader.asked /\ reader'.got = reader.got
      /\ reader'.dropped = reader.dropped
  BY <1>1 DEF ReaderSound, Readers
<1>3. byConsole' = byConsole /\ (Evidenced' <=> Evidenced)
  BY DEF Evidenced, vars, evidenceVars, boundVars
<1>4. VerifySound'
  BY <1>1, <1>2, <1>3 DEF ReaderSound, VerifySound
<1>. QED BY <1>2, <1>4 DEF ReaderSound, ExportSound

-----------------------------------------------------------------------------
(* Theorems about the evidence that leaves the system                      *)

(* Every step of the board, of the indexer and of a command keeps both     *)
(* invariants.                                                             *)
LEMMA ExportStepSound ==
  ASSUME BoardInv, ExportInv, [ExportNext]_<<vars, exportVars>>
  PROVE  BoardInv' /\ ExportInv'
<1>1. CASE Next /\ UNCHANGED exportVars
  <2>1. BoardInv'
    BY <1>1, InvStep, AnchorsWithPayload DEF BoardInv
  <2>2. BoardGrows /\ UNCHANGED <<bundleVars, reader>>
    BY <1>1, StepGrows DEF BoardInv, exportVars, bundleVars
  <2>. QED BY <2>1, <2>2, ReaderUnmoved, StoreUnmoved DEF ExportInv
<1>2. CASE ExportStep /\ UNCHANGED vars
  <2>1. BoardInv'
    <3>1. IInv'
      BY <1>2, InvStep DEF BoardInv
    <3>. QED BY <1>2, <3>1 DEF BoardInv, ResultsHavePayload, vars, chainVars, evidenceVars
  <2>2. payloads \in Seq(Jobs) /\ auditWindow \in BOOLEAN
    BY DEF BoardInv, IInv, PublicationTypeOK
  <2>3. CASE \E a \in Actas : IndexAnchor(a)
    BY <1>2, <2>1, <2>3, IndexAnchorSound
  <2>4. CASE CountEvidence
    BY <1>2, <2>1, <2>4, CountEvidenceSound
  <2>5. CASE InsertBundle
    BY <1>2, <2>1, <2>5, InsertBundleSound
  <2>6. CASE ReaderStep
    <3>1. UNCHANGED bundleVars
      BY <2>6 DEF ReaderStep, StartCommand, CommandFails, ListActs, DetailsDone, FetchResults,
                  FetchWindow, PassOver, FetchAct, FetchContent, VerifyBundleActa, QueryBundle,
                  FetchDetailedResult, ReportBundle, Receive, Refuse
    <3>2. StoreSound'
      BY <1>2, <3>1, BoardStands, StoreUnmoved DEF ExportInv
    <3>3. ReaderSound'
      BY <1>2, <2>2, <2>6, StartCommandSound, CommandFailsSound, ListActsSound,
         DetailsDoneSound, FetchResultsSound, FetchWindowSound, PassOverSound, FetchActSound,
         FetchContentSound, VerifyBundleActaSound, QueryBundleSound,
         FetchDetailedResultSound, ReportBundleSound
         DEF ReaderStep, ExportInv
    <3>. QED BY <2>1, <3>2, <3>3 DEF ExportInv
  <2>. QED BY <1>2, <2>3, <2>4, <2>5, <2>6 DEF ExportStep
<1>3. CASE UNCHANGED <<vars, exportVars>>
  <2>1. BoardInv'
    <3>1. IInv'
      BY <1>3, InvStep DEF BoardInv
    <3>. QED BY <1>3, <3>1 DEF BoardInv, ResultsHavePayload, vars, chainVars, evidenceVars
  <2>2. BoardGrows /\ UNCHANGED <<bundleVars, reader>>
    BY <1>3, BoardStands DEF exportVars, bundleVars
  <2>. QED BY <2>1, <2>2, ReaderUnmoved, StoreUnmoved DEF ExportInv
<1>. QED BY <1>1, <1>2, <1>3 DEF ExportNext

(* Nothing is indexed, counted or read at first.                           *)
LEMMA ExportInitSound ==
  ASSUME Init, ExportInit
  PROVE  BoardInv /\ ExportInv
<1>1. BoardInv
  BY InvInit DEF BoardInv, ResultsHavePayload, Init
<1>2. StoreSound
  BY DEF ExportInit, StoreSound, Ordered
<1>3. Nothing \in Readings
  BY DEF Nothing, Readings
<1>4. reader \in Readers /\ reader.op = "NONE"
  BY <1>3 DEF ExportInit, IdleReader, Readers
<1>. QED BY <1>1, <1>2, <1>4 DEF ExportInv, ReaderSound, ExportSound, VerifySound

(* Whoever publishes, and whatever is indexed and read in between: what a  *)
(* command has read is still there, or it knows that something was         *)
(* dropped.                                                                *)
THEOREM ExportInvariant == ExportSpec => [](BoardInv /\ ExportInv)
BY ExportInitSound, ExportStepSound, PTL DEF ExportSpec

(* What leaves the system hangs together although it is read in pieces     *)
(* while the board publishes, for any number of clicks, faults, commands   *)
(* and failed requests.                                                    *)
THEOREM BundlesAreBacked == ExportSpec => []BundlesBacked
<1>1. BoardInv /\ ExportInv => BundlesBacked
  <2> SUFFICES ASSUME ExportInv PROVE BundlesBacked
    OBVIOUS
  <2>1. \A i \in DOMAIN bundles : bundles[i].results > 0 \/ byConsole
    BY DEF ExportInv, StoreSound
  <2>2. reader.op = "EXPORT" /\ reader.ended = "DONE" /\ ~reader.dropped =>
          /\ \A j \in Jobs : ActaResultados(j) \in reader.got.acts =>
               ActaEscrutinio(j) \in reader.got.acts /\ reader.got.results > 0
          /\ reader.got.valid \subseteq reader.got.signed
    <3> SUFFICES ASSUME reader.op = "EXPORT", reader.ended = "DONE", ~reader.dropped
                 PROVE  /\ \A j \in Jobs : ActaResultados(j) \in reader.got.acts =>
                             ActaEscrutinio(j) \in reader.got.acts /\ reader.got.results > 0
                        /\ reader.got.valid \subseteq reader.got.signed
      OBVIOUS
    <3>1. ExportSound
      BY DEF ExportInv, ReaderSound
    <3>2. reader.at = 4 /\ reader.act = {}
      BY <3>1 DEF ExportSound
    <3>. QED BY <3>1, <3>2 DEF ExportSound, Ordered, HasResults
  <2>3. reader.op = "VERIFY" /\ reader.ended = "DONE" /\ ~reader.dropped
          /\ reader.got.materialized => reader.got.detailed > 0 \/ byConsole
    BY DEF ExportInv, ReaderSound, VerifySound
  <2>. QED BY <2>1, <2>2, <2>3 DEF BundlesBacked
<1>. QED BY <1>1, ExportInvariant, PTL

=============================================================================
