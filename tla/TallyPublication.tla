-------------------------- MODULE TallyPublication --------------------------
(***************************************************************************)
(* From the close of voting to the audit window of one election: the page  *)
(* apps/tally-board/src/app/tally/[electionId] and the server actions its  *)
(* buttons run, one after the other, against the registry and the tables   *)
(* the actions keep.                                                       *)
(*                                                                         *)
(* A run is one click: it processes the ballots into a tally job, proves   *)
(* the job's transcript, submits the proofs to the chain, or publishes.    *)
(* Each await is a step, so runs of several pages (and of one page clicked *)
(* twice) interleave; a run can stop between any two steps, which is also  *)
(* what it does when a call fails, its effect done or not.  A page that    *)
(* has processed the ballots can stay open for ever, so pages are known by *)
(* the tally job they show.  The authority console moves phases as well.   *)
(***************************************************************************)
EXTENDS Integers, Sequences, FiniteSets

CONSTANTS
  Runs,        \* clicks that can be under way at once
  MaxJobs,     \* bound: processings ever begun
  MaxFaults    \* bound: runs cut short, writes that fail unnoticed, chain rewrites

ASSUME PublicationBoundsAssumption ==
  MaxJobs \in Nat /\ MaxFaults \in Nat
ASSUME FiniteRunsAssumption == IsFiniteSet(Runs)

VOTING_OPEN == 3 \* and what comes before it
VOTING_CLOSED == 4
TALLYING == 6
RESULTS_PUBLISHED == 7
AUDIT_WINDOW == 8 \* and the archive after it, which makes no difference here

Circuits == {"TALLY", "DECRYPTION"}
ProofStatuses == {"none", "BUILDING", "PROVED", "FAILED", "VERIFIED_OFFCHAIN",
                  "VERIFIED_ONCHAIN"}
ProofStates == {"NOT_IMPLEMENTED", "TRANSCRIPT_COMMITTED", "TALLY_VERIFIED_ONCHAIN",
                "VERIFIED"}
Jobs == 1 .. MaxJobs

(* The acta of a count and that of the results carry what the page counted. *)
(* The latter also names the hash of the payload the page was told of,     *)
(* which in a race may be another page's; nothing here depends on it.      *)
ActaEscrutinio(j) == [kind |-> "ACTA_ESCRUTINIO", job |-> j]
ActaResultados(j) == [kind |-> "ACTA_RESULTADOS", job |-> j]
Actas == [kind : {"ACTA_ESCRUTINIO", "ACTA_RESULTADOS"}, job : Jobs]

VARIABLES
  phase, verified,      \* the registry: phase, and circuits recorded as verified
  committed, anchored,  \* its events: transcripts committed to, actas anchored
  transcript,           \* what each job counted: "right", or "wrong" by a bad share
  tallyJobs,            \* tally_jobs
  proofs,               \* zk_proof_jobs: the status of each job's two proofs
  payloads,             \* result_payloads, in created_at order: the jobs they are of
  contents,             \* acta_contents
  auditWindow,          \* audit_windows
  run,                  \* the runs under way
  started, faults, rewrites,
  byConsole             \* the console moved the election out of TALLYING or further

chainVars == <<phase, verified, committed, anchored>>
jobVars == <<transcript, tallyJobs, proofs>>
evidenceVars == <<payloads, contents, auditWindow>>
boundVars == <<started, faults, rewrites, byConsole>>
vars == <<chainVars, jobVars, evidenceVars, run, boundVars>>

Idle == [pc |-> "idle"]
NoTallyJob == [status |-> "none", proofState |-> "NOT_IMPLEMENTED"]

Init ==
  /\ phase = VOTING_OPEN /\ verified = {}
  /\ committed = {} /\ anchored = {}
  /\ transcript = [j \in Jobs |-> "none"]
  /\ tallyJobs = [j \in Jobs |-> NoTallyJob]
  /\ proofs = [j \in Jobs |-> [c \in Circuits |-> "none"]]
  /\ payloads = <<>> /\ contents = {}
  /\ auditWindow = FALSE
  /\ run = [r \in Runs |-> Idle]
  /\ started = 0 /\ faults = 0 /\ rewrites = 0
  /\ byConsole = FALSE

-----------------------------------------------------------------------------
At(r, pc) == run[r].pc = pc
Goto(r, pc) == run' = [run EXCEPT ![r].pc = pc]
Stop(r) == run' = [run EXCEPT ![r] = Idle]
Start(r, op, pc, j) ==
  /\ run[r] = Idle
  /\ run' = [run EXCEPT ![r] = [op |-> op, pc |-> pc, job |-> j, circuit |-> "TALLY",
                                seen |-> 0, proofState |-> "NOT_IMPLEMENTED"]]

Job(r) == run[r].job

(* Mutant: the gate forgets the proof of the decryption.                   *)
GateOfTallyOnly(j) == proofs[j]["TALLY"] # "none" /\ "TALLY" \in verified

(* loadZkPublicationGateState, for the job the page asks about.  The rows  *)
(* are read before the flags; a row once there stays, so the gate is what  *)
(* it is when the flags are read.  That the job's own proofs are verified  *)
(* is not asked: the flags are those of the election.                      *)
GateReady(j) == proofs[j]["TALLY"] # "none" /\ verified = Circuits
GateProofState(j) ==
  CASE GateReady(j) -> "VERIFIED"
    [] ~GateReady(j) /\ "TALLY" \in verified -> "TALLY_VERIFIED_ONCHAIN"
    [] ~GateReady(j) /\ "TALLY" \notin verified -> "TRANSCRIPT_COMMITTED"
(* The jobs a page shows as processed.                                     *)
Pages == {j \in Jobs : ActaEscrutinio(j) \in contents}

GateReadyForAnyJob == \E j \in Jobs : GateReady(j)

-----------------------------------------------------------------------------
(* handleStartTally: computeRealTallyAction, which leaves an incident and  *)
(* nothing else when it fails.  The key comes from a ceremony, which takes *)
(* the close of voting; a share corrected since, or a bad one, makes two   *)
(* computations differ.                                                    *)
ProcessBallots(r) ==
  /\ started < MaxJobs
  /\ started' = started + 1
  /\ phase >= VOTING_CLOSED
  /\ \E count \in {"right", "wrong"} :
       transcript' = [transcript EXCEPT ![started + 1] = count]
  /\ Start(r, "process", "job", started + 1)
  /\ UNCHANGED <<chainVars, tallyJobs, proofs, evidenceVars, faults, rewrites, byConsole>>

(* createProcessingBatchAction, the updates of the batch's status, which   *)
(* nobody reads, and createTallyJobAction.                                 *)
CreateTallyJob(r) ==
  /\ At(r, "job")
  /\ tallyJobs' = [tallyJobs EXCEPT ![Job(r)].status = "RUNNING"]
  /\ Goto(r, "ensureTallying")
  /\ UNCHANGED <<chainVars, transcript, proofs, evidenceVars, boundVars>>

(* ensureTallyingPhaseAction: read the phase, move it, read it again.      *)
ReadPhase(r) ==
  /\ At(r, "ensureTallying")
  /\ \/ phase = TALLYING /\ Goto(r, "commit")
     \/ phase < TALLYING /\ run' = [run EXCEPT ![r].pc = "move", ![r].seen = phase]
     \/ phase > TALLYING /\ Stop(r)
  /\ UNCHANGED <<chainVars, jobVars, evidenceVars, boundVars>>

MovePhase(r) ==
  /\ At(r, "move")
  /\ IF phase = run[r].seen
     THEN phase' = phase + 1 /\ run' = [run EXCEPT ![r].pc = "ensureTallying", ![r].seen = 0]
     ELSE UNCHANGED phase /\ Stop(r)
  /\ UNCHANGED <<verified, committed, anchored, jobVars, evidenceVars, boundVars>>

CommitTranscript(r) ==
  /\ At(r, "commit")
  /\ IF phase = TALLYING
     THEN committed' = committed \cup {Job(r)} /\ Goto(r, "update")
     ELSE UNCHANGED committed /\ Stop(r)
  /\ UNCHANGED <<phase, verified, anchored, jobVars, evidenceVars, boundVars>>

UpdateTallyJobStatus(r) ==
  /\ At(r, "update")
  /\ tallyJobs' = [tallyJobs EXCEPT ![Job(r)] =
       [status |-> "COMPLETED", proofState |-> "TRANSCRIPT_COMMITTED"]]
  /\ Goto(r, "acta")
  /\ UNCHANGED <<chainVars, transcript, proofs, evidenceVars, boundVars>>

(* The page does not look at what the action returned: the job stays as it *)
(* is and the page goes on.                                                *)
UpdateTallyJobFails(r) ==
  /\ At(r, "update")
  /\ faults < MaxFaults
  /\ faults' = faults + 1
  /\ Goto(r, "acta")
  /\ UNCHANGED <<chainVars, jobVars, evidenceVars, started, rewrites, byConsole>>

-----------------------------------------------------------------------------
(* publishActaWithContentAction, for both actas.                           *)
ActaOf(r) ==
  IF run[r].op = "process" THEN ActaEscrutinio(Job(r)) ELSE ActaResultados(Job(r))

(* The anchor may be in the indexer's table already, or has to be made.    *)
AnchorActa(r) ==
  /\ At(r, "acta")
  /\ anchored' = anchored \cup {ActaOf(r)}
  /\ Goto(r, "content")
  /\ UNCHANGED <<phase, verified, committed, jobVars, evidenceVars, boundVars>>

PersistActaContent(r) ==
  /\ At(r, "content")
  /\ contents' = contents \cup {ActaOf(r)}
  /\ IF run[r].op = "process"
     THEN Stop(r)
     ELSE Goto(r, "advance")
  /\ UNCHANGED <<chainVars, jobVars, payloads, auditWindow, boundVars>>

-----------------------------------------------------------------------------
(* generateZkProofAction.  The button goes away when it is clicked, so a   *)
(* page proves its job once.                                               *)
SetProof(j, c, status) == proofs' = [proofs EXCEPT ![j][c] = status]

BeginProving(r) ==
  \E j \in Pages :
    /\ proofs[j]["TALLY"] = "none"
    /\ Start(r, "generate", "prove", j)
    /\ SetProof(j, "TALLY", "BUILDING")
    /\ UNCHANGED <<chainVars, transcript, tallyJobs, evidenceVars, boundVars>>

ProofFails(r, c) == SetProof(Job(r), c, "FAILED") /\ Stop(r)

ProveTally(r) ==
  /\ At(r, "prove")
  /\ \/ SetProof(Job(r), "TALLY", "PROVED") /\ Goto(r, "verify")
     \/ ProofFails(r, "TALLY")
  /\ UNCHANGED <<chainVars, transcript, tallyJobs, evidenceVars, boundVars>>

VerifyTallyOffchain(r) ==
  /\ At(r, "verify")
  /\ \/ SetProof(Job(r), "TALLY", "VERIFIED_OFFCHAIN") /\ Goto(r, "key")
     \/ ProofFails(r, "TALLY")
  /\ UNCHANGED <<chainVars, transcript, tallyJobs, evidenceVars, boundVars>>

(* The ballots and the key are read again before the decryption's row.     *)
ResolveKey(r) ==
  /\ At(r, "key")
  /\ \/ SetProof(Job(r), "DECRYPTION", "BUILDING") /\ Goto(r, "proveDecryption")
     \/ ProofFails(r, "DECRYPTION")
  /\ UNCHANGED <<chainVars, transcript, tallyJobs, evidenceVars, boundVars>>

(* Mutant: the row is written without looking at what the check returned.  *)
DecryptionUnchecked(r) ==
  /\ At(r, "proveDecryption")
  /\ SetProof(Job(r), "DECRYPTION", "VERIFIED_OFFCHAIN") /\ Stop(r)
  /\ UNCHANGED <<chainVars, transcript, tallyJobs, evidenceVars, boundVars>>

(* No witness decrypts the ballots to anything but the right count.        *)
ProveDecryption(r) ==
  /\ At(r, "proveDecryption")
  /\ \/ /\ transcript[Job(r)] = "right"
        /\ SetProof(Job(r), "DECRYPTION", "VERIFIED_OFFCHAIN") /\ Stop(r)
     \/ ProofFails(r, "DECRYPTION")
  /\ UNCHANGED <<chainVars, transcript, tallyJobs, evidenceVars, boundVars>>

(* The failure of the decryption cannot be recorded: the outer catch marks *)
(* the tally's row, verified as it is, FAILED.                             *)
FailureUnrecorded(r) ==
  /\ run[r].pc \in {"key", "proveDecryption"}
  /\ faults < MaxFaults
  /\ faults' = faults + 1
  /\ ProofFails(r, "TALLY")
  /\ UNCHANGED <<chainVars, transcript, tallyJobs, evidenceVars, started,
                 rewrites, byConsole>>

-----------------------------------------------------------------------------
(* submitOnchainZkProofAction: the tally's proof, then the decryption's of *)
(* the same job.  The button shows once both are there, and is disabled    *)
(* while a submission of its page is under way.                            *)
BeginSubmission(r) ==
  \E j \in Pages :
    /\ proofs[j]["DECRYPTION"] \in {"VERIFIED_OFFCHAIN", "VERIFIED_ONCHAIN"}
    /\ \A other \in Runs : ~(run[other] # Idle /\ run[other].op = "submit"
                             /\ run[other].job = j)
    /\ Start(r, "submit", "row", j)
    /\ UNCHANGED <<chainVars, jobVars, evidenceVars, boundVars>>

ReadProofRow(r) ==
  /\ At(r, "row")
  /\ LET status == proofs[Job(r)][run[r].circuit] IN
       \/ status = "VERIFIED_ONCHAIN" /\ Goto(r, "still")
       \/ status \in {"VERIFIED_OFFCHAIN", "PROVED"} /\ Goto(r, "verifier")
       \/ status \in {"none", "BUILDING", "FAILED"} /\ Stop(r)
  /\ UNCHANGED <<chainVars, jobVars, evidenceVars, boundVars>>

(* On to the next circuit, or to the gate.                                 *)
NextCircuit(r) ==
  IF run[r].circuit = "TALLY"
  THEN run' = [run EXCEPT ![r].circuit = "DECRYPTION", ![r].pc = "row"]
  ELSE Goto(r, "gateState")

StillVerified(r) ==
  /\ At(r, "still")
  /\ IF run[r].circuit \in verified THEN NextCircuit(r) ELSE Goto(r, "stale")
  /\ UNCHANGED <<chainVars, jobVars, evidenceVars, boundVars>>

(* The row is reset, but not the job in memory, whose VERIFIED_ONCHAIN is  *)
(* then no status to submit from.                                          *)
ResetStaleProof(r) ==
  /\ At(r, "stale")
  /\ SetProof(Job(r), run[r].circuit, "VERIFIED_OFFCHAIN")
  /\ Stop(r)
  /\ UNCHANGED <<chainVars, transcript, tallyJobs, evidenceVars, boundVars>>

(* The verifier contract's transaction: it records the proof in the        *)
(* registry, which takes it only while tallying.                           *)
CallVerifier(r) ==
  /\ At(r, "verifier")
  /\ IF phase = TALLYING
     THEN verified' = verified \cup {run[r].circuit} /\ Goto(r, "flag")
     ELSE UNCHANGED verified /\ Stop(r)
  /\ UNCHANGED <<phase, committed, anchored, jobVars, evidenceVars, boundVars>>

ReadFlag(r) ==
  /\ At(r, "flag")
  /\ IF run[r].circuit \in verified THEN Goto(r, "mark") ELSE Stop(r)
  /\ UNCHANGED <<chainVars, jobVars, evidenceVars, boundVars>>

MarkVerifiedOnchain(r) ==
  /\ At(r, "mark")
  /\ SetProof(Job(r), run[r].circuit, "VERIFIED_ONCHAIN")
  /\ NextCircuit(r)
  /\ UNCHANGED <<chainVars, transcript, tallyJobs, evidenceVars, boundVars>>

LoadGateState(r) ==
  /\ At(r, "gateState")
  /\ run' = [run EXCEPT ![r].pc = "proofState", ![r].proofState = GateProofState(Job(r))]
  /\ UNCHANGED <<chainVars, jobVars, evidenceVars, boundVars>>

UpdateProofState(r) ==
  /\ At(r, "proofState")
  /\ tallyJobs' = [tallyJobs EXCEPT ![Job(r)].proofState = run[r].proofState]
  /\ Stop(r)
  /\ UNCHANGED <<chainVars, transcript, proofs, evidenceVars, boundVars>>

-----------------------------------------------------------------------------
(* handlePublishResults, with its first look at the phase.  The button     *)
(* shows while the gate last read is open, and nothing disables it while a *)
(* publication is under way.                                               *)
BeginPublication(r) ==
  \E j \in Pages :
    /\ GateReady(j)
    /\ Start(r, "publish", IF phase >= RESULTS_PUBLISHED THEN "audit" ELSE "gate", j)
    /\ UNCHANGED <<chainVars, jobVars, evidenceVars, boundVars>>

(* The page's look at the gate, and createResultPayloadAction's own.       *)
PassGate(r) ==
  /\ At(r, "gate")
  /\ IF GateReady(Job(r)) THEN Goto(r, "payloadGate") ELSE Stop(r)
  /\ UNCHANGED <<chainVars, jobVars, evidenceVars, boundVars>>

PassPayloadGate(r) ==
  /\ At(r, "payloadGate")
  /\ IF GateReady(Job(r)) THEN Goto(r, "existing") ELSE Stop(r)
  /\ UNCHANGED <<chainVars, jobVars, evidenceVars, boundVars>>

(* A payload that is there already, of whichever job, is the answer.       *)
FindPayload(r) ==
  /\ At(r, "existing")
  /\ IF payloads # <<>> THEN Goto(r, "acta") ELSE Goto(r, "insert")
  /\ UNCHANGED <<chainVars, jobVars, evidenceVars, boundVars>>

(* Mutant: the phase moves before the acta of results is made.             *)
InsertPayloadAndAdvance(r) ==
  /\ At(r, "insert")
  /\ payloads' = Append(payloads, Job(r))
  /\ Goto(r, "advance")
  /\ UNCHANGED <<chainVars, jobVars, contents, auditWindow, boundVars>>

InsertPayload(r) ==
  /\ At(r, "insert")
  /\ payloads' = Append(payloads, Job(r))
  /\ Goto(r, "acta")
  /\ UNCHANGED <<chainVars, jobVars, contents, auditWindow, boundVars>>

(* advanceToResultsPublishedAction: the gate for whichever job comes       *)
(* first, the phase and the flags, then the transaction.                   *)
AdvanceToResults(r) ==
  /\ At(r, "advance")
  /\ \/ GateReadyForAnyJob /\ phase >= RESULTS_PUBLISHED /\ Goto(r, "audit")
     \/ GateReadyForAnyJob /\ phase = TALLYING /\ Goto(r, "publishResults")
     \/ ~GateReadyForAnyJob /\ Stop(r)
  /\ UNCHANGED <<chainVars, jobVars, evidenceVars, boundVars>>

PublishResults(r) ==
  /\ At(r, "publishResults")
  /\ IF phase = TALLYING /\ verified = Circuits
     THEN phase' = RESULTS_PUBLISHED /\ Goto(r, "audit")
     ELSE UNCHANGED phase /\ Stop(r)
  /\ UNCHANGED <<verified, committed, anchored, jobVars, evidenceVars, boundVars>>

(* openAuditWindowAction: the phase, the transaction, the row.  What comes *)
(* after it, persistAuditBundleAction, adds a count of the tables to       *)
(* audit_bundle_exports, which nothing here reads.                         *)
ReadAuditPhase(r) ==
  /\ At(r, "audit")
  /\ \/ phase >= AUDIT_WINDOW /\ Stop(r)
     \/ phase = RESULTS_PUBLISHED /\ Goto(r, "openAudit")
  /\ UNCHANGED <<chainVars, jobVars, evidenceVars, boundVars>>

OpenAuditWindow(r) ==
  /\ At(r, "openAudit")
  /\ IF phase = RESULTS_PUBLISHED
     THEN phase' = AUDIT_WINDOW /\ Goto(r, "auditRow")
     ELSE UNCHANGED phase /\ Stop(r)
  /\ UNCHANGED <<verified, committed, anchored, jobVars, evidenceVars, boundVars>>

InsertAuditWindow(r) ==
  /\ At(r, "auditRow")
  /\ auditWindow' = TRUE
  /\ Stop(r)
  /\ UNCHANGED <<chainVars, jobVars, payloads, contents, boundVars>>

-----------------------------------------------------------------------------
(* The rest of the world.                                                  *)

(* transitionPhaseAction of the authority console, which asks for neither  *)
(* payload nor acta.                                                       *)
ConsoleTransition ==
  /\ phase < AUDIT_WINDOW
  /\ phase = TALLYING => verified = Circuits
  /\ phase' = phase + 1
  /\ byConsole' = (byConsole \/ phase >= TALLYING)
  /\ UNCHANGED <<verified, committed, anchored, jobVars, evidenceVars, run,
                 started, faults, rewrites>>

(* The server or the tab dies, or a call fails and its error ends the run. *)
CutShort(r) ==
  /\ run[r] # Idle
  /\ faults < MaxFaults
  /\ faults' = faults + 1
  /\ Stop(r)
  /\ UNCHANGED <<chainVars, jobVars, evidenceVars, started, rewrites, byConsole>>

(* The chain drops the block of a proof before the results are published;  *)
(* the other transactions of the block are mined again.                    *)
RewriteChain ==
  /\ faults < MaxFaults
  /\ rewrites' = rewrites + 1
  /\ phase = TALLYING
  /\ \E c \in verified : verified' = verified \ {c}
  /\ faults' = faults + 1
  /\ UNCHANGED <<phase, committed, anchored, jobVars, evidenceVars, run, started,
                 byConsole>>

ProcessStep(r) ==
  \/ CreateTallyJob(r)
  \/ ReadPhase(r) \/ MovePhase(r) \/ CommitTranscript(r) \/ UpdateTallyJobStatus(r)
  \/ UpdateTallyJobFails(r)
ActaStep(r) == AnchorActa(r) \/ PersistActaContent(r)
ProveStep(r) ==
  \/ ProveTally(r) \/ VerifyTallyOffchain(r) \/ ResolveKey(r) \/ ProveDecryption(r)
  \/ FailureUnrecorded(r)
SubmitStep(r) ==
  \/ ReadProofRow(r) \/ StillVerified(r) \/ ResetStaleProof(r) \/ CallVerifier(r)
  \/ ReadFlag(r) \/ MarkVerifiedOnchain(r) \/ LoadGateState(r) \/ UpdateProofState(r)
PublishStep(r) ==
  \/ PassGate(r) \/ PassPayloadGate(r) \/ FindPayload(r)
  \/ InsertPayload(r) \/ AdvanceToResults(r) \/ PublishResults(r)
  \/ ReadAuditPhase(r) \/ OpenAuditWindow(r) \/ InsertAuditWindow(r)
Begin(r) ==
  ProcessBallots(r) \/ BeginProving(r) \/ BeginSubmission(r) \/ BeginPublication(r)

Next ==
  \/ \E r \in Runs :
       \/ Begin(r) \/ ProcessStep(r) \/ ActaStep(r) \/ ProveStep(r) \/ SubmitStep(r)
       \/ PublishStep(r) \/ CutShort(r)
  \/ ConsoleTransition
  \/ RewriteChain

Spec == Init /\ [][Next]_vars

-----------------------------------------------------------------------------
Positions ==
  {"job", "ensureTallying", "move", "commit", "update", "acta", "content", "prove",
   "verify", "key", "proveDecryption", "row", "still", "stale", "verifier", "flag",
   "mark", "gateState", "proofState", "gate", "payloadGate", "existing", "insert", "advance",
   "publishResults", "audit", "openAudit", "auditRow"}
UnderWay ==
  [op : {"process", "generate", "submit", "publish"}, pc : Positions, job : Jobs,
   circuit : Circuits, seen : {0} \cup (VOTING_OPEN .. TALLYING - 1),
   proofState : ProofStates]
TallyJob == [status : {"none", "RUNNING", "COMPLETED"}, proofState : ProofStates]

PublicationTypeOK ==
  /\ phase \in VOTING_OPEN .. AUDIT_WINDOW
  /\ verified \subseteq Circuits
  /\ committed \subseteq Jobs /\ anchored \subseteq Actas
  /\ transcript \in [Jobs -> {"none", "right", "wrong"}]
  /\ tallyJobs \in [Jobs -> TallyJob]
  /\ proofs \in [Jobs -> [Circuits -> ProofStatuses]]
  /\ payloads \in Seq(Jobs) /\ contents \subseteq Actas
  /\ auditWindow \in BOOLEAN
  /\ run \in [Runs -> {Idle} \cup UnderWay]
  /\ started \in 0 .. MaxJobs /\ faults \in 0 .. MaxFaults
  /\ rewrites \in 0 .. faults
  /\ byConsole \in BOOLEAN

(* The tables do not say more than happened, however runs overlap and stop *)
(* half way: while the chain keeps its proofs, a proof row VERIFIED_ONCHAIN *)
(* and a tally job VERIFIED are so on chain, the decryption of a job never *)
(* goes on chain before its tally or for a wrong count, a completed job    *)
(* has its transcript committed to.                                        *)
RowsTruthful ==
  /\ \A j \in Jobs :
       /\ rewrites = 0 =>
            /\ \A c \in Circuits : proofs[j][c] = "VERIFIED_ONCHAIN" => c \in verified
            /\ proofs[j]["DECRYPTION"] = "VERIFIED_ONCHAIN" =>
                 proofs[j]["TALLY"] = "VERIFIED_ONCHAIN"
            /\ tallyJobs[j].proofState = "VERIFIED" => verified = Circuits
       /\ proofs[j]["DECRYPTION"] \in {"VERIFIED_OFFCHAIN", "VERIFIED_ONCHAIN"} =>
            transcript[j] = "right"
       /\ tallyJobs[j].status = "COMPLETED" => j \in committed

(* A payload goes public only behind the gate: its job's transcript is     *)
(* committed to, the job is completed, short of a fault, and both proofs   *)
(* of the election are on chain, and stay there unless the chain is        *)
(* rewritten; clicks that race for it leave at most one payload each.      *)
PayloadBacked ==
  /\ \A i \in DOMAIN payloads :
       /\ payloads[i] \in committed
       /\ faults = 0 => tallyJobs[payloads[i]].status = "COMPLETED"
       /\ proofs[payloads[i]]["TALLY"] # "none"
       /\ rewrites = 0 => verified = Circuits
  /\ Len(payloads) <= Cardinality(Runs)

(* Publication leaves its evidence behind, wherever a run stops: if the    *)
(* board moved the election to RESULTS_PUBLISHED, a payload and the        *)
(* content of an acta of results are there; if it opened the audit window, *)
(* the row is there or about to be, short of a fault; no acta is served    *)
(* that is not anchored.                                                   *)
PublicationLeavesEvidence ==
  /\ phase >= RESULTS_PUBLISHED /\ ~byConsole =>
       /\ payloads # <<>>
       /\ \E a \in contents : a.kind = "ACTA_RESULTADOS"
  /\ phase >= AUDIT_WINDOW /\ ~byConsole /\ faults = 0 =>
       auditWindow \/ \E r \in Runs : At(r, "auditRow")
  /\ phase >= RESULTS_PUBLISHED => verified = Circuits
  /\ contents \subseteq anchored

(* apps/tally-board/src/app/actions.ts: "Phase 9D is mandatory for final   *)
(* publication: every tally proof must be paired with a decryption proof   *)
(* over the same ballot set."  The job a payload publishes has its own two *)
(* proofs, verified off chain or on.                                       *)
PublishedJobIsProved ==
  \A i \in DOMAIN payloads : \A c \in Circuits :
    proofs[payloads[i]][c] \in {"VERIFIED_OFFCHAIN", "VERIFIED_ONCHAIN"}
=============================================================================
