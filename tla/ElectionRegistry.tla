-------------------------- MODULE ElectionRegistry --------------------------
(***************************************************************************)
(* The on-chain core: BU_PVP_1_ElectionRegistry.sol with the two proof     *)
(* verifier contracts that call back into it.  One action per external     *)
(* function; a call that reverts leaves no trace, so a revert is an action *)
(* that is not enabled.  Events are kept per election, in emission order:  *)
(* they are all the off-chain services ever see.                           *)
(*                                                                         *)
(* Signatures are unforgeable: an ECDSA recovery yields the signer exactly *)
(* when that signer signed that digest, so the signatures that exist are   *)
(* two constant sets, and anybody may submit any of them in any order.     *)
(* A 65-byte voting key is identified with the address derived from it;    *)
(* MalformedKey is a key _deriveVotingAddress rejects.                     *)
(***************************************************************************)
EXTENDS Integers, FiniteSets, Sequences, SequencesExt

CONSTANTS
  Accounts,            \* accounts that send transactions
  Owner,               \* the account that deployed the registry
  NoAddress,           \* address(0)
  TallyVerifiers,      \* deployed BU_PVP_1_TallyVerifier contracts
  DecryptionVerifiers, \* deployed BU_PVP_1_DecryptionVerifier contracts
  VerifierCandidates,  \* addresses the owner may pass to set*Verifier
  Nullifiers, VotingKeys, MalformedKey, Ciphertexts,
  Unbound,             \* the key of a permit whose digest names no key
  ActaKinds, Snapshots,
  Proofs, ValidProofs, \* Groth16 proofs submitted, and those that verify
  Permits,             \* permit signatures in existence
  BallotSigs,          \* ballot signatures in existence
  MaxElections,        \* bound: elections ever created
  MaxRepeats           \* bound: events of a kind the code may repeat forever

Addresses == Accounts \cup TallyVerifiers \cup DecryptionVerifiers
ElectionIds == 0 .. MaxElections - 1

ASSUME AccountsAssumption ==
  /\ Owner \in Accounts
  /\ NoAddress \notin Addresses
  /\ VerifierCandidates \subseteq Addresses \cup {NoAddress}
ASSUME VotersAssumption ==
  /\ IsFiniteSet(Nullifiers) /\ IsFiniteSet(VotingKeys)
  /\ MalformedKey \notin VotingKeys /\ Unbound \notin VotingKeys \cup {MalformedKey}
ASSUME SignaturesAssumption ==
  /\ Permits \subseteq [signer : Accounts, election : ElectionIds,
                        nullifier : Nullifiers, key : VotingKeys \cup {Unbound}]
  /\ BallotSigs \subseteq [key : VotingKeys, election : ElectionIds,
                           ciphertext : Ciphertexts]
ASSUME ProofsAssumption == ValidProofs \subseteq Proofs
ASSUME BoundsAssumption == MaxElections \in Nat /\ MaxRepeats \in Nat

-----------------------------------------------------------------------------
(* Phase, in the order of the Solidity enum.                               *)
SETUP             == 0
REGISTRY_OPEN     == 1
REGISTRY_CLOSED   == 2
VOTING_OPEN       == 3
VOTING_CLOSED     == 4
PROCESSING        == 5
TALLYING          == 6
RESULTS_PUBLISHED == 7
AUDIT_WINDOW      == 8
ARCHIVED          == 9
Phase == SETUP .. ARCHIVED

Election == [authority : Accounts, registryAuthority : Accounts, phase : Phase]

PhaseChangedEvents ==
  [event : {"PhaseChanged"}, previousPhase : Phase, newPhase : Phase]
SignupEvents ==
  [event : {"SignupRecorded"}, nullifier : Nullifiers, key : VotingKeys]
BallotEvents ==
  [event : {"BallotPublished"}, ballotIndex : Nat, ciphertext : Ciphertexts]
ActaEvents ==
  [event : {"ActaPublished"}, kind : ActaKinds, snapshot : Snapshots]
RecordedEvents ==
  [event : {"TallyProofVerificationRecorded",
            "DecryptionProofVerificationRecorded"}, verifier : Addresses]
VerifiedEvents ==
  [event : {"TallyProofVerifiedOnChain", "DecryptionProofVerifiedOnChain"},
   verifier : Addresses, proof : Proofs]
CreatedEvents ==
  [event : {"ElectionCreated"}, authority : Accounts,
   registryAuthority : Accounts]
CommitmentEvents == [event : {"TallyTranscriptCommitmentPublished"}]
Event ==
  PhaseChangedEvents \cup SignupEvents \cup BallotEvents \cup ActaEvents
    \cup RecordedEvents \cup VerifiedEvents \cup CreatedEvents
    \cup CommitmentEvents

VARIABLES
  electionCount,             \* _elections.length
  elections,                 \* _elections; an id is created in order
  tallyVerifier, decryptionVerifier,
  registryNullifierUsed,     \* per election: the nullifiers mapped to true
  votingAddressRegistered,   \* per election: the addresses mapped to true
  ballotCastByVotingAddress, \* per election: the addresses mapped to true
  signupCount, ballotCount,
  tallyProofVerified, decryptionProofVerified,
  log                        \* per election: the events emitted

verifierVars == <<tallyVerifier, decryptionVerifier>>
signupVars == <<registryNullifierUsed, votingAddressRegistered, signupCount>>
ballotVars == <<ballotCastByVotingAddress, ballotCount>>
proofVars == <<tallyProofVerified, decryptionProofVerified>>
vars == <<electionCount, elections, verifierVars, signupVars, ballotVars,
          proofVars, log>>

(* A slot of _elections no election was pushed to yet.                     *)
Vacant == [authority |-> Owner, registryAuthority |-> Owner, phase |-> SETUP]

Init ==
  /\ electionCount = 0
  /\ elections = [e \in ElectionIds |-> Vacant]
  /\ tallyVerifier = NoAddress /\ decryptionVerifier = NoAddress
  /\ registryNullifierUsed = [e \in ElectionIds |-> {}]
  /\ votingAddressRegistered = [e \in ElectionIds |-> {}]
  /\ ballotCastByVotingAddress = [e \in ElectionIds |-> {}]
  /\ signupCount = [e \in ElectionIds |-> 0]
  /\ ballotCount = [e \in ElectionIds |-> 0]
  /\ tallyProofVerified = [e \in ElectionIds |-> FALSE]
  /\ decryptionProofVerified = [e \in ElectionIds |-> FALSE]
  /\ log = [e \in ElectionIds |-> <<>>]

-----------------------------------------------------------------------------
(* Modifiers and helpers                                                   *)

Exists(e) == e \in ElectionIds /\ e < electionCount
OnlyElectionAuthority(sender, e) == elections[e].authority = sender
InPhase(e, expected) == Exists(e) /\ elections[e].phase = expected

Emit(e, ev) == log' = [log EXCEPT ![e] = Append(@, ev)]
EmitTwo(e, ev1, ev2) ==
  log' = [log EXCEPT ![e] = Append(Append(@, ev1), ev2)]

Times(e, name) ==
  Cardinality({i \in DOMAIN log[e] : log[e][i].event = name})
MayRepeat(e, name) == Times(e, name) < MaxRepeats

(* Mutant: the phase moves without its event.                              *)
SetPhaseSilently(e, newPhase) ==
  /\ elections' = [elections EXCEPT ![e].phase = newPhase]
  /\ UNCHANGED <<electionCount, verifierVars, signupVars, ballotVars,
                 proofVars, log>>

SetPhase(e, newPhase) ==
  /\ elections' = [elections EXCEPT ![e].phase = newPhase]
  /\ Emit(e, [event |-> "PhaseChanged",
              previousPhase |-> elections[e].phase, newPhase |-> newPhase])
  /\ UNCHANGED <<electionCount, verifierVars, signupVars, ballotVars, proofVars>>

(* A function guarded by onlyElectionAuthority and inPhase(from) that only *)
(* moves the phase.                                                        *)
PhaseFunction(sender, e, from, to) ==
  /\ InPhase(e, from)
  /\ OnlyElectionAuthority(sender, e)
  /\ SetPhase(e, to)

(* recover(digest, sig) = signer holds for some signature submitted.       *)
PermitRecoversTo(signer, e, n, k) ==
  [signer |-> signer, election |-> e, nullifier |-> n, key |-> k] \in Permits
(* Mutant: the ballot digest leaves out the election.                      *)
BallotRecoversToAnywhere(k, e, c) ==
  \E d \in ElectionIds : [key |-> k, election |-> d, ciphertext |-> c] \in BallotSigs

BallotRecoversTo(k, e, c) ==
  [key |-> k, election |-> e, ciphertext |-> c] \in BallotSigs

DeriveVotingAddressSucceeds(k) == k # MalformedKey

-----------------------------------------------------------------------------
(* External functions of the registry                                      *)

SetTallyVerifier(sender, verifier) ==
  /\ sender = Owner
  /\ verifier # NoAddress
  /\ tallyVerifier' = verifier
  /\ UNCHANGED <<electionCount, elections, decryptionVerifier, signupVars,
                 ballotVars, proofVars, log>>

SetDecryptionVerifier(sender, verifier) ==
  /\ sender = Owner
  /\ verifier # NoAddress
  /\ decryptionVerifier' = verifier
  /\ UNCHANGED <<electionCount, elections, tallyVerifier, signupVars,
                 ballotVars, proofVars, log>>

CreateElection(sender, registryAuthority) ==
  /\ electionCount < MaxElections
  /\ electionCount' = electionCount + 1
  /\ elections' = [elections EXCEPT ![electionCount] =
       [authority |-> sender, registryAuthority |-> registryAuthority,
        phase |-> SETUP]]
  /\ Emit(electionCount, [event |-> "ElectionCreated", authority |-> sender,
                          registryAuthority |-> registryAuthority])
  /\ UNCHANGED <<verifierVars, signupVars, ballotVars, proofVars>>

OpenRegistry(sender, e)  == PhaseFunction(sender, e, SETUP, REGISTRY_OPEN)
CloseRegistry(sender, e) == PhaseFunction(sender, e, REGISTRY_OPEN, REGISTRY_CLOSED)
OpenVoting(sender, e)    == PhaseFunction(sender, e, REGISTRY_CLOSED, VOTING_OPEN)
CloseVoting(sender, e)   == PhaseFunction(sender, e, VOTING_OPEN, VOTING_CLOSED)
StartProcessing(sender, e)    == PhaseFunction(sender, e, VOTING_CLOSED, PROCESSING)
FinalizeProcessing(sender, e) == PhaseFunction(sender, e, PROCESSING, TALLYING)
OpenAuditWindow(sender, e) ==
  PhaseFunction(sender, e, RESULTS_PUBLISHED, AUDIT_WINDOW)
ArchiveElection(sender, e) == PhaseFunction(sender, e, AUDIT_WINDOW, ARCHIVED)

(* Mutant: one of the two proofs is enough.                                *)
EitherProofVerified(e) == tallyProofVerified[e] \/ decryptionProofVerified[e]

ProofsVerified(e) == tallyProofVerified[e] /\ decryptionProofVerified[e]

PublishResults(sender, e) ==
  /\ ProofsVerified(e)
  /\ PhaseFunction(sender, e, TALLYING, RESULTS_PUBLISHED)

RecordTally(sender, e) ==
  /\ sender = tallyVerifier
  /\ InPhase(e, TALLYING)
  /\ MayRepeat(e, "TallyProofVerificationRecorded")
  /\ tallyProofVerified' = [tallyProofVerified EXCEPT ![e] = TRUE]
  /\ UNCHANGED <<electionCount, elections, verifierVars, signupVars,
                 ballotVars, decryptionProofVerified>>

(* Mutant: the callback forgets inPhase(TALLYING).                         *)
RecordDecryptionAnyPhase(sender, e) ==
  /\ sender = decryptionVerifier
  /\ Exists(e)
  /\ MayRepeat(e, "DecryptionProofVerificationRecorded")
  /\ decryptionProofVerified' = [decryptionProofVerified EXCEPT ![e] = TRUE]
  /\ UNCHANGED <<electionCount, elections, verifierVars, signupVars,
                 ballotVars, tallyProofVerified>>

RecordDecryption(sender, e) ==
  /\ sender = decryptionVerifier
  /\ InPhase(e, TALLYING)
  /\ MayRepeat(e, "DecryptionProofVerificationRecorded")
  /\ decryptionProofVerified' = [decryptionProofVerified EXCEPT ![e] = TRUE]
  /\ UNCHANGED <<electionCount, elections, verifierVars, signupVars,
                 ballotVars, tallyProofVerified>>

TallyRecorded(v) ==
  [event |-> "TallyProofVerificationRecorded", verifier |-> v]
DecryptionRecorded(v) ==
  [event |-> "DecryptionProofVerificationRecorded", verifier |-> v]

TallyVerified(v, proof) ==
  [event |-> "TallyProofVerifiedOnChain", verifier |-> v, proof |-> proof]
DecryptionVerified(v, proof) ==
  [event |-> "DecryptionProofVerifiedOnChain", verifier |-> v, proof |-> proof]

(* The record functions called directly, by an account configured as the   *)
(* verifier.                                                               *)
RecordTallyProofVerification(sender, e) ==
  RecordTally(sender, e) /\ Emit(e, TallyRecorded(sender))
RecordDecryptionProofVerification(sender, e) ==
  RecordDecryption(sender, e) /\ Emit(e, DecryptionRecorded(sender))

(* Mutant: a key may sign up again under another nullifier.                *)
SignupAcceptedKeyAgain(e, n, k) ==
  /\ InPhase(e, REGISTRY_OPEN)
  /\ n \notin registryNullifierUsed[e]
  /\ PermitRecoversTo(elections[e].registryAuthority, e, n, k)

SignupAccepted(e, n, k) ==
  /\ InPhase(e, REGISTRY_OPEN)
  /\ n \notin registryNullifierUsed[e]
  /\ DeriveVotingAddressSucceeds(k)
  /\ PermitRecoversTo(elections[e].registryAuthority, e, n, k)
  /\ k \notin votingAddressRegistered[e]

Signup(e, n, k) ==
  /\ SignupAccepted(e, n, k)
  /\ registryNullifierUsed' = [registryNullifierUsed EXCEPT ![e] = @ \cup {n}]
  /\ votingAddressRegistered' = [votingAddressRegistered EXCEPT ![e] = @ \cup {k}]
  /\ signupCount' = [signupCount EXCEPT ![e] = @ + 1]
  /\ Emit(e, [event |-> "SignupRecorded", nullifier |-> n, key |-> k])
  /\ UNCHANGED <<electionCount, elections, verifierVars, ballotVars, proofVars>>

(* Mutant: the check for an earlier ballot is lost.                        *)
VotingAddressRegisteredOnly(e, k) == k \in votingAddressRegistered[e]

VotingAddressEligible(e, k) ==
  /\ k \in votingAddressRegistered[e]
  /\ k \notin ballotCastByVotingAddress[e]

BallotAccepted(e, k, c) ==
  /\ InPhase(e, VOTING_OPEN)
  /\ DeriveVotingAddressSucceeds(k)
  /\ VotingAddressEligible(e, k)
  /\ BallotRecoversTo(k, e, c)

(* Mutant: the ballot takes the index before the next.                     *)
PublishBallotOffByOne(e, k, c) ==
  /\ BallotAccepted(e, k, c)
  /\ ballotCastByVotingAddress' =
       [ballotCastByVotingAddress EXCEPT ![e] = @ \cup {k}]
  /\ ballotCount' = [ballotCount EXCEPT ![e] = @ + 1]
  /\ Emit(e, [event |-> "BallotPublished", ballotIndex |-> ballotCount[e] - 1,
              ciphertext |-> c])
  /\ UNCHANGED <<electionCount, elections, verifierVars, signupVars, proofVars>>

PublishBallot(e, k, c) ==
  /\ BallotAccepted(e, k, c)
  /\ ballotCastByVotingAddress' =
       [ballotCastByVotingAddress EXCEPT ![e] = @ \cup {k}]
  /\ ballotCount' = [ballotCount EXCEPT ![e] = @ + 1]
  /\ Emit(e, [event |-> "BallotPublished", ballotIndex |-> ballotCount[e],
              ciphertext |-> c])
  /\ UNCHANGED <<electionCount, elections, verifierVars, signupVars, proofVars>>

PublishActa(sender, e, kind, snapshot) ==
  /\ Exists(e)
  /\ OnlyElectionAuthority(sender, e)
  /\ MayRepeat(e, "ActaPublished")
  /\ Emit(e, [event |-> "ActaPublished", kind |-> kind, snapshot |-> snapshot])
  /\ UNCHANGED <<electionCount, elections, verifierVars, signupVars,
                 ballotVars, proofVars>>

PublishTallyTranscriptCommitment(sender, e) ==
  /\ InPhase(e, TALLYING)
  /\ OnlyElectionAuthority(sender, e)
  /\ MayRepeat(e, "TallyTranscriptCommitmentPublished")
  /\ Emit(e, [event |-> "TallyTranscriptCommitmentPublished"])
  /\ UNCHANGED <<electionCount, elections, verifierVars, signupVars,
                 ballotVars, proofVars>>

-----------------------------------------------------------------------------
(* The verifier contracts.  A verifier contract v first asks Groth16 about *)
(* the proof, then calls the registry as msg.sender = v: if either fails,  *)
(* the whole transaction is undone.                                        *)

VerifyTallyProof(v, e, proof) ==
  /\ proof \in ValidProofs
  /\ RecordTally(v, e)
  /\ EmitTwo(e, TallyRecorded(v), TallyVerified(v, proof))

VerifyDecryptionProof(v, e, proof) ==
  /\ proof \in ValidProofs
  /\ RecordDecryption(v, e)
  /\ EmitTwo(e, DecryptionRecorded(v), DecryptionVerified(v, proof))

-----------------------------------------------------------------------------
PhaseStep(sender, e) ==
  \/ OpenRegistry(sender, e)    \/ CloseRegistry(sender, e)
  \/ OpenVoting(sender, e)      \/ CloseVoting(sender, e)
  \/ StartProcessing(sender, e) \/ FinalizeProcessing(sender, e)
  \/ PublishResults(sender, e)  \/ OpenAuditWindow(sender, e)
  \/ ArchiveElection(sender, e)

OwnerStep ==
  \E sender \in Accounts, verifier \in VerifierCandidates :
    \/ SetTallyVerifier(sender, verifier)
    \/ SetDecryptionVerifier(sender, verifier)

AuthorityStep ==
  \E sender \in Accounts :
    \/ \E registryAuthority \in Accounts : CreateElection(sender, registryAuthority)
    \/ \E e \in ElectionIds :
         \/ PhaseStep(sender, e)
         \/ PublishTallyTranscriptCommitment(sender, e)
         \/ \E kind \in ActaKinds, snapshot \in Snapshots :
              PublishActa(sender, e, kind, snapshot)

VoterStep ==
  \E e \in ElectionIds, k \in VotingKeys \cup {MalformedKey} :
    \/ \E n \in Nullifiers : Signup(e, n, k)
    \/ \E c \in Ciphertexts : PublishBallot(e, k, c)

ProofStep ==
  \E e \in ElectionIds :
    \/ \E sender \in Accounts :
         \/ RecordTallyProofVerification(sender, e)
         \/ RecordDecryptionProofVerification(sender, e)
    \/ \E v \in TallyVerifiers, proof \in Proofs : VerifyTallyProof(v, e, proof)
    \/ \E v \in DecryptionVerifiers, proof \in Proofs :
         VerifyDecryptionProof(v, e, proof)

Next == OwnerStep \/ AuthorityStep \/ VoterStep \/ ProofStep

Spec == Init /\ [][Next]_vars

-----------------------------------------------------------------------------
(* What an observer rebuilds from the events of one election.              *)

EmptyView == [phase |-> SETUP, nullifiers |-> {}, keys |-> {}, signups |-> 0,
              ballots |-> 0, tally |-> FALSE, decryption |-> FALSE]

ApplyEvent(view, ev) ==
  CASE ev.event = "PhaseChanged" -> [view EXCEPT !.phase = ev.newPhase]
    [] ev.event = "SignupRecorded" ->
         [view EXCEPT !.nullifiers = @ \cup {ev.nullifier},
                      !.keys = @ \cup {ev.key}, !.signups = @ + 1]
    [] ev.event = "BallotPublished" -> [view EXCEPT !.ballots = @ + 1]
    [] ev.event = "TallyProofVerificationRecorded" -> [view EXCEPT !.tally = TRUE]
    [] ev.event = "DecryptionProofVerificationRecorded" ->
         [view EXCEPT !.decryption = TRUE]
    [] OTHER -> view

(* The view before the first of some events, and after each of them.       *)
ViewsOf(events) ==
  LET view[i \in 0 .. Len(events)] ==
        IF i = 0 THEN EmptyView ELSE ApplyEvent(view[i - 1], events[i])
  IN view
Replay(events) == ViewsOf(events)[Len(events)]
ReplayBefore(e, i) == ViewsOf(log[e])[i - 1]

BallotPositions(events) ==
  {i \in DOMAIN events : events[i].event = "BallotPublished"}

-----------------------------------------------------------------------------
TypeOK ==
  /\ electionCount \in 0 .. MaxElections
  /\ elections \in [ElectionIds -> Election]
  /\ tallyVerifier \in Addresses \cup {NoAddress}
  /\ decryptionVerifier \in Addresses \cup {NoAddress}
  /\ registryNullifierUsed \in [ElectionIds -> SUBSET Nullifiers]
  /\ votingAddressRegistered \in [ElectionIds -> SUBSET VotingKeys]
  /\ ballotCastByVotingAddress \in [ElectionIds -> SUBSET VotingKeys]
  /\ signupCount \in [ElectionIds -> Nat]
  /\ ballotCount \in [ElectionIds -> Nat]
  /\ tallyProofVerified \in [ElectionIds -> BOOLEAN]
  /\ decryptionProofVerified \in [ElectionIds -> BOOLEAN]
  /\ log \in [ElectionIds -> Seq(Event)]

(* The roll is one nullifier, one key, one signup, and the box holds at    *)
(* most one ballot per key on the roll: the counters the results are       *)
(* reconciled against (signupCount, ballotCount) count exactly those sets, *)
(* so a ballot box can never hold more ballots than there were signups.    *)
RollAndBoxAgreeIn(e) ==
  /\ signupCount[e] = Cardinality(registryNullifierUsed[e])
  /\ signupCount[e] = Cardinality(votingAddressRegistered[e])
  /\ ballotCount[e] = Cardinality(ballotCastByVotingAddress[e])
  /\ ballotCastByVotingAddress[e] \subseteq votingAddressRegistered[e]
  /\ ballotCount[e] <= signupCount[e]
RollAndBoxAgree == \A e \in ElectionIds : RollAndBoxAgreeIn(e)

(* BallotPublished does not carry the key, yet every published ballot can  *)
(* be attributed to a different key that signed up and that signed this    *)
(* very ciphertext for this very election: no ballot is invented, counted  *)
(* twice, or carried over from another election.                           *)
BallotsAttributable ==
  \A e \in ElectionIds :
    \E voter \in Injection(BallotPositions(log[e]), votingAddressRegistered[e]) :
      \A i \in BallotPositions(log[e]) :
        [key |-> voter[i], election |-> e, ciphertext |-> log[e][i].ciphertext]
          \in BallotSigs

(* A stateless observer that folds the events of an election rebuilds the  *)
(* contract's state for it: nothing the indexer needs changes silently.    *)
LogDeterminesState ==
  \A e \in ElectionIds :
    Replay(log[e]) =
      [phase |-> elections[e].phase, nullifiers |-> registryNullifierUsed[e],
       keys |-> votingAddressRegistered[e], signups |-> signupCount[e],
       ballots |-> ballotCount[e], tally |-> tallyProofVerified[e],
       decryption |-> decryptionProofVerified[e]]

(* Every event sits in the log where the phases the log itself announces   *)
(* allow it: signups only while the registry is open, ballots only while   *)
(* voting is, with consecutive indices, proofs and commitments only while  *)
(* tallying, and each PhaseChanged moves from the phase in force to the    *)
(* next one.  These are the facts an indexer's consistency rules rely on.  *)
EventAllowed(view, ev) ==
  CASE ev.event = "PhaseChanged" ->
         /\ ev.previousPhase = view.phase
         /\ ev.newPhase = view.phase + 1
         /\ ev.newPhase = RESULTS_PUBLISHED => view.tally /\ view.decryption
    [] ev.event = "SignupRecorded" ->
         /\ view.phase = REGISTRY_OPEN
         /\ ev.nullifier \notin view.nullifiers
         /\ ev.key \notin view.keys
    [] ev.event = "BallotPublished" ->
         /\ view.phase = VOTING_OPEN
         /\ ev.ballotIndex = view.ballots
    [] ev.event \in {"ActaPublished", "ElectionCreated"} -> TRUE
    [] OTHER -> view.phase = TALLYING

LogWellOrdered ==
  \A e \in ElectionIds : \A i \in DOMAIN log[e] :
    EventAllowed(ReplayBefore(e, i), log[e][i])

(* The log is a record an observer can rely on: it determines the state,   *)
(* and each event of it sits where the events before it allow it.          *)
LogFaithful == LogDeterminesState /\ LogWellOrdered

(* Results are never published without verification (validation case E):   *)
(* for the tally and for the decryption, while the election was tallying   *)
(* either a verifier contract recorded a proof that Groth16 had accepted,  *)
(* or the owner had made an ordinary account the verifier.                 *)
ProofRecorded(e, recorded, verified) ==
  \E i \in DOMAIN log[e] :
    /\ log[e][i].event = recorded
    /\ ReplayBefore(e, i).phase = TALLYING
    /\ \/ log[e][i].verifier \in Accounts
       \/ /\ log[e][i + 1].event = verified
          /\ log[e][i + 1].verifier = log[e][i].verifier
          /\ log[e][i + 1].proof \in ValidProofs

PublishedOnlyProved ==
  \A e \in ElectionIds :
    elections[e].phase >= RESULTS_PUBLISHED =>
      /\ ProofRecorded(e, "TallyProofVerificationRecorded",
                       "TallyProofVerifiedOnChain")
      /\ ProofRecorded(e, "DecryptionProofVerificationRecorded",
                       "DecryptionProofVerifiedOnChain")

(* What was settled stays settled: the roll from the close of the          *)
(* registry, the box from the close of voting and the proof flags at any   *)
(* time but while tallying; phases never go back, flags are never cleared  *)
(* and the published log is only ever extended.                            *)
SettledStep ==
  \A e \in ElectionIds :
    /\ elections'[e].phase \in {elections[e].phase, elections[e].phase + 1}
    /\ IsPrefix(log[e], log'[e])
    /\ elections[e].phase # REGISTRY_OPEN =>
         /\ registryNullifierUsed'[e] = registryNullifierUsed[e]
         /\ votingAddressRegistered'[e] = votingAddressRegistered[e]
    /\ elections[e].phase # VOTING_OPEN =>
         /\ ballotCastByVotingAddress'[e] = ballotCastByVotingAddress[e]
         /\ ballotCount'[e] = ballotCount[e]
    /\ elections[e].phase # TALLYING =>
         /\ tallyProofVerified'[e] = tallyProofVerified[e]
         /\ decryptionProofVerified'[e] = decryptionProofVerified[e]
    /\ tallyProofVerified[e] => tallyProofVerified'[e]
    /\ decryptionProofVerified[e] => decryptionProofVerified'[e]
Settled == [][SettledStep]_vars

(* The comment on signup says the permit is an ECDSA signature over        *)
(* (electionId, nullifier), and that is what the permit issuers sign: such *)
(* a permit would sign up any well-formed voting key that is still free.   *)
PermitCoversElectionAndNullifier ==
  \A p \in Permits : \A k \in VotingKeys :
    ( /\ InPhase(p.election, REGISTRY_OPEN)
      /\ p.signer = elections[p.election].registryAuthority
      /\ p.nullifier \notin registryNullifierUsed[p.election]
      /\ k \notin votingAddressRegistered[p.election] )
    => ENABLED Signup(p.election, p.nullifier, k)

-----------------------------------------------------------------------------
(* The contract implements the abstract ballot box.                        *)

StageOf(phase) ==
  CASE phase = SETUP -> "preparing"
    [] phase = REGISTRY_OPEN -> "registering"
    [] phase = REGISTRY_CLOSED -> "sealed"
    [] phase = VOTING_OPEN -> "voting"
    [] phase \in {VOTING_CLOSED, PROCESSING, TALLYING} -> "counting"
    [] OTHER -> "published"

BoxOf(events) ==
  {<<events[i].ballotIndex, events[i].ciphertext>> : i \in BallotPositions(events)}

CertifiedOf(tally, decryption) ==
  {c \in {"tally", "decryption"} :
     (c = "tally" /\ tally) \/ (c = "decryption" /\ decryption)}

Box == INSTANCE BallotBox WITH
  Voters <- VotingKeys, Ballots <- Ciphertexts,
  stage <- [e \in ElectionIds |-> StageOf(elections[e].phase)],
  roll <- votingAddressRegistered,
  voted <- ballotCastByVotingAddress,
  box <- [e \in ElectionIds |-> BoxOf(log[e])],
  certified <- [e \in ElectionIds |->
    CertifiedOf(tallyProofVerified[e], decryptionProofVerified[e])]

(* Every behaviour of the contract, seen through its events and mappings,  *)
(* is a behaviour of the ballot box.                                       *)
ImplementsBallotBox == Box!BoxSpec
=============================================================================
