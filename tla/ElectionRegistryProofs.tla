----------------------- MODULE ElectionRegistryProofs -----------------------
(***************************************************************************)
(* Theorems about ElectionRegistry, for every number of elections, voters, *)
(* signatures and verifier contracts.                                      *)
(***************************************************************************)
EXTENDS ElectionRegistry, FiniteSetTheorems, InductionLemmas, TLAPS

(* Moving the phase keeps every variable in its type.                      *)
LEMMA SetPhaseType ==
  ASSUME TypeOK, NEW e \in ElectionIds, NEW newPhase \in Phase,
         SetPhase(e, newPhase)
  PROVE  TypeOK'
<1> DEFINE ev == [event |-> "PhaseChanged",
                  previousPhase |-> elections[e].phase, newPhase |-> newPhase]
<1>1. elections[e] \in Election
  BY DEF TypeOK
<1>2. ev \in Event
  BY <1>1 DEF Event, PhaseChangedEvents, Election
<1>3. log' \in [ElectionIds -> Seq(Event)]
  BY <1>2 DEF TypeOK, SetPhase, Emit
<1>4. elections' \in [ElectionIds -> Election]
  BY <1>1 DEF TypeOK, SetPhase, Election
<1>5. QED
  BY <1>3, <1>4 DEF TypeOK, SetPhase, verifierVars, signupVars, ballotVars, proofVars

(* So does emitting one event, or the two of a verifier contract's call.   *)
LEMMA EmitType ==
  ASSUME TypeOK, NEW e \in ElectionIds, NEW ev \in Event, Emit(e, ev)
  PROVE  log' \in [ElectionIds -> Seq(Event)]
BY DEF TypeOK, Emit

(* Two entries appended to a log of events leave a log of events.          *)
LEMMA EmitTwoType ==
  ASSUME TypeOK, NEW e \in ElectionIds, NEW ev1 \in Event, NEW ev2 \in Event,
         EmitTwo(e, ev1, ev2)
  PROVE  log' \in [ElectionIds -> Seq(Event)]
BY DEF TypeOK, EmitTwo

(* A phase function moves an election from one phase to the next one.      *)
LEMMA PhaseStepCases ==
  ASSUME NEW sender \in Accounts, NEW e \in ElectionIds, PhaseStep(sender, e)
  PROVE  \E from \in Phase :
           /\ from + 1 \in Phase
           /\ PhaseFunction(sender, e, from, from + 1)
           /\ from = TALLYING => ProofsVerified(e)
BY DEF PhaseStep, OpenRegistry, CloseRegistry, OpenVoting, CloseVoting,
       StartProcessing, FinalizeProcessing, PublishResults, OpenAuditWindow,
       ArchiveElection, Phase, SETUP, REGISTRY_OPEN, REGISTRY_CLOSED,
       VOTING_OPEN, VOTING_CLOSED, PROCESSING, TALLYING, RESULTS_PUBLISHED,
       AUDIT_WINDOW, ARCHIVED

-----------------------------------------------------------------------------
(* Every variable of the contract keeps its type.                          *)
THEOREM TypeCorrect == Spec => []TypeOK
<1>1. Init => TypeOK
  BY BoundsAssumption, AccountsAssumption
     DEF Init, TypeOK, Vacant, Election, Phase, SETUP, ARCHIVED
<1>2. TypeOK /\ [Next]_vars => TypeOK'
  <2> SUFFICES ASSUME TypeOK, [Next]_vars PROVE TypeOK'
    OBVIOUS
  <2>1. ASSUME NEW sender \in Accounts, NEW verifier \in VerifierCandidates,
               SetTallyVerifier(sender, verifier)
                 \/ SetDecryptionVerifier(sender, verifier)
        PROVE  TypeOK'
    <3>1. verifier \in Addresses
      BY <2>1, AccountsAssumption DEF SetTallyVerifier, SetDecryptionVerifier
    <3>2. QED
      BY <2>1, <3>1 DEF SetTallyVerifier, SetDecryptionVerifier, TypeOK,
                        signupVars, ballotVars, proofVars
  <2>2. ASSUME NEW sender \in Accounts, NEW registryAuthority \in Accounts,
               CreateElection(sender, registryAuthority)
        PROVE  TypeOK'
    <3> DEFINE new == [authority |-> sender,
                       registryAuthority |-> registryAuthority, phase |-> SETUP]
               ev == [event |-> "ElectionCreated", authority |-> sender,
                      registryAuthority |-> registryAuthority]
    <3>1. new \in Election
      BY DEF Election, Phase, SETUP, ARCHIVED
    <3>2. electionCount \in ElectionIds /\ electionCount' \in 0 .. MaxElections
      BY <2>2, BoundsAssumption DEF CreateElection, TypeOK, ElectionIds
    <3>3. ev \in Event
      BY DEF Event, CreatedEvents
    <3>4. log' \in [ElectionIds -> Seq(Event)]
      BY <2>2, <3>2, <3>3, EmitType DEF CreateElection
    <3>5. elections' \in [ElectionIds -> Election]
      BY <2>2, <3>1 DEF CreateElection, TypeOK
    <3>6. QED
      BY <2>2, <3>2, <3>4, <3>5
         DEF CreateElection, TypeOK, verifierVars, signupVars, ballotVars, proofVars
  <2>3. ASSUME NEW sender \in Accounts, NEW e \in ElectionIds, PhaseStep(sender, e)
        PROVE  TypeOK'
    BY <2>3, PhaseStepCases, SetPhaseType DEF PhaseFunction
  <2>4. ASSUME NEW sender \in Accounts, NEW e \in ElectionIds,
               PublishTallyTranscriptCommitment(sender, e)
        PROVE  TypeOK'
    <3>1. [event |-> "TallyTranscriptCommitmentPublished"] \in Event
      BY DEF Event, CommitmentEvents
    <3>2. log' \in [ElectionIds -> Seq(Event)]
      BY <2>4, <3>1, EmitType DEF PublishTallyTranscriptCommitment
    <3>3. QED
      BY <2>4, <3>2 DEF PublishTallyTranscriptCommitment, TypeOK,
                        verifierVars, signupVars, ballotVars, proofVars
  <2>5. ASSUME NEW sender \in Accounts, NEW e \in ElectionIds,
               NEW kind \in ActaKinds, NEW snapshot \in Snapshots,
               PublishActa(sender, e, kind, snapshot)
        PROVE  TypeOK'
    <3>1. [event |-> "ActaPublished", kind |-> kind, snapshot |-> snapshot] \in Event
      BY DEF Event, ActaEvents
    <3>2. log' \in [ElectionIds -> Seq(Event)]
      BY <2>5, <3>1, EmitType DEF PublishActa
    <3>3. QED
      BY <2>5, <3>2 DEF PublishActa, TypeOK, verifierVars, signupVars,
                        ballotVars, proofVars
  <2>6. ASSUME NEW e \in ElectionIds, NEW k \in VotingKeys \cup {MalformedKey},
               NEW n \in Nullifiers, Signup(e, n, k)
        PROVE  TypeOK'
    <3>1. k \in VotingKeys
      BY <2>6 DEF Signup, SignupAccepted, DeriveVotingAddressSucceeds
    <3>2. [event |-> "SignupRecorded", nullifier |-> n, key |-> k] \in Event
      BY <3>1 DEF Event, SignupEvents
    <3>3. log' \in [ElectionIds -> Seq(Event)]
      BY <2>6, <3>2, EmitType DEF Signup
    <3>4. registryNullifierUsed' \in [ElectionIds -> SUBSET Nullifiers]
      BY <2>6 DEF Signup, TypeOK
    <3>5. votingAddressRegistered' \in [ElectionIds -> SUBSET VotingKeys]
      BY <2>6, <3>1 DEF Signup, TypeOK
    <3>6. signupCount' \in [ElectionIds -> Nat]
      BY <2>6 DEF Signup, TypeOK
    <3>7. QED
      BY <2>6, <3>3, <3>4, <3>5, <3>6
         DEF Signup, TypeOK, verifierVars, ballotVars, proofVars
  <2>7. ASSUME NEW e \in ElectionIds, NEW k \in VotingKeys \cup {MalformedKey},
               NEW c \in Ciphertexts, PublishBallot(e, k, c)
        PROVE  TypeOK'
    <3>1. k \in VotingKeys
      BY <2>7 DEF PublishBallot, BallotAccepted, DeriveVotingAddressSucceeds
    <3>2. [event |-> "BallotPublished", ballotIndex |-> ballotCount[e],
           ciphertext |-> c] \in Event
      BY DEF Event, BallotEvents, TypeOK
    <3>3. log' \in [ElectionIds -> Seq(Event)]
      BY <2>7, <3>2, EmitType DEF PublishBallot
    <3>4. ballotCastByVotingAddress' \in [ElectionIds -> SUBSET VotingKeys]
      BY <2>7, <3>1 DEF PublishBallot, TypeOK
    <3>5. ballotCount' \in [ElectionIds -> Nat]
      BY <2>7 DEF PublishBallot, TypeOK
    <3>6. QED
      BY <2>7, <3>3, <3>4, <3>5
         DEF PublishBallot, TypeOK, verifierVars, signupVars, proofVars
  <2>8. ASSUME NEW e \in ElectionIds, NEW v \in Addresses,
               RecordTally(v, e) \/ RecordDecryption(v, e),
               log' \in [ElectionIds -> Seq(Event)]
        PROVE  TypeOK'
    BY <2>8 DEF RecordTally, RecordDecryption, TypeOK, verifierVars, signupVars, ballotVars
  <2>9. ASSUME NEW e \in ElectionIds, NEW sender \in Accounts,
               RecordTallyProofVerification(sender, e)
                 \/ RecordDecryptionProofVerification(sender, e)
        PROVE  TypeOK'
    <3>1. TallyRecorded(sender) \in Event /\ DecryptionRecorded(sender) \in Event
      BY DEF TallyRecorded, DecryptionRecorded, Event, RecordedEvents, Addresses
    <3>2. log' \in [ElectionIds -> Seq(Event)]
      BY <2>9, <3>1, EmitType
         DEF RecordTallyProofVerification, RecordDecryptionProofVerification
    <3>3. QED
      BY <2>8, <2>9, <3>2 DEF RecordTallyProofVerification,
         RecordDecryptionProofVerification, Addresses
  <2>10. ASSUME NEW e \in ElectionIds, NEW v \in Addresses, NEW proof \in Proofs,
                VerifyTallyProof(v, e, proof) \/ VerifyDecryptionProof(v, e, proof)
         PROVE  TypeOK'
    <3>1. TallyRecorded(v) \in Event /\ DecryptionRecorded(v) \in Event
      BY DEF TallyRecorded, DecryptionRecorded, Event, RecordedEvents
    <3>2. TallyVerified(v, proof) \in Event /\ DecryptionVerified(v, proof) \in Event
      BY DEF TallyVerified, DecryptionVerified, Event, VerifiedEvents
    <3>3. log' \in [ElectionIds -> Seq(Event)]
      BY <2>10, <3>1, <3>2, EmitTwoType DEF VerifyTallyProof, VerifyDecryptionProof
    <3>4. QED
      BY <2>8, <2>10, <3>3 DEF VerifyTallyProof, VerifyDecryptionProof
  <2>11. CASE UNCHANGED vars
    BY <2>11 DEF vars, verifierVars, signupVars, ballotVars, proofVars, TypeOK
  <2>12. QED
    BY <2>1, <2>2, <2>3, <2>4, <2>5, <2>6, <2>7, <2>9, <2>10, <2>11
       DEF Next, OwnerStep, AuthorityStep, VoterStep, ProofStep, Addresses
<1>3. QED
  BY <1>1, <1>2, PTL DEF Spec

-----------------------------------------------------------------------------
(* Every step but a signup or a ballot leaves the roll and the box alone.  *)
LEMMA RollAndBoxSteps ==
  ASSUME TypeOK, Next
  PROVE  \/ UNCHANGED <<signupVars, ballotVars>>
         \/ \E e \in ElectionIds, k \in VotingKeys :
              \/ \E n \in Nullifiers : Signup(e, n, k)
              \/ \E c \in Ciphertexts : PublishBallot(e, k, c)
<1>1. CASE OwnerStep
  BY <1>1 DEF OwnerStep, SetTallyVerifier, SetDecryptionVerifier
<1>2. CASE AuthorityStep
  <2>1. ASSUME NEW sender \in Accounts, NEW e \in ElectionIds, PhaseStep(sender, e)
        PROVE  UNCHANGED <<signupVars, ballotVars>>
    BY <2>1, PhaseStepCases DEF PhaseFunction, SetPhase
  <2>2. QED
    BY <1>2, <2>1 DEF AuthorityStep, CreateElection,
       PublishTallyTranscriptCommitment, PublishActa
<1>3. CASE VoterStep
  BY ZenonT(40), <1>3 DEF VoterStep, Signup, PublishBallot, SignupAccepted, BallotAccepted,
              DeriveVotingAddressSucceeds
<1>4. CASE ProofStep
  BY <1>4 DEF ProofStep, RecordTallyProofVerification,
     RecordDecryptionProofVerification, VerifyTallyProof,
     VerifyDecryptionProof, RecordTally, RecordDecryption
<1>5. QED
  BY <1>1, <1>2, <1>3, <1>4 DEF Next

(* The rolls and the box of an election are finite, so they can be counted.*)
LEMMA FiniteRolls ==
  ASSUME TypeOK, NEW e \in ElectionIds
  PROVE  /\ IsFiniteSet(registryNullifierUsed[e])
         /\ IsFiniteSet(votingAddressRegistered[e])
         /\ IsFiniteSet(ballotCastByVotingAddress[e])
<1>1. /\ registryNullifierUsed[e] \subseteq Nullifiers
      /\ votingAddressRegistered[e] \subseteq VotingKeys
      /\ ballotCastByVotingAddress[e] \subseteq VotingKeys
  BY DEF TypeOK
<1>2. QED
  BY <1>1, VotersAssumption, FS_Subset

(* A signup adds one nullifier, one key and one to the count, together.    *)
LEMMA SignupKeepsRoll ==
  ASSUME TypeOK, TypeOK', RollAndBoxAgree,
         NEW e \in ElectionIds, NEW n \in Nullifiers, NEW k \in VotingKeys,
         Signup(e, n, k)
  PROVE  RollAndBoxAgree'
<1> SUFFICES ASSUME NEW d \in ElectionIds
             PROVE  RollAndBoxAgreeIn(d)'
  BY DEF RollAndBoxAgree
<1> USE DEF RollAndBoxAgreeIn
<1>1. RollAndBoxAgreeIn(d) /\ signupCount[d] \in Nat /\ ballotCount[d] \in Nat
  BY DEF RollAndBoxAgree, TypeOK
<1>2. ballotCount' = ballotCount /\ ballotCastByVotingAddress' = ballotCastByVotingAddress
  BY DEF Signup, ballotVars
<1>3. CASE d = e
  <2>1. /\ registryNullifierUsed'[d] = registryNullifierUsed[d] \cup {n}
        /\ votingAddressRegistered'[d] = votingAddressRegistered[d] \cup {k}
        /\ signupCount'[d] = signupCount[d] + 1
        /\ n \notin registryNullifierUsed[d] /\ k \notin votingAddressRegistered[d]
    BY <1>3 DEF Signup, SignupAccepted, TypeOK
  <2>2. Cardinality(registryNullifierUsed[d] \cup {n})
          = Cardinality(registryNullifierUsed[d]) + 1
    BY <2>1, FiniteRolls, FS_AddElement
  <2>3. Cardinality(votingAddressRegistered[d] \cup {k})
          = Cardinality(votingAddressRegistered[d]) + 1
    BY <2>1, FiniteRolls, FS_AddElement
  <2>4. QED
    BY <1>1, <1>2, <2>1, <2>2, <2>3
<1>4. CASE d # e
  <2>1. /\ registryNullifierUsed'[d] = registryNullifierUsed[d]
        /\ votingAddressRegistered'[d] = votingAddressRegistered[d]
        /\ signupCount'[d] = signupCount[d]
    BY <1>4 DEF Signup, TypeOK
  <2>2. QED
    BY <1>1, <1>2, <2>1
<1>5. QED
  BY <1>3, <1>4

(* A ballot adds one voter to the box and one to the count, together.      *)
LEMMA BallotKeepsBox ==
  ASSUME TypeOK, TypeOK', RollAndBoxAgree,
         NEW e \in ElectionIds, NEW k \in VotingKeys, NEW c \in Ciphertexts,
         PublishBallot(e, k, c)
  PROVE  RollAndBoxAgree'
<1> SUFFICES ASSUME NEW d \in ElectionIds
             PROVE  RollAndBoxAgreeIn(d)'
  BY DEF RollAndBoxAgree
<1> USE DEF RollAndBoxAgreeIn
<1>1. RollAndBoxAgreeIn(d) /\ signupCount[d] \in Nat /\ ballotCount[d] \in Nat
  BY DEF RollAndBoxAgree, TypeOK
<1>2. UNCHANGED signupVars
  BY DEF PublishBallot
<1>3. CASE d = e
  <2>1. /\ ballotCastByVotingAddress'[d] = ballotCastByVotingAddress[d] \cup {k}
        /\ ballotCount'[d] = ballotCount[d] + 1
        /\ k \in votingAddressRegistered[d] /\ k \notin ballotCastByVotingAddress[d]
    BY <1>3 DEF PublishBallot, BallotAccepted, VotingAddressEligible, TypeOK
  <2>2. Cardinality(ballotCastByVotingAddress[d] \cup {k})
          = Cardinality(ballotCastByVotingAddress[d]) + 1
    BY <2>1, FiniteRolls, FS_AddElement
  <2>3. ballotCastByVotingAddress'[d] \subseteq votingAddressRegistered'[d]
    BY <1>1, <1>2, <2>1 DEF signupVars
  <2>4. /\ signupCount'[d] = Cardinality(votingAddressRegistered'[d])
        /\ ballotCount'[d] = Cardinality(ballotCastByVotingAddress'[d])
    BY <1>1, <1>2, <2>1, <2>2 DEF signupVars
  <2>5. Cardinality(ballotCastByVotingAddress'[d])
          <= Cardinality(votingAddressRegistered'[d])
    <3>1. votingAddressRegistered'[d] = votingAddressRegistered[d]
      BY <1>2 DEF signupVars
    <3>2. IsFiniteSet(votingAddressRegistered'[d])
      BY <3>1, FiniteRolls
    <3>3. QED
      BY <2>3, <3>2, FS_Subset
  <2>6. QED
    BY <1>1, <1>2, <2>3, <2>4, <2>5 DEF signupVars
<1>4. CASE d # e
  <2>1. /\ ballotCastByVotingAddress'[d] = ballotCastByVotingAddress[d]
        /\ ballotCount'[d] = ballotCount[d]
    BY <1>4 DEF PublishBallot, TypeOK
  <2>2. QED
    BY <1>1, <1>2, <2>1 DEF signupVars
<1>5. QED
  BY <1>3, <1>4

(* The counters count the roll and the box, one entry per signup and at    *)
(* most one ballot per signed-up key, in every election at all times.      *)
THEOREM OneSignupOneBallot == Spec => []RollAndBoxAgree
<1>1. Init => RollAndBoxAgree
  BY FS_EmptySet DEF Init, RollAndBoxAgree, RollAndBoxAgreeIn
<1>2. TypeOK /\ TypeOK' /\ RollAndBoxAgree /\ [Next]_vars => RollAndBoxAgree'
  <2> SUFFICES ASSUME TypeOK, TypeOK', RollAndBoxAgree, [Next]_vars
               PROVE  RollAndBoxAgree'
    OBVIOUS
  <2>1. CASE UNCHANGED <<signupVars, ballotVars>>
    BY <2>1 DEF RollAndBoxAgree, RollAndBoxAgreeIn, signupVars, ballotVars
  <2>2. CASE UNCHANGED vars
    BY <2>1, <2>2 DEF vars
  <2>3. CASE Next
    BY <2>1, <2>3, RollAndBoxSteps, SignupKeepsRoll, BallotKeepsBox
  <2>4. QED
    BY <2>2, <2>3
<1>3. QED
  BY <1>1, <1>2, TypeCorrect, PTL DEF Spec

-----------------------------------------------------------------------------
(* The ballot box an observer reads off the events.                        *)
LEMMA BoxOfAppend ==
  ASSUME NEW events \in Seq(Event), NEW ev \in Event
  PROVE  /\ ev.event # "BallotPublished" => BoxOf(Append(events, ev)) = BoxOf(events)
         /\ ev.event = "BallotPublished" =>
              BoxOf(Append(events, ev)) =
                BoxOf(events) \cup {<<ev.ballotIndex, ev.ciphertext>>}
<1> DEFINE longer == Append(events, ev)
           last == Len(events) + 1
<1>1. /\ DOMAIN longer = DOMAIN events \cup {last}
      /\ \A i \in DOMAIN events : longer[i] = events[i]
      /\ longer[last] = ev
      /\ last \notin DOMAIN events
  OBVIOUS
<1>2. CASE ev.event # "BallotPublished"
  <2>1. BallotPositions(longer) = BallotPositions(events)
    BY <1>1, <1>2 DEF BallotPositions
  <2>2. \A i \in BallotPositions(events) : longer[i] = events[i]
    BY <1>1 DEF BallotPositions
  <2>3. QED
    BY <1>2, <2>1, <2>2 DEF BoxOf
<1>3. CASE ev.event = "BallotPublished"
  <2>1. BallotPositions(longer) = BallotPositions(events) \cup {last}
    BY <1>1, <1>3 DEF BallotPositions
  <2>2. \A i \in BallotPositions(events) : longer[i] = events[i]
    BY <1>1 DEF BallotPositions
  <2>3. QED
    BY <1>1, <1>3, <2>1, <2>2 DEF BoxOf
<1>4. QED
  BY <1>2, <1>3

(* An event that is not a ballot leaves the public ballot box as it is.    *)
LEMMA EmitKeepsBox ==
  ASSUME TypeOK, NEW e \in ElectionIds, NEW ev \in Event, Emit(e, ev),
         ev.event # "BallotPublished", NEW d \in ElectionIds
  PROVE  BoxOf(log'[d]) = BoxOf(log[d])
<1>1. log[d] \in Seq(Event)
  BY DEF TypeOK
<1>2. CASE d = e
  <2>1. log'[d] = Append(log[d], ev)
    BY <1>2 DEF Emit, TypeOK
  <2>2. QED
    BY <1>1, <2>1, BoxOfAppend
<1>3. CASE d # e
  BY <1>3 DEF Emit, TypeOK
<1>4. QED
  BY <1>2, <1>3

(* Nor do two of them change the public ballot box.                        *)
LEMMA EmitTwoKeepsBox ==
  ASSUME TypeOK, NEW e \in ElectionIds, NEW ev1 \in Event, NEW ev2 \in Event,
         EmitTwo(e, ev1, ev2),
         ev1.event # "BallotPublished", ev2.event # "BallotPublished",
         NEW d \in ElectionIds
  PROVE  BoxOf(log'[d]) = BoxOf(log[d])
<1>1. log[d] \in Seq(Event)
  BY DEF TypeOK
<1>2. CASE d = e
  <2>1. log'[d] = Append(Append(log[d], ev1), ev2)
    BY <1>2 DEF EmitTwo, TypeOK
  <2>2. Append(log[d], ev1) \in Seq(Event)
    BY <1>1
  <2>3. BoxOf(Append(log[d], ev1)) = BoxOf(log[d])
    BY <1>1, BoxOfAppend
  <2>4. BoxOf(Append(Append(log[d], ev1), ev2)) = BoxOf(Append(log[d], ev1))
    BY <2>2, BoxOfAppend
  <2>5. QED
    BY <2>1, <2>3, <2>4
<1>3. CASE d # e
  BY <1>3 DEF EmitTwo, TypeOK
<1>4. QED
  BY <1>2, <1>3

-----------------------------------------------------------------------------
(* The mapped variables, as the refinement substitutes them.               *)
StageMap == [e \in ElectionIds |-> StageOf(elections[e].phase)]
BoxMap == [e \in ElectionIds |-> BoxOf(log[e])]
CertifiedMap ==
  [e \in ElectionIds |->
    CertifiedOf(tallyProofVerified[e], decryptionProofVerified[e])]

(* The stage of the abstract ballot box that each phase stands for.        *)
LEMMA StageOfPhase ==
  /\ StageOf(SETUP) = "preparing"
  /\ StageOf(REGISTRY_OPEN) = "registering"
  /\ StageOf(VOTING_OPEN) = "voting"
  /\ StageOf(TALLYING) = "counting"
BY DEF StageOf, SETUP, REGISTRY_OPEN, REGISTRY_CLOSED, VOTING_OPEN,
       VOTING_CLOSED, PROCESSING, TALLYING

(* A phase step is a step of the ballot box, or a stutter when both phases *)
(* belong to the same stage.                                               *)
LEMMA PhaseStepRefines ==
  ASSUME TypeOK, NEW sender \in Accounts, NEW e \in ElectionIds,
         PhaseStep(sender, e)
  PROVE  [Box!BoxNext]_(Box!boxVars)
<1>1. PICK from \in Phase :
        /\ from + 1 \in Phase
        /\ PhaseFunction(sender, e, from, from + 1)
        /\ from = TALLYING => ProofsVerified(e)
  BY PhaseStepCases
<1>2. elections[e] \in Election /\ elections[e].phase = from
  BY <1>1 DEF PhaseFunction, InPhase, TypeOK
<1>3. /\ elections' = [elections EXCEPT ![e].phase = from + 1]
      /\ Emit(e, [event |-> "PhaseChanged", previousPhase |-> from, newPhase |-> from + 1])
      /\ UNCHANGED <<signupVars, ballotVars, proofVars>>
  BY <1>1, <1>2 DEF PhaseFunction, SetPhase
<1>4. [event |-> "PhaseChanged", previousPhase |-> from, newPhase |-> from + 1] \in Event
  BY <1>1 DEF Event, PhaseChangedEvents
<1>5. BoxMap' = BoxMap
  <2>1. \A d \in ElectionIds : BoxOf(log'[d]) = BoxOf(log[d])
    BY <1>3, <1>4, EmitKeepsBox
  <2>2. QED
    BY <2>1 DEF BoxMap
<1>6. CertifiedMap' = CertifiedMap
  BY <1>3 DEF CertifiedMap, proofVars
<1>7. StageMap' = [StageMap EXCEPT ![e] = StageOf(from + 1)]
  <2>1. \A d \in ElectionIds :
          elections'[d].phase = IF d = e THEN from + 1 ELSE elections[d].phase
    BY <1>2, <1>3 DEF TypeOK, Election
  <2>2. QED
    BY <2>1 DEF StageMap
<1>8. StageMap[e] = StageOf(from)
  BY <1>2 DEF StageMap
<1>9. from \in 0 .. 8
  BY <1>1 DEF Phase, SETUP, ARCHIVED
<1>10. CASE StageOf(from + 1) = StageOf(from)
  <2>1. StageMap' = StageMap
    BY <1>7, <1>8, <1>10 DEF StageMap
  <2>2. QED
    BY <1>3, <1>5, <1>6, <2>1
       DEF Box!boxVars, StageMap, BoxMap, CertifiedMap, signupVars, ballotVars
<1>11. CASE StageOf(from + 1) # StageOf(from)
  <2>1. Box!Advance(e, StageOf(from), StageOf(from + 1))
    BY <1>3, <1>5, <1>6, <1>7, <1>8
       DEF Box!Advance, StageMap, BoxMap, CertifiedMap, signupVars, ballotVars
  <2>2. <<StageOf(from), StageOf(from + 1)>> \in
          {<<"preparing", "registering">>, <<"registering", "sealed">>,
           <<"sealed", "voting">>, <<"voting", "counting">>,
           <<"counting", "published">>}
    BY <1>9, <1>11 DEF StageOf, SETUP, REGISTRY_OPEN, REGISTRY_CLOSED, VOTING_OPEN,
       VOTING_CLOSED, PROCESSING, TALLYING
  <2>3. StageOf(from) = "counting" => Box!Publish(e)
    <3>1. ASSUME StageOf(from) = "counting" PROVE from = TALLYING
      BY <1>9, <1>11, <3>1 DEF StageOf, SETUP, REGISTRY_OPEN, REGISTRY_CLOSED,
         VOTING_OPEN, VOTING_CLOSED, PROCESSING, TALLYING
    <3>2. ASSUME StageOf(from) = "counting"
          PROVE  CertifiedOf(tallyProofVerified[e], decryptionProofVerified[e])
                   = {"tally", "decryption"}
      BY <1>1, <3>1, <3>2 DEF ProofsVerified, CertifiedOf
    <3>3. QED
      BY <2>1, <2>2, <3>2 DEF Box!Publish, Box!Certificates
  <2>4. QED
    BY <2>1, <2>2, <2>3 DEF Box!BoxNext
<1>12. QED
  BY <1>10, <1>11

(* A signup is the abstract enrolment of its voting key.                   *)
LEMMA SignupRefines ==
  ASSUME TypeOK, NEW e \in ElectionIds, NEW n \in Nullifiers, NEW k \in VotingKeys,
         Signup(e, n, k)
  PROVE  Box!Enrol(e, k)
<1>1. [event |-> "SignupRecorded", nullifier |-> n, key |-> k] \in Event
  BY DEF Event, SignupEvents
<1>2. \A d \in ElectionIds : BoxOf(log'[d]) = BoxOf(log[d])
  BY <1>1, EmitKeepsBox DEF Signup
<1>3. StageMap[e] = "registering"
  <2>1. elections[e].phase = REGISTRY_OPEN
    BY DEF Signup, SignupAccepted, InPhase
  <2>2. QED
    BY <2>1, StageOfPhase DEF StageMap
<1>4. QED
  BY <1>2, <1>3 DEF Box!Enrol, Signup, SignupAccepted, StageMap, ballotVars, proofVars

(* A published ballot takes the next free index of the box.                *)
LEMMA BallotRefines ==
  ASSUME TypeOK, RollAndBoxAgree,
         NEW e \in ElectionIds, NEW k \in VotingKeys, NEW c \in Ciphertexts,
         PublishBallot(e, k, c)
  PROVE  Box!Cast(e, k, c)
<1> DEFINE ev == [event |-> "BallotPublished", ballotIndex |-> ballotCount[e],
                  ciphertext |-> c]
<1>1. ev \in Event
  BY DEF Event, BallotEvents, TypeOK
<1>2. ballotCount[e] = Cardinality(ballotCastByVotingAddress[e])
  BY DEF RollAndBoxAgree, RollAndBoxAgreeIn
<1>3. Emit(e, ev)
  BY DEF PublishBallot
<1>4. BoxMap' = [BoxMap EXCEPT ![e] = @ \cup {<<ballotCount[e], c>>}]
  <2>1. BoxOf(log'[e]) = BoxOf(log[e]) \cup {<<ballotCount[e], c>>}
    <3>1. log[e] \in Seq(Event) /\ log'[e] = Append(log[e], ev)
      BY <1>3 DEF TypeOK, Emit
    <3>2. QED
      BY <1>1, <3>1, BoxOfAppend
  <2>2. \A d \in ElectionIds : d # e => log'[d] = log[d]
    BY <1>3 DEF TypeOK, Emit
  <2>3. QED
    BY <2>1, <2>2 DEF BoxMap
<1>5. StageMap[e] = "voting"
  <2>1. elections[e].phase = VOTING_OPEN
    BY DEF PublishBallot, BallotAccepted, InPhase
  <2>2. QED
    BY <2>1, StageOfPhase DEF StageMap
<1>6. /\ StageMap' = StageMap
      /\ votingAddressRegistered' = votingAddressRegistered
      /\ CertifiedMap' = CertifiedMap
  BY DEF PublishBallot, StageMap, CertifiedMap, signupVars, proofVars
<1>7. /\ ballotCastByVotingAddress' =
           [ballotCastByVotingAddress EXCEPT ![e] = @ \cup {k}]
      /\ k \in votingAddressRegistered[e] \ ballotCastByVotingAddress[e]
  BY DEF PublishBallot, BallotAccepted, VotingAddressEligible
<1>8. BoxMap' = [BoxMap EXCEPT ![e] =
        @ \cup {<<Cardinality(ballotCastByVotingAddress[e]), c>>}]
  BY <1>2, <1>4
<1>9. QED
  <2>1. [d \in ElectionIds |-> StageOf(elections[d].phase)][e] = "voting"
    BY <1>5 DEF StageMap
  <2>2. UNCHANGED <<[d \in ElectionIds |-> StageOf(elections[d].phase)],
                    votingAddressRegistered,
                    [d \in ElectionIds |->
                      CertifiedOf(tallyProofVerified[d], decryptionProofVerified[d])]>>
    BY <1>6 DEF StageMap, CertifiedMap
  <2>3. [d \in ElectionIds |-> BoxOf(log'[d])] =
          [[d \in ElectionIds |-> BoxOf(log[d])] EXCEPT ![e] =
             @ \cup {<<Cardinality(ballotCastByVotingAddress[e]), c>>}]
    BY <1>8 DEF BoxMap
  <2>4. QED
    BY <1>7, <2>1, <2>2, <2>3 DEF Box!Cast, Box!Cardinality, Cardinality

(* Recording a proof certifies the count, whoever the verifier is.         *)
LEMMA ProofRefines ==
  ASSUME TypeOK, NEW e \in ElectionIds, NEW v,
         \A d \in ElectionIds : BoxOf(log'[d]) = BoxOf(log[d])
  PROVE  /\ RecordTally(v, e) => Box!Certify(e, "tally")
         /\ RecordDecryption(v, e) => Box!Certify(e, "decryption")
<1>1. InPhase(e, TALLYING) => StageMap[e] = "counting"
  BY StageOfPhase DEF StageMap, InPhase
<1>2. BoxMap' = BoxMap
  BY DEF BoxMap
<1>3. ASSUME RecordTally(v, e) PROVE Box!Certify(e, "tally")
  <2>1. CertifiedMap' = [CertifiedMap EXCEPT ![e] = @ \cup {"tally"}]
    BY <1>3 DEF RecordTally, CertifiedMap, CertifiedOf, TypeOK
  <2>2. QED
    BY <1>1, <1>2, <1>3, <2>1 DEF RecordTally, Box!Certify, StageMap, BoxMap,
       CertifiedMap, signupVars, ballotVars
<1>4. ASSUME RecordDecryption(v, e) PROVE Box!Certify(e, "decryption")
  <2>1. CertifiedMap' = [CertifiedMap EXCEPT ![e] = @ \cup {"decryption"}]
    BY <1>4 DEF RecordDecryption, CertifiedMap, CertifiedOf, TypeOK
  <2>2. QED
    BY <1>1, <1>2, <1>4, <2>1 DEF RecordDecryption, Box!Certify, StageMap, BoxMap,
       CertifiedMap, signupVars, ballotVars
<1>5. QED
  BY <1>3, <1>4

(* Every call that only emits, or that only concerns the owner, is a       *)
(* stutter of the ballot box.                                              *)
LEMMA OtherStepsStutter ==
  ASSUME TypeOK, UNCHANGED <<signupVars, ballotVars, proofVars>>,
         \A d \in ElectionIds : elections'[d].phase = elections[d].phase,
         \A d \in ElectionIds : BoxOf(log'[d]) = BoxOf(log[d])
  PROVE  UNCHANGED Box!boxVars
BY DEF Box!boxVars, signupVars, ballotVars, proofVars

(* Recording a proof verification is an abstract certificate.              *)
LEMMA ProofStepRefines ==
  ASSUME TypeOK, ProofStep
  PROVE  Box!BoxNext
<1> USE DEF Box!BoxNext, Box!Certificates
<1>1. ASSUME NEW e \in ElectionIds, NEW sender \in Accounts,
             RecordTallyProofVerification(sender, e)
               \/ RecordDecryptionProofVerification(sender, e)
      PROVE  Box!BoxNext
  <2>1. /\ TallyRecorded(sender) \in Event
        /\ TallyRecorded(sender).event # "BallotPublished"
        /\ DecryptionRecorded(sender) \in Event
        /\ DecryptionRecorded(sender).event # "BallotPublished"
    BY DEF TallyRecorded, DecryptionRecorded, Event, RecordedEvents, Addresses
  <2>2. \A d \in ElectionIds : BoxOf(log'[d]) = BoxOf(log[d])
    BY <1>1, <2>1, EmitKeepsBox
       DEF RecordTallyProofVerification, RecordDecryptionProofVerification
  <2>3. QED
    BY <1>1, <2>2, ProofRefines
       DEF RecordTallyProofVerification, RecordDecryptionProofVerification
<1>2. ASSUME NEW e \in ElectionIds, NEW v \in Addresses, NEW proof \in Proofs,
             VerifyTallyProof(v, e, proof) \/ VerifyDecryptionProof(v, e, proof)
      PROVE  Box!BoxNext
  <2>1. /\ TallyRecorded(v) \in Event /\ TallyVerified(v, proof) \in Event
        /\ TallyRecorded(v).event # "BallotPublished"
        /\ TallyVerified(v, proof).event # "BallotPublished"
    BY DEF TallyRecorded, TallyVerified, Event, RecordedEvents, VerifiedEvents
  <2>2. /\ DecryptionRecorded(v) \in Event /\ DecryptionVerified(v, proof) \in Event
        /\ DecryptionRecorded(v).event # "BallotPublished"
        /\ DecryptionVerified(v, proof).event # "BallotPublished"
    BY DEF DecryptionRecorded, DecryptionVerified, Event, RecordedEvents, VerifiedEvents
  <2>3. \A d \in ElectionIds : BoxOf(log'[d]) = BoxOf(log[d])
    BY <1>2, <2>1, <2>2, EmitTwoKeepsBox DEF VerifyTallyProof, VerifyDecryptionProof
  <2>4. QED
    BY <1>2, <2>3, ProofRefines DEF VerifyTallyProof, VerifyDecryptionProof
<1>3. QED
  BY <1>1, <1>2 DEF ProofStep, Addresses

(* What the owner does is invisible to the abstract ballot box.            *)
LEMMA OwnerStepStutters ==
  ASSUME TypeOK, OwnerStep
  PROVE  UNCHANGED Box!boxVars
BY OtherStepsStutter DEF OwnerStep, SetTallyVerifier, SetDecryptionVerifier

(* A slot of _elections that was never pushed is in the first phase: no    *)
(* call gets past its modifiers on it.                                     *)
FreshSlots ==
  \A e \in ElectionIds : e >= electionCount => elections[e].phase = SETUP

(* Slots not yet pushed stay in the first phase.                           *)
LEMMA FreshSlotsInvariant == Spec => []FreshSlots
<1>1. Init => FreshSlots
  BY DEF Init, FreshSlots, Vacant
<1>2. TypeOK /\ FreshSlots /\ [Next]_vars => FreshSlots'
  <2> SUFFICES ASSUME TypeOK, FreshSlots, [Next]_vars PROVE FreshSlots'
    OBVIOUS
  <2>1. CASE UNCHANGED <<electionCount, elections>>
    BY <2>1 DEF FreshSlots
  <2>2. ASSUME NEW sender \in Accounts, NEW registryAuthority \in Accounts,
               CreateElection(sender, registryAuthority)
        PROVE  FreshSlots'
    BY <2>2 DEF CreateElection, FreshSlots, TypeOK, ElectionIds
  <2>3. ASSUME NEW sender \in Accounts, NEW e \in ElectionIds, PhaseStep(sender, e)
        PROVE  FreshSlots'
    <3>1. PICK to \in Phase : Exists(e) /\ SetPhase(e, to)
      BY <2>3, PhaseStepCases DEF PhaseFunction, InPhase
    <3>2. electionCount' = electionCount /\ e < electionCount
      BY <3>1 DEF SetPhase, Exists
    <3>3. \A d \in ElectionIds : d # e => elections'[d] = elections[d]
      BY <3>1 DEF SetPhase, TypeOK
    <3>4. QED
      BY <3>2, <3>3 DEF FreshSlots, TypeOK, ElectionIds
  <2>4. CASE UNCHANGED vars
    BY <2>1, <2>4 DEF vars
  <2>5. CASE OwnerStep
    BY <2>1, <2>5 DEF OwnerStep, SetTallyVerifier, SetDecryptionVerifier
  <2>6. CASE AuthorityStep
    BY <2>1, <2>2, <2>3, <2>6
       DEF AuthorityStep, PublishTallyTranscriptCommitment, PublishActa
  <2>7. CASE VoterStep
    BY <2>1, <2>7 DEF VoterStep, Signup, PublishBallot
  <2>8. CASE ProofStep
    BY <2>1, <2>8 DEF ProofStep, RecordTallyProofVerification,
       RecordDecryptionProofVerification, VerifyTallyProof,
       VerifyDecryptionProof, RecordTally, RecordDecryption
  <2>9. QED
    BY <2>4, <2>5, <2>6, <2>7, <2>8 DEF Next
<1>3. QED
  BY <1>1, <1>2, TypeCorrect, PTL DEF Spec

(* What the authority does is an abstract stage change, or invisible to it.*)
LEMMA AuthorityStepRefines ==
  ASSUME TypeOK, FreshSlots, AuthorityStep
  PROVE  [Box!BoxNext]_(Box!boxVars)
<1>1. ASSUME NEW sender \in Accounts, NEW registryAuthority \in Accounts,
             CreateElection(sender, registryAuthority)
      PROVE  UNCHANGED Box!boxVars
  <2> DEFINE ev == [event |-> "ElectionCreated", authority |-> sender,
                    registryAuthority |-> registryAuthority]
  <2>1. electionCount \in ElectionIds
    BY <1>1, BoundsAssumption DEF CreateElection, TypeOK, ElectionIds
  <2>2. ev \in Event /\ ev.event # "BallotPublished"
    BY DEF Event, CreatedEvents
  <2>3. Emit(electionCount, ev)
    BY <1>1 DEF CreateElection
  <2>4. \A d \in ElectionIds : BoxOf(log'[d]) = BoxOf(log[d])
    BY <2>1, <2>2, <2>3, EmitKeepsBox
  <2>5. \A d \in ElectionIds : elections'[d].phase = elections[d].phase
    BY <1>1, <2>1 DEF CreateElection, TypeOK, FreshSlots
  <2>6. QED
    BY <1>1, <2>4, <2>5, OtherStepsStutter DEF CreateElection
<1>2. ASSUME NEW sender \in Accounts, NEW e \in ElectionIds,
             PublishTallyTranscriptCommitment(sender, e)
      PROVE  UNCHANGED Box!boxVars
  <2> DEFINE ev == [event |-> "TallyTranscriptCommitmentPublished"]
  <2>1. ev \in Event /\ ev.event # "BallotPublished"
    BY DEF Event, CommitmentEvents
  <2>2. \A d \in ElectionIds : BoxOf(log'[d]) = BoxOf(log[d])
    BY <1>2, <2>1, EmitKeepsBox DEF PublishTallyTranscriptCommitment
  <2>3. QED
    BY <1>2, <2>2, OtherStepsStutter DEF PublishTallyTranscriptCommitment
<1>3. ASSUME NEW sender \in Accounts, NEW e \in ElectionIds,
             NEW kind \in ActaKinds, NEW snapshot \in Snapshots,
             PublishActa(sender, e, kind, snapshot)
      PROVE  UNCHANGED Box!boxVars
  <2> DEFINE ev == [event |-> "ActaPublished", kind |-> kind, snapshot |-> snapshot]
  <2>1. ev \in Event /\ ev.event # "BallotPublished"
    BY DEF Event, ActaEvents
  <2>2. \A d \in ElectionIds : BoxOf(log'[d]) = BoxOf(log[d])
    BY <1>3, <2>1, EmitKeepsBox DEF PublishActa
  <2>3. QED
    BY <1>3, <2>2, OtherStepsStutter DEF PublishActa
<1>4. QED
  BY <1>1, <1>2, <1>3, PhaseStepRefines DEF AuthorityStep

(* The contract implements the ballot box: what a voter can read off the   *)
(* events is a roll that only fills while registration is open, a box that *)
(* takes one numbered ballot per name on the roll while voting is open,    *)
(* and results published only after both certificates.                     *)
THEOREM RegistryImplementsBallotBox == Spec => ImplementsBallotBox
<1>1. Init => Box!BoxInit
  <2> SUFFICES ASSUME Init PROVE Box!BoxInit
    OBVIOUS
  <2>1. \A e \in ElectionIds : StageOf(elections[e].phase) = "preparing"
    BY StageOfPhase DEF Init, Vacant
  <2>2. \A e \in ElectionIds : BoxOf(log[e]) = {}
    BY DEF Init, BoxOf, BallotPositions
  <2>3. \A e \in ElectionIds :
          CertifiedOf(tallyProofVerified[e], decryptionProofVerified[e]) = {}
    <3>1. CertifiedOf(FALSE, FALSE) = {}
      BY DEF CertifiedOf
    <3>2. \A e \in ElectionIds :
            tallyProofVerified[e] = FALSE /\ decryptionProofVerified[e] = FALSE
      BY DEF Init
    <3>3. QED
      BY <3>1, <3>2
  <2>4. QED
    BY <2>1, <2>2, <2>3 DEF Init, Box!BoxInit
<1>2. TypeOK /\ RollAndBoxAgree /\ FreshSlots /\ [Next]_vars
        => [Box!BoxNext]_(Box!boxVars)
  <2> SUFFICES ASSUME TypeOK, RollAndBoxAgree, FreshSlots, [Next]_vars
               PROVE  [Box!BoxNext]_(Box!boxVars)
    OBVIOUS
  <2>1. CASE OwnerStep
    BY <2>1, OwnerStepStutters
  <2>2. CASE AuthorityStep
    BY <2>2, AuthorityStepRefines
  <2>3. CASE VoterStep
    <3>1. PICK e \in ElectionIds, k \in VotingKeys :
            \/ \E n \in Nullifiers : Signup(e, n, k)
            \/ \E c \in Ciphertexts : PublishBallot(e, k, c)
      BY <2>3 DEF VoterStep, Signup, PublishBallot, SignupAccepted, BallotAccepted,
                  DeriveVotingAddressSucceeds
    <3>2. \/ Box!Enrol(e, k)
          \/ \E c \in Ciphertexts : Box!Cast(e, k, c)
      BY <3>1, SignupRefines, BallotRefines
    <3>3. QED
      BY <3>2 DEF Box!BoxNext
  <2>4. CASE ProofStep
    BY <2>4, ProofStepRefines
  <2>5. CASE UNCHANGED vars
    BY <2>5 DEF vars, Box!boxVars, signupVars, ballotVars, proofVars
  <2>6. QED
    BY <2>1, <2>2, <2>3, <2>4, <2>5 DEF Next
<1>3. QED
  BY <1>1, <1>2, TypeCorrect, OneSignupOneBallot, FreshSlotsInvariant, PTL
     DEF Spec, ImplementsBallotBox, Box!BoxSpec

-----------------------------------------------------------------------------
(* A log is a prefix of itself with one more event, or two.                *)
LEMMA PrefixOfLonger ==
  ASSUME NEW events \in Seq(Event), NEW ev, NEW ev2
  PROVE  /\ IsPrefix(events, events)
         /\ IsPrefix(events, Append(events, ev))
         /\ IsPrefix(events, Append(Append(events, ev), ev2))
<1> DEFINE T == Event \cup {ev, ev2}
           one == Append(events, ev)
           two == Append(one, ev2)
<1>1. events \in Seq(T)
  OBVIOUS
<1>2. one \in Seq(T) /\ two \in Seq(T)
  BY <1>1
<1>3. /\ Len(one) = Len(events) + 1 /\ Len(two) = Len(events) + 2
      /\ Len(events) \in Nat
      /\ \A i \in 1 .. Len(events) : one[i] = events[i] /\ two[i] = events[i]
  BY <1>1, <1>2
<1>4. ASSUME NEW t \in Seq(T), Len(t) >= Len(events),
             \A i \in 1 .. Len(events) : t[i] = events[i]
      PROVE  IsPrefix(events, t)
  BY <1>1, <1>4 DEF IsPrefix
<1> HIDE DEF T, one, two
<1>5. IsPrefix(events, events)
  BY <1>1, <1>3, <1>4
<1>6. IsPrefix(events, one)
  BY <1>2, <1>3, <1>4
<1>7. IsPrefix(events, two)
  BY <1>2, <1>3, <1>4
<1>8. QED
  BY <1>5, <1>6, <1>7 DEF one, two

(* Emitting extends every log, most of them by nothing.                    *)
LEMMA EmitExtends ==
  ASSUME TypeOK, NEW e \in ElectionIds, NEW ev, NEW ev2,
         Emit(e, ev) \/ EmitTwo(e, ev, ev2) \/ UNCHANGED log
  PROVE  \A d \in ElectionIds : IsPrefix(log[d], log'[d])
<1> SUFFICES ASSUME NEW d \in ElectionIds PROVE IsPrefix(log[d], log'[d])
  OBVIOUS
<1>1. log[d] \in Seq(Event)
  BY DEF TypeOK
<1>2. \/ log'[d] = log[d] \/ log'[d] = Append(log[d], ev)
      \/ log'[d] = Append(Append(log[d], ev), ev2)
  BY DEF TypeOK, Emit, EmitTwo
<1>3. QED
  BY <1>1, <1>2, PrefixOfLonger

(* A step that leaves phases, roll, box and flags as they are settles      *)
(* nothing anew.                                                           *)
LEMMA OnlyTheLogMoves ==
  ASSUME TypeOK, UNCHANGED <<signupVars, ballotVars, proofVars>>,
         \A d \in ElectionIds : elections'[d].phase = elections[d].phase,
         \A d \in ElectionIds : IsPrefix(log[d], log'[d])
  PROVE  SettledStep
BY DEF SettledStep, signupVars, ballotVars, proofVars, TypeOK

(* Neither does a phase function, which takes its election one phase on.   *)
LEMMA PhaseStepSettles ==
  ASSUME TypeOK, NEW sender \in Accounts, NEW e \in ElectionIds,
         PhaseStep(sender, e)
  PROVE  SettledStep
<1>1. PICK from \in Phase : PhaseFunction(sender, e, from, from + 1)
  BY PhaseStepCases
<1>2. /\ elections[e].phase = from
      /\ elections' = [elections EXCEPT ![e].phase = from + 1]
      /\ UNCHANGED <<signupVars, ballotVars, proofVars>>
  BY <1>1 DEF PhaseFunction, InPhase, SetPhase
<1>3. \A d \in ElectionIds :
        elections'[d].phase \in {elections[d].phase, elections[d].phase + 1}
  <2> SUFFICES ASSUME NEW d \in ElectionIds
               PROVE  elections'[d].phase \in {elections[d].phase, elections[d].phase + 1}
    OBVIOUS
  <2>1. elections[d] \in Election /\ DOMAIN elections = ElectionIds
    BY DEF TypeOK
  <2>2. CASE d = e
    BY <1>2, <2>1, <2>2 DEF Election
  <2>3. CASE d # e
    BY <1>2, <2>1, <2>3
  <2>4. QED
    BY <2>2, <2>3
<1>4. \A d \in ElectionIds : IsPrefix(log[d], log'[d])
  BY <1>1, EmitExtends DEF PhaseFunction, SetPhase
<1>5. QED
  BY <1>2, <1>3, <1>4 DEF SettledStep, signupVars, ballotVars, proofVars, TypeOK

(* The roll moves while registration is open, the box while voting is.     *)
LEMMA VoterStepSettles ==
  ASSUME TypeOK, VoterStep
  PROVE  SettledStep
<1>1. PICK e \in ElectionIds, k \in VotingKeys \cup {MalformedKey} :
        \/ \E n \in Nullifiers : Signup(e, n, k)
        \/ \E c \in Ciphertexts : PublishBallot(e, k, c)
  BY DEF VoterStep
<1>2. \A d \in ElectionIds : IsPrefix(log[d], log'[d])
  BY <1>1, EmitExtends DEF Signup, PublishBallot
<1>3. elections' = elections /\ UNCHANGED proofVars
  BY <1>1 DEF Signup, PublishBallot
<1>4. CASE \E n \in Nullifiers : Signup(e, n, k)
  <2>1. PICK n \in Nullifiers : Signup(e, n, k)
    BY <1>4
  <2>2. elections[e].phase = REGISTRY_OPEN /\ UNCHANGED ballotVars
    BY <2>1 DEF Signup, SignupAccepted, InPhase
  <2>3. \A d \in ElectionIds : d # e =>
          /\ registryNullifierUsed'[d] = registryNullifierUsed[d]
          /\ votingAddressRegistered'[d] = votingAddressRegistered[d]
    BY <2>1 DEF Signup, TypeOK
  <2>4. QED
    BY <1>2, <1>3, <2>2, <2>3 DEF SettledStep, proofVars, ballotVars
<1>5. CASE \E c \in Ciphertexts : PublishBallot(e, k, c)
  <2>1. PICK c \in Ciphertexts : PublishBallot(e, k, c)
    BY <1>5
  <2>2. elections[e].phase = VOTING_OPEN /\ UNCHANGED signupVars
    BY <2>1 DEF PublishBallot, BallotAccepted, InPhase
  <2>3. \A d \in ElectionIds : d # e =>
          /\ ballotCastByVotingAddress'[d] = ballotCastByVotingAddress[d]
          /\ ballotCount'[d] = ballotCount[d]
    BY <2>1 DEF PublishBallot, TypeOK
  <2>4. QED
    BY <1>2, <1>3, <2>2, <2>3 DEF SettledStep, proofVars, signupVars
<1>6. QED
  BY <1>1, <1>4, <1>5

(* The flags move while tallying, and only up.                             *)
LEMMA ProofStepSettles ==
  ASSUME TypeOK, ProofStep
  PROVE  SettledStep
<1>1. PICK e \in ElectionIds, v \in Addresses :
        /\ RecordTally(v, e) \/ RecordDecryption(v, e)
        /\ \E ev, ev2 \in Event : Emit(e, ev) \/ EmitTwo(e, ev, ev2)
  <2>1. ASSUME NEW e \in ElectionIds, NEW v \in Addresses, NEW proof \in Proofs
        PROVE  /\ TallyRecorded(v) \in Event /\ DecryptionRecorded(v) \in Event
               /\ TallyVerified(v, proof) \in Event
               /\ DecryptionVerified(v, proof) \in Event
    BY DEF TallyRecorded, DecryptionRecorded, TallyVerified, DecryptionVerified,
           Event, RecordedEvents, VerifiedEvents
  <2>2. ASSUME NEW v \in Addresses
        PROVE  TallyRecorded(v) \in Event /\ DecryptionRecorded(v) \in Event
    BY DEF TallyRecorded, DecryptionRecorded, Event, RecordedEvents
  <2>3. ASSUME NEW e \in ElectionIds, NEW v \in Addresses,
               RecordTallyProofVerification(v, e) \/ RecordDecryptionProofVerification(v, e)
        PROVE  /\ RecordTally(v, e) \/ RecordDecryption(v, e)
               /\ \E ev, ev2 \in Event : Emit(e, ev) \/ EmitTwo(e, ev, ev2)
    BY <2>2, <2>3 DEF RecordTallyProofVerification, RecordDecryptionProofVerification
  <2>4. ASSUME NEW e \in ElectionIds, NEW v \in Addresses, NEW proof \in Proofs,
               VerifyTallyProof(v, e, proof) \/ VerifyDecryptionProof(v, e, proof)
        PROVE  /\ RecordTally(v, e) \/ RecordDecryption(v, e)
               /\ \E ev, ev2 \in Event : Emit(e, ev) \/ EmitTwo(e, ev, ev2)
    BY <2>1, <2>4 DEF VerifyTallyProof, VerifyDecryptionProof
  <2>5. QED
    BY <2>3, <2>4 DEF ProofStep, Addresses
<1>2. \A d \in ElectionIds : IsPrefix(log[d], log'[d])
  <2>1. PICK ev, ev2 \in Event : Emit(e, ev) \/ EmitTwo(e, ev, ev2)
    BY <1>1
  <2>2. QED
    BY <2>1, EmitExtends
<1>3. /\ elections' = elections /\ UNCHANGED <<signupVars, ballotVars>>
      /\ elections[e].phase = TALLYING
  BY <1>1 DEF RecordTally, RecordDecryption, InPhase
<1>4. \A d \in ElectionIds :
        /\ tallyProofVerified[d] => tallyProofVerified'[d]
        /\ decryptionProofVerified[d] => decryptionProofVerified'[d]
        /\ d # e => /\ tallyProofVerified'[d] = tallyProofVerified[d]
                    /\ decryptionProofVerified'[d] = decryptionProofVerified[d]
  BY <1>1, Zenon DEF RecordTally, RecordDecryption, TypeOK
<1>5. QED
  BY <1>2, <1>3, <1>4 DEF SettledStep, signupVars, ballotVars

(* No call unsettles what was settled.                                     *)
LEMMA StepSettles ==
  ASSUME TypeOK, FreshSlots, Next
  PROVE  SettledStep
<1>1. CASE OwnerStep
  <2>1. /\ UNCHANGED <<signupVars, ballotVars, proofVars>>
        /\ elections' = elections /\ log' = log
    BY <1>1 DEF OwnerStep, SetTallyVerifier, SetDecryptionVerifier
  <2>2. \A d \in ElectionIds : IsPrefix(log[d], log'[d])
    BY <2>1, PrefixOfLonger DEF TypeOK
  <2>3. QED
    BY <2>1, <2>2, OnlyTheLogMoves
<1>2. CASE AuthorityStep
  <2>1. ASSUME NEW sender \in Accounts, NEW registryAuthority \in Accounts,
               CreateElection(sender, registryAuthority)
        PROVE  SettledStep
    <3>1. electionCount \in ElectionIds
      BY <2>1, BoundsAssumption DEF CreateElection, TypeOK, ElectionIds
    <3>2. \A d \in ElectionIds : elections'[d].phase = elections[d].phase
      BY <2>1, <3>1 DEF CreateElection, TypeOK, FreshSlots
    <3>3. \A d \in ElectionIds : IsPrefix(log[d], log'[d])
      BY <2>1, <3>1, EmitExtends DEF CreateElection
    <3>4. QED
      BY <2>1, <3>2, <3>3, OnlyTheLogMoves DEF CreateElection
  <2>2. ASSUME NEW sender \in Accounts, NEW e \in ElectionIds,
               \/ PublishTallyTranscriptCommitment(sender, e)
               \/ \E kind \in ActaKinds, snapshot \in Snapshots :
                    PublishActa(sender, e, kind, snapshot)
        PROVE  SettledStep
    <3>1. \A d \in ElectionIds : IsPrefix(log[d], log'[d])
      BY <2>2, EmitExtends DEF PublishTallyTranscriptCommitment, PublishActa
    <3>2. QED
      BY <2>2, <3>1, OnlyTheLogMoves DEF PublishTallyTranscriptCommitment, PublishActa
  <2>3. QED
    BY <1>2, <2>1, <2>2, PhaseStepSettles DEF AuthorityStep
<1>3. QED
  BY <1>1, <1>2, VoterStepSettles, ProofStepSettles DEF Next

(* What was settled stays settled: the roll once registration closed, the  *)
(* box once voting closed, the flags before and after the tally; phases    *)
(* never go back and the public log is only ever extended.                 *)
THEOREM SettledForGood == Spec => Settled
<1>1. TypeOK /\ FreshSlots /\ [Next]_vars => [SettledStep]_vars
  BY StepSettles
<1>2. QED
  BY <1>1, TypeCorrect, FreshSlotsInvariant, PTL DEF Spec, Settled

-----------------------------------------------------------------------------
(* The ballots of an election's log stay where they are.                   *)
SameBallots(d) ==
  /\ BallotPositions(log'[d]) = BallotPositions(log[d])
  /\ \A i \in BallotPositions(log[d]) : log'[d][i] = log[d][i]

(* One more event of a log, where ballots stand in it.                     *)
LEMMA PositionsOfAppend ==
  ASSUME NEW events \in Seq(Event), NEW ev \in Event
  PROVE  /\ Append(events, ev) \in Seq(Event)
         /\ ev.event # "BallotPublished" =>
              BallotPositions(Append(events, ev)) = BallotPositions(events)
         /\ ev.event = "BallotPublished" =>
              BallotPositions(Append(events, ev)) =
                BallotPositions(events) \cup {Len(events) + 1}
         /\ \A i \in BallotPositions(events) : Append(events, ev)[i] = events[i]
         /\ Append(events, ev)[Len(events) + 1] = ev
         /\ Len(events) + 1 \notin BallotPositions(events)
<1> DEFINE longer == Append(events, ev)
           last == Len(events) + 1
<1>1. /\ DOMAIN longer = DOMAIN events \cup {last}
      /\ \A i \in DOMAIN events : longer[i] = events[i]
      /\ longer[last] = ev
      /\ last \notin DOMAIN events
      /\ longer \in Seq(Event)
  OBVIOUS
<1> HIDE DEF longer, last
<1>2. /\ ev.event # "BallotPublished" => BallotPositions(longer) = BallotPositions(events)
      /\ ev.event = "BallotPublished" =>
           BallotPositions(longer) = BallotPositions(events) \cup {last}
  BY <1>1 DEF BallotPositions
<1>3. /\ \A i \in BallotPositions(events) : longer[i] = events[i]
      /\ last \notin BallotPositions(events)
  BY <1>1 DEF BallotPositions
<1>4. QED
  BY <1>1, <1>2, <1>3 DEF longer, last

(* Events that are no ballots leave the ballots where they are.            *)
LEMMA OtherEventsKeepBallots ==
  ASSUME TypeOK, NEW e \in ElectionIds, NEW ev \in Event, NEW ev2 \in Event,
         ev.event # "BallotPublished", ev2.event # "BallotPublished",
         Emit(e, ev) \/ EmitTwo(e, ev, ev2)
  PROVE  \A d \in ElectionIds : SameBallots(d)
<1> SUFFICES ASSUME NEW d \in ElectionIds PROVE SameBallots(d)
  OBVIOUS
<1>1. log[d] \in Seq(Event)
  BY DEF TypeOK
<1>2. \/ log'[d] = log[d] \/ log'[d] = Append(log[d], ev)
      \/ log'[d] = Append(Append(log[d], ev), ev2)
  BY DEF TypeOK, Emit, EmitTwo
<1> DEFINE one == Append(log[d], ev)
           two == Append(one, ev2)
<1>4. /\ one \in Seq(Event)
      /\ BallotPositions(one) = BallotPositions(log[d])
      /\ \A i \in BallotPositions(log[d]) : one[i] = log[d][i]
  BY <1>1, PositionsOfAppend
<1> HIDE DEF one
<1>5. /\ BallotPositions(two) = BallotPositions(one)
      /\ \A i \in BallotPositions(one) : two[i] = one[i]
  BY <1>4, PositionsOfAppend
<1> HIDE DEF two
<1>6. CASE log'[d] = log[d]
  BY <1>6 DEF SameBallots
<1>7. CASE log'[d] = one
  BY <1>4, <1>7 DEF SameBallots
<1>8. CASE log'[d] = two
  BY <1>4, <1>5, <1>8 DEF SameBallots
<1>9. QED
  BY <1>2, <1>6, <1>7, <1>8 DEF one, two

(* Only publishBallot touches the box or a ballot of a log.                *)
LEMMA BallotSteps ==
  ASSUME TypeOK, Next
  PROVE  \/ UNCHANGED ballotVars /\ \A d \in ElectionIds : SameBallots(d)
         \/ \E e \in ElectionIds, k \in VotingKeys, c \in Ciphertexts :
              PublishBallot(e, k, c)
<1> DEFINE Apart == UNCHANGED ballotVars /\ \A d \in ElectionIds : SameBallots(d)
<1>1. CASE OwnerStep
  BY <1>1 DEF OwnerStep, SetTallyVerifier, SetDecryptionVerifier, SameBallots
<1>2. CASE AuthorityStep
  <2>1. ASSUME NEW sender \in Accounts, NEW registryAuthority \in Accounts,
               CreateElection(sender, registryAuthority)
        PROVE  Apart
    <3>1. electionCount \in ElectionIds
      BY <2>1, BoundsAssumption DEF CreateElection, TypeOK, ElectionIds
    <3>2. [event |-> "ElectionCreated", authority |-> sender,
           registryAuthority |-> registryAuthority] \in Event
      BY DEF Event, CreatedEvents
    <3>3. QED
      BY <2>1, <3>1, <3>2, OtherEventsKeepBallots DEF CreateElection
  <2>2. ASSUME NEW sender \in Accounts, NEW e \in ElectionIds, PhaseStep(sender, e)
        PROVE  Apart
    <3>1. PICK from \in Phase : from + 1 \in Phase /\ PhaseFunction(sender, e, from, from + 1)
      BY <2>2, PhaseStepCases
    <3> DEFINE ev == [event |-> "PhaseChanged",
                      previousPhase |-> elections[e].phase, newPhase |-> from + 1]
    <3>2. Emit(e, ev) /\ UNCHANGED ballotVars
      BY <3>1 DEF PhaseFunction, SetPhase
    <3>3. ev \in Event /\ ev.event # "BallotPublished"
      BY <3>1 DEF TypeOK, Election, Event, PhaseChangedEvents
    <3> HIDE DEF ev
    <3>4. QED
      BY <3>2, <3>3, OtherEventsKeepBallots
  <2>3. ASSUME NEW sender \in Accounts, NEW e \in ElectionIds,
               \/ PublishTallyTranscriptCommitment(sender, e)
               \/ \E kind \in ActaKinds, snapshot \in Snapshots :
                    PublishActa(sender, e, kind, snapshot)
        PROVE  Apart
    <3>1. PICK ev \in Event : Emit(e, ev) /\ ev.event # "BallotPublished"
      <4>1. CASE PublishTallyTranscriptCommitment(sender, e)
        <5> DEFINE ev == [event |-> "TallyTranscriptCommitmentPublished"]
        <5>1. ev \in Event /\ Emit(e, ev) /\ ev.event # "BallotPublished"
          BY <4>1 DEF PublishTallyTranscriptCommitment, Event, CommitmentEvents
        <5> HIDE DEF ev
        <5>2. QED
          BY <5>1
      <4>2. ASSUME NEW kind \in ActaKinds, NEW snapshot \in Snapshots,
                   PublishActa(sender, e, kind, snapshot)
            PROVE  \E ev \in Event : Emit(e, ev) /\ ev.event # "BallotPublished"
        <5> DEFINE ev == [event |-> "ActaPublished", kind |-> kind, snapshot |-> snapshot]
        <5>1. ev \in Event /\ Emit(e, ev) /\ ev.event # "BallotPublished"
          BY <4>2 DEF PublishActa, Event, ActaEvents
        <5> HIDE DEF ev
        <5>2. QED
          BY <5>1
      <4>3. QED
        BY <2>3, <4>1, <4>2
    <3>2. UNCHANGED ballotVars
      BY <2>3 DEF PublishTallyTranscriptCommitment, PublishActa
    <3>3. QED
      BY <3>1, <3>2, OtherEventsKeepBallots
  <2>4. QED
    BY <1>2, <2>1, <2>2, <2>3 DEF AuthorityStep
<1>3. ASSUME NEW e \in ElectionIds, NEW k \in VotingKeys \cup {MalformedKey},
             NEW n \in Nullifiers, Signup(e, n, k)
      PROVE  Apart
  <2>1. [event |-> "SignupRecorded", nullifier |-> n, key |-> k] \in Event
    BY <1>3 DEF Signup, SignupAccepted, DeriveVotingAddressSucceeds, Event, SignupEvents
  <2>2. QED
    BY <1>3, <2>1, OtherEventsKeepBallots DEF Signup
<1>4. ASSUME NEW e \in ElectionIds, NEW k \in VotingKeys \cup {MalformedKey},
             NEW c \in Ciphertexts, PublishBallot(e, k, c)
      PROVE  k \in VotingKeys
  BY <1>4 DEF PublishBallot, BallotAccepted, DeriveVotingAddressSucceeds
<1>5. CASE ProofStep
  <2>1. ASSUME NEW e \in ElectionIds, NEW sender \in Accounts,
               RecordTallyProofVerification(sender, e)
                 \/ RecordDecryptionProofVerification(sender, e)
        PROVE  Apart
    <3>1. /\ TallyRecorded(sender).event # "BallotPublished"
          /\ DecryptionRecorded(sender).event # "BallotPublished"
          /\ TallyRecorded(sender) \in Event /\ DecryptionRecorded(sender) \in Event
      BY DEF TallyRecorded, DecryptionRecorded, Event, RecordedEvents, Addresses
    <3>2. QED
      BY <2>1, <3>1, OtherEventsKeepBallots
         DEF RecordTallyProofVerification, RecordDecryptionProofVerification,
             RecordTally, RecordDecryption
  <2>2. ASSUME NEW e \in ElectionIds, NEW v \in Addresses, NEW proof \in Proofs,
               VerifyTallyProof(v, e, proof) \/ VerifyDecryptionProof(v, e, proof)
        PROVE  Apart
    <3>1. /\ TallyRecorded(v).event # "BallotPublished"
          /\ TallyVerified(v, proof).event # "BallotPublished"
          /\ DecryptionRecorded(v).event # "BallotPublished"
          /\ DecryptionVerified(v, proof).event # "BallotPublished"
          /\ TallyRecorded(v) \in Event /\ TallyVerified(v, proof) \in Event
          /\ DecryptionRecorded(v) \in Event /\ DecryptionVerified(v, proof) \in Event
      BY DEF TallyRecorded, TallyVerified, DecryptionRecorded, DecryptionVerified,
             Event, RecordedEvents, VerifiedEvents
    <3>2. QED
      BY <2>2, <3>1, OtherEventsKeepBallots
         DEF VerifyTallyProof, VerifyDecryptionProof, RecordTally, RecordDecryption
  <2>3. QED
    BY <1>5, <2>1, <2>2 DEF ProofStep, Addresses
<1> HIDE DEF Apart
<1>6. CASE VoterStep
  <2>1. PICK e \in ElectionIds, k \in VotingKeys \cup {MalformedKey} :
          \/ \E n \in Nullifiers : Signup(e, n, k)
          \/ \E c \in Ciphertexts : PublishBallot(e, k, c)
    BY <1>6 DEF VoterStep
  <2>2. CASE \E n \in Nullifiers : Signup(e, n, k)
    BY <1>3, <2>2 DEF Apart
  <2>3. CASE \E c \in Ciphertexts : PublishBallot(e, k, c)
    BY <1>4, <2>3
  <2>4. QED
    BY <2>1, <2>2, <2>3
<1>7. QED
  BY <1>1, <1>2, <1>5, <1>6 DEF Next, Apart

(* Every ballot of a log has a key of its own among those that cast one,   *)
(* and that key signed it.                                                 *)
Attributed(events, cast, e) ==
  \E voter \in Injection(BallotPositions(events), cast) :
    \A i \in BallotPositions(events) :
      [key |-> voter[i], election |-> e, ciphertext |-> events[i].ciphertext]
        \in BallotSigs

(* A ballot of a key that had cast none is attributed to that key.         *)
LEMMA NewBallotAttributed ==
  ASSUME NEW events \in Seq(Event), NEW ev \in Event, NEW cast, NEW e,
         Attributed(events, cast, e), NEW k, k \notin cast,
         ev.event = "BallotPublished",
         [key |-> k, election |-> e, ciphertext |-> ev.ciphertext] \in BallotSigs
  PROVE  Attributed(Append(events, ev), cast \cup {k}, e)
<1> DEFINE longer == Append(events, ev)
           last == Len(events) + 1
           before == BallotPositions(events)
           after == BallotPositions(longer)
<1>1. /\ after = before \cup {last} /\ last \notin before
      /\ \A i \in before : longer[i] = events[i]
      /\ longer[last] = ev
  BY ZenonT(40), PositionsOfAppend
<1>2. PICK voter \in Injection(before, cast) :
        \A i \in before :
          [key |-> voter[i], election |-> e, ciphertext |-> events[i].ciphertext]
            \in BallotSigs
  BY DEF Attributed
<1>3. /\ voter \in [before -> cast]
      /\ \A i, j \in before : voter[i] = voter[j] => i = j
  BY <1>2 DEF Injection, IsInjective
<1> HIDE DEF longer, last, before, after
<1> DEFINE all == [i \in after |-> IF i = last THEN k ELSE voter[i]]
<1>4. all \in [after -> cast \cup {k}]
  BY <1>1, <1>3
<1>5. \A i, j \in after : all[i] = all[j] => i = j
  BY <1>1, <1>3
<1>6. \A i \in after :
        [key |-> all[i], election |-> e, ciphertext |-> longer[i].ciphertext]
          \in BallotSigs
  BY <1>1, <1>2
<1>7. all \in Injection(after, cast \cup {k})
  <2> HIDE DEF all
  <2> QED BY <1>4, <1>5 DEF Injection, IsInjective
<1> HIDE DEF all
<1>8. QED
  BY <1>6, <1>7 DEF Attributed, longer, after

(* Every published ballot belongs to another key on the roll, which signed *)
(* that ciphertext for that election, whoever submitted it and whatever    *)
(* other elections go on beside it.                                        *)
THEOREM EveryBallotHasItsVoter == Spec => []BallotsAttributable
<1> DEFINE AllAttributed ==
      \A d \in ElectionIds : Attributed(log[d], ballotCastByVotingAddress[d], d)
<1>1. Init => AllAttributed
  <2> SUFFICES ASSUME Init, NEW d \in ElectionIds
               PROVE  Attributed(log[d], ballotCastByVotingAddress[d], d)
    OBVIOUS
  <2>1. log[d] = <<>> /\ ballotCastByVotingAddress[d] = {}
    BY DEF Init
  <2>2. BallotPositions(<<>>) = {}
    BY DEF BallotPositions
  <2>3. [i \in {} |-> 0] \in Injection({}, {})
    BY DEF Injection, IsInjective
  <2>4. QED
    BY <2>1, <2>2, <2>3 DEF Attributed
<1>2. TypeOK /\ AllAttributed /\ [Next]_vars => AllAttributed'
  <2> SUFFICES ASSUME TypeOK, AllAttributed, [Next]_vars, NEW d \in ElectionIds
               PROVE  Attributed(log[d], ballotCastByVotingAddress[d], d)'
    OBVIOUS
  <2>1. Attributed(log[d], ballotCastByVotingAddress[d], d)
    OBVIOUS
  <2>2. CASE UNCHANGED ballotVars /\ SameBallots(d)
    BY <2>1, <2>2 DEF ballotVars, SameBallots, Attributed
  <2>3. ASSUME NEW e \in ElectionIds, NEW k \in VotingKeys, NEW c \in Ciphertexts,
               PublishBallot(e, k, c)
        PROVE  Attributed(log[d], ballotCastByVotingAddress[d], d)'
    <3> DEFINE ev == [event |-> "BallotPublished", ballotIndex |-> ballotCount[e],
                      ciphertext |-> c]
    <3>1. CASE d # e
      <4>1. log'[d] = log[d]
            /\ ballotCastByVotingAddress'[d] = ballotCastByVotingAddress[d]
        BY <2>3, <3>1 DEF PublishBallot, Emit, TypeOK
      <4>2. QED
        BY <2>1, <4>1 DEF Attributed
    <3>2. CASE d = e
      <4>1. /\ log'[d] = Append(log[d], ev)
            /\ ballotCastByVotingAddress'[d] = ballotCastByVotingAddress[d] \cup {k}
        BY <2>3, <3>2 DEF PublishBallot, Emit, TypeOK
      <4>2. /\ k \notin ballotCastByVotingAddress[d]
            /\ [key |-> k, election |-> d, ciphertext |-> ev.ciphertext] \in BallotSigs
        BY <2>3, <3>2 DEF PublishBallot, BallotAccepted, VotingAddressEligible,
           BallotRecoversTo
      <4>3. log[d] \in Seq(Event) /\ ev \in Event /\ ev.event = "BallotPublished"
        BY DEF TypeOK, Event, BallotEvents
      <4> HIDE DEF ev
      <4>4. Attributed(Append(log[d], ev), ballotCastByVotingAddress[d] \cup {k}, d)
        BY <2>1, <4>2, <4>3, NewBallotAttributed
      <4>5. QED
        BY <4>1, <4>4 DEF Attributed
    <3>3. QED
      BY <3>1, <3>2
  <2>4. CASE UNCHANGED vars
    BY <2>2, <2>4 DEF vars, SameBallots
  <2>5. CASE Next
    BY <2>2, <2>3, <2>5, BallotSteps
  <2>6. QED
    BY <2>4, <2>5
<1>3. RollAndBoxAgree /\ AllAttributed => BallotsAttributable
  <2> SUFFICES ASSUME RollAndBoxAgree, AllAttributed, NEW e \in ElectionIds
               PROVE  \E voter \in Injection(BallotPositions(log[e]),
                                             votingAddressRegistered[e]) :
                        \A i \in BallotPositions(log[e]) :
                          [key |-> voter[i], election |-> e,
                           ciphertext |-> log[e][i].ciphertext] \in BallotSigs
    BY DEF BallotsAttributable
  <2>1. PICK voter \in Injection(BallotPositions(log[e]), ballotCastByVotingAddress[e]) :
          \A i \in BallotPositions(log[e]) :
            [key |-> voter[i], election |-> e, ciphertext |-> log[e][i].ciphertext]
              \in BallotSigs
    BY DEF Attributed
  <2>2. ballotCastByVotingAddress[e] \subseteq votingAddressRegistered[e]
    BY DEF RollAndBoxAgree, RollAndBoxAgreeIn
  <2>3. voter \in Injection(BallotPositions(log[e]), votingAddressRegistered[e])
    BY <2>1, <2>2 DEF Injection, IsInjective
  <2>4. QED
    BY <2>1, <2>3
<1>4. QED
  BY <1>1, <1>2, <1>3, TypeCorrect, OneSignupOneBallot, PTL DEF Spec

-----------------------------------------------------------------------------
(* What an observer may have rebuilt at any point.                         *)
Views == [phase : Phase, nullifiers : SUBSET Nullifiers, keys : SUBSET VotingKeys,
          signups : Nat, ballots : Nat, tally : BOOLEAN, decryption : BOOLEAN]

(* An event takes a view to a view.                                        *)
LEMMA ApplyEventType ==
  ASSUME NEW view \in Views, NEW ev \in Event
  PROVE  ApplyEvent(view, ev) \in Views
<1>1. CASE ev.event = "PhaseChanged"
  <2>1. ev.newPhase \in Phase
    BY <1>1 DEF Event, PhaseChangedEvents, SignupEvents, BallotEvents, ActaEvents,
       RecordedEvents, VerifiedEvents, CreatedEvents, CommitmentEvents
  <2>2. ApplyEvent(view, ev) = [view EXCEPT !.phase = ev.newPhase]
    BY <1>1 DEF ApplyEvent
  <2>3. [view EXCEPT !.phase = ev.newPhase] \in Views
    BY <2>1 DEF Views
  <2>4. QED
    BY <2>2, <2>3
<1>2. CASE ev.event = "SignupRecorded"
  <2> DEFINE nullifiers == view.nullifiers \cup {ev.nullifier}
             keys == view.keys \cup {ev.key}
             signups == view.signups + 1
  <2>1. ev.nullifier \in Nullifiers /\ ev.key \in VotingKeys
    BY <1>2 DEF Event, PhaseChangedEvents, SignupEvents, BallotEvents, ActaEvents,
       RecordedEvents, VerifiedEvents, CreatedEvents, CommitmentEvents
  <2>2. ApplyEvent(view, ev) = [view EXCEPT !.nullifiers = nullifiers,
                                            !.keys = keys, !.signups = signups]
    BY <1>2 DEF ApplyEvent
  <2>3. /\ nullifiers \in SUBSET Nullifiers /\ keys \in SUBSET VotingKeys
        /\ signups \in Nat
    BY <2>1 DEF Views
  <2> HIDE DEF nullifiers, keys, signups
  <2>4. [view EXCEPT !.nullifiers = nullifiers, !.keys = keys, !.signups = signups] \in Views
    BY <2>3 DEF Views
  <2>5. QED
    BY <2>2, <2>4
<1>3. CASE ev.event \notin {"PhaseChanged", "SignupRecorded"}
  <2>1. \/ ApplyEvent(view, ev) = view
        \/ ApplyEvent(view, ev) = [view EXCEPT !.ballots = @ + 1]
        \/ ApplyEvent(view, ev) = [view EXCEPT !.tally = TRUE]
        \/ ApplyEvent(view, ev) = [view EXCEPT !.decryption = TRUE]
    BY <1>3 DEF ApplyEvent
  <2>2. [view EXCEPT !.ballots = @ + 1] \in Views
    BY DEF Views
  <2>3. [view EXCEPT !.tally = TRUE] \in Views
    BY DEF Views
  <2>4. [view EXCEPT !.decryption = TRUE] \in Views
    BY DEF Views
  <2>5. QED
    BY <2>1, <2>2, <2>3, <2>4
<1>4. QED
  BY <1>1, <1>2, <1>3

(* The recursion of ViewsOf is well defined.                               *)
LEMMA ViewsOfEvents ==
  ASSUME NEW events \in Seq(Event)
  PROVE  /\ ViewsOf(events) \in [0 .. Len(events) -> Views]
         /\ ViewsOf(events)[0] = EmptyView
         /\ \A i \in 1 .. Len(events) :
              ViewsOf(events)[i] = ApplyEvent(ViewsOf(events)[i - 1], events[i])
<1> DEFINE n == Len(events)
           Step(v, i) == IF i = 0 THEN EmptyView ELSE ApplyEvent(v[i - 1], events[i])
           F == [p \in (1 .. n) \X Views |-> ApplyEvent(p[2], events[p[1]])]
<1>1. n \in Nat /\ EmptyView \in Views
  BY DEF EmptyView, Views, Phase, SETUP, ARCHIVED
<1>2. F \in [(1 .. n) \X Views -> Views]
  BY ApplyEventType
<1> DEFINE Computed(S, a, m, G) ==
             \E f \in [0 .. m -> S] :
               f[0] = a /\ \A i \in 1 .. m : f[i] = G[<<i, f[i - 1]>>]
<1>3. PICK f \in [0 .. n -> Views] :
        f[0] = EmptyView /\ \A i \in 1 .. n : f[i] = F[<<i, f[i - 1]>>]
  <2>1. \A S : \A a \in S : \A m \in Nat : \A G \in [(1 .. m) \X S -> S] :
          Computed(S, a, m, G)
    BY RecursionExists
  <2>2. Computed(Views, EmptyView, n, F)
    <3> HIDE DEF n, F, Computed
    <3>1. QED
      BY <1>1, <1>2, <2>1, Zenon
  <2>3. QED
    BY <2>2
<1>4. \A i \in 1 .. n : f[i] = ApplyEvent(f[i - 1], events[i])
  BY <1>3
<1>5. f = [i \in 0 .. n |-> Step(f, i)]
  <2>1. \A i \in 0 .. n : f[i] = Step(f, i)
    BY <1>3, <1>4
  <2> HIDE DEF Step
  <2>2. QED
    BY <1>3, <2>1
<1>6. ViewsOf(events) = CHOOSE v : v = [i \in 0 .. n |-> Step(v, i)]
  BY DEF ViewsOf
<1> DEFINE V == ViewsOf(events)
<1>7. V = [i \in 0 .. n |-> Step(V, i)]
  <2> HIDE DEF Step
  <2>1. QED
    BY <1>5, <1>6
<1> HIDE DEF V
<1>8. V[0] = EmptyView /\ \A i \in 1 .. n : V[i] = ApplyEvent(V[i - 1], events[i])
  BY <1>1, <1>7
<1>9. V \in [0 .. n -> Views]
  <2> DEFINE Typed == {i \in Nat : i <= n => V[i] \in Views}
  <2>1. 0 \in Typed
    BY <1>1, <1>8
  <2>2. ASSUME NEW i \in Nat, i \in Typed
        PROVE  i + 1 \in Typed
    <3>1. CASE i + 1 <= n
      <4>1. V[i] \in Views /\ V[i + 1] = ApplyEvent(V[i], events[i + 1])
        BY <1>1, <1>8, <2>2, <3>1
      <4>2. events[i + 1] \in Event
        BY <3>1
      <4>3. QED
        BY <4>1, <4>2, ApplyEventType
    <3>2. QED
      BY <3>1
  <2>3. \A i \in 0 .. n : V[i] \in Views
    <3> HIDE DEF Typed
    <3>1. Nat \subseteq Typed
      BY <2>1, <2>2, SetInduction
    <3>2. QED
      BY <1>1, <3>1 DEF Typed
  <2>4. QED
    BY <1>7, <2>3
<1>10. QED
  BY <1>8, <1>9 DEF V

(* Views of the past stay as they are when an event is added.              *)
LEMMA ViewsOfAppend ==
  ASSUME NEW events \in Seq(Event), NEW ev \in Event
  PROVE  /\ \A i \in 0 .. Len(events) :
              ViewsOf(Append(events, ev))[i] = ViewsOf(events)[i]
         /\ Replay(Append(events, ev)) = ApplyEvent(Replay(events), ev)
<1> DEFINE longer == Append(events, ev)
           n == Len(events)
           V == ViewsOf(events)
           W == ViewsOf(longer)
<1>1. /\ longer \in Seq(Event) /\ n \in Nat /\ Len(longer) = n + 1
      /\ \A i \in 1 .. n : longer[i] = events[i]
      /\ longer[n + 1] = ev
  OBVIOUS
<1>2. V[0] = EmptyView /\ \A i \in 1 .. n : V[i] = ApplyEvent(V[i - 1], events[i])
  BY ViewsOfEvents
<1>3. W[0] = EmptyView /\ \A i \in 1 .. n + 1 : W[i] = ApplyEvent(W[i - 1], longer[i])
  <2> HIDE DEF longer
  <2>1. QED
    BY <1>1, ViewsOfEvents
<1> HIDE DEF longer, V, W
<1> DEFINE Same == {i \in Nat : i <= n => W[i] = V[i]}
<1>4. 0 \in Same
  BY <1>2, <1>3
<1>5. ASSUME NEW i \in Nat, i \in Same
      PROVE  i + 1 \in Same
  BY <1>1, <1>2, <1>3, <1>5
<1>6. Nat \subseteq Same
  <2> HIDE DEF Same
  <2>1. QED
    BY <1>4, <1>5, SetInduction
<1>7. \A i \in 0 .. n : W[i] = V[i]
  BY <1>1, <1>6
<1>8. W[n + 1] = ApplyEvent(V[n], ev)
  BY <1>1, <1>3, <1>7
<1>9. QED
  BY <1>1, <1>7, <1>8 DEF Replay, longer, V, W

-----------------------------------------------------------------------------
(* The state the contract keeps for an election, as an observer's view.    *)
ViewIn(e) ==
  [phase |-> elections[e].phase, nullifiers |-> registryNullifierUsed[e],
   keys |-> votingAddressRegistered[e], signups |-> signupCount[e],
   ballots |-> ballotCount[e], tally |-> tallyProofVerified[e],
   decryption |-> decryptionProofVerified[e]]

(* A step leaves an election and its log alone, or adds one event that is  *)
(* allowed and tells the change of state, or the two events of a verifier  *)
(* contract: the record of a proof, and the proof that Groth16 accepted.   *)
Silent(e) == log'[e] = log[e] /\ ViewIn(e)' = ViewIn(e)

RecordNames == {"TallyProofVerificationRecorded",
                "DecryptionProofVerificationRecorded"}

Told(e, ev) ==
  /\ log'[e] = Append(log[e], ev)
  /\ ViewIn(e)' = ApplyEvent(ViewIn(e), ev)
  /\ EventAllowed(ViewIn(e), ev)
  /\ ev.event \in RecordNames => ev.verifier \in Accounts

Certifies(first, second) ==
  /\ second.verifier = first.verifier
  /\ second.proof \in ValidProofs
  /\ \/ /\ first.event = "TallyProofVerificationRecorded"
        /\ second.event = "TallyProofVerifiedOnChain"
     \/ /\ first.event = "DecryptionProofVerificationRecorded"
        /\ second.event = "DecryptionProofVerifiedOnChain"

ToldTwice(e, first, second) ==
  /\ log'[e] = Append(Append(log[e], first), second)
  /\ ViewIn(e)' = ApplyEvent(ViewIn(e), first)
  /\ ViewIn(e).phase = TALLYING
  /\ Certifies(first, second)

Recounted(e) ==
  \/ Silent(e)
  \/ \E ev \in Event : Told(e, ev)
  \/ \E first, second \in Event : ToldTwice(e, first, second)

(* The state of an election is a view.                                     *)
LEMMA ViewInType ==
  ASSUME NEW e \in ElectionIds
  PROVE  /\ TypeOK => ViewIn(e) \in Views
         /\ TypeOK' => ViewIn(e)' \in Views
BY DEF TypeOK, ViewIn, Views, Election

(* Views are told apart by their fields.                                   *)
LEMMA SameView ==
  ASSUME NEW v \in Views, NEW w \in Views,
         v.phase = w.phase, v.nullifiers = w.nullifiers, v.keys = w.keys,
         v.signups = w.signups, v.ballots = w.ballots, v.tally = w.tally,
         v.decryption = w.decryption
  PROVE  v = w
BY DEF Views

(* Emitting to one election leaves the logs of the others as they are.     *)
LEMMA EmitLogs ==
  ASSUME TypeOK, NEW e \in ElectionIds, NEW d \in ElectionIds
  PROVE  /\ \A ev : Emit(e, ev) =>
              log'[d] = IF d = e THEN Append(log[d], ev) ELSE log[d]
         /\ \A ev1, ev2 : EmitTwo(e, ev1, ev2) =>
              log'[d] = IF d = e THEN Append(Append(log[d], ev1), ev2) ELSE log[d]
BY DEF TypeOK, Emit, EmitTwo

(* A phase step is told by its PhaseChanged event.                         *)
LEMMA PhaseStepTold ==
  ASSUME TypeOK, NEW sender \in Accounts, NEW e \in ElectionIds,
         PhaseStep(sender, e), NEW d \in ElectionIds
  PROVE  Recounted(d)
<1>1. PICK from \in Phase :
        /\ from + 1 \in Phase
        /\ PhaseFunction(sender, e, from, from + 1)
        /\ from = TALLYING => ProofsVerified(e)
  BY PhaseStepCases
<1> DEFINE ev == [event |-> "PhaseChanged",
                  previousPhase |-> elections[e].phase, newPhase |-> from + 1]
<1>2. /\ elections[e].phase = from /\ elections[d] \in Election
      /\ elections' = [elections EXCEPT ![e].phase = from + 1]
      /\ Emit(e, ev) /\ UNCHANGED <<signupVars, ballotVars, proofVars>>
  BY <1>1 DEF PhaseFunction, SetPhase, InPhase, TypeOK
<1>3. ev \in Event
  BY <1>1, <1>2 DEF Event, PhaseChangedEvents
<1>4. CASE d # e
  <2>1. log'[d] = log[d]
    BY <1>2, <1>4, EmitLogs
  <2>2. elections'[d] = elections[d]
    BY <1>2, <1>4 DEF TypeOK
  <2>3. QED
    BY <1>2, <2>1, <2>2 DEF Recounted, Silent, ViewIn, signupVars, ballotVars, proofVars
<1>5. CASE d = e
  <2>1. log'[d] = Append(log[d], ev)
    BY <1>2, <1>5, EmitLogs
  <2>2. elections'[d].phase = from + 1
    BY <1>2, <1>5 DEF TypeOK, Election
  <2>3. ViewIn(d)' = [ViewIn(d) EXCEPT !.phase = from + 1]
    BY <1>2, <2>2 DEF ViewIn, signupVars, ballotVars, proofVars
  <2>4. ApplyEvent(ViewIn(d), ev) = [ViewIn(d) EXCEPT !.phase = from + 1]
    BY DEF ApplyEvent
  <2>5. EventAllowed(ViewIn(d), ev)
    <3>1. from + 1 = RESULTS_PUBLISHED => ViewIn(d).tally /\ ViewIn(d).decryption
      BY <1>1, <1>5 DEF ProofsVerified, ViewIn, TALLYING, RESULTS_PUBLISHED, Phase
    <3>2. ViewIn(d).phase = from
      BY <1>2, <1>5 DEF ViewIn
    <3>3. QED
      BY <1>2, <1>5, <3>1, <3>2 DEF EventAllowed
  <2>6. ev.event \notin RecordNames
    BY DEF RecordNames
  <2> HIDE DEF ev
  <2>7. Told(d, ev)
    BY <2>1, <2>3, <2>4, <2>5, <2>6 DEF Told
  <2>8. QED
    BY <1>3, <2>7 DEF Recounted
<1>6. QED
  BY <1>4, <1>5

(* So is a signup by SignupRecorded.                                       *)
LEMMA SignupTold ==
  ASSUME TypeOK, TypeOK', NEW e \in ElectionIds, NEW n \in Nullifiers,
         NEW k \in VotingKeys \cup {MalformedKey}, Signup(e, n, k),
         NEW d \in ElectionIds
  PROVE  Recounted(d)
<1> DEFINE ev == [event |-> "SignupRecorded", nullifier |-> n, key |-> k]
<1>1. ev \in Event
  BY DEF Signup, SignupAccepted, DeriveVotingAddressSucceeds, Event, SignupEvents
<1>2. Emit(e, ev) /\ UNCHANGED <<elections, ballotVars, proofVars>>
  BY DEF Signup
<1>3. CASE d # e
  <2>1. log'[d] = log[d]
    BY <1>2, <1>3, EmitLogs
  <2>2. /\ registryNullifierUsed'[d] = registryNullifierUsed[d]
        /\ votingAddressRegistered'[d] = votingAddressRegistered[d]
        /\ signupCount'[d] = signupCount[d]
    BY <1>3 DEF Signup, TypeOK
  <2>3. QED
    BY <1>2, <2>1, <2>2 DEF Recounted, Silent, ViewIn, ballotVars, proofVars
<1>4. CASE d = e
  <2>1. log'[d] = Append(log[d], ev)
    BY <1>2, <1>4, EmitLogs
  <2>2. /\ registryNullifierUsed'[d] = registryNullifierUsed[d] \cup {n}
        /\ votingAddressRegistered'[d] = votingAddressRegistered[d] \cup {k}
        /\ signupCount'[d] = signupCount[d] + 1
    BY <1>4 DEF Signup, TypeOK
  <2>3. ViewIn(d)' = ApplyEvent(ViewIn(d), ev)
    <3> DEFINE view == ApplyEvent(ViewIn(d), ev)
    <3>1. view \in Views /\ ViewIn(d) \in Views /\ ViewIn(d)' \in Views
      BY <1>1, ViewInType, ApplyEventType
    <3>2. view = [ViewIn(d) EXCEPT !.nullifiers = @ \cup {n},
                                   !.keys = @ \cup {k}, !.signups = @ + 1]
      BY DEF ApplyEvent
    <3> HIDE DEF view
    <3>3. /\ view.phase = ViewIn(d).phase /\ view.ballots = ViewIn(d).ballots
          /\ view.tally = ViewIn(d).tally /\ view.decryption = ViewIn(d).decryption
          /\ view.nullifiers = ViewIn(d).nullifiers \cup {n}
          /\ view.keys = ViewIn(d).keys \cup {k}
          /\ view.signups = ViewIn(d).signups + 1
      BY <3>1, <3>2 DEF Views
    <3>4. /\ ViewIn(d)'.phase = ViewIn(d).phase
          /\ ViewIn(d)'.ballots = ViewIn(d).ballots
          /\ ViewIn(d)'.tally = ViewIn(d).tally
          /\ ViewIn(d)'.decryption = ViewIn(d).decryption
          /\ ViewIn(d)'.nullifiers = ViewIn(d).nullifiers \cup {n}
          /\ ViewIn(d)'.keys = ViewIn(d).keys \cup {k}
          /\ ViewIn(d)'.signups = ViewIn(d).signups + 1
      BY <1>2, <2>2 DEF ViewIn, ballotVars, proofVars
    <3>5. ViewIn(d)' = view
      BY <3>1, <3>3, <3>4, SameView
    <3>6. QED
      BY <3>5 DEF view
  <2>4. EventAllowed(ViewIn(d), ev)
    BY <1>4 DEF EventAllowed, ViewIn, Signup, SignupAccepted, InPhase
  <2>5. ev.event \notin RecordNames
    BY DEF RecordNames
  <2> HIDE DEF ev
  <2>6. Told(d, ev)
    BY <2>1, <2>3, <2>4, <2>5 DEF Told
  <2>7. QED
    BY <1>1, <2>6 DEF Recounted
<1>5. QED
  BY <1>3, <1>4

(* So is a ballot by BallotPublished.                                      *)
LEMMA BallotTold ==
  ASSUME TypeOK, NEW e \in ElectionIds, NEW c \in Ciphertexts,
         NEW k \in VotingKeys \cup {MalformedKey}, PublishBallot(e, k, c),
         NEW d \in ElectionIds
  PROVE  Recounted(d)
<1> DEFINE ev == [event |-> "BallotPublished", ballotIndex |-> ballotCount[e],
                  ciphertext |-> c]
<1>1. ev \in Event
  BY DEF TypeOK, Event, BallotEvents
<1>2. Emit(e, ev) /\ UNCHANGED <<elections, signupVars, proofVars>>
  BY DEF PublishBallot
<1>3. CASE d # e
  <2>1. log'[d] = log[d]
    BY <1>2, <1>3, EmitLogs
  <2>2. ballotCount'[d] = ballotCount[d]
    BY <1>3 DEF PublishBallot, TypeOK
  <2>3. QED
    BY <1>2, <2>1, <2>2 DEF Recounted, Silent, ViewIn, signupVars, proofVars
<1>4. CASE d = e
  <2>1. log'[d] = Append(log[d], ev)
    BY <1>2, <1>4, EmitLogs
  <2>2. ballotCount'[d] = ballotCount[d] + 1
    BY <1>4 DEF PublishBallot, TypeOK
  <2>3. ViewIn(d)' = [ViewIn(d) EXCEPT !.ballots = @ + 1]
    BY <1>2, <2>2 DEF ViewIn, signupVars, proofVars
  <2>4. ApplyEvent(ViewIn(d), ev) = [ViewIn(d) EXCEPT !.ballots = @ + 1]
    BY DEF ApplyEvent
  <2>5. EventAllowed(ViewIn(d), ev)
    BY <1>4 DEF EventAllowed, ViewIn, PublishBallot, BallotAccepted, InPhase
  <2>6. ev.event \notin RecordNames
    BY DEF RecordNames
  <2> HIDE DEF ev
  <2>7. Told(d, ev)
    BY <2>1, <2>3, <2>4, <2>5, <2>6 DEF Told
  <2>8. QED
    BY <1>1, <2>7 DEF Recounted
<1>5. QED
  BY <1>3, <1>4

(* An event that tells of no state, where the phase allows it.             *)
LEMMA QuietEventTold ==
  ASSUME TypeOK, NEW e \in ElectionIds, NEW ev \in Event, Emit(e, ev),
         UNCHANGED <<elections, signupVars, ballotVars, proofVars>>,
         \/ ev.event \in {"ActaPublished", "ElectionCreated"}
         \/ /\ ev.event = "TallyTranscriptCommitmentPublished"
            /\ elections[e].phase = TALLYING,
         NEW d \in ElectionIds
  PROVE  Recounted(d)
<1>1. ViewIn(d)' = ViewIn(d)
  BY DEF ViewIn, signupVars, ballotVars, proofVars
<1>2. CASE d # e
  BY <1>1, <1>2, EmitLogs DEF Recounted, Silent
<1>3. CASE d = e
  <2>1. log'[d] = Append(log[d], ev)
    BY <1>3, EmitLogs
  <2>2. ApplyEvent(ViewIn(d), ev) = ViewIn(d)
    BY DEF ApplyEvent
  <2>3. EventAllowed(ViewIn(d), ev)
    BY <1>3 DEF EventAllowed, ViewIn
  <2>4. ev.event \notin RecordNames
    BY DEF RecordNames
  <2>5. Told(d, ev)
    BY <1>1, <2>1, <2>2, <2>3, <2>4 DEF Told
  <2>6. QED
    BY <2>5 DEF Recounted
<1>4. QED
  BY <1>2, <1>3

(* A recorded proof sets its flag, and its event tells so.                 *)
LEMMA RecordTold ==
  ASSUME TypeOK, TypeOK', NEW e \in ElectionIds, NEW v \in Addresses, NEW ev,
         \/ RecordTally(v, e) /\ ev = TallyRecorded(v)
         \/ RecordDecryption(v, e) /\ ev = DecryptionRecorded(v)
  PROVE  /\ \A d \in ElectionIds : d # e => ViewIn(d)' = ViewIn(d)
         /\ ViewIn(e)' = ApplyEvent(ViewIn(e), ev)
         /\ EventAllowed(ViewIn(e), ev)
         /\ ViewIn(e).phase = TALLYING
<1> DEFINE view == ApplyEvent(ViewIn(e), ev)
<1>1. /\ UNCHANGED <<elections, signupVars, ballotVars>>
      /\ ViewIn(e).phase = TALLYING
  BY DEF RecordTally, RecordDecryption, InPhase, ViewIn
<1>2. /\ ev.event \in RecordNames /\ ev \in Event
      /\ ev.event = "TallyProofVerificationRecorded" => RecordTally(v, e)
      /\ ev.event = "DecryptionProofVerificationRecorded" => RecordDecryption(v, e)
  BY DEF TallyRecorded, DecryptionRecorded, RecordNames, Event, RecordedEvents
<1>3. EventAllowed(ViewIn(e), ev)
  BY <1>1, <1>2 DEF EventAllowed, RecordNames
<1>4. view \in Views /\ ViewIn(e) \in Views /\ ViewIn(e)' \in Views
  BY <1>2, ViewInType, ApplyEventType
<1>5. \A d \in ElectionIds : d # e => ViewIn(d)' = ViewIn(d)
  BY <1>1 DEF RecordTally, RecordDecryption, ViewIn, signupVars, ballotVars, TypeOK
<1>6. CASE ev.event = "TallyProofVerificationRecorded"
  <2>1. view = [ViewIn(e) EXCEPT !.tally = TRUE]
    BY <1>6 DEF ApplyEvent
  <2> HIDE DEF view
  <2>2. /\ view.phase = ViewIn(e).phase /\ view.nullifiers = ViewIn(e).nullifiers
        /\ view.keys = ViewIn(e).keys /\ view.signups = ViewIn(e).signups
        /\ view.ballots = ViewIn(e).ballots /\ view.tally = TRUE
        /\ view.decryption = ViewIn(e).decryption
    BY <1>4, <2>1 DEF Views
  <2>3. tallyProofVerified'[e] = TRUE /\ UNCHANGED decryptionProofVerified
    BY <1>2, <1>6 DEF RecordTally, TypeOK
  <2>4. ViewIn(e)' = view
    BY <1>1, <1>4, <2>2, <2>3, SameView DEF ViewIn, signupVars, ballotVars
  <2>5. QED
    BY <1>1, <1>3, <1>5, <2>4 DEF view
<1>7. CASE ev.event = "DecryptionProofVerificationRecorded"
  <2>1. view = [ViewIn(e) EXCEPT !.decryption = TRUE]
    BY <1>7 DEF ApplyEvent
  <2> HIDE DEF view
  <2>2. /\ view.phase = ViewIn(e).phase /\ view.nullifiers = ViewIn(e).nullifiers
        /\ view.keys = ViewIn(e).keys /\ view.signups = ViewIn(e).signups
        /\ view.ballots = ViewIn(e).ballots /\ view.tally = ViewIn(e).tally
        /\ view.decryption = TRUE
    BY <1>4, <2>1 DEF Views
  <2>3. decryptionProofVerified'[e] = TRUE /\ UNCHANGED tallyProofVerified
    BY <1>2, <1>7 DEF RecordDecryption, TypeOK
  <2>4. ViewIn(e)' = view
    BY <1>1, <1>4, <2>2, <2>3, SameView DEF ViewIn, signupVars, ballotVars
  <2>5. QED
    BY <1>1, <1>3, <1>5, <2>4 DEF view
<1>8. QED
  BY <1>2, <1>6, <1>7 DEF RecordNames

(* A proof is told by the record alone, from an account, or by the record  *)
(* and the verified proof, from a verifier contract.                       *)
LEMMA ProofStepTold ==
  ASSUME TypeOK, TypeOK', ProofStep, NEW d \in ElectionIds
  PROVE  Recounted(d)
<1>1. ASSUME NEW e \in ElectionIds, NEW sender \in Accounts, NEW ev,
             Emit(e, ev),
             \/ RecordTally(sender, e) /\ ev = TallyRecorded(sender)
             \/ RecordDecryption(sender, e) /\ ev = DecryptionRecorded(sender)
      PROVE  Recounted(d)
  <2>1. /\ ev \in Event /\ ev.verifier \in Accounts /\ sender \in Addresses
    BY <1>1 DEF TallyRecorded, DecryptionRecorded, Event, RecordedEvents, Addresses
  <2>2. CASE d # e
    BY <1>1, <2>1, <2>2, RecordTold, EmitLogs DEF Recounted, Silent
  <2>3. CASE d = e
    <3>1. log'[d] = Append(log[d], ev)
      BY <1>1, <2>3, EmitLogs
    <3>2. Told(d, ev)
      BY <1>1, <2>1, <2>3, <3>1, RecordTold DEF Told
    <3>3. QED
      BY <2>1, <3>2 DEF Recounted
  <2>4. QED
    BY <2>2, <2>3
<1>2. ASSUME NEW e \in ElectionIds, NEW v \in Addresses, NEW proof \in Proofs,
             NEW first, NEW second, EmitTwo(e, first, second), proof \in ValidProofs,
             \/ /\ RecordTally(v, e) /\ first = TallyRecorded(v)
                /\ second = TallyVerified(v, proof)
             \/ /\ RecordDecryption(v, e) /\ first = DecryptionRecorded(v)
                /\ second = DecryptionVerified(v, proof)
      PROVE  Recounted(d)
  <2>1. first \in Event /\ second \in Event /\ Certifies(first, second)
    BY <1>2 DEF TallyRecorded, DecryptionRecorded, TallyVerified, DecryptionVerified,
       Event, RecordedEvents, VerifiedEvents, Certifies
  <2>2. CASE d # e
    BY <1>2, <2>2, RecordTold, EmitLogs DEF Recounted, Silent
  <2>3. CASE d = e
    <3>1. log'[d] = Append(Append(log[d], first), second)
      BY <1>2, <2>3, EmitLogs
    <3>2. ToldTwice(d, first, second)
      BY <1>2, <2>1, <2>3, <3>1, RecordTold DEF ToldTwice
    <3>3. QED
      BY <2>1, <3>2 DEF Recounted
  <2>4. QED
    BY <2>2, <2>3
<1>3. QED
  BY <1>1, <1>2 DEF ProofStep, RecordTallyProofVerification,
     RecordDecryptionProofVerification, VerifyTallyProof, VerifyDecryptionProof,
     Addresses

(* Every step is told in full by the events it emits.                      *)
LEMMA StepTold ==
  ASSUME TypeOK, TypeOK', FreshSlots, [Next]_vars, NEW d \in ElectionIds
  PROVE  Recounted(d)
<1>1. CASE UNCHANGED <<elections, signupVars, ballotVars, proofVars, log>>
  BY <1>1 DEF Recounted, Silent, ViewIn, signupVars, ballotVars, proofVars
<1>2. CASE OwnerStep
  BY <1>1, <1>2 DEF OwnerStep, SetTallyVerifier, SetDecryptionVerifier
<1>3. ASSUME NEW sender \in Accounts, NEW registryAuthority \in Accounts,
             CreateElection(sender, registryAuthority)
      PROVE  Recounted(d)
  <2> DEFINE ev == [event |-> "ElectionCreated", authority |-> sender,
                    registryAuthority |-> registryAuthority]
             e == electionCount
  <2>1. e \in ElectionIds
    BY <1>3, BoundsAssumption DEF CreateElection, TypeOK, ElectionIds
  <2>2. ev \in Event /\ ev.event = "ElectionCreated"
    BY DEF Event, CreatedEvents
  <2>3. Emit(e, ev) /\ UNCHANGED <<signupVars, ballotVars, proofVars>>
    BY <1>3 DEF CreateElection
  <2>4. elections'[d].phase = elections[d].phase
    BY <1>3, <2>1 DEF CreateElection, TypeOK, FreshSlots
  <2>5. ViewIn(d)' = ViewIn(d)
    BY <2>3, <2>4 DEF ViewIn, signupVars, ballotVars, proofVars
  <2> HIDE DEF ev
  <2>6. CASE d # e
    <3>1. log'[d] = log[d]
      BY <2>1, <2>3, <2>6, EmitLogs
    <3>2. QED
      BY <2>5, <3>1 DEF Recounted, Silent
  <2>7. CASE d = e
    <3>1. log'[d] = Append(log[d], ev)
      BY <2>1, <2>3, <2>7, EmitLogs
    <3>2. ApplyEvent(ViewIn(d), ev) = ViewIn(d) /\ EventAllowed(ViewIn(d), ev)
      BY <2>2 DEF ApplyEvent, EventAllowed
    <3>3. Told(d, ev)
      BY <2>2, <2>5, <3>1, <3>2 DEF Told, RecordNames
    <3>4. QED
      BY <2>2, <3>3 DEF Recounted
  <2>8. QED
    BY <2>6, <2>7
<1>4. ASSUME NEW sender \in Accounts, NEW e \in ElectionIds,
             PublishTallyTranscriptCommitment(sender, e)
      PROVE  Recounted(d)
  <2> DEFINE ev == [event |-> "TallyTranscriptCommitmentPublished"]
  <2>1. ev \in Event /\ ev.event = "TallyTranscriptCommitmentPublished"
    BY DEF Event, CommitmentEvents
  <2>2. Emit(e, ev) /\ UNCHANGED <<elections, signupVars, ballotVars, proofVars>>
        /\ elections[e].phase = TALLYING
    BY <1>4 DEF PublishTallyTranscriptCommitment, InPhase
  <2> HIDE DEF ev
  <2>3. QED
    BY <2>1, <2>2, QuietEventTold
<1>5. ASSUME NEW sender \in Accounts, NEW e \in ElectionIds,
             NEW kind \in ActaKinds, NEW snapshot \in Snapshots,
             PublishActa(sender, e, kind, snapshot)
      PROVE  Recounted(d)
  <2> DEFINE ev == [event |-> "ActaPublished", kind |-> kind, snapshot |-> snapshot]
  <2>1. ev \in Event /\ ev.event = "ActaPublished"
    BY DEF Event, ActaEvents
  <2>2. Emit(e, ev) /\ UNCHANGED <<elections, signupVars, ballotVars, proofVars>>
    BY <1>5 DEF PublishActa
  <2> HIDE DEF ev
  <2>3. QED
    BY <2>1, <2>2, QuietEventTold
<1>6. CASE AuthorityStep
  BY <1>3, <1>4, <1>5, <1>6, PhaseStepTold DEF AuthorityStep
<1>7. CASE VoterStep
  BY <1>7, SignupTold, BallotTold DEF VoterStep
<1>8. CASE ProofStep
  BY <1>8, ProofStepTold
<1>9. CASE UNCHANGED vars
  BY <1>1, <1>9 DEF vars
<1>10. QED
  BY <1>2, <1>6, <1>7, <1>8, <1>9 DEF Next

-----------------------------------------------------------------------------
(* A log that rebuilds a view, every event of it in its place.             *)
Rebuilds(events, view) ==
  /\ Replay(events) = view
  /\ \A i \in DOMAIN events : EventAllowed(ViewsOf(events)[i - 1], events[i])

(* An allowed event extends such a log by what it tells.                   *)
LEMMA RebuildsAppend ==
  ASSUME NEW events \in Seq(Event), NEW ev \in Event, NEW view \in Views,
         Rebuilds(events, view), EventAllowed(view, ev)
  PROVE  Rebuilds(Append(events, ev), ApplyEvent(view, ev))
<1> DEFINE longer == Append(events, ev)
           V == ViewsOf(events)
           W == ViewsOf(longer)
           n == Len(events)
<1>1. /\ \A i \in 0 .. n : W[i] = V[i]
      /\ Replay(longer) = ApplyEvent(view, ev)
      /\ V[n] = view
  BY ViewsOfAppend DEF Rebuilds, Replay
<1>2. /\ n \in Nat /\ DOMAIN events = 1 .. n /\ DOMAIN longer = 1 .. n + 1
      /\ \A i \in 1 .. n : longer[i] = events[i]
      /\ longer[n + 1] = ev
  OBVIOUS
<1>3. \A i \in 1 .. n : EventAllowed(V[i - 1], events[i])
  BY <1>2 DEF Rebuilds
<1> HIDE DEF longer, V, W, n
<1>4. ASSUME NEW i \in 1 .. n + 1
      PROVE  EventAllowed(W[i - 1], longer[i])
  <2>1. CASE i = n + 1
    <3>1. i - 1 = n /\ n \in 0 .. n
      BY <1>2, <2>1
    <3>2. W[i - 1] = view /\ longer[i] = ev
      BY <1>1, <1>2, <2>1, <3>1
    <3>3. QED
      BY <3>2
  <2>2. CASE i \in 1 .. n
    <3>1. i - 1 \in 0 .. n
      BY <1>2, <2>2
    <3>2. W[i - 1] = V[i - 1] /\ longer[i] = events[i]
      BY <1>1, <1>2, <2>2, <3>1
    <3>3. QED
      BY <1>3, <2>2, <3>2
  <2>3. QED
    BY <1>2, <2>1, <2>2
<1>5. QED
  BY <1>1, <1>2, <1>4 DEF Rebuilds, longer, W

(* A verified proof repeats what its record told.                          *)
LEMMA SecondEventQuiet ==
  ASSUME NEW view, NEW first, NEW second, Certifies(first, second)
  PROVE  ApplyEvent(view, second) = view
BY DEF Certifies, ApplyEvent

(* A record of a proof leaves the phase alone.                             *)
LEMMA RecordKeepsPhase ==
  ASSUME NEW view \in Views, NEW first, NEW second, Certifies(first, second)
  PROVE  ApplyEvent(view, first).phase = view.phase
<1>1. \/ ApplyEvent(view, first) = [view EXCEPT !.tally = TRUE]
      \/ ApplyEvent(view, first) = [view EXCEPT !.decryption = TRUE]
  BY DEF Certifies, ApplyEvent
<1>2. QED
  BY <1>1 DEF Views

(* So the two events of a verifier contract extend such a log as well.     *)
LEMMA RebuildsTwice ==
  ASSUME NEW events \in Seq(Event), NEW first \in Event, NEW second \in Event,
         NEW view \in Views, Rebuilds(events, view), view.phase = TALLYING,
         Certifies(first, second)
  PROVE  Rebuilds(Append(Append(events, first), second), ApplyEvent(view, first))
<1> DEFINE longer == Append(events, first)
           next == ApplyEvent(view, first)
<1>1. longer \in Seq(Event) /\ next \in Views
  BY ApplyEventType
<1>2. EventAllowed(view, first)
  BY DEF EventAllowed, Certifies
<1>3. Rebuilds(longer, next)
  BY <1>2, RebuildsAppend
<1>4. next.phase = TALLYING
  BY RecordKeepsPhase
<1> HIDE DEF longer, next
<1>5. EventAllowed(next, second)
  BY <1>4 DEF EventAllowed, Certifies
<1>6. Rebuilds(Append(longer, second), ApplyEvent(next, second))
  BY <1>1, <1>3, <1>5, RebuildsAppend
<1>7. ApplyEvent(next, second) = next
  BY SecondEventQuiet
<1>8. QED
  BY <1>6, <1>7 DEF longer, next

(* The observer's record is the contract's state in every election.        *)
Recorded == \A e \in ElectionIds : Rebuilds(log[e], ViewIn(e))

(* No step, whoever sends it, changes the state of an election without an  *)
(* event that says so, at a place where the events before it allow it: the *)
(* log alone rebuilds the state.                                           *)
THEOREM LogIsFaithful == Spec => []LogFaithful
<1>1. Init => Recorded
  <2> SUFFICES ASSUME Init, NEW e \in ElectionIds
               PROVE  Rebuilds(log[e], ViewIn(e))
    BY DEF Recorded
  <2>1. log[e] = <<>> /\ ViewIn(e) = EmptyView
    BY DEF Init, ViewIn, EmptyView, Vacant
  <2>2. <<>> \in Seq(Event) /\ Len(<<>>) = 0 /\ DOMAIN <<>> = {}
    OBVIOUS
  <2>3. Replay(<<>>) = EmptyView
    BY <2>2, ViewsOfEvents DEF Replay
  <2>4. QED
    BY <2>1, <2>2, <2>3 DEF Rebuilds
<1>2. TypeOK /\ TypeOK' /\ FreshSlots /\ Recorded /\ [Next]_vars => Recorded'
  <2> SUFFICES ASSUME TypeOK, TypeOK', FreshSlots, Recorded, [Next]_vars,
                      NEW e \in ElectionIds
               PROVE  Rebuilds(log[e], ViewIn(e))'
    BY DEF Recorded
  <2>1. /\ Rebuilds(log[e], ViewIn(e)) /\ log[e] \in Seq(Event) /\ ViewIn(e) \in Views
        /\ Recounted(e)
    BY StepTold, ViewInType DEF Recorded, TypeOK
  <2>2. ASSUME NEW view, ViewIn(e)' = view, NEW events, log'[e] = events,
               Rebuilds(events, view)
        PROVE  Rebuilds(log[e], ViewIn(e))'
    BY <2>2 DEF Rebuilds
  <2>3. CASE Silent(e)
    BY <2>1, <2>2, <2>3 DEF Silent
  <2>4. CASE \E ev \in Event : Told(e, ev)
    BY <2>1, <2>2, <2>4, RebuildsAppend DEF Told
  <2>5. CASE \E first, second \in Event : ToldTwice(e, first, second)
    BY <2>1, <2>2, <2>5, RebuildsTwice DEF ToldTwice
  <2>6. QED
    BY <2>1, <2>3, <2>4, <2>5 DEF Recounted
<1>3. Recorded => LogFaithful
  BY DEF Recorded, Rebuilds, ViewIn, LogFaithful, LogDeterminesState,
         LogWellOrdered, ReplayBefore
<1>4. QED
  BY <1>1, <1>2, <1>3, TypeCorrect, FreshSlotsInvariant, PTL DEF Spec

-----------------------------------------------------------------------------
(* The record of a proof in a log, made while tallying, by an ordinary     *)
(* account or next to the proof that a verifier contract accepted.         *)
RecordAt(events, i, recorded, verified) ==
  /\ events[i].event = recorded
  /\ ViewsOf(events)[i - 1].phase = TALLYING
  /\ \/ events[i].verifier \in Accounts
     \/ /\ i + 1 \in DOMAIN events
        /\ events[i + 1].event = verified
        /\ events[i + 1].verifier = events[i].verifier
        /\ events[i + 1].proof \in ValidProofs
ProofIn(events, recorded, verified) ==
  \E i \in DOMAIN events : RecordAt(events, i, recorded, verified)

(* A recorded proof stays in the log.                                      *)
LEMMA ProofStays ==
  ASSUME NEW events \in Seq(Event), NEW ev \in Event, NEW recorded, NEW verified,
         ProofIn(events, recorded, verified)
  PROVE  ProofIn(Append(events, ev), recorded, verified)
<1> DEFINE longer == Append(events, ev)
<1>1. PICK i \in DOMAIN events : RecordAt(events, i, recorded, verified)
  BY DEF ProofIn
<1>2. /\ i \in DOMAIN longer /\ longer[i] = events[i]
      /\ \A j \in DOMAIN events : j \in DOMAIN longer /\ longer[j] = events[j]
      /\ i - 1 \in 0 .. Len(events)
  OBVIOUS
<1>3. ViewsOf(longer)[i - 1] = ViewsOf(events)[i - 1]
  BY <1>2, ViewsOfAppend
<1> HIDE DEF longer
<1>4. RecordAt(longer, i, recorded, verified)
  BY <1>1, <1>2, <1>3 DEF RecordAt
<1>5. QED
  BY <1>2, <1>4 DEF ProofIn, longer

(* The names of a record and of the proof a verifier contract accepted.    *)
TallyNames == <<"TallyProofVerificationRecorded", "TallyProofVerifiedOnChain">>
DecryptionNames ==
  <<"DecryptionProofVerificationRecorded", "DecryptionProofVerifiedOnChain">>

(* The flags of a view are backed by the proofs of a log, and results are  *)
(* published with both flags set only.                                     *)
Backed(events, view) ==
  /\ view.tally => ProofIn(events, TallyNames[1], TallyNames[2])
  /\ view.decryption => ProofIn(events, DecryptionNames[1], DecryptionNames[2])
  /\ view.phase >= RESULTS_PUBLISHED => view.tally /\ view.decryption

(* An event sets the flag it records and no other.                         *)
LEMMA FlagsOfEvent ==
  ASSUME NEW view \in Views, NEW ev \in Event
  PROVE  /\ ApplyEvent(view, ev).tally = TRUE =>
              view.tally \/ ev.event = TallyNames[1]
         /\ ApplyEvent(view, ev).decryption = TRUE =>
              view.decryption \/ ev.event = DecryptionNames[1]
         /\ view.tally => ApplyEvent(view, ev).tally
         /\ view.decryption => ApplyEvent(view, ev).decryption
         /\ ev.event # "PhaseChanged" => ApplyEvent(view, ev).phase = view.phase
         /\ ev.event = "PhaseChanged" => ApplyEvent(view, ev).phase = ev.newPhase
<1> DEFINE next == ApplyEvent(view, ev)
<1>1. CASE ev.event = "PhaseChanged"
  <2>1. next = [view EXCEPT !.phase = ev.newPhase]
    BY <1>1 DEF ApplyEvent
  <2> HIDE DEF next
  <2>2. next.phase = ev.newPhase /\ next.tally = view.tally
        /\ next.decryption = view.decryption
    BY <2>1 DEF Views
  <2>3. QED
    BY <1>1, <2>2 DEF next
<1>2. CASE ev.event = "SignupRecorded"
  <2>1. next = [view EXCEPT !.nullifiers = @ \cup {ev.nullifier},
                            !.keys = @ \cup {ev.key}, !.signups = @ + 1]
    BY <1>2 DEF ApplyEvent
  <2> HIDE DEF next
  <2>2. next.phase = view.phase /\ next.tally = view.tally
        /\ next.decryption = view.decryption
    BY <2>1 DEF Views
  <2>3. QED
    BY <1>2, <2>2 DEF next
<1>3. CASE ev.event \notin {"PhaseChanged", "SignupRecorded"}
  <2>1. \/ next = view
        \/ next = [view EXCEPT !.ballots = @ + 1]
        \/ next = [view EXCEPT !.tally = TRUE] /\ ev.event = TallyNames[1]
        \/ next = [view EXCEPT !.decryption = TRUE] /\ ev.event = DecryptionNames[1]
    BY <1>3 DEF ApplyEvent, TallyNames, DecryptionNames
  <2> HIDE DEF next
  <2>2. /\ next.phase = view.phase
        /\ next.tally = view.tally \/ (next.tally = TRUE /\ ev.event = TallyNames[1])
        /\ \/ next.decryption = view.decryption
           \/ next.decryption = TRUE /\ ev.event = DecryptionNames[1]
    BY <2>1 DEF Views
  <2>3. QED
    BY <1>3, <2>2 DEF next
<1>4. QED
  BY <1>1, <1>2, <1>3

(* An account's record is a proof in the log it extends.                   *)
LEMMA AccountRecord ==
  ASSUME NEW events \in Seq(Event), NEW ev \in Event, NEW view \in Views,
         Rebuilds(events, view), view.phase = TALLYING,
         NEW recorded, NEW verified,
         ev.event = recorded, ev.verifier \in Accounts
  PROVE  ProofIn(Append(events, ev), recorded, verified)
<1> DEFINE longer == Append(events, ev)
           i == Len(events) + 1
<1>1. i \in DOMAIN longer /\ longer[i] = ev /\ i - 1 = Len(events)
      /\ Len(events) \in 0 .. Len(events)
  OBVIOUS
<1>2. ViewsOf(longer)[i - 1] = view
  BY <1>1, ViewsOfAppend DEF Rebuilds, Replay
<1> HIDE DEF longer, i
<1>3. RecordAt(longer, i, recorded, verified)
  BY <1>1, <1>2 DEF RecordAt
<1>4. QED
  BY <1>1, <1>3 DEF ProofIn, longer

(* So are the record and the proof of a verifier contract.                 *)
LEMMA CertifiedRecord ==
  ASSUME NEW events \in Seq(Event), NEW first \in Event, NEW second \in Event,
         NEW view \in Views, Rebuilds(events, view), view.phase = TALLYING,
         NEW recorded, NEW verified,
         first.event = recorded, second.event = verified,
         second.verifier = first.verifier, second.proof \in ValidProofs
  PROVE  ProofIn(Append(Append(events, first), second), recorded, verified)
<1> DEFINE longer == Append(events, first)
           all == Append(longer, second)
           i == Len(events) + 1
<1>1. /\ i \in DOMAIN all /\ i + 1 \in DOMAIN all /\ i - 1 = Len(events)
      /\ all[i] = first /\ all[i + 1] = second
      /\ Len(events) \in 0 .. Len(events) /\ Len(events) \in 0 .. Len(longer)
      /\ longer \in Seq(Event)
  OBVIOUS
<1>2. ViewsOf(longer)[i - 1] = view
  BY <1>1, ViewsOfAppend DEF Rebuilds, Replay
<1>3. ViewsOf(all)[i - 1] = ViewsOf(longer)[i - 1]
  <2> HIDE DEF longer
  <2>1. QED
    BY <1>1, ViewsOfAppend
<1> HIDE DEF longer, all, i
<1>4. RecordAt(all, i, recorded, verified)
  BY <1>1, <1>2, <1>3 DEF RecordAt
<1>5. QED
  BY <1>1, <1>4 DEF ProofIn, all, longer

(* An event keeps every set flag backed, and a phase moves to              *)
(* RESULTS_PUBLISHED with both flags set.                                  *)
LEMMA BackedAppend ==
  ASSUME NEW events \in Seq(Event), NEW ev \in Event, NEW view \in Views,
         Backed(events, view), Rebuilds(events, view), EventAllowed(view, ev),
         ev.event \in RecordNames => ev.verifier \in Accounts
  PROVE  Backed(Append(events, ev), ApplyEvent(view, ev))
<1> DEFINE next == ApplyEvent(view, ev)
           longer == Append(events, ev)
<1>0. next \in Views
  BY ApplyEventType
<1>1. next.tally => ProofIn(longer, TallyNames[1], TallyNames[2])
  <2>1. CASE view.tally
    BY <2>1, ProofStays DEF Backed
  <2>2. CASE ev.event = TallyNames[1]
    <3>1. view.phase = TALLYING /\ ev.verifier \in Accounts
      BY <2>2 DEF EventAllowed, TallyNames, RecordNames
    <3>2. QED
      BY <2>2, <3>1, AccountRecord
  <2>3. QED
    BY <1>0, <2>1, <2>2, FlagsOfEvent DEF Views
<1>2. next.decryption => ProofIn(longer, DecryptionNames[1], DecryptionNames[2])
  <2>1. CASE view.decryption
    BY <2>1, ProofStays DEF Backed
  <2>2. CASE ev.event = DecryptionNames[1]
    <3>1. view.phase = TALLYING /\ ev.verifier \in Accounts
      BY <2>2 DEF EventAllowed, DecryptionNames, RecordNames
    <3>2. QED
      BY <2>2, <3>1, AccountRecord
  <2>3. QED
    BY <1>0, <2>1, <2>2, FlagsOfEvent DEF Views
<1>3. next.phase >= RESULTS_PUBLISHED => next.tally /\ next.decryption
  <2>1. CASE ev.event = "PhaseChanged"
    <3>1. /\ next.phase = view.phase + 1
          /\ next.phase = RESULTS_PUBLISHED => view.tally /\ view.decryption
      BY <2>1, FlagsOfEvent DEF EventAllowed
    <3>2. view.phase \in Int
      BY DEF Views, Phase, SETUP, ARCHIVED
    <3>3. next.phase >= RESULTS_PUBLISHED => view.tally /\ view.decryption
      BY <3>1, <3>2 DEF Backed, RESULTS_PUBLISHED
    <3>4. QED
      BY <3>3, FlagsOfEvent
  <2>2. CASE ev.event # "PhaseChanged"
    BY <2>2, FlagsOfEvent DEF Backed
  <2>3. QED
    BY <2>1, <2>2
<1>4. QED
  BY <1>1, <1>2, <1>3 DEF Backed

(* So do the two events of a verifier contract.                            *)
LEMMA BackedTwice ==
  ASSUME NEW events \in Seq(Event), NEW first \in Event, NEW second \in Event,
         NEW view \in Views, Backed(events, view), Rebuilds(events, view),
         view.phase = TALLYING, Certifies(first, second)
  PROVE  Backed(Append(Append(events, first), second), ApplyEvent(view, first))
<1> DEFINE next == ApplyEvent(view, first)
           longer == Append(events, first)
           all == Append(longer, second)
<1>0. next \in Views /\ longer \in Seq(Event)
  BY ApplyEventType
<1>1. \A recorded, verified :
        ProofIn(events, recorded, verified) => ProofIn(all, recorded, verified)
  <2>1. SUFFICES ASSUME NEW recorded, NEW verified, ProofIn(events, recorded, verified)
                 PROVE  ProofIn(all, recorded, verified)
    OBVIOUS
  <2>2. ProofIn(longer, recorded, verified)
    BY <2>1, ProofStays
  <2> HIDE DEF longer
  <2>3. QED
    BY <1>0, <2>2, ProofStays
<1>2. next.tally => ProofIn(all, TallyNames[1], TallyNames[2])
  <2>1. CASE view.tally
    BY <1>1, <2>1 DEF Backed
  <2>2. CASE first.event = TallyNames[1]
    <3>1. /\ second.event = TallyNames[2] /\ second.verifier = first.verifier
          /\ second.proof \in ValidProofs
      BY <2>2 DEF Certifies, TallyNames
    <3>2. QED
      BY <2>2, <3>1, CertifiedRecord
  <2>3. QED
    BY <1>0, <2>1, <2>2, FlagsOfEvent DEF Views
<1>3. next.decryption => ProofIn(all, DecryptionNames[1], DecryptionNames[2])
  <2>1. CASE view.decryption
    BY <1>1, <2>1 DEF Backed
  <2>2. CASE first.event = DecryptionNames[1]
    <3>1. /\ second.event = DecryptionNames[2] /\ second.verifier = first.verifier
          /\ second.proof \in ValidProofs
      BY <2>2 DEF Certifies, DecryptionNames
    <3>2. QED
      BY <2>2, <3>1, CertifiedRecord
  <2>3. QED
    BY <1>0, <2>1, <2>2, FlagsOfEvent DEF Views
<1>4. next.phase >= RESULTS_PUBLISHED => next.tally /\ next.decryption
  BY RecordKeepsPhase DEF TALLYING, RESULTS_PUBLISHED
<1>5. QED
  BY <1>2, <1>3, <1>4 DEF Backed

(* Every flag the registry holds is backed by its log.                     *)
AllBacked == \A e \in ElectionIds : Backed(log[e], ViewIn(e))

(* Whatever the owner configures and whoever calls, an election reaches    *)
(* RESULTS_PUBLISHED only after both proofs were recorded while tallying,  *)
(* each by a verifier contract with a proof Groth16 accepted, or by an     *)
(* ordinary account the owner had made the verifier.                       *)
THEOREM ResultsAreProved == Spec => []PublishedOnlyProved
<1>1. Init => AllBacked
  BY DEF Init, AllBacked, Backed, ViewIn, Vacant, SETUP, RESULTS_PUBLISHED
<1>2. TypeOK /\ TypeOK' /\ FreshSlots /\ LogFaithful /\ AllBacked /\ [Next]_vars
        => AllBacked'
  <2> SUFFICES ASSUME TypeOK, TypeOK', FreshSlots, LogFaithful, AllBacked, [Next]_vars,
                      NEW e \in ElectionIds
               PROVE  Backed(log[e], ViewIn(e))'
    BY DEF AllBacked
  <2>1. /\ Backed(log[e], ViewIn(e)) /\ log[e] \in Seq(Event) /\ ViewIn(e) \in Views
        /\ Recounted(e)
    BY StepTold, ViewInType DEF AllBacked, TypeOK
  <2>2. Rebuilds(log[e], ViewIn(e))
    BY DEF Rebuilds, ViewIn, LogFaithful, LogDeterminesState, LogWellOrdered, ReplayBefore
  <2>3. ASSUME NEW view, ViewIn(e)' = view, NEW events, log'[e] = events,
               Backed(events, view)
        PROVE  Backed(log[e], ViewIn(e))'
    BY <2>3 DEF Backed, ProofIn, RecordAt
  <2>4. CASE Silent(e)
    BY <2>1, <2>3, <2>4 DEF Silent
  <2>5. CASE \E ev \in Event : Told(e, ev)
    BY <2>1, <2>2, <2>3, <2>5, BackedAppend DEF Told
  <2>6. CASE \E first, second \in Event : ToldTwice(e, first, second)
    BY <2>1, <2>2, <2>3, <2>6, BackedTwice DEF ToldTwice
  <2>7. QED
    BY <2>1, <2>4, <2>5, <2>6 DEF Recounted
<1>3. AllBacked => PublishedOnlyProved
  <2> SUFFICES ASSUME AllBacked, NEW e \in ElectionIds,
                      elections[e].phase >= RESULTS_PUBLISHED
               PROVE  /\ ProofRecorded(e, TallyNames[1], TallyNames[2])
                      /\ ProofRecorded(e, DecryptionNames[1], DecryptionNames[2])
    BY DEF PublishedOnlyProved, TallyNames, DecryptionNames
  <2>1. /\ ProofIn(log[e], TallyNames[1], TallyNames[2])
        /\ ProofIn(log[e], DecryptionNames[1], DecryptionNames[2])
    BY DEF AllBacked, Backed, ViewIn
  <2>2. \A recorded, verified :
          ProofIn(log[e], recorded, verified) => ProofRecorded(e, recorded, verified)
    BY DEF ProofIn, RecordAt, ProofRecorded, ReplayBefore
  <2>3. QED
    BY <2>1, <2>2
<1>4. QED
  BY <1>1, <1>2, <1>3, TypeCorrect, FreshSlotsInvariant, LogIsFaithful, PTL DEF Spec
=============================================================================
