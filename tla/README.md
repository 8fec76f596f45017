# BU-PVP-1: the electoral system in TLA+

TLA+ models of BlockUrna (protocol BU-PVP-1): what its contract promises, what its
services do between an event on the chain and a row in the database, and where a
failure, a race or a restart can come between the two.  TLC checks each model on small
instances; TLAPS proves the main safety properties for every value of the constants.

Contents: 1 the system; 2 modules and code; 3 runs and bounds; 4 fairness; 5 proofs;
6 disagreements between code and documents; 7 what the models say that a reader may
not expect; 8 what is not modelled; 9 plan.

## 1. The system

The blockchain is the source of truth ("Tablero Público de Evidencias").  Everything
else either writes to it for somebody or projects its events into PostgreSQL tables
that are shared by all services.

| component | state it keeps | operations | hard part |
|---|---|---|---|
| registry contract (`packages/contracts/.../BU_PVP_1_ElectionRegistry.sol`) | elections with phase, counters, roll of nullifiers and voting keys, ballots used, proof flags | phase functions, `signup`, `publishBallot`, `publishActa`, transcript commitments, proof callbacks | long call sequences, verifiers replaced half way, signatures from other elections |
| proof verifiers (`BU_PVP_1_TallyVerifier.sol`, `...DecryptionVerifier.sol`) | none | check a Groth16 proof, call the registry back | the callback's sender is the verifier, who may have been replaced |
| MRD relayer (`apps/mrd-relayer`) | `mrd_submissions`, `incident_logs` | POST signup / ballot, worker loop | several workers, lost replies of RPC and database, death between two statements |
| evidence indexer (`apps/evidence-indexer`) | the event tables, `indexer_state` | copy block ranges, notice a rewritten chain, reset, close incidents, compute consistency and acta reports | restarts, reorganisations, a cursor that is not written with the rows |
| tally board, ceremonies (`apps/tally-board/src/app/actions.ts`) | `decryption_ceremonies`, `decryption_shares` | create, submit a share, close, resolve the key | server actions without transaction or lock |
| tally board, pipeline (same file and `tally/[electionId]/page.tsx`) | `tally_jobs`, `zk_proof_jobs`, `result_payloads`, `acta_contents`, `audit_windows`, `audit_bundle_exports` | process, prove, submit proofs, publish | many calls against two stores, clicked twice, stopped half way |
| authority console (`apps/authority-console`) | admin log, candidate and census tables | phase moves, actas, catalogue | moves phases beside the tally board |
| evidence API (`apps/evidence-api`) | sessions, enrolment requests, wallet links, permits | sessions, requests, prepare-signup; reads of all evidence | each handler is a chain of queries without a transaction, beside the clerks' |
| voter portal (`apps/voter-portal`) | a tab's wizard, `sessionStorage`, the private key in memory | signup, vote, follow the relayer, recover | polls that answer late, reloads, retries against an asynchronous relayer |
| observer portal, audit CLI | none (the CLI: files) | read page by page, verify; issue permits, try signups, export and verify a bundle | many reads of tables that move |
| crypto, SDK, shared types, zk-tally (`packages/*`) | none | thresholds, encryption, Merkle trees, witnesses | arithmetic over fields; positions and ids that must agree |

How they interact:

- services call the contract through ethers; a transaction is sent, then awaited, and
  either half can fail on its own;
- the contract calls nobody; verifiers call the registry;
- the indexer turns events into tables, the others read the tables (`elections.phase` is
  read by the ceremonies, `acta_anchors` by the acta publication);
- the relayer and the indexer share `incident_logs`: one opens an incident, the other
  closes it when the record turns up on the chain;
- the tally pages hold the transcript of a count in the browser, between clicks that may
  be hours apart;
- the candidates are edited in the console, loaded once by each page of the portal, and read
  again by the tally and by the circuits' witness builders: a ballot names its choice by id
  and by position, and the two travel different ways;
- observers and the audit CLI read the tables through the evidence API, one request at a
  time, while all of the above goes on.

What makes each part correct, in a sentence: the roll and the box count what they should
and nothing is published unproved (contract); nothing is sent twice and no failure is
silent (relayer); the cursor vouches for the rows, and evidence is never thrown away
while the chain stands (indexer); the key is out of reach until voting closes and READY
means a quorum (ceremonies); a voter has one enrolment, and an authorised one (enrolment);
the wizard never claims what the chain does not have (portal); what was counted can be
proved, and the two proofs speak of the same ballots (catalogue); alarms and reports say what
is so (audit of the indexer); rows never claim more than happened and publication leaves
its evidence (pipeline).

## 2. Modules and code

| module | models | proofs |
|---|---|---|
| `ElectionRegistry` | the contract and both verifier contracts, one action per external function; a call that reverts is an action that is not enabled; events are kept per election | `ElectionRegistryProofs` |
| `BallotBox` | the abstract promise: a stage per election, a roll, a box with one ballot per voter on the roll | (refinement theorem) |
| `MrdRelayer` | POST handlers, worker loop, the chain taking transactions, the indexer's part in incidents; composes `ElectionRegistry` and drives its actions | `MrdRelayerProofs`, of the relayer alone and with the contract |
| `DecryptionCeremony` | the server actions on ceremonies, an await a step | `DecryptionCeremonyProofs` |
| `Threshold` | the 2-of-3 sharing of the key: `ModInv`, dealing and interpolation | `DecryptionCeremonyProofs` |
| `EvidenceIndexer` | `main()` of the indexer with start, canary, reset, batches and cursor, over a chain that grows and is rewritten | `EvidenceIndexerProofs` |
| `TallyPublication` | the four buttons of the tally page and the actions behind them, with the console's phase moves | `TallyPublicationProofs` |
| `ExportedEvidence` | extends `TallyPublication`: the audit bundle the board materialises, the endpoints of the evidence API, `export-audit-bundle` and `verify-audit-bundle` of the CLI, request by request | `TallyPublicationProofs` |
| `EnrolmentDesk` | census, wallet links, requests, authorizations, sessions and permits: the calls of the evidence API beside the clerks of the console, a query a step | `OffChainProofs` |
| `VoterPortal` | the wizard of a tab: signup, ballot, flights, polls, reload, recovery | `VoterPortalProofs` |
| `BallotCatalogue` | the console's edits of candidates and manifest, the page and its ballot, the count, the two circuits with their witness builders | `OffChainProofs` |
| `EvidenceAudit` | what the indexer does after each batch: missing times, actas from disk, custody incidents, consistency reports; the tally board's writes of contents beside it | `OffChainProofs` |
| `PublicRoll` | the contract's signups, `signup_records`, permits, the observer's pages and verdicts, `rea-issue-permit` and `rea-signup` of the CLI | `OffChainProofs` |
| `InductionLemmas` | induction over numbers, and the existence of functions defined by recursion or by a loop, in a form the provers can use | itself |
| `OffChain` | the desk, the catalogue, the audit and the roll side by side: they share no state, and `part` says which of them runs | `OffChainProofs` |
| `MC*` | constants of the instances TLC checks | |

`PROJECT.json` maps every definition to its lines.  Conventions shared by the modules:

- a step of the model is what the code does between two awaits; local variables that
  survive an await are fields of the process record (`worker`, `call`, `indexer`, `run`);
- a failed RPC call or statement is an action of its own (`SendFails`, `WaitFails`, ...)
  where the code handles it, and a process that stops otherwise;
- a reply can be lost after its effect: the effect and the stop are separate steps;
- signatures are unforgeable: those that exist are constant sets, so any of them can be
  submitted by anybody at any time;
- hashes, keys, ciphertexts and payloads are model values; JSON, logs and wording are left
  out.

**ElectionRegistry.** One variable per storage variable of the contract (a mapping to true is the
set of its keys), `log` the events of each election.  `PhaseFunction` is the shape
of the seven phase functions, `PublishResults` adds the flags.  `Signup` recovers the
permit over (election, nullifier, voting address) as the code does.

**MrdRelayer.** `submissions` is `mrd_submissions`; a worker walks claim, send, wait, look up, record,
mark failed, report.  The claim is one step, because it is one transaction with FOR UPDATE
SKIP LOCKED; its reply can be lost after the commit.  The chain keeps the order of nonces.

**DecryptionCeremony.** A call is a record with its request and what it read.  The two
tables are sequences and functions; nothing is atomic beyond a statement.

**EvidenceIndexer.** `chain` is the canonical chain, `tables` what events left, `cursor` the row
of `indexer_state`, `indexer` the process.  `past` is history for the properties only.  The
events of a range, their rows, the block hash and the cursor are separate steps.

**TallyPublication.** A run is a click.  `proofs[j][c]` is the row of job `j` for a circuit, `verified`
the flags of the registry.  `GateReady` is `loadZkPublicationGateState` for the page's job.
Whether a count is right (made with the true key) is all the model keeps of it.

**Threshold.** The 32 bytes of the key are shared alike and apart; one byte stands for it.  `ModInv`
is the extended Euclidean loop of the code as a recursive function, a `Turn` per call.  `DecryptionCeremony` uses
it: a trustee's share is a point, a ceremony's shares are read in the order of their
coordinates' storage, and `KeyIsCoordinators` compares what comes out with `Secret`.

**ExportedEvidence.** A command of the CLI is a record of what its requests have answered so far; a
request that fails ends it or is passed over, as the code does.  `anchorRows` is what the
indexer has taken in, `bundles` is `audit_bundle_exports`.

**EnrolmentDesk.** A call is a client's request being handled, with what it read.  It goes on when its
client has left, so `Calls` are processes of their own.  A nullifier is the secret it hashes;
wallets and secrets are numbered as they are drawn.

**VoterPortal.** `tab` is the state of the React page (`busy` is `isSubmitting`, `priv` the private key in
memory, `route` the saved path, `advised` the advice shown), `flights` the polls whose timer was
cleared too late, `subs` the relayer's rows as the portal sees them.  What `MrdRelayer` and
`ElectionRegistry` do is one step here: mined if the contract takes it, and a verdict.  The contract
takes a permit only if its digest holds the voting address too; `Covered` are the nullifiers
whose permit does.  For the permits the API of this repository issues it is empty (section 6, 1), and
the wizard then never leaves its first flight but by a failure; the instance has permits of both
kinds, as the portal sends its key along for such a permit.

**BallotCatalogue.** `candidates` is the table, `manifest` the list of the current manifest; an editor
walks the awaits of the server action.  A ballot is a pair of the id it names and the
position it carries.  `TallyVerifier` and `DecryptionVerifier` say when a circuit's constraints
hold for the inputs its builder (`TallyWitness`, `DecryptionWitness`) makes; a hash is the pair it
hashes.

**EvidenceAudit.** `rows` are the event tables, `active` and `reports` what is derived, `indexer` where
the process stands between two statements.  How the chain is rewritten stays in
`EvidenceIndexer`; here a few events are not what the registry would emit, which is what an
unnoticed rewrite leaves.  Actas come two ways: the console writes the file and then anchors
(`WriteActa`), the tally board anchors and then writes the row of `acta_contents` itself, with status
VALID (`SaveActaContent`).  Custody is two reads: which anchors have no content, and later the
contents to verify (`VerifyContents`), between which the board may write.  `EXAMINED` is the LIMIT 5000
of the rows whose phase is looked at.

**PublicRoll.** `roll` is the chain's list of signups and `indexed` how much of it `signup_records` holds.
`Accepts` is the contract's check, with the voting address in the digest: permits of the API and of
`rea-issue-permit` (`ReaPermit`) never pass it, permits of `Covering`, made as `e2e-sepolia.ts` does, do.  The
observer's verdict is over the digest without the address and of whatever permit the table has for
the nullifier, so the two are kept apart;
`view` is the observer's page with its cursor, `walk` what it has seen since the first page;
`runs` and `incidents` are the attempts of the CLI.

## 3. Runs and bounds

| run | asks | instance |
|---|---|---|
| `roll_and_box` | do roll, box, counters and events agree, has every ballot a voter of its own, and does the contract implement `BallotBox`? | two overlapping elections, two voters, each holding signatures good only in the other election |
| `publication_gate` | are results published only on both proofs, and is what was settled final? | one election to its archive, verifiers and an account configured as one come and go |
| `permit_scope` | is a permit over (election, nullifier) accepted? *violated* | one election |
| `relayer_faults` | is anything sent twice, claimed or denied falsely, or failed in silence? | two workers, one voter's signup and ballot, one fault anywhere |
| `relayer_progress` | is every submission taken up and let go? | one worker, two signups for one nullifier (one must fail), one fault |
| `ceremony` | does READY mean a quorum, is the key held, is it the right key, is a quorum noticed? | two calls at once, four in all, three trustees of whom one holds a share of another dealing, one crash |
| `indexer` | does the cursor vouch for the rows, are resets justified, noticed and traced, does it catch up? | six blocks, two rewrites, two deaths, batches of two, one confirmation |
| `publication` | do tables, payloads, evidence and exported bundles say what happened? | two clicks at once, two jobs, one fault or dropped block, one command of the CLI, one request that fails |
| `publication_unproved` | has the published count its own proofs? *violated* | the same without fault or command |
| `portal` | does the wizard tell the truth, and does every tab come to rest? | one tab, three nullifiers of which two have a permit over the key, two keys and two ballots each, one wrong or lost answer, two reloads |
| `off_chain` | enrolment, alarms and reports, custody, catalogue and proofs, public roll, attempts | five small instances, one for each value of `part` |
| `ballots_unprovable` | can what was voted be proved? *violated* | two candidates, one ballot, two saves |

The five instances of `off_chain`: two clients of one citizen and a clerk, three secrets, two
clerk's actions, two requests; the audit of two elections, over one of two
subjects (`OneSubject` of `MCOffChain`): the history of an election in four blocks, with one row of
a kind examined, one death, and one event the registry would not emit or one missing time; or
the custody of an acta with a file and two of the tally board, with two anchors, and one damaged
file or one death; two editors
and two candidates, one row from before, two saves, two ballots on one page, one count, one death;
a roll of two nullifiers, with permits over two keys and one permit over the other's key, on
pages of one row, with one permit of the API or the CLI, one reset and one lost answer; the same
roll with one run of the CLI.  `publication` likewise goes two ways: two clicks and every fault, or one
click with an export going on beside it.

Why these bounds are enough for the questions:

- Two of everything that races (workers, calls, clicks, editors, clients, elections): each
  code path reads and writes rows one at a time, so a bad interleaving needs one actor between
  two steps of another.  Workers, clicks, editors and clients are interchangeable, and the
  safety runs with many of them use that symmetry; no run with a liveness property does.
- Four ceremony calls: a creation, two shares and a closing, the shortest way to each
  status; two ceremonies need two creations.  The field has 11 elements and the secret one of
  eight values: large enough for three coordinates and for a wrong key to differ; that the
  arithmetic is right in every field is proved.
- Six blocks with two rewrites: a block is indexed, replaced, indexed again and replaced
  again, with a batch border inside.
- One fault: each property names the faults it excuses, so a second would only
  strengthen the excuse; two rewrites, deaths or reloads are allowed where the pair matters.
- A tree of depth 1 holds two ballots: the second makes the count differ from any one slot,
  and two candidates make a position differ from an id.
- A page of one row: every signup that arrives moves a page border.
- Four blocks for a history: two phase changes and two signups, so that the second signup is one
  that is not examined, is out of its phase, or repeats the first; a ballot is too early in
  each of them.  For custody two: two anchors of one election, or one of each.  Custody and the
  rules share no event and no incident, and a report only counts the anchors, so they are not mixed.
- `MaxRepeats` limits events that may repeat for ever (actas, commitments, a proof
  recorded again); the other `Max...` constants, named where they are declared, limit what is
  ever begun.

What the bounds leave out: `MaxLags` is 0, as a node that reports a lower head after a restart
does make `AlarmsTruthful` false (section 7); and there is one citizen, as those who enrol share
no row.

Every property of a passing run has a mutant in its module, a plausible slip of the code
(a flag forgotten, an await moved, a status not checked) that makes TLC find the property
violated, so none holds by construction.  Type invariants of the modules with proofs are
theorems rather than properties of runs.

Deadlock is checked in every run but `publication`, `portal`, `off_chain` and the two violated runs of
the same modules, whose clicks, tries, saves, permits and blocks are used up at the bounds.

## 4. Fairness

- Relayer: weak fairness of each worker's next step (an endless loop that awaits
  calls which end), of the mining of some transaction and of the indexer's loop.  No
  fault is fair, and no client has to post anything.
- Ceremonies: weak fairness of every call under way: an action that runs on a live server
  ends.  Nobody has to call.
- Indexer: weak fairness of start and loop: the process manager restarts it and the loop
  never ends by itself.
- Portal: only what the page itself brings about: the calls of `handleSignup` end, one way or
  another, and the timer of a flight fires.  Relayer, chain and polls owe nothing, and a reload
  is never fair; a page that is reloaded for ever, before its two minutes are over, is beyond
  the bound `MaxBreaks`.
- Registry, pipeline, enrolment, catalogue, audit and roll: no liveness is claimed; people
  decide whether anything happens.

## 5. Proofs

All theorems hold for any values of the constants that satisfy the named assumptions
(types of constants, finiteness of the sets that are counted).

**Induction over data.**  The library's induction theorems take an operator, which no installed
prover can instantiate.  `InductionLemmas` says the same with a set in its place: a set of numbers
that holds 0 and every successor holds all of them (`SetInduction`), a set of numbers that is not
empty has a least one, and a function defined by recursion over numbers exists and
satisfies its equation (`RecursionExists`, `NumbersByRecursion`); so does the value of a loop with a
number that falls in every turn (`LoopExists`).  So the folds over event logs, the
trees of hashes and the loops over ballots are proved about like anything else.

**Registry.** `TypeCorrect`, `OneSignupOneBallot`: `RollAndBoxAgree` is inductive together with
`TypeOK`; the cases that matter are `Signup` and `PublishBallot`, where cardinalities grow by
one with the counters.  `RegistryImplementsBallotBox`: the initial state maps to the initial
state of `BallotBox`, each action to a step or a stutter, using the agreement of roll and box.
`EveryBallotHasItsVoter`: `Attributed` keeps an injection from the ballots of the log to the keys
that cast, each of which signed that ballot.  `SettledForGood` is an action property, one
step per action; the slots beyond the counter are empty (`FreshSlots`), so a creation does not
count as a change.
`LogIsFaithful`: the replay of an election's events gives its state, by induction over the log: a step
appends one event to one log, and the replay of the longer log is that event applied to the
replay of the shorter.  `ResultsAreProved`: every event that published results has, before it in
the log, both proofs recorded while tallying.

**Relayer.** `RelayerInvariant` proves `RInv`, the conjunction of what the table may hold, what
a worker may find in the row it holds (`HeldRowIs`), that pending rows have no transaction,
`AtMostOneBroadcast`, `NoOrphanFromRpcErrors` and `FailuresReported`.  The middle conjuncts are the
strengthening: a row is broadcast only by its holder, so single holding carries single
sending.  `NeverSentTwice`, `RpcErrorsLoseNothing`, `NoSilentFailure` and `VerdictIsFinal` follow.

**Relayer and registry.** `RelayerRunsTheContract`: a transaction that is mined is a call some voter may
make, so the composition implements the contract's specification and keeps its theorems.
`SuccessOnChain` composes three facts: a SUCCESS row, or a worker about to write one, has a
transaction that was mined (`ReceiptsKnown`), distinct mined transactions are distinct events
of the log (`MinedAreEvents`), and the event carries what the row asked for (`PayloadsKept`); the
log only grows.  `IncidentsTellTheTruth`: an incident is opened for a FAILED row, which stays
so, and closed by a record within what was indexed, which the log keeps.

**Ceremonies.** `IInv` is `TypeOK`, `ReadyHasQuorum`, `KeyHeldUntilVotingCloses` and `CallsKnow`: what a call
in flight remembers is still true enough (a quorum read is a quorum held, as shares are
never taken away).  `TypeCorrect`, `KeyHeld`, `QuorumBehindReady`, `ClosedIsShut`.

**Threshold.** `DealingInterpolates`: two points of one line give its value at zero, whatever the
coefficient.  `TwoOfThreeGiveSecret`: of three shares with distinct coordinates of which two are of
one dealing, the code's answer is the secret or an error, in any order.  `KeyIsRight` carries
that over to the ceremonies.  The only assumption about the field is `PrimeAssumption`, that
`FIELD_PRIME` is a prime (65521 is).  `InverseInverts`: then `ModInv` inverts every number but 0.
The loop keeps `r` congruent to `t * a`, and `newR` to `newT * a`, so what it leaves in `t` is the
cofactor of a common divisor of `a` and the prime (`EuclidDivides`, by induction over `newR`), and 1
is the only one.

**Indexer.** `IndexerInvariant`: as long as no confirmed block was dropped, the cursor, the
process and the rows all point at blocks of the chain (`Sound`).  `OnlyFinalityCausesReset`: then
evidence is never thrown away.  `EvidenceInvariant` adds `DataInv`, about what was indexed: as far as the
stored hash still tells (`WitnessedEvidence`), or else the confirmations (`ConfirmedEvidence`), the tables
hold the events of the chain up to a place at or beyond the cursor, and a reset that is not
finished has its mark in the row of the cursor (`Trace`).  The tables are a fold over the blocks,
so each step is an induction over the blocks of a batch.  `EvidenceIsTruthful`, `DivergenceIsFound` and
`ResetIsTraced` follow.  The batch may have set one election back to an earlier phase and not
another, which is why `Truthful` asks for a place per election.

**Publication.** `IInv` says what the position of a run implies.  `RunsInPlace`: the position tells
the kind of run.  `ProcessingOK`: nobody else processes a run's job, and what the run has passed
is done; so `Processed` jobs stay so, although a new processing resets a status.  `ProofsOK`: a job
being proved has no verified decryption and is proved once, a submission knows the
decryption verified, and what it read is still true while the chain keeps its proofs.
`EvidenceOK`: who stands before the phase's transaction has payload and acta behind it, and
the payloads together with the runs about to insert one (who found none) are no more than
the clicks.  `TypeCorrect`, `RowsAreTruthful`, `PayloadsAreBacked`, `PublicationIsEvidenced` follow.  The
first three parts are inductive without the fourth (`TablesInv`).

**Portal.** `PortalInv`: a submission reported as a success was mined, a flight polls submissions of
its own tab and of the right kind, and a ballot is posted only by a tab that was enrolled.
`WizardTellsTheTruth` and `PortalTypeCorrect` follow, whatever permits cover the key.

**Enrolment.** `DeskInv`: links hold wallets that were drawn; a call past its entitlement has a voter
who was authorised, and the link it holds is still the voter's as long as nobody edits links by
hand; permits received are those of one of the voter's links.  `VotersEnrolOnce` and
`EnrolledWereAuthorized` follow, for any number of voters, clerks and calls.

**Public roll.** `RollInv`: the copy is a prefix of the roll, a VALID on a page
still holds, as a permit of the authority is never replaced by another signer's (`VerdictsStand`), a
run knows of its own signups (`AttemptsStand`), and a walk has seen every row from its cursor to where it began (`WalkCovers`).  The newest
rows below a cursor are counted by `NewestFirst`.  `RollIsShown` and `AttemptsAreTruthful`.

**Catalogue and count.** `CatalogueInv` has two parts.  The console's: rows are told apart by birth; two
rows of one order are reported, or a save that has yet to count them is under way; a save
that nothing overlaps has listed the table as it is.  The tally's: a count names each key as
often as its ballots do, its slots are distinct and there is one for each key counted, no
tally proof fails, and a verified pair counts positions as it counts keys.  `WitnessCloses` is the
reason no tally proof fails: the path of each slot leads to the root (`PathReachesRoot`, by induction over the
levels of a tree of any depth), and the counts by slot are those of the selections.
`PairAgrees` derives `ProvedPairAgrees`: if the position counts agree slot by slot, the two
sequences have the same length, so no ballot was left out of the count.  `CatalogueIsTyped`,
`DuplicatesAreReported`, `TallyProofsClose`, `ProvedPairsAgree` and the action property
`SoloSavesProject` follow.

**Audit of the indexer.** `AuditInv`: where the process stands tells which elections have incidents,
reports and custody yet to be renewed (`Placed`, `Renewal`); all others are exact, and
what is resolved and not yet written again is among what the process is about to write.
`Forward` compares data versions: a version grows with the rows, so one that is equal speaks of the
same rows.  The board may write a content at any of these places: all it can do is leave an incident
behind that no longer holds (`Outdated`) or a status VALID, so custody is kept as an interval
(`CustodyExact`).  `AlarmsAreTruthful`, `ReportsAreCurrent`, `CustodyIsTruthful`.

**Exported evidence.** `BoardInv` adds to the publication's `IInv` that an acta of results is anchored
only behind a payload.  `ExportInv` says of the tables that the indexed anchors are anchored and in order
and that what is counted or stored has a result (or the console moved the phase), and of a command
that what it has read is still there, because the board only adds (`BoardGrows`): a list with the
acta of results has its payload, an act found valid has its content.  A command that was
refused a request knows it (`dropped`).  The order of the requests does the rest: results are
read after the acts, the content of an act after its verification.  `BundlesAreBacked` follows.

**The parts side by side.** `OffChainKeepsItsParts`: a step of `OffChain` is a step of one of the four parts and
leaves the others alone, so the run `off_chain` checks specifications the theorems speak of, and
`OffChainIsTyped` follows from the types of the parts.

Only model-checked: the liveness properties `QueueDrains`, `QuorumIsNoticed`, `CatchesUp` and
`TabsComeToRest` (liveness under fairness is out of the prover's reach).

## 6. Disagreements between code and documents

1. `permit_scope`: the comment on `signup`, the API and the SDK sign permits over (election,
   nullifier); the contract recovers them over (election, nullifier, voting address).  No
   permit issued as described signs anybody up.
2. `publication_unproved`: every tally proof must be paired with a decryption proof, says the
   code; the gate asks the job only for a tally row of any status and takes the rest from
   the election's flags.  After a second processing, the count whose proof failed can be
   published as VERIFIED on the other's proofs.
3. `ballots_unprovable`: the board orders candidates "to keep decrypted selection indexes aligned
   with circuit candidate slots", but a page keeps the list it loaded while the catalogue may be
   edited until voting opens.  Its ballot can be counted, by id, and not be proved, by position;
   without the decryption proof no result can be published.

Definitions that say what a comment or a page promises and the code does not keep stay in
the modules without a run: `FailedOnlyIfNotMined` (a lost reply of the send, or a failing lookup,
marks a mined transaction FAILED, although the worker means to check first), `ClosedIsFinal` (the
last statement of a submission under way writes READY over CLOSED), `AdviceCanBeFollowed`
("Debes volver a registrarte" is said to voters whose nullifiers are used), `MissingMeansMissing`
("Anchored acta is missing full signed content (acta_contents)", says a CRITICAL incident: the tally
board writes the content only after the anchor is mined and resolves nothing, so if the indexer
stores the anchor first, the incident stays active beside the content until a later event of the
election).

## 7. What the models say that a reader may not expect

Relayer
- a row IN_FLIGHT whose worker died is never taken up again;
- an incident opened after the indexer passed the record stays active until a later batch
  touches an election; ballots are matched by ciphertext alone.

Ceremonies
- two creations can both find none open and leave two; each is sound on its own;
- the key resolution takes the latest ceremony whatever its status, though its
  message speaks of a closed one; READY counts trustees, not distinct coordinates, so two
  equal shares make a quorum that cannot be reconstructed (`ResolveCoordinatorPrivateKey`
  says so);
- every click on the generation of shares deals the key anew, so trustees may hold shares of
  different dealings: two of those interpolate to some other key without an error, and only a
  third share with a coordinate of its own lets the code notice.

Indexer
- a rewrite below the cursor is noticed at the next start only; rows taken in before their
  block's hash was stored can outlive it (`unwitnessed` excuses them);
- the reset is several statements, and `CONFIRMATIONS` is 0 unless set;
- the reset also deletes the board's payloads, jobs and contents, which `TallyPublication` and
  `ExportedEvidence` leave out: an export that runs into a reset is not modelled;
- `CheckCanary` leaves out the look at the receipt's address, as all events of the model are of one
  contract.

Pipeline
- two publications at once leave two payloads, at most one per click; the acta of results
  of one click then carries its own summary and the hash of another's payload when it
  found one there (the model leaves the hash out);
- a proof row that is stale is reset in the table but not in memory: that click fails and
  the next one works;
- a server that stops between the audit window's transaction and its row leaves the row
  missing for good, which is why `PublicationLeavesEvidence` excuses faults there;
- the console moves TALLYING to RESULTS_PUBLISHED with neither payload nor acta, which is
  why the property is about phases the board moved;
- the result of `updateTallyJobStatusAction` is not looked at: the pipeline goes on with a
  job that stays RUNNING;
- a bad share does not make `computeRealTallyAction` fail: it returns ok with every ballot
  invalid, and the decryption proof is what stops it.
- two processings may take the same batch index; it is only read for ordering;
- `publishActaAction` reads the range it covers before the counts it puts in the acta.

Enrolment
- importing the census again erases a voter's access code; a session opened with the old
  code survives; two clients can leave two pending requests;
- a wallet provisioned twice at once, or edited by a clerk, gives the voter a second
  nullifier: `OneEnrolmentPerVoter` excludes just these, so it does not guard against
  them;
- `SignupMined` lets the contract take any permit that was sent, whatever its digest, key and phase:
  more behaviours than the contract has, which both safety properties stand.

Portal
- a voter whose signup was mined and whose tab lost the key is told to register again, which
  the contract refuses for the same nullifier;
- a late answer of an abandoned flight can move the wizard to its first or last step.

Catalogue and count
- the console checks the phase before it saves, so a save can land after voting opened;
- the tally knows candidates by `trim().toLowerCase()`: ids that differ by case are merged;
- a ballot whose candidate was inactive when the box was counted, and active again when the
  count was proved, escapes both proofs if its position is past the last slot (more candidates
  than slots): `ProvedPairAgrees` vouches for a candidate nobody was counted for only when every
  position is that of a slot;
- a tally witness that its circuit refused would set the row of `zk_proof_jobs` to FAILED, as any
  error does; `TallyProofCloses` says that it never comes to that;
- in the tally circuit the selections and the hashes of ballots are not tied slot by slot: only
  the sums and the root are;
- the audit CLI looks for the candidates beside the manifest's body and not in it, where the
  console stores them.

Audit of the indexer
- after a death between the cursor and the renewal, the next start looks at the elections with
  a file on disk, so an anchor without one can stay unreported;
- signups and ballots out of their phase are looked for among the first 5000 of each: a late
  ballot of a large election raises no alarm.  `AlarmsTruthful` is about those looked at;
  duplicates are looked for among all;
- the content of an acta of the tally board may read VALID (the board's word) or OK (the
  indexer's), whichever wrote last; it may still be reported missing (section 6);
- BLOCK_TIMESTAMP_MISSING stays active after the time was filled in;
- a node that reports a lower head after a restart leaves a false PHASE_CURRENT_MISMATCH;
- two files of one election with the same content hash break a unique index and end the process
  at every start, so that custody is not renewed for the elections before it
  (`Restarted` in `CustodyTruthful`); so does a damaged file that has the hash of a content the
  tally board wrote, until it is removed.

Exported evidence
- an optional request that fails is passed over without a word, so an incomplete bundle looks
  complete; the export reads the results before the window;
- the materialised manifest lacks the anchors not yet indexed and is never renewed, and the
  endpoint's nine queries may answer MATERIALIZED with nothing behind it;
- the verification endpoint answers VALID for a content without signature, and ANCHOR_MISSING
  while the indexer lags.

Public roll
- no permit of the API, the relayer's clients or `rea-issue-permit` is ever accepted: what is on the
  roll came with a permit over the voting address, of which no row is kept.  Its verdict is
  UNVERIFIED, or that of another permit the table has for the nullifier: VALID says that the
  authority signed such a permit, and not that the contract took it;
- without `--voting-pub-key` the key `rea-signup` draws has 32 bytes and is refused for its length;
- a reset of the indexer deletes the incidents the CLI recorded;
- a permit the CLI could not store (unique violation) is already in its file;
- a signup tried with a nullifier used in between, or never sent, is recorded as reverted and
  not as a duplicate;
- a page says it is the last when the data is unavailable; the ballots endpoint ignores order,
  limit and cursor.

## 8. Not modelled

- The field arithmetic of the circuits, Groth16, hashes and encryption: ideal (of the
  cryptography only the threshold sharing is modelled as it computes).
- The generated verifiers; user interfaces apart from the conditions under which a button
  runs; logging; authentication of HTTP requests; rate limits.
- Gas, fees and a wallet shared by several services; an RPC node that lags behind.
- Evidence API: the handlers that are a single query over tables modelled here.
- Authority console: creation of an election, verifier settings and the admin log, which
  nothing reads back.
- Observer portal: the pages that load one endpoint.  Audit CLI: the commands that only create
  or open an election.
- BLOCK_TIMESTAMP_NON_MONOTONIC, a warning about clocks, and the index of processing batches.
- Migrations, deployment and scripts.

## 9. Plan

Order of the modules, the most important behaviour first.  Done: `ElectionRegistry`,
`BallotBox`, `MrdRelayer`, `DecryptionCeremony`, `EvidenceIndexer`, `TallyPublication`; `EnrolmentDesk`,
`VoterPortal`, `BallotCatalogue`, `EvidenceAudit`, `Threshold`, `ExportedEvidence`, `PublicRoll`.

Proofs done: the safety properties of all of these, with what they fold over (logs, tables,
trees, the loop of Euclid).

Next:

1. `VoterPortal` composed with `MrdRelayer` and `ElectionRegistry` instead of its own short chain.
2. Two citizens in `EnrolmentDesk`, and the console's admin log against the events.
