--------------------------- MODULE BallotCatalogue ---------------------------
(***************************************************************************)
(* The ballot of an election, from the console that edits it to the proofs *)
(* that its count rests on.  Editors save candidates in the authority       *)
(* console, each save a chain of awaits that ends with a new current       *)
(* manifest; a voter's page loads the active candidates once and writes a  *)
(* ballot that names its choice twice, by id and by position; the tally    *)
(* board counts the ids and proves the count with two circuits, of which   *)
(* the first is given the ids and the second decrypts the positions.       *)
(*                                                                         *)
(* Ballots are those of the portal; how they reach the chain and the       *)
(* tables is the subject of BallotBox and EvidenceIndexer, who decrypts    *)
(* them of DecryptionCeremony, and what is done with the proofs of         *)
(* TallyPublication.  The admin log, which nothing reads back, is left out.*)
(***************************************************************************)
EXTENDS Naturals, FiniteSets, Sequences

CONSTANTS
    Editors,          \* calls of the console's server actions
    Candidates,      \* candidate ids
    KeyOf,           \* id.trim().toLowerCase(), by which the tally knows a candidate
    Pages,            \* tabs of the voter portal
    NUM_CANDIDATES,  \* slots of the circuits
    DEPTH,           \* depth of the Poseidon tree
    EarlierRows,     \* the rows that earlier saves left
    SaveInputs,      \* the saves that are asked for
    MaxSaves,        \* bound: calls of the server actions
    MaxBallots,      \* bound: ballots cast
    MaxCounts,       \* bound: counts of the ballots
    MaxDeaths        \* bound: server actions that throw or die half way

\* Nodes of the tree at a depth: 1, 2, 4, ...
Width[d \in 0..DEPTH] == IF d = 0 THEN 1 ELSE 2 * Width[d - 1]

MAX_BALLOTS == Width[DEPTH]
SaveStatuses == {"ACTIVE", "INACTIVE"}
Orders == 1..2

\* The forms: the one of a candidate and the one of its status alone.
Saves == [op : {"UPSERT"}, id : Candidates, order : Orders, status : SaveStatuses]
         \cup [op : {"STATUS"}, id : Candidates, order : {1}, status : SaveStatuses]

\* Tables of candidates; born is the order of created_at.
Rows == UNION {[S -> [order : Orders, status : SaveStatuses, born : 1..Cardinality(Candidates)]] :
                S \in SUBSET Candidates}

ASSUME CatalogueAssumption ==
    /\ IsFiniteSet(Candidates) /\ DOMAIN KeyOf = Candidates
    /\ SaveInputs \subseteq Saves /\ EarlierRows \in Rows
    /\ \A c, d \in DOMAIN EarlierRows : c # d =>
            EarlierRows[c].order # EarlierRows[d].order /\ EarlierRows[c].born # EarlierRows[d].born
    /\ \A c \in DOMAIN EarlierRows : EarlierRows[c].born <= Cardinality(DOMAIN EarlierRows)
    /\ {NUM_CANDIDATES, DEPTH, MaxSaves, MaxBallots, MaxCounts, MaxDeaths} \subseteq Nat

VARIABLES
    electionPhase,  \* the election's phase in the registry
    candidates,     \* the candidates table: a row per id that was saved
    manifest,       \* the candidates of the current election_manifests row
    raised,         \* incident_logs of the catalogue
    editor,         \* where each server action stands
    page,           \* the candidates each page has loaded
    ballots,        \* ballot_records in ballot_index order, decrypted
    transcript,     \* the last tally transcript
    job,            \* the zk_proof_jobs of the last proof action
    budget           \* of the bounds, how much is used

votingVars == <<page, ballots>>
tallyVars == <<transcript, job>>
consoleVars == <<candidates, manifest, raised, editor>>
catalogueVars == <<electionPhase, consoleVars, votingVars, tallyVars, budget>>

\* ElectionPhase of the registry, up to VOTING_OPEN: a later phase does no more here
\* than to let no ballot in.
SETUP == 0
REGISTRY_OPEN == 1
REGISTRY_CLOSED == 2
VOTING_OPEN == 3

NoRows == << >>
NoTranscript == [ballots |-> 0, valid |-> << >>]
NoJob == [at |-> "NONE", script |-> NoTranscript, slots |-> << >>, read |-> 0]

AnySave == CHOOSE s \in Saves : TRUE
Resting == [at |-> "IDLE", save |-> AnySave, read |-> SETUP, listed |-> NoRows, alone |-> FALSE]

CatalogueInit ==
    /\ electionPhase = SETUP
    /\ candidates = EarlierRows
    /\ manifest = EarlierRows
    /\ raised = {}
    /\ editor = [k \in Editors |-> Resting]
    /\ page = [t \in Pages |-> NoRows]
    /\ ballots = << >>
    /\ transcript = NoTranscript
    /\ job = NoJob
    /\ budget = [saves |-> 0, counts |-> 0, deaths |-> 0]

Charge(what, max) == budget[what] < max /\ budget' = [budget EXCEPT ![what] = @ + 1]

-----------------------------------------------------------------------------
(* Rows in ORDER BY ballot_order, created_at.                              *)

IsActive(rows, c) == c \in DOMAIN rows /\ rows[c].status = "ACTIVE"
ActiveIds(rows) == {c \in DOMAIN rows : IsActive(rows, c)}

Precedes(rows, c, d) ==
    \/ rows[c].order < rows[d].order
    \/ rows[c].order = rows[d].order /\ rows[c].born < rows[d].born

\* selectionIndex: the position of an id among the active rows.
Position(rows, c) == Cardinality({d \in ActiveIds(rows) : Precedes(rows, d, c)})

ActiveKeys(rows) == {KeyOf[c] : c \in ActiveIds(rows)}

\* The first of the active rows with a key.
FirstWith(rows, key) ==
    CHOOSE c \in ActiveIds(rows) :
        /\ KeyOf[c] = key
        /\ \A d \in ActiveIds(rows) \ {c} : KeyOf[d] = key => Precedes(rows, c, d)

\* candidateOrder: the active keys by the first of their rows, each once; a slot
\* past the last of them is a placeholder.
CandidateOrder(rows) ==
    [key \in ActiveKeys(rows) |->
        Cardinality({other \in ActiveKeys(rows) :
                        Precedes(rows, FirstWith(rows, other), FirstWith(rows, key))})]

-----------------------------------------------------------------------------
(* The console: createOrUpdateCandidateAction, updateCandidateStatusAction *)
(* and transitionPhaseAction.                                              *)

isCatalogMutablePhase(p) == p \in {SETUP, REGISTRY_OPEN, REGISTRY_CLOSED}

\* The transaction is mined; one for another phase than the registry's reverts.
Transition ==
    /\ electionPhase < VOTING_OPEN
    /\ electionPhase' = electionPhase + 1
    /\ UNCHANGED <<consoleVars, votingVars, tallyVars, budget>>

\* The action begins: it reads the phase in the registry.
ReadPhase(k, save) ==
    /\ editor[k].at = "IDLE"
    /\ Charge("saves", MaxSaves)
    /\ LET idle == \A j \in Editors \ {k} : editor[j].at = "IDLE"
       IN  editor' = [j \in Editors |->
                IF j = k THEN [Resting EXCEPT !.at = "READ", !.save = save,
                                              !.read = electionPhase, !.alone = idle]
                ELSE [editor[j] EXCEPT !.alone = FALSE]]
    /\ UNCHANGED <<electionPhase, candidates, manifest, raised, votingVars, tallyVars>>

Done(k) == editor' = [editor EXCEPT ![k] = Resting]
Goes(k, at) == editor' = [editor EXCEPT ![k].at = at]

RefuseSave(k) ==
    /\ editor[k].at = "READ" /\ ~isCatalogMutablePhase(editor[k].read)
    /\ raised' = raised \cup {[code |-> "CANDIDATE_EDIT_OUT_OF_PHASE", about |-> editor[k].save.id]}
    /\ Done(k)
    /\ UNCHANGED <<electionPhase, candidates, manifest, votingVars, tallyVars, budget>>

\* upsertCandidate: created_at is that of the first save.
UpsertCandidate(k) ==
    LET s == editor[k].save
        born == IF s.id \in DOMAIN candidates THEN candidates[s.id].born
                ELSE Cardinality(DOMAIN candidates) + 1
    IN  /\ editor[k].at = "READ" /\ isCatalogMutablePhase(editor[k].read) /\ s.op = "UPSERT"
        /\ candidates' = [c \in DOMAIN candidates \cup {s.id} |->
                            IF c = s.id THEN [order |-> s.order, status |-> s.status, born |-> born]
                            ELSE candidates[c]]
        /\ Goes(k, "SAVED")
        /\ UNCHANGED <<electionPhase, manifest, raised, votingVars, tallyVars, budget>>

\* updateCandidateStatus; candidate_not_found when it updates no row.
UpdateStatus(k) ==
    LET s == editor[k].save
    IN  /\ editor[k].at = "READ" /\ isCatalogMutablePhase(editor[k].read) /\ s.op = "STATUS"
        /\ IF s.id \in DOMAIN candidates
           THEN candidates' = [candidates EXCEPT ![s.id].status = s.status] /\ Goes(k, "CHECKED")
           ELSE candidates' = candidates /\ Done(k)
        /\ UNCHANGED <<electionPhase, manifest, raised, votingVars, tallyVars, budget>>

WithOrder(rows, n) == {c \in DOMAIN rows : rows[c].order = n}

(* Mutant: the row just saved is counted as if it were not among them.          *)
CheckOrderAboveTwo(k) ==
    LET n == editor[k].save.order
    IN  /\ editor[k].at = "SAVED"
        /\ raised' = IF Cardinality(WithOrder(candidates, n)) > 2
                     THEN raised \cup {[code |-> "CANDIDATE_BALLOT_ORDER_DUPLICATE", about |-> n]}
                     ELSE raised
        /\ Goes(k, "CHECKED")
        /\ UNCHANGED <<electionPhase, candidates, manifest, votingVars, tallyVars, budget>>

\* The count of the rows with the saved ballot order, and its incident.
CheckOrder(k) ==
    LET n == editor[k].save.order
    IN  /\ editor[k].at = "SAVED"
        /\ raised' = IF Cardinality(WithOrder(candidates, n)) > 1
                     THEN raised \cup {[code |-> "CANDIDATE_BALLOT_ORDER_DUPLICATE", about |-> n]}
                     ELSE raised
        /\ Goes(k, "CHECKED")
        /\ UNCHANGED <<electionPhase, candidates, manifest, votingVars, tallyVars, budget>>

(* Mutant: the manifest lists the active rows alone.                            *)
ListActiveCandidates(k) ==
    /\ editor[k].at = "CHECKED"
    /\ editor' = [editor EXCEPT ![k].at = "LISTED",
                                ![k].listed = [c \in ActiveIds(candidates) |-> candidates[c]]]
    /\ UNCHANGED <<electionPhase, candidates, manifest, raised, votingVars, tallyVars, budget>>

\* refreshManifestFromCatalog lists the rows first; reading the contract and the
\* current manifest, signing and writing the file come in between.
ListCandidates(k) ==
    /\ editor[k].at = "CHECKED"
    /\ editor' = [editor EXCEPT ![k].at = "LISTED", ![k].listed = candidates]
    /\ UNCHANGED <<electionPhase, candidates, manifest, raised, votingVars, tallyVars, budget>>

\* upsertElectionManifest, its two statements.  The manifest names the time it was
\* made at, so its hash is new; at most one row may be current, or the insert throws.
ClearCurrent(k) ==
    /\ editor[k].at = "LISTED"
    /\ manifest' = NoRows
    /\ Goes(k, "CLEARED")
    /\ UNCHANGED <<electionPhase, candidates, raised, votingVars, tallyVars, budget>>

InsertCurrent(k) ==
    /\ editor[k].at = "CLEARED"
    /\ manifest' = IF manifest = NoRows THEN editor[k].listed ELSE manifest
    /\ Done(k)
    /\ UNCHANGED <<electionPhase, candidates, raised, votingVars, tallyVars, budget>>

\* A query or the node fails, candidates_code_uniq refuses, or the console stops.
SaveDies(k) ==
    /\ editor[k].at # "IDLE"
    /\ Charge("deaths", MaxDeaths)
    /\ Done(k)
    /\ UNCHANGED <<electionPhase, candidates, manifest, raised, votingVars, tallyVars>>

-----------------------------------------------------------------------------
(* The voter portal.                                                       *)

\* The page's step becomes VOTING, which it may be from the signup on, or the page
\* is loaded again; nothing refreshes the candidates after that.
LoadCandidates(t) ==
    /\ electionPhase \in REGISTRY_OPEN..VOTING_OPEN
    /\ page' = [page EXCEPT ![t] = [c \in ActiveIds(candidates) |-> candidates[c]]]
    /\ UNCHANGED <<electionPhase, consoleVars, ballots, tallyVars, budget>>

\* handleBallot, up to the ballot's row; the page then leaves VOTING.
CastBallot(t, c) ==
    /\ electionPhase = VOTING_OPEN /\ Len(ballots) < MaxBallots
    /\ c \in ActiveIds(page[t])
    /\ ballots' = Append(ballots, [selection |-> c, selectionIndex |-> Position(page[t], c)])
    /\ page' = [page EXCEPT ![t] = NoRows]
    /\ UNCHANGED <<electionPhase, consoleVars, tallyVars, budget>>

-----------------------------------------------------------------------------
(* The Merkle bundle and the circuits.  A hash is the pair of what it      *)
(* hashes, so that no two inputs share one.                                *)

Slots == 0..MAX_BALLOTS - 1

TreeOf(leaves) ==
    LET level[d \in 0..DEPTH] ==
            IF d = 0 THEN leaves
            ELSE [i \in 0..Width[DEPTH - d] - 1 |-> <<level[d - 1][2 * i], level[d - 1][2 * i + 1]>>]
    IN  level

\* indexAtLevel: where the way from a slot up to the root is.
IndexAtLevel(slot) ==
    LET at[d \in 0..DEPTH] == IF d = 0 THEN slot ELSE at[d - 1] \div 2
    IN  at

\* i ^ 1
Sibling(i) == IF i % 2 = 0 THEN i + 1 ELSE i - 1

\* buildPoseidonMerkleBundleFromBallotHashes: the siblings and directions of a slot;
\* 0 is the hash of an empty slot.
MerkleBundle(n) ==
    LET leaves == [i \in Slots |-> IF i < n THEN i + 1 ELSE 0]
        tree == TreeOf(leaves)
        at == [i \in Slots |-> IndexAtLevel(i)]
    IN  [root |-> tree[DEPTH][0], leaves |-> leaves,
         proofs |-> [i \in Slots |-> [d \in 0..DEPTH - 1 |-> tree[d][Sibling(at[i][d])]]],
         bits |-> [i \in Slots |-> [d \in 0..DEPTH - 1 |-> at[i][d] % 2]]]

\* MerkleProofVerifier
PathRoot(leaf, path, bits) ==
    LET hash[d \in 0..DEPTH] ==
            IF d = 0 THEN leaf
            ELSE IF bits[d - 1] = 0 THEN <<hash[d - 1], path[d - 1]>>
                                    ELSE <<path[d - 1], hash[d - 1]>>
    IN  hash[DEPTH]

(* Mutant: the circuits check the total, not the count of each slot.            *)
AggregatesTotalOnly(w) ==
    /\ \A i \in Slots : w.selections[i] \in 0..NUM_CANDIDATES
    /\ w.totalValid = Cardinality({i \in Slots : w.selections[i] # NUM_CANDIDATES})

\* What both circuits ask of the selections: in range, counted and totalled right.
Aggregates(w) ==
    /\ \A i \in Slots : w.selections[i] \in 0..NUM_CANDIDATES
    /\ \A j \in 0..NUM_CANDIDATES - 1 :
            w.voteCounts[j] = Cardinality({i \in Slots : w.selections[i] = j})
    /\ w.totalValid = Cardinality({i \in Slots : w.selections[i] # NUM_CANDIDATES})

TallyVerifier(w) ==
    /\ Aggregates(w)
    /\ \A i \in Slots :
            PathRoot(w.merkle.leaves[i], w.merkle.proofs[i], w.merkle.bits[i]) = w.merkle.root

DecryptionVerifier(w) ==
    /\ Aggregates(w)
    /\ \A i \in Slots :
            /\ w.activeSlots[i] = 1 => w.selections[i] = w.decrypted[i]
            /\ w.activeSlots[i] = 0 => w.selections[i] = NUM_CANDIDATES

\* A vote count per slot: that of the key the candidate order has there.
VoteCounts(script, slots) ==
    [j \in 0..NUM_CANDIDATES - 1 |->
        Cardinality({i \in DOMAIN script.valid :
            script.valid[i] \in DOMAIN slots /\ slots[script.valid[i]] = j})]

\* buildWitnessFromTranscript: the valid ballots take the first slots.
TallyWitness(script, slots) ==
    [voteCounts |-> VoteCounts(script, slots),
     totalValid |-> Len(script.valid),
     selections |-> [i \in Slots |->
        IF i + 1 \in DOMAIN script.valid /\ script.valid[i + 1] \in DOMAIN slots
        THEN slots[script.valid[i + 1]] ELSE NUM_CANDIDATES],
     merkle |-> MerkleBundle(script.ballots)]

\* buildDecryptionWitness: the positions of all ballots, in their order.
DecryptionWitness(script, slots, box) ==
    LET real == [i \in Slots |-> i + 1 \in DOMAIN box]
        lane == [i \in Slots |-> IF real[i] THEN box[i + 1].selectionIndex ELSE NUM_CANDIDATES]
    IN  [voteCounts |-> VoteCounts(script, slots),
         totalValid |-> Cardinality({i \in Slots : lane[i] < NUM_CANDIDATES}),
         selections |-> lane, decrypted |-> lane,
         activeSlots |-> [i \in Slots |-> IF real[i] THEN 1 ELSE 0]]

-----------------------------------------------------------------------------
(* The tally board.                                                        *)

\* transcriptEntries: the keys that the ballots name, those outside the catalogue
\* left out.
ValidKeys(box, keys) ==
    LET kept[n \in 0..Len(box)] ==
            IF n = 0 THEN << >>
            ELSE LET key == KeyOf[box[n].selection]
                 IN  IF key \in keys THEN Append(kept[n - 1], key) ELSE kept[n - 1]
    IN  kept[Len(box)]

\* computeRealTallyAction, at any time.
ComputeRealTally ==
    /\ Charge("counts", MaxCounts)
    /\ ActiveIds(candidates) # {} /\ ballots # << >> /\ Len(ballots) <= MAX_BALLOTS
    /\ transcript' =
        [ballots |-> Len(ballots), valid |-> ValidKeys(ballots, ActiveKeys(candidates))]
    /\ UNCHANGED <<electionPhase, consoleVars, votingVars, job>>

SummaryKeys(script) == {script.valid[i] : i \in DOMAIN script.valid}

(* Mutant: a summary with a candidate outside the catalogue is not refused.     *)
GenerateZkProofUnchecked ==
    LET keys == IF ActiveIds(candidates) # {} THEN ActiveKeys(candidates) ELSE SummaryKeys(transcript)
    IN  /\ transcript.ballots # 0 /\ job.at # "BUILDING" /\ job.at # "PAIRING"
        /\ Cardinality(keys) <= NUM_CANDIDATES
        /\ \E slots \in [keys -> 0..NUM_CANDIDATES - 1] :
            /\ IF ActiveIds(candidates) # {} THEN slots = CandidateOrder(candidates)
               ELSE \A a, b \in keys : slots[a] = slots[b] => a = b
            /\ job' = [at |-> "BUILDING", script |-> transcript, slots |-> slots, read |-> 0]
        /\ UNCHANGED <<electionPhase, consoleVars, votingVars, transcript, budget>>

\* generateZkProofAction reads the catalogue again and refuses a summary outside it
\* or more candidates than slots; without an active one it sorts the summary's keys,
\* and what the order is then does not matter.
GenerateZkProof ==
    LET keys == IF ActiveIds(candidates) # {} THEN ActiveKeys(candidates) ELSE SummaryKeys(transcript)
    IN  /\ transcript.ballots # 0 /\ job.at # "BUILDING" /\ job.at # "PAIRING"
        /\ SummaryKeys(transcript) \subseteq keys /\ Cardinality(keys) <= NUM_CANDIDATES
        /\ \E slots \in [keys -> 0..NUM_CANDIDATES - 1] :
            /\ IF ActiveIds(candidates) # {} THEN slots = CandidateOrder(candidates)
               ELSE \A a, b \in keys : slots[a] = slots[b] => a = b
            /\ job' = [at |-> "BUILDING", script |-> transcript, slots |-> slots, read |-> 0]
        /\ UNCHANGED <<electionPhase, consoleVars, votingVars, transcript, budget>>

\* proveTally and verifyTallyProof.  When the witness does not satisfy the circuit
\* the prover throws, and the action's catch marks the row FAILED; no ballot has
\* been read for the decryption proof by then.
ProveTally ==
    /\ job.at = "BUILDING"
    /\ job' = [job EXCEPT !.at =
                IF TallyVerifier(TallyWitness(job.script, job.slots)) THEN "PAIRING" ELSE "FAILED"]
    /\ UNCHANGED <<electionPhase, consoleVars, votingVars, transcript, budget>>

\* The mandatory decryption proof, over the ballots that are there by now.
ProveDecryption ==
    LET w == DecryptionWitness(job.script, job.slots, ballots)
    IN  /\ job.at = "PAIRING"
        /\ job' = [job EXCEPT !.read = Len(ballots), !.at =
                    IF /\ Len(ballots) = job.script.ballots
                       /\ \A i \in DOMAIN ballots : ballots[i].selectionIndex <= NUM_CANDIDATES
                       /\ DecryptionVerifier(w)
                    THEN "VERIFIED_OFFCHAIN" ELSE "FAILED"]
        /\ UNCHANGED <<electionPhase, consoleVars, votingVars, transcript, budget>>

CatalogueNext ==
    \/ Transition
    \/ \E k \in Editors :
        \/ \E save \in SaveInputs : ReadPhase(k, save)
        \/ RefuseSave(k) \/ UpsertCandidate(k) \/ UpdateStatus(k) \/ CheckOrder(k)
        \/ ListCandidates(k) \/ ClearCurrent(k) \/ InsertCurrent(k) \/ SaveDies(k)
    \/ \E t \in Pages : LoadCandidates(t) \/ \E c \in Candidates : CastBallot(t, c)
    \/ ComputeRealTally \/ GenerateZkProof \/ ProveTally \/ ProveDecryption

CatalogueSpec == CatalogueInit /\ [][CatalogueNext]_catalogueVars

-----------------------------------------------------------------------------
(* Properties.                                                             *)

Scripts == [ballots : 0..MaxBallots, valid : Seq({KeyOf[c] : c \in Candidates})]

\* Types; an election has one current manifest at most, and no server action is at
\* a statement that is not its own.
CatalogueTypeOK ==
    /\ electionPhase \in SETUP..VOTING_OPEN
    /\ candidates \in Rows /\ manifest \in Rows
    /\ raised \subseteq [code : {"CANDIDATE_EDIT_OUT_OF_PHASE"}, about : Candidates]
                        \cup [code : {"CANDIDATE_BALLOT_ORDER_DUPLICATE"}, about : Orders]
    /\ \A k \in Editors :
        /\ editor[k].at \in {"IDLE", "READ", "SAVED", "CHECKED", "LISTED", "CLEARED"}
        /\ editor[k].listed \in Rows /\ editor[k].read \in SETUP..VOTING_OPEN
        /\ editor[k].at # "IDLE" => editor[k].save \in Saves
        /\ editor[k].at = "SAVED" => editor[k].save.op = "UPSERT"
    /\ page \in [Pages -> Rows]
    /\ ballots \in Seq([selection : Candidates, selectionIndex : 0..Cardinality(Candidates)])
    /\ transcript \in Scripts /\ job.script \in Scripts
    /\ job.at \in {"NONE", "BUILDING", "PAIRING", "VERIFIED_OFFCHAIN", "FAILED"}

\* A save that no other overlapped leaves a current manifest that lists the
\* catalogue as it then is, whatever overlaps and deaths there were before
\* (refreshManifestFromCatalog over a table that two actions may write at once).
SoloSaveProjects ==
    [][\A k \in Editors : InsertCurrent(k) /\ editor[k].alone => manifest' = candidates']_catalogueVars

\* Two candidates with one ballot order have an incident, once the saves that are
\* past the row have counted; unless one of them died before it did.
DuplicateOrdersReported ==
    \A n \in Orders :
        /\ Cardinality(WithOrder(candidates, n)) > 1
        /\ budget.deaths = 0
        /\ \A k \in Editors : editor[k].at # "SAVED"
        => [code |-> "CANDIDATE_BALLOT_ORDER_DUPLICATE", about |-> n] \in raised

\* The witness of a tally proof satisfies its circuit, although the catalogue is read
\* again between the count and the proof: no candidate counted is without a slot and
\* no two share one, whatever was saved meanwhile (generateZkProofAction).
TallyProofCloses ==
    job.at = "BUILDING" => TallyVerifier(TallyWitness(job.script, job.slots))

Naming(box, key) == Cardinality({i \in DOMAIN box : KeyOf[box[i].selection] = key})
Pointing(box, j) == Cardinality({i \in DOMAIN box : box[i].selectionIndex = j})

\* When both proofs are verified, the positions of the ballots counted agree with
\* the ids they name, candidate by candidate, and with the order the result is
\* shown in: nobody's vote counts for another because a page was stale.  A candidate
\* that nobody was counted for is vouched for when every position is that of a slot.
ProvedPairAgrees ==
    job.at = "VERIFIED_OFFCHAIN" =>
        LET box == SubSeq(ballots, 1, job.script.ballots)
        IN  \A key \in DOMAIN job.slots :
                \/ key \in SummaryKeys(job.script)
                \/ \A i \in DOMAIN box : box[i].selectionIndex < NUM_CANDIDATES
                => Naming(box, key) = Pointing(box, job.slots[key])

\* Ballots of the portal can be proved: a decryption proof fails only because
\* ballots came after the count.
BallotsProvable == job.at = "FAILED" => job.read # job.script.ballots

=============================================================================
