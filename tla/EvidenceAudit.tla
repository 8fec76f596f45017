---------------------------- MODULE EvidenceAudit ----------------------------
(***************************************************************************)
(* What the evidence indexer says about the evidence: after each batch of  *)
(* blocks that touches an election, and when it starts, it loads the       *)
(* signed actas of its source directory, renews the incidents about the    *)
(* custody of anchored actas, and renews the consistency report of each    *)
(* election with the incidents its rules raise.  Each renewal first        *)
(* resolves the incidents it manages and then raises again, one statement  *)
(* at a time, those that still hold; the process can die in between, and   *)
(* its cursor is stored before the renewals.  The evidence API serves the  *)
(* incidents and the latest report.  The tally board writes the contents   *)
(* of its actas into the same table, after it has anchored them.           *)
(*                                                                         *)
(* How the cursor and the tables follow a chain that is rewritten is the   *)
(* subject of EvidenceIndexer; here the events come in order, one a block, *)
(* and a few of them are not what the registry allows (what a rewrite      *)
(* nobody noticed leaves behind).  Elections are those created before.     *)
(* Left out is BLOCK_TIMESTAMP_NON_MONOTONIC, a warning about clocks.      *)
(***************************************************************************)
EXTENDS Naturals, FiniteSets, Sequences

CONSTANTS
    Elections,
    Acts,          \* actas by content hash (actId); all of one kind
    Events,        \* the events the node may report
    Files,         \* the actas of the authority console: pairs of election and act
    BoardActas,    \* those of the tally board
    BATCH_SIZE,
    EXAMINED,      \* signups, and ballots, of an election whose phase is looked at
    MaxBlocks,     \* bound: blocks with an event
    MaxAnomalies,  \* bound: events the registry would not emit
    MaxDamages,    \* bound: files of the source directory damaged
    MaxGaps,       \* bound: blocks a node returns null for
    MaxLags,       \* bound: times a node reports an earlier head
    MaxCrashes     \* bound: deaths of the indexer

LastPhase == 3
Kinds == {"PHASE", "SIGNUP", "BALLOT", "ACTA"}
AllEvents ==
    [kind : {"PHASE"}, election : Elections, prev : 0..LastPhase - 1, next : 1..LastPhase]
    \cup [kind : {"SIGNUP", "BALLOT"}, election : Elections, ref : 1..2]
    \cup [kind : {"ACTA"}, election : Elections, ref : Acts]

ASSUME AuditAssumption ==
    /\ Events \subseteq AllEvents
    /\ Files \subseteq Elections \X Acts /\ BoardActas \subseteq (Elections \X Acts) \ Files
    /\ {BATCH_SIZE, EXAMINED} \subseteq Nat \ {0}
    /\ {MaxBlocks, MaxAnomalies, MaxDamages, MaxGaps, MaxLags, MaxCrashes} \subseteq Nat

VARIABLES
    chain,     \* the registry's events, one per block
    rows,      \* the event tables: per block, absent, without or with its time
    phaseOf,   \* elections.phase
    cursor,    \* indexer_state.next_block
    disk,      \* the signed actas of ACTA_SOURCE_DIR
    contents,  \* acta_contents, with the verification status
    active,    \* incident_logs: the active incidents
    reports,   \* consistency_report_runs: per election, oldest first
    indexer,   \* where the process stands
    used       \* of the bounds, how much is used, and whether an error ended the process

auditVars == <<chain, rows, phaseOf, cursor, disk, contents, active, reports, indexer, used>>

\* A signed acta: the act it declares, the hash its content has, and whether its
\* signature verifies, which it does not for a content of another hash.
Signed == [election : Elections, act : Acts, hash : Acts, valid : BOOLEAN]
Verdicts == {"OK", "ERROR"}
Statuses == Verdicts \cup {"NONE", "VALID"}

Codes == {"DUP_REGISTRY_NULLIFIER", "DUP_BALLOT_INDEX", "PHASE_PREVIOUS_MISMATCH",
          "PHASE_NON_SEQUENTIAL", "PHASE_CURRENT_MISMATCH", "BLOCK_TIMESTAMP_MISSING",
          "SIGNUP_OUT_OF_PHASE", "BALLOT_OUT_OF_PHASE"}
CustodyCodes == {"ACTA_CONTENT_MISSING", "ACTA_SIGNATURE_INVALID", "ACTA_HASH_MISMATCH"}
Warnings == {"PHASE_NON_SEQUENTIAL", "BLOCK_TIMESTAMP_MISSING"}

\* main begins; next is the nextBlock it read from the cursor.
Started(next) == [at |-> "BACKFILL", next |-> next, to |-> 0, looping |-> FALSE,
                  touched |-> {}, blocks |-> {}, loaded |-> {}, upserts |-> {},
                  checks |-> {}, about |-> {}, writes |-> {}]

AuditInit ==
    /\ chain = << >>
    /\ rows = [b \in 1..MaxBlocks |-> "ABSENT"]
    /\ phaseOf = [e \in Elections |-> 0]
    /\ cursor = 1
    /\ disk = {}
    /\ contents = {}
    /\ active = {}
    /\ reports = [e \in Elections |-> << >>]
    /\ indexer = Started(1)
    /\ used = [anomalies |-> 0, damages |-> 0, gaps |-> 0, lags |-> 0, crashes |-> 0,
                ended |-> FALSE]

Use(what, max) == used[what] < max /\ used' = [used EXCEPT ![what] = @ + 1]

-----------------------------------------------------------------------------
(* The chain and the directory, which others write.                        *)

\* The blocks up to n with an event of a kind of an election.
Of(e, kind, n) == {b \in 1..n : chain[b].election = e /\ chain[b].kind = kind}

Latest(S) == CHOOSE b \in S : \A c \in S : c <= b

\* The phase the registry is in after block n.
PhaseAfter(e, n) ==
    LET changes == Of(e, "PHASE", n)
    IN  IF changes = {} THEN 0 ELSE chain[Latest(changes)].next

\* What the registry requires of an event after the first n blocks.
Allows(ev, n) ==
    LET phase == PhaseAfter(ev.election, n)
        fresh == \A c \in Of(ev.election, ev.kind, n) : chain[c].ref # ev.ref
    IN  CASE ev.kind = "PHASE" -> ev.prev = phase /\ ev.next = phase + 1
          [] ev.kind = "SIGNUP" -> phase = 1 /\ fresh
          [] ev.kind = "BALLOT" -> phase = 3 /\ fresh
          [] OTHER -> TRUE

Lawful(b) == Allows(chain[b], b - 1)

NewBlock(ev) ==
    /\ Len(chain) < MaxBlocks
    /\ chain' = Append(chain, ev)
    /\ IF Allows(ev, Len(chain)) THEN used' = used ELSE Use("anomalies", MaxAnomalies)
    /\ UNCHANGED <<rows, phaseOf, cursor, disk, contents, active, reports, indexer>>

\* The authority console writes a signed acta before it anchors it.
WriteActa(e, a) ==
    /\ <<e, a>> \in Files
    /\ \A f \in disk : f.election = e => f.act # a
    /\ disk' = disk \cup {[election |-> e, act |-> a, hash |-> a, valid |-> TRUE]}
    /\ UNCHANGED <<chain, rows, phaseOf, cursor, contents, active, reports, indexer, used>>

\* A file is lost, or its content is no longer the one that was signed.
DamageActa(f) ==
    /\ f \in disk
    /\ Use("damages", MaxDamages)
    /\ \/ disk' = disk \ {f}
       \/ \E h \in Acts : disk' = (disk \ {f}) \cup {[f EXCEPT !.hash = h, !.valid = FALSE]}
    /\ UNCHANGED <<chain, rows, phaseOf, cursor, contents, active, reports, indexer>>

ContentOf(e, a) == {c \in contents : c.election = e /\ c.act = a}

\* publishActaWithContentAction: the tally board has the receipt of the anchor, and
\* inserts the content or, clicked again, sets all but the hash.  A content of its
\* hash in the row of another act makes it fail.
SaveActaContent(e, a) ==
    LET others == contents \ ContentOf(e, a)
        row == [election |-> e, act |-> a, hash |-> a, valid |-> TRUE, status |-> "VALID"]
    IN  /\ <<e, a>> \in BoardActas
        /\ \E b \in Of(e, "ACTA", Len(chain)) : chain[b].ref = a
        /\ \A c \in others : c.election = e => c.hash # a
        /\ contents' = others \cup {row}
        /\ UNCHANGED <<chain, rows, phaseOf, cursor, disk, active, reports, indexer, used>>

-----------------------------------------------------------------------------
(* The rules.  Block numbers stand for the identity of a row.              *)

Stored == {b \in 1..MaxBlocks : rows[b] # "ABSENT"}
RowsOf(e, kind) == {b \in Stored : chain[b].election = e /\ chain[b].kind = kind}

Incident(e, code, ref) == [election |-> e, code |-> code, ref |-> ref]

\* The phase changes in their order: expectedPrevious runs along them, from the
\* previous phase the first of them claims.
ExpectedPrevious(e, b) ==
    LET earlier == {c \in RowsOf(e, "PHASE") : c < b}
    IN  IF earlier = {} THEN chain[b].prev ELSE chain[Latest(earlier)].next

(* Mutant: the phase of the election as it is now, not as it was.               *)
PhaseNow(e, b) ==
    LET changes == RowsOf(e, "PHASE")
    IN  IF changes = {} THEN 0 ELSE chain[Latest(changes)].next

\* phaseAt: the phase after the last change before an event, SETUP if none.
PhaseAt(e, b) ==
    LET earlier == {c \in RowsOf(e, "PHASE") : c < b}
    IN  IF earlier = {} THEN 0 ELSE chain[Latest(earlier)].next

Duplicates(e, kind, code) ==
    {Incident(e, code, chain[b].ref) : b \in
        {c \in RowsOf(e, kind) : \E d \in RowsOf(e, kind) \ {c} : chain[d].ref = chain[c].ref}}

\* The first rows of a kind, those whose phase is looked at (LIMIT 5000).
Examined(e, kind) ==
    {b \in RowsOf(e, kind) : Cardinality({c \in RowsOf(e, kind) : c < b}) < EXAMINED}

OutOfPhase(e, kind, phase, code) ==
    IF \E b \in Examined(e, kind) : PhaseAt(e, b) # phase THEN {Incident(e, code, 0)} ELSE {}

Untimed(e) == {b \in Stored : chain[b].election = e /\ rows[b] = "UNTIMED"}

\* The incidents of the rules, but for the missing time.
Rules(e) ==
    LET changes == RowsOf(e, "PHASE")
    IN  {Incident(e, "PHASE_PREVIOUS_MISMATCH", b) :
            b \in {c \in changes : chain[c].prev # ExpectedPrevious(e, c)}}
        \cup {Incident(e, "PHASE_NON_SEQUENTIAL", b) :
            b \in {c \in changes : chain[c].next # ExpectedPrevious(e, c) + 1}}
        \cup (IF changes # {} /\ phaseOf[e] # chain[Latest(changes)].next
              THEN {Incident(e, "PHASE_CURRENT_MISMATCH", phaseOf[e])} ELSE {})
        \cup Duplicates(e, "SIGNUP", "DUP_REGISTRY_NULLIFIER")
        \cup Duplicates(e, "BALLOT", "DUP_BALLOT_INDEX")
        \cup OutOfPhase(e, "SIGNUP", 1, "SIGNUP_OUT_OF_PHASE")
        \cup OutOfPhase(e, "BALLOT", 3, "BALLOT_OUT_OF_PHASE")

Incidents(e) ==
    Rules(e) \cup (IF Untimed(e) # {} THEN {Incident(e, "BLOCK_TIMESTAMP_MISSING", 0)} ELSE {})

\* dataVersion: a report is made again only for another phase, other counts or
\* another last block.
DataVersion(e) ==
    [phase |-> phaseOf[e], counts |-> [k \in Kinds |-> Cardinality(RowsOf(e, k))],
     last |-> LET all == UNION {RowsOf(e, k) : k \in Kinds}
              IN  IF all = {} THEN 0 ELSE Latest(all)]

Critical(incidents) == \E i \in incidents : i.code \notin Warnings

\* The anchor in force of each election: the last one of the kind.
Anchored(e) ==
    LET anchors == RowsOf(e, "ACTA")
    IN  IF anchors = {} THEN {} ELSE {chain[Latest(anchors)].ref}

Missing(e) ==
    {Incident(e, "ACTA_CONTENT_MISSING", a) : a \in {b \in Anchored(e) : ContentOf(e, b) = {}}}

\* The status verification gives the content of an anchor in force.
Verdict(c) == IF c.valid /\ c.hash = c.act THEN "OK" ELSE "ERROR"

\* What verification finds in the contents of the anchors in force.
Failures(e) ==
    {i \in [election : {e}, code : CustodyCodes, ref : Anchored(e)] :
        \E c \in ContentOf(e, i.ref) :
            \/ i.code = "ACTA_SIGNATURE_INVALID" /\ ~c.valid
            \/ i.code = "ACTA_HASH_MISMATCH" /\ c.hash # c.act}

Verified(e) ==
    {w \in [election : {e}, code : Verdicts, ref : Anchored(e)] :
        \E c \in ContentOf(e, w.ref) : w.code = Verdict(c)}

Custody(e) == Missing(e) \cup Failures(e)

-----------------------------------------------------------------------------
(* The indexer.                                                            *)

\* Where the custody pass begins: with the files as they are read now.
LoadNext(p, looping) == [p EXCEPT !.at = "LOAD", !.looping = looping]

\* backfillMissingBlockTimestamps: the blocks whose rows lack their time are
\* looked up; a node may have no answer.
ListMissingTimes ==
    /\ indexer.at = "BACKFILL"
    /\ indexer' = [indexer EXCEPT !.at = "FILL",
                                  !.blocks = {b \in Stored : rows[b] = "UNTIMED"}]
    /\ UNCHANGED <<chain, rows, phaseOf, cursor, disk, contents, active, reports, used>>

FillTime(b, found) ==
    /\ indexer.at = "FILL" /\ b \in indexer.blocks
    /\ IF found THEN used' = used ELSE Use("gaps", MaxGaps)
    /\ rows' = IF found THEN [rows EXCEPT ![b] = "TIMED"] ELSE rows
    /\ indexer' = [indexer EXCEPT !.blocks = @ \ {b}]
    /\ UNCHANGED <<chain, phaseOf, cursor, disk, contents, active, reports>>

EndBackfill ==
    /\ indexer.at = "FILL" /\ indexer.blocks = {}
    /\ indexer' = LoadNext(indexer, FALSE)
    /\ UNCHANGED <<chain, rows, phaseOf, cursor, disk, contents, active, reports, used>>

\* loadActasFromSourceDir
LoadActas ==
    /\ indexer.at = "LOAD"
    /\ indexer' = [indexer EXCEPT !.at = "UPSERT", !.loaded = disk, !.upserts = disk]
    /\ UNCHANGED <<chain, rows, phaseOf, cursor, disk, contents, active, reports, used>>

\* upsertActaContent: the row of an election and an act is inserted or replaced,
\* but keeps its verification status.  An election holds a content hash once, and
\* the error a second row of it raises ends the process.
UpsertActa(f) ==
    LET others == contents \ ContentOf(f.election, f.act)
        status == IF ContentOf(f.election, f.act) = {} THEN "NONE"
                  ELSE (CHOOSE c \in ContentOf(f.election, f.act) : TRUE).status
        row == [election |-> f.election, act |-> f.act, hash |-> f.hash,
                valid |-> f.valid, status |-> status]
        unique == \A c \in others : c.election = f.election => c.hash # f.hash
    IN  /\ indexer.at = "UPSERT" /\ f \in indexer.upserts
        /\ contents' = IF unique THEN others \cup {row} ELSE contents
        /\ indexer' = IF unique THEN [indexer EXCEPT !.upserts = @ \ {f}] ELSE Started(cursor)
        /\ used' = IF unique THEN used ELSE [used EXCEPT !.ended = TRUE]
        /\ UNCHANGED <<chain, rows, phaseOf, cursor, disk, active, reports>>

(* Mutant: the elections that a batch touched are not among them.               *)
HintedByFile ==
    LET onDisk == {f.election : f \in indexer.loaded}
    IN  IF onDisk = {} /\ ~indexer.looping THEN Elections ELSE onDisk

\* electionIdsHint: in the loop, the elections touched by the batch and those of
\* the files; at the start, those of the files, or every election if there are none.
Hinted ==
    LET onDisk == {f.election : f \in indexer.loaded}
    IN  IF indexer.looping THEN indexer.touched \cup onDisk
        ELSE IF onDisk = {} THEN Elections ELSE onDisk

\* refreshActaCustodyIncidents: resolve, and raise what has no content.
ResolveCustody ==
    /\ indexer.at = "UPSERT" /\ indexer.upserts = {}
    /\ active' = {i \in active : ~(i.code \in CustodyCodes /\ i.election \in Hinted)}
    /\ indexer' = [indexer EXCEPT !.at = "CUSTODY", !.writes = UNION {Missing(e) : e \in Hinted}]
    /\ UNCHANGED <<chain, rows, phaseOf, cursor, disk, contents, reports, used>>

\* The contents are read once more, to be verified: another may be there by now.
VerifyContents ==
    /\ indexer.at = "CUSTODY" /\ indexer.writes = {}
    /\ indexer' = [indexer EXCEPT !.at = "VERIFY",
                       !.writes = UNION {Failures(e) \cup Verified(e) : e \in Hinted}]
    /\ UNCHANGED <<chain, rows, phaseOf, cursor, disk, contents, active, reports, used>>

WriteCustody(w) ==
    /\ indexer.at \in {"CUSTODY", "VERIFY"} /\ w \in indexer.writes
    /\ IF w.code \in Verdicts
       THEN /\ contents' = {IF c.election = w.election /\ c.act = w.ref
                            THEN [c EXCEPT !.status = w.code] ELSE c : c \in contents}
            /\ active' = active
       ELSE active' = active \cup {w} /\ contents' = contents
    /\ indexer' = [indexer EXCEPT !.writes = @ \ {w}]
    /\ UNCHANGED <<chain, rows, phaseOf, cursor, disk, reports, used>>

(* Mutant: the start does not check the elections again.                        *)
EndCustodyTouchedOnly ==
    /\ indexer.at = "VERIFY" /\ indexer.writes = {}
    /\ indexer' = [indexer EXCEPT !.at = "CHECK", !.checks = indexer.touched]
    /\ UNCHANGED <<chain, rows, phaseOf, cursor, disk, contents, active, reports, used>>

\* At the start every election is checked, in the loop those touched.
EndCustody ==
    /\ indexer.at = "VERIFY" /\ indexer.writes = {}
    /\ indexer' = [indexer EXCEPT !.at = "CHECK",
                       !.checks = IF indexer.looping THEN indexer.touched ELSE Elections]
    /\ UNCHANGED <<chain, rows, phaseOf, cursor, disk, contents, active, reports, used>>

UpToDate(e) ==
    /\ reports[e] # << >>
    /\ reports[e][Len(reports[e])].version = DataVersion(e)

\* computeAndStoreConsistencyReport, up to the first incident raised.
SkipReport(e) ==
    /\ indexer.at = "CHECK" /\ e \in indexer.checks /\ UpToDate(e)
    /\ indexer' = [indexer EXCEPT !.checks = @ \ {e}]
    /\ UNCHANGED <<chain, rows, phaseOf, cursor, disk, contents, active, reports, used>>

ResolveManaged(e) ==
    /\ indexer.at = "CHECK" /\ e \in indexer.checks /\ ~UpToDate(e)
    /\ active' = {i \in active : ~(i.code \in Codes /\ i.election = e)}
    /\ indexer' = [indexer EXCEPT !.at = "RAISE", !.about = {e}, !.writes = Incidents(e)]
    /\ UNCHANGED <<chain, rows, phaseOf, cursor, disk, contents, reports, used>>

Raise(i) ==
    /\ indexer.at = "RAISE" /\ i \in indexer.writes
    /\ active' = active \cup {i}
    /\ indexer' = [indexer EXCEPT !.writes = @ \ {i}]
    /\ UNCHANGED <<chain, rows, phaseOf, cursor, disk, contents, reports, used>>

\* The report is inserted unless the election has one of this version.
StoreReport(e) ==
    LET report == [version |-> DataVersion(e), ok |-> ~Critical(Incidents(e))]
        known == \E n \in DOMAIN reports[e] : reports[e][n].version = report.version
    IN  /\ indexer.at = "RAISE" /\ indexer.writes = {} /\ indexer.about = {e}
        /\ reports' = IF known THEN reports ELSE [reports EXCEPT ![e] = Append(@, report)]
        /\ indexer' = [indexer EXCEPT !.at = "CHECK", !.about = {}, !.checks = @ \ {e}]
        /\ UNCHANGED <<chain, rows, phaseOf, cursor, disk, contents, active, used>>

EndChecks ==
    /\ indexer.at = "CHECK" /\ indexer.checks = {}
    /\ indexer' = [Started(indexer.next) EXCEPT !.at = "POLL", !.loaded = indexer.loaded,
                                                  !.looping = indexer.looping,
                                                  !.touched = indexer.touched]
    /\ UNCHANGED <<chain, rows, phaseOf, cursor, disk, contents, active, reports, used>>

\* The loop: the node reports a head, and the blocks up to it, or a batch of
\* them, are taken.
Poll(head) ==
    /\ indexer.at = "POLL" /\ head \in indexer.next..Len(chain)
    /\ IF head = Len(chain) THEN used' = used ELSE Use("lags", MaxLags)
    /\ LET full == indexer.next + BATCH_SIZE - 1
       IN  indexer' = [Started(indexer.next) EXCEPT !.at = "STORE",
                                                        !.to = IF head < full THEN head ELSE full]
    /\ UNCHANGED <<chain, rows, phaseOf, cursor, disk, contents, active, reports>>

\* One transaction: rows already there stay as they are, and elections.phase is
\* set by each change in turn.  The block of an event may have no time yet.
StoreBatch(untimed) ==
    LET batch == indexer.next..indexer.to
        changes(e) == {b \in batch : chain[b].election = e /\ chain[b].kind = "PHASE"}
    IN  /\ indexer.at = "STORE" /\ untimed \subseteq batch
        /\ IF untimed = {} THEN used' = used
           ELSE /\ used.gaps + Cardinality(untimed) <= MaxGaps
                /\ used' = [used EXCEPT !.gaps = @ + Cardinality(untimed)]
        /\ rows' = [b \in 1..MaxBlocks |->
               IF b \notin batch \/ rows[b] # "ABSENT" THEN rows[b]
               ELSE IF b \in untimed THEN "UNTIMED" ELSE "TIMED"]
        /\ phaseOf' = [e \in Elections |->
               IF changes(e) = {} THEN phaseOf[e] ELSE chain[Latest(changes(e))].next]
        /\ indexer' = [indexer EXCEPT !.at = "CURSOR",
                                      !.touched = {chain[b].election : b \in batch}]
        /\ UNCHANGED <<chain, cursor, disk, contents, active, reports>>

(* Mutant: the cursor moves by a whole batch, though the head cut it short.     *)
StoreCursorByBatch ==
    /\ indexer.at = "CURSOR"
    /\ cursor' = indexer.next + BATCH_SIZE
    /\ indexer' = LoadNext([indexer EXCEPT !.next = indexer.next + BATCH_SIZE], TRUE)
    /\ UNCHANGED <<chain, rows, phaseOf, disk, contents, active, reports, used>>

\* setNextBlock comes before the renewals.
StoreCursor ==
    /\ indexer.at = "CURSOR"
    /\ cursor' = indexer.to + 1
    /\ indexer' = LoadNext([indexer EXCEPT !.next = indexer.to + 1], TRUE)
    /\ UNCHANGED <<chain, rows, phaseOf, disk, contents, active, reports, used>>

\* The process dies, and is started again.
Crash ==
    /\ indexer # Started(cursor)
    /\ Use("crashes", MaxCrashes)
    /\ indexer' = Started(cursor)
    /\ UNCHANGED <<chain, rows, phaseOf, cursor, disk, contents, active, reports>>

IndexerStep ==
    \/ ListMissingTimes \/ EndBackfill \/ LoadActas \/ ResolveCustody \/ VerifyContents
    \/ EndCustody \/ EndChecks \/ StoreCursor
    \/ \E b \in 1..MaxBlocks, found \in BOOLEAN : FillTime(b, found)
    \/ \E f \in indexer.upserts : UpsertActa(f)
    \/ \E w \in indexer.writes : WriteCustody(w) \/ Raise(w)
    \/ \E e \in Elections : SkipReport(e) \/ ResolveManaged(e) \/ StoreReport(e)
    \/ \E head \in 1..Len(chain) : Poll(head)
    \/ \E untimed \in SUBSET (1..MaxBlocks) : StoreBatch(untimed)

AuditNext ==
    \/ IndexerStep \/ Crash
    \/ \E ev \in Events : NewBlock(ev)
    \/ \E e \in Elections, a \in Acts : WriteActa(e, a) \/ SaveActaContent(e, a)
    \/ \E f \in disk : DamageActa(f)

AuditSpec == AuditInit /\ [][AuditNext]_auditVars

-----------------------------------------------------------------------------
\* The top of the loop, where everything a batch called for has been done.
AtRest == indexer.at = "POLL"

ActiveIncidents(e, codes) == {i \in active : i.election = e /\ i.code \in codes}

Tables ==
    /\ rows \in [1..MaxBlocks -> {"ABSENT", "UNTIMED", "TIMED"}]
    /\ Stored \subseteq DOMAIN chain
    /\ phaseOf \in [Elections -> 0..LastPhase]
    /\ contents \subseteq [election : Elections, act : Acts, hash : Acts, valid : BOOLEAN,
                           status : Statuses]
    /\ \A c, d \in contents : c.election = d.election /\ (c.act = d.act \/ c.hash = d.hash)
                                  => c = d

(* What the tables hold; the cursor stands behind rows that are all stored,    *)
(* in front of at most one batch; no act of an election has two contents.      *)
AuditTypeOK ==
    /\ \A b \in DOMAIN chain : chain[b] \in Events
    /\ Tables
    /\ cursor \in 1..Len(chain) + 1 /\ cursor <= indexer.next
    /\ 1..cursor - 1 \subseteq Stored /\ Stored \subseteq 1..cursor - 1 + BATCH_SIZE
    /\ disk \subseteq Signed /\ indexer.loaded \subseteq Signed
    /\ \A i \in active : i.election \in Elections /\ i.code \in Codes \cup CustodyCodes

FromSetup(e) ==
    \A b \in RowsOf(e, "PHASE") : (\A c \in RowsOf(e, "PHASE") : b <= c) => chain[b].prev = 0

\* A signup or a ballot whose nullifier or index an earlier one has.
Repeated(e) ==
    UNION {{b \in RowsOf(e, kind) : \E c \in RowsOf(e, kind) : c < b /\ chain[c].ref = chain[b].ref} :
               kind \in {"SIGNUP", "BALLOT"}}

Audited(e) ==
    RowsOf(e, "PHASE") \cup Examined(e, "SIGNUP") \cup Examined(e, "BALLOT") \cup Repeated(e)

(* The alarm is right, through deaths in the middle of a renewal and batches   *)
(* taken twice: between batches, an election whose stored history starts in    *)
(* SETUP has an active incident of the rules, other than a missing time,       *)
(* exactly if the registry would not have emitted some stored event among its  *)
(* phase changes, its first EXAMINED signups and ballots, and any signup or    *)
(* ballot that repeats another.  Past EXAMINED an event out of its phase goes  *)
(* unseen, and a node that reports a lower head after a restart makes the      *)
(* alarm wrong.                                                                *)
AlarmsTruthful ==
    AtRest /\ used.lags = 0 => \A e \in Elections : FromSetup(e) =>
        ((ActiveIncidents(e, Codes \ {"BLOCK_TIMESTAMP_MISSING"}) # {}) <=>
         \E b \in Audited(e) : ~Lawful(b))

(* Between batches the report the API serves, the latest, is about the rows    *)
(* stored, and agrees with the incidents it serves beside it.                  *)
ReportsCurrent ==
    AtRest /\ used.lags = 0 => \A e \in Elections :
        LET latest == reports[e][Len(reports[e])]
        IN  /\ reports[e] # << >> /\ latest.version = DataVersion(e)
            /\ latest.ok <=> ~Critical(ActiveIncidents(e, Codes))

\* The incidents that may be active beside those that hold: the content of an acta
\* of the board was missing, and the board has written it.
Outdated(e) == {Incident(e, "ACTA_CONTENT_MISSING", a) : a \in
                   {b \in Anchored(e) : <<e, b>> \in BoardActas /\ ContentOf(e, b) # {}}}

CustodyExact(e) ==
    /\ Custody(e) \subseteq ActiveIncidents(e, CustodyCodes)
    /\ ActiveIncidents(e, CustodyCodes) \subseteq Custody(e) \cup Outdated(e)
    /\ \A a \in Anchored(e) : \A c \in ContentOf(e, a) :
           \/ c.status = Verdict(c)
           \/ c.status = "VALID" /\ Verdict(c) = "OK" /\ <<e, a>> \in BoardActas

\* The process died, or an error ended it, and it was started again.
Restarted == used.crashes # 0 \/ used.ended

(* Between batches every anchor in force without content, with an invalid      *)
(* signature or with another hash has its incident, and the content's status   *)
(* tells right from wrong.  What else is served is from an acta of the tally   *)
(* board: it is still reported missing after the board wrote the content, and  *)
(* a right one reads VALID instead of OK from the board's write on, until the  *)
(* election is looked at again.  After the process ended, by a death or by two *)
(* contents of an election with one hash, this is so of the elections looked   *)
(* at since: those the last batch touched, those with a file in the directory, *)
(* and all of them if a start finds no file.                                   *)
CustodyTruthful ==
    AtRest => \A e \in Elections : ~Restarted \/ e \in Hinted => CustodyExact(e)

(* "Anchored acta is missing full signed content (acta_contents)": between     *)
(* batches, whoever is told so finds no content of that acta.                  *)
MissingMeansMissing ==
    AtRest => \A i \in active :
        i.code = "ACTA_CONTENT_MISSING" => ContentOf(i.election, i.ref) = {}

=============================================================================
