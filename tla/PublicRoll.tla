------------------------------ MODULE PublicRoll ------------------------------
(***************************************************************************)
(* The roll of signups as the observers see it.  The contract takes a      *)
(* signup with a permit of the registry authority over the nullifier and   *)
(* the voting address; the evidence indexer copies the chain's signups     *)
(* into signup_records, a batch at a time, and starts again from nothing   *)
(* after a rewrite.  The evidence API and the audit CLI sign permits over  *)
(* the nullifier alone, which the contract refuses, and keep them in       *)
(* rea_signup_permits.  An observer walks the roll page by page, newest    *)
(* first, while signups keep arriving, and each row carries a verdict on   *)
(* the permit that table has for its nullifier, whichever permit the       *)
(* contract took.  The audit CLI also tries signups, some of which must    *)
(* fail, and records what became of each attempt.                          *)
(*                                                                         *)
(* One election and one registry contract.  A permit is its nullifier, who *)
(* signed it (the declared issuer is always the signer) and the voting key *)
(* whose address is in its digest, or NONE.                                *)
(***************************************************************************)
EXTENDS Naturals, FiniteSets, Sequences, SequencesExt

CONSTANTS
    Nullifiers,
    Keys,        \* voting keys, 65 bytes each
    Covering,    \* the permits over a voting address too, as e2e-sepolia signs them
    Runs,        \* the executions of rea-signup
    LIMIT,       \* rows of a page
    MaxPermits,  \* bound: permits the CLI issues
    MaxResets,   \* bound: times the indexer starts again from nothing
    MaxLost,     \* bound: answers of the node, of the API, lost
    MaxWalks     \* bound: times an observer opens the first page

ASSUME RollAssumption ==
    /\ LIMIT \in Nat \ {0}
    /\ {MaxPermits, MaxResets, MaxLost, MaxWalks} \subseteq Nat
    /\ "DIRECT" \notin Runs /\ "NONE" \notin Keys
    /\ Covering \subseteq [nullifier : Nullifiers, issuer : {"AUTHORITY", "OTHER"}, key : Keys]

VARIABLES
    registering,  \* the election is in REGISTRY_OPEN
    roll,         \* the signups of the chain, in order
    indexed,      \* signup_records: how many of them it holds
    permitRows,   \* rea_signup_permits: per nullifier, who signed the permit
    granted,      \* nullifiers the API answered with a permit
    files,        \* the permits rea-issue-permit wrote
    runs,         \* where each rea-signup stands
    incidents,    \* incident_logs: the SIGNUP_ATTEMPT rows
    view,         \* the page the observer looks at
    walk,         \* rows seen since the first page; rows stored all that time
    rollUsed      \* of the bounds, how much is used

rollVars == <<registering, roll, indexed, permitRows, granted, files, runs, incidents,
              view, walk, rollUsed>>
chainVars == <<registering, roll>>
tableVars == <<indexed, permitRows, granted, files>>
cliVars == <<runs, incidents>>
observerVars == <<view, walk>>

Signers == {"AUTHORITY", "OTHER"}
Permit == [nullifier : Nullifiers, issuer : Signers, key : Keys \cup {"NONE"}]
ReaPermit == [nullifier : Nullifiers, issuer : Signers, key : {"NONE"}]
Signup == [nullifier : Nullifiers, key : Keys, by : Runs \cup {"DIRECT"}]
Bounds == {"PERMIT", "RESET", "LOST", "WALK"}

NoPermit == [nullifier |-> "NONE", issuer |-> "NONE", key |-> "NONE"]
BlankRun == [at |-> "IDLE", permit |-> NoPermit, key |-> "NONE", tamper |-> FALSE, force |-> FALSE,
             twice |-> FALSE, usedBefore |-> FALSE, attempt |-> 1,
             lost |-> FALSE, unexpected |-> FALSE]

\* What signup records answer is below cursor; 0 is no cursor, and no next view.
ClosedPage == [status |-> "CLOSED", cursor |-> 0, rows |-> {}, verdicts |-> {}, next |-> 0]

RollInit ==
    /\ registering = TRUE
    /\ roll = << >>
    /\ indexed = 0
    /\ permitRows = [n \in Nullifiers |-> "NONE"]
    /\ granted = {}
    /\ files = {}
    /\ runs = [r \in Runs |-> BlankRun]
    /\ incidents = {}
    /\ view = ClosedPage
    /\ walk = [seen |-> {}, kept |-> 0]
    /\ rollUsed = [b \in Bounds |-> 0]

Spend(b, limit) ==
    /\ rollUsed[b] < limit
    /\ rollUsed' = [rollUsed EXCEPT ![b] = @ + 1]

(***************************************************************************)
(* The contract's signup.                                                  *)
(***************************************************************************)
OnRoll(n) == \E s \in Range(roll) : s.nullifier = n

\* A permit p of the signer, sent with a key: the nullifier unused, the key well
\* formed, its address in the digest the signer signed, and not registered yet.
Accepts(p, signer, key) ==
    /\ registering /\ ~OnRoll(p.nullifier)
    /\ key \in Keys
    /\ signer = "AUTHORITY" /\ p.key = key
    /\ \A s \in Range(roll) : s.key # key

Enrolled(n, key, by) == roll' = Append(roll, [nullifier |-> n, key |-> key, by |-> by])

CloseRegistry ==
    /\ registering
    /\ registering' = FALSE
    /\ UNCHANGED <<roll, tableVars, cliVars, observerVars, rollUsed>>

(***************************************************************************)
(* The permits.  The API writes the row before it answers, whatever the    *)
(* row holds; the CLI inserts it only where there is none, and its file is *)
(* written whether or not the row is.                                      *)
(***************************************************************************)
GrantPermit(n) ==
    /\ n \notin granted
    /\ permitRows' = [permitRows EXCEPT ![n] = "AUTHORITY"]
    /\ granted' = granted \cup {n}
    /\ UNCHANGED <<chainVars, indexed, files, cliVars, observerVars, rollUsed>>

\* A permit that covers the key, sent to the contract by its holder: no row is
\* kept of it.  What the relayer sends with a permit of the API reverts.
SignupDirect(p) ==
    /\ Accepts(p, p.issuer, p.key)
    /\ Enrolled(p.nullifier, p.key, "DIRECT")
    /\ UNCHANGED <<registering, tableVars, cliVars, observerVars, rollUsed>>

InsertIfNone(p) ==
    [permitRows EXCEPT ![p.nullifier] = IF @ = "NONE" THEN p.issuer ELSE @]

\* With a database or without; its failure only shows in what the command prints.
ReaIssuePermit(p) ==
    /\ p \notin files
    /\ permitRows' \in {permitRows, InsertIfNone(p)}
    /\ files' = files \cup {p}
    /\ Spend("PERMIT", MaxPermits)
    /\ UNCHANGED <<chainVars, indexed, granted, cliVars, observerVars>>

(***************************************************************************)
(* rea-signup.                                                             *)
(***************************************************************************)
\* With the key given, or without one: the key drawn then has 32 bytes.  The
\* nullifier's use is read once, before the first attempt.
ReaSignup(r, p, key, tamper, force, twice) ==
    /\ runs[r].at = "IDLE" /\ p \in files \cup Covering
    /\ runs' = [runs EXCEPT ![r] =
            [@ EXCEPT !.at = "SEND", !.permit = p, !.key = key, !.tamper = tamper,
                      !.force = force, !.twice = twice, !.usedBefore = OnRoll(p.nullifier)]]
    /\ UNCHANGED <<chainVars, tableVars, incidents, observerVars, rollUsed>>

Moves(r, changed) == runs' = [runs EXCEPT ![r] = changed]

\* A tampered signature recovers some other signer; the second attempt is sent
\* with the signature of the file.
SignerOf(run) ==
    IF run.tamper /\ run.attempt = 1 THEN "OTHER" ELSE run.permit.issuer

Safe(run) == run.attempt = 1 /\ ~run.force /\ ~run.tamper

\* A safe attempt asks the node for an estimate, which refuses what would revert.
SendAttempt(r) ==
    LET run == runs[r]
        refused == Safe(run) /\ ~Accepts(run.permit, SignerOf(run), run.key)
    IN  /\ run.at = "SEND"
        /\ \/ /\ Moves(r, [run EXCEPT !.at = IF refused THEN "FAILED" ELSE "MINING"])
              /\ UNCHANGED rollUsed
           \/ Moves(r, [run EXCEPT !.at = "FAILED"]) /\ Spend("LOST", MaxLost)
        /\ UNCHANGED <<chainVars, tableVars, incidents, observerVars>>

\* The transaction is mined; the run learns how it ended, or loses the answer.
MineAttempt(r) ==
    LET run == runs[r]
        accepted == Accepts(run.permit, SignerOf(run), run.key)
    IN  /\ run.at = "MINING"
        /\ IF accepted THEN Enrolled(run.permit.nullifier, run.key, r) ELSE UNCHANGED roll
        /\ \/ /\ Moves(r, [run EXCEPT !.at = IF accepted THEN "ACCEPTED" ELSE "FAILED"])
              /\ UNCHANGED rollUsed
           \/ /\ Moves(r, [run EXCEPT !.at = "FAILED", !.lost = TRUE])
              /\ Spend("LOST", MaxLost)
        /\ UNCHANGED <<registering, tableVars, incidents, observerVars>>

\* What a failed attempt is recorded as.
CodeOfUntampered(run) ==
    IF run.attempt = 1 /\ run.tamper THEN "SIGNUP_INVALID_PERMIT" ELSE "SIGNUP_DUP_NULLIFIER"
CodeOf(run) ==
    CASE run.attempt = 2 -> "SIGNUP_DUP_NULLIFIER"
      [] run.attempt = 1 /\ run.tamper -> "SIGNUP_INVALID_PERMIT"
      [] run.attempt = 1 /\ ~run.tamper /\ run.usedBefore -> "SIGNUP_DUP_NULLIFIER"
      [] OTHER -> "SIGNUP_TX_REVERTED"

\* Attempts share no fingerprint.  Without a database, or if it fails, the row is
\* lost and the run goes on.
UpsertIncidentLog(row) == incidents' \in {incidents, incidents \cup {row}}

\* A failed first attempt ends the run.
RecordIncident(r) ==
    LET run == runs[r]
        row == [run |-> r, code |-> CodeOf(run)]
    IN  /\ run.at = "FAILED"
        /\ UpsertIncidentLog(row)
        /\ Moves(r, [run EXCEPT !.at = IF run.attempt = 1 THEN "EXITED" ELSE "DONE"])
        /\ UNCHANGED <<chainVars, tableVars, observerVars, rollUsed>>

AttemptAccepted(r) ==
    LET run == runs[r]
    IN  /\ run.at = "ACCEPTED"
        /\ Moves(r, IF run.attempt = 1 /\ run.twice
                    THEN [run EXCEPT !.at = "SEND", !.attempt = 2]
                    ELSE [run EXCEPT !.at = "DONE", !.unexpected = (run.attempt = 2)])
        /\ UNCHANGED <<chainVars, tableVars, incidents, observerVars, rollUsed>>

(***************************************************************************)
(* The indexer's copy.                                                     *)
(***************************************************************************)
StoreSignups(upTo) ==
    /\ upTo \in indexed + 1..Len(roll)
    /\ indexed' = upTo
    /\ UNCHANGED <<chainVars, permitRows, granted, files, cliVars, observerVars, rollUsed>>

\* The rows of the contract are deleted, and after them its incidents, those of
\* the CLI too, unless the process dies in between; permits are kept.
ResetCopy ==
    /\ indexed > 0
    /\ indexed' = 0
    /\ incidents' \in {incidents, {}}
    /\ walk' = [walk EXCEPT !.kept = 0]
    /\ Spend("RESET", MaxResets)
    /\ UNCHANGED <<chainVars, permitRows, granted, files, runs, view>>

(***************************************************************************)
(* The observer's pages.                                                   *)
(***************************************************************************)
\* The newest n of a set of positions.
Newest(n, positions) ==
    {i \in positions : Cardinality({j \in positions : j > i}) < n}

Below(cursor) == {i \in 1..indexed : cursor = 0 \/ i < cursor}
Oldest(positions) == CHOOSE i \in positions : \A j \in positions : i <= j

\* The verdict on a signup is that of the permit its nullifier has in the table,
\* over the digest without the voting address.
SignupVerdict(i) ==
    CASE permitRows[roll[i].nullifier] = "NONE" -> "UNVERIFIED"
      [] permitRows[roll[i].nullifier] = "OTHER" -> "INVALID"
      [] permitRows[roll[i].nullifier] = "AUTHORITY" -> "VALID"

SignupVerdicts(rows) == {[row |-> i, verdict |-> SignupVerdict(i)] : i \in rows}

\* One row more than the view holds tells whether there is a next view, whose
\* cursor is the last row kept.
PageAtUntrimmed(cursor) ==
    LET fetched == Newest(LIMIT + 1, Below(cursor))
        kept == Newest(LIMIT, fetched)
    IN  [status |-> "SHOWN", cursor |-> cursor, rows |-> kept,
         verdicts |-> SignupVerdicts(kept),
         next |-> IF Cardinality(fetched) > LIMIT THEN Oldest(fetched) ELSE 0]
PageAt(cursor) ==
    LET fetched == Newest(LIMIT + 1, Below(cursor))
        kept == Newest(LIMIT, fetched)
    IN  [status |-> "SHOWN", cursor |-> cursor, rows |-> kept,
         verdicts |-> SignupVerdicts(kept),
         next |-> IF Cardinality(fetched) > LIMIT THEN Oldest(kept) ELSE 0]

\* The page is built on the server at every visit; when the API does not answer
\* it shows no rows and no link to a next view, and says so.
Show(cursor) ==
    \/ /\ view' = PageAt(cursor)
       /\ walk' = [walk EXCEPT !.seen = @ \cup PageAt(cursor).rows]
       /\ UNCHANGED rollUsed
    \/ /\ view' = [ClosedPage EXCEPT !.status = "UNAVAILABLE", !.cursor = cursor]
       /\ Spend("LOST", MaxLost)
       /\ UNCHANGED walk

OpenFirstPage ==
    /\ view' = PageAt(0)
    /\ walk' = [seen |-> PageAt(0).rows, kept |-> indexed]
    /\ Spend("WALK", MaxWalks)
    /\ UNCHANGED <<chainVars, tableVars, cliVars>>

OpenNextPage ==
    /\ view.next # 0
    /\ Show(view.next)
    /\ UNCHANGED <<chainVars, tableVars, cliVars>>

\* Reloads the view, or comes back to it from the view of a signup.
ReloadPage ==
    /\ view.status # "CLOSED"
    /\ Show(view.cursor)
    /\ UNCHANGED <<chainVars, tableVars, cliVars>>

\* The page of one signup of those shown; there is none while the copy is rebuilt.
OpenSignup(i) ==
    /\ view.status = "SHOWN" /\ i \in view.rows /\ i <= indexed
    /\ view' = [view EXCEPT !.status = "DETAIL", !.rows = {i}, !.next = 0,
                             !.verdicts = SignupVerdicts({i})]
    /\ UNCHANGED <<chainVars, tableVars, cliVars, walk, rollUsed>>

EnrolStep ==
    \/ CloseRegistry
    \/ \E p \in Covering : SignupDirect(p)
    \/ \E p \in ReaPermit : ReaIssuePermit(p)

AttemptStep ==
    \E r \in Runs :
        \/ \E p \in files \cup Covering, key \in Keys \cup {"NONE"},
              tamper, force, twice \in BOOLEAN : ReaSignup(r, p, key, tamper, force, twice)
        \/ SendAttempt(r) \/ MineAttempt(r) \/ RecordIncident(r) \/ AttemptAccepted(r)

\* The tables that the evidence API serves, and who reads them.
ObserveStep ==
    \/ \E n \in Nullifiers : GrantPermit(n)
    \/ \E i \in 1..Len(roll) : StoreSignups(i) \/ OpenSignup(i)
    \/ ResetCopy \/ OpenFirstPage \/ OpenNextPage \/ ReloadPage

RollNext == EnrolStep \/ AttemptStep \/ ObserveStep

RollSpec == RollInit /\ [][RollNext]_rollVars

-----------------------------------------------------------------------------

RunType ==
    [at : {"IDLE", "SEND", "MINING", "ACCEPTED", "FAILED", "EXITED", "DONE"},
     permit : Permit \cup {NoPermit}, key : Keys \cup {"NONE"}, tamper : BOOLEAN, force : BOOLEAN, twice : BOOLEAN,
     usedBefore : BOOLEAN, attempt : {1, 2}, lost : BOOLEAN, unexpected : BOOLEAN]

\* The tables, the runs and the pages hold what they should, the copy is never
\* ahead of the chain, and a page holds no more rows than it may.
RollTypeOK ==
    /\ registering \in BOOLEAN
    /\ roll \in Seq(Signup)
    /\ indexed \in 0..Len(roll)
    /\ permitRows \in [Nullifiers -> Signers \cup {"NONE"}]
    /\ granted \subseteq Nullifiers
    /\ files \subseteq ReaPermit
    /\ runs \in [Runs -> RunType]
    /\ \A i \in incidents :
            i.run \in Runs /\ i.code \in {"SIGNUP_DUP_NULLIFIER", "SIGNUP_INVALID_PERMIT",
                                          "SIGNUP_TX_REVERTED"}
    /\ view.status \in {"CLOSED", "SHOWN", "DETAIL", "UNAVAILABLE"}
    /\ view.rows \subseteq 1..Len(roll) /\ Cardinality(view.rows) <= LIMIT
    /\ view.verdicts \subseteq [row : view.rows, verdict : {"UNVERIFIED", "INVALID", "VALID"}]
    /\ view.next \in view.rows \cup {0}
    /\ walk.seen \subseteq 1..Len(roll) /\ walk.kept \in 0..Len(roll)

\* An observer who comes to a page without a next one has been shown every signup
\* that was stored all the time since the first page, whatever was stored
\* meanwhile and whichever pages were reloaded.  A signup once shown as VALID is
\* VALID from then on, and so is one whose nullifier the evidence API gave a permit
\* for, although the CLI may issue another permit, of another signer, for the same
\* nullifier before or after: VALID says that the authority signed such a permit,
\* never that it is the one the contract took.
RollShown ==
    /\ (view.status = "SHOWN" /\ view.next = 0) => 1..walk.kept \subseteq walk.seen
    /\ \A v \in view.verdicts : v.verdict = "VALID" => SignupVerdict(v.row) = "VALID"
    /\ \A i \in 1..indexed : roll[i].nullifier \in granted => SignupVerdict(i) = "VALID"

SignupsBy(r) == {i \in 1..Len(roll) : roll[i].by = r}

\* What rea-signup records of its attempts happened: a duplicate nullifier is on
\* the roll, an invalid permit enrolled nobody, an attempt called reverted is not
\* on the roll unless its answer was lost; and a run that ends well, which takes a
\* permit over the key it was given, enrolled its nullifier once, its second
\* attempt refused.
AttemptsTruthful ==
    /\ \A i \in incidents :
        /\ i.code = "SIGNUP_DUP_NULLIFIER" => OnRoll(runs[i.run].permit.nullifier)
        /\ i.code = "SIGNUP_INVALID_PERMIT" => SignupsBy(i.run) = {}
        /\ i.code = "SIGNUP_TX_REVERTED" => SignupsBy(i.run) = {} \/ runs[i.run].lost
    /\ \A r \in Runs :
        runs[r].at = "DONE" => Cardinality(SignupsBy(r)) = 1 /\ ~runs[r].unexpected

=============================================================================
