----------------------------- MODULE MrdRelayer -----------------------------
(***************************************************************************)
(* The relayer (apps/mrd-relayer): an HTTP front end inserts submissions   *)
(* into the table mrd_submissions, and workers claim them one at a time,   *)
(* send them to the registry, wait for the receipt and record the verdict. *)
(* The part of the evidence indexer that closes the incidents the relayer  *)
(* opens is here too, because the two meet only in the tables they share.  *)
(*                                                                         *)
(* Every await of the worker loop is a step of its own: between two of     *)
(* them other workers, the chain, the authority and the indexer move, the  *)
(* process can crash, an RPC call can fail (its effect done or not) and a  *)
(* database statement can fail (committed or not).  Each worker has its    *)
(* own wallet, whose transactions are mined in nonce order.                *)
(***************************************************************************)
EXTENDS ElectionRegistry

CONSTANTS
  Workers,      \* worker loops sharing the table
  Submissible,  \* payloads clients may post
  MaxRows,      \* bound: submissions ever posted
  MaxFaults     \* bound: crashes, RPC errors and database errors, together

SignupPayload ==
  [kind : {"SIGNUP"}, election : ElectionIds, nullifier : Nullifiers, key : VotingKeys]
BallotPayload ==
  [kind : {"BALLOT"}, election : ElectionIds, key : VotingKeys, ciphertext : Ciphertexts]

ASSUME SubmissibleAssumption == Submissible \subseteq SignupPayload \cup BallotPayload
ASSUME RelayerBoundsAssumption == MaxRows \in Nat /\ MaxFaults \in Nat

Statuses == {"PENDING", "IN_FLIGHT", "SUCCESS", "FAILED"}
Submission == [payload : Submissible, status : Statuses]

VARIABLES
  submissions, \* rows of mrd_submissions, in created_at order
  worker,      \* where each worker loop stands, and the row it holds
  txs,         \* transactions broadcast by the workers, in nonce order
  incident,    \* incident_logs, by the row it is related to
  indexed,     \* per election: the events the indexer has stored
  resolving,   \* the indexer is yet to resolve recovered incidents
  faults       \* faults so far, by kind

relayerVars == <<submissions, worker, txs, incident, indexed, resolving, faults>>
allVars == <<vars, relayerVars>>

Rows == 1 .. MaxRows
Idle == [pc |-> "idle"]
At(pc, r) == [pc |-> pc, row |-> r]
Awaiting(r, t) == [pc |-> "wait", row |-> r, tx |-> t]
LookingUp(r, t) == [pc |-> "lookup", row |-> r, tx |-> t]

RelayerInit ==
  /\ Init
  /\ submissions = <<>>
  /\ worker = [w \in Workers |-> Idle]
  /\ txs = <<>>
  /\ incident = [r \in Rows |-> "none"]
  /\ indexed = [e \in ElectionIds |-> 0]
  /\ resolving = TRUE
  /\ faults = [rpc |-> 0, db |-> 0, crash |-> 0]

Goto(w, position) == worker' = [worker EXCEPT ![w] = position]
SetStatus(r, status) == submissions' = [submissions EXCEPT ![r].status = status]
Fault(kind) ==
  /\ faults.rpc + faults.db + faults.crash < MaxFaults
  /\ faults' = [faults EXCEPT ![kind] = @ + 1]

Holds(w, r) == worker[w].pc # "idle" /\ worker[w].row = r
Held(r) == \E w \in Workers : Holds(w, r)

-----------------------------------------------------------------------------
(* POST /signup and /ballot                                                *)
Submit(payload) ==
  /\ Len(submissions) < MaxRows
  /\ submissions' = Append(submissions, [payload |-> payload, status |-> "PENDING"])
  /\ UNCHANGED <<vars, worker, txs, incident, indexed, resolving, faults>>

-----------------------------------------------------------------------------
(* The worker loop                                                         *)

OldestPending(r) ==
  /\ r \in DOMAIN submissions
  /\ submissions[r].status = "PENDING"
  /\ \A s \in 1 .. r - 1 : submissions[s].status # "PENDING"

(* Mutant: the row is read but not marked IN_FLIGHT.                       *)
ClaimUnmarked(w) ==
  /\ worker[w] = Idle
  /\ \E r \in DOMAIN submissions : OldestPending(r) /\ Goto(w, At("send", r))
  /\ UNCHANGED <<vars, submissions, txs, incident, indexed, resolving, faults>>

(* Mutant: a worker waits while any row is in flight.                      *)
ClaimWhenNoneInFlight(w) ==
  /\ worker[w] = Idle
  /\ \A r \in DOMAIN submissions : submissions[r].status # "IN_FLIGHT"
  /\ \E r \in DOMAIN submissions :
       /\ OldestPending(r)
       /\ SetStatus(r, "IN_FLIGHT")
       /\ Goto(w, At("send", r))
  /\ UNCHANGED <<vars, txs, incident, indexed, resolving, faults>>

(* SELECT ... FOR UPDATE SKIP LOCKED and UPDATE in one transaction.        *)
Claim(w) ==
  /\ worker[w] = Idle
  /\ \E r \in DOMAIN submissions :
       /\ OldestPending(r)
       /\ SetStatus(r, "IN_FLIGHT")
       /\ Goto(w, At("send", r))
  /\ UNCHANGED <<vars, txs, incident, indexed, resolving, faults>>

(* Nothing is pending: the loop sleeps and polls again.                    *)
Poll(w) ==
  /\ worker[w] = Idle
  /\ \A r \in DOMAIN submissions : submissions[r].status # "PENDING"
  /\ UNCHANGED allVars

(* The claim commits but its reply is lost: the outer catch takes over.    *)
ClaimReplyLost(w) ==
  /\ worker[w] = Idle
  /\ \E r \in DOMAIN submissions : OldestPending(r) /\ SetStatus(r, "IN_FLIGHT")
  /\ Fault("db")
  /\ UNCHANGED <<vars, worker, txs, incident, indexed, resolving>>

(* What the chain would do with the call, now.                             *)
Accepted(p) ==
  IF p.kind = "SIGNUP" THEN SignupAccepted(p.election, p.nullifier, p.key)
                       ELSE BallotAccepted(p.election, p.key, p.ciphertext)
Execute(p) ==
  \/ p.kind = "SIGNUP" /\ Signup(p.election, p.nullifier, p.key)
  \/ p.kind = "BALLOT" /\ PublishBallot(p.election, p.key, p.ciphertext)

Broadcast(w, r) ==
  txs' = Append(txs, [row |-> r, sender |-> w, state |-> "pending"])

(* Gas estimation reverts, or the transaction reaches the mempool.         *)
Send(w) ==
  /\ worker[w].pc = "send"
  /\ LET r == worker[w].row IN
       \/ /\ ~Accepted(submissions[r].payload)
          /\ Goto(w, At("mark", r))
          /\ UNCHANGED txs
       \/ /\ Accepted(submissions[r].payload)
          /\ Broadcast(w, r)
          /\ Goto(w, Awaiting(r, Len(txs) + 1))
  /\ UNCHANGED <<vars, submissions, incident, indexed, resolving, faults>>

(* The call to the node fails, before or after it took the transaction;    *)
(* the error names no hash.                                                *)
SendFails(w) ==
  /\ worker[w].pc = "send"
  /\ Fault("rpc")
  /\ LET r == worker[w].row IN
       /\ Goto(w, At("mark", r))
       /\ \/ UNCHANGED txs
          \/ Accepted(submissions[r].payload) /\ Broadcast(w, r)
  /\ UNCHANGED <<vars, submissions, incident, indexed, resolving>>

(* Mutant: the receipt status is not looked at, and wait() does not throw. *)
WaitIgnoresStatus(w) ==
  /\ worker[w].pc = "wait"
  /\ txs[worker[w].tx].state # "pending"
  /\ Goto(w, At("record", worker[w].row))
  /\ UNCHANGED <<vars, submissions, txs, incident, indexed, resolving, faults>>

(* tx.wait(): a receipt of a successful transaction is returned, one of a  *)
(* reverted transaction is thrown.  What wait() throws may carry the hash. *)
Wait(w) ==
  /\ worker[w].pc = "wait"
  /\ LET r == worker[w].row
         t == worker[w].tx IN
       \/ txs[t].state = "mined" /\ Goto(w, At("record", r))
       \/ /\ txs[t].state = "reverted"
          /\ \E position \in {At("mark", r), LookingUp(r, t)} : Goto(w, position)
  /\ UNCHANGED <<vars, submissions, txs, incident, indexed, resolving, faults>>

WaitFails(w) ==
  /\ worker[w].pc = "wait"
  /\ Fault("rpc")
  /\ \E position \in {At("mark", worker[w].row),
                      LookingUp(worker[w].row, worker[w].tx)} : Goto(w, position)
  /\ UNCHANGED <<vars, submissions, txs, incident, indexed, resolving>>

(* Mutant: the receipt lookup's own error is not caught.                   *)
LookupUncaught(w) ==
  /\ worker[w].pc = "lookup"
  /\ LET r == worker[w].row IN
       \/ Goto(w, IF txs[worker[w].tx].state = "mined" THEN At("rescue", r)
                                                       ELSE At("mark", r))
            /\ UNCHANGED faults
       \/ Fault("rpc") /\ Goto(w, Idle)
  /\ UNCHANGED <<vars, submissions, txs, incident, indexed, resolving>>

(* getTransactionReceipt before marking FAILED: a receipt of success leads *)
(* to SUCCESS after all; no receipt, another status or an error does not.  *)
Lookup(w) ==
  /\ worker[w].pc = "lookup"
  /\ LET r == worker[w].row IN
       \/ /\ Goto(w, IF txs[worker[w].tx].state = "mined" THEN At("rescue", r)
                                                          ELSE At("mark", r))
          /\ UNCHANGED faults
       \/ Fault("rpc") /\ Goto(w, At("mark", r))
  /\ UNCHANGED <<vars, submissions, txs, incident, indexed, resolving>>

Record(w) ==
  /\ worker[w].pc = "record"
  /\ SetStatus(worker[w].row, "SUCCESS")
  /\ Goto(w, Idle)
  /\ UNCHANGED <<vars, txs, incident, indexed, resolving, faults>>

(* Mutant: the `continue` after the rescue is missing.                     *)
RescueFallsThrough(w) ==
  /\ worker[w].pc = "rescue"
  /\ SetStatus(worker[w].row, "SUCCESS")
  /\ Goto(w, At("mark", worker[w].row))
  /\ UNCHANGED <<vars, txs, incident, indexed, resolving, faults>>

Rescue(w) ==
  /\ worker[w].pc = "rescue"
  /\ SetStatus(worker[w].row, "SUCCESS")
  /\ Goto(w, Idle)
  /\ UNCHANGED <<vars, txs, incident, indexed, resolving, faults>>

(* Either update fails, committed or not: the catch around it falls        *)
(* through to FAILED.                                                      *)
RecordFails(w) ==
  /\ worker[w].pc \in {"record", "rescue"}
  /\ Fault("db")
  /\ SetStatus(worker[w].row, "SUCCESS") \/ UNCHANGED submissions
  /\ Goto(w, At("mark", worker[w].row))
  /\ UNCHANGED <<vars, txs, incident, indexed, resolving>>

(* Mutant: only signups are reported.                                      *)
MarkFailedQuietly(w) ==
  /\ worker[w].pc = "mark"
  /\ LET r == worker[w].row IN
       /\ SetStatus(r, "FAILED")
       /\ Goto(w, IF submissions[r].payload.kind = "SIGNUP" THEN At("report", r)
                                                            ELSE Idle)
  /\ UNCHANGED <<vars, txs, incident, indexed, resolving, faults>>

MarkFailed(w) ==
  /\ worker[w].pc = "mark"
  /\ SetStatus(worker[w].row, "FAILED")
  /\ Goto(w, At("report", worker[w].row))
  /\ UNCHANGED <<vars, txs, incident, indexed, resolving, faults>>

(* The outer catch gives the row up.                                       *)
MarkFails(w) ==
  /\ worker[w].pc = "mark"
  /\ Fault("db")
  /\ SetStatus(worker[w].row, "FAILED") \/ UNCHANGED submissions
  /\ Goto(w, Idle)
  /\ UNCHANGED <<vars, txs, incident, indexed, resolving>>

(* Upsert of the incident; on conflict `active` keeps its value.           *)
OpenIncident(r) ==
  incident' = [incident EXCEPT ![r] = IF @ = "none" THEN "active" ELSE @]

Report(w) ==
  /\ worker[w].pc = "report"
  /\ OpenIncident(worker[w].row)
  /\ Goto(w, Idle)
  /\ UNCHANGED <<vars, submissions, txs, indexed, resolving, faults>>

ReportFails(w) ==
  /\ worker[w].pc = "report"
  /\ Fault("db")
  /\ OpenIncident(worker[w].row) \/ UNCHANGED incident
  /\ Goto(w, Idle)
  /\ UNCHANGED <<vars, submissions, txs, indexed, resolving>>

(* The process dies and is started again: nothing looks for IN_FLIGHT rows. *)
Crash(w) ==
  /\ worker[w] # Idle
  /\ Fault("crash")
  /\ Goto(w, Idle)
  /\ UNCHANGED <<vars, submissions, txs, incident, indexed, resolving>>

-----------------------------------------------------------------------------
(* The chain takes the next transaction of a wallet into a block.          *)
NextOfSender(t) ==
  /\ txs[t].state = "pending"
  /\ \A u \in 1 .. t - 1 : txs[u].sender = txs[t].sender => txs[u].state # "pending"

Mine(t) ==
  /\ t \in DOMAIN txs
  /\ NextOfSender(t)
  /\ LET p == submissions[txs[t].row].payload IN
       \/ /\ Execute(p)
          /\ txs' = [txs EXCEPT ![t].state = "mined"]
       \/ /\ ~Accepted(p)
          /\ txs' = [txs EXCEPT ![t].state = "reverted"]
          /\ UNCHANGED vars
  /\ UNCHANGED <<submissions, worker, incident, indexed, resolving, faults>>

-----------------------------------------------------------------------------
(* The evidence indexer, as far as relayer incidents go.                   *)

Stored(e) == SubSeq(log[e], 1, indexed[e])

(* Events main() stores, and for which it refreshes the election.          *)
Handled == {"ElectionCreated", "PhaseChanged", "ActaPublished", "SignupRecorded",
            "BallotPublished", "TallyTranscriptCommitmentPublished"}

(* A batch of blocks is stored and the cursor moved; if it touched an      *)
(* election, recovered incidents are resolved before the next batch.       *)
IndexBatch(e) ==
  /\ ~resolving
  /\ \E upTo \in indexed[e] + 1 .. Len(log[e]) :
       /\ indexed' = [indexed EXCEPT ![e] = upTo]
       /\ resolving' = \E i \in indexed[e] + 1 .. upTo : log[e][i].event \in Handled
  /\ UNCHANGED <<vars, submissions, worker, txs, incident, faults>>

(* Mutant: incidents of a kind are resolved by any record of that kind.    *)
OnRecordAny(p) ==
  \E i \in DOMAIN Stored(p.election) :
    Stored(p.election)[i].event = "SignupRecorded"

(* The row signup_records or ballot_records holds what p asked for: a      *)
(* signup is matched by nullifier, a ballot by ciphertext.                 *)
OnRecord(p) ==
  \E i \in DOMAIN Stored(p.election) :
    LET ev == Stored(p.election)[i] IN
    \/ p.kind = "SIGNUP" /\ ev.event = "SignupRecorded" /\ ev.nullifier = p.nullifier
    \/ p.kind = "BALLOT" /\ ev.event = "BallotPublished" /\ ev.ciphertext = p.ciphertext

ResolveRecoveredRelayerIncidents ==
  /\ resolving
  /\ resolving' = FALSE
  /\ incident' = [r \in Rows |->
       IF incident[r] = "active" /\ OnRecord(submissions[r].payload)
       THEN "resolved" ELSE incident[r]]
  /\ UNCHANGED <<vars, submissions, worker, txs, indexed, faults>>

(* main() resolves recovered incidents once before its loop.               *)
IndexerRestart ==
  /\ Fault("crash")
  /\ resolving' = TRUE
  /\ UNCHANGED <<vars, submissions, worker, txs, incident, indexed>>

-----------------------------------------------------------------------------
WorkerStep(w) ==
  Poll(w) \/ Claim(w) \/ Send(w) \/ Wait(w) \/ Lookup(w) \/ Record(w) \/ Rescue(w)
    \/ MarkFailed(w) \/ Report(w)

WorkerFault(w) ==
  ClaimReplyLost(w) \/ SendFails(w) \/ WaitFails(w) \/ RecordFails(w)
    \/ MarkFails(w) \/ ReportFails(w) \/ Crash(w)

IndexerStep ==
  (\E e \in ElectionIds : IndexBatch(e)) \/ ResolveRecoveredRelayerIncidents

(* The authority, and voters served by other relayers.                     *)
ChainStep ==
  /\ OwnerStep \/ AuthorityStep \/ VoterStep \/ ProofStep
  /\ UNCHANGED relayerVars

RelayerNext ==
  \/ \E payload \in Submissible : Submit(payload)
  \/ \E w \in Workers : WorkerStep(w) \/ WorkerFault(w)
  \/ \E t \in DOMAIN txs : Mine(t)
  \/ IndexerStep
  \/ IndexerRestart
  \/ ChainStep

RelayerSafety == RelayerInit /\ [][RelayerNext]_allVars

(* Every worker loop and the indexer's keep running between faults, and    *)
(* the chain keeps producing blocks.  Nobody else has to do anything.      *)
Fairness ==
  /\ \A w \in Workers : WF_allVars(WorkerStep(w))
  /\ WF_allVars(\E t \in DOMAIN txs : Mine(t))
  /\ WF_allVars(IndexerStep)

RelayerSpec == RelayerSafety /\ Fairness

-----------------------------------------------------------------------------
Positions ==
  {Idle}
    \cup [pc : {"send", "record", "rescue", "mark", "report"}, row : DOMAIN submissions]
    \cup [pc : {"wait", "lookup"}, row : DOMAIN submissions, tx : DOMAIN txs]

Transaction ==
  [row : DOMAIN submissions, sender : Workers, state : {"pending", "mined", "reverted"}]

(* "Atomically SELECT + mark IN_FLIGHT ... to prevent double-sending if    *)
(* the worker crashes": whatever fails and however many workers share the  *)
(* table, no submission is ever broadcast twice or held by two workers.    *)
AtMostOneBroadcast ==
  /\ \A t, u \in DOMAIN txs : txs[t].row = txs[u].row => t = u
  /\ \A v, w \in Workers, r \in DOMAIN submissions :
       Holds(v, r) /\ Holds(w, r) => v = w

(* A client that reads SUCCESS can rely on it: distinct successful rows    *)
(* stand for distinct events of the registry that carry their content.     *)
Successful(e) ==
  {r \in DOMAIN submissions :
     submissions[r].status = "SUCCESS" /\ submissions[r].payload.election = e}

Carries(ev, p) ==
  \/ /\ p.kind = "SIGNUP" /\ ev.event = "SignupRecorded"
     /\ ev.nullifier = p.nullifier /\ ev.key = p.key
  \/ /\ p.kind = "BALLOT" /\ ev.event = "BallotPublished"
     /\ ev.ciphertext = p.ciphertext

SuccessIsOnChain ==
  \A e \in ElectionIds :
    \E position \in Injection(Successful(e), DOMAIN log[e]) :
      \A r \in Successful(e) :
        Carries(log[e][position[r]], submissions[r].payload)

(* A verdict stands: without a database error no row ever leaves SUCCESS   *)
(* or FAILED, and a FAILED row never becomes anything else at all.         *)
VerdictsStandStep ==
  \A r \in DOMAIN submissions :
    LET before == submissions[r].status
        after == submissions'[r].status IN
    /\ before = "FAILED" => after = "FAILED"
    /\ before = "SUCCESS" /\ faults.db = 0 => after = "SUCCESS"
VerdictsStand == [][VerdictsStandStep]_allVars

(* Incidents tell the truth: each is about a row the relayer gave up, and  *)
(* one is closed only when that nullifier or that ciphertext did reach the *)
(* chain in the end, by whatever relayer.                                  *)
IncidentsTruthful ==
  \A r \in Rows : incident[r] # "none" =>
    /\ r \in DOMAIN submissions
    /\ submissions[r].status = "FAILED"
    /\ LET p == submissions[r].payload IN
         incident[r] = "resolved" =>
           \E i \in DOMAIN log[p.election] :
             LET ev == log[p.election][i] IN
             IF p.kind = "SIGNUP"
             THEN ev.event = "SignupRecorded" /\ ev.nullifier = p.nullifier
             ELSE ev.event = "BallotPublished" /\ ev.ciphertext = p.ciphertext

(* No failure is silent: unless a database error or a crash got in the     *)
(* way, a FAILED row has its incident, or a worker is about to open it.    *)
FailuresReported ==
  \A r \in DOMAIN submissions :
    /\ submissions[r].status = "FAILED"
    /\ incident[r] = "none"
    => \/ \E w \in Workers : worker[w] = At("report", r)
       \/ faults.db + faults.crash > 0

(* Errors of the node alone never lose a submission: a row in flight that  *)
(* no worker holds is the trace of a crash or of a database error.         *)
NoOrphanFromRpcErrors ==
  \A r \in DOMAIN submissions :
    submissions[r].status = "IN_FLIGHT" /\ ~Held(r)
      => faults.db + faults.crash > 0

(* Every submission is taken up in the end and then let go by its worker,  *)
(* whatever happened to the rows before it.                                *)
InProgress(r) ==
  r \in DOMAIN submissions /\ (submissions[r].status = "PENDING" \/ Held(r))
QueueDrains == \A r \in Rows : InProgress(r) ~> ~InProgress(r)

(* worker.ts, at the receipt lookup: "Before marking FAILED, check if the  *)
(* tx was actually mined. tx.wait() can throw on timeout/network even if   *)
(* the tx succeeded on-chain." So no row is marked FAILED when its         *)
(* transaction has already been mined successfully.                        *)
FailedOnlyIfNotMinedStep ==
  \A t \in DOMAIN txs :
    LET r == txs[t].row IN
    txs[t].state = "mined" /\ submissions'[r].status = "FAILED"
      => submissions[r].status = "FAILED"
FailedOnlyIfNotMined == [][FailedOnlyIfNotMinedStep]_allVars
=============================================================================
