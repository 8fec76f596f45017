-------------------------- MODULE EvidenceIndexer --------------------------
(***************************************************************************)
(* The evidence indexer (apps/evidence-indexer): it copies the events of   *)
(* the registry, block range by block range, into tables the other         *)
(* services read, and keeps a cursor with the hash of the last block it    *)
(* took.  When it starts it compares that hash with the chain and, if they *)
(* differ, throws the evidence away and starts again.                      *)
(*                                                                         *)
(* The chain grows and is rewritten under it, even from its genesis (a     *)
(* development chain that is restarted).  Every RPC call and every         *)
(* statement outside a transaction is a step, and the process can die at   *)
(* any of them: main() has no retry, an error ends it, and the process     *)
(* manager starts it again.  There is one indexer per contract.            *)
(***************************************************************************)
EXTENDS Integers, Sequences

CONSTANTS
  Elections,
  Txs,           \* transactions of the registry, each known by its event
  NoTx,          \* a block without any
  CONFIRMATIONS, \* blocks on top of one before it is indexed
  BATCH_SIZE,
  MaxBlocks,     \* bound: blocks ever produced
  MaxRewrites,   \* bound: rewrites of the chain
  MaxCrashes     \* bound: deaths of the process

CreationTxs == [event : {"ElectionCreated"}, election : Elections]
PhaseTxs == [event : {"PhaseChanged"}, election : Elections, newPhase : 1 .. 9]
(* SignupRecorded stands for acta_anchors and ballot_records too: tables   *)
(* of rows that are only inserted, and that pickCanaryTx looks at.         *)
RecordTxs ==
  [event : {"SignupRecorded", "TallyTranscriptCommitmentPublished"},
   election : Elections]

ASSUME TxsAssumption ==
  /\ Txs \subseteq CreationTxs \cup PhaseTxs \cup RecordTxs
  /\ NoTx \notin Txs
ASSUME IndexerConfigAssumption == CONFIRMATIONS \in Nat /\ BATCH_SIZE \in Nat \ {0}
ASSUME IndexerBoundsAssumption ==
  MaxBlocks \in Nat \ {0} /\ MaxRewrites \in Nat /\ MaxCrashes \in Nat

VARIABLES
  chain,    \* the blocks of the canonical chain, the genesis block first
  tables,   \* what the events left in the database
  cursor,   \* the row of indexer_state
  indexer,  \* where the process stands
  past      \* history: what happened so far, for the properties

vars == <<chain, tables, cursor, indexer, past>>

(* Blocks are numbered by their place in chain: the genesis block, number  *)
(* 0 of the code, is 1 here, and START_BLOCK is the genesis block.         *)
startBlock == 1
Hashes == 1 .. MaxBlocks
NULL == 0 \* of a block number or a hash in indexer_state
Absent == [phase |-> -1, block |-> NULL]

EmptyTables ==
  [elections |-> [e \in Elections |-> Absent], \* phase, created_at_block
   rows |-> {},                                \* event tables: tx and block
   resetIncidents |-> {}]                      \* INDEXER_EVIDENCE_RESET
NoCursor == [next |-> NULL, last |-> NULL, hash |-> NULL, genesis |-> NULL,
             resetReason |-> FALSE]
FreshCursor(genesis, reset) ==
  [next |-> startBlock, last |-> NULL, hash |-> NULL, genesis |-> genesis,
   resetReason |-> reset]

Down == [pc |-> "down"]

Init ==
  /\ chain = <<[hash |-> 1, tx |-> NoTx]>>
  /\ tables = EmptyTables
  /\ cursor = NoCursor
  /\ indexer = Down
  /\ past = [blocks |-> 1, rewrites |-> 0, crashes |-> 0, height |-> 1,
             finalityBroken |-> FALSE, unwitnessed |-> FALSE,
             rewrittenSinceStart |-> FALSE, reset |-> FALSE]

-----------------------------------------------------------------------------
(* The chain                                                               *)

Mined == {chain[b].tx : b \in DOMAIN chain} \ {NoTx}
CreatedOnChain(e) == \E tx \in Mined : tx.event = "ElectionCreated" /\ tx.election = e
ChangedTo(e, phase) ==
  \E tx \in Mined : tx.event = "PhaseChanged" /\ tx.election = e /\ tx.newPhase = phase

(* The registry numbers elections as they come, moves one phase at a time, *)
(* and a transaction is mined once.                                        *)
Valid(tx) ==
  /\ tx \notin Mined
  /\ tx.event # "ElectionCreated" => CreatedOnChain(tx.election)
  /\ tx.event = "PhaseChanged" /\ tx.newPhase > 1 =>
       ChangedTo(tx.election, tx.newPhase - 1)

NewBlock(tx) == [hash |-> past.blocks + 1, tx |-> tx]

ProduceBlock ==
  /\ past.blocks < MaxBlocks
  /\ \E tx \in Txs \cup {NoTx} :
       /\ tx # NoTx => Valid(tx)
       /\ chain' = Append(chain, NewBlock(tx))
  /\ past' = [past EXCEPT !.blocks = @ + 1,
                          !.height = IF Len(chain) < @ THEN @ ELSE Len(chain) + 1]
  /\ UNCHANGED <<tables, cursor, indexer>>

(* Blocks whose events were taken in, or are about to be.                  *)
Fetched(b) == indexer.pc \in {"store", "hash", "cursor"} /\ b <= indexer.to
StoredAt(b) ==
  \/ \E row \in tables.rows : row.block = b
  \/ \E e \in Elections : tables.elections[e].block = b

(* All blocks above keep are dropped; with none kept, there is a new       *)
(* genesis block.  The history notes whether a block that once had its     *)
(* confirmations was dropped (finalityBroken), and whether one was whose   *)
(* events were taken in before the hash in indexer_state covered it        *)
(* (unwitnessed: no later start can tell).                                 *)
Rewrite(keep) ==
  /\ past.rewrites < MaxRewrites
  /\ \/ keep > 0 /\ chain' = SubSeq(chain, 1, keep)
     \/ /\ keep = 0 /\ past.blocks < MaxBlocks
        /\ chain' = <<NewBlock(NoTx)>>
  /\ past' = [past EXCEPT
       !.blocks = IF keep = 0 THEN @ + 1 ELSE @,
       !.rewrites = @ + 1,
       !.finalityBroken = @ \/ keep < past.height - CONFIRMATIONS \/ keep = 0,
       !.unwitnessed = @ \/ \E b \in keep + 1 .. Len(chain) :
                              b > cursor.last /\ (Fetched(b) \/ StoredAt(b)),
       !.rewrittenSinceStart = TRUE]
  /\ UNCHANGED <<tables, cursor, indexer>>

-----------------------------------------------------------------------------
(* main(), up to its loop                                                  *)

Started(pc, genesis) == [pc |-> pc, genesis |-> genesis]

(* The process comes up and reads the genesis block.                       *)
Boot ==
  /\ indexer = Down
  /\ indexer' = Started("init", chain[1].hash)
  /\ past' = [past EXCEPT !.rewrittenSinceStart = FALSE]
  /\ UNCHANGED <<chain, tables, cursor>>

(* resetEvidenceForContract deletes from the tables one by one, outside    *)
(* any transaction; then the cursor is set back.                           *)
DeleteOrder ==
  <<"PhaseChanged", "SignupRecorded", "TallyTranscriptCommitmentPublished",
    "incident_logs", "elections">>
Resetting(genesis, then) ==
  [pc |-> "reset", genesis |-> genesis, left |-> DeleteOrder, then |-> then]

GetOrInitNextBlock ==
  /\ indexer.pc = "init"
  /\ LET genesis == indexer.genesis IN
       \/ /\ cursor = NoCursor
          /\ cursor' = FreshCursor(genesis, FALSE)
          /\ indexer' = Started("state", genesis)
       \/ /\ cursor # NoCursor /\ cursor.genesis # genesis
          /\ indexer' = Resetting(genesis, "state")
          /\ UNCHANGED cursor
       \/ /\ cursor # NoCursor /\ cursor.genesis = genesis
          /\ indexer' = Started("state", genesis)
          /\ UNCHANGED cursor
  /\ UNCHANGED <<chain, tables, past>>

DeleteNext ==
  /\ indexer.pc = "reset"
  /\ indexer.left # <<>>
  /\ LET table == Head(indexer.left) IN
       tables' =
         CASE table = "elections" ->
                [tables EXCEPT !.elections = EmptyTables.elections]
           [] table = "incident_logs" -> [tables EXCEPT !.resetIncidents = {}]
           [] OTHER ->
                [tables EXCEPT !.rows = {row \in @ : row.tx.event # table}]
  /\ indexer' = [indexer EXCEPT !.left = Tail(@)]
  /\ UNCHANGED <<chain, cursor, past>>

(* Mutant: the reset leaves no reason behind.                              *)
FinishResetQuietly ==
  /\ indexer.pc = "reset"
  /\ indexer.left = <<>>
  /\ cursor' = FreshCursor(indexer.genesis, FALSE)
  /\ indexer' = Started(indexer.then, indexer.genesis)
  /\ past' = [past EXCEPT !.reset = TRUE, !.unwitnessed = FALSE]
  /\ UNCHANGED <<chain, tables>>

FinishReset ==
  /\ indexer.pc = "reset"
  /\ indexer.left = <<>>
  /\ cursor' = FreshCursor(indexer.genesis, TRUE)
  /\ indexer' = Started(indexer.then, indexer.genesis)
  /\ past' = [past EXCEPT !.reset = TRUE, !.unwitnessed = FALSE]
  /\ UNCHANGED <<chain, tables>>

(* ensureEvidenceNotStale                                                  *)

(* Mutant: a cursor one past the head counts as ahead of it.               *)
AheadOfAnyHead(head) == cursor.next > head /\ cursor.next > startBlock

AheadOf(head) ==
  \/ cursor.next > head + 1 /\ cursor.next > startBlock
  \/ cursor.last # NULL /\ cursor.hash # NULL /\ cursor.last > head

ReadState ==
  /\ indexer.pc = "state"
  /\ LET genesis == indexer.genesis
         head == Len(chain) IN
       indexer' =
         IF AheadOf(head) THEN Resetting(genesis, "startup")
         ELSE IF cursor.last # NULL /\ cursor.hash # NULL THEN Started("check", genesis)
         ELSE IF cursor.next > startBlock
              THEN [pc |-> "canary", genesis |-> genesis, head |-> head]
         ELSE Started("startup", genesis)
  /\ UNCHANGED <<chain, tables, cursor, past>>

(* Mutant: a block at that height is enough.                               *)
HashMatchesAnyBlock == cursor.last \in DOMAIN chain

HashMatches == cursor.last \in DOMAIN chain /\ chain[cursor.last].hash = cursor.hash

CheckHash ==
  /\ indexer.pc = "check"
  /\ indexer' = IF HashMatches THEN Started("startup", indexer.genesis)
                               ELSE Resetting(indexer.genesis, "startup")
  /\ UNCHANGED <<chain, tables, cursor, past>>

(* pickCanaryTx: the latest row of the tables it looks at.                 *)
Watched == {row \in tables.rows : row.tx.event # "TallyTranscriptCommitmentPublished"}
Canary(row) == row \in Watched /\ \A other \in Watched : other.block <= row.block

CheckCanary ==
  /\ indexer.pc = "canary"
  /\ LET found(row) == row.block \in DOMAIN chain /\ chain[row.block].tx = row.tx
         fill == [indexer EXCEPT !.pc = "fill"] IN
       \/ Watched = {} /\ indexer' = fill
       \/ \E row \in tables.rows :
            /\ Canary(row)
            /\ indexer' = IF found(row) THEN fill
                                        ELSE Resetting(indexer.genesis, "startup")
  /\ UNCHANGED <<chain, tables, cursor, past>>

(* The hash of the block before the cursor is filled in.                   *)
FillHash ==
  /\ indexer.pc = "fill"
  /\ LET candidate == cursor.next - 1 IN
       cursor' = IF candidate <= indexer.head /\ candidate \in DOMAIN chain
                 THEN [cursor EXCEPT !.last = candidate, !.hash = chain[candidate].hash]
                 ELSE cursor
  /\ indexer' = Started("startup", indexer.genesis)
  /\ UNCHANGED <<chain, tables, past>>

-----------------------------------------------------------------------------
(* materializePendingIndexerResetIncidents, at the start and after every   *)
(* batch that touched an election.                                         *)
StoredElections == {e \in Elections : tables.elections[e] # Absent}

Pending == cursor.resetReason /\ StoredElections # {}

MaterializePendingIndexerResetIncidents ==
  /\ indexer.pc \in {"startup", "refresh"}
  /\ IF Pending
     THEN /\ tables' = [tables EXCEPT !.resetIncidents = @ \cup StoredElections]
          /\ indexer' = [pc |-> "clear"]
     ELSE UNCHANGED tables /\ indexer' = [pc |-> "poll"]
  /\ UNCHANGED <<chain, cursor, past>>

ClearResetReason ==
  /\ indexer.pc = "clear"
  /\ cursor' = [cursor EXCEPT !.resetReason = FALSE]
  /\ indexer' = [pc |-> "poll"]
  /\ UNCHANGED <<chain, tables, past>>

-----------------------------------------------------------------------------
(* The loop                                                                *)

LargerOf(a, b) == IF a < b THEN b ELSE a
SmallerOf(a, b) == IF a < b THEN a ELSE b

(* Mutant: blocks are indexed as they come.                                *)
TargetUnconfirmed == Len(chain)

target == LargerOf(startBlock, Len(chain) - CONFIRMATIONS)

Wait ==
  /\ indexer.pc = "poll"
  /\ cursor.next > target
  /\ UNCHANGED vars

Poll ==
  /\ indexer.pc = "poll"
  /\ cursor.next <= target
  /\ indexer' = [pc |-> "logs", to |-> SmallerOf(target, cursor.next + BATCH_SIZE - 1)]
  /\ UNCHANGED <<chain, tables, cursor, past>>

(* The logs of the blocks from..to that the chain has: for each block, its *)
(* transaction or none.                                                    *)
LogsIn(from, to) ==
  [i \in 1 .. SmallerOf(to, Len(chain)) - from + 1 |->
     [tx |-> chain[from + i - 1].tx, block |-> from + i - 1]]

GetLogs ==
  /\ indexer.pc = "logs"
  /\ indexer' = [pc |-> "store", to |-> indexer.to,
                 logs |-> LogsIn(cursor.next, indexer.to)]
  /\ UNCHANGED <<chain, tables, cursor, past>>

(* ON CONFLICT DO NOTHING: a row is known by its transaction.              *)
Inserted(rows, row) ==
  IF \E old \in rows : old.tx = row.tx THEN rows ELSE rows \cup {row}

Apply(db, row) ==
  LET e == row.tx.election
      stored == db.elections[e] IN
  CASE row.tx.event = "ElectionCreated" ->
         IF stored # Absent THEN db
         ELSE [db EXCEPT !.elections[e] = [phase |-> 0, block |-> row.block]]
    [] row.tx.event = "PhaseChanged" ->
         [db EXCEPT !.rows = Inserted(@, row),
                    !.elections[e] = IF stored = Absent THEN Absent
                                     ELSE [stored EXCEPT !.phase = row.tx.newPhase]]
    [] OTHER -> [db EXCEPT !.rows = Inserted(@, row)]

(* The tables before the first block of some logs, and after each of them. *)
TablesAfter(db, logs) ==
  LET after[i \in 0 .. Len(logs)] ==
        IF i = 0 THEN db
        ELSE IF logs[i].tx = NoTx THEN after[i - 1]
        ELSE Apply(after[i - 1], logs[i])
  IN after
Replay(db, logs) == TablesAfter(db, logs)[Len(logs)]

Holds(logs) == \E i \in DOMAIN logs : logs[i].tx # NoTx

(* One transaction of the database for the whole batch.                    *)
StoreLogs ==
  /\ indexer.pc = "store"
  /\ tables' = Replay(tables, indexer.logs)
  /\ indexer' = [pc |-> "hash", to |-> indexer.to, touched |-> Holds(indexer.logs)]
  /\ UNCHANGED <<chain, cursor, past>>

(* The hash of the last block is asked for after its logs were stored.     *)
GetIndexedBlock ==
  /\ indexer.pc = "hash"
  /\ LET found == indexer.to \in DOMAIN chain IN
       /\ indexer' = [pc |-> "cursor", to |-> indexer.to, touched |-> indexer.touched,
                      hash |-> IF found THEN chain[indexer.to].hash ELSE NULL]
       /\ past' = [past EXCEPT !.unwitnessed = @ \/ ~found]
  /\ UNCHANGED <<chain, tables, cursor>>

(* Mutant: the cursor moves by a whole batch, though the head cut it short. *)
SetNextBlockByBatch ==
  /\ indexer.pc = "cursor"
  /\ cursor' = [cursor EXCEPT !.next = @ + BATCH_SIZE, !.last = indexer.to,
                              !.hash = indexer.hash]
  /\ indexer' = [pc |-> IF indexer.touched THEN "refresh" ELSE "poll"]
  /\ past' = [past EXCEPT !.unwitnessed = @ \/ past.rewrittenSinceStart]
  /\ UNCHANGED <<chain, tables>>

(* The hash of the block before is overwritten: with it goes the witness   *)
(* of a rewrite below it that happened since the start.                    *)
SetNextBlock ==
  /\ indexer.pc = "cursor"
  /\ cursor' = [cursor EXCEPT !.next = indexer.to + 1, !.last = indexer.to,
                              !.hash = indexer.hash]
  /\ indexer' = [pc |-> IF indexer.touched THEN "refresh" ELSE "poll"]
  /\ past' = [past EXCEPT !.unwitnessed = @ \/ past.rewrittenSinceStart]
  /\ UNCHANGED <<chain, tables>>

-----------------------------------------------------------------------------
Crash ==
  /\ indexer # Down
  /\ past.crashes < MaxCrashes
  /\ indexer' = Down
  /\ past' = [past EXCEPT !.crashes = @ + 1]
  /\ UNCHANGED <<chain, tables, cursor>>

ResetStep == DeleteNext \/ FinishReset
StartStep ==
  \/ Boot \/ GetOrInitNextBlock \/ ReadState \/ CheckHash \/ CheckCanary \/ FillHash
  \/ ResetStep
LoopStep ==
  \/ MaterializePendingIndexerResetIncidents \/ ClearResetReason
  \/ Wait \/ Poll \/ GetLogs \/ StoreLogs \/ GetIndexedBlock \/ SetNextBlock

Next ==
  \/ ProduceBlock
  \/ \E keep \in 0 .. Len(chain) - 1 : Rewrite(keep)
  \/ StartStep
  \/ LoopStep
  \/ Crash

Safety == Init /\ [][Next]_vars

(* The process runs, and is started again when it died.  The chain owes    *)
(* nothing: it may stop.                                                   *)
Spec == Safety /\ WF_vars(StartStep \/ LoopStep)

-----------------------------------------------------------------------------
(* Properties                                                              *)

LoopPcs == {"startup", "clear", "poll", "logs", "store", "hash", "cursor", "refresh"}

(* The tables as they are when the first n blocks of the chain are indexed *)
(* into an empty database.                                                 *)
EvidenceOf(n) == Replay(EmptyTables, LogsIn(1, n))
Indexed == cursor.next - 1 .. Len(chain)

(* The evidence is what the chain says: every row of the event tables, and *)
(* every election with its phase, comes from the canonical chain, up to    *)
(* the cursor at least.  (All of them may be ahead of the cursor, and not  *)
(* by the same blocks: a batch stored just before the process died is      *)
(* stored again, and the confirmed head may have moved back in between, so *)
(* that one election is set back to an earlier phase and another is not.)  *)
Truthful ==
  /\ \E n \in Indexed : tables.rows = EvidenceOf(n).rows
  /\ \A e \in Elections : \E n \in Indexed :
       tables.elections[e] = EvidenceOf(n).elections[e]

(* However the process dies between storing a batch and moving the cursor  *)
(* (index.ts:1641-1851), and however the unconfirmed end of the chain is   *)
(* rewritten, nothing is lost, doubled or made up.                         *)
CursorIsTruthful ==
  ~past.finalityBroken /\ cursor # NoCursor => Truthful

(* Evidence is never thrown away (ensureEvidenceNotStale, index.ts:64)     *)
(* because of a rewrite that CONFIRMATIONS is meant to hide, of a short    *)
(* chain or of a restart.                                                  *)
NeverFalselyReset ==
  ~past.finalityBroken => indexer.pc # "reset" /\ ~past.reset

(* A start that gets to its loop leaves no evidence of blocks the chain    *)
(* dropped, whenever they were dropped and wherever the process died,      *)
(* resets included; but for a block dropped before the stored hash covered *)
(* it, or whose hash was overwritten by a later one of the new chain       *)
(* before the start.                                                       *)
StartFindsDivergence ==
  indexer.pc \in LoopPcs /\ ~past.rewrittenSinceStart /\ ~past.unwitnessed => Truthful

(* Whoever reads evidence that was once thrown away finds the incident     *)
(* INDEXER_EVIDENCE_RESET (index.ts:1499): it survives a death between the *)
(* reset, the indexing of the first election and the upsert.               *)
ResetLeavesTrace ==
  indexer.pc = "poll" /\ past.reset /\ ~past.unwitnessed /\ StoredElections # {} =>
    tables.resetIncidents # {} /\ ~cursor.resetReason

Settled(tx) == \E b \in 1 .. target : b \in DOMAIN chain /\ chain[b].tx = tx
Stored(tx) ==
  IF tx.event = "ElectionCreated" THEN tables.elections[tx.election] # Absent
                                  ELSE \E row \in tables.rows : row.tx = tx

(* An event whose block has, and keeps, its confirmations ends up in the   *)
(* tables, deaths and rewrites of younger blocks notwithstanding.          *)
CatchesUp ==
  \A tx \in Txs : <>[]Settled(tx) => <>(Stored(tx) \/ past.finalityBroken)
=============================================================================
