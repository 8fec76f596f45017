----------------------- MODULE EvidenceIndexerProofs -----------------------
(***************************************************************************)
(* Proofs about EvidenceIndexer, with any number of blocks, confirmations  *)
(* and deaths.  First (IInv): evidence is not thrown away unless a         *)
(* confirmed block was.  Then (DataInv): the tables hold what the          *)
(* canonical chain says as long as no block was dropped unwitnessed,       *)
(* start-up finds a chain that diverged, and a reset is traced.  A fold    *)
(* over the logs of a chain is reasoned about by induction over its        *)
(* length, with InductionLemmas.                                           *)
(***************************************************************************)
EXTENDS EvidenceIndexer, InductionLemmas, SequenceTheorems, TLAPS

Blocks == [hash : Nat \ {0}, tx : Txs \cup {NoTx}]
Pasts == [blocks : Nat, rewrites : Nat, crashes : Nat, height : Nat,
          finalityBroken : BOOLEAN, unwitnessed : BOOLEAN,
          rewrittenSinceStart : BOOLEAN, reset : BOOLEAN]
Cursors == [next : Nat, last : Nat, hash : Nat, genesis : Nat, resetReason : BOOLEAN]

(* The last block that has, or once had, its confirmations.                *)
ConfirmedAt(height) == LargerOf(startBlock, height - CONFIRMATIONS)
Confirmed == ConfirmedAt(past.height)

(* The hash in indexer_state is that of the block before the cursor.       *)
CursorSound ==
  /\ cursor \in Cursors
  /\ cursor.genesis = chain[1].hash
  /\ cursor.next \in 1 .. Confirmed + 1
  /\ \/ cursor.next = 1 /\ cursor.last = NULL
     \/ /\ cursor.next > 1 /\ cursor.last = cursor.next - 1
        /\ cursor.hash = chain[cursor.last].hash

(* What the process keeps in memory is still true of the chain.            *)
IndexerSound ==
  \/ indexer.pc = "down"
  \/ indexer.pc = "init" /\ indexer.genesis = chain[1].hash
  \/ /\ CursorSound
     /\ \/ indexer.pc = "state" /\ indexer.genesis = chain[1].hash
        \/ indexer.pc = "check" /\ cursor.last # NULL
        \/ indexer.pc \in {"startup", "clear", "poll", "refresh"}
        \/ indexer.pc \in {"logs", "store", "hash"} /\ indexer.to \in cursor.next .. Confirmed
        \/ /\ indexer.pc = "cursor" /\ indexer.to \in cursor.next .. Confirmed
           /\ indexer.hash = chain[indexer.to].hash

Sound ==
  /\ ~past.reset
  /\ Len(chain) \in Confirmed .. past.height
  /\ cursor = NoCursor \/ CursorSound
  /\ IndexerSound

ChainTypeOK == chain \in Seq(Blocks) /\ past \in Pasts

IInv == ChainTypeOK /\ (~past.finalityBroken => Sound)
-----------------------------------------------------------------------------
(* Types                                                                   *)

(* The larger of two numbers is one of them and no smaller than either.    *)
LEMMA LargerOfBounds ==
  ASSUME NEW a \in Int, NEW b \in Int
  PROVE  LargerOf(a, b) \in {a, b} /\ LargerOf(a, b) >= a /\ LargerOf(a, b) >= b
  BY DEF LargerOf

(* The smaller of two numbers is one of them and no larger than either.    *)
LEMMA SmallerOfBounds ==
  ASSUME NEW a \in Int, NEW b \in Int
  PROVE  SmallerOf(a, b) \in {a, b} /\ SmallerOf(a, b) =< a /\ SmallerOf(a, b) =< b
  BY DEF SmallerOf

(* A new block is a block.                                                 *)
LEMMA NewBlockType ==
  ASSUME ChainTypeOK, NEW tx \in Txs \cup {NoTx}
  PROVE  NewBlock(tx) \in Blocks
  <1>1. past.blocks \in Nat
    BY DEF ChainTypeOK, Pasts
  <1>2. past.blocks + 1 \in Nat \ {0}
    BY <1>1
  <1> QED
    BY <1>2 DEF NewBlock, Blocks

(* The history keeps its type whichever of its fields an action sets.      *)
LEMMA PastUpdates ==
  ASSUME NEW p \in Pasts, NEW n \in Nat, NEW m \in Nat,
         NEW b \in BOOLEAN, NEW c \in BOOLEAN
  PROVE  /\ [p EXCEPT !.blocks = n, !.height = m] \in Pasts
         /\ [p EXCEPT !.blocks = n, !.rewrites = m, !.finalityBroken = b, !.unwitnessed = c,
                      !.rewrittenSinceStart = TRUE] \in Pasts
         /\ [p EXCEPT !.rewrittenSinceStart = FALSE] \in Pasts
         /\ [p EXCEPT !.reset = TRUE, !.unwitnessed = FALSE] \in Pasts
         /\ [p EXCEPT !.unwitnessed = c] \in Pasts
         /\ [p EXCEPT !.crashes = n] \in Pasts
  <1>1. [p EXCEPT !.blocks = n, !.height = m] \in Pasts
    BY DEF Pasts
  <1>2. [p EXCEPT !.blocks = n, !.rewrites = m, !.finalityBroken = b, !.unwitnessed = c,
                  !.rewrittenSinceStart = TRUE] \in Pasts
    BY DEF Pasts
  <1>3. /\ [p EXCEPT !.rewrittenSinceStart = FALSE] \in Pasts
        /\ [p EXCEPT !.unwitnessed = c] \in Pasts
        /\ [p EXCEPT !.crashes = n] \in Pasts
    BY DEF Pasts
  <1>4. [p EXCEPT !.reset = TRUE, !.unwitnessed = FALSE] \in Pasts
    BY DEF Pasts
  <1> QED
    BY <1>1, <1>2, <1>3, <1>4

(* The counters of the history are numbers.                                *)
LEMMA PastNumbers ==
  ASSUME ChainTypeOK
  PROVE  /\ past \in Pasts /\ Len(chain) \in Nat
         /\ past.height \in Nat /\ past.blocks + 1 \in Nat
         /\ past.rewrites + 1 \in Nat /\ past.crashes + 1 \in Nat
  <1>1. past \in Pasts /\ Len(chain) \in Nat
    BY DEF ChainTypeOK
  <1> QED
    BY <1>1 DEF Pasts

(* The chain and the history keep their types when a block is produced     *)
(* and when the chain is rewritten.                                        *)
LEMMA ChainStepTypes ==
  ASSUME ChainTypeOK, ProduceBlock \/ \E keep \in 0 .. Len(chain) - 1 : Rewrite(keep)
  PROVE  ChainTypeOK'
  <1>1. CASE ProduceBlock
    <2>1. PICK tx \in Txs \cup {NoTx} : chain' = Append(chain, NewBlock(tx))
      BY <1>1 DEF ProduceBlock
    <2>2. chain' \in Seq(Blocks)
      BY <2>1, NewBlockType DEF ChainTypeOK
    <2>3. past' \in Pasts
      <3>1. PICK h \in Nat, n \in Nat : past' = [past EXCEPT !.blocks = n, !.height = h]
        <4> DEFINE n == past.blocks + 1
                   h == IF Len(chain) < past.height THEN past.height ELSE Len(chain) + 1
        <4>1. n \in Nat /\ h \in Nat
          BY PastNumbers
        <4>2. past' = [past EXCEPT !.blocks = n, !.height = h]
          BY <1>1 DEF ProduceBlock
        <4> HIDE DEF n, h
        <4> QED
          BY <4>1, <4>2
      <3> QED
        BY <3>1, PastNumbers, PastUpdates
    <2> QED
      BY <2>2, <2>3 DEF ChainTypeOK
  <1>2. CASE \E keep \in 0 .. Len(chain) - 1 : Rewrite(keep)
    <2>1. PICK keep \in 0 .. Len(chain) - 1 : Rewrite(keep)
      BY <1>2
    <2>2. chain' \in Seq(Blocks)
      <3>1. CASE keep > 0 /\ chain' = SubSeq(chain, 1, keep)
        BY <3>1 DEF ChainTypeOK
      <3>2. CASE chain' = <<NewBlock(NoTx)>>
        BY <3>2, NewBlockType
      <3> QED
        BY <2>1, <3>1, <3>2 DEF Rewrite
    <2>3. past' \in Pasts
      <3>1. past \in Pasts
        BY DEF ChainTypeOK
      <3>2. PICK n \in Nat, m \in Nat, broken \in BOOLEAN, late \in BOOLEAN :
              past' = [past EXCEPT !.blocks = n, !.rewrites = m,
                                   !.finalityBroken = broken, !.unwitnessed = late,
                                   !.rewrittenSinceStart = TRUE]
        <4> DEFINE n == IF keep = 0 THEN past.blocks + 1 ELSE past.blocks
                   m == past.rewrites + 1
                   broken == past.finalityBroken \/ keep < past.height - CONFIRMATIONS
                               \/ keep = 0
                   late == past.unwitnessed \/ \E b \in keep + 1 .. Len(chain) :
                             b > cursor.last /\ (Fetched(b) \/ StoredAt(b))
        <4>1. past' = [past EXCEPT !.blocks = n, !.rewrites = m,
                                   !.finalityBroken = broken, !.unwitnessed = late,
                                   !.rewrittenSinceStart = TRUE]
          BY <2>1 DEF Rewrite
        <4>2. n \in Nat /\ m \in Nat
          BY PastNumbers DEF ChainTypeOK, Pasts
        <4>3. broken \in BOOLEAN /\ late \in BOOLEAN
          OBVIOUS
        <4> HIDE DEF n, m, broken, late
        <4> QED
          BY <4>1, <4>2, <4>3
      <3> QED
        BY <3>1, <3>2, PastUpdates
    <2> QED
      BY <2>2, <2>3 DEF ChainTypeOK
  <1> QED
    BY <1>1, <1>2

(* The process leaves the chain and the heights alone.                     *)
LEMMA ProcessSteps ==
  ASSUME ChainTypeOK, StartStep \/ LoopStep \/ Crash
  PROVE  /\ ChainTypeOK'
         /\ chain' = chain
         /\ past'.height = past.height
         /\ past'.finalityBroken = past.finalityBroken
  <1>1. chain' = chain
    BY DEF StartStep, LoopStep, ResetStep, Crash, Boot, GetOrInitNextBlock, ReadState,
           CheckHash, CheckCanary, FillHash, DeleteNext, FinishReset,
           MaterializePendingIndexerResetIncidents, ClearResetReason, Wait, Poll, GetLogs,
           StoreLogs, GetIndexedBlock, SetNextBlock, vars
  <1>2. \/ past' = past
        \/ past' = [past EXCEPT !.rewrittenSinceStart = FALSE]
        \/ past' = [past EXCEPT !.reset = TRUE, !.unwitnessed = FALSE]
        \/ \E late \in BOOLEAN : past' = [past EXCEPT !.unwitnessed = late]
        \/ past' = [past EXCEPT !.crashes = @ + 1]
    <2>1. CASE GetIndexedBlock
      <3> DEFINE late == past.unwitnessed \/ ~(indexer.to \in DOMAIN chain)
      <3>1. past' = [past EXCEPT !.unwitnessed = late]
        BY <2>1 DEF GetIndexedBlock
      <3>2. late \in BOOLEAN
        OBVIOUS
      <3> HIDE DEF late
      <3> QED
        BY <3>1, <3>2
    <2>2. CASE SetNextBlock
      <3> DEFINE late == past.unwitnessed \/ past.rewrittenSinceStart
      <3>1. past' = [past EXCEPT !.unwitnessed = late]
        BY <2>2 DEF SetNextBlock
      <3>2. late \in BOOLEAN
        OBVIOUS
      <3> HIDE DEF late
      <3> QED
        BY <3>1, <3>2
    <2>3. CASE ~GetIndexedBlock /\ ~SetNextBlock
      BY <2>3 DEF StartStep, LoopStep, ResetStep, Crash, Boot, GetOrInitNextBlock, ReadState,
           CheckHash, CheckCanary, FillHash, DeleteNext, FinishReset,
           MaterializePendingIndexerResetIncidents, ClearResetReason, Wait, Poll, GetLogs,
           StoreLogs, vars
    <2> QED
      BY <2>1, <2>2, <2>3
  <1>3. past \in Pasts
    BY DEF ChainTypeOK
  <1>4. past' \in Pasts
    BY <1>2, <1>3, PastUpdates, PastNumbers
  <1>5. past'.height = past.height /\ past'.finalityBroken = past.finalityBroken
    BY <1>2, <1>3 DEF Pasts
  <1> QED
    BY <1>1, <1>4, <1>5 DEF ChainTypeOK

-----------------------------------------------------------------------------
(* The chain's steps                                                       *)

(* There is always a confirmed block: the genesis block.                   *)
LEMMA ConfirmedIsBlock ==
  ASSUME NEW height \in Nat
  PROVE  /\ ConfirmedAt(height) \in Nat /\ ConfirmedAt(height) >= 1
         /\ ConfirmedAt(height) >= height - CONFIRMATIONS
         /\ ConfirmedAt(height) \in {1, height - CONFIRMATIONS}
  <1>1. height - CONFIRMATIONS \in Int
    BY IndexerConfigAssumption
  <1> QED
    BY <1>1, LargerOfBounds DEF ConfirmedAt, startBlock

(* The same, of the height reached so far and of the next.                 *)
LEMMA ConfirmedNow ==
  ASSUME ChainTypeOK, ChainTypeOK'
  PROVE  /\ Confirmed \in Nat /\ Confirmed >= 1
         /\ Confirmed \in {1, past.height - CONFIRMATIONS}
         /\ Confirmed >= past.height - CONFIRMATIONS
         /\ Confirmed' \in Nat /\ Confirmed' >= 1
         /\ Confirmed' \in {1, past'.height - CONFIRMATIONS}
         /\ Confirmed' >= past'.height - CONFIRMATIONS
         /\ past'.height \in Nat
  <1>1. past.height \in Nat /\ past'.height \in Nat
    BY DEF ChainTypeOK, Pasts
  <1> QED
    BY <1>1, ConfirmedIsBlock DEF Confirmed

(* What is sound stays sound as long as the confirmed blocks stay.         *)
LEMMA SoundWhileConfirmed ==
  ASSUME ChainTypeOK, ChainTypeOK', Sound,
         Confirmed' >= Confirmed,
         \A b \in 1 .. Confirmed : chain'[b] = chain[b],
         Len(chain') \in Confirmed' .. past'.height,
         past'.reset = past.reset, UNCHANGED <<cursor, indexer>>
  PROVE  Sound'
  <1>1. Confirmed \in Nat /\ Confirmed >= 1 /\ Confirmed' \in Nat
    BY ConfirmedNow
  <1>2. chain'[1] = chain[1]
    BY <1>1
  <1>3. CursorSound => CursorSound'
    BY <1>1, <1>2 DEF CursorSound, Cursors
  <1>4. IndexerSound'
    <2>1. ASSUME CursorSound, indexer.to \in cursor.next .. Confirmed
          PROVE  indexer.to \in cursor.next .. Confirmed' /\ chain'[indexer.to] = chain[indexer.to]
      BY <2>1, <1>1 DEF CursorSound, Cursors
    <2>2. CASE indexer.pc \in {"down", "init"}
      BY <1>2, <2>2 DEF Sound, IndexerSound
    <2>3. CASE CursorSound /\ indexer.pc \in {"state", "check", "startup", "clear", "poll", "refresh"}
      BY <1>2, <1>3, <2>3 DEF Sound, IndexerSound
    <2>4. CASE /\ CursorSound /\ indexer.to \in cursor.next .. Confirmed
               /\ indexer.pc \in {"logs", "store", "hash", "cursor"}
      <3>1. indexer.pc = "cursor" => indexer.hash = chain[indexer.to].hash
        BY <2>4 DEF Sound, IndexerSound
      <3> QED
        BY <1>3, <2>1, <2>4, <3>1 DEF IndexerSound
    <2> QED
      BY <2>2, <2>3, <2>4 DEF Sound, IndexerSound
  <1> QED
    BY <1>3, <1>4 DEF Sound

(* A block on top changes nothing that is confirmed.                       *)
LEMMA ProduceSound ==
  ASSUME ChainTypeOK, ChainTypeOK', Sound, ProduceBlock
  PROVE  Sound'
  <1>1. PICK tx \in Txs \cup {NoTx} : chain' = Append(chain, NewBlock(tx))
    BY DEF ProduceBlock
  <1>2. chain \in Seq(Blocks) /\ NewBlock(tx) \in Blocks
    BY NewBlockType DEF ChainTypeOK
  <1>3. /\ Len(chain') = Len(chain) + 1
        /\ \A b \in 1 .. Len(chain) : chain'[b] = chain[b]
    BY <1>1, <1>2
  <1>4. /\ past'.height = IF Len(chain) < past.height THEN past.height ELSE Len(chain) + 1
        /\ past'.reset = past.reset
    <2> DEFINE n == past.blocks + 1
               h == IF Len(chain) < past.height THEN past.height ELSE Len(chain) + 1
    <2>1. past' = [past EXCEPT !.blocks = n, !.height = h]
      BY DEF ProduceBlock
    <2>2. past \in Pasts
      BY PastNumbers
    <2> HIDE DEF n, h
    <2>3. past'.height = h /\ past'.reset = past.reset
      BY <2>1, <2>2 DEF Pasts
    <2> QED
      BY <2>3 DEF h
  <1>5. Confirmed \in Nat /\ Confirmed' \in {1, past'.height - CONFIRMATIONS}
        /\ Confirmed' \in Nat /\ Confirmed >= 1
        /\ Confirmed' >= 1 /\ Confirmed' >= past'.height - CONFIRMATIONS
        /\ Confirmed \in {1, past.height - CONFIRMATIONS}
        /\ Confirmed >= past.height - CONFIRMATIONS
    BY ConfirmedNow
  <1>6. Len(chain) \in Confirmed .. past.height /\ Len(chain) \in Nat /\ past.height \in Nat
        /\ CONFIRMATIONS \in Nat
    BY PastNumbers, IndexerConfigAssumption DEF Sound
  <1>7. Confirmed' >= Confirmed /\ Len(chain') \in Confirmed' .. past'.height
    <2> DEFINE C == Confirmed
               D == Confirmed'
               h == past.height
               g == past'.height
               len == Len(chain)
    <2>1. /\ C \in Nat /\ D \in Nat /\ h \in Nat /\ len \in Nat /\ CONFIRMATIONS \in Nat
          /\ C >= h - CONFIRMATIONS /\ C \in {1, h - CONFIRMATIONS} /\ D \in {1, g - CONFIRMATIONS}
          /\ D >= 1 /\ D >= g - CONFIRMATIONS /\ C =< len /\ len =< h /\ C >= 1
      BY <1>5, <1>6
    <2>2. g = IF len < h THEN h ELSE len + 1
      BY <1>4
    <2>3. Len(chain') = len + 1
      BY <1>3
    <2> HIDE DEF C, D, h, g, len
    <2>4. D >= C /\ D =< len + 1 /\ len + 1 =< g
      BY <2>1, <2>2
    <2> QED
      BY <2>1, <2>2, <2>3, <2>4 DEF C, D, g
  <1>8. \A b \in 1 .. Confirmed : chain'[b] = chain[b]
    BY <1>3, <1>5, <1>6
  <1> QED
    BY <1>4, <1>7, <1>8, SoundWhileConfirmed DEF ProduceBlock

(* Nor does a rewrite that keeps the confirmed blocks.                     *)
LEMMA RewriteSound ==
  ASSUME ChainTypeOK, ChainTypeOK', Sound, NEW keep \in 0 .. Len(chain) - 1,
         Rewrite(keep), ~past'.finalityBroken
  PROVE  Sound'
  <1>1. /\ past'.height = past.height /\ past'.reset = past.reset
        /\ past'.finalityBroken =
             (past.finalityBroken \/ keep < past.height - CONFIRMATIONS \/ keep = 0)
    <2> DEFINE n == IF keep = 0 THEN past.blocks + 1 ELSE past.blocks
               broken == past.finalityBroken \/ keep < past.height - CONFIRMATIONS
                           \/ keep = 0
               late == past.unwitnessed \/ \E b \in keep + 1 .. Len(chain) :
                         b > cursor.last /\ (Fetched(b) \/ StoredAt(b))
    <2>1. past' = [past EXCEPT !.blocks = n, !.rewrites = @ + 1,
                               !.finalityBroken = broken, !.unwitnessed = late,
                               !.rewrittenSinceStart = TRUE]
      BY DEF Rewrite
    <2>2. past \in Pasts
      BY PastNumbers
    <2> HIDE DEF n, broken, late
    <2>3. /\ past'.height = past.height /\ past'.reset = past.reset
          /\ past'.finalityBroken = broken
      BY <2>1, <2>2 DEF Pasts
    <2> QED
      BY <2>3 DEF broken
  <1>2. keep > 0 /\ ~(keep < past.height - CONFIRMATIONS)
    <2>1. keep # 0 /\ ~(keep < past.height - CONFIRMATIONS)
      BY <1>1, Zenon
    <2> QED
      BY <2>1
  <1>3. chain' = SubSeq(chain, 1, keep)
    BY <1>2 DEF Rewrite
  <1>4. Len(chain') = keep /\ \A b \in 1 .. keep : chain'[b] = chain[b]
    BY <1>2, <1>3, PastNumbers DEF ChainTypeOK
  <1>5. /\ Confirmed \in Nat /\ Confirmed >= 1 /\ Confirmed \in {1, past.height - CONFIRMATIONS}
        /\ Confirmed' = Confirmed
    BY <1>1, ConfirmedNow DEF Confirmed
  <1>6. Len(chain) \in Confirmed .. past.height /\ past.height \in Nat
        /\ CONFIRMATIONS \in Nat /\ Len(chain) \in Nat
    BY PastNumbers, IndexerConfigAssumption DEF Sound
  <1>7. keep >= Confirmed /\ keep =< past.height
    BY <1>2, <1>5, <1>6
  <1>8. /\ \A b \in 1 .. Confirmed : chain'[b] = chain[b]
        /\ Len(chain') \in Confirmed' .. past'.height /\ Confirmed' >= Confirmed
    BY <1>1, <1>4, <1>5, <1>6, <1>7
  <1> QED
    BY <1>1, <1>8, SoundWhileConfirmed DEF Rewrite

-----------------------------------------------------------------------------
(* The process's steps                                                     *)

(* No reset finishes while the process is not resetting.                   *)
LEMMA NoResetFinished ==
  ASSUME ChainTypeOK, StartStep \/ LoopStep \/ Crash, indexer.pc # "reset"
  PROVE  past'.reset = past.reset
  <1>1. past \in Pasts
    BY PastNumbers
  <1>2. CASE GetIndexedBlock
    <2> DEFINE late == past.unwitnessed \/ ~(indexer.to \in DOMAIN chain)
    <2>1. past' = [past EXCEPT !.unwitnessed = late]
      BY <1>2 DEF GetIndexedBlock
    <2> HIDE DEF late
    <2> QED
      BY <1>1, <2>1 DEF Pasts
  <1>3. CASE SetNextBlock
    <2> DEFINE late == past.unwitnessed \/ past.rewrittenSinceStart
    <2>1. past' = [past EXCEPT !.unwitnessed = late]
      BY <1>3 DEF SetNextBlock
    <2> HIDE DEF late
    <2> QED
      BY <1>1, <2>1 DEF Pasts
  <1>4. CASE Boot \/ Crash
    <2>1. \/ past' = [past EXCEPT !.rewrittenSinceStart = FALSE]
          \/ past' = [past EXCEPT !.crashes = @ + 1]
      BY <1>4 DEF Boot, Crash
    <2> QED
      BY <1>1, <2>1 DEF Pasts
  <1>5. CASE ~GetIndexedBlock /\ ~SetNextBlock /\ ~Boot /\ ~Crash
    <2>1. past' = past
      BY <1>5 DEF StartStep, LoopStep, ResetStep, GetOrInitNextBlock, ReadState,
           CheckHash, CheckCanary, FillHash, DeleteNext, FinishReset,
           MaterializePendingIndexerResetIncidents, ClearResetReason, Wait, Poll, GetLogs,
           StoreLogs, vars
    <2> QED
      BY <2>1
  <1> QED
    BY <1>2, <1>3, <1>4, <1>5

(* The hash in indexer_state is the chain's, or there is none yet: the     *)
(* checks at the start find nothing to object to.                          *)
LEMMA ChecksPass ==
  ASSUME ChainTypeOK, Sound, CursorSound
  PROVE  /\ ~AheadOf(Len(chain))
         /\ cursor.last # NULL => HashMatches /\ cursor.hash # NULL
         /\ cursor.last = NULL => cursor.next = 1
  <1>1. /\ Len(chain) \in Nat /\ Confirmed \in Nat
        /\ Confirmed =< Len(chain)
    <2>1. Confirmed \in Nat /\ Len(chain) \in Nat /\ past.height \in Nat
      BY PastNumbers, ConfirmedIsBlock DEF Confirmed
    <2>2. Len(chain) \in Confirmed .. past.height
      BY DEF Sound
    <2> QED
      BY <2>1, <2>2
  <1>2. cursor.next \in Nat /\ cursor.last \in Nat
    BY DEF CursorSound, Cursors
  <1>3. cursor.next =< Confirmed + 1 /\ cursor.next >= 1
    BY <1>1 DEF CursorSound
  <1>4. \/ cursor.next = 1 /\ cursor.last = NULL
        \/ /\ cursor.next > 1 /\ cursor.last = cursor.next - 1
           /\ cursor.hash = chain[cursor.last].hash
    BY DEF CursorSound
  <1>5. ASSUME cursor.last # NULL
        PROVE  HashMatches /\ cursor.hash # NULL
    <2>1. cursor.last \in 1 .. Len(chain) /\ cursor.hash = chain[cursor.last].hash
      BY <1>1, <1>2, <1>3, <1>4, <1>5 DEF NULL
    <2>2. cursor.last \in DOMAIN chain /\ chain[cursor.last] \in Blocks
      <3>1. chain \in Seq(Blocks)
        BY DEF ChainTypeOK
      <3> QED
        BY <2>1, <3>1
    <2>3. chain[cursor.last].hash # 0
      BY <2>2 DEF Blocks
    <2> QED
      BY <2>1, <2>2, <2>3 DEF HashMatches, NULL
  <1>6. cursor.last = NULL => cursor.next = 1
    BY <1>2, <1>4 DEF NULL
  <1>7. cursor.last =< Len(chain)
    BY <1>1, <1>2, <1>3, <1>4 DEF NULL
  <1>8. ~AheadOf(Len(chain))
    BY <1>1, <1>2, <1>3, <1>7 DEF AheadOf, NULL, startBlock
  <1> QED
    BY <1>5, <1>6, <1>8

(* Up to its loop, the process resets nothing.                             *)
LEMMA StartSound ==
  ASSUME ChainTypeOK, Sound, StartStep \/ Crash, chain' = chain, Confirmed' = Confirmed,
         past'.height = past.height, past'.reset = past.reset
  PROVE  Sound'
  <1>1. Len(chain') \in Confirmed' .. past'.height /\ ~past'.reset
    BY DEF Sound
  <1>2. CASE Boot
    <2>1. indexer'.pc = "init" /\ indexer'.genesis = chain'[1].hash /\ cursor' = cursor
      BY <1>2 DEF Boot, Started
    <2> QED
      BY <1>1, <2>1 DEF Sound, IndexerSound, CursorSound
  <1>3. CASE GetOrInitNextBlock
    <2>1. indexer.pc = "init" /\ indexer.genesis = chain[1].hash
      BY <1>3 DEF GetOrInitNextBlock, Sound, IndexerSound
    <2>2. CASE cursor = NoCursor
      <3>1. cursor' = FreshCursor(indexer.genesis, FALSE) /\ indexer' = Started("state", indexer.genesis)
        BY <1>3, <2>2 DEF GetOrInitNextBlock
      <3>2. chain[1].hash \in Nat /\ Confirmed \in Nat
        <4>1. Confirmed \in Nat /\ Confirmed >= 1 /\ Len(chain) \in Nat /\ chain \in Seq(Blocks)
          BY PastNumbers, ConfirmedIsBlock DEF Confirmed, ChainTypeOK
        <4>2. Len(chain) >= Confirmed
          BY <4>1, PastNumbers DEF Sound
        <4>3. chain[1] \in Blocks
          BY <4>1, <4>2
        <4> QED
          BY <4>1, <4>3 DEF Blocks
      <3>3. CursorSound'
        BY <2>1, <3>1, <3>2 DEF CursorSound, FreshCursor, Cursors, startBlock, NULL
      <3> QED
        BY <1>1, <2>1, <3>1, <3>3 DEF Sound, IndexerSound, Started
    <2>3. CASE cursor # NoCursor
      <3>1. CursorSound /\ cursor.genesis = indexer.genesis
        BY <2>1, <2>3 DEF Sound, CursorSound
      <3>2. cursor' = cursor /\ indexer' = Started("state", indexer.genesis)
        BY <1>3, <2>3, <3>1 DEF GetOrInitNextBlock
      <3>3. CursorSound'
        BY <3>1, <3>2 DEF CursorSound
      <3> QED
        BY <1>1, <2>1, <3>2, <3>3 DEF Sound, IndexerSound, Started
    <2> QED
      BY <2>2, <2>3
  <1>4. CASE ReadState
    <2>1. indexer.pc = "state" /\ indexer.genesis = chain[1].hash /\ CursorSound
      BY <1>4 DEF ReadState, Sound, IndexerSound
    <2>2. cursor' = cursor
      BY <1>4 DEF ReadState
    <2>3. CursorSound'
      BY <2>1, <2>2 DEF CursorSound
    <2>4. \/ indexer'.pc = "check" /\ cursor'.last # NULL
          \/ indexer'.pc = "startup"
      BY <1>4, <2>1, <2>2, ChecksPass DEF ReadState, Started, startBlock
    <2> QED
      BY <1>1, <2>3, <2>4 DEF Sound, IndexerSound
  <1>5. CASE CheckHash
    <2>1. CursorSound /\ cursor.last # NULL
      BY <1>5 DEF CheckHash, Sound, IndexerSound
    <2>2. cursor' = cursor /\ indexer'.pc = "startup"
      BY <1>5, <2>1, ChecksPass DEF CheckHash, Started
    <2>3. CursorSound'
      BY <2>1, <2>2 DEF CursorSound
    <2> QED
      BY <1>1, <2>2, <2>3 DEF Sound, IndexerSound
  <1>6. CASE CheckCanary \/ FillHash \/ ResetStep
    BY <1>6 DEF CheckCanary, FillHash, ResetStep, DeleteNext, FinishReset, Sound, IndexerSound
  <1>7. CASE Crash
    BY <1>1, <1>7 DEF Crash, Down, Sound, IndexerSound, CursorSound
  <1> QED
    BY <1>2, <1>3, <1>4, <1>5, <1>6, <1>7 DEF StartStep

(* The row of indexer_state keeps its type.                                *)
LEMMA CursorUpdate ==
  ASSUME NEW c \in Cursors, NEW n \in Nat, NEW l \in Nat, NEW h \in Nat
  PROVE  [c EXCEPT !.next = n, !.last = l, !.hash = h] \in Cursors
  BY DEF Cursors

(* What the process takes in is confirmed, and the hash it stores is the   *)
(* confirmed block's.                                                      *)
LEMMA LoopSound ==
  ASSUME ChainTypeOK, Sound, LoopStep, chain' = chain, Confirmed' = Confirmed,
         past'.height = past.height, past'.reset = past.reset
  PROVE  Sound'
  <1>1. Len(chain') \in Confirmed' .. past'.height /\ ~past'.reset
    BY DEF Sound
  <1>2. /\ Confirmed \in Nat /\ Confirmed >= 1 /\ Confirmed >= past.height - CONFIRMATIONS
        /\ Len(chain) \in Nat /\ past.height \in Nat /\ CONFIRMATIONS \in Nat
        /\ BATCH_SIZE \in Nat \ {0}
    BY PastNumbers, ConfirmedIsBlock, IndexerConfigAssumption DEF Confirmed
  <1>3. Confirmed =< Len(chain) /\ Len(chain) =< past.height
    BY <1>2 DEF Sound
  <1>4. CASE MaterializePendingIndexerResetIncidents
    <2>1. CursorSound /\ cursor' = cursor /\ indexer'.pc \in {"clear", "poll"}
      BY <1>4 DEF MaterializePendingIndexerResetIncidents, Sound, IndexerSound
    <2>2. CursorSound'
      BY <2>1 DEF CursorSound
    <2> QED
      BY <1>1, <2>1, <2>2 DEF Sound, IndexerSound
  <1>5. CASE ClearResetReason
    <2>1. CursorSound /\ indexer'.pc = "poll" /\ cursor' = [cursor EXCEPT !.resetReason = FALSE]
      BY <1>5 DEF ClearResetReason, Sound, IndexerSound
    <2>2. CursorSound'
      BY <2>1 DEF CursorSound, Cursors
    <2> QED
      BY <1>1, <2>1, <2>2 DEF Sound, IndexerSound
  <1>6. CASE Wait
    BY <1>1, <1>6 DEF Wait, vars, Sound, IndexerSound, CursorSound
  <1>7. CASE Poll
    <2>1. CursorSound /\ cursor' = cursor /\ cursor.next =< target
      BY <1>7 DEF Poll, Sound, IndexerSound
    <2>2. indexer' = [pc |-> "logs", to |-> SmallerOf(target, cursor.next + BATCH_SIZE - 1)]
      BY <1>7 DEF Poll
    <2>3. target \in {1, Len(chain) - CONFIRMATIONS} /\ target \in Int
      BY <1>2, LargerOfBounds DEF target, startBlock
    <2>4. target =< Confirmed
      BY <1>2, <1>3, <2>3
    <2>5. cursor.next \in Nat
      BY <2>1 DEF CursorSound, Cursors
    <2>6. cursor.next + BATCH_SIZE - 1 \in Int /\ cursor.next + BATCH_SIZE - 1 >= cursor.next
      BY <1>2, <2>5
    <2>7. indexer'.to \in cursor.next .. Confirmed
      <3>1. PICK to, full : to = target /\ full = cursor.next + BATCH_SIZE - 1
        OBVIOUS
      <3>2. to \in Int /\ full \in Int /\ cursor.next =< to /\ cursor.next =< full
        BY <2>1, <2>3, <2>6, <3>1
      <3>3. /\ SmallerOf(to, full) \in Int /\ SmallerOf(to, full) =< to
            /\ cursor.next =< SmallerOf(to, full)
        BY <2>5, <3>2 DEF SmallerOf
      <3>4. indexer'.to = SmallerOf(to, full)
        BY <2>2, <3>1
      <3>5. Confirmed \in Int /\ to =< Confirmed
        BY <1>2, <2>4, <3>1
      <3>6. QED
        BY <2>5, <3>2, <3>3, <3>4, <3>5
    <2>8. CursorSound'
      BY <2>1 DEF CursorSound
    <2>9. indexer'.pc = "logs"
      BY <2>2
    <2> QED
      BY <1>1, <2>1, <2>7, <2>8, <2>9 DEF Sound, IndexerSound
  <1>8. CASE GetLogs \/ StoreLogs
    <2>1. /\ CursorSound /\ cursor' = cursor /\ indexer.to \in cursor.next .. Confirmed
          /\ indexer'.pc \in {"store", "hash"} /\ indexer'.to = indexer.to
      BY <1>8 DEF GetLogs, StoreLogs, Sound, IndexerSound
    <2>2. CursorSound'
      BY <2>1 DEF CursorSound
    <2> QED
      BY <1>1, <2>1, <2>2 DEF Sound, IndexerSound
  <1>9. CASE GetIndexedBlock
    <2>1. /\ CursorSound /\ cursor' = cursor /\ indexer.to \in cursor.next .. Confirmed
          /\ indexer'.pc = "cursor" /\ indexer'.to = indexer.to
      BY <1>9 DEF GetIndexedBlock, Sound, IndexerSound
    <2>2. CursorSound'
      BY <2>1 DEF CursorSound
    <2>3. cursor.next \in Nat /\ cursor.next >= 1
      BY <1>2, <2>1 DEF CursorSound, Cursors
    <2>4. indexer.to \in DOMAIN chain
      BY <1>2, <1>3, <2>1, <2>3 DEF ChainTypeOK
    <2>5. indexer'.hash = chain[indexer.to].hash
      BY <1>9, <2>4 DEF GetIndexedBlock
    <2> QED
      BY <1>1, <2>1, <2>2, <2>5 DEF Sound, IndexerSound
  <1>10. CASE SetNextBlock
    <2>1. /\ CursorSound /\ indexer.to \in cursor.next .. Confirmed
          /\ indexer.hash = chain[indexer.to].hash
          /\ indexer'.pc \in {"refresh", "poll"}
          /\ cursor' = [cursor EXCEPT !.next = indexer.to + 1, !.last = indexer.to,
                                      !.hash = indexer.hash]
      BY <1>10 DEF SetNextBlock, Sound, IndexerSound
    <2>2. cursor.next \in Nat /\ cursor.next >= 1 /\ cursor \in Cursors
      BY <1>2, <2>1 DEF CursorSound, Cursors
    <2>3. indexer.to \in 1 .. Len(chain) /\ indexer.to \in Nat /\ indexer.to >= cursor.next
          /\ indexer.to =< Confirmed
      BY <1>2, <1>3, <2>1, <2>2
    <2>4. indexer.hash \in Nat
      <3>1. chain \in Seq(Blocks)
        BY DEF ChainTypeOK
      <3>2. chain[indexer.to] \in Blocks
        BY <2>3, <3>1
      <3> QED
        BY <2>1, <3>2 DEF Blocks
    <2>5. cursor' \in Cursors
      <3>1. indexer.to + 1 \in Nat /\ indexer.to \in Nat
        BY <2>3
      <3> QED
        BY <2>1, <2>2, <2>4, <3>1, CursorUpdate
    <2>6. /\ cursor'.next = indexer.to + 1 /\ cursor'.last = indexer.to
          /\ cursor'.hash = indexer.hash /\ cursor'.genesis = cursor.genesis
      BY <2>1, <2>2 DEF Cursors
    <2>7. CursorSound'
      <3>1. cursor'.next \in 1 .. Confirmed' + 1 /\ cursor'.next > 1
            /\ cursor'.last = cursor'.next - 1
        BY <1>2, <2>3, <2>6
      <3>2. cursor'.genesis = chain'[1].hash /\ cursor'.hash = chain'[cursor'.last].hash
        BY <2>1, <2>6 DEF CursorSound
      <3> QED
        BY <2>5, <3>1, <3>2 DEF CursorSound
    <2> QED
      BY <1>1, <2>1, <2>7 DEF Sound, IndexerSound
  <1> QED
    BY <1>4, <1>5, <1>6, <1>7, <1>8, <1>9, <1>10 DEF LoopStep

-----------------------------------------------------------------------------
(* Theorems                                                                *)

(* The inductive invariant: as long as no confirmed block was dropped,     *)
(* the stored cursor and hash, and all the process remembers between two   *)
(* calls, are what the chain says.                                         *)
THEOREM IndexerInvariant == Safety => []IInv
  <1>1. Init => IInv
    <2> SUFFICES ASSUME Init
                 PROVE  IInv
      OBVIOUS
    <2>1. chain = <<[hash |-> 1, tx |-> NoTx]>> /\ past.height = 1 /\ past.reset = FALSE
      BY DEF Init
    <2>2. ChainTypeOK
      <3>1. [hash |-> 1, tx |-> NoTx] \in Blocks
        BY DEF Blocks
      <3>2. past \in Pasts
        BY DEF Init, Pasts
      <3> QED
        BY <2>1, <3>1, <3>2 DEF ChainTypeOK
    <2>3. Confirmed \in {1, 1 - CONFIRMATIONS} /\ Confirmed \in Nat /\ CONFIRMATIONS \in Nat
      BY <2>1, ConfirmedIsBlock, IndexerConfigAssumption DEF Confirmed
    <2>4. Len(chain) \in Confirmed .. past.height
      BY <2>1, <2>3
    <2>5. cursor = NoCursor /\ indexer.pc = "down"
      BY DEF Init, Down
    <2> QED
      BY <2>1, <2>2, <2>4, <2>5 DEF IInv, Sound, IndexerSound
  <1>2. IInv /\ [Next]_vars => IInv'
    <2> SUFFICES ASSUME IInv, [Next]_vars
                 PROVE  IInv'
      OBVIOUS
    <2> USE DEF IInv
    <2>1. CASE ProduceBlock
      <3>1. past'.finalityBroken = past.finalityBroken
        BY <2>1 DEF ProduceBlock, ChainTypeOK, Pasts
      <3> QED
        BY <2>1, <3>1, ChainStepTypes, ProduceSound
    <2>2. CASE \E keep \in 0 .. Len(chain) - 1 : Rewrite(keep)
      <3>1. ChainTypeOK'
        BY <2>2, ChainStepTypes
      <3>2. PICK keep \in 0 .. Len(chain) - 1 : Rewrite(keep)
        BY <2>2
      <3>3. past.finalityBroken => past'.finalityBroken
        BY <3>2 DEF Rewrite, ChainTypeOK, Pasts
      <3> QED
        BY <3>1, <3>2, <3>3, RewriteSound
    <2>3. CASE StartStep \/ LoopStep \/ Crash
      <3>1. /\ ChainTypeOK' /\ chain' = chain /\ past'.height = past.height
            /\ past'.finalityBroken = past.finalityBroken
        BY <2>3, ProcessSteps
      <3>2. Confirmed' = Confirmed
        BY <3>1 DEF Confirmed
      <3>3. ASSUME Sound
            PROVE  Sound'
        <4>1. indexer.pc # "reset"
          BY <3>3 DEF Sound, IndexerSound
        <4>2. past'.reset = past.reset
          BY <2>3, <4>1, NoResetFinished
        <4> QED
          BY <2>3, <3>1, <3>2, <3>3, <4>2, StartSound, LoopSound
      <3> QED
        BY <3>1, <3>3
    <2>4. CASE UNCHANGED vars
      BY <2>4 DEF vars, ChainTypeOK, Sound, IndexerSound, CursorSound, Confirmed
    <2> QED
      BY <2>1, <2>2, <2>3, <2>4 DEF Next
  <1> QED
    BY <1>1, <1>2, PTL DEF Safety

(* No restart, crash, short chain or rewrite of unconfirmed blocks makes   *)
(* the indexer throw its evidence away.                                    *)
THEOREM OnlyFinalityCausesReset == Safety => []NeverFalselyReset
  <1>1. IInv => NeverFalselyReset
    BY DEF IInv, Sound, IndexerSound, NeverFalselyReset
  <1> QED
    BY <1>1, IndexerInvariant, PTL

-----------------------------------------------------------------------------

(* What the tables may hold, and what a block may bring.                   *)
Rows == [tx : {tx \in Txs : tx.event # "ElectionCreated"}, block : Nat]
Entries == [tx : Txs \cup {NoTx}, block : Nat]
ElectionRows == [phase : Int, block : Nat]
Tables == [elections : [Elections -> ElectionRows], rows : SUBSET Rows,
           resetIncidents : SUBSET Elections]

(* The tables after one block.                                             *)
Taken(db, entry) == IF entry.tx = NoTx THEN db ELSE Apply(db, entry)

(* The row of an election after a transaction, from its row before it.     *)
ElectionAfter(stored, e, tx, block) ==
  IF tx = NoTx \/ tx.election # e THEN stored
  ELSE IF tx.event = "ElectionCreated"
       THEN IF stored # Absent THEN stored ELSE [phase |-> 0, block |-> block]
  ELSE IF tx.event = "PhaseChanged" /\ stored # Absent
       THEN [phase |-> tx.newPhase, block |-> stored.block]
  ELSE stored

Recorded(tx) == tx # NoTx /\ tx.event # "ElectionCreated"

RowsAfter(rows, entry) == IF Recorded(entry.tx) THEN Inserted(rows, entry) ELSE rows

(* The transactions of the registry.                                       *)
LEMMA TxFields ==
  ASSUME NEW tx \in Txs
  PROVE  /\ tx.election \in Elections /\ tx # NoTx
         /\ tx.event \in {"ElectionCreated", "PhaseChanged", "SignupRecorded",
                          "TallyTranscriptCommitmentPublished"}
         /\ tx.event = "PhaseChanged" => tx.newPhase \in 1 .. 9
BY TxsAssumption DEF CreationTxs, PhaseTxs, RecordTxs

(* A block changes the rows, and each election by itself.                  *)
LEMMA TakenFields ==
  ASSUME NEW db \in Tables, NEW entry \in Entries
  PROVE  /\ Taken(db, entry) \in Tables
         /\ Taken(db, entry).rows = RowsAfter(db.rows, entry)
         /\ Taken(db, entry).resetIncidents = db.resetIncidents
         /\ \A e \in Elections :
              Taken(db, entry).elections[e] =
                ElectionAfter(db.elections[e], e, entry.tx, entry.block)
<1> DEFINE tx == entry.tx
           next == Taken(db, entry)
<1>1. CASE tx = NoTx
  BY <1>1 DEF Taken, RowsAfter, Recorded, ElectionAfter
<1>2. CASE tx # NoTx
  <2> DEFINE e0 == tx.election
             stored == db.elections[e0]
  <2>1. tx \in Txs /\ e0 \in Elections
    BY <1>2, TxFields DEF Entries
  <2>2. stored \in ElectionRows /\ Absent.block = 0
        /\ db.rows \in SUBSET Rows /\ db.elections \in [Elections -> ElectionRows]
        /\ db.resetIncidents \in SUBSET Elections
    BY <2>1 DEF Tables, Absent, NULL
  <2> DEFINE inserted == Inserted(db.rows, entry)
  <2>3. tx.event # "ElectionCreated" => inserted \in SUBSET Rows
    <3>1. tx.event # "ElectionCreated" => entry \in Rows
      BY <2>1 DEF Entries, Rows
    <3>2. QED
      BY <2>2, <3>1 DEF Inserted
  <2>4. CASE tx.event = "ElectionCreated"
    <3>1. next = IF stored # Absent THEN db
                 ELSE [db EXCEPT !.elections[e0] = [phase |-> 0, block |-> entry.block]]
      BY <1>2, <2>4 DEF Taken, Apply
    <3>2. CASE stored # Absent
      BY <1>2, <2>4, <3>1, <3>2 DEF RowsAfter, Recorded, ElectionAfter
    <3>3. CASE stored = Absent
      <4> DEFINE new == [phase |-> 0, block |-> entry.block]
      <4>1. new \in ElectionRows
        BY DEF ElectionRows, Entries
      <4> HIDE DEF new
      <4>2. /\ next = [db EXCEPT !.elections[e0] = new]
        BY <3>1, <3>3 DEF new
      <4> HIDE DEF next
      <4>3. /\ next \in Tables /\ next.rows = db.rows
            /\ next.resetIncidents = db.resetIncidents
            /\ \A e \in Elections :
                 next.elections[e] = IF e = e0 THEN new ELSE db.elections[e]
        BY <2>1, <2>2, <4>1, <4>2 DEF Tables
      <4>4. \A e \in Elections :
              ElectionAfter(db.elections[e], e, tx, entry.block) =
                IF e = e0 THEN new ELSE db.elections[e]
        BY <1>2, <2>4, <3>3 DEF ElectionAfter, new
      <4>5. RowsAfter(db.rows, entry) = db.rows
        BY <2>4 DEF RowsAfter, Recorded
      <4>6. QED
        BY <4>3, <4>4, <4>5 DEF next
    <3>4. QED
      BY <3>2, <3>3
  <2>5. CASE tx.event = "PhaseChanged"
    <3> DEFINE new == IF stored = Absent THEN Absent
                      ELSE [stored EXCEPT !.phase = tx.newPhase]
    <3>1. next = [db EXCEPT !.rows = inserted, !.elections[e0] = new]
      BY <1>2, <2>5 DEF Taken, Apply
    <3>2. new \in ElectionRows
      BY <2>1, <2>2, <2>5, TxFields DEF ElectionRows
    <3>3. new = ElectionAfter(stored, e0, tx, entry.block)
      BY <1>2, <2>2, <2>5 DEF ElectionAfter, ElectionRows
    <3> HIDE DEF new, inserted, next
    <3>4. /\ next \in Tables /\ next.rows = inserted
          /\ next.resetIncidents = db.resetIncidents
          /\ \A e \in Elections :
               next.elections[e] = IF e = e0 THEN new ELSE db.elections[e]
      BY <2>1, <2>2, <2>3, <2>5, <3>1, <3>2 DEF Tables
    <3>5. \A e \in Elections :
            e # e0 => ElectionAfter(db.elections[e], e, tx, entry.block) = db.elections[e]
      BY DEF ElectionAfter
    <3>6. RowsAfter(db.rows, entry) = inserted
      BY <1>2, <2>5 DEF RowsAfter, Recorded, inserted
    <3>7. QED
      BY <3>3, <3>4, <3>5, <3>6 DEF next
  <2>6. CASE tx.event \notin {"ElectionCreated", "PhaseChanged"}
    <3>1. next = [db EXCEPT !.rows = inserted]
      BY <1>2, <2>6 DEF Taken, Apply
    <3> HIDE DEF inserted, next
    <3>2. /\ next \in Tables /\ next.rows = inserted
          /\ next.resetIncidents = db.resetIncidents
          /\ next.elections = db.elections
      BY <2>2, <2>3, <2>6, <3>1 DEF Tables
    <3>3. \A e \in Elections :
            ElectionAfter(db.elections[e], e, tx, entry.block) = db.elections[e]
      BY <2>6 DEF ElectionAfter
    <3>4. RowsAfter(db.rows, entry) = inserted
      BY <1>2, <2>6 DEF RowsAfter, Recorded, inserted
    <3>5. QED
      BY <3>2, <3>3, <3>4 DEF next
  <2>7. QED
    BY <2>4, <2>5, <2>6
<1>3. QED
  BY <1>1, <1>2

(* So the tables keep their type.                                          *)
LEMMA TakenType ==
  \A db \in Tables, entry \in Entries : Taken(db, entry) \in Tables
BY TakenFields

(* The recursion of TablesAfter is well defined.                           *)
LEMMA TablesAfterLogs ==
  ASSUME NEW db \in Tables, NEW logs \in Seq(Entries)
  PROVE  /\ TablesAfter(db, logs) \in [0 .. Len(logs) -> Tables]
         /\ TablesAfter(db, logs)[0] = db
         /\ \A i \in 1 .. Len(logs) :
              TablesAfter(db, logs)[i] = Taken(TablesAfter(db, logs)[i - 1], logs[i])
<1> DEFINE n == Len(logs)
           Step(v, i) == IF i = 0 THEN db
                         ELSE IF logs[i].tx = NoTx THEN v[i - 1]
                         ELSE Apply(v[i - 1], logs[i])
           F == [p \in (1 .. n) \X Tables |-> Taken(p[2], logs[p[1]])]
           Computed(S, a, m, G) ==
             \E f \in [0 .. m -> S] :
               f[0] = a /\ \A i \in 1 .. m : f[i] = G[<<i, f[i - 1]>>]
<1>1. n \in Nat
  OBVIOUS
<1>2. F \in [(1 .. n) \X Tables -> Tables]
  BY TakenType
<1>3. PICK f \in [0 .. n -> Tables] :
        f[0] = db /\ \A i \in 1 .. n : f[i] = F[<<i, f[i - 1]>>]
  <2>1. \A S : \A a \in S : \A m \in Nat : \A G \in [(1 .. m) \X S -> S] :
          Computed(S, a, m, G)
    BY RecursionExists
  <2>2. Computed(Tables, db, n, F)
    <3> HIDE DEF n, F, Computed
    <3>1. QED
      BY <1>1, <1>2, <2>1, Zenon
  <2>3. QED
    BY <2>2
<1>4. \A i \in 1 .. n : f[i] = Taken(f[i - 1], logs[i])
  <2>1. \A i \in 1 .. n : f[i - 1] \in Tables /\ f[i] = F[<<i, f[i - 1]>>]
    <3> HIDE DEF F, n
    <3>1. \A i \in 1 .. n : i - 1 \in 0 .. n
      BY <1>1
    <3>2. QED
      BY <1>3, <3>1
  <2>2. QED
    BY <2>1
<1>5. f = [i \in 0 .. n |-> Step(f, i)]
  <2>1. \A i \in 0 .. n : f[i] = Step(f, i)
    BY <1>3, <1>4 DEF Taken
  <2> HIDE DEF Step
  <2>2. QED
    BY <1>3, <2>1
<1>6. TablesAfter(db, logs) = CHOOSE v : v = [i \in 0 .. n |-> Step(v, i)]
  BY DEF TablesAfter
<1> DEFINE V == TablesAfter(db, logs)
<1>7. V = [i \in 0 .. n |-> Step(V, i)]
  <2> HIDE DEF Step
  <2>1. QED
    BY <1>5, <1>6
<1> HIDE DEF V
<1>8. V[0] = db /\ \A i \in 1 .. n : V[i] = Taken(V[i - 1], logs[i])
  BY <1>1, <1>7 DEF Taken
<1>9. V \in [0 .. n -> Tables]
  <2> DEFINE Typed == {i \in Nat : i <= n => V[i] \in Tables}
  <2>1. 0 \in Typed
    BY <1>1, <1>8
  <2>2. ASSUME NEW i \in Nat, i \in Typed
        PROVE  i + 1 \in Typed
    <3>1. CASE i + 1 <= n
      <4>1. V[i] \in Tables /\ V[i + 1] = Taken(V[i], logs[i + 1])
        BY <1>1, <1>8, <2>2, <3>1
      <4>2. logs[i + 1] \in Entries
        BY <3>1
      <4>3. QED
        BY <4>1, <4>2, TakenType
    <3>2. QED
      BY <3>1
  <2>3. \A i \in 0 .. n : V[i] \in Tables
    <3> HIDE DEF Typed
    <3>1. Nat \subseteq Typed
      BY <2>1, <2>2, SetInduction
    <3>2. QED
      BY <1>1, <3>1 DEF Typed
  <2>4. QED
    BY <1>7, <2>3
<1>10. QED
  BY <1>8, <1>9 DEF V

(* The tables of the past stay as they are when a block is added.          *)
LEMMA ReplayAppend ==
  ASSUME NEW db \in Tables, NEW logs \in Seq(Entries), NEW entry \in Entries
  PROVE  Replay(db, Append(logs, entry)) = Taken(Replay(db, logs), entry)
<1> DEFINE longer == Append(logs, entry)
           n == Len(logs)
           V == TablesAfter(db, logs)
           W == TablesAfter(db, longer)
<1>1. /\ longer \in Seq(Entries) /\ n \in Nat /\ Len(longer) = n + 1
      /\ \A i \in 1 .. n : longer[i] = logs[i]
      /\ longer[n + 1] = entry
  OBVIOUS
<1>2. V[0] = db /\ \A i \in 1 .. n : V[i] = Taken(V[i - 1], logs[i])
  BY TablesAfterLogs
<1>3. W[0] = db /\ \A i \in 1 .. n + 1 : W[i] = Taken(W[i - 1], longer[i])
  <2> HIDE DEF longer
  <2>1. QED
    BY <1>1, TablesAfterLogs
<1> HIDE DEF longer, V, W
<1> DEFINE Same == {i \in Nat : i <= n => W[i] = V[i]}
<1>4. 0 \in Same
  BY <1>2, <1>3
<1>5. ASSUME NEW i \in Nat, i \in Same
      PROVE  i + 1 \in Same
  BY <1>1, <1>2, <1>3, <1>5
<1>6. Nat \subseteq Same
  <2> HIDE DEF Same
  <2>1. QED
    BY <1>4, <1>5, SetInduction
<1>7. W[n] = V[n]
  BY <1>1, <1>6
<1>8. W[n + 1] = Taken(V[n], entry)
  BY <1>1, <1>3, <1>7
<1>9. QED
  BY <1>1, <1>7, <1>8 DEF Replay, longer, V, W

-----------------------------------------------------------------------------
(* The logs of any chain c, and the evidence of its first n blocks.        *)
EntryAt(c, b) == [tx |-> c[b].tx, block |-> b]
LogsOf(c, from, to) == [i \in 1 .. to - from + 1 |-> EntryAt(c, from + i - 1)]
Evidence(c, n) == Replay(EmptyTables, LogsOf(c, 1, n))

(* The logs of a range of blocks are a sequence that grows block by block. *)
LEMMA LogsOfBlocks ==
  ASSUME NEW c \in Seq(Blocks), NEW from \in Nat, from >= 1, NEW to \in Nat,
         from - 1 <= to, to <= Len(c)
  PROVE  /\ LogsOf(c, from, to) \in Seq(Entries)
         /\ Len(LogsOf(c, from, to)) = to - from + 1
         /\ \A b \in from .. to : LogsOf(c, from, to)[b - from + 1] = EntryAt(c, b)
         /\ to + 1 <= Len(c) =>
              /\ EntryAt(c, to + 1) \in Entries
              /\ LogsOf(c, from, to + 1) =
                   Append(LogsOf(c, from, to), EntryAt(c, to + 1))
<1> DEFINE m == to - from + 1
           logs == LogsOf(c, from, to)
           longer == LogsOf(c, from, to + 1)
<1>1. m \in Nat /\ Len(c) \in Nat
  OBVIOUS
<1>2. ASSUME NEW b \in 1 .. Len(c)
      PROVE  EntryAt(c, b) \in Entries
  <2>1. c[b] \in Blocks
    OBVIOUS
  <2>2. c[b].tx \in Txs \cup {NoTx}
    BY <2>1 DEF Blocks
  <2>3. QED
    BY <2>2 DEF EntryAt, Entries
<1>3. \A i \in 1 .. m : from + i - 1 \in from .. to /\ from + i - 1 \in 1 .. Len(c)
  BY <1>1
<1>4. logs = [i \in 1 .. m |-> EntryAt(c, from + i - 1)]
  BY DEF LogsOf
<1>5. logs \in [1 .. m -> Entries]
  BY <1>2, <1>3, <1>4
<1>6. logs \in Seq(Entries) /\ Len(logs) = m
  BY <1>1, <1>5
<1>7. \A b \in from .. to : logs[b - from + 1] = EntryAt(c, b)
  <2> SUFFICES ASSUME NEW b \in from .. to PROVE logs[b - from + 1] = EntryAt(c, b)
    OBVIOUS
  <2>1. b - from + 1 \in 1 .. m /\ from + (b - from + 1) - 1 = b
    OBVIOUS
  <2>2. QED
    BY <1>4, <2>1
<1>8. ASSUME to + 1 <= Len(c)
      PROVE  /\ EntryAt(c, to + 1) \in Entries
             /\ longer = Append(logs, EntryAt(c, to + 1))
  <2> DEFINE entry == EntryAt(c, to + 1)
             k == to + 1 - from + 1
  <2>1. entry \in Entries
    BY <1>2, <1>8
  <2>2. k = m + 1
    OBVIOUS
  <2>3. \A i \in 1 .. k : from + i - 1 \in 1 .. Len(c)
    BY <1>8
  <2>4. longer = [i \in 1 .. k |-> EntryAt(c, from + i - 1)]
    BY DEF LogsOf
  <2>5. longer \in [1 .. k -> Entries]
    BY <1>2, <2>3, <2>4
  <2>6. longer \in Seq(Entries) /\ Len(longer) = k
    <3> HIDE DEF longer
    <3>1. QED
      BY <1>1, <2>2, <2>5
  <2>7. \A i \in 1 .. k : longer[i] = IF i = k THEN entry ELSE logs[i]
    <3> SUFFICES ASSUME NEW i \in 1 .. k
                 PROVE  longer[i] = IF i = k THEN entry ELSE logs[i]
      OBVIOUS
    <3>1. longer[i] = EntryAt(c, from + i - 1)
      BY <2>4
    <3>2. CASE i = k
      <4>1. from + i - 1 = to + 1
        BY <3>2
      <4>2. QED
        BY <3>1, <3>2, <4>1
    <3>3. CASE i # k
      <4>1. i \in 1 .. m
        BY <3>3
      <4>2. QED
        BY <1>4, <3>1, <3>3, <4>1
    <3>4. QED
      BY <3>2, <3>3
  <2> HIDE DEF longer, logs, entry, k, m
  <2>8. /\ Append(logs, entry) \in Seq(Entries) /\ Len(Append(logs, entry)) = k
        /\ \A i \in 1 .. m : Append(logs, entry)[i] = logs[i]
        /\ Append(logs, entry)[k] = entry
    BY <1>6, <2>1, <2>2, AppendProperties
  <2>9. \A i \in 1 .. k : i # k => i \in 1 .. m
    BY <1>1, <2>2
  <2>10. \A i \in 1 .. k : longer[i] = Append(logs, entry)[i]
    BY <2>7, <2>8, <2>9
  <2>11. longer = Append(logs, entry)
    BY <2>6, <2>8, <2>10, SeqEqual
  <2>12. QED
    BY <2>1, <2>11 DEF entry
<1>9. QED
  BY <1>6, <1>7, <1>8

(* The empty tables are tables.                                            *)
LEMMA EmptyTablesType == EmptyTables \in Tables /\ EmptyTables.rows = {}
                         /\ \A e \in Elections : EmptyTables.elections[e] = Absent
<1>1. Absent \in ElectionRows
  BY DEF Absent, ElectionRows, NULL
<1>2. QED
  BY <1>1 DEF EmptyTables, Tables

(* The evidence of a chain grows block by block.                           *)
LEMMA EvidenceSteps ==
  ASSUME NEW c \in Seq(Blocks)
  PROVE  /\ Evidence(c, 0) = EmptyTables
         /\ \A n \in 0 .. Len(c) : Evidence(c, n) \in Tables
         /\ \A n \in 0 .. Len(c) - 1 :
              /\ EntryAt(c, n + 1) \in Entries
              /\ Evidence(c, n + 1) = Taken(Evidence(c, n), EntryAt(c, n + 1))
<1>1. Evidence(c, 0) = EmptyTables
  <2>1. LogsOf(c, 1, 0) \in Seq(Entries) /\ Len(LogsOf(c, 1, 0)) = 0
    BY LogsOfBlocks
  <2>2. QED
    BY <2>1, EmptyTablesType, TablesAfterLogs DEF Evidence, Replay
<1>2. ASSUME NEW n \in 0 .. Len(c)
      PROVE  Evidence(c, n) \in Tables
  <2>1. LogsOf(c, 1, n) \in Seq(Entries) /\ Len(LogsOf(c, 1, n)) \in 0 .. Len(LogsOf(c, 1, n))
    BY LogsOfBlocks
  <2>2. QED
    BY <2>1, EmptyTablesType, TablesAfterLogs DEF Evidence, Replay
<1>3. ASSUME NEW n \in 0 .. Len(c) - 1
      PROVE  /\ EntryAt(c, n + 1) \in Entries
             /\ Evidence(c, n + 1) = Taken(Evidence(c, n), EntryAt(c, n + 1))
  <2>1. /\ LogsOf(c, 1, n) \in Seq(Entries) /\ EntryAt(c, n + 1) \in Entries
        /\ LogsOf(c, 1, n + 1) = Append(LogsOf(c, 1, n), EntryAt(c, n + 1))
    BY SMTT(40), LogsOfBlocks
  <2>2. QED
    BY <2>1, EmptyTablesType, ReplayAppend DEF Evidence
<1>4. QED
  BY <1>1, <1>2, <1>3

(* Chains that share their first blocks give the same evidence for them.   *)
LEMMA SameEvidence ==
  ASSUME NEW c, NEW d, NEW n \in Nat, \A b \in 1 .. n : c[b] = d[b]
  PROVE  Evidence(c, n) = Evidence(d, n)
<1>1. LogsOf(c, 1, n) = LogsOf(d, 1, n)
  <2>1. \A i \in 1 .. n - 1 + 1 : 1 + i - 1 \in 1 .. n
    OBVIOUS
  <2>2. \A i \in 1 .. n - 1 + 1 : EntryAt(c, 1 + i - 1) = EntryAt(d, 1 + i - 1)
    BY <2>1 DEF EntryAt
  <2>3. QED
    BY <2>2 DEF LogsOf
<1>2. QED
  BY <1>1 DEF Evidence

(* The chain of a registry: a transaction is mined once, and an election   *)
(* changes phase after it was created.                                     *)
Creates(tx, e) == tx # NoTx /\ tx.event = "ElectionCreated" /\ tx.election = e
Changes(tx, e) == tx # NoTx /\ tx.event = "PhaseChanged" /\ tx.election = e
ValidChain(c) ==
  /\ c \in Seq(Blocks)
  /\ \A a, b \in DOMAIN c : c[a].tx = c[b].tx /\ c[a].tx # NoTx => a = b
  /\ \A b \in DOMAIN c : \A e \in Elections :
       Changes(c[b].tx, e) => \E a \in 1 .. b - 1 : Creates(c[a].tx, e)

(* The rows of a chain are its recorded blocks.                            *)
RowsOf(c, n) == {EntryAt(c, b) : b \in {a \in 1 .. n : Recorded(c[a].tx)}}

(* The tables built from the logs of a chain hold a row for each block of  *)
(* it that the contract recorded a log in, and no other row.               *)
LEMMA EvidenceRows ==
  ASSUME NEW c, ValidChain(c)
  PROVE  \A n \in 0 .. Len(c) : Evidence(c, n).rows = RowsOf(c, n)
<1> DEFINE Closed == {n \in Nat : n <= Len(c) => Evidence(c, n).rows = RowsOf(c, n)}
<1>1. c \in Seq(Blocks) /\ Len(c) \in Nat
  BY DEF ValidChain
<1>2. 0 \in Closed
  BY <1>1, EvidenceSteps, EmptyTablesType DEF RowsOf
<1>3. ASSUME NEW n \in Nat, n \in Closed, n + 1 <= Len(c)
      PROVE  Evidence(c, n + 1).rows = RowsOf(c, n + 1)
  <2> DEFINE entry == EntryAt(c, n + 1)
  <2>1. /\ Evidence(c, n) \in Tables /\ entry \in Entries
        /\ Evidence(c, n + 1) = Taken(Evidence(c, n), entry)
    BY <1>1, <1>3, EvidenceSteps
  <2>2. Evidence(c, n + 1).rows = RowsAfter(RowsOf(c, n), entry)
    BY <1>3, <2>1, TakenFields
  <2>3. \A row \in RowsOf(c, n) : row.tx # entry.tx \/ ~Recorded(entry.tx)
    BY <1>1, <1>3 DEF RowsOf, EntryAt, Recorded, ValidChain
  <2>4. RowsOf(c, n + 1) =
          IF Recorded(c[n + 1].tx) THEN RowsOf(c, n) \cup {entry} ELSE RowsOf(c, n)
    BY DEF RowsOf
  <2>5. entry.tx = c[n + 1].tx
    BY DEF EntryAt
  <2>6. QED
    BY <2>2, <2>3, <2>4, <2>5 DEF RowsAfter, Inserted
<1>4. Nat \subseteq Closed
  <2>1. \A n \in Nat : n \in Closed => n + 1 \in Closed
    BY <1>3
  <2> HIDE DEF Closed
  <2>2. QED
    BY <1>2, <2>1, SetInduction
<1>5. QED
  BY <1>1, <1>4

-----------------------------------------------------------------------------
(* The row of an election, block by block                                  *)

RowOf(c, n, e) == Evidence(c, n).elections[e]

(* The row of an election comes from its row before the block.             *)
LEMMA RowSteps ==
  ASSUME NEW c \in Seq(Blocks), NEW e \in Elections
  PROVE  /\ RowOf(c, 0, e) = Absent
         /\ \A n \in 0 .. Len(c) : RowOf(c, n, e) \in ElectionRows
         /\ \A n \in 0 .. Len(c) - 1 :
              RowOf(c, n + 1, e) = ElectionAfter(RowOf(c, n, e), e, c[n + 1].tx, n + 1)
<1>1. RowOf(c, 0, e) = Absent
  BY EvidenceSteps, EmptyTablesType DEF RowOf
<1>2. ASSUME NEW n \in 0 .. Len(c)
      PROVE  RowOf(c, n, e) \in ElectionRows
  <2>1. Evidence(c, n) \in Tables
    BY EvidenceSteps
  <2>2. QED
    BY <2>1 DEF RowOf, Tables
<1>3. ASSUME NEW n \in 0 .. Len(c) - 1
      PROVE  RowOf(c, n + 1, e) = ElectionAfter(RowOf(c, n, e), e, c[n + 1].tx, n + 1)
  <2>1. /\ Evidence(c, n) \in Tables /\ EntryAt(c, n + 1) \in Entries
        /\ Evidence(c, n + 1) = Taken(Evidence(c, n), EntryAt(c, n + 1))
    BY EvidenceSteps
  <2>2. EntryAt(c, n + 1).tx = c[n + 1].tx /\ EntryAt(c, n + 1).block = n + 1
    BY DEF EntryAt
  <2>3. QED
    BY <2>1, <2>2, TakenFields DEF RowOf
<1>4. QED
  BY <1>1, <1>2, <1>3

(* What one transaction does to a row.                                     *)
LEMMA ElectionAfterFacts ==
  ASSUME NEW stored \in ElectionRows, NEW e \in Elections, NEW tx \in Txs \cup {NoTx},
         NEW block \in Nat
  PROVE  /\ stored # Absent => /\ ElectionAfter(stored, e, tx, block) # Absent
                               /\ ElectionAfter(stored, e, tx, block).block = stored.block
         /\ Creates(tx, e) => ElectionAfter(stored, e, tx, block) # Absent
         /\ ~Changes(tx, e) /\ (stored # Absent \/ ~Creates(tx, e)) =>
              ElectionAfter(stored, e, tx, block) = stored
         /\ stored = Absent /\ Creates(tx, e) => ElectionAfter(stored, e, tx, block).block = block
         /\ Changes(tx, e) /\ stored # Absent =>
              ElectionAfter(stored, e, tx, block) = [phase |-> tx.newPhase, block |-> stored.block]
<1> DEFINE new == ElectionAfter(stored, e, tx, block)
<1>1. CASE tx = NoTx \/ tx.election # e
  BY <1>1 DEF ElectionAfter, Creates, Changes
<1>2. CASE tx # NoTx /\ tx.election = e /\ tx.event = "ElectionCreated"
  <2>1. stored # Absent => new = stored
    BY <1>2 DEF ElectionAfter
  <2>2. stored = Absent => new = [phase |-> 0, block |-> block]
    BY <1>2 DEF ElectionAfter
  <2>3. [phase |-> 0, block |-> block] # Absent
    BY DEF Absent
  <2> HIDE DEF new
  <2>4. QED
    BY <1>2, <2>1, <2>2, <2>3 DEF Creates, Changes, new
<1>3. CASE tx # NoTx /\ tx.election = e /\ tx.event = "PhaseChanged"
  <2>1. stored = Absent => new = Absent
    BY <1>3 DEF ElectionAfter
  <2>2. stored # Absent => new = [phase |-> tx.newPhase, block |-> stored.block]
    BY <1>3 DEF ElectionAfter
  <2>3. tx.newPhase \in 1 .. 9
    BY <1>3, TxFields
  <2>4. [phase |-> tx.newPhase, block |-> stored.block] # Absent
    BY <2>3 DEF Absent
  <2> HIDE DEF new
  <2>5. QED
    BY <1>3, <2>1, <2>2, <2>4 DEF Creates, Changes, new
<1>4. CASE tx # NoTx /\ tx.election = e /\ tx.event \notin {"ElectionCreated", "PhaseChanged"}
  BY <1>4 DEF ElectionAfter, Creates, Changes
<1>5. QED
  BY <1>1, <1>2, <1>3, <1>4

(* The transaction of a block.                                             *)
LEMMA BlockTx ==
  ASSUME NEW c \in Seq(Blocks), NEW b \in 1 .. Len(c)
  PROVE  c[b].tx \in Txs \cup {NoTx}
<1>1. c[b] \in Blocks
  OBVIOUS
<1>2. QED
  BY <1>1 DEF Blocks

(* An election that is known stays known, with the block it was created in. *)
LEMMA RowKept ==
  ASSUME NEW c \in Seq(Blocks), NEW e \in Elections, NEW j \in 0 .. Len(c),
         RowOf(c, j, e) # Absent
  PROVE  \A m \in j .. Len(c) :
           RowOf(c, m, e) # Absent /\ RowOf(c, m, e).block = RowOf(c, j, e).block
<1> DEFINE Kept == {i \in Nat : j + i <= Len(c) =>
                      /\ RowOf(c, j + i, e) # Absent
                      /\ RowOf(c, j + i, e).block = RowOf(c, j, e).block}
<1>1. 0 \in Kept
  OBVIOUS
<1>2. ASSUME NEW i \in Nat, i \in Kept
      PROVE  i + 1 \in Kept
  <2> SUFFICES ASSUME j + (i + 1) <= Len(c)
               PROVE  /\ RowOf(c, j + (i + 1), e) # Absent
                      /\ RowOf(c, j + (i + 1), e).block = RowOf(c, j, e).block
    OBVIOUS
  <2> DEFINE n == j + i
  <2>1. n \in 0 .. Len(c) - 1 /\ n \in 0 .. Len(c) /\ n + 1 \in 1 .. Len(c) /\ n + 1 \in Nat
        /\ j + (i + 1) = n + 1
    OBVIOUS
  <2>2. RowOf(c, n, e) # Absent /\ RowOf(c, n, e).block = RowOf(c, j, e).block
    BY <1>2, <2>1
  <2> HIDE DEF n
  <2>3. /\ RowOf(c, n, e) \in ElectionRows /\ c[n + 1].tx \in Txs \cup {NoTx}
        /\ RowOf(c, n + 1, e) = ElectionAfter(RowOf(c, n, e), e, c[n + 1].tx, n + 1)
    BY <2>1, RowSteps, BlockTx
  <2>4. RowOf(c, n + 1, e) # Absent /\ RowOf(c, n + 1, e).block = RowOf(c, n, e).block
    <3> DEFINE row == RowOf(c, n, e)
               tx == c[n + 1].tx
    <3>1. row \in ElectionRows /\ tx \in Txs \cup {NoTx} /\ row # Absent
          /\ RowOf(c, n + 1, e) = ElectionAfter(row, e, tx, n + 1)
      BY <2>2, <2>3
    <3> HIDE DEF row, tx
    <3>2. /\ ElectionAfter(row, e, tx, n + 1) # Absent
          /\ ElectionAfter(row, e, tx, n + 1).block = row.block
      BY SMTT(40), <2>1, <3>1, ElectionAfterFacts
    <3>3. QED
      BY <3>1, <3>2 DEF row
  <2>5. QED
    BY <2>1, <2>2, <2>4
<1>3. Nat \subseteq Kept
  <2> HIDE DEF Kept
  <2>1. QED
    BY <1>1, <1>2, SetInduction
<1>4. ASSUME NEW m \in j .. Len(c)
      PROVE  RowOf(c, m, e) # Absent /\ RowOf(c, m, e).block = RowOf(c, j, e).block
  <2>1. m - j \in Kept /\ j + (m - j) = m
    BY <1>3
  <2>2. QED
    BY <2>1
<1>5. QED
  BY <1>4

(* An election is known from the block of its creation on.                 *)
LEMMA RowCreated ==
  ASSUME NEW c \in Seq(Blocks), NEW e \in Elections, NEW a \in 1 .. Len(c),
         Creates(c[a].tx, e)
  PROVE  \A m \in a .. Len(c) : RowOf(c, m, e) # Absent
<1>1. RowOf(c, a, e) # Absent
  <2>1. a - 1 \in 0 .. Len(c) - 1 /\ a - 1 \in 0 .. Len(c) /\ (a - 1) + 1 = a /\ a \in Nat
    OBVIOUS
  <2>2. /\ RowOf(c, a - 1, e) \in ElectionRows /\ c[a].tx \in Txs \cup {NoTx}
        /\ RowOf(c, a, e) = ElectionAfter(RowOf(c, a - 1, e), e, c[a].tx, a)
    BY <2>1, RowSteps, BlockTx
  <2>3. QED
    BY <2>1, <2>2, ElectionAfterFacts
<1>2. QED
  BY <1>1, RowKept

(* An election no block of j + 1 .. m is about has the row it had.         *)
LEMMA RowUnchanged ==
  ASSUME NEW c \in Seq(Blocks), NEW e \in Elections, NEW j \in 0 .. Len(c),
         NEW m \in j .. Len(c),
         \A b \in j + 1 .. m : /\ ~Changes(c[b].tx, e)
                               /\ Creates(c[b].tx, e) => RowOf(c, b - 1, e) # Absent
  PROVE  RowOf(c, m, e) = RowOf(c, j, e)
<1> DEFINE Same == {i \in Nat : j + i <= m => RowOf(c, j + i, e) = RowOf(c, j, e)}
<1>1. 0 \in Same
  OBVIOUS
<1>2. ASSUME NEW i \in Nat, i \in Same
      PROVE  i + 1 \in Same
  <2> SUFFICES ASSUME j + (i + 1) <= m
               PROVE  RowOf(c, j + (i + 1), e) = RowOf(c, j, e)
    OBVIOUS
  <2> DEFINE n == j + i
  <2>1. /\ n \in 0 .. Len(c) - 1 /\ n \in 0 .. Len(c) /\ n + 1 \in 1 .. Len(c) /\ n + 1 \in Nat
        /\ n + 1 \in j + 1 .. m /\ n + 1 - 1 = n /\ j + (i + 1) = n + 1
    OBVIOUS
  <2>2. RowOf(c, n, e) = RowOf(c, j, e)
    BY <1>2, <2>1
  <2> HIDE DEF n
  <2>3. /\ RowOf(c, n, e) \in ElectionRows /\ c[n + 1].tx \in Txs \cup {NoTx}
        /\ RowOf(c, n + 1, e) = ElectionAfter(RowOf(c, n, e), e, c[n + 1].tx, n + 1)
    BY <2>1, RowSteps, BlockTx
  <2>4. RowOf(c, n + 1, e) = RowOf(c, n, e)
    BY SMTT(40), <2>1, <2>3, ElectionAfterFacts
  <2>5. QED
    BY <2>1, <2>2, <2>4
<1>3. Nat \subseteq Same
  <2> HIDE DEF Same
  <2>1. QED
    BY <1>1, <1>2, SetInduction
<1>4. m - j \in Same /\ j + (m - j) = m
  BY <1>3
<1>5. QED
  BY <1>4

-----------------------------------------------------------------------------
(* Evidence of some number of blocks between two                           *)

Evident(c, db, low, high) ==
  \E n \in low .. high :
    /\ db.rows = Evidence(c, n).rows
    /\ \A e \in Elections : \E m \in low .. n : db.elections[e] = RowOf(c, m, e)

(* Taking in the next block again, or for the first time.                  *)
LEMMA NextBlockTaken ==
  ASSUME NEW c, ValidChain(c), NEW db \in Tables, NEW j \in Nat, NEW high \in Nat,
         j + 1 <= high, high <= Len(c), Evident(c, db, j, high)
  PROVE  Evident(c, Taken(db, EntryAt(c, j + 1)), j + 1, high)
<1> DEFINE entry == EntryAt(c, j + 1)
           next == Taken(db, entry)
           tx == c[j + 1].tx
<1>1. /\ c \in Seq(Blocks) /\ Len(c) \in Nat /\ j \in 0 .. Len(c) /\ j \in 0 .. Len(c) - 1
      /\ j + 1 \in 1 .. Len(c) /\ j + 1 \in 0 .. Len(c) /\ j + 1 \in Nat
  BY DEF ValidChain
<1>2. /\ entry \in Entries /\ Evidence(c, j) \in Tables
      /\ Evidence(c, j + 1) = Taken(Evidence(c, j), entry)
  BY <1>1, EvidenceSteps
<1>3. entry.tx = tx /\ entry.block = j + 1 /\ tx \in Txs \cup {NoTx}
  <2>1. tx \in Txs \cup {NoTx}
    BY <1>1, BlockTx
  <2>2. QED
    BY <2>1 DEF EntryAt
<1>4. /\ next.rows = RowsAfter(db.rows, entry)
      /\ \A e \in Elections :
           next.elections[e] = ElectionAfter(db.elections[e], e, tx, j + 1)
  BY <1>2, <1>3, TakenFields
<1>5. PICK n \in j .. high :
        /\ db.rows = Evidence(c, n).rows
        /\ \A e \in Elections : \E m \in j .. n : db.elections[e] = RowOf(c, m, e)
  BY DEF Evident
<1> DEFINE n1 == IF n = j THEN j + 1 ELSE n
<1>6. /\ n1 \in j + 1 .. high /\ n1 \in 0 .. Len(c) /\ n \in 0 .. Len(c)
      /\ n1 >= n /\ n1 >= j + 1 /\ n1 \in Nat /\ n \in Nat
      /\ n # j => n1 = n /\ j + 1 \in 1 .. n
  BY <1>1
<1>7. next.rows = Evidence(c, n1).rows
  <2>1. CASE n = j
    BY <1>2, <1>4, <1>5, <2>1, TakenFields
  <2>2. CASE n # j
    <3>1. db.rows = RowsOf(c, n)
      BY <1>5, <1>6, EvidenceRows
    <3>2. Recorded(tx) => entry \in RowsOf(c, n)
      BY <1>6, <2>2 DEF RowsOf
    <3>3. next.rows = db.rows
      BY <1>3, <1>4, <3>1, <3>2 DEF RowsAfter, Inserted
    <3>4. QED
      BY <1>5, <1>6, <2>2, <3>3
  <2>3. QED
    BY <2>1, <2>2
<1>8. ASSUME NEW e \in Elections
      PROVE  \E m \in j + 1 .. n1 : next.elections[e] = RowOf(c, m, e)
  <2>1. PICK m \in j .. n : db.elections[e] = RowOf(c, m, e)
    BY <1>5
  <2>2. m \in 0 .. Len(c) /\ m \in Nat /\ m <= n1
    BY <1>1, <1>6
  <2>3. /\ RowOf(c, m, e) \in ElectionRows /\ RowOf(c, j, e) \in ElectionRows
        /\ RowOf(c, j + 1, e) = ElectionAfter(RowOf(c, j, e), e, tx, j + 1)
    BY <1>1, <2>2, RowSteps
  <2>4. next.elections[e] = ElectionAfter(RowOf(c, m, e), e, tx, j + 1)
    BY <1>4, <2>1
  <2>5. j + 1 \in j + 1 .. n1
    BY <1>6
  <2>6. CASE m = j
    BY <2>3, <2>4, <2>5, <2>6
  <2>7. CASE m # j
    <3>1. m \in j + 1 .. n1 /\ m \in j .. Len(c) /\ m \in j + 1 .. Len(c)
      BY <1>6, <2>2, <2>7
    <3>2. CASE Creates(tx, e)
      <4>1. RowOf(c, m, e) # Absent
        BY <1>1, <3>1, <3>2, RowCreated
      <4>2. ~Changes(tx, e)
        BY <3>2 DEF Creates, Changes
      <4>3. ElectionAfter(RowOf(c, m, e), e, tx, j + 1) = RowOf(c, m, e)
        BY <1>1, <1>3, <2>3, <4>1, <4>2, ElectionAfterFacts
      <4>4. QED
        BY <2>4, <3>1, <4>3
    <3>3. CASE Changes(tx, e)
      <4>1. PICK a \in 1 .. j : Creates(c[a].tx, e)
        <5>1. \E a \in 1 .. (j + 1) - 1 : Creates(c[a].tx, e)
          BY <1>1, <3>3 DEF ValidChain
        <5>2. QED
          BY <5>1
      <4>2. a \in 1 .. Len(c) /\ j \in a .. Len(c)
        BY <1>1
      <4>3. RowOf(c, j, e) # Absent
        BY <1>1, <4>1, <4>2, RowCreated
      <4>4. RowOf(c, m, e) # Absent /\ RowOf(c, m, e).block = RowOf(c, j, e).block
        BY <1>1, <3>1, <4>3, RowKept
      <4>5. ElectionAfter(RowOf(c, m, e), e, tx, j + 1) = RowOf(c, j + 1, e)
        BY <1>1, <1>3, <2>3, <3>3, <4>3, <4>4, ElectionAfterFacts
      <4>6. QED
        BY <2>4, <2>5, <4>5
    <3>4. CASE ~Creates(tx, e) /\ ~Changes(tx, e)
      <4>1. ElectionAfter(RowOf(c, m, e), e, tx, j + 1) = RowOf(c, m, e)
        BY <1>1, <1>3, <2>3, <3>4, ElectionAfterFacts
      <4>2. QED
        BY <2>4, <3>1, <4>1
    <3>5. QED
      BY <3>2, <3>3, <3>4
  <2>8. QED
    BY <2>6, <2>7
<1>9. QED
  BY <1>6, <1>7, <1>8 DEF Evident

(* Storing the blocks from .. k of a batch.                                *)
LEMMA StoreEvident ==
  ASSUME NEW c, ValidChain(c), NEW db \in Tables, NEW from \in Nat, from >= 1,
         NEW k \in Nat, NEW high \in Nat, from - 1 <= k, k <= high, high <= Len(c),
         Evident(c, db, from - 1, high)
  PROVE  Evident(c, Replay(db, LogsOf(c, from, k)), k, high)
<1> DEFINE low == from - 1
           After(j) == Replay(db, LogsOf(c, from, j))
           Good == {i \in Nat : low + i <= k =>
                      After(low + i) \in Tables /\ Evident(c, After(low + i), low + i, high)}
<1>1. c \in Seq(Blocks) /\ Len(c) \in Nat /\ low \in Nat
  BY DEF ValidChain
<1>2. 0 \in Good
  <2>1. LogsOf(c, from, low) \in Seq(Entries) /\ Len(LogsOf(c, from, low)) = 0
    BY <1>1, LogsOfBlocks
  <2>2. After(low) = db
    BY <2>1, TablesAfterLogs DEF Replay
  <2> HIDE DEF After
  <2>3. low + 0 = low
    BY <1>1
  <2>4. QED
    BY <2>2, <2>3
<1>3. ASSUME NEW i \in Nat, i \in Good
      PROVE  i + 1 \in Good
  <2> SUFFICES ASSUME low + (i + 1) <= k
               PROVE  /\ After(low + (i + 1)) \in Tables
                      /\ Evident(c, After(low + (i + 1)), low + (i + 1), high)
    OBVIOUS
  <2> DEFINE j == low + i
  <2>1. /\ j \in Nat /\ from - 1 <= j /\ j <= Len(c) /\ j + 1 <= Len(c) /\ j + 1 <= high
        /\ low + (i + 1) = j + 1 /\ j <= k
    BY <1>1
  <2>2. After(j) \in Tables /\ Evident(c, After(j), j, high)
    BY <1>3, <2>1
  <2> HIDE DEF j, low
  <2>3. /\ LogsOf(c, from, j) \in Seq(Entries) /\ EntryAt(c, j + 1) \in Entries
        /\ LogsOf(c, from, j + 1) = Append(LogsOf(c, from, j), EntryAt(c, j + 1))
    BY <1>1, <2>1, LogsOfBlocks
  <2>4. After(j + 1) = Taken(After(j), EntryAt(c, j + 1))
    BY <2>3, ReplayAppend
  <2>5. After(j + 1) \in Tables
    BY <2>2, <2>3, <2>4, TakenType
  <2> HIDE DEF After
  <2>6. Evident(c, After(j + 1), j + 1, high)
    BY <2>1, <2>2, <2>4, NextBlockTaken
  <2>7. QED
    BY <2>1, <2>5, <2>6
<1>4. Nat \subseteq Good
  <2> HIDE DEF Good
  <2>1. QED
    BY <1>2, <1>3, SetInduction
<1>5. k - low \in Good /\ low + (k - low) = k
  <2>1. k - low \in Nat /\ low + (k - low) = k
    BY <1>1
  <2> HIDE DEF Good, low
  <2>2. QED
    BY <1>4, <2>1
<1>6. QED
  <2> HIDE DEF After, low
  <2>1. Evident(c, After(k), k, high)
    BY <1>5
  <2>2. QED
    BY <2>1 DEF After

(* Evidence of blocks that two chains share, between wider limits.         *)
LEMMA EvidentWider ==
  ASSUME NEW c, NEW d, NEW db, NEW low \in Nat, NEW high \in Nat, NEW lower \in Nat,
         NEW higher \in Nat, lower <= low, high <= higher,
         \A b \in 1 .. high : c[b] = d[b], Evident(c, db, low, high)
  PROVE  Evident(d, db, lower, higher)
<1>1. PICK n \in low .. high :
        /\ db.rows = Evidence(c, n).rows
        /\ \A e \in Elections : \E m \in low .. n : db.elections[e] = RowOf(c, m, e)
  BY DEF Evident
<1>2. ASSUME NEW m \in low .. n
      PROVE  Evidence(c, m) = Evidence(d, m) /\ m \in lower .. n
  <2>1. m \in Nat /\ m \in lower .. n /\ \A b \in 1 .. m : b \in 1 .. high
    OBVIOUS
  <2>2. \A b \in 1 .. m : c[b] = d[b]
    BY <2>1
  <2>3. QED
    BY <2>1, <2>2, SameEvidence
<1>3. n \in lower .. higher /\ n \in low .. n
  OBVIOUS
<1>4. db.rows = Evidence(d, n).rows
  BY <1>1, <1>2, <1>3
<1>5. ASSUME NEW e \in Elections
      PROVE  \E m \in lower .. n : db.elections[e] = RowOf(d, m, e)
  <2>1. PICK m \in low .. n : db.elections[e] = RowOf(c, m, e)
    BY <1>1
  <2>2. QED
    BY <1>2, <2>1 DEF RowOf
<1>6. QED
  BY <1>3, <1>4, <1>5 DEF Evident

(* Evidence that holds nothing of the blocks above keep is evidence of the *)
(* blocks up to keep.                                                      *)
LEMMA EvidentBelow ==
  ASSUME NEW c, ValidChain(c), NEW db \in Tables, NEW low \in Nat, NEW keep \in Nat,
         low <= keep, keep <= Len(c), Evident(c, db, low, Len(c)),
         \A b \in keep + 1 .. Len(c) :
           /\ \A row \in db.rows : row.block # b
           /\ \A e \in Elections : db.elections[e].block # b
  PROVE  Evident(c, db, low, keep)
<1>1. c \in Seq(Blocks) /\ Len(c) \in Nat
  BY DEF ValidChain
<1>2. PICK n \in low .. Len(c) :
        /\ db.rows = Evidence(c, n).rows
        /\ \A e \in Elections : \E m \in low .. n : db.elections[e] = RowOf(c, m, e)
  BY DEF Evident
<1> DEFINE n1 == IF n <= keep THEN n ELSE keep
<1>3. /\ n1 \in low .. keep /\ n1 <= n /\ n1 \in 0 .. Len(c) /\ n \in 0 .. Len(c)
      /\ n \in Nat /\ n1 \in Nat /\ n1 \in low .. n1 /\ n1 \in low .. Len(c)
      /\ \A b \in n1 + 1 .. n : b \in keep + 1 .. Len(c) /\ b \in 1 .. n /\ b \in 1 .. Len(c)
  BY <1>1
<1> HIDE DEF n1
<1>4. db.rows = RowsOf(c, n)
  BY <1>2, <1>3, EvidenceRows
<1>5. \A b \in n1 + 1 .. n : ~Recorded(c[b].tx)
  <2> SUFFICES ASSUME NEW b \in n1 + 1 .. n, Recorded(c[b].tx)
               PROVE  FALSE
    OBVIOUS
  <2>1. EntryAt(c, b) \in db.rows /\ EntryAt(c, b).block = b
    BY <1>3, <1>4 DEF RowsOf, EntryAt
  <2>2. QED
    BY <1>3, <2>1
<1>6. RowsOf(c, n) = RowsOf(c, n1)
  <2>1. \A b \in 1 .. n : b \in 1 .. n1 \/ b \in n1 + 1 .. n
    BY <1>3
  <2>2. \A b \in 1 .. n1 : b \in 1 .. n
    BY <1>3
  <2>3. {a \in 1 .. n : Recorded(c[a].tx)} = {a \in 1 .. n1 : Recorded(c[a].tx)}
    BY <1>5, <2>1, <2>2
  <2>4. QED
    BY <2>3 DEF RowsOf
<1>7. db.rows = Evidence(c, n1).rows
  BY <1>3, <1>4, <1>6, EvidenceRows
<1>8. ASSUME NEW e \in Elections
      PROVE  \E m \in low .. n1 : db.elections[e] = RowOf(c, m, e)
  <2>1. PICK m \in low .. n : db.elections[e] = RowOf(c, m, e)
    BY <1>2
  <2>2. CASE m <= n1
    BY <1>3, <2>1, <2>2
  <2>3. CASE m > n1
    <3>1. /\ n1 \in 0 .. Len(c) /\ m \in n1 .. Len(c) /\ m \in Nat
          /\ \A b \in n1 + 1 .. m : /\ b \in n1 + 1 .. n /\ b - 1 \in 0 .. Len(c) - 1
                                    /\ b - 1 \in 0 .. Len(c) /\ (b - 1) + 1 = b /\ b \in Nat
                                    /\ b \in 0 .. Len(c) /\ m \in b .. Len(c)
      BY <1>3, <2>3
    <3>2. ASSUME NEW b \in n1 + 1 .. m
          PROVE  ~Changes(c[b].tx, e)
      <4>1. ~Recorded(c[b].tx)
        BY <1>5, <3>1
      <4>2. QED
        BY <4>1 DEF Recorded, Changes
    <3>3. ASSUME NEW b \in n1 + 1 .. m, Creates(c[b].tx, e), RowOf(c, b - 1, e) = Absent
          PROVE  FALSE
      <4>1. /\ RowOf(c, b - 1, e) \in ElectionRows /\ c[b].tx \in Txs \cup {NoTx}
            /\ RowOf(c, b, e) = ElectionAfter(RowOf(c, b - 1, e), e, c[b].tx, b)
        BY <1>1, <1>3, <3>1, RowSteps, BlockTx
      <4>2. RowOf(c, b, e) # Absent /\ RowOf(c, b, e).block = b
        BY <3>1, <3>3, <4>1, ElectionAfterFacts
      <4>3. RowOf(c, m, e).block = b
        BY <1>1, <3>1, <4>2, RowKept
      <4>4. QED
        BY <1>3, <2>1, <3>1, <4>3
    <3>4. RowOf(c, m, e) = RowOf(c, n1, e)
      BY <1>1, <3>1, <3>2, <3>3, RowUnchanged
    <3>5. QED
      BY <1>3, <2>1, <3>4
  <2>4. QED
    BY <1>3, <2>2, <2>3
<1>9. QED
  BY <1>3, <1>7, <1>8 DEF Evident

(* A batch changes no incident, and a batch without events changes nothing. *)
LEMMA ReplayKeeps ==
  ASSUME NEW db \in Tables, NEW logs \in Seq(Entries)
  PROVE  /\ Replay(db, logs) \in Tables
         /\ Replay(db, logs).resetIncidents = db.resetIncidents
         /\ ~Holds(logs) => Replay(db, logs) = db
<1> DEFINE n == Len(logs)
           V == TablesAfter(db, logs)
           Kept == {i \in Nat : i <= n =>
                      /\ V[i].resetIncidents = db.resetIncidents
                      /\ ~Holds(logs) => V[i] = db}
<1>1. n \in Nat /\ \A i \in 1 .. n : logs[i] \in Entries /\ i \in DOMAIN logs
  OBVIOUS
<1>2. /\ V \in [0 .. n -> Tables] /\ V[0] = db
      /\ \A i \in 1 .. n : V[i] = Taken(V[i - 1], logs[i])
  BY TablesAfterLogs
<1> HIDE DEF V, n
<1>3. 0 \in Kept
  BY <1>2
<1>4. ASSUME NEW i \in Nat, i \in Kept
      PROVE  i + 1 \in Kept
  <2> SUFFICES ASSUME i + 1 <= n
               PROVE  /\ V[i + 1].resetIncidents = db.resetIncidents
                      /\ ~Holds(logs) => V[i + 1] = db
    OBVIOUS
  <2>1. i \in 0 .. n /\ i + 1 \in 1 .. n /\ i + 1 - 1 = i /\ i <= n
    BY <1>1
  <2>2. V[i + 1] = Taken(V[i], logs[i + 1]) /\ V[i] \in Tables /\ logs[i + 1] \in Entries
    BY <1>1, <1>2, <2>1
  <2>3. V[i].resetIncidents = db.resetIncidents /\ (~Holds(logs) => V[i] = db)
    BY <1>4, <2>1
  <2>4. V[i + 1].resetIncidents = db.resetIncidents
    BY <2>2, <2>3, TakenFields
  <2>5. ~Holds(logs) => logs[i + 1].tx = NoTx
    BY <1>1, <2>1 DEF Holds
  <2>6. QED
    BY <2>2, <2>3, <2>4, <2>5 DEF Taken
<1>5. Nat \subseteq Kept
  <2> HIDE DEF Kept
  <2>1. QED
    BY <1>3, <1>4, SetInduction
<1>6. n \in Kept /\ n \in 0 .. n /\ Replay(db, logs) = V[n]
  BY <1>1, <1>5 DEF Replay, V, n
<1>7. QED
  BY <1>2, <1>6

(* What the process asks the node for.                                     *)
LEMMA LogsInChain ==
  LogsIn(cursor.next, indexer.to) =
    LogsOf(chain, cursor.next, SmallerOf(indexer.to, Len(chain)))
BY DEF LogsIn, LogsOf, EntryAt

(* EvidenceOf reads the node's chain as it is now.                         *)
LEMMA EvidenceOfChain ==
  ASSUME chain \in Seq(Blocks), NEW n \in 0 .. Len(chain)
  PROVE  EvidenceOf(n) = Evidence(chain, n)
<1>1. SmallerOf(n, Len(chain)) = n
  BY DEF SmallerOf
<1>2. LogsIn(1, n) = LogsOf(chain, 1, n)
  BY <1>1 DEF LogsIn, LogsOf, EntryAt
<1>3. QED
  BY <1>2 DEF EvidenceOf, Evidence

(* Evidence of the chain as it is makes the tables truthful.               *)
LEMMA EvidentIsTruthful ==
  ASSUME chain \in Seq(Blocks), NEW low \in Nat, NEW high \in Nat, cursor.next \in Nat,
         cursor.next - 1 <= low, high <= Len(chain), Evident(chain, tables, low, high)
  PROVE  Truthful
<1>1. PICK n \in low .. high :
        /\ tables.rows = Evidence(chain, n).rows
        /\ \A e \in Elections : \E m \in low .. n : tables.elections[e] = RowOf(chain, m, e)
  BY DEF Evident
<1>2. \A m \in low .. n : m \in Indexed /\ m \in 0 .. Len(chain)
  BY DEF Indexed
<1>3. n \in low .. n
  OBVIOUS
<1>4. tables.rows = EvidenceOf(n).rows /\ n \in Indexed
  BY <1>1, <1>2, <1>3, EvidenceOfChain
<1>5. ASSUME NEW e \in Elections
      PROVE  \E m \in Indexed : tables.elections[e] = EvidenceOf(m).elections[e]
  <2>1. PICK m \in low .. n : tables.elections[e] = RowOf(chain, m, e)
    BY <1>1
  <2>2. QED
    BY <1>2, <2>1, EvidenceOfChain DEF RowOf
<1>6. QED
  BY <1>4, <1>5 DEF Truthful

-----------------------------------------------------------------------------

(* The stored hash, or the genesis block, is still the chain's: a start    *)
(* would find nothing.                                                     *)
Witness == cursor.genesis = chain[1].hash /\ (cursor.last # NULL => HashMatches)
Witnessed == Witness /\ ~past.unwitnessed
Still == ~past.rewrittenSinceStart
Confident == ~past.finalityBroken /\ cursor.next # NULL

Fetching == {"logs", "store", "hash", "cursor"}

(* Types: of the tables, the cursor, and what the process remembers.       *)
Left(k) == SubSeq(DeleteOrder, k, 5)
DataTypeOK ==
  LET pc == indexer.pc IN
  /\ tables \in Tables /\ cursor \in Cursors
  /\ pc \in {"down", "init", "state", "check", "canary", "fill", "reset"} \cup LoopPcs
  /\ pc \in {"init", "state", "check", "canary", "fill", "reset"} => indexer.genesis \in Nat
  /\ pc \in {"canary", "fill"} =>
       indexer \in [pc : {"canary", "fill"}, genesis : Nat, head : Nat]
  /\ pc = "reset" => \E k \in 1 .. 6 :
       indexer \in [pc : {"reset"}, genesis : Nat, left : {Left(k)},
                    then : {"state", "startup"}]
  /\ pc \in Fetching => indexer.to \in Nat
  /\ pc = "store" => indexer.logs \in Seq(Entries)
  /\ pc = "cursor" => indexer.hash \in Nat

(* The chain is a registry's, and its hashes are known by their number.    *)
ChainInv ==
  /\ ValidChain(chain) /\ Len(chain) >= 1
  /\ \A b \in DOMAIN chain : chain[b].hash <= past.blocks
HashesKnown ==
  /\ cursor.hash <= past.blocks /\ cursor.genesis <= past.blocks
  /\ indexer.pc \in {"init", "state", "check", "canary", "fill", "reset"} =>
       indexer.genesis <= past.blocks
  /\ indexer.pc = "cursor" => indexer.hash <= past.blocks

(* Nothing is indexed yet, or the hash is that of the block before.        *)
Emptied == tables.rows = {} /\ \A e \in Elections : tables.elections[e] = Absent
CursorShape ==
  /\ cursor.next = NULL =>
       cursor = NoCursor /\ Emptied /\ ~past.reset /\ indexer.pc \in {"down", "init"}
  /\ cursor.next # NULL /\ ~past.unwitnessed =>
       \/ cursor.next = 1 /\ cursor.last = NULL
       \/ cursor.next > 1 /\ cursor.last = cursor.next - 1 /\ cursor.hash # NULL
  /\ ~past.unwitnessed /\ cursor.last # NULL /\ HashMatches => cursor.genesis = chain[1].hash

(* What the process has found out so far.                                  *)
PcShape ==
  LET pc == indexer.pc IN
  /\ pc \in {"canary", "fill"} => past.unwitnessed
  /\ pc \in {"init", "state", "check", "canary", "reset"} /\ Still =>
       indexer.genesis = chain[1].hash
  /\ pc = "init" /\ cursor.genesis = chain[1].hash => indexer.genesis = cursor.genesis
  /\ pc \in {"state", "check"} /\ Still => cursor.genesis = chain[1].hash
  /\ pc = "check" => cursor.last # NULL
  /\ pc = "reset" => ~Witnessed
  /\ pc \in LoopPcs /\ Still /\ ~past.unwitnessed => Witness
  /\ pc \in Fetching => indexer.to >= cursor.next
  /\ pc \in Fetching /\ Still => indexer.to <= Len(chain)
  /\ pc = "cursor" /\ Still /\ ~past.unwitnessed => indexer.hash = chain[indexer.to].hash

(* The tables that are not left to delete are empty.                       *)
ResetShape ==
  indexer.pc = "reset" =>
    \A k \in 1 .. 6 : indexer.left = Left(k) =>
      /\ \A row \in tables.rows : \A j \in 1 .. k - 1 : row.tx.event # DeleteOrder[j]
      /\ k = 6 => \A e \in Elections : tables.elections[e] = Absent

(* As long as a start would find nothing, the evidence is the chain's.     *)
WitnessedEvidence ==
  /\ Witnessed => Evident(chain, tables, cursor.next - 1, Len(chain))
  /\ indexer.pc = "store" /\ Witnessed =>
       \E k \in cursor.next - 1 .. Len(chain) :
         /\ indexer.logs = LogsOf(chain, cursor.next, k)
         /\ k <= indexer.to
         /\ Still => k = indexer.to
  /\ indexer.pc \in {"hash", "cursor"} /\ Witnessed /\ Still =>
       Evident(chain, tables, indexer.to, Len(chain))

(* As long as no confirmed block was dropped, the evidence is that of      *)
(* confirmed blocks.                                                       *)
ConfirmedEvidence ==
  /\ Confident => Evident(chain, tables, cursor.next - 1, Confirmed)
  /\ indexer.pc = "store" /\ Confident =>
       indexer.logs = LogsOf(chain, cursor.next, indexer.to)
  /\ indexer.pc \in {"hash", "cursor"} /\ Confident =>
       Evident(chain, tables, indexer.to, Confirmed)

(* A reset left its reason, or the incident of it.                         *)
Traced == past.reset /\ ~past.unwitnessed => cursor.resetReason \/ tables.resetIncidents # {}
Trace ==
  LET pc == indexer.pc IN
  /\ Witness => Traced
  /\ pc \in LoopPcs => Traced
  /\ pc = "init" /\ cursor.genesis = indexer.genesis /\ cursor.last = NULL => Traced
  /\ pc = "state" /\ cursor.last = NULL => Traced
  /\ pc = "clear" => tables.resetIncidents # {}
  /\ pc \in {"poll", "logs", "store"} => ~Pending
  /\ pc \in {"hash", "cursor"} /\ ~indexer.touched => ~Pending

DataInv ==
  /\ DataTypeOK /\ ChainInv /\ HashesKnown /\ CursorShape /\ PcShape /\ ResetShape
  /\ WitnessedEvidence /\ ConfirmedEvidence /\ Trace

-----------------------------------------------------------------------------
(* The chain's steps                                                       *)

ChainFrame ==
  /\ cursor' = cursor /\ tables' = tables /\ indexer' = indexer
  /\ past'.reset = past.reset /\ past'.blocks >= past.blocks
  /\ past.unwitnessed => past'.unwitnessed

(* A produced block is put on top of the chain.                            *)
LEMMA ProduceFacts ==
  ASSUME ChainTypeOK, ProduceBlock
  PROVE  /\ ChainFrame
         /\ chain' \in Seq(Blocks) /\ Len(chain') = Len(chain) + 1
         /\ \A b \in 1 .. Len(chain) : chain'[b] = chain[b]
         /\ chain'[Len(chain) + 1].hash = past.blocks + 1
         /\ past'.blocks = past.blocks + 1 /\ past.blocks \in Nat
         /\ past'.unwitnessed = past.unwitnessed
         /\ past'.rewrittenSinceStart = past.rewrittenSinceStart
         /\ past'.finalityBroken = past.finalityBroken
         /\ \/ chain'[Len(chain) + 1].tx = NoTx
            \/ Valid(chain'[Len(chain) + 1].tx)
<1>1. PICK tx \in Txs \cup {NoTx} : (tx # NoTx => Valid(tx)) /\ chain' = Append(chain, NewBlock(tx))
  BY DEF ProduceBlock
<1>2. chain \in Seq(Blocks) /\ NewBlock(tx) \in Blocks
  BY NewBlockType DEF ChainTypeOK
<1>3. /\ chain' \in Seq(Blocks) /\ Len(chain') = Len(chain) + 1
      /\ \A b \in 1 .. Len(chain) : chain'[b] = chain[b]
      /\ chain'[Len(chain) + 1] = NewBlock(tx)
  BY <1>1, <1>2, AppendProperties
<1>4. NewBlock(tx).hash = past.blocks + 1 /\ NewBlock(tx).tx = tx
  BY DEF NewBlock
<1>5. past \in Pasts /\ past.blocks \in Nat
  BY DEF ChainTypeOK, Pasts
<1>6. /\ past'.blocks = past.blocks + 1 /\ past'.unwitnessed = past.unwitnessed
      /\ past'.rewrittenSinceStart = past.rewrittenSinceStart
      /\ past'.finalityBroken = past.finalityBroken /\ past'.reset = past.reset
  BY <1>5 DEF ProduceBlock, Pasts
<1>7. ChainFrame
  BY <1>5, <1>6 DEF ChainFrame, ProduceBlock
<1>8. QED
  BY <1>1, <1>3, <1>4, <1>5, <1>6, <1>7

(* A rewrite keeps the first blocks, or starts a chain with a new hash.    *)
LEMMA RewriteFacts ==
  ASSUME ChainTypeOK, NEW keep \in 0 .. Len(chain) - 1, Rewrite(keep)
  PROVE  /\ ChainFrame
         /\ chain' \in Seq(Blocks)
         /\ keep > 0 => /\ Len(chain') = keep
                        /\ \A b \in 1 .. keep : chain'[b] = chain[b]
         /\ keep = 0 => /\ Len(chain') = 1 /\ chain'[1].tx = NoTx
                        /\ chain'[1].hash = past.blocks + 1
                        /\ past'.blocks = past.blocks + 1
         /\ past.blocks \in Nat
         /\ past'.rewrittenSinceStart
         /\ ~past'.unwitnessed => /\ ~past.unwitnessed
                                  /\ \A b \in keep + 1 .. Len(chain) :
                                       b > cursor.last => ~Fetched(b) /\ ~StoredAt(b)
         /\ ~past'.finalityBroken => /\ ~past.finalityBroken /\ keep # 0
                                     /\ ~(keep < past.height - CONFIRMATIONS)
<1>1. past \in Pasts /\ past.blocks \in Nat /\ chain \in Seq(Blocks)
  BY DEF ChainTypeOK, Pasts
<1> DEFINE late == \E b \in keep + 1 .. Len(chain) :
                     b > cursor.last /\ (Fetched(b) \/ StoredAt(b))
           broken == past.finalityBroken \/ keep < past.height - CONFIRMATIONS \/ keep = 0
           blocks == IF keep = 0 THEN past.blocks + 1 ELSE past.blocks
<1>2. past' = [past EXCEPT !.blocks = blocks, !.rewrites = @ + 1, !.finalityBroken = broken,
                           !.unwitnessed = @ \/ late, !.rewrittenSinceStart = TRUE]
  BY DEF Rewrite
<1>3. /\ past'.blocks = blocks /\ past'.finalityBroken = broken
      /\ past'.unwitnessed = (past.unwitnessed \/ late)
      /\ past'.rewrittenSinceStart = TRUE /\ past'.reset = past.reset
  <2> HIDE DEF late, broken, blocks
  <2>1. QED
    BY <1>1, <1>2 DEF Pasts
<1>4. keep > 0 => /\ chain' \in Seq(Blocks) /\ Len(chain') = keep
                  /\ \A b \in 1 .. keep : chain'[b] = chain[b]
  <2> SUFFICES ASSUME keep > 0
               PROVE  /\ chain' \in Seq(Blocks) /\ Len(chain') = keep
                      /\ \A b \in 1 .. keep : chain'[b] = chain[b]
    OBVIOUS
  <2>1. chain' = SubSeq(chain, 1, keep)
    BY DEF Rewrite
  <2>2. 1 \in Int /\ keep \in Int /\ keep - 1 + 1 = keep /\ 1 <= keep
        /\ \A b \in 1 .. keep : chain[b] \in Blocks /\ 1 + b - 1 = b
    BY <1>1
  <2>3. /\ SubSeq(chain, 1, keep) \in Seq(Blocks)
        /\ Len(SubSeq(chain, 1, keep)) = IF 1 <= keep THEN keep - 1 + 1 ELSE 0
        /\ \A b \in 1 .. keep - 1 + 1 : SubSeq(chain, 1, keep)[b] = chain[1 + b - 1]
    BY <2>2, SubSeqProperties
  <2>4. QED
    BY <2>1, <2>2, <2>3
<1>5. keep = 0 => /\ chain' \in Seq(Blocks) /\ Len(chain') = 1 /\ chain'[1].tx = NoTx
                  /\ chain'[1].hash = past.blocks + 1 /\ past'.blocks = past.blocks + 1
  <2> SUFFICES ASSUME keep = 0
               PROVE  /\ chain' \in Seq(Blocks) /\ Len(chain') = 1 /\ chain'[1].tx = NoTx
                      /\ chain'[1].hash = past.blocks + 1 /\ past'.blocks = past.blocks + 1
    OBVIOUS
  <2>1. chain' = <<NewBlock(NoTx)>> /\ NewBlock(NoTx) \in Blocks
    BY NewBlockType DEF Rewrite
  <2>2. NewBlock(NoTx).hash = past.blocks + 1 /\ NewBlock(NoTx).tx = NoTx
    BY DEF NewBlock
  <2>3. QED
    BY <1>3, <2>1, <2>2
<1>6. past'.blocks >= past.blocks
  BY <1>1, <1>3
<1>7. cursor' = cursor /\ tables' = tables /\ indexer' = indexer
  BY DEF Rewrite
<1>8. /\ past.unwitnessed => past'.unwitnessed
      /\ ~past'.unwitnessed => ~past.unwitnessed /\ ~late
      /\ ~past'.finalityBroken => ~broken
  <2> HIDE DEF late, broken
  <2>1. QED
    BY <1>3
<1>9. ~past'.finalityBroken => /\ ~past.finalityBroken /\ keep # 0
                               /\ ~(keep < past.height - CONFIRMATIONS)
  BY <1>8
<1>10. ~late => \A b \in keep + 1 .. Len(chain) : b > cursor.last => ~Fetched(b) /\ ~StoredAt(b)
  OBVIOUS
<1>11. ChainFrame
  <2> HIDE DEF late, broken, blocks
  <2>1. QED
    BY <1>3, <1>6, <1>7, <1>8 DEF ChainFrame
<1>12. QED
  <2> HIDE DEF late, broken
  <2>1. QED
    BY <1>1, <1>3, <1>4, <1>5, <1>8, <1>9, <1>10, <1>11

(* The chain stays a registry's.                                           *)
LEMMA ChainStaysValid ==
  ASSUME ChainTypeOK, ChainInv, ProduceBlock \/ \E keep \in 0 .. Len(chain) - 1 : Rewrite(keep)
  PROVE  ChainInv'
<1>1. /\ chain \in Seq(Blocks) /\ Len(chain) \in Nat
      /\ \A a, b \in DOMAIN chain : chain[a].tx = chain[b].tx /\ chain[a].tx # NoTx => a = b
      /\ \A b \in DOMAIN chain : \A e \in Elections :
           Changes(chain[b].tx, e) => \E a \in 1 .. b - 1 : Creates(chain[a].tx, e)
      /\ \A b \in DOMAIN chain : chain[b].hash <= past.blocks
      /\ DOMAIN chain = 1 .. Len(chain) /\ Len(chain) >= 1
  BY DEF ChainInv, ValidChain
<1>2. \A b \in DOMAIN chain : chain[b].hash \in Nat
  <2>1. \A b \in DOMAIN chain : chain[b] \in Blocks
    BY <1>1
  <2>2. QED
    BY <2>1 DEF Blocks
<1>3. CASE ProduceBlock
  <2> DEFINE n == Len(chain)
             tx == chain'[n + 1].tx
  <2>1. /\ chain' \in Seq(Blocks) /\ Len(chain') = n + 1 /\ DOMAIN chain' = 1 .. n + 1
        /\ \A b \in 1 .. n : chain'[b] = chain[b]
        /\ chain'[n + 1].hash = past.blocks + 1
        /\ past'.blocks = past.blocks + 1 /\ past.blocks \in Nat
        /\ tx = NoTx \/ Valid(tx)
    BY <1>3, ProduceFacts
  <2>2. tx # NoTx => \A b \in 1 .. n : chain[b].tx # tx
    BY <1>1, <2>1 DEF Valid, Mined
  <2>3. \A e \in Elections : Changes(tx, e) => \E a \in 1 .. n : Creates(chain[a].tx, e)
    BY <1>1, <2>1 DEF Changes, Creates, Valid, CreatedOnChain, Mined
  <2> HIDE DEF n, tx
  <2>4. \A b \in 1 .. n + 1 : b \in 1 .. n \/ b = n + 1
    BY <1>1 DEF n
  <2>5. \A a, b \in 1 .. n + 1 :
          chain'[a].tx = chain'[b].tx /\ chain'[a].tx # NoTx => a = b
    BY <1>1, <2>1, <2>2, <2>4 DEF tx, n
  <2>6. ASSUME NEW b \in 1 .. n + 1, NEW e \in Elections, Changes(chain'[b].tx, e)
        PROVE  \E a \in 1 .. b - 1 : Creates(chain'[a].tx, e)
    <3>1. CASE b \in 1 .. n
      <4>1. PICK a \in 1 .. b - 1 : Creates(chain[a].tx, e)
        BY <1>1, <2>1, <2>6, <3>1 DEF n
      <4>2. a \in 1 .. n
        BY <1>1, <3>1 DEF n
      <4>3. QED
        BY <2>1, <4>1, <4>2
    <3>2. CASE b = n + 1
      <4>1. PICK a \in 1 .. n : Creates(chain[a].tx, e)
        BY <2>3, <2>6, <3>2 DEF tx
      <4>2. a \in 1 .. b - 1
        BY <1>1, <3>2 DEF n
      <4>3. QED
        BY <2>1, <4>1, <4>2
    <3>3. QED
      BY <2>4, <3>1, <3>2
  <2>7. \A b \in 1 .. n + 1 : chain'[b].hash <= past'.blocks
    BY <1>1, <1>2, <2>1, <2>4 DEF n
  <2>8. Len(chain') >= 1
    BY <1>1, <2>1 DEF n
  <2>9. ValidChain(chain')
    BY <2>1, <2>5, <2>6 DEF ValidChain
  <2>10. QED
    BY <2>1, <2>7, <2>8, <2>9 DEF ChainInv
<1>4. ASSUME NEW keep \in 0 .. Len(chain) - 1, Rewrite(keep)
      PROVE  ChainInv'
  <2>1. /\ chain' \in Seq(Blocks)
        /\ keep > 0 => /\ Len(chain') = keep
                       /\ \A b \in 1 .. keep : chain'[b] = chain[b]
        /\ keep = 0 => /\ Len(chain') = 1 /\ chain'[1].tx = NoTx
                       /\ chain'[1].hash = past.blocks + 1
                       /\ past'.blocks = past.blocks + 1
        /\ past.blocks \in Nat /\ past'.blocks >= past.blocks /\ past'.blocks \in Nat
    <3>1. past'.blocks \in Nat
      <4>1. ChainTypeOK'
        BY <1>4, ChainStepTypes
      <4>2. QED
        BY <4>1 DEF ChainTypeOK, Pasts
    <3>2. QED
      BY <1>4, <3>1, RewriteFacts DEF ChainFrame
  <2>2. CASE keep > 0
    <3>1. DOMAIN chain' = 1 .. keep /\ \A b \in 1 .. keep : b \in DOMAIN chain
      BY <1>1, <2>1, <2>2
    <3>2. \A a, b \in DOMAIN chain' :
            chain'[a].tx = chain'[b].tx /\ chain'[a].tx # NoTx => a = b
      BY <1>1, <2>1, <2>2, <3>1
    <3>3. ASSUME NEW b \in DOMAIN chain', NEW e \in Elections, Changes(chain'[b].tx, e)
          PROVE  \E a \in 1 .. b - 1 : Creates(chain'[a].tx, e)
      <4>1. PICK a \in 1 .. b - 1 : Creates(chain[a].tx, e)
        BY <1>1, <2>1, <2>2, <3>1, <3>3
      <4>2. a \in 1 .. keep
        BY <3>1
      <4>3. QED
        BY <2>1, <2>2, <4>1, <4>2
    <3>4. \A b \in DOMAIN chain' : chain'[b].hash <= past'.blocks
      BY <1>1, <1>2, <2>1, <2>2, <3>1
    <3>5. ValidChain(chain')
      BY <2>1, <3>2, <3>3 DEF ValidChain
    <3>6. QED
      BY <2>1, <2>2, <3>4, <3>5 DEF ChainInv
  <2>3. CASE keep = 0
    <3>1. DOMAIN chain' = {1}
      BY <2>1, <2>3
    <3>2. ValidChain(chain')
      BY <2>1, <2>3, <3>1 DEF ValidChain, Changes
    <3>3. \A b \in DOMAIN chain' : chain'[b].hash <= past'.blocks
      BY <2>1, <2>3, <3>1
    <3>4. Len(chain') >= 1
      <4>1. Len(chain') = 1
        BY <2>1, <2>3, Zenon
      <4>2. QED
        BY <4>1
    <3>5. QED
      BY <3>2, <3>3, <3>4 DEF ChainInv
  <2>4. QED
    BY <2>2, <2>3
<1>5. QED
  BY <1>3, <1>4

(* The first block of a chain.                                             *)
LEMMA FirstBlock ==
  ASSUME ChainTypeOK, ChainInv
  PROVE  /\ chain \in Seq(Blocks) /\ Len(chain) \in Nat /\ 1 \in DOMAIN chain
         /\ DOMAIN chain = 1 .. Len(chain)
         /\ \A b \in DOMAIN chain : chain[b].hash \in Nat \ {0} /\ chain[b].hash <= past.blocks
         /\ past.blocks \in Nat
<1>1. chain \in Seq(Blocks) /\ past.blocks \in Nat
  BY DEF ChainTypeOK, Pasts
<1>2. \A b \in DOMAIN chain : chain[b] \in Blocks
  BY <1>1
<1>3. \A b \in DOMAIN chain : chain[b].hash \in Nat \ {0}
  BY <1>2 DEF Blocks
<1>4. Len(chain) \in Nat /\ 1 \in DOMAIN chain /\ DOMAIN chain = 1 .. Len(chain)
  BY <1>1 DEF ChainInv
<1>5. QED
  BY <1>1, <1>3, <1>4 DEF ChainInv

(* A new block has a hash nobody knows: producing it keeps what a start    *)
(* would find, and a rewrite makes nothing look right that did not.        *)
LEMMA ProduceWitness ==
  ASSUME ChainTypeOK, DataTypeOK, ChainInv, HashesKnown, ProduceBlock
  PROVE  /\ chain'[1] = chain[1]
         /\ HashMatches' /\ cursor.last # NULL <=> HashMatches /\ cursor.last # NULL
         /\ Witness' <=> Witness
<1> DEFINE n == Len(chain)
<1>1. /\ cursor' = cursor /\ chain' \in Seq(Blocks) /\ Len(chain') = n + 1
      /\ DOMAIN chain' = 1 .. n + 1
      /\ \A b \in 1 .. n : chain'[b] = chain[b]
      /\ chain'[n + 1].hash = past.blocks + 1
  BY ProduceFacts DEF ChainFrame
<1>2. /\ n \in Nat /\ 1 \in 1 .. n /\ DOMAIN chain = 1 .. n /\ past.blocks \in Nat
      /\ cursor.hash \in Nat /\ cursor.last \in Nat /\ cursor.hash <= past.blocks
  BY FirstBlock DEF DataTypeOK, Cursors, HashesKnown
<1> HIDE DEF n
<1>3. chain'[1] = chain[1]
  BY <1>1, <1>2
<1>4. HashMatches' <=> HashMatches
  <2>1. cursor.last \in 1 .. n + 1 <=> cursor.last \in 1 .. n \/ cursor.last = n + 1
    BY <1>2
  <2>2. cursor.last = n + 1 => chain'[cursor.last].hash # cursor.hash
    BY <1>1, <1>2
  <2>3. n + 1 \notin 1 .. n
    BY <1>2
  <2>4. QED
    BY <1>1, <1>2, <2>1, <2>2, <2>3 DEF HashMatches
<1>5. QED
  BY <1>1, <1>3, <1>4 DEF Witness

(* A reorganisation cannot make the stored hashes match a chain they did   *)
(* not match before, nor keep them matching when it rewrote their block.   *)
LEMMA RewriteWitness ==
  ASSUME ChainTypeOK, DataTypeOK, ChainInv, HashesKnown,
         NEW keep \in 0 .. Len(chain) - 1, Rewrite(keep)
  PROVE  /\ HashMatches' => HashMatches /\ keep > 0 /\ cursor.last <= keep
         /\ cursor.genesis = chain'[1].hash => keep > 0
         /\ keep > 0 => chain'[1] = chain[1]
         /\ Witness' => Witness /\ keep > 0 /\ cursor.last <= keep
<1>1. /\ cursor' = cursor /\ chain' \in Seq(Blocks)
      /\ keep > 0 => /\ Len(chain') = keep
                     /\ \A b \in 1 .. keep : chain'[b] = chain[b]
      /\ keep = 0 => Len(chain') = 1 /\ chain'[1].hash = past.blocks + 1
  BY RewriteFacts DEF ChainFrame
<1>2. /\ Len(chain) \in Nat /\ DOMAIN chain = 1 .. Len(chain) /\ past.blocks \in Nat
      /\ cursor.hash \in Nat /\ cursor.last \in Nat /\ cursor.hash <= past.blocks
      /\ cursor.genesis \in Nat /\ cursor.genesis <= past.blocks
  BY FirstBlock DEF DataTypeOK, Cursors, HashesKnown
<1>3. keep > 0 => chain'[1] = chain[1]
  BY <1>1
<1>4. cursor.genesis = chain'[1].hash => keep > 0
  BY <1>1, <1>2
<1>5. DOMAIN chain' = IF keep = 0 THEN {1} ELSE 1 .. keep
  BY <1>1
<1>6. HashMatches' => HashMatches /\ keep > 0 /\ cursor.last <= keep
  <2>1. CASE keep = 0
    BY <1>1, <1>2, <1>5, <2>1 DEF HashMatches
  <2>2. CASE keep > 0
    BY <1>1, <1>2, <1>5, <2>2 DEF HashMatches
  <2>3. QED
    BY <2>1, <2>2
<1>7. Witness' => Witness /\ keep > 0 /\ cursor.last <= keep
  BY <1>1, <1>2, <1>3, <1>4, <1>6 DEF Witness, NULL
<1>8. QED
  BY <1>3, <1>4, <1>6, <1>7

(* The chain's steps keep the shape of what is stored and remembered.      *)
LEMMA ChainShapes ==
  ASSUME ChainTypeOK, DataInv,
         ProduceBlock \/ \E keep \in 0 .. Len(chain) - 1 : Rewrite(keep)
  PROVE  DataTypeOK' /\ HashesKnown' /\ CursorShape' /\ PcShape' /\ ResetShape' /\ Trace'
<1> USE DEF DataInv
<1>1. ChainFrame
  BY ProduceFacts, RewriteFacts
<1>2. /\ cursor' = cursor /\ tables' = tables /\ indexer' = indexer
      /\ past'.reset = past.reset /\ past'.blocks >= past.blocks
      /\ past.unwitnessed => past'.unwitnessed
  BY <1>1 DEF ChainFrame
<1>3. DataTypeOK'
  BY <1>2 DEF DataTypeOK
<1>4. HashesKnown'
  <2>1. past.blocks \in Nat /\ past'.blocks \in Nat
    <3>1. ChainTypeOK'
      BY ChainStepTypes
    <3>2. QED
      BY <3>1 DEF ChainTypeOK, Pasts
  <2>2. cursor.hash \in Nat /\ cursor.genesis \in Nat
    BY DEF DataTypeOK, Cursors
  <2>3. QED
    BY <1>2, <2>1, <2>2 DEF HashesKnown, DataTypeOK
<1>5. ResetShape'
  BY <1>2 DEF ResetShape
<1>6. Emptied' <=> Emptied
  BY <1>2 DEF Emptied
<1>7. Traced => Traced'
  BY <1>2 DEF Traced
<1>8. Pending' <=> Pending
  BY <1>2 DEF Pending, StoredElections
<1>9. CASE ProduceBlock
  <2>1. /\ chain'[1] = chain[1]
        /\ HashMatches' /\ cursor.last # NULL <=> HashMatches /\ cursor.last # NULL
        /\ Witness' <=> Witness
        /\ past'.unwitnessed = past.unwitnessed
        /\ past'.rewrittenSinceStart = past.rewrittenSinceStart
        /\ Len(chain') = Len(chain) + 1 /\ Len(chain) \in Nat
        /\ \A b \in 1 .. Len(chain) : chain'[b] = chain[b]
    BY <1>9, ProduceFacts, ProduceWitness, FirstBlock
  <2>2. CursorShape'
    BY <1>2, <1>6, <2>1 DEF CursorShape
  <2>3. indexer.pc \in Fetching /\ Still =>
          /\ indexer.to \in Nat /\ cursor.next \in Nat
          /\ indexer.to <= Len(chain')
          /\ indexer.to >= 1 => chain'[indexer.to] = chain[indexer.to]
    BY <2>1 DEF PcShape, DataTypeOK, Cursors
  <2>4. indexer.pc \in Fetching => indexer.to >= 1
    <3>1. indexer.pc \in Fetching => cursor.next # NULL /\ indexer.to >= cursor.next
      BY DEF CursorShape, PcShape, Fetching
    <3>2. indexer.pc \in Fetching => indexer.to \in Nat /\ cursor.next \in Nat
      BY DEF DataTypeOK, Cursors
    <3>3. QED
      BY <3>1, <3>2 DEF NULL
  <2>5. Still' <=> Still
    BY <2>1 DEF Still
  <2>6. "cursor" \in Fetching
    BY DEF Fetching
  <2>7. Witnessed' <=> Witnessed
    BY <2>1 DEF Witnessed
  <2>8. PcShape'
    BY <1>2, <2>1, <2>3, <2>4, <2>5, <2>6, <2>7 DEF PcShape
  <2>9. Trace'
    BY <1>2, <1>7, <1>8, <2>1 DEF Trace
  <2>10. QED
    BY <1>3, <1>4, <1>5, <2>2, <2>8, <2>9
<1>10. ASSUME NEW keep \in 0 .. Len(chain) - 1, Rewrite(keep)
       PROVE  CursorShape' /\ PcShape' /\ Trace'
  <2>1. /\ HashMatches' => HashMatches /\ keep > 0 /\ cursor.last <= keep
        /\ cursor.genesis = chain'[1].hash => keep > 0
        /\ keep > 0 => chain'[1] = chain[1]
        /\ Witness' => Witness
        /\ past'.rewrittenSinceStart
    BY <1>10, RewriteFacts, RewriteWitness
  <2>2. CursorShape'
    BY <1>2, <1>6, <2>1 DEF CursorShape
  <2>3. ~Still' /\ (Witnessed' => Witnessed)
    BY <1>2, <2>1 DEF Still, Witnessed
  <2>4. PcShape'
    BY <1>2, <2>1, <2>3 DEF PcShape
  <2>5. Trace'
    BY <1>2, <1>7, <1>8, <2>1 DEF Trace
  <2>6. QED
    BY <2>2, <2>4, <2>5
<1>11. QED
  BY <1>3, <1>4, <1>5, <1>9, <1>10

(* The numbers in what is stored and remembered.                           *)
LEMMA DataNumbers ==
  ASSUME ChainTypeOK, DataInv
  PROVE  /\ cursor.next \in Nat /\ cursor.last \in Nat /\ cursor.hash \in Nat
         /\ cursor.genesis \in Nat
         /\ indexer.pc \in Fetching =>
              /\ indexer.to \in Nat /\ cursor.next >= 1 /\ indexer.to >= cursor.next
              /\ cursor.next # NULL
         /\ Witness => cursor.next >= 1 /\ cursor.next # NULL
         /\ Confident => cursor.next >= 1
         /\ tables \in Tables /\ ValidChain(chain)
<1>1. /\ cursor.next \in Nat /\ cursor.last \in Nat /\ cursor.hash \in Nat
      /\ cursor.genesis \in Nat /\ tables \in Tables
  BY DEF DataInv, DataTypeOK, Cursors
<1>2. indexer.pc \in Fetching => cursor.next # NULL /\ indexer.to >= cursor.next /\ indexer.to \in Nat
  BY DEF DataInv, DataTypeOK, CursorShape, PcShape, Fetching
<1>3. Witness => cursor.next # NULL
  <2>1. chain[1].hash # 0
    BY FirstBlock DEF DataInv
  <2>2. QED
    BY <2>1 DEF DataInv, CursorShape, Witness, NoCursor, NULL
<1>4. cursor.next # NULL => cursor.next >= 1
  BY <1>1 DEF NULL
<1>5. QED
  BY <1>1, <1>2, <1>3, <1>4 DEF DataInv, ChainInv, Confident

(* Logs of blocks two chains share are the same.                           *)
LEMMA SameLogs ==
  ASSUME NEW c, NEW d, NEW from \in Nat, from >= 1, NEW to \in Int,
         \A b \in from .. to : c[b] = d[b]
  PROVE  LogsOf(c, from, to) = LogsOf(d, from, to)
<1>1. \A i \in 1 .. to - from + 1 : from + i - 1 \in from .. to
  OBVIOUS
<1>2. \A i \in 1 .. to - from + 1 : EntryAt(c, from + i - 1) = EntryAt(d, from + i - 1)
  BY <1>1 DEF EntryAt
<1>3. QED
  BY <1>2 DEF LogsOf

(* Evidence a start would find nothing wrong with stays so.                *)
LEMMA ProduceWitnessed ==
  ASSUME ChainTypeOK, DataInv, ProduceBlock
  PROVE  WitnessedEvidence'
<1> DEFINE n == Len(chain)
           low == cursor.next - 1
<1>1. /\ cursor' = cursor /\ tables' = tables /\ indexer' = indexer
      /\ Len(chain') = n + 1 /\ n \in Nat
      /\ \A b \in 1 .. n : chain[b] = chain'[b]
      /\ Witnessed' => Witnessed
      /\ Still' <=> Still
  BY ProduceFacts, ProduceWitness, FirstBlock DEF ChainFrame, DataInv, Witnessed, Still
<1>2. /\ cursor.next \in Nat
      /\ indexer.pc \in Fetching => indexer.to \in Nat /\ indexer.to >= cursor.next
      /\ Witnessed => cursor.next >= 1
  BY DataNumbers DEF Witnessed
<1>3. Witnessed => low \in Nat
  BY <1>2
<1>4. WitnessedEvidence
  BY DEF DataInv
<1>5. Witnessed' => Evident(chain', tables, low, n + 1)
  BY <1>1, <1>3, <1>4, EvidentWider DEF WitnessedEvidence
<1>6. ASSUME indexer.pc = "store", Witnessed'
      PROVE  \E k \in low .. n + 1 :
               /\ indexer.logs = LogsOf(chain', cursor.next, k)
               /\ k <= indexer.to
               /\ Still => k = indexer.to
  <2>1. PICK k \in low .. n :
          /\ indexer.logs = LogsOf(chain, cursor.next, k)
          /\ k <= indexer.to
          /\ Still => k = indexer.to
    BY <1>1, <1>4, <1>6 DEF WitnessedEvidence
  <2>2. cursor.next >= 1 /\ k \in Int /\ \A b \in cursor.next .. k : chain[b] = chain'[b]
    BY <1>1, <1>2, <1>6
  <2>3. LogsOf(chain, cursor.next, k) = LogsOf(chain', cursor.next, k)
    BY <1>2, <2>2, SameLogs
  <2>4. QED
    BY <1>1, <2>1, <2>3
<1>7. ASSUME indexer.pc \in {"hash", "cursor"}, Witnessed', Still
      PROVE  Evident(chain', tables, indexer.to, n + 1)
  <2>1. Evident(chain, tables, indexer.to, n) /\ indexer.to \in Nat
    BY <1>1, <1>2, <1>4, <1>7 DEF WitnessedEvidence, Fetching
  <2>2. QED
    BY <1>1, <2>1, EvidentWider
<1>8. QED
  BY <1>1, <1>5, <1>6, <1>7 DEF WitnessedEvidence

(* Rows the chain no longer backs are below a cursor the hash check will   *)
(* find wrong: a reorganisation leaves that so.                            *)
LEMMA RewriteWitnessed ==
  ASSUME ChainTypeOK, DataInv, NEW keep \in 0 .. Len(chain) - 1, Rewrite(keep)
  PROVE  WitnessedEvidence'
<1> SUFFICES ASSUME Witnessed'
             PROVE  WitnessedEvidence'
  BY DEF WitnessedEvidence
<1> DEFINE n == Len(chain)
           low == cursor.next - 1
<1>1. /\ cursor' = cursor /\ tables' = tables /\ indexer' = indexer
      /\ keep > 0 => Len(chain') = keep /\ \A b \in 1 .. keep : chain'[b] = chain[b]
      /\ ~past.unwitnessed
      /\ \A b \in keep + 1 .. n : b > cursor.last => ~Fetched(b) /\ ~StoredAt(b)
      /\ ~Still'
  BY RewriteFacts DEF ChainFrame, Witnessed, Still
<1>2. Witness /\ keep > 0 /\ cursor.last <= keep
  BY RewriteWitness DEF DataInv, Witnessed
<1>3. /\ cursor.next \in Nat /\ cursor.next >= 1 /\ cursor.last \in Nat
      /\ indexer.pc \in Fetching => indexer.to \in Nat /\ indexer.to >= cursor.next
      /\ tables \in Tables /\ ValidChain(chain) /\ n \in Nat /\ keep \in Nat /\ keep + 1 <= n
  BY <1>2, DataNumbers, FirstBlock DEF DataInv
<1>4. low = cursor.last /\ low \in Nat
  BY <1>1, <1>3 DEF DataInv, CursorShape, NULL
<1>5. \A b \in keep + 1 .. n : ~Fetched(b) /\ ~StoredAt(b)
  BY <1>1, <1>2, <1>3
<1>6. \A b \in keep + 1 .. n : /\ \A row \in tables.rows : row.block # b
                               /\ \A e \in Elections : tables.elections[e].block # b
  BY <1>5 DEF StoredAt
<1>7. Evident(chain, tables, low, n)
  BY <1>1, <1>2 DEF DataInv, WitnessedEvidence, Witnessed
<1> HIDE DEF n, low
<1>8. Evident(chain, tables, low, keep)
  BY <1>2, <1>3, <1>4, <1>6, <1>7, EvidentBelow DEF n
<1>9. /\ Len(chain') = keep /\ \A b \in 1 .. keep : chain[b] = chain'[b]
  BY <1>1, <1>2
<1>10. Evident(chain', tables, low, keep)
  BY <1>3, <1>4, <1>8, <1>9, EvidentWider
<1>11. ASSUME indexer.pc = "store"
       PROVE  \E k \in low .. keep :
               /\ indexer.logs = LogsOf(chain', cursor.next, k)
               /\ k <= indexer.to
  <2>1. PICK k \in low .. n :
          /\ indexer.logs = LogsOf(chain, cursor.next, k)
          /\ k <= indexer.to
    BY <1>1, <1>2, <1>11 DEF DataInv, WitnessedEvidence, Witnessed, low, n
  <2>2. indexer.to \in Nat
    BY <1>3, <1>11 DEF Fetching
  <2>3. indexer.to <= keep
    <3>1. ~Fetched(keep + 1) /\ keep + 1 \in keep + 1 .. n
      BY <1>3, <1>5
    <3>2. QED
      BY <1>3, <1>11, <2>2, <3>1 DEF Fetched
  <2>4. k <= keep /\ k \in Int /\ k \in low .. keep
    BY <1>3, <1>4, <2>1, <2>2, <2>3
  <2>5. \A b \in cursor.next .. k : chain[b] = chain'[b]
    BY <1>3, <1>9, <2>4
  <2>6. LogsOf(chain, cursor.next, k) = LogsOf(chain', cursor.next, k)
    BY <1>3, <2>4, <2>5, SameLogs
  <2>7. QED
    BY <2>1, <2>4, <2>6
<1>12. QED
  BY <1>1, <1>9, <1>10, <1>11 DEF WitnessedEvidence, low

(* No step of the chain touches evidence of confirmed blocks.              *)
LEMMA ChainConfirmed ==
  ASSUME IInv, IInv', DataInv,
         ProduceBlock \/ \E keep \in 0 .. Len(chain) - 1 : Rewrite(keep)
  PROVE  ConfirmedEvidence'
<1> SUFFICES ASSUME Confident'
             PROVE  ConfirmedEvidence'
  BY DEF ConfirmedEvidence
<1>1. ChainTypeOK /\ ChainTypeOK' /\ cursor' = cursor /\ tables' = tables /\ indexer' = indexer
  BY ProduceFacts, RewriteFacts DEF IInv, ChainFrame
<1>2. ~past.finalityBroken
  BY <1>1, ProduceFacts, RewriteFacts DEF Confident
<1>3. Confident
  BY <1>1, <1>2 DEF Confident
<1>4. /\ Confirmed \in Nat /\ Confirmed' \in Nat /\ Confirmed >= 1
      /\ Confirmed \in {1, past.height - CONFIRMATIONS}
      /\ Confirmed' \in {1, past'.height - CONFIRMATIONS} /\ Confirmed' >= past'.height - CONFIRMATIONS
      /\ Confirmed' >= 1 /\ past.height \in Nat /\ past'.height \in Nat /\ CONFIRMATIONS \in Nat
  BY <1>1, ConfirmedNow, PastNumbers, IndexerConfigAssumption
<1>5. Sound /\ Len(chain) \in Nat
  BY <1>1, <1>2, PastNumbers DEF IInv
<1>6. Confirmed <= Len(chain)
  BY <1>4, <1>5 DEF Sound
<1>7. Confirmed' >= Confirmed /\ \A b \in 1 .. Confirmed : chain[b] = chain'[b]
  <2>1. CASE ProduceBlock
    <3>1. past'.height >= past.height
      <4>1. past'.height = IF Len(chain) < past.height THEN past.height ELSE Len(chain) + 1
        BY <1>1, <2>1 DEF ProduceBlock, ChainTypeOK, Pasts
      <4>2. QED
        BY <1>4, <1>5, <4>1
    <3>2. \A b \in 1 .. Len(chain) : chain[b] = chain'[b]
      BY <1>1, <2>1, ProduceFacts
    <3>3. QED
      BY <1>4, <1>5, <1>6, <3>1, <3>2
  <2>2. ASSUME NEW keep \in 0 .. Len(chain) - 1, Rewrite(keep)
        PROVE  Confirmed' >= Confirmed /\ \A b \in 1 .. Confirmed : chain[b] = chain'[b]
    <3>1. /\ keep # 0 /\ ~(keep < past.height - CONFIRMATIONS)
          /\ keep > 0 => \A b \in 1 .. keep : chain'[b] = chain[b]
      BY <1>1, <2>2, RewriteFacts DEF Confident
    <3>2. past'.height = past.height
      BY <1>1, <2>2 DEF Rewrite, ChainTypeOK, Pasts
    <3>3. Confirmed' = Confirmed
      BY <3>2 DEF Confirmed
    <3>4. keep > 0 /\ keep >= Confirmed
      BY <1>4, <1>5, <3>1
    <3>5. QED
      BY <1>4, <3>1, <3>3, <3>4
  <2>3. QED
    BY <2>1, <2>2
<1>8. /\ cursor.next \in Nat /\ cursor.next >= 1
      /\ indexer.pc \in Fetching => indexer.to \in Nat /\ indexer.to >= cursor.next
  BY <1>1, <1>3, DataNumbers
<1>9. indexer.pc \in {"store", "hash"} => indexer.to <= Confirmed
  BY <1>4, <1>5, <1>8 DEF Sound, IndexerSound, Fetching
<1>10. cursor.next - 1 \in Nat
  BY <1>8
<1>11. ConfirmedEvidence
  BY DEF DataInv
<1>12. Evident(chain', tables, cursor.next - 1, Confirmed')
  BY <1>3, <1>4, <1>7, <1>10, <1>11, EvidentWider DEF ConfirmedEvidence
<1>13. ASSUME indexer.pc = "store"
       PROVE  indexer.logs = LogsOf(chain', cursor.next, indexer.to)
  <2>1. indexer.to \in Nat /\ indexer.to \in Int /\ indexer.to <= Confirmed
    BY <1>8, <1>9, <1>13 DEF Fetching
  <2>2. \A b \in cursor.next .. indexer.to : chain[b] = chain'[b]
    BY <1>4, <1>7, <1>8, <2>1
  <2>3. LogsOf(chain, cursor.next, indexer.to) = LogsOf(chain', cursor.next, indexer.to)
    BY <1>8, <2>1, <2>2, SameLogs
  <2>4. QED
    BY <1>3, <1>11, <1>13, <2>3 DEF ConfirmedEvidence
<1>14. ASSUME indexer.pc \in {"hash", "cursor"}
       PROVE  Evident(chain', tables, indexer.to, Confirmed')
  <2>1. indexer.to \in Nat
    BY <1>8, <1>14 DEF Fetching
  <2>2. Evident(chain, tables, indexer.to, Confirmed)
    BY <1>3, <1>11, <1>14 DEF ConfirmedEvidence
  <2>3. QED
    BY <1>4, <1>7, <2>1, <2>2, EvidentWider
<1>15. QED
  BY <1>1, <1>12, <1>13, <1>14 DEF ConfirmedEvidence

-----------------------------------------------------------------------------
(* The process's steps                                                     *)

(* What depends on the chain and on what is stored.                        *)
LEMMA SameStored ==
  ASSUME chain' = chain, tables' = tables, cursor' = cursor,
         past'.unwitnessed = past.unwitnessed, past'.reset = past.reset,
         past'.finalityBroken = past.finalityBroken, past'.height = past.height
  PROVE  /\ Witness' <=> Witness
         /\ Witnessed' <=> Witnessed
         /\ HashMatches' <=> HashMatches
         /\ Confident' <=> Confident
         /\ Emptied' <=> Emptied
         /\ Traced' <=> Traced
         /\ Pending' <=> Pending
         /\ Confirmed' = Confirmed
         /\ ChainInv /\ past'.blocks = past.blocks => ChainInv'
<1>1. (HashMatches' <=> HashMatches) /\ (Witness' <=> Witness)
  BY DEF HashMatches, Witness
<1>2. Witnessed' <=> Witnessed
  BY <1>1 DEF Witnessed
<1>3. Confident' <=> Confident
  BY DEF Confident
<1>4. (Emptied' <=> Emptied) /\ (Traced' <=> Traced) /\ (Pending' <=> Pending)
  BY DEF Emptied, Traced, Pending, StoredElections
<1>5. Confirmed' = Confirmed
  BY DEF Confirmed
<1>6. ChainInv /\ past'.blocks = past.blocks => ChainInv'
  BY DEF ChainInv
<1>7. QED
  BY <1>1, <1>2, <1>3, <1>4, <1>5, <1>6

(* The history's fields that the process's steps touch.                    *)
LEMMA PastFields ==
  ASSUME ChainTypeOK
  PROVE  /\ Boot => /\ past'.unwitnessed = past.unwitnessed /\ past'.reset = past.reset
                    /\ past'.finalityBroken = past.finalityBroken
                    /\ past'.height = past.height /\ past'.blocks = past.blocks
                    /\ past'.rewrittenSinceStart = FALSE
         /\ Crash => /\ past'.unwitnessed = past.unwitnessed /\ past'.reset = past.reset
                     /\ past'.finalityBroken = past.finalityBroken
                     /\ past'.height = past.height /\ past'.blocks = past.blocks
                     /\ past'.rewrittenSinceStart = past.rewrittenSinceStart
         /\ FinishReset => /\ past'.unwitnessed = FALSE /\ past'.reset = TRUE
                           /\ past'.finalityBroken = past.finalityBroken
                           /\ past'.height = past.height /\ past'.blocks = past.blocks
                           /\ past'.rewrittenSinceStart = past.rewrittenSinceStart
<1>1. past \in Pasts
  BY DEF ChainTypeOK
<1>2. QED
  BY <1>1 DEF Pasts, Boot, Crash, FinishReset

(* The process starts, or dies.                                            *)
LEMMA BootKeeps ==
  ASSUME IInv, DataInv, Boot \/ Crash
  PROVE  DataInv'
<1> USE DEF DataInv
<1>1. /\ chain' = chain /\ tables' = tables /\ cursor' = cursor
      /\ past'.unwitnessed = past.unwitnessed /\ past'.reset = past.reset
      /\ past'.finalityBroken = past.finalityBroken
      /\ past'.height = past.height /\ past'.blocks = past.blocks
      /\ indexer'.pc \in {"down", "init"}
      /\ indexer'.pc = "init" => indexer'.genesis = chain[1].hash
  <2>1. CASE Boot
    BY <2>1, PastFields DEF IInv, Boot, Started
  <2>2. CASE Crash
    BY <2>2, PastFields DEF IInv, Crash, Down
  <2>3. QED
    BY <2>1, <2>2
<1>2. /\ Witness' <=> Witness
      /\ Witnessed' <=> Witnessed
      /\ HashMatches' <=> HashMatches
      /\ Confident' <=> Confident
      /\ Emptied' <=> Emptied
      /\ Traced' <=> Traced
      /\ Confirmed' = Confirmed
      /\ ChainInv'
  BY <1>1, SameStored
<1>3. chain[1].hash \in Nat /\ chain[1].hash <= past.blocks
  BY FirstBlock DEF IInv
<1>4. DataTypeOK'
  BY <1>1, <1>3 DEF DataTypeOK, Fetching
<1>5. HashesKnown'
  BY <1>1, <1>3 DEF HashesKnown
<1>6. CursorShape'
  BY <1>1, <1>2 DEF CursorShape
<1>7. PcShape'
  BY <1>1, <1>2 DEF PcShape, LoopPcs, Fetching
<1>8. ResetShape'
  BY <1>1 DEF ResetShape
<1>9. WitnessedEvidence'
  BY <1>1, <1>2 DEF WitnessedEvidence
<1>10. ConfirmedEvidence'
  BY <1>1, <1>2 DEF ConfirmedEvidence
<1>11. Trace'
  <2>1. cursor.genesis = chain[1].hash /\ cursor.last = NULL => Witness
    BY DEF Witness
  <2>2. QED
    BY <1>1, <1>2, <2>1 DEF Trace, LoopPcs
<1>12. QED
  BY <1>2, <1>4, <1>5, <1>6, <1>7, <1>8, <1>9, <1>10, <1>11

(* Evidence of no block at all.                                            *)
LEMMA EmptiedEvident ==
  ASSUME NEW c \in Seq(Blocks), NEW db, NEW high \in Nat, db.rows = {},
         \A e \in Elections : db.elections[e] = Absent
  PROVE  Evident(c, db, 0, high)
<1>1. Evidence(c, 0) = EmptyTables /\ 0 \in 0 .. high /\ 0 \in 0 .. 0
  BY EvidenceSteps
<1>2. \A e \in Elections : RowOf(c, 0, e) = Absent
  BY RowSteps
<1>3. db.rows = Evidence(c, 0).rows
  BY <1>1, EmptyTablesType
<1>4. QED
  BY <1>1, <1>2, <1>3 DEF Evident

(* What is left to delete.                                                 *)
LEMMA LeftFacts ==
  /\ Left(1) = DeleteOrder
  /\ Left(6) = <<>>
  /\ \A k \in 1 .. 5 : Left(k) # <<>> /\ Head(Left(k)) = DeleteOrder[k] /\ Tail(Left(k)) = Left(k + 1)
  /\ \A k \in 1 .. 6, j \in 1 .. 6 : Left(k) = Left(j) => k = j
<1> DEFINE Names == {DeleteOrder[1], DeleteOrder[2], DeleteOrder[3], DeleteOrder[4],
                     DeleteOrder[5]}
<1>1. /\ DeleteOrder \in Seq(Names) /\ Len(DeleteOrder) = 5
      /\ \A i \in 1 .. 5 : DeleteOrder[i] \in Names
  <2>1. Len(DeleteOrder) = 5 /\ DeleteOrder \in [1 .. 5 -> {"PhaseChanged", "SignupRecorded",
          "TallyTranscriptCommitmentPublished", "incident_logs", "elections"}]
    BY DEF DeleteOrder
  <2>2. \A i \in 1 .. 5 : DeleteOrder[i] \in Names
    OBVIOUS
  <2>3. DeleteOrder \in [1 .. 5 -> Names]
    <3> HIDE DEF Names
    <3>1. QED
      BY <2>1, <2>2
  <2>4. \A S, s : \A n \in Nat : s \in [1 .. n -> S] => s \in Seq(S)
    OBVIOUS
  <2>5. DeleteOrder \in Seq(Names)
    <3> HIDE DEF Names
    <3>1. 5 \in Nat
      OBVIOUS
    <3>2. QED
      BY <2>3, <2>4, <3>1, Zenon
  <2>6. QED
    BY <2>1, <2>2, <2>5, Zenon
<1> HIDE DEF Names
<1>2. \A k \in 1 .. 6 : /\ Left(k) \in Seq(Names) /\ Len(Left(k)) = 6 - k
                        /\ \A i \in 1 .. 6 - k : Left(k)[i] = DeleteOrder[k + i - 1]
  <2> SUFFICES ASSUME NEW k \in 1 .. 6
               PROVE  /\ Left(k) \in Seq(Names) /\ Len(Left(k)) = 6 - k
                      /\ \A i \in 1 .. 6 - k : Left(k)[i] = DeleteOrder[k + i - 1]
    OBVIOUS
  <2>1. k \in Int /\ 5 \in Int /\ \A i \in k .. 5 : DeleteOrder[i] \in Names
    BY <1>1
  <2>2. /\ SubSeq(DeleteOrder, k, 5) \in Seq(Names)
        /\ Len(SubSeq(DeleteOrder, k, 5)) = IF k <= 5 THEN 5 - k + 1 ELSE 0
        /\ \A i \in 1 .. 5 - k + 1 : SubSeq(DeleteOrder, k, 5)[i] = DeleteOrder[k + i - 1]
    BY <2>1, SubSeqProperties
  <2>3. 5 - k + 1 = 6 - k
    OBVIOUS
  <2>4. QED
    BY <2>2, <2>3 DEF Left
<1>3. Left(1) = DeleteOrder
  <2>1. Len(Left(1)) = Len(DeleteOrder) /\ \A i \in 1 .. Len(Left(1)) : Left(1)[i] = DeleteOrder[i]
    <3>1. 1 \in 1 .. 6 /\ 6 - 1 = 5 /\ \A i \in 1 .. 5 : 1 + i - 1 = i
      OBVIOUS
    <3>2. Len(Left(1)) = 5 /\ \A i \in 1 .. 5 : Left(1)[i] = DeleteOrder[1 + i - 1]
      BY <1>2, <3>1
    <3>3. QED
      BY <1>1, <3>1, <3>2
  <2>2. Left(1) \in Seq(Names)
    BY <1>2
  <2>3. QED
    BY <1>1, <2>1, <2>2, SeqEqual
<1>4. Left(6) = <<>>
  BY <1>2
<1>5. ASSUME NEW k \in 1 .. 5
      PROVE  Left(k) # <<>> /\ Head(Left(k)) = DeleteOrder[k] /\ Tail(Left(k)) = Left(k + 1)
  <2>1. /\ k \in 1 .. 6 /\ k + 1 \in 1 .. 6 /\ k + 1 - 1 = k /\ 1 \in 1 .. 6 - k /\ 6 - k >= 1
        /\ 6 - (k + 1) = (6 - k) - 1
        /\ \A i \in 1 .. 6 - (k + 1) : i + 1 \in 1 .. 6 - k /\ k + (i + 1) - 1 = (k + 1) + i - 1
    OBVIOUS
  <2>2. Left(k) \in Seq(Names) /\ Len(Left(k)) = 6 - k /\ Left(k)[1] = DeleteOrder[k]
    <3>1. Left(k)[1] = DeleteOrder[k + 1 - 1]
      BY <1>2, <2>1
    <3>2. QED
      BY <1>2, <2>1, <3>1
  <2>3. Left(k) # <<>> /\ Head(Left(k)) = DeleteOrder[k]
    BY <2>1, <2>2
  <2>4. /\ Tail(Left(k)) \in Seq(Names) /\ Len(Tail(Left(k))) = 6 - (k + 1)
        /\ \A i \in 1 .. 6 - (k + 1) : Tail(Left(k))[i] = Left(k)[i + 1]
    BY <2>1, <2>2, <2>3, HeadTailProperties
  <2>5. /\ Left(k + 1) \in Seq(Names) /\ Len(Left(k + 1)) = 6 - (k + 1)
        /\ \A i \in 1 .. 6 - (k + 1) : Left(k + 1)[i] = DeleteOrder[(k + 1) + i - 1]
    BY <1>2, <2>1
  <2>6. \A i \in 1 .. 6 - (k + 1) : Left(k)[i + 1] = DeleteOrder[k + (i + 1) - 1]
    BY <1>2, <2>1
  <2>7. \A i \in 1 .. Len(Left(k + 1)) : Left(k + 1)[i] = Tail(Left(k))[i]
    BY <2>1, <2>4, <2>5, <2>6
  <2>8. Tail(Left(k)) = Left(k + 1)
    BY <2>4, <2>5, <2>7, SeqEqual
  <2>9. QED
    BY <2>3, <2>8
<1>6. \A k \in 1 .. 6, j \in 1 .. 6 : Left(k) = Left(j) => k = j
  <2>1. \A k \in 1 .. 6 : Len(Left(k)) = 6 - k
    BY <1>2
  <2>2. \A k \in 1 .. 6, j \in 1 .. 6 : 6 - k = 6 - j => k = j
    OBVIOUS
  <2>3. QED
    BY <2>1, <2>2
<1>7. QED
  BY <1>3, <1>4, <1>5, <1>6

(* A step that changes nothing stored, and leads to a pc at which nothing  *)
(* but the stored state matters.                                           *)
LEMMA QuietStep ==
  ASSUME IInv, DataInv, chain' = chain, tables' = tables, cursor' = cursor, past' = past
  PROVE  /\ ChainInv'
         /\ indexer'.pc \notin {"store", "hash", "cursor"} =>
              WitnessedEvidence' /\ ConfirmedEvidence'
         /\ (cursor.next = NULL => indexer'.pc \in {"down", "init"}) => CursorShape'
         /\ Witness' <=> Witness
         /\ Witnessed' <=> Witnessed
         /\ HashMatches' <=> HashMatches
         /\ Confident' <=> Confident
         /\ Still' <=> Still
         /\ Traced' <=> Traced
         /\ Pending' <=> Pending
         /\ Confirmed' = Confirmed
<1> USE DEF DataInv
<1>1. /\ Witness' <=> Witness
      /\ Witnessed' <=> Witnessed
      /\ HashMatches' <=> HashMatches
      /\ Confident' <=> Confident
      /\ Emptied' <=> Emptied
      /\ Traced' <=> Traced
      /\ Pending' <=> Pending
      /\ Confirmed' = Confirmed
      /\ ChainInv'
  BY SameStored
<1>2. Still' <=> Still
  BY DEF Still
<1>3. indexer'.pc \notin {"store", "hash", "cursor"} => WitnessedEvidence'
  BY <1>1 DEF WitnessedEvidence
<1>4. indexer'.pc \notin {"store", "hash", "cursor"} => ConfirmedEvidence'
  BY <1>1 DEF ConfirmedEvidence
<1>5. (cursor.next = NULL => indexer'.pc \in {"down", "init"}) => CursorShape'
  BY <1>1 DEF CursorShape
<1>6. QED
  BY <1>1, <1>2, <1>3, <1>4, <1>5

(* The process begins to reset, when a start would find something.         *)
LEMMA ResetBegins ==
  ASSUME IInv, DataInv, chain' = chain, tables' = tables, cursor' = cursor, past' = past,
         NEW then \in {"state", "startup"}, indexer' = Resetting(indexer.genesis, then),
         ~Witnessed, cursor.next # NULL, indexer.genesis \in Nat,
         indexer.genesis <= past.blocks, Still => indexer.genesis = chain[1].hash
  PROVE  DataInv'
<1> USE DEF DataInv
<1> DEFINE genesis == indexer.genesis
<1>1. /\ indexer'.pc = "reset" /\ indexer'.genesis = genesis /\ indexer'.left = Left(1)
      /\ indexer' \in [pc : {"reset"}, genesis : Nat, left : {Left(1)},
                       then : {"state", "startup"}]
  BY LeftFacts DEF Resetting
<1> HIDE DEF genesis
<1>2. /\ ChainInv' /\ WitnessedEvidence' /\ ConfirmedEvidence'
      /\ Witness' <=> Witness
      /\ Witnessed' <=> Witnessed
      /\ Still' <=> Still
      /\ Traced' <=> Traced
      /\ CursorShape'
  BY <1>1, QuietStep
<1>3. DataTypeOK'
  BY <1>1 DEF DataTypeOK, LoopPcs, Fetching
<1>4. HashesKnown'
  BY <1>1 DEF HashesKnown, genesis
<1>5. PcShape'
  BY <1>1, <1>2 DEF PcShape, LoopPcs, Fetching, genesis
<1>6. ResetShape'
  <2>1. ASSUME NEW k \in 1 .. 6, indexer'.left = Left(k)
        PROVE  k = 1
    <3>1. Left(k) = Left(1) /\ 1 \in 1 .. 6
      BY <1>1, <2>1
    <3>2. QED
      BY <3>1, LeftFacts
  <2>2. QED
    BY <2>1 DEF ResetShape
<1>7. Trace'
  BY <1>1, <1>2 DEF Trace, LoopPcs
<1>8. QED
  BY <1>2, <1>3, <1>4, <1>5, <1>6, <1>7

(* getOrInitNextBlock.                                                     *)
LEMMA InitKeeps ==
  ASSUME IInv, DataInv, GetOrInitNextBlock
  PROVE  DataInv'
<1> USE DEF DataInv
<1> DEFINE genesis == indexer.genesis
<1>1. /\ indexer.pc = "init" /\ chain' = chain /\ tables' = tables /\ past' = past
      /\ genesis \in Nat /\ genesis <= past.blocks
      /\ Still => genesis = chain[1].hash
      /\ cursor.genesis = chain[1].hash => genesis = cursor.genesis
  BY DEF GetOrInitNextBlock, DataTypeOK, HashesKnown, PcShape
<1>2. ChainTypeOK /\ chain \in Seq(Blocks) /\ Len(chain) \in Nat
  BY FirstBlock DEF IInv
<1>3. cursor # NoCursor => cursor.next # NULL
  BY DEF CursorShape
<1>4. CASE cursor = NoCursor
  <2>1. cursor' = FreshCursor(genesis, FALSE) /\ indexer' = Started("state", genesis)
    BY <1>4 DEF GetOrInitNextBlock
  <2>2. /\ cursor'.next = 1 /\ cursor'.last = NULL /\ cursor'.hash = NULL
        /\ cursor'.genesis = genesis /\ cursor' \in Cursors
        /\ indexer'.pc = "state" /\ indexer'.genesis = genesis
    BY <1>1, <2>1 DEF FreshCursor, Started, Cursors, startBlock, NULL
  <2>3. Emptied /\ ~past.reset
    BY <1>4 DEF CursorShape, NoCursor
  <2>4. Confirmed \in Nat /\ Confirmed' = Confirmed
    BY <1>1, <1>2, PastNumbers, ConfirmedIsBlock DEF Confirmed
  <2>5. Evident(chain, tables, 0, Len(chain)) /\ Evident(chain, tables, 0, Confirmed)
    BY <1>2, <2>3, <2>4, EmptiedEvident DEF Emptied
  <2>6. cursor'.next - 1 = 0
    BY <2>2
  <2>7. WitnessedEvidence'
    BY <1>1, <2>2, <2>5, <2>6 DEF WitnessedEvidence
  <2>8. ConfirmedEvidence'
    BY <1>1, <2>2, <2>4, <2>5, <2>6 DEF ConfirmedEvidence
  <2>9. DataTypeOK'
    BY <1>1, <2>2 DEF DataTypeOK, Fetching, LoopPcs
  <2>10. ChainInv'
    BY <1>1 DEF ChainInv
  <2>11. HashesKnown'
    <3>1. past.blocks \in Nat
      BY <1>2, FirstBlock
    <3>2. QED
      BY <1>1, <2>2, <3>1 DEF HashesKnown, NULL
  <2>12. CursorShape'
    BY <2>2 DEF CursorShape, NULL
  <2>13. Still' <=> Still
    BY <1>1 DEF Still
  <2>14. PcShape'
    BY <1>1, <2>2, <2>13 DEF PcShape, LoopPcs, Fetching
  <2>15. ResetShape'
    BY <2>2 DEF ResetShape
  <2>16. Traced'
    BY <1>1, <2>3 DEF Traced
  <2>17. Trace'
    BY <2>2, <2>16 DEF Trace, LoopPcs
  <2>18. QED
    BY <2>7, <2>8, <2>9, <2>10, <2>11, <2>12, <2>14, <2>15, <2>17
<1>5. CASE cursor # NoCursor /\ cursor.genesis # genesis
  <2>1. cursor' = cursor /\ indexer' = Resetting(genesis, "state")
    BY <1>5 DEF GetOrInitNextBlock
  <2>2. ~Witnessed
    BY <1>1, <1>5 DEF Witnessed, Witness
  <2>3. QED
    BY <1>1, <1>3, <1>5, <2>1, <2>2, ResetBegins
<1>6. CASE cursor # NoCursor /\ cursor.genesis = genesis
  <2>1. cursor' = cursor /\ indexer' = Started("state", genesis)
    BY <1>6 DEF GetOrInitNextBlock
  <2>2. indexer'.pc = "state" /\ indexer'.genesis = genesis
    BY <2>1 DEF Started
  <2>3. /\ ChainInv' /\ WitnessedEvidence' /\ ConfirmedEvidence'
        /\ Witness' <=> Witness
        /\ Witnessed' <=> Witnessed
        /\ Still' <=> Still
        /\ Traced' <=> Traced
        /\ CursorShape'
    BY <1>1, <1>3, <1>6, <2>1, <2>2, QuietStep
  <2>4. DataTypeOK'
    BY <1>1, <2>1, <2>2 DEF DataTypeOK, Fetching, LoopPcs
  <2>5. HashesKnown'
    BY <1>1, <2>1, <2>2 DEF HashesKnown
  <2>6. PcShape'
    BY <1>1, <1>6, <2>1, <2>2, <2>3 DEF PcShape, LoopPcs, Fetching
  <2>7. ResetShape'
    BY <2>2 DEF ResetShape
  <2>8. Trace'
    BY <1>1, <1>6, <2>1, <2>2, <2>3 DEF Trace, LoopPcs
  <2>9. QED
    BY <2>3, <2>4, <2>5, <2>6, <2>7, <2>8
<1>7. QED
  BY <1>4, <1>5, <1>6

(* ensureEvidenceNotStale looks at the cursor.                             *)
LEMMA StateKeeps ==
  ASSUME IInv, DataInv, ReadState
  PROVE  DataInv'
<1> USE DEF DataInv
<1> DEFINE genesis == indexer.genesis
           n == Len(chain)
<1>1. /\ indexer.pc = "state" /\ chain' = chain /\ tables' = tables /\ past' = past
      /\ cursor' = cursor /\ genesis \in Nat /\ genesis <= past.blocks
      /\ Still => cursor.genesis = chain[1].hash /\ genesis = chain[1].hash
      /\ cursor.next # NULL
  BY DEF ReadState, DataTypeOK, HashesKnown, PcShape, CursorShape
<1>2. ChainTypeOK /\ chain \in Seq(Blocks) /\ n \in Nat /\ n >= 1 /\ DOMAIN chain = 1 .. n
  BY FirstBlock DEF IInv
<1>3. cursor.next \in Nat /\ cursor.last \in Nat /\ cursor.hash \in Nat
  BY <1>2, DataNumbers
<1>4. indexer' = IF AheadOf(n) THEN Resetting(genesis, "startup")
                 ELSE IF cursor.last # NULL /\ cursor.hash # NULL THEN Started("check", genesis)
                 ELSE IF cursor.next > startBlock
                      THEN [pc |-> "canary", genesis |-> genesis, head |-> n]
                 ELSE Started("startup", genesis)
  BY DEF ReadState
<1>5. CASE AheadOf(n)
  <2>1. ~Witnessed
    <3>1. ASSUME Witnessed
          PROVE  FALSE
      <4>1. cursor.last # NULL => cursor.last <= n
        BY <1>2, <1>3, <3>1 DEF Witnessed, Witness, HashMatches
      <4>2. \/ cursor.next = 1 /\ cursor.last = NULL
            \/ cursor.last = cursor.next - 1 /\ cursor.next > 1
        BY <1>1, <3>1 DEF CursorShape, Witnessed
      <4>3. QED
        BY <1>2, <1>3, <1>5, <4>1, <4>2 DEF AheadOf, startBlock, NULL
    <3>2. QED
      BY <3>1
  <2>2. QED
    BY <1>1, <1>4, <1>5, <2>1, ResetBegins
<1>6. CASE ~AheadOf(n)
  <2>1. indexer'.pc \in {"check", "canary", "startup"}
    BY <1>4, <1>6 DEF Started
  <2>2. /\ ChainInv' /\ WitnessedEvidence' /\ ConfirmedEvidence'
        /\ Witness' <=> Witness
        /\ Witnessed' <=> Witnessed
        /\ Still' <=> Still
        /\ Traced' <=> Traced
        /\ CursorShape'
    BY <1>1, <2>1, QuietStep
  <2>3. indexer'.pc \in {"check", "canary"} => indexer'.genesis = genesis
    BY <1>4, <1>6 DEF Started
  <2>4. indexer'.pc = "canary" =>
          indexer' \in [pc : {"canary", "fill"}, genesis : Nat, head : Nat]
    BY <1>1, <1>2, <1>4, <1>6 DEF Started
  <2>5. DataTypeOK'
    BY <1>1, <2>1, <2>3, <2>4 DEF DataTypeOK, Fetching, LoopPcs
  <2>6. HashesKnown'
    BY <1>1, <2>1, <2>3 DEF HashesKnown
  <2>7. indexer'.pc = "check" => cursor.last # NULL
    BY <1>4, <1>6 DEF Started
  <2>8. indexer'.pc = "canary" => past.unwitnessed
    <3>1. indexer'.pc = "canary" => cursor.next > 1 /\ (cursor.last = NULL \/ cursor.hash = NULL)
      BY <1>4, <1>6 DEF Started, startBlock
    <3>2. QED
      BY <1>1, <1>3, <3>1 DEF CursorShape, NULL
  <2>9. indexer'.pc = "startup" /\ ~past.unwitnessed => cursor.last = NULL
    <3>1. indexer'.pc = "startup" => cursor.next <= 1 \/ cursor.last = NULL
      BY <1>3, <1>4, <1>6 DEF Started, startBlock
    <3>2. QED
      BY <1>1, <1>3, <3>1 DEF CursorShape, NULL
  <2>10. indexer'.pc = "startup" /\ ~past.unwitnessed /\ Still => Witness
    BY <1>1, <2>9 DEF Witness
  <2>11. indexer'.pc \in LoopPcs => indexer'.pc = "startup"
    BY <2>1 DEF LoopPcs
  <2>12. PcShape'
    BY <1>1, <2>1, <2>2, <2>3, <2>7, <2>8, <2>10, <2>11 DEF PcShape, Fetching
  <2>13. ResetShape'
    BY <2>1 DEF ResetShape
  <2>14. past.unwitnessed => Traced
    BY DEF Traced
  <2>15. indexer'.pc = "startup" => Traced
    BY <1>1, <2>9, <2>14 DEF Trace
  <2>16. Trace'
    BY <2>1, <2>2, <2>15, <2>11 DEF Trace
  <2>17. QED
    BY <2>2, <2>5, <2>6, <2>12, <2>13, <2>16
<1>7. QED
  BY <1>5, <1>6

(* The stored hash against the chain's.                                    *)
LEMMA CheckKeeps ==
  ASSUME IInv, DataInv, CheckHash
  PROVE  DataInv'
<1> USE DEF DataInv
<1> DEFINE genesis == indexer.genesis
<1>1. /\ indexer.pc = "check" /\ chain' = chain /\ tables' = tables /\ past' = past
      /\ cursor' = cursor /\ genesis \in Nat /\ genesis <= past.blocks
      /\ Still => cursor.genesis = chain[1].hash /\ genesis = chain[1].hash
      /\ cursor.next # NULL /\ cursor.last # NULL
  BY DEF CheckHash, DataTypeOK, HashesKnown, PcShape, CursorShape
<1>2. CASE ~HashMatches
  <2>1. ~Witnessed
    BY <1>1, <1>2 DEF Witnessed, Witness
  <2>2. indexer' = Resetting(genesis, "startup")
    BY <1>2 DEF CheckHash
  <2>3. QED
    BY <1>1, <2>1, <2>2, ResetBegins
<1>3. CASE HashMatches
  <2>1. indexer'.pc = "startup"
    BY <1>3 DEF CheckHash, Started
  <2>2. /\ ChainInv' /\ WitnessedEvidence' /\ ConfirmedEvidence'
        /\ Witness' <=> Witness
        /\ Witnessed' <=> Witnessed
        /\ Still' <=> Still
        /\ Traced' <=> Traced
        /\ CursorShape'
    BY <1>1, <2>1, QuietStep
  <2>3. ~past.unwitnessed => Witness
    BY <1>1, <1>3 DEF CursorShape, Witness
  <2>4. DataTypeOK'
    BY <1>1, <2>1 DEF DataTypeOK, Fetching, LoopPcs
  <2>5. HashesKnown'
    BY <1>1, <2>1 DEF HashesKnown
  <2>6. PcShape'
    BY <1>1, <2>1, <2>2, <2>3 DEF PcShape, Fetching
  <2>7. ResetShape'
    BY <2>1 DEF ResetShape
  <2>8. Traced
    BY <2>3 DEF Traced, Trace
  <2>9. Trace'
    BY <2>1, <2>2, <2>8 DEF Trace
  <2>10. QED
    BY <2>2, <2>4, <2>5, <2>6, <2>7, <2>9
<1>4. QED
  BY <1>2, <1>3

(* The canary, which is only asked when the hash is not known.             *)
LEMMA CanaryKeeps ==
  ASSUME IInv, DataInv, CheckCanary
  PROVE  DataInv'
<1> USE DEF DataInv
<1> DEFINE genesis == indexer.genesis
<1>1. /\ indexer.pc = "canary" /\ chain' = chain /\ tables' = tables /\ past' = past
      /\ cursor' = cursor /\ genesis \in Nat /\ genesis <= past.blocks
      /\ Still => genesis = chain[1].hash
      /\ cursor.next # NULL /\ past.unwitnessed
      /\ indexer \in [pc : {"canary", "fill"}, genesis : Nat, head : Nat]
  BY DEF CheckCanary, DataTypeOK, HashesKnown, PcShape, CursorShape
<1>2. ~Witnessed
  BY <1>1 DEF Witnessed
<1>3. CASE indexer' = Resetting(genesis, "startup")
  BY <1>1, <1>2, <1>3, ResetBegins
<1>4. CASE indexer' = [indexer EXCEPT !.pc = "fill"]
  <2>1. /\ indexer'.pc = "fill" /\ indexer'.genesis = genesis
        /\ indexer' \in [pc : {"canary", "fill"}, genesis : Nat, head : Nat]
    BY <1>1, <1>4
  <2>2. /\ ChainInv' /\ WitnessedEvidence' /\ ConfirmedEvidence'
        /\ Witness' <=> Witness
        /\ Witnessed' <=> Witnessed
        /\ Still' <=> Still
        /\ Traced' <=> Traced
        /\ CursorShape'
    BY <1>1, <2>1, QuietStep
  <2>3. DataTypeOK'
    BY <1>1, <2>1 DEF DataTypeOK, Fetching, LoopPcs
  <2>4. HashesKnown'
    BY <1>1, <2>1 DEF HashesKnown
  <2>5. PcShape'
    BY <1>1, <2>1, <2>2 DEF PcShape, Fetching, LoopPcs
  <2>6. ResetShape'
    BY <2>1 DEF ResetShape
  <2>7. Trace'
    BY <1>1, <2>1, <2>2 DEF Trace, Traced, LoopPcs
  <2>8. QED
    BY <2>2, <2>3, <2>4, <2>5, <2>6, <2>7
<1>5. indexer' = Resetting(genesis, "startup") \/ indexer' = [indexer EXCEPT !.pc = "fill"]
  BY DEF CheckCanary
<1>6. QED
  BY <1>3, <1>4, <1>5

(* Start-up completing a cursor without a hash (index.ts start) keeps it.  *)
LEMMA FillKeeps ==
  ASSUME IInv, DataInv, FillHash
  PROVE  DataInv'
<1> USE DEF DataInv
<1> DEFINE k == cursor.next - 1
<1>1. /\ indexer.pc = "fill" /\ chain' = chain /\ tables' = tables /\ past' = past
      /\ cursor.next # NULL /\ past.unwitnessed /\ indexer'.pc = "startup"
      /\ \/ cursor' = cursor
         \/ /\ k \in DOMAIN chain
            /\ cursor' = [cursor EXCEPT !.last = k, !.hash = chain[k].hash]
  BY DEF FillHash, PcShape, CursorShape, Started
<1>2. /\ chain \in Seq(Blocks) /\ DOMAIN chain = 1 .. Len(chain)
      /\ \A b \in DOMAIN chain : chain[b].hash \in Nat /\ chain[b].hash <= past.blocks
      /\ cursor \in Cursors
  BY FirstBlock DEF IInv, DataTypeOK
<1>3. /\ cursor' \in Cursors /\ cursor'.next = cursor.next /\ cursor'.genesis = cursor.genesis
      /\ cursor'.resetReason = cursor.resetReason
      /\ cursor'.hash = cursor.hash \/ cursor'.hash <= past.blocks
  <2>1. CASE cursor' = cursor
    BY <1>2, <2>1
  <2>2. CASE k \in DOMAIN chain /\ cursor' = [cursor EXCEPT !.last = k, !.hash = chain[k].hash]
    <3> DEFINE h == chain[k].hash
    <3>1. k \in Nat /\ h \in Nat /\ h <= past.blocks
      BY <1>2, <2>2
    <3> HIDE DEF h, k
    <3>2. cursor' = [cursor EXCEPT !.last = k, !.hash = h]
      BY <2>2 DEF h
    <3>3. QED
      BY <1>2, <3>1, <3>2 DEF Cursors
  <2>3. QED
    BY <1>1, <2>1, <2>2
<1>4. /\ ~Witnessed' /\ Confirmed' = Confirmed
      /\ Confident' <=> Confident
      /\ Traced'
  BY <1>1, <1>3 DEF Witnessed, Confirmed, Confident, Traced
<1>5. DataTypeOK'
  BY <1>1, <1>3 DEF DataTypeOK, Fetching, LoopPcs
<1>6. ChainInv'
  BY <1>1 DEF ChainInv
<1>7. HashesKnown'
  BY <1>1, <1>3 DEF HashesKnown
<1>8. CursorShape'
  BY <1>1, <1>3 DEF CursorShape
<1>9. PcShape'
  BY <1>1 DEF PcShape, Fetching, LoopPcs
<1>10. ResetShape'
  BY <1>1 DEF ResetShape
<1>11. WitnessedEvidence'
  BY <1>4 DEF WitnessedEvidence
<1>12. ConfirmedEvidence'
  BY <1>1, <1>3, <1>4 DEF ConfirmedEvidence
<1>13. Trace'
  BY <1>1, <1>4 DEF Trace
<1>14. QED
  BY <1>5, <1>6, <1>7, <1>8, <1>9, <1>10, <1>11, <1>12, <1>13

(* Nothing is deleted unless a confirmed block was dropped.                *)
LEMMA ResetIsBroken ==
  ASSUME IInv, indexer.pc = "reset"
  PROVE  past.finalityBroken
BY DEF IInv, Sound, IndexerSound

(* resetEvidenceForContract deletes from one table.                        *)
LEMMA DeleteKeeps ==
  ASSUME IInv, DataInv, DeleteNext
  PROVE  DataInv'
<1> USE DEF DataInv
<1>1. /\ indexer.pc = "reset" /\ chain' = chain /\ cursor' = cursor /\ past' = past
      /\ indexer.left # <<>> /\ indexer' = [indexer EXCEPT !.left = Tail(@)]
      /\ cursor.next # NULL
  BY DEF DeleteNext, CursorShape
<1>2. PICK k \in 1 .. 6 : indexer \in [pc : {"reset"}, genesis : Nat, left : {Left(k)},
                                       then : {"state", "startup"}]
  BY <1>1 DEF DataTypeOK
<1>3. indexer.left = Left(k) /\ k \in 1 .. 5
  <2>1. indexer.left = Left(k)
    BY <1>2
  <2>2. k # 6
    BY <1>1, <2>1, LeftFacts
  <2>3. QED
    BY <2>1, <2>2
<1>4. Head(Left(k)) = DeleteOrder[k] /\ Tail(Left(k)) = Left(k + 1)
  BY <1>3, LeftFacts
<1>5. /\ indexer' \in [pc : {"reset"}, genesis : Nat, left : {Left(k + 1)},
                       then : {"state", "startup"}]
      /\ indexer'.left = Left(k + 1) /\ indexer'.pc = "reset"
      /\ indexer'.genesis = indexer.genesis
      /\ k + 1 \in 1 .. 6
  <2> DEFINE rest == Left(k + 1)
  <2>1. indexer' = [indexer EXCEPT !.left = rest]
    BY <1>1, <1>3, <1>4
  <2> HIDE DEF rest
  <2>2. /\ indexer' \in [pc : {"reset"}, genesis : Nat, left : {rest},
                         then : {"state", "startup"}]
        /\ indexer'.left = rest /\ indexer'.pc = "reset"
        /\ indexer'.genesis = indexer.genesis
    BY <1>2, <2>1
  <2>3. k + 1 \in 1 .. 6
    BY <1>3
  <2>4. QED
    BY <2>2, <2>3 DEF rest
<1> DEFINE table == DeleteOrder[k]
<1>6. tables' = CASE table = "elections" -> [tables EXCEPT !.elections = EmptyTables.elections]
                  [] table = "incident_logs" -> [tables EXCEPT !.resetIncidents = {}]
                  [] OTHER -> [tables EXCEPT !.rows = {row \in @ : row.tx.event # table}]
  BY <1>3, <1>4, Zenon DEF DeleteNext
<1>7. EmptyTables.elections \in [Elections -> ElectionRows]
      /\ \A e \in Elections : EmptyTables.elections[e] = Absent
  BY EmptyTablesType DEF Tables
<1>8. tables \in Tables
  BY DEF DataTypeOK
<1>9. /\ tables' \in Tables
      /\ tables'.rows \in SUBSET tables.rows
      /\ table \notin {"elections", "incident_logs"} =>
           \A row \in tables'.rows : row.tx.event # table
      /\ table = "elections" => \A e \in Elections : tables'.elections[e] = Absent
      /\ table # "elections" => tables'.elections = tables.elections
  <2> HIDE DEF table
  <2>1. CASE table = "elections"
    BY <1>6, <1>7, <1>8, <2>1 DEF Tables
  <2>2. CASE table = "incident_logs"
    BY <1>6, <1>8, <2>2 DEF Tables
  <2>3. CASE table \notin {"elections", "incident_logs"}
    <3> DEFINE rows == {row \in tables.rows : row.tx.event # table}
    <3>1. tables' = [tables EXCEPT !.rows = rows] /\ rows \in SUBSET tables.rows
      BY <1>6, <2>3
    <3>2. \A row \in rows : row.tx.event # table
      OBVIOUS
    <3> HIDE DEF rows
    <3>3. QED
      BY <1>8, <2>3, <3>1, <3>2 DEF Tables
  <2>4. QED
    BY <2>1, <2>2, <2>3
<1>10. (k = 5 <=> table = "elections") /\ (k = 4 <=> table = "incident_logs")
  BY <1>3 DEF DeleteOrder
<1> HIDE DEF table
<1>11. ~Witnessed /\ ~Witnessed'
  BY <1>1 DEF PcShape, Witnessed, Witness, HashMatches
<1>12. ~Confident'
  BY <1>1, ResetIsBroken DEF Confident
<1>13. DataTypeOK'
  BY <1>1, <1>5, <1>9 DEF DataTypeOK, LoopPcs, Fetching
<1>14. ChainInv'
  BY <1>1 DEF ChainInv
<1>15. HashesKnown'
  BY <1>1, <1>5 DEF HashesKnown
<1>16. CursorShape'
  BY <1>1 DEF CursorShape, HashMatches
<1>17. PcShape'
  BY <1>1, <1>5, <1>11 DEF PcShape, LoopPcs, Fetching, Still
<1>18. ResetShape'
  <2> SUFFICES ASSUME NEW j \in 1 .. 6, indexer'.left = Left(j)
               PROVE  /\ \A row \in tables'.rows : \A i \in 1 .. j - 1 :
                           row.tx.event # DeleteOrder[i]
                      /\ j = 6 => \A e \in Elections : tables'.elections[e] = Absent
    BY DEF ResetShape
  <2>1. j = k + 1
    BY <1>5, LeftFacts
  <2>2. ASSUME NEW row \in tables'.rows, NEW i \in 1 .. j - 1
        PROVE  row.tx.event # DeleteOrder[i]
    <3>1. CASE i = k
      <4>1. CASE k \in {4, 5}
        <5>1. row \in Rows
          BY <1>9 DEF Tables
        <5>2. row.tx \in Txs
          BY <5>1 DEF Rows
        <5>3. row.tx.event \notin {"incident_logs", "elections"}
          BY <5>2, TxFields
        <5>4. QED
          BY <1>10, <3>1, <4>1, <5>3 DEF table
      <4>2. CASE k \notin {4, 5}
        BY <1>9, <1>10, <3>1, <4>2 DEF table
      <4>3. QED
        BY <4>1, <4>2
    <3>2. CASE i # k
      <4>1. i \in 1 .. k - 1 /\ row \in tables.rows /\ k \in 1 .. 6
        BY <1>3, <1>9, <2>1, <3>2
      <4>2. QED
        BY <1>1, <1>3, <4>1 DEF ResetShape
    <3>3. QED
      BY <3>1, <3>2
  <2>3. j = 6 => \A e \in Elections : tables'.elections[e] = Absent
    BY <1>3, <1>9, <1>10, <2>1
  <2>4. QED
    BY <2>2, <2>3
<1>19. WitnessedEvidence'
  BY <1>11 DEF WitnessedEvidence
<1>20. ConfirmedEvidence'
  BY <1>12 DEF ConfirmedEvidence
<1>21. Trace'
  <2>1. Witness' => Traced'
    BY <1>11 DEF Witnessed, Traced
  <2>2. QED
    BY <1>5, <2>1 DEF Trace, LoopPcs
<1>22. QED
  BY <1>13, <1>14, <1>15, <1>16, <1>17, <1>18, <1>19, <1>20, <1>21

(* The reset is over, and its reason is kept.                              *)
LEMMA FinishKeeps ==
  ASSUME IInv, DataInv, FinishReset
  PROVE  DataInv'
<1> USE DEF DataInv
<1> DEFINE genesis == indexer.genesis
<1>1. /\ indexer.pc = "reset" /\ chain' = chain /\ tables' = tables
      /\ indexer.left = <<>>
      /\ genesis \in Nat /\ genesis <= past.blocks
      /\ Still => genesis = chain[1].hash
      /\ cursor' = FreshCursor(genesis, TRUE) /\ indexer' = Started(indexer.then, genesis)
  BY DEF FinishReset, DataTypeOK, HashesKnown, PcShape
<1>2. /\ past'.unwitnessed = FALSE /\ past'.reset = TRUE
      /\ past'.finalityBroken = past.finalityBroken
      /\ past'.height = past.height /\ past'.blocks = past.blocks
      /\ past'.rewrittenSinceStart = past.rewrittenSinceStart
  BY PastFields DEF IInv
<1>3. /\ cursor'.next = 1 /\ cursor'.last = NULL /\ cursor'.hash = NULL
      /\ cursor'.genesis = genesis /\ cursor' \in Cursors /\ cursor'.resetReason = TRUE
  BY <1>1 DEF FreshCursor, Cursors, startBlock, NULL
<1>4. PICK k \in 1 .. 6 : indexer \in [pc : {"reset"}, genesis : Nat, left : {Left(k)},
                                       then : {"state", "startup"}]
  BY <1>1 DEF DataTypeOK
<1>5. k = 6 /\ indexer.left = Left(6)
  <2>1. indexer.left = Left(k)
    BY <1>4
  <2>2. k \in 1 .. 5 => Left(k) # <<>>
    BY LeftFacts
  <2>3. QED
    BY <1>1, <2>1, <2>2
<1>6. indexer'.pc \in {"state", "startup"} /\ (indexer'.pc = "state" => indexer'.genesis = genesis)
  BY <1>1, <1>4 DEF Started
<1>7. tables.rows = {} /\ \A e \in Elections : tables.elections[e] = Absent
  <2>1. /\ \A row \in tables.rows : \A j \in 1 .. 6 - 1 : row.tx.event # DeleteOrder[j]
        /\ \A e \in Elections : tables.elections[e] = Absent
    BY <1>1, <1>5 DEF ResetShape
  <2>2. ASSUME NEW row \in tables.rows
        PROVE  FALSE
    <3>1. row \in Rows
      BY DEF DataTypeOK, Tables
    <3>2. row.tx \in Txs /\ row.tx.event # "ElectionCreated"
      BY <3>1 DEF Rows
    <3>3. row.tx.event \in {"PhaseChanged", "SignupRecorded",
                           "TallyTranscriptCommitmentPublished"}
      BY <3>2, TxFields
    <3>4. /\ row.tx.event # DeleteOrder[1] /\ row.tx.event # DeleteOrder[2]
          /\ row.tx.event # DeleteOrder[3]
      BY <2>1
    <3>5. QED
      BY <3>3, <3>4 DEF DeleteOrder
  <2>3. QED
    BY <2>1, <2>2
<1>8. /\ chain \in Seq(Blocks) /\ Len(chain) \in Nat /\ Confirmed \in Nat
      /\ Confirmed' = Confirmed
  BY <1>2, FirstBlock, PastNumbers, ConfirmedIsBlock DEF IInv, Confirmed
<1>9. Evident(chain, tables, 0, Len(chain))
  BY <1>7, <1>8, EmptiedEvident
<1>10. cursor'.next - 1 = 0
  BY <1>3
<1>11. ~Confident'
  BY <1>1, <1>2, ResetIsBroken DEF Confident
<1>12. Traced'
  BY <1>3 DEF Traced
<1>13. Still' <=> Still
  BY <1>2 DEF Still
<1>14. Still => Witness'
  BY <1>1, <1>3 DEF Witness
<1>15. DataTypeOK'
  BY <1>1, <1>3, <1>6 DEF DataTypeOK, Fetching, LoopPcs
<1>16. ChainInv'
  BY <1>1, <1>2 DEF ChainInv
<1>17. HashesKnown'
  <2>1. past.blocks \in Nat
    BY FirstBlock DEF IInv
  <2>2. cursor'.hash <= past'.blocks /\ cursor'.genesis <= past'.blocks
    <3>1. cursor'.hash = 0 /\ 0 <= past.blocks /\ past'.blocks = past.blocks
      BY <1>2, <1>3, <2>1 DEF NULL
    <3>2. cursor'.genesis = genesis /\ genesis <= past.blocks
      BY <1>1, <1>3
    <3> HIDE DEF genesis
    <3>3. QED
      BY <3>1, <3>2
  <2>3. indexer'.pc = "state" => indexer'.genesis <= past'.blocks
    BY <1>1, <1>2, <1>6
  <2>4. QED
    BY <1>6, <2>2, <2>3 DEF HashesKnown
<1>18. CursorShape'
  BY <1>3 DEF CursorShape, NULL
<1>19. PcShape'
  BY <1>1, <1>3, <1>6, <1>13, <1>14 DEF PcShape, Fetching
<1>20. ResetShape'
  BY <1>6 DEF ResetShape
<1>21. WitnessedEvidence'
  BY <1>1, <1>6, <1>9, <1>10 DEF WitnessedEvidence
<1>22. ConfirmedEvidence'
  BY <1>11 DEF ConfirmedEvidence
<1>23. Trace'
  BY <1>6, <1>12 DEF Trace
<1>24. QED
  BY <1>15, <1>16, <1>17, <1>18, <1>19, <1>20, <1>21, <1>22, <1>23

(* Evidence is told by the rows and the elections.                         *)
LEMMA EvidentSame ==
  ASSUME NEW c, NEW db, NEW db2, NEW low, NEW high, db2.rows = db.rows,
         db2.elections = db.elections, Evident(c, db, low, high)
  PROVE  Evident(c, db2, low, high)
BY DEF Evident

(* The incident of a reset is written, and its reason forgotten after it.  *)
LEMMA MaterializeKeeps ==
  ASSUME IInv, DataInv, MaterializePendingIndexerResetIncidents
  PROVE  DataInv'
<1> USE DEF DataInv
<1>1. /\ indexer.pc \in {"startup", "refresh"} /\ chain' = chain /\ cursor' = cursor
      /\ past' = past /\ cursor.next # NULL /\ tables \in Tables
  BY DEF MaterializePendingIndexerResetIncidents, CursorShape, DataTypeOK
<1>2. Traced /\ (Still /\ ~past.unwitnessed => Witness)
  BY <1>1 DEF Trace, PcShape, LoopPcs
<1>3. CASE ~Pending
  <2>1. tables' = tables /\ indexer'.pc = "poll"
    BY <1>3 DEF MaterializePendingIndexerResetIncidents
  <2>2. /\ ChainInv' /\ WitnessedEvidence' /\ ConfirmedEvidence'
        /\ Witness' <=> Witness
        /\ Witnessed' <=> Witnessed
        /\ Still' <=> Still
        /\ Traced' <=> Traced
        /\ Pending' <=> Pending
        /\ CursorShape'
    BY <1>1, <2>1, QuietStep
  <2>3. DataTypeOK'
    BY <1>1, <2>1 DEF DataTypeOK, Fetching, LoopPcs
  <2>4. HashesKnown'
    BY <1>1, <2>1 DEF HashesKnown
  <2>5. PcShape'
    BY <1>1, <1>2, <2>1, <2>2 DEF PcShape, Fetching
  <2>6. ResetShape'
    BY <2>1 DEF ResetShape
  <2>7. Trace'
    BY <1>2, <1>3, <2>1, <2>2 DEF Trace
  <2>8. QED
    BY <2>2, <2>3, <2>4, <2>5, <2>6, <2>7
<1>4. CASE Pending
  <2> DEFINE incidents == tables.resetIncidents \cup StoredElections
  <2>1. /\ tables' = [tables EXCEPT !.resetIncidents = incidents] /\ indexer'.pc = "clear"
    BY <1>4 DEF MaterializePendingIndexerResetIncidents
  <2>2. incidents # {} /\ incidents \in SUBSET Elections
    BY <1>1, <1>4 DEF Pending, StoredElections, Tables
  <2> HIDE DEF incidents
  <2>3. /\ tables' \in Tables /\ tables'.rows = tables.rows
        /\ tables'.elections = tables.elections /\ tables'.resetIncidents # {}
    BY <1>1, <2>1, <2>2 DEF Tables
  <2>4. /\ Witness' <=> Witness
        /\ Witnessed' <=> Witnessed
        /\ Still' <=> Still
        /\ Confident' <=> Confident
        /\ Confirmed' = Confirmed
        /\ HashMatches' <=> HashMatches
    BY <1>1 DEF Witness, Witnessed, HashMatches, Still, Confident, Confirmed
  <2>5. ChainInv'
    BY <1>1 DEF ChainInv
  <2>6. DataTypeOK'
    BY <1>1, <2>1, <2>3 DEF DataTypeOK, Fetching, LoopPcs
  <2>7. HashesKnown'
    BY <1>1, <2>1 DEF HashesKnown
  <2>8. CursorShape'
    BY <1>1, <2>4 DEF CursorShape
  <2>9. PcShape'
    BY <1>1, <1>2, <2>1, <2>4 DEF PcShape, Fetching
  <2>10. ResetShape'
    BY <2>1 DEF ResetShape
  <2>11. WitnessedEvidence'
    <3>1. Witnessed => Evident(chain, tables', cursor.next - 1, Len(chain))
      BY <2>3, EvidentSame DEF WitnessedEvidence
    <3>2. QED
      BY <1>1, <2>1, <2>4, <3>1 DEF WitnessedEvidence
  <2>12. ConfirmedEvidence'
    <3>1. Confident => Evident(chain, tables', cursor.next - 1, Confirmed)
      BY <2>3, EvidentSame DEF ConfirmedEvidence
    <3>2. QED
      BY <1>1, <2>1, <2>4, <3>1 DEF ConfirmedEvidence
  <2>13. Traced'
    BY <2>3 DEF Traced
  <2>14. Trace'
    BY <2>1, <2>3, <2>13 DEF Trace
  <2>15. QED
    BY <2>5, <2>6, <2>7, <2>8, <2>9, <2>10, <2>11, <2>12, <2>14
<1>5. QED
  BY <1>3, <1>4

(* Start-up forgetting the reset reason once traced keeps it.              *)
LEMMA ClearKeeps ==
  ASSUME IInv, DataInv, ClearResetReason
  PROVE  DataInv'
<1> USE DEF DataInv
<1>1. /\ indexer.pc = "clear" /\ chain' = chain /\ tables' = tables
      /\ past' = past /\ cursor.next # NULL /\ cursor \in Cursors
      /\ cursor' = [cursor EXCEPT !.resetReason = FALSE] /\ indexer'.pc = "poll"
  BY DEF ClearResetReason, CursorShape, DataTypeOK
<1>2. tables.resetIncidents # {} /\ (Still /\ ~past.unwitnessed => Witness)
  BY <1>1 DEF Trace, PcShape, LoopPcs
<1>3. /\ cursor' \in Cursors /\ cursor'.next = cursor.next /\ cursor'.last = cursor.last
      /\ cursor'.hash = cursor.hash /\ cursor'.genesis = cursor.genesis
      /\ cursor'.resetReason = FALSE
  BY <1>1 DEF Cursors
<1>4. /\ Witness' <=> Witness
      /\ Witnessed' <=> Witnessed
      /\ Still' <=> Still
      /\ Confident' <=> Confident
      /\ Confirmed' = Confirmed
      /\ HashMatches' <=> HashMatches
  BY <1>1, <1>3 DEF Witness, Witnessed, HashMatches, Still, Confident, Confirmed
<1>5. ChainInv'
  BY <1>1 DEF ChainInv
<1>6. DataTypeOK'
  BY <1>1, <1>3 DEF DataTypeOK, Fetching, LoopPcs
<1>7. HashesKnown'
  BY <1>1, <1>3 DEF HashesKnown
<1>8. CursorShape'
  BY <1>1, <1>3, <1>4 DEF CursorShape
<1>9. PcShape'
  BY <1>1, <1>2, <1>4 DEF PcShape, Fetching
<1>10. ResetShape'
  BY <1>1 DEF ResetShape
<1>11. WitnessedEvidence'
  BY <1>1, <1>3, <1>4 DEF WitnessedEvidence
<1>12. ConfirmedEvidence'
  BY <1>1, <1>3, <1>4 DEF ConfirmedEvidence
<1>13. Traced' /\ ~Pending'
  BY <1>1, <1>2, <1>3 DEF Traced, Pending
<1>14. Trace'
  BY <1>1, <1>13 DEF Trace
<1>15. QED
  BY <1>5, <1>6, <1>7, <1>8, <1>9, <1>10, <1>11, <1>12, <1>14

(* A batch is cut to the confirmed blocks.                                 *)
LEMMA PollKeeps ==
  ASSUME IInv, DataInv, Poll
  PROVE  DataInv'
<1> USE DEF DataInv
<1> DEFINE to == SmallerOf(target, cursor.next + BATCH_SIZE - 1)
<1>1. /\ indexer.pc = "poll" /\ chain' = chain /\ tables' = tables /\ cursor' = cursor
      /\ past' = past /\ cursor.next # NULL /\ cursor.next \in Nat
      /\ cursor.next <= target /\ indexer' = [pc |-> "logs", to |-> to]
  BY DEF Poll, CursorShape, DataTypeOK, Cursors
<1>2. Traced /\ ~Pending /\ (Still /\ ~past.unwitnessed => Witness)
  BY <1>1 DEF Trace, PcShape, LoopPcs
<1>3. to \in Nat /\ to >= cursor.next /\ to <= Len(chain)
  <2>1. Len(chain) \in Nat /\ Len(chain) >= 1 /\ CONFIRMATIONS \in Nat /\ BATCH_SIZE \in Nat \ {0}
    BY FirstBlock, IndexerConfigAssumption DEF IInv, ChainInv
  <2>2. target \in {1, Len(chain) - CONFIRMATIONS} /\ target \in Int
    BY <2>1, LargerOfBounds DEF target, startBlock
  <2>3. cursor.next + BATCH_SIZE - 1 \in Int /\ cursor.next + BATCH_SIZE - 1 >= cursor.next
    BY <1>1, <2>1
  <2>4. /\ to \in {target, cursor.next + BATCH_SIZE - 1} /\ to <= target
    BY <2>2, <2>3, SmallerOfBounds
  <2> HIDE DEF to
  <2>5. QED
    BY <1>1, <2>1, <2>2, <2>3, <2>4
<1> HIDE DEF to
<1>4. indexer'.pc = "logs" /\ indexer'.to = to
  BY <1>1
<1>5. /\ ChainInv' /\ WitnessedEvidence' /\ ConfirmedEvidence'
      /\ Witness' <=> Witness
      /\ Witnessed' <=> Witnessed
      /\ Still' <=> Still
      /\ Traced' <=> Traced
      /\ Pending' <=> Pending
      /\ CursorShape'
  BY <1>1, <1>4, QuietStep
<1>6. DataTypeOK'
  BY <1>1, <1>3, <1>4 DEF DataTypeOK, LoopPcs
<1>7. HashesKnown'
  BY <1>1, <1>4 DEF HashesKnown
<1>8. PcShape'
  BY <1>1, <1>2, <1>3, <1>4, <1>5 DEF PcShape
<1>9. ResetShape'
  BY <1>4 DEF ResetShape
<1>10. Trace'
  BY <1>2, <1>4, <1>5 DEF Trace
<1>11. QED
  BY <1>5, <1>6, <1>7, <1>8, <1>9, <1>10

(* Whatever the range, the logs of it are a sequence.                      *)
LEMMA LogsInType ==
  ASSUME NEW c \in Seq(Blocks), NEW from \in Nat, from >= 1, NEW to \in Nat, to <= Len(c)
  PROVE  LogsOf(c, from, to) \in Seq(Entries)
<1>1. CASE from - 1 <= to
  BY <1>1, LogsOfBlocks
<1>2. CASE to < from - 1
  <2>1. 1 .. to - from + 1 = 1 .. 0
    BY <1>2
  <2>2. LogsOf(c, from, to) = [i \in 1 .. 0 |-> EntryAt(c, from + i - 1)]
    BY <2>1 DEF LogsOf
  <2>3. LogsOf(c, from, to) = <<>>
    BY <2>2
  <2>4. QED
    BY <2>3
<1>3. QED
  BY <1>1, <1>2

(* The poll's getLogs keeps it: what was read is of the chain as it is.    *)
LEMMA GetLogsKeeps ==
  ASSUME IInv, DataInv, GetLogs
  PROVE  DataInv'
<1> USE DEF DataInv
<1> DEFINE to == indexer.to
           k == SmallerOf(to, Len(chain))
           logs == LogsOf(chain, cursor.next, k)
<1>1. /\ indexer.pc = "logs" /\ chain' = chain /\ tables' = tables /\ cursor' = cursor
      /\ past' = past /\ cursor.next # NULL
      /\ indexer' = [pc |-> "store", to |-> to, logs |-> logs]
  BY LogsInChain DEF GetLogs, CursorShape
<1>2. Traced /\ ~Pending /\ (Still /\ ~past.unwitnessed => Witness)
      /\ (Still => to <= Len(chain))
  BY <1>1 DEF Trace, PcShape, LoopPcs, Fetching
<1>3. /\ chain \in Seq(Blocks) /\ Len(chain) \in Nat /\ to \in Nat /\ cursor.next \in Nat
      /\ cursor.next >= 1 /\ to >= cursor.next
  BY <1>1, FirstBlock, DataNumbers DEF IInv, Fetching
<1>4. k \in {to, Len(chain)} /\ k <= to /\ k <= Len(chain)
  BY <1>3, SmallerOfBounds
<1>5. logs \in Seq(Entries)
  <2> HIDE DEF k
  <2>1. k \in Nat
    BY <1>3, <1>4
  <2>2. QED
    BY <1>3, <1>4, <2>1, LogsInType
<1>6. indexer'.pc = "store" /\ indexer'.to = to /\ indexer'.logs = logs
  BY <1>1
<1>7. Witnessed => \E j \in cursor.next - 1 .. Len(chain) :
        /\ logs = LogsOf(chain, cursor.next, j)
        /\ j <= to
        /\ Still => j = to
  <2> SUFFICES ASSUME Witnessed
               PROVE  /\ k \in cursor.next - 1 .. Len(chain)
                      /\ k <= to /\ (Still => k = to)
    OBVIOUS
  <2>1. Evident(chain, tables, cursor.next - 1, Len(chain))
    BY DEF WitnessedEvidence
  <2>2. cursor.next - 1 <= Len(chain)
    BY <1>3, <2>1 DEF Evident
  <2>3. Still => k = to
    BY <1>2, <1>3 DEF SmallerOf
  <2> HIDE DEF k, to
  <2>4. QED
    BY <1>3, <1>4, <2>2, <2>3
<1>8. Confident => logs = LogsOf(chain, cursor.next, to)
  <2> SUFFICES ASSUME Confident
               PROVE  k = to
    OBVIOUS
  <2>1. to <= Confirmed /\ Confirmed <= Len(chain) /\ Confirmed \in Nat
    <3>1. Confirmed \in Nat
      BY PastNumbers, ConfirmedIsBlock DEF IInv, Confirmed
    <3>2. QED
      BY <1>1, <1>3, <3>1, PastNumbers DEF Confident, IInv, Sound, IndexerSound
  <2>2. to <= Len(chain)
    BY <1>3, <2>1
  <2>3. QED
    BY <1>3, <2>2 DEF SmallerOf
<1> HIDE DEF logs, k, to
<1>9. /\ ChainInv'
      /\ Witness' <=> Witness
      /\ Witnessed' <=> Witnessed
      /\ Still' <=> Still
      /\ Traced' <=> Traced
      /\ Pending' <=> Pending
      /\ Confident' <=> Confident
      /\ Confirmed' = Confirmed
      /\ CursorShape'
  BY <1>1, QuietStep
<1>10. DataTypeOK'
  BY <1>1, <1>3, <1>5, <1>6 DEF DataTypeOK, LoopPcs
<1>11. HashesKnown'
  BY <1>1, <1>6 DEF HashesKnown
<1>12. PcShape'
  BY <1>1, <1>2, <1>3, <1>6, <1>9 DEF PcShape
<1>13. ResetShape'
  BY <1>6 DEF ResetShape
<1>14. WitnessedEvidence'
  BY <1>1, <1>6, <1>7, <1>9 DEF WitnessedEvidence
<1>15. ConfirmedEvidence'
  BY <1>1, <1>6, <1>8, <1>9 DEF ConfirmedEvidence
<1>16. Trace'
  BY <1>2, <1>6, <1>9 DEF Trace
<1>17. QED
  BY <1>9, <1>10, <1>11, <1>12, <1>13, <1>14, <1>15, <1>16

(* A batch is stored.                                                      *)
LEMMA StoreKeeps ==
  ASSUME IInv, DataInv, StoreLogs
  PROVE  DataInv'
<1> USE DEF DataInv
<1> DEFINE to == indexer.to
           logs == indexer.logs
           low == cursor.next - 1
<1>1. /\ indexer.pc = "store" /\ chain' = chain /\ cursor' = cursor /\ past' = past
      /\ cursor.next # NULL /\ tables' = Replay(tables, logs)
      /\ indexer' = [pc |-> "hash", to |-> to, touched |-> Holds(logs)]
      /\ tables \in Tables /\ logs \in Seq(Entries)
  BY DEF StoreLogs, CursorShape, DataTypeOK
<1>2. Traced /\ ~Pending /\ (Still /\ ~past.unwitnessed => Witness)
      /\ (Still => to <= Len(chain))
  BY <1>1 DEF Trace, PcShape, LoopPcs, Fetching
<1>3. /\ chain \in Seq(Blocks) /\ Len(chain) \in Nat /\ to \in Nat /\ cursor.next \in Nat
      /\ cursor.next >= 1 /\ to >= cursor.next /\ ValidChain(chain)
  BY <1>1, FirstBlock, DataNumbers DEF IInv, Fetching
<1>4. /\ indexer'.pc = "hash" /\ indexer'.to = to /\ (indexer'.touched <=> Holds(logs))
  BY <1>1
<1>5. /\ tables' \in Tables /\ tables'.resetIncidents = tables.resetIncidents
      /\ ~Holds(logs) => tables' = tables
  BY <1>1, ReplayKeeps
<1>6. ASSUME NEW k \in Nat, NEW high \in Nat, low <= k, k <= high, high <= Len(chain),
             logs = LogsOf(chain, cursor.next, k), Evident(chain, tables, low, high)
      PROVE  Evident(chain, tables', k, high)
  BY <1>1, <1>3, <1>6, StoreEvident
<1>7. ASSUME Witnessed
      PROVE  /\ Evident(chain, tables', low, Len(chain))
             /\ Still => Evident(chain, tables', to, Len(chain))
  <2>1. PICK k \in low .. Len(chain) : /\ logs = LogsOf(chain, cursor.next, k)
                                       /\ k <= to
                                       /\ Still => k = to
    BY <1>1, <1>7 DEF WitnessedEvidence
  <2>2. low \in Nat /\ k \in Nat /\ low <= k /\ k <= Len(chain)
    BY <1>3
  <2>3. Evident(chain, tables, low, Len(chain))
    BY <1>7 DEF WitnessedEvidence
  <2> HIDE DEF low, to
  <2>4. Evident(chain, tables', k, Len(chain))
    BY <1>3, <1>6, <2>1, <2>2, <2>3
  <2>5. Evident(chain, tables', low, Len(chain))
    BY <1>3, <2>2, <2>4, EvidentWider
  <2>6. QED
    BY <2>1, <2>4, <2>5
<1>8. ASSUME Confident
      PROVE  /\ Evident(chain, tables', low, Confirmed)
             /\ Evident(chain, tables', to, Confirmed)
  <2>1. Confirmed \in Nat
    BY PastNumbers, ConfirmedIsBlock DEF IInv, Confirmed
  <2>2. to <= Confirmed /\ Confirmed <= Len(chain)
    BY <1>1, <1>3, <1>8, <2>1, PastNumbers DEF Confident, IInv, Sound, IndexerSound
  <2>3. logs = LogsOf(chain, cursor.next, to) /\ Evident(chain, tables, low, Confirmed)
    BY <1>1, <1>8 DEF ConfirmedEvidence
  <2>4. low \in Nat /\ low <= to
    BY <1>3
  <2> HIDE DEF low, to
  <2>5. Evident(chain, tables', to, Confirmed)
    BY <1>3, <1>6, <2>1, <2>2, <2>3, <2>4
  <2>6. Evident(chain, tables', low, Confirmed)
    BY <1>3, <2>1, <2>4, <2>5, EvidentWider
  <2>7. QED
    BY <2>5, <2>6
<1> HIDE DEF logs, to
<1>9. /\ Witness' <=> Witness
      /\ Witnessed' <=> Witnessed
      /\ Still' <=> Still
      /\ Confident' <=> Confident
      /\ Confirmed' = Confirmed
      /\ HashMatches' <=> HashMatches
      /\ Traced' <=> Traced
  BY <1>1, <1>5 DEF Witness, Witnessed, HashMatches, Still, Confident, Confirmed, Traced
<1>10. ~Holds(logs) => ~Pending'
  BY <1>1, <1>2, <1>5 DEF Pending, StoredElections
<1>11. DataTypeOK'
  BY <1>1, <1>3, <1>4, <1>5 DEF DataTypeOK, LoopPcs
<1>12. ChainInv'
  BY <1>1 DEF ChainInv
<1>13. HashesKnown'
  BY <1>1, <1>4 DEF HashesKnown
<1>14. CursorShape'
  BY <1>1, <1>9 DEF CursorShape
<1>15. PcShape'
  BY <1>1, <1>2, <1>3, <1>4, <1>9 DEF PcShape
<1>16. ResetShape'
  BY <1>4 DEF ResetShape
<1>17. WitnessedEvidence'
  BY <1>1, <1>4, <1>7, <1>9 DEF WitnessedEvidence
<1>18. ConfirmedEvidence'
  BY <1>1, <1>4, <1>8, <1>9 DEF ConfirmedEvidence
<1>19. Trace'
  BY <1>2, <1>4, <1>9, <1>10 DEF Trace
<1>20. QED
  BY <1>11, <1>12, <1>13, <1>14, <1>15, <1>16, <1>17, <1>18, <1>19

(* The hash of the last block is asked for.                                *)
LEMMA HashKeeps ==
  ASSUME IInv, DataInv, GetIndexedBlock
  PROVE  DataInv'
<1> USE DEF DataInv
<1> DEFINE to == indexer.to
           found == to \in DOMAIN chain
           hash == IF found THEN chain[to].hash ELSE NULL
           late == past.unwitnessed \/ ~found
<1>1. /\ indexer.pc = "hash" /\ chain' = chain /\ tables' = tables /\ cursor' = cursor
      /\ cursor.next # NULL
      /\ indexer' = [pc |-> "cursor", to |-> to, touched |-> indexer.touched, hash |-> hash]
      /\ past' = [past EXCEPT !.unwitnessed = late]
  BY DEF GetIndexedBlock, CursorShape
<1>2. Traced /\ (Still /\ ~past.unwitnessed => Witness)
      /\ (Still => to <= Len(chain)) /\ (~indexer.touched => ~Pending)
  BY <1>1 DEF Trace, PcShape, LoopPcs, Fetching
<1>3. /\ to \in Nat /\ cursor.next \in Nat /\ to >= cursor.next /\ cursor.next >= 1
      /\ past.blocks \in Nat
      /\ \A b \in DOMAIN chain : chain[b].hash \in Nat /\ chain[b].hash <= past.blocks
  BY <1>1, FirstBlock, DataNumbers DEF IInv, Fetching
<1>4. hash \in Nat /\ hash <= past.blocks
  BY <1>3 DEF NULL
<1>5. /\ past'.reset = past.reset /\ past'.blocks = past.blocks
      /\ past'.rewrittenSinceStart = past.rewrittenSinceStart
      /\ past'.finalityBroken = past.finalityBroken /\ past'.height = past.height
      /\ past'.unwitnessed = late
  <2> HIDE DEF late
  <2>1. QED
    BY <1>1 DEF IInv, ChainTypeOK, Pasts
<1>6. ~past'.unwitnessed => ~past.unwitnessed /\ hash = chain[to].hash
  BY <1>5
<1>7. /\ indexer'.pc = "cursor" /\ indexer'.to = to /\ indexer'.hash = hash
      /\ indexer'.touched = indexer.touched
  BY <1>1
<1> HIDE DEF to, hash, late
<1>8. /\ Witness' <=> Witness
      /\ Witnessed' => Witnessed
      /\ Still' <=> Still
      /\ Confident' <=> Confident
      /\ Confirmed' = Confirmed
      /\ HashMatches' <=> HashMatches
      /\ Traced => Traced'
      /\ Pending' <=> Pending
      /\ Emptied' <=> Emptied
  BY <1>1, <1>5, <1>6 DEF Witness, Witnessed, HashMatches, Still, Confident, Confirmed, Traced,
       Pending, StoredElections, Emptied
<1>9. DataTypeOK'
  BY <1>1, <1>3, <1>4, <1>7 DEF DataTypeOK, LoopPcs
<1>10. ChainInv'
  BY <1>1, <1>5 DEF ChainInv
<1>11. HashesKnown'
  BY <1>1, <1>4, <1>5, <1>7 DEF HashesKnown
<1>12. CursorShape'
  BY <1>1, <1>6, <1>8 DEF CursorShape
<1>13. PcShape'
  BY <1>1, <1>2, <1>3, <1>6, <1>7, <1>8 DEF PcShape
<1>14. ResetShape'
  BY <1>7 DEF ResetShape
<1>15. WitnessedEvidence'
  BY <1>1, <1>7, <1>8 DEF WitnessedEvidence, to
<1>16. ConfirmedEvidence'
  BY <1>1, <1>7, <1>8 DEF ConfirmedEvidence, to
<1>17. Trace'
  BY <1>2, <1>7, <1>8 DEF Trace
<1>18. QED
  BY <1>9, <1>10, <1>11, <1>12, <1>13, <1>14, <1>15, <1>16, <1>17

(* The cursor moves.                                                       *)
LEMMA CursorKeeps ==
  ASSUME IInv, DataInv, SetNextBlock
  PROVE  DataInv'
<1> USE DEF DataInv
<1> DEFINE to == indexer.to
           hash == indexer.hash
           late == past.unwitnessed \/ past.rewrittenSinceStart
<1>1. /\ indexer.pc = "cursor" /\ chain' = chain /\ tables' = tables
      /\ cursor.next # NULL
      /\ cursor' = [cursor EXCEPT !.next = to + 1, !.last = to, !.hash = hash]
      /\ indexer'.pc = IF indexer.touched THEN "refresh" ELSE "poll"
      /\ past' = [past EXCEPT !.unwitnessed = late]
      /\ cursor \in Cursors /\ hash \in Nat /\ hash <= past.blocks
  BY DEF SetNextBlock, CursorShape, DataTypeOK, HashesKnown
<1>2. Traced /\ (Still /\ ~past.unwitnessed => Witness /\ hash = chain[to].hash)
      /\ (Still => to <= Len(chain)) /\ (~indexer.touched => ~Pending)
  BY <1>1 DEF Trace, PcShape, LoopPcs, Fetching
<1>3. /\ to \in Nat /\ to >= 1 /\ Len(chain) \in Nat /\ DOMAIN chain = 1 .. Len(chain)
      /\ \A b \in DOMAIN chain : chain[b].hash # NULL
  BY <1>1, FirstBlock, DataNumbers DEF IInv, Fetching, NULL
<1>4. /\ past'.reset = past.reset /\ past'.blocks = past.blocks
      /\ past'.rewrittenSinceStart = past.rewrittenSinceStart
      /\ past'.finalityBroken = past.finalityBroken /\ past'.height = past.height
      /\ past'.unwitnessed = late
  <2> HIDE DEF late
  <2>1. QED
    BY <1>1 DEF IInv, ChainTypeOK, Pasts
<1>5. ~past'.unwitnessed => ~past.unwitnessed /\ Still
  BY <1>4 DEF Still
<1> HIDE DEF to, hash, late
<1>6. /\ cursor'.next = to + 1 /\ cursor'.last = to /\ cursor'.hash = hash
      /\ cursor'.genesis = cursor.genesis /\ cursor'.resetReason = cursor.resetReason
      /\ cursor' \in Cursors
  <2>1. to + 1 \in Nat
    BY <1>3
  <2>2. QED
    BY <1>1, <1>3, <2>1 DEF Cursors
<1>7. ~past'.unwitnessed => /\ Witness /\ to \in DOMAIN chain /\ hash = chain[to].hash
                            /\ hash # NULL
  BY <1>2, <1>3, <1>5
<1>8. ~past'.unwitnessed => Witness'
  BY <1>1, <1>6, <1>7 DEF Witness, HashMatches
<1>9. /\ Still' <=> Still
      /\ Confident' => Confident
      /\ Confirmed' = Confirmed
      /\ Traced'
      /\ Pending' <=> Pending
  BY <1>1, <1>2, <1>4, <1>5, <1>6 DEF Still, Confident, Confirmed, Traced, Pending,
       StoredElections
<1>10. indexer'.pc \in {"refresh", "poll"} /\ (indexer'.pc = "poll" => ~Pending)
  BY <1>1, <1>2
<1>11. cursor'.next - 1 = to
  BY <1>3, <1>6
<1>12. DataTypeOK'
  BY <1>1, <1>6, <1>10 DEF DataTypeOK, LoopPcs, Fetching
<1>13. ChainInv'
  BY <1>1, <1>4 DEF ChainInv
<1>14. HashesKnown'
  BY <1>1, <1>4, <1>6, <1>10 DEF HashesKnown
<1>15. CursorShape'
  <2>1. cursor'.next > 1 /\ cursor'.next # NULL /\ cursor'.last = cursor'.next - 1
    BY <1>3, <1>6, <1>11 DEF NULL
  <2>2. ~past'.unwitnessed => cursor'.hash # NULL /\ cursor'.genesis = chain'[1].hash
    BY <1>6, <1>7, <1>8 DEF Witness
  <2>3. QED
    BY <2>1, <2>2 DEF CursorShape
<1>16. PcShape'
  BY <1>8, <1>10 DEF PcShape, Fetching
<1>17. ResetShape'
  BY <1>10 DEF ResetShape
<1>18. WitnessedEvidence'
  <2>1. Witnessed' => Evident(chain, tables, to, Len(chain))
    BY <1>1, <1>5, <1>7 DEF WitnessedEvidence, Witnessed, to
  <2>2. QED
    BY <1>1, <1>10, <1>11, <2>1 DEF WitnessedEvidence
<1>19. ConfirmedEvidence'
  <2>1. Confident' => Evident(chain, tables, to, Confirmed)
    BY <1>1, <1>9 DEF ConfirmedEvidence, to
  <2>2. QED
    BY <1>1, <1>9, <1>10, <1>11, <2>1 DEF ConfirmedEvidence
<1>20. Trace'
  BY <1>9, <1>10 DEF Trace
<1>21. QED
  BY <1>12, <1>13, <1>14, <1>15, <1>16, <1>17, <1>18, <1>19, <1>20

-----------------------------------------------------------------------------
(* Theorems about the evidence                                             *)

(* The inductive invariant of the evidence, next to that of the cursor: it *)
(* is the chain's as far as the stored hash, or the confirmations, tell.   *)
THEOREM EvidenceInvariant == Safety => [](IInv /\ DataInv)
<1>1. Init => DataInv
  <2> SUFFICES ASSUME Init
               PROVE  DataInv
    OBVIOUS
  <2>1. /\ chain = <<[hash |-> 1, tx |-> NoTx]>> /\ tables = EmptyTables
        /\ cursor = NoCursor /\ indexer.pc = "down" /\ past.reset = FALSE
        /\ past.blocks = 1 /\ past.unwitnessed = FALSE
    BY DEF Init, Down
  <2>2. /\ chain \in Seq(Blocks) /\ Len(chain) = 1 /\ DOMAIN chain = {1}
        /\ chain[1].hash = 1 /\ chain[1].tx = NoTx
    <3>1. [hash |-> 1, tx |-> NoTx] \in Blocks
      BY DEF Blocks
    <3>2. QED
      BY <2>1, <3>1
  <2>3. cursor \in Cursors /\ cursor.next = 0 /\ cursor.hash = 0 /\ cursor.genesis = 0
        /\ cursor.last = 0
    BY <2>1 DEF Cursors, NoCursor, NULL
  <2>4. Emptied
    BY <2>1, EmptyTablesType DEF Emptied
  <2>5. DataTypeOK
    BY <2>1, <2>3, EmptyTablesType DEF DataTypeOK, LoopPcs, Fetching
  <2>6. ValidChain(chain)
    BY <2>2 DEF ValidChain, Changes
  <2>7. ChainInv
    BY <2>1, <2>2, <2>6 DEF ChainInv
  <2>8. HashesKnown
    BY <2>1, <2>3 DEF HashesKnown
  <2>9. CursorShape
    BY <2>1, <2>3, <2>4 DEF CursorShape, NULL
  <2>10. PcShape
    BY <2>1 DEF PcShape, LoopPcs, Fetching
  <2>11. ResetShape
    BY <2>1 DEF ResetShape
  <2>12. ~Witness
    BY <2>2, <2>3 DEF Witness
  <2>13. WitnessedEvidence
    BY <2>12 DEF WitnessedEvidence, Witnessed
  <2>14. ConfirmedEvidence
    BY <2>3 DEF ConfirmedEvidence, Confident, NULL
  <2>15. Trace
    BY <2>1 DEF Trace, Traced, LoopPcs
  <2>16. QED
    BY <2>5, <2>7, <2>8, <2>9, <2>10, <2>11, <2>13, <2>14, <2>15 DEF DataInv
<1>2. IInv /\ IInv' /\ DataInv /\ [Next]_vars => DataInv'
  <2> SUFFICES ASSUME IInv, IInv', DataInv, [Next]_vars
               PROVE  DataInv'
    OBVIOUS
  <2>1. CASE ProduceBlock \/ \E keep \in 0 .. Len(chain) - 1 : Rewrite(keep)
    <3>1. ChainTypeOK
      BY DEF IInv
    <3>2. DataTypeOK' /\ HashesKnown' /\ CursorShape' /\ PcShape' /\ ResetShape' /\ Trace'
      BY <2>1, <3>1, ChainShapes
    <3>3. ChainInv'
      BY <2>1, <3>1, ChainStaysValid DEF DataInv
    <3>4. WitnessedEvidence'
      BY <2>1, <3>1, ProduceWitnessed, RewriteWitnessed
    <3>5. ConfirmedEvidence'
      BY <2>1, ChainConfirmed
    <3>6. QED
      BY <3>2, <3>3, <3>4, <3>5 DEF DataInv
  <2>2. CASE StartStep
    BY <2>2, BootKeeps, InitKeeps, StateKeeps, CheckKeeps, CanaryKeeps, FillKeeps, DeleteKeeps,
       FinishKeeps DEF StartStep, ResetStep
  <2>3. CASE UNCHANGED vars
    <3>1. chain' = chain /\ tables' = tables /\ cursor' = cursor /\ past' = past
          /\ indexer' = indexer
      BY <2>3 DEF vars
    <3>2. /\ ChainInv'
          /\ Witness' <=> Witness
          /\ Witnessed' <=> Witnessed
          /\ Still' <=> Still
          /\ Traced' <=> Traced
          /\ Pending' <=> Pending
          /\ Confident' <=> Confident
          /\ Confirmed' = Confirmed
          /\ CursorShape'
      BY <3>1, QuietStep DEF DataInv, CursorShape
    <3>3. DataTypeOK' /\ HashesKnown' /\ ResetShape'
      BY <3>1 DEF DataInv, DataTypeOK, HashesKnown, ResetShape
    <3>4. PcShape'
      BY <3>1, <3>2 DEF DataInv, PcShape
    <3>5. WitnessedEvidence' /\ ConfirmedEvidence'
      BY <3>1, <3>2 DEF DataInv, WitnessedEvidence, ConfirmedEvidence
    <3>6. Trace'
      BY <3>1, <3>2 DEF DataInv, Trace
    <3>7. QED
      BY <3>2, <3>3, <3>4, <3>5, <3>6 DEF DataInv
  <2>4. CASE LoopStep
    <3>1. Wait => UNCHANGED vars
      BY DEF Wait
    <3>2. QED
      BY <2>3, <2>4, <3>1, MaterializeKeeps, ClearKeeps, PollKeeps, GetLogsKeeps, StoreKeeps,
         HashKeeps, CursorKeeps DEF LoopStep
  <2>5. CASE Crash
    BY <2>5, BootKeeps
  <2>6. QED
    BY <2>1, <2>2, <2>3, <2>4, <2>5 DEF Next
<1>3. QED
  BY <1>1, <1>2, IndexerInvariant, PTL DEF Safety

(* However the process dies and the unconfirmed end of the chain is        *)
(* rewritten, the evidence is what the chain says up to the cursor at      *)
(* least: nothing is lost, doubled or made up.                             *)
THEOREM EvidenceIsTruthful == Safety => []CursorIsTruthful
<1>1. IInv /\ DataInv => CursorIsTruthful
  <2> SUFFICES ASSUME IInv, DataInv, ~past.finalityBroken, cursor # NoCursor
               PROVE  Truthful
    BY DEF CursorIsTruthful
  <2>1. Confident
    BY DEF Confident, DataInv, CursorShape
  <2>2. /\ chain \in Seq(Blocks) /\ cursor.next \in Nat /\ cursor.next - 1 \in Nat
        /\ Confirmed \in Nat /\ Len(chain) \in Nat
    <3>1. ChainTypeOK /\ chain \in Seq(Blocks) /\ Len(chain) \in Nat
      BY DEF IInv, ChainTypeOK
    <3>2. Confirmed \in Nat
      BY <3>1, PastNumbers, ConfirmedIsBlock DEF Confirmed
    <3>3. cursor.next \in Nat /\ cursor.next >= 1
      BY <2>1, <3>1, DataNumbers
    <3>4. QED
      BY <3>1, <3>2, <3>3
  <2>3. Confirmed <= Len(chain)
    BY <2>2, PastNumbers DEF IInv, Sound
  <2>4. Evident(chain, tables, cursor.next - 1, Confirmed)
    BY <2>1 DEF DataInv, ConfirmedEvidence
  <2>5. QED
    BY <2>2, <2>3, <2>4, EvidentIsTruthful
<1>2. QED
  BY <1>1, EvidenceInvariant, PTL

(* A start that gets to its loop leaves no evidence of blocks the chain    *)
(* dropped, but for the two cases StartFindsDivergence names.              *)
THEOREM DivergenceIsFound == Safety => []StartFindsDivergence
<1>1. IInv /\ DataInv => StartFindsDivergence
  <2> SUFFICES ASSUME IInv, DataInv, indexer.pc \in LoopPcs, ~past.rewrittenSinceStart,
                      ~past.unwitnessed
               PROVE  Truthful
    BY DEF StartFindsDivergence
  <2>1. Witness /\ Witnessed
    BY DEF DataInv, PcShape, Still, Witnessed
  <2>2. /\ chain \in Seq(Blocks) /\ cursor.next \in Nat /\ cursor.next - 1 \in Nat
        /\ Len(chain) \in Nat
    BY <2>1, DataNumbers, PastNumbers DEF IInv, ChainTypeOK
  <2>3. Evident(chain, tables, cursor.next - 1, Len(chain))
    BY <2>1 DEF DataInv, WitnessedEvidence
  <2>4. QED
    BY <2>2, <2>3, EvidentIsTruthful
<1>2. QED
  BY <1>1, EvidenceInvariant, PTL

(* Evidence that was once thrown away carries its incident, through a      *)
(* death at any point between the reset and the upsert.                    *)
THEOREM ResetIsTraced == Safety => []ResetLeavesTrace
<1>1. IInv /\ DataInv => ResetLeavesTrace
  <2> SUFFICES ASSUME DataInv, indexer.pc = "poll", past.reset, ~past.unwitnessed,
                      StoredElections # {}
               PROVE  tables.resetIncidents # {} /\ ~cursor.resetReason
    BY DEF ResetLeavesTrace
  <2>1. Traced /\ ~Pending
    BY DEF DataInv, Trace, LoopPcs
  <2>2. ~cursor.resetReason
    BY <2>1 DEF Pending
  <2>3. QED
    BY <2>1, <2>2 DEF Traced
<1>2. QED
  BY <1>1, EvidenceInvariant, PTL
=============================================================================
