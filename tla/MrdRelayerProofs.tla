-------------------------- MODULE MrdRelayerProofs --------------------------
(***************************************************************************)
(* Proofs about MrdRelayer, for any number of workers, submissions and     *)
(* faults, and whatever the chain does; then about the relayer and the     *)
(* registry together: the composition is a behaviour of the contract, so   *)
(* that what is proved of the contract holds beside the relayer, and what  *)
(* the relayer reports is on the chain.                                    *)
(***************************************************************************)
EXTENDS MrdRelayer, ElectionRegistryProofs

Faulted == faults.db + faults.crash > 0

(* The table and the workers, without what no proof here needs of them.    *)
TableOK ==
  /\ submissions \in Seq(Submission)
  /\ Len(submissions) <= MaxRows
  /\ worker \in [Workers -> Positions]
  /\ txs \in Seq(Transaction)
  /\ incident \in [Rows -> {"none", "active", "resolved"}]
  /\ faults \in [{"rpc", "db", "crash"} -> 0 .. MaxFaults]

(* What holds of the row a worker holds, wherever the worker stands.       *)
HeldRowIs(w) ==
  LET r == worker[w].row
      status == submissions[r].status IN
  /\ worker[w].pc \in {"send", "wait", "lookup", "record", "rescue"} =>
       status = "IN_FLIGHT"
  /\ worker[w].pc = "send" => \A t \in DOMAIN txs : txs[t].row # r
  /\ worker[w].pc = "mark" => status = "IN_FLIGHT" \/ (status = "SUCCESS" /\ faults.db > 0)
  /\ worker[w].pc = "report" => status = "FAILED"

(* A pending row is untouched: nobody holds it, nobody sent it.            *)
PendingUntouched ==
  \A r \in DOMAIN submissions : submissions[r].status = "PENDING" =>
    ~Held(r) /\ \A t \in DOMAIN txs : txs[t].row # r

RInv ==
  /\ TableOK
  /\ \A w \in Workers : HeldRowIs(w)
  /\ PendingUntouched
  /\ AtMostOneBroadcast
  /\ NoOrphanFromRpcErrors
  /\ FailuresReported

-----------------------------------------------------------------------------
(* A worker that stands somewhere holds a row of the table.                *)
LEMMA HoldsRow ==
  ASSUME TableOK, NEW w \in Workers, worker[w] # Idle
  PROVE  /\ worker[w] \in Positions /\ worker[w].pc # "idle"
         /\ worker[w].row \in DOMAIN submissions
         /\ submissions[worker[w].row] \in Submission
         /\ worker[w].row \in Rows
<1>1. worker[w] \in Positions \ {Idle}
  BY DEF TableOK
<1>2. worker[w].pc # "idle" /\ worker[w].row \in DOMAIN submissions
  BY <1>1 DEF Positions
<1>3. Len(submissions) <= MaxRows /\ Len(submissions) \in Nat
      /\ DOMAIN submissions = 1 .. Len(submissions)
      /\ submissions \in Seq(Submission)
  BY DEF TableOK
<1>. QED BY <1>1, <1>2, <1>3, RelayerBoundsAssumption DEF Rows

(* Faults are counted, never forgotten.                                    *)
LEMMA FaultCounts ==
  ASSUME TableOK, NEW kind \in {"rpc", "db", "crash"}, Fault(kind)
  PROVE  /\ faults' \in [{"rpc", "db", "crash"} -> 0 .. MaxFaults]
         /\ \A k \in {"rpc", "db", "crash"} : faults'[k] >= faults[k]
         /\ faults'[kind] > 0
  BY RelayerBoundsAssumption DEF Fault, TableOK

(* Writing the status of a row, and nothing else of the table.             *)
LEMMA StatusWritten ==
  ASSUME TableOK, NEW r \in DOMAIN submissions, NEW status \in Statuses,
         SetStatus(r, status)
  PROVE  /\ submissions' \in Seq(Submission)
         /\ DOMAIN submissions' = DOMAIN submissions
         /\ Len(submissions') = Len(submissions)
         /\ submissions'[r].status = status
         /\ \A q \in DOMAIN submissions : q # r => submissions'[q] = submissions[q]
<1>1. submissions[r] \in Submission
  BY DEF TableOK
<1>2. [submissions[r] EXCEPT !.status = status] \in Submission
  BY <1>1 DEF Submission
<1>3. submissions' = [submissions EXCEPT ![r] = [submissions[r] EXCEPT !.status = status]]
  BY DEF SetStatus
<1>. QED BY <1>1, <1>2, <1>3 DEF TableOK, Submission

(* What every step of a worker w on the row it holds preserves, if it only *)
(* writes that row, opens incidents, and leaves the row in good order.     *)
LEMMA RowStep ==
  ASSUME RInv, NEW w \in Workers, worker[w] # Idle,
         NEW pos \in Positions, pos = Idle \/ pos.row = worker[w].row,
         worker' = [worker EXCEPT ![w] = pos],
         UNCHANGED txs,
         NEW status \in Statuses \ {"PENDING"},
         UNCHANGED submissions \/ SetStatus(worker[w].row, status),
         incident' \in [Rows -> {"none", "active", "resolved"}],
         \A q \in Rows : incident[q] # "none" => incident'[q] # "none",
         faults' \in [{"rpc", "db", "crash"} -> 0 .. MaxFaults],
         faults'.db >= faults.db, faults'.crash >= faults.crash,
         HeldRowIs(w)',
         pos = Idle => submissions'[worker[w].row].status # "IN_FLIGHT" \/ Faulted',
         /\ submissions'[worker[w].row].status = "FAILED"
         /\ incident'[worker[w].row] = "none"
         => pos = At("report", worker[w].row) \/ Faulted'
  PROVE  RInv'
<1>. DEFINE r == worker[w].row
<1>1. /\ TableOK /\ PendingUntouched /\ AtMostOneBroadcast /\ FailuresReported
      /\ NoOrphanFromRpcErrors /\ \A v \in Workers : HeldRowIs(v)
  BY DEF RInv
<1>2. r \in DOMAIN submissions /\ worker[w].pc # "idle" /\ Holds(w, r) /\ r \in Rows
  BY <1>1, HoldsRow DEF Holds
<1>3. /\ submissions' \in Seq(Submission)
      /\ DOMAIN submissions' = DOMAIN submissions
      /\ Len(submissions') = Len(submissions)
      /\ \A q \in DOMAIN submissions : q # r => submissions'[q] = submissions[q]
      /\ submissions'[r].status = "PENDING" => submissions[r].status = "PENDING"
  BY <1>1, <1>2, StatusWritten DEF TableOK
<1>4. Positions' = Positions
  BY <1>3 DEF Positions
<1>5. worker \in [Workers -> Positions]
  BY <1>1 DEF TableOK
<1>6. worker'[w] = pos /\ \A v \in Workers : v # w => worker'[v] = worker[v]
  BY <1>5
<1>7. TableOK'
  <2>1. worker' \in [Workers -> Positions']
    BY <1>4, <1>5
  <2>2. txs' \in Seq(Transaction')
    BY <1>1, <1>3 DEF TableOK, Transaction
  <2>3. Len(submissions') <= MaxRows
    BY <1>1, <1>3 DEF TableOK
  <2>. QED BY <1>3, <2>1, <2>2, <2>3 DEF TableOK
<1>8. \A v \in Workers, q \in DOMAIN submissions :
        /\ v # w => (Holds(v, q)' <=> Holds(v, q))
        /\ Holds(w, q)' => q = r
        /\ q # r => (Held(q)' <=> Held(q))
        /\ v # w /\ Holds(v, q) => q # r
  <2>1. \A v \in Workers, q \in DOMAIN submissions :
          /\ v # w => (Holds(v, q)' <=> Holds(v, q))
          /\ Holds(w, q)' => q = r
          /\ Holds(w, q) => q = r
    BY <1>6 DEF Holds, Idle
  <2>2. \A v \in Workers, q \in DOMAIN submissions : v # w /\ Holds(v, q) => q # r
    BY <1>1, <1>2 DEF AtMostOneBroadcast
  <2>. QED BY <2>1, <2>2 DEF Held
<1>9. \A v \in Workers : HeldRowIs(v)'
  <2>. SUFFICES ASSUME NEW v \in Workers, v # w
                PROVE  HeldRowIs(v)'
    OBVIOUS
  <2>1. CASE worker[v] = Idle
    BY <1>6, <2>1 DEF HeldRowIs, Idle
  <2>2. CASE worker[v] # Idle
    <3>1. worker[v].row \in DOMAIN submissions /\ Holds(v, worker[v].row)
      BY <1>1, <2>2, HoldsRow DEF Holds
    <3>2. worker'[v] = worker[v] /\ submissions'[worker[v].row] = submissions[worker[v].row]
      BY <1>3, <1>6, <1>8, <3>1
    <3>3. faults.db \in Int /\ faults'.db \in Int
      BY <1>1, RelayerBoundsAssumption DEF TableOK
    <3>. QED BY <1>1, <3>2, <3>3 DEF HeldRowIs
  <2>. QED BY <2>1, <2>2
<1>10. PendingUntouched'
  BY <1>1, <1>2, <1>3, <1>8 DEF PendingUntouched, Held
<1>11. AtMostOneBroadcast'
  BY <1>1, <1>2, <1>3, <1>8 DEF AtMostOneBroadcast
<1>12. Faulted => Faulted'
  BY <1>1, RelayerBoundsAssumption DEF Faulted, TableOK
<1>13. NoOrphanFromRpcErrors'
  <2>. SUFFICES ASSUME NEW q \in DOMAIN submissions,
                       submissions'[q].status = "IN_FLIGHT", ~Held(q)'
                PROVE  Faulted'
    BY <1>3 DEF NoOrphanFromRpcErrors, Faulted
  <2>1. CASE q = r
    BY <1>6, <2>1, HoldsRow DEF Held, Holds, Positions, Idle
  <2>2. CASE q # r
    BY <1>1, <1>3, <1>8, <1>12, <2>2 DEF NoOrphanFromRpcErrors, Faulted
  <2>. QED BY <2>1, <2>2
<1>14. FailuresReported'
  <2>. SUFFICES ASSUME NEW q \in DOMAIN submissions,
                       submissions'[q].status = "FAILED", incident'[q] = "none"
                PROVE  (\E v \in Workers : worker'[v] = At("report", q)) \/ Faulted'
    BY <1>3 DEF FailuresReported, Faulted, At
  <2>1. CASE q = r
    BY <1>6, <2>1
  <2>2. CASE q # r
    <3>1. q \in Rows
      BY <1>1, RelayerBoundsAssumption DEF TableOK, Rows
    <3>2. submissions[q].status = "FAILED" /\ incident[q] = "none"
      BY <1>3, <2>2, <3>1, <1>1 DEF TableOK
    <3>3. (\E v \in Workers : worker[v] = At("report", q)) \/ Faulted
      BY <1>1, <3>2 DEF FailuresReported, Faulted
    <3>4. worker[w] # At("report", q)
      BY <2>2 DEF At
    <3>. QED BY <1>6, <1>12, <3>3, <3>4
  <2>. QED BY <2>1, <2>2
<1>. QED BY <1>7, <1>9, <1>10, <1>11, <1>13, <1>14 DEF RInv

(* Steps that leave the table and the workers alone.                       *)
LEMMA TableUnmoved ==
  ASSUME RInv, UNCHANGED <<submissions, worker>>,
         txs' \in Seq(Transaction), DOMAIN txs' = DOMAIN txs,
         \A t \in DOMAIN txs : txs'[t].row = txs[t].row,
         incident' \in [Rows -> {"none", "active", "resolved"}],
         \A q \in Rows : incident[q] # "none" => incident'[q] # "none",
         faults' \in [{"rpc", "db", "crash"} -> 0 .. MaxFaults],
         faults'.db >= faults.db, faults'.crash >= faults.crash
  PROVE  RInv'
<1>1. TableOK
  BY DEF RInv
<1>2. Positions' = Positions /\ Transaction' = Transaction
  BY DEF Positions, Transaction
<1>3. TableOK'
  BY <1>1, <1>2 DEF TableOK
<1>4. Faulted => Faulted'
  BY <1>1, RelayerBoundsAssumption DEF Faulted, TableOK
<1>5. \A w \in Workers : HeldRowIs(w)'
  <2>1. faults.db \in Int /\ faults'.db \in Int
    BY <1>1, <1>3, RelayerBoundsAssumption DEF TableOK
  <2>. QED BY <2>1 DEF RInv, HeldRowIs
<1>6. PendingUntouched' /\ AtMostOneBroadcast'
  BY DEF RInv, PendingUntouched, AtMostOneBroadcast, Held, Holds
<1>7. NoOrphanFromRpcErrors'
  BY <1>4 DEF RInv, NoOrphanFromRpcErrors, Faulted, Held, Holds
<1>8. FailuresReported'
  <2>1. DOMAIN submissions \subseteq Rows
    BY <1>1, RelayerBoundsAssumption DEF TableOK, Rows
  <2>. QED BY <1>1, <1>4, <2>1 DEF RInv, FailuresReported, Faulted, At
<1>. QED BY <1>3, <1>5, <1>6, <1>7, <1>8 DEF RInv

(* A claim takes a row nobody held and nobody sent.                        *)
LEMMA ClaimKeeps ==
  ASSUME RInv, NEW w \in Workers, worker[w] = Idle,
         NEW r \in DOMAIN submissions, OldestPending(r), SetStatus(r, "IN_FLIGHT"),
         UNCHANGED <<txs, incident>>,
         faults' \in [{"rpc", "db", "crash"} -> 0 .. MaxFaults],
         faults'.db >= faults.db, faults'.crash >= faults.crash,
         \/ Goto(w, At("send", r))
         \/ UNCHANGED worker /\ Faulted'
  PROVE  RInv'
<1>1. /\ TableOK /\ PendingUntouched /\ AtMostOneBroadcast /\ FailuresReported
      /\ NoOrphanFromRpcErrors /\ \A v \in Workers : HeldRowIs(v)
  BY DEF RInv
<1>2. submissions[r].status = "PENDING"
  BY DEF OldestPending
<1>3. ~Held(r) /\ \A t \in DOMAIN txs : txs[t].row # r
  BY <1>1, <1>2 DEF PendingUntouched
<1>4. /\ submissions' \in Seq(Submission)
      /\ DOMAIN submissions' = DOMAIN submissions
      /\ Len(submissions') = Len(submissions)
      /\ submissions'[r].status = "IN_FLIGHT"
      /\ \A q \in DOMAIN submissions : q # r => submissions'[q] = submissions[q]
  BY <1>1, StatusWritten DEF Statuses
<1>5. Positions' = Positions /\ Transaction' = Transaction
  BY <1>4 DEF Positions, Transaction
<1>6. worker \in [Workers -> Positions] /\ At("send", r) \in Positions
  BY <1>1 DEF TableOK, Positions, At
<1>7. /\ \A v \in Workers : v # w => worker'[v] = worker[v]
      /\ worker'[w] = At("send", r) \/ (worker'[w] = Idle /\ Faulted')
  BY <1>6 DEF Goto
<1>8. TableOK'
  <2>1. worker' \in [Workers -> Positions']
    BY <1>5, <1>6 DEF Goto
  <2>. QED BY <1>1, <1>4, <1>5, <2>1 DEF TableOK
<1>9. \A v \in Workers : HeldRowIs(v)'
  <2>. SUFFICES ASSUME NEW v \in Workers
                PROVE  HeldRowIs(v)'
    OBVIOUS
  <2>1. CASE worker'[v] = Idle
    BY <2>1 DEF HeldRowIs, Idle
  <2>2. CASE v = w /\ worker'[w] = At("send", r)
    BY <1>3, <1>4, <2>2 DEF HeldRowIs, At
  <2>3. CASE v # w /\ worker[v] # Idle
    <3>1. worker[v].row \in DOMAIN submissions /\ worker[v].row # r
      BY <1>1, <1>3, <2>3, HoldsRow DEF Held, Holds
    <3>2. faults.db \in Int /\ faults'.db \in Int
      BY <1>1, RelayerBoundsAssumption DEF TableOK
    <3>. QED BY <1>1, <1>4, <1>7, <2>3, <3>1, <3>2 DEF HeldRowIs
  <2>. QED BY <1>7, <2>1, <2>2, <2>3
<1>10. \A q \in DOMAIN submissions :
         /\ q # r => (Held(q)' <=> Held(q))
         /\ \A v \in Workers : Holds(v, q)' => Holds(v, q) \/ (v = w /\ q = r)
  BY <1>7 DEF Held, Holds, Idle, At
<1>11. PendingUntouched'
  BY <1>1, <1>4, <1>10 DEF PendingUntouched
<1>12. AtMostOneBroadcast'
  BY <1>1, <1>3, <1>4, <1>10 DEF AtMostOneBroadcast, Held
<1>13. Faulted => Faulted'
  BY <1>1, RelayerBoundsAssumption DEF Faulted, TableOK
<1>14. NoOrphanFromRpcErrors'
  <2>1. worker'[w] = At("send", r) => Held(r)'
    BY DEF Held, Holds, At
  <2>. QED BY <1>1, <1>4, <1>7, <1>10, <1>13, <2>1 DEF NoOrphanFromRpcErrors, Faulted
<1>15. FailuresReported'
  <2>1. \A q \in DOMAIN submissions : worker[w] # At("report", q)
    BY DEF Idle, At
  <2>. QED BY <1>1, <1>4, <1>7, <1>13, <2>1 DEF FailuresReported, Faulted, At
<1>. QED BY <1>8, <1>9, <1>11, <1>12, <1>14, <1>15 DEF RInv

(* A broadcast adds the one transaction of a row that had none.            *)
LEMMA BroadcastKeeps ==
  ASSUME RInv, NEW w \in Workers, worker[w].pc = "send",
         Broadcast(w, worker[w].row),
         \/ Goto(w, Awaiting(worker[w].row, Len(txs) + 1))
         \/ Goto(w, At("mark", worker[w].row)),
         UNCHANGED <<submissions, incident>>,
         faults' \in [{"rpc", "db", "crash"} -> 0 .. MaxFaults],
         faults'.db >= faults.db, faults'.crash >= faults.crash
  PROVE  RInv'
<1>. DEFINE r == worker[w].row
            tx == [row |-> r, sender |-> w, state |-> "pending"]
<1>1. /\ TableOK /\ PendingUntouched /\ AtMostOneBroadcast /\ FailuresReported
      /\ NoOrphanFromRpcErrors /\ \A v \in Workers : HeldRowIs(v)
  BY DEF RInv
<1>2. /\ worker[w] # Idle /\ r \in DOMAIN submissions /\ Holds(w, r)
      /\ submissions[r].status = "IN_FLIGHT" /\ \A t \in DOMAIN txs : txs[t].row # r
  BY <1>1, HoldsRow DEF Idle, Holds, HeldRowIs
<1>3. /\ txs' \in Seq(Transaction)
      /\ DOMAIN txs' = DOMAIN txs \cup {Len(txs) + 1} /\ Len(txs) + 1 \notin DOMAIN txs
      /\ txs'[Len(txs) + 1] = tx
      /\ \A t \in DOMAIN txs : txs'[t] = txs[t]
  <2>1. tx \in Transaction
    BY <1>2 DEF Transaction
  <2>2. txs \in Seq(Transaction) /\ txs' = Append(txs, tx)
    BY <1>1 DEF TableOK, Broadcast
  <2>. QED BY <2>1, <2>2
<1>4. Transaction' = Transaction /\ Positions \subseteq Positions'
  BY <1>3 DEF Transaction, Positions
<1>5. worker \in [Workers -> Positions]
  BY <1>1 DEF TableOK
<1>6. PICK pos : pos \in {Awaiting(r, Len(txs) + 1), At("mark", r)} /\ Goto(w, pos)
  OBVIOUS
<1>7. pos \in Positions' /\ pos.pc \in {"wait", "mark"} /\ pos.row = r
  BY <1>2, <1>3, <1>6 DEF Awaiting, At, Positions
<1>8. worker'[w] = pos /\ \A v \in Workers : v # w => worker'[v] = worker[v]
  BY <1>5, <1>6 DEF Goto
<1>9. TableOK'
  <2>1. worker' \in [Workers -> Positions']
    BY <1>4, <1>5, <1>6, <1>7 DEF Goto
  <2>. QED BY <1>1, <1>3, <1>4, <2>1 DEF TableOK
<1>10. \A v \in Workers, q \in DOMAIN submissions : Holds(v, q)' <=> Holds(v, q)
  BY <1>2, <1>7, <1>8 DEF Holds
<1>11. \A v \in Workers : HeldRowIs(v)'
  <2>. SUFFICES ASSUME NEW v \in Workers
                PROVE  HeldRowIs(v)'
    OBVIOUS
  <2>1. CASE v = w
    BY <1>2, <1>7, <1>8, <2>1 DEF HeldRowIs
  <2>2. CASE v # w /\ worker[v] = Idle
    BY <1>8, <2>2 DEF HeldRowIs, Idle
  <2>3. CASE v # w /\ worker[v] # Idle
    <3>1. worker[v].row \in DOMAIN submissions /\ worker[v].row # r
      BY <1>1, <1>2, <2>3, HoldsRow DEF AtMostOneBroadcast, Holds
    <3>2. faults.db \in Int /\ faults'.db \in Int
      BY <1>1, RelayerBoundsAssumption DEF TableOK
    <3>. QED BY <1>1, <1>3, <1>8, <2>3, <3>1, <3>2 DEF HeldRowIs
  <2>. QED BY <2>1, <2>2, <2>3
<1>12. PendingUntouched'
  BY <1>1, <1>2, <1>3, <1>10 DEF PendingUntouched, Held
<1>13. AtMostOneBroadcast'
  BY <1>1, <1>2, <1>3, <1>10 DEF AtMostOneBroadcast
<1>14. Faulted => Faulted'
  BY <1>1, RelayerBoundsAssumption DEF Faulted, TableOK
<1>15. NoOrphanFromRpcErrors'
  BY <1>1, <1>10, <1>14 DEF NoOrphanFromRpcErrors, Held, Faulted
<1>16. FailuresReported'
  <2>1. \A q \in DOMAIN submissions : worker[w] # At("report", q)
    BY DEF At
  <2>. QED BY <1>1, <1>8, <1>14, <2>1 DEF FailuresReported, Faulted, At
<1>. QED BY <1>9, <1>11, <1>12, <1>13, <1>15, <1>16 DEF RInv

(* A new submission is at the end of the table, untouched.                 *)
LEMMA SubmitKeeps ==
  ASSUME RInv, NEW payload \in Submissible, Submit(payload)
  PROVE  RInv'
<1>. DEFINE n == Len(submissions) + 1
            row == [payload |-> payload, status |-> "PENDING"]
<1>1. /\ TableOK /\ PendingUntouched /\ AtMostOneBroadcast /\ FailuresReported
      /\ NoOrphanFromRpcErrors /\ \A v \in Workers : HeldRowIs(v)
  BY DEF RInv
<1>2. UNCHANGED <<worker, txs, incident, faults>>
  BY DEF Submit
<1>3. /\ submissions' \in Seq(Submission) /\ Len(submissions') <= MaxRows
      /\ DOMAIN submissions' = DOMAIN submissions \cup {n} /\ n \notin DOMAIN submissions
      /\ submissions'[n] = row
      /\ \A q \in DOMAIN submissions : submissions'[q] = submissions[q]
  <2>1. row \in Submission
    BY DEF Submission, Statuses
  <2>2. submissions \in Seq(Submission) /\ submissions' = Append(submissions, row)
        /\ Len(submissions) < MaxRows
    BY <1>1 DEF TableOK, Submit
  <2>. QED BY <2>1, <2>2, RelayerBoundsAssumption
<1>4. Positions \subseteq Positions' /\ Transaction \subseteq Transaction'
  BY <1>2, <1>3 DEF Positions, Transaction
<1>5. TableOK'
  <2>1. worker' \in [Workers -> Positions']
    BY <1>1, <1>2, <1>4 DEF TableOK
  <2>2. txs \in Seq(Transaction) /\ txs' = txs
    BY <1>1, <1>2 DEF TableOK
  <2>3. txs' \in Seq(Transaction')
    BY <1>4, <2>2
  <2>4. /\ incident' \in [Rows -> {"none", "active", "resolved"}]
        /\ faults' \in [{"rpc", "db", "crash"} -> 0 .. MaxFaults]
    BY <1>1, <1>2 DEF TableOK
  <2>5. submissions' \in Seq(Submission) /\ Len(submissions') <= MaxRows
    BY <1>3
  <2>. QED BY <2>1, <2>3, <2>4, <2>5 DEF TableOK
<1>6. \A t \in DOMAIN txs : txs[t].row \in DOMAIN submissions
  <2>1. \A t \in DOMAIN txs : txs[t] \in Transaction
    BY <1>1 DEF TableOK
  <2>. QED BY <2>1 DEF Transaction
<1>7. \A v \in Workers : worker[v] # Idle => worker[v].row \in DOMAIN submissions
  BY <1>1, HoldsRow
<1>8. \A v \in Workers : ~Holds(v, n) /\ \A q : Holds(v, q)' <=> Holds(v, q)
  BY <1>2, <1>3, <1>7 DEF Holds, Idle
<1>9. \A v \in Workers : HeldRowIs(v)'
  <2>. SUFFICES ASSUME NEW v \in Workers
                PROVE  HeldRowIs(v)'
    OBVIOUS
  <2>1. CASE worker[v] = Idle
    BY <1>2, <2>1 DEF HeldRowIs, Idle
  <2>2. CASE worker[v] # Idle
    BY <1>1, <1>2, <1>3, <1>7, <2>2 DEF HeldRowIs
  <2>. QED BY <2>1, <2>2
<1>10. PendingUntouched'
  BY <1>1, <1>2, <1>3, <1>6, <1>8 DEF PendingUntouched, Held
<1>11. AtMostOneBroadcast'
  BY <1>1, <1>2, <1>3, <1>8 DEF AtMostOneBroadcast
<1>12. NoOrphanFromRpcErrors'
  BY <1>1, <1>2, <1>3, <1>8 DEF NoOrphanFromRpcErrors, Held
<1>13. FailuresReported'
  BY <1>1, <1>2, <1>3 DEF FailuresReported, At
<1>. QED BY <1>5, <1>9, <1>10, <1>11, <1>12, <1>13 DEF RInv

-----------------------------------------------------------------------------
(* What every lemma below starts from, of a worker that holds a row.       *)
LEMMA Standing ==
  ASSUME RInv, NEW w \in Workers, worker[w].pc # "idle"
  PROVE  /\ worker[w] # Idle /\ worker[w].row \in DOMAIN submissions
         /\ worker[w].row \in Rows /\ worker[w] \in Positions
         /\ submissions[worker[w].row] \in Submission
         /\ incident \in [Rows -> {"none", "active", "resolved"}]
         /\ faults \in [{"rpc", "db", "crash"} -> 0 .. MaxFaults]
         /\ faults.db \in Nat /\ faults.crash \in Nat
         /\ HeldRowIs(w) /\ TableOK
         /\ Idle \in Positions
         /\ \A pc \in {"send", "record", "rescue", "mark", "report"} :
              At(pc, worker[w].row) \in Positions
<1>1. worker[w] # Idle /\ TableOK
  BY DEF Idle, RInv
<1>2. /\ worker[w].row \in DOMAIN submissions /\ worker[w].row \in Rows
      /\ worker[w] \in Positions /\ submissions[worker[w].row] \in Submission
  BY <1>1, HoldsRow
<1>3. /\ faults.db \in Nat /\ faults.crash \in Nat
  BY <1>1, RelayerBoundsAssumption DEF TableOK
<1>. QED BY <1>1, <1>2, <1>3 DEF RInv, TableOK, Positions, At

(* A fault of the database or a crash is remembered.                       *)
LEMMA FaultRemembered ==
  ASSUME TableOK, NEW kind \in {"db", "crash"}, Fault(kind)
  PROVE  Faulted'
<1>1. /\ faults' \in [{"rpc", "db", "crash"} -> 0 .. MaxFaults] /\ faults'[kind] > 0
  BY FaultCounts
<1>. QED BY <1>1, RelayerBoundsAssumption DEF Faulted

(* Between a send and the verdict: the held row stays in flight.           *)
LEMMA LegKeeps ==
  ASSUME RInv, NEW w \in Workers, worker[w].pc \in {"send", "wait", "lookup"},
         NEW pos \in Positions, pos.row = worker[w].row,
         pos.pc \in {"wait", "lookup", "record", "rescue", "mark"},
         Goto(w, pos),
         UNCHANGED <<submissions, txs, incident>>,
         UNCHANGED faults \/ Fault("rpc")
  PROVE  RInv'
<1>1. /\ worker[w] # Idle /\ worker[w].row \in DOMAIN submissions
      /\ worker[w].row \in Rows /\ TableOK /\ HeldRowIs(w)
      /\ incident \in [Rows -> {"none", "active", "resolved"}]
  BY Standing
<1>2. submissions'[worker[w].row].status = "IN_FLIGHT"
  BY <1>1 DEF HeldRowIs
<1>3. worker' = [worker EXCEPT ![w] = pos] /\ worker'[w] = pos /\ pos # Idle
  BY <1>1 DEF Goto, TableOK, Idle
<1>4. /\ faults' \in [{"rpc", "db", "crash"} -> 0 .. MaxFaults]
      /\ faults'.db >= faults.db /\ faults'.crash >= faults.crash
  <2>1. CASE UNCHANGED faults
    BY <1>1, <2>1, RelayerBoundsAssumption DEF TableOK
  <2>2. CASE Fault("rpc")
    BY <1>1, <2>2, FaultCounts
  <2>. QED BY <2>1, <2>2
<1>5. HeldRowIs(w)'
  BY <1>2, <1>3 DEF HeldRowIs
<1>6. "FAILED" \in Statuses \ {"PENDING"}
  BY DEF Statuses
<1>. QED BY <1>1, <1>2, <1>3, <1>4, <1>5, <1>6, RowStep

(* The verdict is written, and the worker lets the row go, except that a   *)
(* failed database statement leads a success on to the failure branch.     *)
LEMMA VerdictKeeps ==
  ASSUME RInv, NEW w \in Workers, Record(w) \/ Rescue(w) \/ RecordFails(w)
  PROVE  RInv'
<1>1. /\ worker[w] # Idle /\ worker[w].row \in DOMAIN submissions
      /\ worker[w].row \in Rows /\ TableOK /\ HeldRowIs(w)
      /\ incident \in [Rows -> {"none", "active", "resolved"}]
      /\ worker \in [Workers -> Positions]
      /\ worker[w].pc \in {"record", "rescue"}
      /\ Idle \in Positions /\ At("mark", worker[w].row) \in Positions
  <2>1. worker[w].pc \in {"record", "rescue"}
    BY DEF Record, Rescue, RecordFails
  <2>. QED BY <2>1, Standing DEF TableOK
<1>2. submissions[worker[w].row].status = "IN_FLIGHT"
  BY <1>1 DEF HeldRowIs
<1>3. "SUCCESS" \in Statuses \ {"PENDING"} /\ "SUCCESS" \in Statuses
  BY DEF Statuses
<1>4. CASE Record(w) \/ Rescue(w)
  <2>1. /\ SetStatus(worker[w].row, "SUCCESS") /\ Goto(w, Idle)
        /\ UNCHANGED <<txs, incident, faults>>
    BY <1>4 DEF Record, Rescue
  <2>2. submissions'[worker[w].row].status = "SUCCESS"
    BY <1>1, <1>3, <2>1, StatusWritten
  <2>3. worker' = [worker EXCEPT ![w] = Idle] /\ worker'[w] = Idle
    BY <1>1, <2>1 DEF Goto
  <2>4. HeldRowIs(w)'
    BY <2>3 DEF HeldRowIs, Idle
  <2>5. /\ faults' \in [{"rpc", "db", "crash"} -> 0 .. MaxFaults]
        /\ faults'.db >= faults.db /\ faults'.crash >= faults.crash
    BY <1>1, <2>1, RelayerBoundsAssumption DEF TableOK
  <2>. QED BY <1>1, <1>3, <2>1, <2>2, <2>3, <2>4, <2>5, RowStep
<1>5. CASE RecordFails(w)
  <2>1. /\ Fault("db") /\ Goto(w, At("mark", worker[w].row))
        /\ UNCHANGED submissions \/ SetStatus(worker[w].row, "SUCCESS")
        /\ UNCHANGED <<txs, incident>>
    BY <1>5 DEF RecordFails
  <2>2. submissions'[worker[w].row].status \in {"IN_FLIGHT", "SUCCESS"}
    BY <1>1, <1>2, <1>3, <2>1, StatusWritten
  <2>3. /\ faults' \in [{"rpc", "db", "crash"} -> 0 .. MaxFaults]
        /\ faults'.db >= faults.db /\ faults'.crash >= faults.crash /\ faults'.db > 0
    BY <1>1, <2>1, FaultCounts
  <2>4. /\ worker' = [worker EXCEPT ![w] = At("mark", worker[w].row)]
        /\ worker'[w] = At("mark", worker[w].row)
    BY <1>1, <2>1 DEF Goto
  <2>5. HeldRowIs(w)'
    BY <2>2, <2>3, <2>4 DEF HeldRowIs, At
  <2>6. /\ At("mark", worker[w].row).row = worker[w].row
        /\ At("mark", worker[w].row) # Idle
    BY DEF At, Idle
  <2>. QED BY <1>1, <1>3, <2>1, <2>2, <2>3, <2>4, <2>5, <2>6, RowStep
<1>. QED BY <1>4, <1>5

(* A row is marked FAILED, and its incident is still to be opened; or the  *)
(* update failed and the outer catch gave the row up.                      *)
LEMMA MarkKeeps ==
  ASSUME RInv, NEW w \in Workers, MarkFailed(w) \/ MarkFails(w)
  PROVE  RInv'
<1>1. /\ worker[w] # Idle /\ worker[w].row \in DOMAIN submissions
      /\ worker[w].row \in Rows /\ TableOK /\ HeldRowIs(w)
      /\ incident \in [Rows -> {"none", "active", "resolved"}]
      /\ worker \in [Workers -> Positions]
      /\ worker[w].pc = "mark"
      /\ Idle \in Positions /\ At("report", worker[w].row) \in Positions
  <2>1. worker[w].pc = "mark"
    BY DEF MarkFailed, MarkFails
  <2>. QED BY <2>1, Standing DEF TableOK
<1>2. "FAILED" \in Statuses \ {"PENDING"} /\ "FAILED" \in Statuses
  BY DEF Statuses
<1>3. CASE MarkFailed(w)
  <2>1. /\ SetStatus(worker[w].row, "FAILED") /\ Goto(w, At("report", worker[w].row))
        /\ UNCHANGED <<txs, incident, faults>>
    BY <1>3 DEF MarkFailed
  <2>2. submissions'[worker[w].row].status = "FAILED"
    BY <1>1, <1>2, <2>1, StatusWritten
  <2>3. /\ worker' = [worker EXCEPT ![w] = At("report", worker[w].row)]
        /\ worker'[w] = At("report", worker[w].row)
    BY <1>1, <2>1 DEF Goto
  <2>4. HeldRowIs(w)'
    BY <2>2, <2>3 DEF HeldRowIs, At
  <2>5. /\ At("report", worker[w].row).row = worker[w].row
        /\ At("report", worker[w].row) # Idle
    BY DEF At, Idle
  <2>6. /\ faults' \in [{"rpc", "db", "crash"} -> 0 .. MaxFaults]
        /\ faults'.db >= faults.db /\ faults'.crash >= faults.crash
    BY <1>1, <2>1, RelayerBoundsAssumption DEF TableOK
  <2>. QED BY <1>1, <1>2, <2>1, <2>2, <2>3, <2>4, <2>5, <2>6, RowStep
<1>4. CASE MarkFails(w)
  <2>1. /\ Fault("db") /\ Goto(w, Idle)
        /\ UNCHANGED submissions \/ SetStatus(worker[w].row, "FAILED")
        /\ UNCHANGED <<txs, incident>>
    BY <1>4 DEF MarkFails
  <2>2. /\ faults' \in [{"rpc", "db", "crash"} -> 0 .. MaxFaults]
        /\ faults'.db >= faults.db /\ faults'.crash >= faults.crash
    BY <1>1, <2>1, FaultCounts
  <2>3. Faulted'
    BY <1>1, <2>1, FaultRemembered
  <2>4. worker' = [worker EXCEPT ![w] = Idle] /\ worker'[w] = Idle
    BY <1>1, <2>1 DEF Goto
  <2>5. HeldRowIs(w)'
    BY <2>4 DEF HeldRowIs, Idle
  <2>. QED BY <1>1, <1>2, <2>1, <2>2, <2>3, <2>4, <2>5, RowStep
<1>. QED BY <1>3, <1>4

(* The incident is opened, unless the upsert fails.                        *)
LEMMA ReportKeeps ==
  ASSUME RInv, NEW w \in Workers, Report(w) \/ ReportFails(w)
  PROVE  RInv'
<1>1. /\ worker[w] # Idle /\ worker[w].row \in DOMAIN submissions
      /\ worker[w].row \in Rows /\ TableOK /\ HeldRowIs(w)
      /\ incident \in [Rows -> {"none", "active", "resolved"}]
      /\ worker \in [Workers -> Positions]
      /\ worker[w].pc = "report" /\ Idle \in Positions
  <2>1. worker[w].pc = "report"
    BY DEF Report, ReportFails
  <2>. QED BY <2>1, Standing DEF TableOK
<1>2. /\ Goto(w, Idle) /\ UNCHANGED <<txs, submissions>>
      /\ OpenIncident(worker[w].row) \/ (UNCHANGED incident /\ Fault("db"))
      /\ UNCHANGED faults \/ Fault("db")
  BY DEF Report, ReportFails
<1>3. /\ incident' \in [Rows -> {"none", "active", "resolved"}]
      /\ \A q \in Rows : incident[q] # "none" => incident'[q] # "none"
      /\ OpenIncident(worker[w].row) => incident'[worker[w].row] # "none"
  BY <1>1, <1>2 DEF OpenIncident
<1>4. /\ faults' \in [{"rpc", "db", "crash"} -> 0 .. MaxFaults]
      /\ faults'.db >= faults.db /\ faults'.crash >= faults.crash
      /\ Fault("db") => Faulted'
  <2>1. CASE UNCHANGED faults /\ ~Fault("db")
    BY <1>1, <2>1, RelayerBoundsAssumption DEF TableOK
  <2>2. CASE Fault("db")
    BY <1>1, <2>2, FaultCounts, FaultRemembered
  <2>. QED BY <1>2, <2>1, <2>2
<1>5. worker' = [worker EXCEPT ![w] = Idle] /\ worker'[w] = Idle
  BY <1>1, <1>2 DEF Goto
<1>6. HeldRowIs(w)'
  BY <1>5 DEF HeldRowIs, Idle
<1>7. submissions'[worker[w].row].status = "FAILED"
  BY <1>1, <1>2 DEF HeldRowIs
<1>8. "FAILED" \in Statuses \ {"PENDING"}
  BY DEF Statuses
<1>. QED BY <1>1, <1>2, <1>3, <1>4, <1>5, <1>6, <1>7, <1>8, RowStep

(* A worker that dies leaves its row as it was.                            *)
LEMMA CrashKeeps ==
  ASSUME RInv, NEW w \in Workers, Crash(w)
  PROVE  RInv'
<1>1. worker[w] # Idle /\ TableOK /\ Idle \in Positions
  BY DEF Crash, RInv, Positions
<1>2. /\ worker[w].pc # "idle" /\ worker[w].row \in DOMAIN submissions
      /\ worker \in [Workers -> Positions]
      /\ incident \in [Rows -> {"none", "active", "resolved"}]
  BY <1>1, HoldsRow DEF TableOK
<1>3. /\ worker' = [worker EXCEPT ![w] = Idle] /\ worker'[w] = Idle
      /\ UNCHANGED <<txs, submissions, incident>>
  BY <1>2 DEF Crash, Goto
<1>4. /\ faults' \in [{"rpc", "db", "crash"} -> 0 .. MaxFaults]
      /\ faults'.db >= faults.db /\ faults'.crash >= faults.crash /\ Faulted'
  BY <1>1, FaultCounts, FaultRemembered DEF Crash
<1>5. HeldRowIs(w)'
  BY <1>3 DEF HeldRowIs, Idle
<1>6. "FAILED" \in Statuses \ {"PENDING"}
  BY DEF Statuses
<1>. QED BY <1>1, <1>2, <1>3, <1>4, <1>5, <1>6, RowStep

(* The worker moves from the send on, or its call to the node fails.       *)
LEMMA SendKeeps ==
  ASSUME RInv, NEW w \in Workers, Send(w) \/ SendFails(w)
  PROVE  RInv'
<1>1. /\ worker[w].pc = "send" /\ TableOK
      /\ At("mark", worker[w].row) \in Positions
  <2>1. worker[w].pc = "send"
    BY DEF Send, SendFails
  <2>. QED BY <2>1, Standing
<1>2. /\ UNCHANGED <<submissions, incident>>
      /\ UNCHANGED faults \/ Fault("rpc")
      /\ \/ Goto(w, At("mark", worker[w].row)) /\ UNCHANGED txs
         \/ Goto(w, At("mark", worker[w].row)) /\ Broadcast(w, worker[w].row)
         \/ Goto(w, Awaiting(worker[w].row, Len(txs) + 1)) /\ Broadcast(w, worker[w].row)
  BY DEF Send, SendFails
<1>3. CASE Goto(w, At("mark", worker[w].row)) /\ UNCHANGED txs
  <2>1. At("mark", worker[w].row).row = worker[w].row /\ At("mark", worker[w].row).pc = "mark"
    BY DEF At
  <2>. QED BY <1>1, <1>2, <1>3, <2>1, LegKeeps
<1>4. CASE Broadcast(w, worker[w].row)
  <2>1. /\ faults' \in [{"rpc", "db", "crash"} -> 0 .. MaxFaults]
        /\ faults'.db >= faults.db /\ faults'.crash >= faults.crash
    <3>1. CASE UNCHANGED faults
      BY <1>1, <3>1, RelayerBoundsAssumption DEF TableOK
    <3>2. CASE Fault("rpc")
      BY <1>1, <3>2, FaultCounts
    <3>. QED BY <1>2, <3>1, <3>2
  <2>. QED BY <1>1, <1>2, <1>4, <2>1, BroadcastKeeps
<1>. QED BY <1>2, <1>3, <1>4

(* Waiting for the receipt, and looking for it when the wait failed.       *)
LEMMA ReceiptKeeps ==
  ASSUME RInv, NEW w \in Workers,
         Wait(w) \/ WaitFails(w) \/ Lookup(w)
  PROVE  RInv'
<1>. DEFINE r == worker[w].row
            t == worker[w].tx
<1>1. worker[w].pc \in {"wait", "lookup"}
  BY DEF Wait, WaitFails, Lookup
<1>2. /\ worker[w] \in Positions /\ r \in DOMAIN submissions
      /\ At("record", r) \in Positions /\ At("rescue", r) \in Positions
      /\ At("mark", r) \in Positions
  BY <1>1, Standing
<1>3. t \in DOMAIN txs
  BY <1>1, <1>2 DEF Positions, Idle
<1>4. LookingUp(r, t) \in Positions
  BY <1>2, <1>3 DEF LookingUp, Positions
<1>5. \E pos \in {At("record", r), At("rescue", r), At("mark", r), LookingUp(r, t)} :
        Goto(w, pos)
  BY DEF Wait, WaitFails, Lookup
<1>6. PICK pos \in {At("record", r), At("rescue", r), At("mark", r), LookingUp(r, t)} :
        Goto(w, pos)
  BY <1>5
<1>7. pos \in Positions /\ pos.row = r /\ pos.pc \in {"lookup", "record", "rescue", "mark"}
  BY <1>2, <1>4, <1>6 DEF At, LookingUp
<1>8. UNCHANGED <<submissions, txs, incident>> /\ (UNCHANGED faults \/ Fault("rpc"))
  BY DEF Wait, WaitFails, Lookup
<1>. QED BY <1>1, <1>6, <1>7, <1>8, LegKeeps

(* What the chain and the indexer do leaves the table alone, and closes    *)
(* incidents without erasing them.                                         *)
LEMMA OthersKeep ==
  ASSUME RInv,
         \/ \E t \in DOMAIN txs : Mine(t)
         \/ IndexerStep \/ IndexerRestart \/ ChainStep
         \/ \E w \in Workers : Poll(w)
         \/ UNCHANGED allVars
  PROVE  RInv'
<1>1. TableOK
  BY DEF RInv
<1>2. /\ txs \in Seq(Transaction) /\ incident \in [Rows -> {"none", "active", "resolved"}]
      /\ faults \in [{"rpc", "db", "crash"} -> 0 .. MaxFaults]
      /\ faults.db \in Nat /\ faults.crash \in Nat
  BY <1>1, RelayerBoundsAssumption DEF TableOK
<1>3. CASE \E t \in DOMAIN txs : Mine(t)
  <2>1. PICK t \in DOMAIN txs : Mine(t)
    BY <1>3
  <2>2. PICK state \in {"mined", "reverted"} : txs' = [txs EXCEPT ![t].state = state]
    BY <2>1 DEF Mine
  <2>3. txs[t] \in Transaction
    BY <1>2, <2>1
  <2>4. [txs[t] EXCEPT !.state = state] \in Transaction
    BY <2>3 DEF Transaction
  <2>5. /\ txs' \in Seq(Transaction) /\ DOMAIN txs' = DOMAIN txs
        /\ \A u \in DOMAIN txs : u # t => txs'[u] = txs[u]
        /\ txs'[t] = [txs[t] EXCEPT !.state = state]
    BY <1>2, <2>1, <2>2, <2>4
  <2>6. \A u \in DOMAIN txs : txs'[u].row = txs[u].row
    BY <2>3, <2>5 DEF Transaction
  <2>7. UNCHANGED <<submissions, worker, incident, faults>>
    BY <2>1 DEF Mine
  <2>. QED BY <1>2, <2>5, <2>6, <2>7, TableUnmoved
<1>4. CASE IndexerStep
  <2>1. UNCHANGED <<submissions, worker, txs, faults>>
    BY <1>4 DEF IndexerStep, IndexBatch, ResolveRecoveredRelayerIncidents
  <2>2. /\ incident' \in [Rows -> {"none", "active", "resolved"}]
        /\ \A q \in Rows : incident[q] # "none" => incident'[q] # "none"
    BY <1>2, <1>4 DEF IndexerStep, IndexBatch, ResolveRecoveredRelayerIncidents
  <2>. QED BY <1>2, <2>1, <2>2, TableUnmoved
<1>5. CASE IndexerRestart
  <2>1. UNCHANGED <<submissions, worker, txs, incident>> /\ Fault("crash")
    BY <1>5 DEF IndexerRestart
  <2>2. /\ faults' \in [{"rpc", "db", "crash"} -> 0 .. MaxFaults]
        /\ faults'.db >= faults.db /\ faults'.crash >= faults.crash
    BY <1>1, <2>1, FaultCounts
  <2>. QED BY <1>2, <2>1, <2>2, TableUnmoved
<1>6. CASE ChainStep \/ (\E w \in Workers : Poll(w)) \/ UNCHANGED allVars
  <2>1. UNCHANGED <<submissions, worker, txs, incident, faults>>
    BY <1>6 DEF ChainStep, Poll, allVars, relayerVars
  <2>. QED BY <1>2, <2>1, TableUnmoved
<1>. QED BY <1>3, <1>4, <1>5, <1>6

(* Marking rows IN_FLIGHT, whether or not the worker learns of it.         *)
LEMMA ClaimStepKeeps ==
  ASSUME RInv, NEW w \in Workers, Claim(w) \/ ClaimReplyLost(w)
  PROVE  RInv'
<1>1. TableOK
  BY DEF RInv
<1>2. CASE Claim(w)
  <2>1. PICK r \in DOMAIN submissions :
          OldestPending(r) /\ SetStatus(r, "IN_FLIGHT") /\ Goto(w, At("send", r))
    BY <1>2 DEF Claim
  <2>2. worker[w] = Idle /\ UNCHANGED <<txs, incident, faults>>
    BY <1>2 DEF Claim
  <2>3. /\ faults' \in [{"rpc", "db", "crash"} -> 0 .. MaxFaults]
        /\ faults'.db >= faults.db /\ faults'.crash >= faults.crash
    BY <1>1, <2>2, RelayerBoundsAssumption DEF TableOK
  <2>. QED BY <2>1, <2>2, <2>3, ClaimKeeps
<1>3. CASE ClaimReplyLost(w)
  <2>1. PICK r \in DOMAIN submissions : OldestPending(r) /\ SetStatus(r, "IN_FLIGHT")
    BY <1>3 DEF ClaimReplyLost
  <2>2. worker[w] = Idle /\ UNCHANGED <<txs, incident, worker>> /\ Fault("db")
    BY <1>3 DEF ClaimReplyLost
  <2>3. /\ faults' \in [{"rpc", "db", "crash"} -> 0 .. MaxFaults]
        /\ faults'.db >= faults.db /\ faults'.crash >= faults.crash /\ Faulted'
    BY <1>1, <2>2, FaultCounts, FaultRemembered
  <2>. QED BY <2>1, <2>2, <2>3, ClaimKeeps
<1>. QED BY <1>2, <1>3

(* Every step of a worker loop, failing or not, keeps the invariant.       *)
LEMMA WorkerKeeps ==
  ASSUME RInv, NEW w \in Workers, WorkerStep(w) \/ WorkerFault(w)
  PROVE  RInv'
<1>1. CASE Poll(w)
  BY <1>1, OthersKeep
<1>2. CASE Claim(w) \/ ClaimReplyLost(w)
  BY <1>2, ClaimStepKeeps
<1>3. CASE Send(w) \/ SendFails(w)
  BY <1>3, SendKeeps
<1>4. CASE Wait(w) \/ WaitFails(w) \/ Lookup(w)
  BY <1>4, ReceiptKeeps
<1>5. CASE Record(w) \/ Rescue(w) \/ RecordFails(w)
  BY <1>5, VerdictKeeps
<1>6. CASE MarkFailed(w) \/ MarkFails(w)
  BY <1>6, MarkKeeps
<1>7. CASE Report(w) \/ ReportFails(w)
  BY <1>7, ReportKeeps
<1>8. CASE Crash(w)
  BY <1>8, CrashKeeps
<1>. QED BY <1>1, <1>2, <1>3, <1>4, <1>5, <1>6, <1>7, <1>8 DEF WorkerStep, WorkerFault

(* The inductive invariant holds at the start and is kept by every step.   *)
THEOREM RelayerInvariant == RelayerSafety => []RInv
<1>1. RelayerInit => RInv
  <2>. SUFFICES ASSUME RelayerInit
                PROVE  RInv
    OBVIOUS
  <2>1. /\ submissions = <<>> /\ txs = <<>> /\ worker = [w \in Workers |-> Idle]
        /\ incident = [r \in Rows |-> "none"]
        /\ faults = [rpc |-> 0, db |-> 0, crash |-> 0]
    BY DEF RelayerInit
  <2>2. TableOK
    <3>1. worker \in [Workers -> Positions]
      BY <2>1 DEF Positions
    <3>2. /\ submissions \in Seq(Submission) /\ txs \in Seq(Transaction)
          /\ Len(submissions) <= MaxRows
      BY <2>1, RelayerBoundsAssumption
    <3>3. /\ incident \in [Rows -> {"none", "active", "resolved"}]
          /\ faults \in [{"rpc", "db", "crash"} -> 0 .. MaxFaults]
      BY <2>1, RelayerBoundsAssumption
    <3>. QED BY <3>1, <3>2, <3>3 DEF TableOK
  <2>3. DOMAIN submissions = {} /\ DOMAIN txs = {}
    BY <2>1
  <2>4. \A w \in Workers : HeldRowIs(w)
    BY <2>1 DEF HeldRowIs, Idle
  <2>. QED BY <2>2, <2>3, <2>4 DEF RInv, PendingUntouched, AtMostOneBroadcast,
             NoOrphanFromRpcErrors, FailuresReported
<1>2. RInv /\ [RelayerNext]_allVars => RInv'
  <2>. SUFFICES ASSUME RInv, [RelayerNext]_allVars
                PROVE  RInv'
    OBVIOUS
  <2>1. CASE \E payload \in Submissible : Submit(payload)
    BY <2>1, SubmitKeeps
  <2>2. CASE \E w \in Workers : WorkerStep(w) \/ WorkerFault(w)
    BY <2>2, WorkerKeeps
  <2>3. CASE \/ \E t \in DOMAIN txs : Mine(t)
             \/ IndexerStep \/ IndexerRestart \/ ChainStep \/ UNCHANGED allVars
    BY <2>3, OthersKeep
  <2>. QED BY <2>1, <2>2, <2>3 DEF RelayerNext
<1>. QED BY <1>1, <1>2, PTL DEF RelayerSafety

(* However many workers share the table and whatever fails, no submission  *)
(* is broadcast twice, nor held by two workers at once.                    *)
THEOREM NeverSentTwice == RelayerSafety => []AtMostOneBroadcast
<1>1. RInv => AtMostOneBroadcast
  BY DEF RInv
<1>. QED BY <1>1, RelayerInvariant, PTL

(* A row in flight that nobody holds is the trace of a crash or a database *)
(* error: failing RPC calls alone lose nothing.                            *)
THEOREM RpcErrorsLoseNothing == RelayerSafety => []NoOrphanFromRpcErrors
<1>1. RInv => NoOrphanFromRpcErrors
  BY DEF RInv
<1>. QED BY <1>1, RelayerInvariant, PTL

(* No failure is silent, short of a database error or a crash.             *)
THEOREM NoSilentFailure == RelayerSafety => []FailuresReported
<1>1. RInv => FailuresReported
  BY DEF RInv
<1>. QED BY <1>1, RelayerInvariant, PTL

(* No step takes a verdict back.                                           *)
LEMMA VerdictStep ==
  ASSUME RInv, RelayerNext
  PROVE  VerdictsStandStep
<1>1. TableOK /\ \A w \in Workers : HeldRowIs(w)
  BY DEF RInv
<1>2. CASE UNCHANGED submissions
  BY <1>2 DEF VerdictsStandStep
<1>3. CASE \E payload \in Submissible : Submit(payload)
  <2>1. PICK payload \in Submissible : Submit(payload)
    BY <1>3
  <2>2. /\ submissions \in Seq(Submission)
        /\ submissions' = Append(submissions, [payload |-> payload, status |-> "PENDING"])
    BY <1>1, <2>1 DEF Submit, TableOK
  <2>3. \A r \in DOMAIN submissions : submissions'[r] = submissions[r]
    BY <2>2
  <2>. QED BY <2>3 DEF VerdictsStandStep
<1>4. ASSUME NEW r \in DOMAIN submissions, NEW status \in Statuses,
             SetStatus(r, status),
             \/ submissions[r].status \in {"PENDING", "IN_FLIGHT"}
             \/ submissions[r].status = "SUCCESS" /\ faults.db > 0
      PROVE  VerdictsStandStep
  <2>1. \A q \in DOMAIN submissions : q # r => submissions'[q] = submissions[q]
    BY <1>1, <1>4, StatusWritten
  <2>. QED BY <1>4, <2>1 DEF VerdictsStandStep
<1>5. ASSUME NEW w \in Workers, Claim(w) \/ ClaimReplyLost(w)
      PROVE  VerdictsStandStep
  <2>1. PICK r \in DOMAIN submissions : OldestPending(r) /\ SetStatus(r, "IN_FLIGHT")
    BY <1>5 DEF Claim, ClaimReplyLost
  <2>. QED BY <1>4, <2>1 DEF OldestPending, Statuses
<1>6. ASSUME NEW w \in Workers,
             \/ Record(w) \/ Rescue(w) \/ RecordFails(w)
             \/ MarkFailed(w) \/ MarkFails(w)
      PROVE  VerdictsStandStep
  <2>1. worker[w].pc \in {"record", "rescue", "mark"}
    BY <1>6 DEF Record, Rescue, RecordFails, MarkFailed, MarkFails
  <2>2. worker[w].row \in DOMAIN submissions
    BY <2>1, Standing
  <2>3. \/ submissions[worker[w].row].status = "IN_FLIGHT"
        \/ submissions[worker[w].row].status = "SUCCESS" /\ faults.db > 0
    BY <1>1, <2>1 DEF HeldRowIs
  <2>4. \/ SetStatus(worker[w].row, "SUCCESS") \/ SetStatus(worker[w].row, "FAILED")
        \/ UNCHANGED submissions
    BY <1>6 DEF Record, Rescue, RecordFails, MarkFailed, MarkFails
  <2>. QED BY <1>2, <1>4, <2>2, <2>3, <2>4 DEF Statuses
<1>7. ASSUME NEW w \in Workers, WorkerStep(w) \/ WorkerFault(w)
      PROVE  VerdictsStandStep
  <2>1. CASE \/ Poll(w) \/ Send(w) \/ Wait(w) \/ Lookup(w) \/ Report(w)
             \/ SendFails(w) \/ WaitFails(w) \/ ReportFails(w) \/ Crash(w)
    BY <1>2, <2>1 DEF Poll, Send, Wait, Lookup, Report, SendFails, WaitFails,
         ReportFails, Crash, allVars, relayerVars
  <2>. QED BY <1>5, <1>6, <1>7, <2>1 DEF WorkerStep, WorkerFault
<1>8. CASE (\E t \in DOMAIN txs : Mine(t)) \/ IndexerStep \/ IndexerRestart \/ ChainStep
  BY <1>2, <1>8 DEF Mine, IndexerStep, IndexBatch, ResolveRecoveredRelayerIncidents,
       IndexerRestart, ChainStep, relayerVars
<1>. QED BY <1>3, <1>7, <1>8 DEF RelayerNext

(* FAILED is final for a row, and so is SUCCESS without a database error.  *)
THEOREM VerdictIsFinal == RelayerSafety => VerdictsStand
<1>1. RInv /\ [RelayerNext]_allVars => [VerdictsStandStep]_allVars
  BY VerdictStep
<1>. QED BY <1>1, RelayerInvariant, PTL DEF RelayerSafety, VerdictsStand

-----------------------------------------------------------------------------
(* The relayer and the registry.                                           *)

(* A transaction is of a row of the table, and that row holds a payload a  *)
(* client may post.                                                        *)
LEMMA RowsOfTransactions ==
  ASSUME RInv
  PROVE  /\ submissions \in Seq(Submission) /\ txs \in Seq(Transaction)
         /\ \A r \in DOMAIN submissions : submissions[r].payload \in Submissible
         /\ \A t \in DOMAIN txs : /\ txs[t].row \in DOMAIN submissions
                                 /\ submissions[txs[t].row].payload \in Submissible
<1>1. submissions \in Seq(Submission) /\ txs \in Seq(Transaction)
  BY DEF RInv, TableOK
<1>2. \A r \in DOMAIN submissions : submissions[r] \in Submission
  BY <1>1
<1>3. \A t \in DOMAIN txs : txs[t] \in Transaction
  BY <1>1
<1>4. QED
  BY <1>1, <1>2, <1>3 DEF Submission, Transaction

(* What the relayer mines is what a voter's call does.                     *)
LEMMA StepOfTheContract ==
  ASSUME RInv, [RelayerNext]_allVars
  PROVE  [Next]_vars
<1>1. ASSUME NEW t \in DOMAIN txs, Mine(t)
      PROVE  [Next]_vars
  <2> DEFINE p == submissions[txs[t].row].payload
  <2>1. p \in SignupPayload \cup BallotPayload
    BY RowsOfTransactions, SubmissibleAssumption
  <2>2. CASE UNCHANGED vars
    BY <2>2
  <2>3. CASE p.kind = "SIGNUP" /\ Signup(p.election, p.nullifier, p.key)
    <3>1. p.election \in ElectionIds /\ p.nullifier \in Nullifiers /\ p.key \in VotingKeys
      BY <2>1, <2>3 DEF SignupPayload, BallotPayload
    <3>2. QED
      BY <2>3, <3>1 DEF Next, VoterStep
  <2>4. CASE p.kind = "BALLOT" /\ PublishBallot(p.election, p.key, p.ciphertext)
    <3>1. p.election \in ElectionIds /\ p.ciphertext \in Ciphertexts /\ p.key \in VotingKeys
      BY <2>1, <2>4 DEF SignupPayload, BallotPayload
    <3>2. QED
      BY <2>4, <3>1 DEF Next, VoterStep
  <2>5. QED
    BY <1>1, <2>2, <2>3, <2>4 DEF Mine, Execute
<1>2. ASSUME NEW w \in Workers, WorkerStep(w) \/ WorkerFault(w)
      PROVE  UNCHANGED vars
  BY <1>2 DEF WorkerStep, WorkerFault, Poll, Claim, Send, Wait, Lookup, Record,
     Rescue, MarkFailed, Report, ClaimReplyLost, SendFails, WaitFails,
     RecordFails, MarkFails, ReportFails, Crash, allVars
<1>3. CASE \/ \E payload \in Submissible : Submit(payload)
           \/ IndexerStep \/ IndexerRestart \/ UNCHANGED allVars
  BY <1>3 DEF Submit, IndexerStep, IndexBatch, ResolveRecoveredRelayerIncidents,
     IndexerRestart, allVars
<1>4. CASE ChainStep
  BY <1>4 DEF ChainStep, Next
<1>5. QED
  BY <1>1, <1>2, <1>3, <1>4 DEF RelayerNext

(* With the relayer, its workers and the indexer beside it, the contract   *)
(* does what it does alone.                                                *)
THEOREM RelayerRunsTheContract == RelayerSafety => Spec
<1>1. RelayerInit => Init
  BY DEF RelayerInit
<1>2. RInv /\ [RelayerNext]_allVars => [Next]_vars
  BY StepOfTheContract
<1>3. QED
  BY <1>1, <1>2, RelayerInvariant, PTL DEF RelayerSafety, Spec

(* The log of an election that a longer one goes on from.                  *)
LEMMA PrefixKeepsEvents ==
  ASSUME NEW events \in Seq(Event), NEW longer \in Seq(Event),
         IsPrefix(events, longer), NEW i \in DOMAIN events
  PROVE  i \in DOMAIN longer /\ longer[i] = events[i]
<1>1. /\ Len(events) <= Len(longer) /\ Len(events) \in Nat /\ Len(longer) \in Nat
      /\ SubSeq(events, 1, Len(events)) = SubSeq(longer, 1, Len(events))
  BY DEF IsPrefix
<1>2. i \in 1 .. Len(events)
  OBVIOUS
<1>3. /\ SubSeq(events, 1, Len(events))[i] = events[i]
      /\ SubSeq(longer, 1, Len(events))[i] = longer[i]
  BY <1>1, <1>2
<1>4. QED
  BY <1>1, <1>2, <1>3

(* No step of the composition takes an event back.                         *)
LEMMA LogsExtended ==
  ASSUME RInv, TypeOK, FreshSlots, [RelayerNext]_allVars
  PROVE  \A e \in ElectionIds : IsPrefix(log[e], log'[e])
<1>1. CASE Next
  BY <1>1, StepSettles DEF SettledStep
<1>2. CASE UNCHANGED vars
  <2>1. \A e \in ElectionIds : log[e] \in Seq(Event) /\ log'[e] = log[e]
    BY <1>2 DEF vars, TypeOK
  <2>2. QED
    BY <2>1, PrefixOfLonger
<1>3. QED
  BY <1>1, <1>2, StepOfTheContract

-----------------------------------------------------------------------------
(* A row of the table has a mined transaction.                             *)
Delivered(table, r) == \E t \in DOMAIN table : table[t].row = r /\ table[t].state = "mined"

(* A worker awaits the transaction of its own row; the row it is about to  *)
(* call a success, and every row called one, has a mined transaction.      *)
ReceiptsKnown ==
  /\ \A w \in Workers :
       /\ worker[w].pc \in {"wait", "lookup"} => txs[worker[w].tx].row = worker[w].row
       /\ worker[w].pc \in {"record", "rescue"} => Delivered(txs, worker[w].row)
  /\ \A r \in DOMAIN submissions :
       submissions[r].status = "SUCCESS" => Delivered(txs, r)

(* Transactions are neither lost nor given to another row, and what is     *)
(* mined stays so.                                                         *)
TxsKept ==
  \A t \in DOMAIN txs :
    /\ t \in DOMAIN txs' /\ txs'[t].row = txs[t].row
    /\ txs[t].state = "mined" => txs'[t].state = "mined"

(* Rows called a success had a mined transaction or have one now.          *)
SuccessesBacked ==
  \A r \in DOMAIN submissions' : submissions'[r].status = "SUCCESS" =>
    \/ Delivered(txs', r)
    \/ r \in DOMAIN submissions /\ submissions[r].status = "SUCCESS"

(* What a delivery rests on is kept with the transactions.                 *)
LEMMA DeliveredStays ==
  ASSUME TxsKept, NEW r, Delivered(txs, r)
  PROVE  Delivered(txs', r)
BY DEF TxsKept, Delivered

(* Broadcasting and mining keep the transactions.                          *)
LEMMA StepsKeepTxs ==
  ASSUME RInv, [RelayerNext]_allVars
  PROVE  TxsKept
<1>1. txs \in Seq(Transaction)
  BY RowsOfTransactions
<1>2. CASE UNCHANGED txs
  BY <1>2 DEF TxsKept
<1>3. ASSUME NEW tx, txs' = Append(txs, tx)
      PROVE  TxsKept
  <2>1. \A t \in DOMAIN txs : t \in DOMAIN txs' /\ txs'[t] = txs[t]
    BY <1>1, <1>3
  <2>2. QED
    BY <2>1 DEF TxsKept
<1>4. ASSUME NEW t \in DOMAIN txs, Mine(t)
      PROVE  TxsKept
  <2>1. PICK s \in {"mined", "reverted"} : txs' = [txs EXCEPT ![t].state = s]
    BY <1>4 DEF Mine
  <2>2. txs[t].state = "pending"
    BY <1>4 DEF Mine, NextOfSender
  <2>3. \A u \in DOMAIN txs : txs[u] \in Transaction
    BY <1>1
  <2>4. DOMAIN txs' = DOMAIN txs /\ \A u \in DOMAIN txs : u # t => txs'[u] = txs[u]
    BY <2>1
  <2>5. txs'[t].row = txs[t].row
    BY <2>1, <2>3 DEF Transaction
  <2>6. QED
    BY <2>2, <2>4, <2>5 DEF TxsKept
<1>5. ASSUME NEW w \in Workers, WorkerStep(w) \/ WorkerFault(w)
      PROVE  UNCHANGED txs \/ \E tx : txs' = Append(txs, tx)
  <2>1. CASE Send(w) \/ SendFails(w)
    <3>1. UNCHANGED txs \/ Broadcast(w, worker[w].row)
      BY <2>1 DEF Send, SendFails
    <3>2. QED
      BY <3>1 DEF Broadcast
  <2>2. CASE \/ Poll(w) \/ Claim(w) \/ Wait(w) \/ Lookup(w) \/ Record(w)
             \/ Rescue(w) \/ MarkFailed(w) \/ Report(w) \/ ClaimReplyLost(w)
             \/ WaitFails(w) \/ RecordFails(w) \/ MarkFails(w) \/ ReportFails(w)
             \/ Crash(w)
    BY <2>2 DEF Poll, Claim, Wait, Lookup, Record, Rescue, MarkFailed, Report,
       ClaimReplyLost, WaitFails, RecordFails, MarkFails, ReportFails, Crash,
       allVars, relayerVars
  <2>3. QED
    BY <1>5, <2>1, <2>2 DEF WorkerStep, WorkerFault
<1>6. CASE \/ \E payload \in Submissible : Submit(payload)
           \/ IndexerStep \/ IndexerRestart \/ ChainStep \/ UNCHANGED allVars
  BY <1>2, <1>6 DEF Submit, IndexerStep, IndexBatch, ResolveRecoveredRelayerIncidents,
     IndexerRestart, ChainStep, allVars, relayerVars
<1>7. QED
  BY <1>2, <1>3, <1>4, <1>5, <1>6 DEF RelayerNext

(* A step of one worker, and what its new position has to know.            *)
LEMMA ReceiptStep ==
  ASSUME RInv, ReceiptsKnown, TxsKept, SuccessesBacked,
         NEW w \in Workers, NEW pos, Goto(w, pos),
         pos.pc \in {"wait", "lookup"} => txs'[pos.tx].row = pos.row,
         pos.pc \in {"record", "rescue"} => Delivered(txs', pos.row)
  PROVE  ReceiptsKnown'
<1>1. worker \in [Workers -> Positions]
  BY DEF RInv, TableOK
<1>2. worker'[w] = pos /\ \A v \in Workers : v # w => worker'[v] = worker[v]
  BY <1>1 DEF Goto
<1>3. ASSUME NEW v \in Workers
      PROVE  /\ worker'[v].pc \in {"wait", "lookup"} =>
                  txs'[worker'[v].tx].row = worker'[v].row
             /\ worker'[v].pc \in {"record", "rescue"} => Delivered(txs', worker'[v].row)
  <2>1. CASE v = w
    BY <1>2, <2>1
  <2>2. CASE v # w
    <3>1. worker'[v] = worker[v]
      BY <1>2, <2>2
    <3>2. worker[v].pc \in {"wait", "lookup"} => worker[v].tx \in DOMAIN txs
      BY <1>1 DEF Positions, Idle
    <3>3. QED
      BY <3>1, <3>2, DeliveredStays DEF ReceiptsKnown, TxsKept
  <2>3. QED
    BY <2>1, <2>2
<1>4. \A r \in DOMAIN submissions' :
        submissions'[r].status = "SUCCESS" => Delivered(txs', r)
  BY DeliveredStays DEF SuccessesBacked, ReceiptsKnown
<1>5. QED
  BY <1>3, <1>4 DEF ReceiptsKnown

(* So does a step that moves no worker.                                    *)
LEMMA ReceiptsUnmoved ==
  ASSUME RInv, ReceiptsKnown, TxsKept, SuccessesBacked, UNCHANGED worker
  PROVE  ReceiptsKnown'
<1>1. \A v \in Workers :
        worker[v].pc \in {"wait", "lookup"} => worker[v].tx \in DOMAIN txs
  BY DEF RInv, TableOK, Positions, Idle
<1>2. \A r \in DOMAIN submissions' :
        submissions'[r].status = "SUCCESS" => Delivered(txs', r)
  BY DeliveredStays DEF SuccessesBacked, ReceiptsKnown
<1>3. QED
  BY <1>1, <1>2, DeliveredStays DEF ReceiptsKnown, TxsKept

(* A worker's step knows the receipt before it reports a success.          *)
LEMMA WorkerKnowsReceipt ==
  ASSUME RInv, ReceiptsKnown, TxsKept, NEW w \in Workers,
         WorkerStep(w) \/ WorkerFault(w)
  PROVE  ReceiptsKnown'
<1>1. TableOK /\ worker \in [Workers -> Positions] /\ txs \in Seq(Transaction)
  BY DEF RInv, TableOK
<1>2. UNCHANGED submissions => SuccessesBacked
  BY DEF SuccessesBacked
<1>3. ASSUME NEW r \in DOMAIN submissions, NEW status \in Statuses, SetStatus(r, status),
             status = "SUCCESS" => Delivered(txs, r)
      PROVE  SuccessesBacked
  <2>1. /\ DOMAIN submissions' = DOMAIN submissions /\ submissions'[r].status = status
        /\ \A q \in DOMAIN submissions : q # r => submissions'[q] = submissions[q]
    BY <1>1, <1>3, StatusWritten
  <2>2. QED
    BY <1>3, <2>1, DeliveredStays DEF SuccessesBacked
<1>4. CASE Poll(w)
  BY <1>2, <1>4, ReceiptsUnmoved DEF Poll, allVars, relayerVars
<1>5. CASE Claim(w) \/ ClaimReplyLost(w)
  <2>1. PICK r \in DOMAIN submissions :
          SetStatus(r, "IN_FLIGHT") /\ (Goto(w, At("send", r)) \/ UNCHANGED worker)
    BY <1>5 DEF Claim, ClaimReplyLost
  <2>2. SuccessesBacked
    BY <1>3, <2>1 DEF Statuses
  <2>3. At("send", r).pc = "send"
    BY DEF At
  <2>4. QED
    BY <2>1, <2>2, <2>3, ReceiptStep, ReceiptsUnmoved
<1>6. CASE Send(w) \/ SendFails(w)
  <2>1. PICK r \in DOMAIN submissions : worker[w].row = r
    BY <1>6, Standing DEF Send, SendFails
  <2>2. SuccessesBacked
    BY <1>2, <1>6 DEF Send, SendFails
  <2>3. CASE Goto(w, At("mark", r))
    BY <2>2, <2>3, ReceiptStep DEF At
  <2>4. CASE Broadcast(w, r) /\ Goto(w, Awaiting(r, Len(txs) + 1))
    <3>1. txs'[Len(txs) + 1].row = r
      BY <1>1, <2>4 DEF Broadcast
    <3>2. PICK t : t = Len(txs) + 1
      OBVIOUS
    <3>3. Awaiting(r, t).pc = "wait" /\ Awaiting(r, t).tx = t /\ Awaiting(r, t).row = r
      BY DEF Awaiting
    <3>4. QED
      BY <2>2, <2>4, <3>1, <3>2, <3>3, ReceiptStep
  <2>5. QED
    BY <1>6, <2>1, <2>3, <2>4 DEF Send, SendFails
<1>7. CASE Wait(w) \/ WaitFails(w) \/ Lookup(w)
  <2>1. PICK r \in DOMAIN submissions : worker[w].row = r
    BY <1>7, Standing DEF Wait, WaitFails, Lookup
  <2>2. worker[w].pc \in {"wait", "lookup"}
    BY <1>7 DEF Wait, WaitFails, Lookup
  <2>3. PICK t \in DOMAIN txs : worker[w].tx = t
    BY <1>1, <2>2 DEF Positions, Idle
  <2>4. SuccessesBacked /\ UNCHANGED txs
    BY <1>2, <1>7 DEF Wait, WaitFails, Lookup
  <2>5. txs'[t].row = r
    BY <2>1, <2>2, <2>3, <2>4 DEF ReceiptsKnown
  <2>6. \/ Goto(w, At("mark", r)) \/ Goto(w, LookingUp(r, t))
        \/ /\ Goto(w, At("record", r)) \/ Goto(w, At("rescue", r))
           /\ txs[t].state = "mined"
    BY <1>7, <2>1, <2>3 DEF Wait, WaitFails, Lookup
  <2>7. CASE Goto(w, At("mark", r))
    BY <2>4, <2>7, ReceiptStep DEF At
  <2>8. CASE Goto(w, LookingUp(r, t))
    <3>1. LookingUp(r, t).pc = "lookup" /\ LookingUp(r, t).tx = t /\ LookingUp(r, t).row = r
      BY DEF LookingUp
    <3>2. QED
      BY <2>4, <2>5, <2>8, <3>1, ReceiptStep
  <2>9. CASE /\ Goto(w, At("record", r)) \/ Goto(w, At("rescue", r))
             /\ txs[t].state = "mined"
    <3>1. Delivered(txs', r)
      BY <2>4, <2>5, <2>9 DEF Delivered
    <3>2. \A pc : At(pc, r).pc = pc /\ At(pc, r).row = r
      BY DEF At
    <3>3. QED
      BY <2>4, <2>9, <3>1, <3>2, ReceiptStep
  <2>10. QED
    BY <2>6, <2>7, <2>8, <2>9
<1>8. CASE Record(w) \/ Rescue(w) \/ RecordFails(w)
  <2>1. worker[w].pc \in {"record", "rescue"}
    BY <1>8 DEF Record, Rescue, RecordFails
  <2>2. PICK r \in DOMAIN submissions : worker[w].row = r
    BY <2>1, Standing
  <2>3. Delivered(txs, r)
    BY <2>1, <2>2 DEF ReceiptsKnown
  <2>4. SuccessesBacked
    BY <1>2, <1>3, <1>8, <2>2, <2>3 DEF Record, Rescue, RecordFails, Statuses
  <2>5. Goto(w, Idle) \/ Goto(w, At("mark", r))
    BY <1>8, <2>2 DEF Record, Rescue, RecordFails
  <2>6. Idle.pc = "idle" /\ At("mark", r).pc = "mark"
    BY DEF Idle, At
  <2>7. QED
    BY <2>4, <2>5, <2>6, ReceiptStep
<1>9. CASE MarkFailed(w) \/ MarkFails(w)
  <2>1. PICK r \in DOMAIN submissions : worker[w].row = r
    BY <1>9, Standing DEF MarkFailed, MarkFails
  <2>2. SuccessesBacked
    BY <1>2, <1>3, <1>9, <2>1 DEF MarkFailed, MarkFails, Statuses
  <2>3. Goto(w, Idle) \/ Goto(w, At("report", r))
    BY <1>9, <2>1 DEF MarkFailed, MarkFails
  <2>4. Idle.pc = "idle" /\ At("report", r).pc = "report"
    BY DEF Idle, At
  <2>5. QED
    BY <2>2, <2>3, <2>4, ReceiptStep
<1>10. CASE Report(w) \/ ReportFails(w) \/ Crash(w)
  <2>1. SuccessesBacked /\ Goto(w, Idle)
    BY <1>2, <1>10 DEF Report, ReportFails, Crash
  <2>2. Idle.pc = "idle"
    BY DEF Idle
  <2>3. QED
    BY <2>1, <2>2, ReceiptStep
<1>11. QED
  BY <1>4, <1>5, <1>6, <1>7, <1>8, <1>9, <1>10 DEF WorkerStep, WorkerFault

(* No row is called a success without a mined transaction of its own.      *)
LEMMA ReceiptsInvariant == RelayerSafety => []ReceiptsKnown
<1>1. RelayerInit => ReceiptsKnown
  BY DEF RelayerInit, ReceiptsKnown, Idle
<1>2. RInv /\ ReceiptsKnown /\ [RelayerNext]_allVars => ReceiptsKnown'
  <2> SUFFICES ASSUME RInv, ReceiptsKnown, [RelayerNext]_allVars
               PROVE  ReceiptsKnown'
    OBVIOUS
  <2>1. TxsKept
    BY StepsKeepTxs
  <2>2. CASE \E payload \in Submissible : Submit(payload)
    <3>1. PICK payload \in Submissible : Submit(payload)
      BY <2>2
    <3>2. SuccessesBacked
      BY <3>1, RowsOfTransactions DEF Submit, SuccessesBacked
    <3>3. QED
      BY <2>1, <3>1, <3>2, ReceiptsUnmoved DEF Submit
  <2>3. CASE \E w \in Workers : WorkerStep(w) \/ WorkerFault(w)
    BY <2>1, <2>3, WorkerKnowsReceipt
  <2>4. CASE \/ \E t \in DOMAIN txs : Mine(t)
             \/ IndexerStep \/ IndexerRestart \/ ChainStep \/ UNCHANGED allVars
    <3>1. UNCHANGED <<submissions, worker>>
      BY <2>4 DEF Mine, IndexerStep, IndexBatch, ResolveRecoveredRelayerIncidents,
         IndexerRestart, ChainStep, allVars, relayerVars
    <3>2. SuccessesBacked
      BY <3>1 DEF SuccessesBacked
    <3>3. QED
      BY <2>1, <3>1, <3>2, ReceiptsUnmoved
  <2>5. QED
    BY <2>2, <2>3, <2>4 DEF RelayerNext
<1>3. QED
  BY <1>1, <1>2, RelayerInvariant, PTL DEF RelayerSafety

-----------------------------------------------------------------------------
(* What the transaction t asks for, and the mined ones of an election.     *)
Payloads == [t \in DOMAIN txs |-> submissions[txs[t].row].payload]
MinedFor(e) ==
  {t \in DOMAIN txs : txs[t].state = "mined" /\ Payloads[t].election = e}

(* Each of the transactions M has an event of its own that carries what it *)
(* asks for.                                                               *)
EventOfEach(M, asked, events) ==
  \E position \in [M -> DOMAIN events] :
    /\ \A t, u \in M : position[t] = position[u] => t = u
    /\ \A t \in M : Carries(events[position[t]], asked[t])

(* The mined transactions of every election are events of its log.         *)
MinedAreEvents ==
  \A e \in ElectionIds : EventOfEach(MinedFor(e), Payloads, log[e])

(* A longer log, and further payloads, keep them so.                       *)
LEMMA EventsStay ==
  ASSUME NEW events \in Seq(Event), NEW longer \in Seq(Event),
         IsPrefix(events, longer), NEW M, NEW asked, NEW askedNow,
         EventOfEach(M, asked, events), \A t \in M : askedNow[t] = asked[t]
  PROVE  EventOfEach(M, askedNow, longer)
<1>1. PICK position \in [M -> DOMAIN events] :
        /\ \A t, u \in M : position[t] = position[u] => t = u
        /\ \A t \in M : Carries(events[position[t]], asked[t])
  BY DEF EventOfEach
<1>2. \A t \in M : /\ position[t] \in DOMAIN longer
                   /\ longer[position[t]] = events[position[t]]
  BY <1>1, PrefixKeepsEvents
<1>3. position \in [M -> DOMAIN longer]
  BY <1>1, <1>2
<1>4. \A t \in M : Carries(longer[position[t]], askedNow[t])
  BY <1>1, <1>2
<1>5. QED
  BY <1>1, <1>3, <1>4 DEF EventOfEach

(* One more transaction takes the event that is appended for it.           *)
LEMMA EventAdded ==
  ASSUME NEW events \in Seq(Event), NEW ev \in Event, NEW M, NEW t, t \notin M,
         NEW asked, EventOfEach(M, asked, events), Carries(ev, asked[t])
  PROVE  EventOfEach(M \cup {t}, asked, Append(events, ev))
<1> DEFINE longer == Append(events, ev)
           last == Len(events) + 1
<1>1. PICK position \in [M -> DOMAIN events] :
        /\ \A v, u \in M : position[v] = position[u] => v = u
        /\ \A u \in M : Carries(events[position[u]], asked[u])
  BY DEF EventOfEach
<1>2. /\ DOMAIN longer = DOMAIN events \cup {last} /\ last \notin DOMAIN events
      /\ longer[last] = ev /\ \A i \in DOMAIN events : longer[i] = events[i]
  OBVIOUS
<1> DEFINE wider == [u \in M \cup {t} |-> IF u = t THEN last ELSE position[u]]
<1> HIDE DEF longer, last
<1>3. \A u \in M : wider[u] = position[u] /\ position[u] \in DOMAIN events
  BY <1>1
<1>4. wider[t] = last
  OBVIOUS
<1>5. wider \in [M \cup {t} -> DOMAIN longer]
  BY <1>2, <1>3, <1>4
<1>6. \A v, u \in M \cup {t} : wider[v] = wider[u] => v = u
  BY <1>1, <1>2, <1>3, <1>4
<1>7. \A u \in M \cup {t} : Carries(longer[wider[u]], asked[u])
  BY <1>1, <1>2, <1>3, <1>4
<1>8. EventOfEach(M \cup {t}, asked, longer)
  BY <1>5, <1>6, <1>7 DEF EventOfEach
<1>9. QED
  BY <1>8 DEF longer

(* A row keeps what it asks for, and so does a transaction.                *)
LEMMA PayloadsKept ==
  ASSUME RInv, [RelayerNext]_allVars
  PROVE  /\ \A r \in DOMAIN submissions :
              /\ r \in DOMAIN submissions'
              /\ submissions'[r].payload = submissions[r].payload
         /\ \A t \in DOMAIN txs :
              t \in DOMAIN txs' /\ Payloads'[t] = Payloads[t]
<1> DEFINE RowsKept == \A r \in DOMAIN submissions :
              /\ r \in DOMAIN submissions'
              /\ submissions'[r].payload = submissions[r].payload
<1>1. TableOK /\ submissions \in Seq(Submission)
  BY DEF RInv, TableOK
<1>2. UNCHANGED submissions => RowsKept
  OBVIOUS
<1>3. ASSUME NEW payload \in Submissible, Submit(payload)
      PROVE  RowsKept
  BY <1>1, <1>3 DEF Submit
<1>4. ASSUME NEW r \in DOMAIN submissions, NEW status \in Statuses, SetStatus(r, status)
      PROVE  RowsKept
  <2>1. /\ DOMAIN submissions' = DOMAIN submissions
        /\ \A q \in DOMAIN submissions : q # r => submissions'[q] = submissions[q]
    BY <1>1, <1>4, StatusWritten
  <2>2. submissions'[r].payload = submissions[r].payload
    <3>1. submissions[r] \in Submission
      BY <1>1
    <3>2. submissions'[r] = [submissions[r] EXCEPT !.status = status]
      BY <1>1, <1>4 DEF SetStatus
    <3>3. QED
      BY <3>1, <3>2 DEF Submission
  <2>3. QED
    BY <2>1, <2>2
<1>5. ASSUME NEW w \in Workers, WorkerStep(w) \/ WorkerFault(w)
      PROVE  RowsKept
  <2>1. CASE Claim(w) \/ ClaimReplyLost(w)
    BY <1>4, <2>1 DEF Claim, ClaimReplyLost, Statuses
  <2>2. CASE Record(w) \/ Rescue(w) \/ RecordFails(w) \/ MarkFailed(w) \/ MarkFails(w)
    <3>1. worker[w].row \in DOMAIN submissions
      BY <2>2, Standing DEF Record, Rescue, RecordFails, MarkFailed, MarkFails
    <3>2. \/ \E status \in Statuses : SetStatus(worker[w].row, status)
          \/ UNCHANGED submissions
      BY <2>2 DEF Record, Rescue, RecordFails, MarkFailed, MarkFails, Statuses
    <3>3. QED
      BY <1>2, <1>4, <3>1, <3>2
  <2>3. CASE \/ Poll(w) \/ Send(w) \/ Wait(w) \/ Lookup(w) \/ Report(w)
             \/ SendFails(w) \/ WaitFails(w) \/ ReportFails(w) \/ Crash(w)
    BY <1>2, <2>3 DEF Poll, Send, Wait, Lookup, Report, SendFails, WaitFails,
       ReportFails, Crash, allVars, relayerVars
  <2>4. QED
    BY <1>5, <2>1, <2>2, <2>3 DEF WorkerStep, WorkerFault
<1>6. ASSUME \/ \E t \in DOMAIN txs : Mine(t)
             \/ IndexerStep \/ IndexerRestart \/ ChainStep \/ UNCHANGED allVars
      PROVE  RowsKept
  BY <1>2, <1>6 DEF Mine, IndexerStep, IndexBatch, ResolveRecoveredRelayerIncidents,
     IndexerRestart, ChainStep, allVars, relayerVars
<1>7. RowsKept
  BY <1>3, <1>5, <1>6 DEF RelayerNext
<1>8. ASSUME NEW t \in DOMAIN txs
      PROVE  t \in DOMAIN txs' /\ Payloads'[t] = Payloads[t]
  <2>1. t \in DOMAIN txs' /\ txs'[t].row = txs[t].row
    BY StepsKeepTxs DEF TxsKept
  <2>2. txs[t].row \in DOMAIN submissions
    BY RowsOfTransactions
  <2>3. QED
    BY <1>7, <2>1, <2>2 DEF Payloads
<1>9. QED
  BY <1>7, <1>8

(* A transaction that is not mined now is not among the mined ones.        *)
LEMMA MinedOnlyByMining ==
  ASSUME RInv, [RelayerNext]_allVars, ~\E t \in DOMAIN txs : Mine(t)
  PROVE  \A e \in ElectionIds : MinedFor(e)' = MinedFor(e)
<1>1. txs \in Seq(Transaction)
  BY RowsOfTransactions
<1>2. UNCHANGED txs \/ \E r, w : txs' = Append(txs, [row |-> r, sender |-> w, state |-> "pending"])
  <2>1. ASSUME NEW w \in Workers, Send(w) \/ SendFails(w)
        PROVE  UNCHANGED txs \/ Broadcast(w, worker[w].row)
    BY <2>1 DEF Send, SendFails
  <2>2. ASSUME NEW w \in Workers,
               \/ Poll(w) \/ Claim(w) \/ Wait(w) \/ Lookup(w) \/ Record(w)
               \/ Rescue(w) \/ MarkFailed(w) \/ Report(w) \/ ClaimReplyLost(w)
               \/ WaitFails(w) \/ RecordFails(w) \/ MarkFails(w) \/ ReportFails(w)
               \/ Crash(w)
        PROVE  UNCHANGED txs
    BY <2>2 DEF Poll, Claim, Wait, Lookup, Record, Rescue, MarkFailed, Report,
       ClaimReplyLost, WaitFails, RecordFails, MarkFails, ReportFails, Crash,
       allVars, relayerVars
  <2>3. CASE \/ \E payload \in Submissible : Submit(payload)
             \/ IndexerStep \/ IndexerRestart \/ ChainStep \/ UNCHANGED allVars
    BY <2>3 DEF Submit, IndexerStep, IndexBatch, ResolveRecoveredRelayerIncidents,
       IndexerRestart, ChainStep, allVars, relayerVars
  <2>4. ASSUME NEW w \in Workers, WorkerStep(w) \/ WorkerFault(w)
        PROVE  UNCHANGED txs \/ Broadcast(w, worker[w].row)
    BY <2>1, <2>2, <2>4 DEF WorkerStep, WorkerFault
  <2>5. QED
    BY <2>3, <2>4 DEF RelayerNext, Broadcast
<1>3. ASSUME NEW tx, txs' = Append(txs, tx), tx.state = "pending"
      PROVE  /\ \A t \in DOMAIN txs : t \in DOMAIN txs' /\ txs'[t] = txs[t]
             /\ \A t \in DOMAIN txs' \ DOMAIN txs : txs'[t].state = "pending"
  <2>1. /\ Len(txs) \in Nat /\ DOMAIN txs = 1 .. Len(txs)
        /\ DOMAIN txs' = 1 .. Len(txs) + 1 /\ txs'[Len(txs) + 1] = tx
        /\ \A t \in 1 .. Len(txs) : txs'[t] = txs[t]
    BY <1>1, <1>3
  <2>2. \A t \in DOMAIN txs' \ DOMAIN txs : t = Len(txs) + 1
    BY <2>1
  <2>3. QED
    BY <1>3, <2>1, <2>2
<1>4. /\ \A t \in DOMAIN txs : t \in DOMAIN txs' /\ txs'[t] = txs[t]
      /\ \A t \in DOMAIN txs' \ DOMAIN txs : txs'[t].state = "pending"
  BY <1>2, <1>3
<1>5. \A t \in DOMAIN txs : Payloads'[t] = Payloads[t]
  BY PayloadsKept
<1>6. QED
  BY <1>4, <1>5 DEF MinedFor

(* Mining a call that reverts changes neither the chain nor what is mined; *)
(* mining one that does not makes its transaction and its event one more.  *)
LEMMA Mined ==
  ASSUME RInv, TypeOK, [RelayerNext]_allVars, NEW t \in DOMAIN txs, Mine(t)
  PROVE  \/ \A e \in ElectionIds : MinedFor(e)' = MinedFor(e)
         \/ \E e \in ElectionIds, ev \in Event :
              /\ Emit(e, ev) /\ Carries(ev, Payloads'[t])
              /\ t \notin MinedFor(e) /\ MinedFor(e)' = MinedFor(e) \cup {t}
              /\ \A d \in ElectionIds : d # e => MinedFor(d)' = MinedFor(d)
<1> DEFINE p == submissions[txs[t].row].payload
<1>1. /\ txs \in Seq(Transaction) /\ txs[t] \in Transaction
      /\ p \in SignupPayload \cup BallotPayload /\ Payloads[t] = p
  BY RowsOfTransactions, SubmissibleAssumption DEF Payloads
<1>2. PICK s \in {"mined", "reverted"} :
        /\ txs' = [txs EXCEPT ![t].state = s]
        /\ s = "mined" => Execute(p)
  BY DEF Mine
<1>3. txs[t].state = "pending"
  BY DEF Mine, NextOfSender
<1>4. DOMAIN txs' = DOMAIN txs /\ \A u \in DOMAIN txs : u # t => txs'[u] = txs[u]
  BY <1>1, <1>2
<1>5. txs'[t].state = s
  BY <1>1, <1>2 DEF Transaction
<1>6. \A u \in DOMAIN txs : Payloads'[u] = Payloads[u]
  BY PayloadsKept
<1>7. ASSUME NEW e \in ElectionIds, s = "reverted" \/ p.election # e
      PROVE  MinedFor(e)' = MinedFor(e)
  BY <1>1, <1>3, <1>4, <1>5, <1>6, <1>7 DEF MinedFor
<1>8. CASE s = "reverted"
  BY <1>7, <1>8
<1>9. CASE s = "mined"
  <2>1. PICK e \in ElectionIds : p.election = e
    BY <1>1 DEF SignupPayload, BallotPayload
  <2>2. PICK ev \in Event : Emit(e, ev) /\ Carries(ev, p)
    <3>1. CASE p.kind = "SIGNUP" /\ Signup(p.election, p.nullifier, p.key)
      <4>1. p.nullifier \in Nullifiers /\ p.key \in VotingKeys
        BY <1>1, <3>1 DEF SignupPayload, BallotPayload
      <4> DEFINE ev == [event |-> "SignupRecorded", nullifier |-> p.nullifier, key |-> p.key]
      <4>2. ev \in Event
        BY <4>1 DEF Event, SignupEvents
      <4>3. Emit(e, ev) /\ Carries(ev, p)
        BY <2>1, <3>1 DEF Signup, Carries
      <4>4. QED
        BY <4>2, <4>3
    <3>2. CASE p.kind = "BALLOT" /\ PublishBallot(p.election, p.key, p.ciphertext)
      <4>1. p.ciphertext \in Ciphertexts /\ ballotCount[e] \in Nat
        BY <1>1, <2>1, <3>2 DEF SignupPayload, BallotPayload, TypeOK
      <4> DEFINE ev == [event |-> "BallotPublished",
                        ballotIndex |-> ballotCount[e],
                        ciphertext |-> p.ciphertext]
      <4>2. ev \in Event
        BY <4>1 DEF Event, BallotEvents
      <4>3. Emit(e, ev) /\ Carries(ev, p)
        BY <2>1, <3>2 DEF PublishBallot, Carries
      <4>4. QED
        BY <4>2, <4>3
    <3>3. QED
      BY <1>2, <1>9, <3>1, <3>2 DEF Execute
  <2>3. t \notin MinedFor(e)
    BY <1>3 DEF MinedFor
  <2>4. MinedFor(e)' = MinedFor(e) \cup {t}
    BY <1>1, <1>4, <1>5, <1>6, <1>9, <2>1 DEF MinedFor
  <2>5. Payloads'[t] = p
    BY <1>1, <1>6
  <2>6. \A d \in ElectionIds : d # e => MinedFor(d)' = MinedFor(d)
    BY <1>7, <2>1
  <2>7. QED
    BY <2>2, <2>3, <2>4, <2>5, <2>6
<1>10. QED
  BY <1>2, <1>8, <1>9

(* Whatever happens, every mined transaction keeps an event of its own.    *)
LEMMA MinedEventsStep ==
  ASSUME RInv, TypeOK, TypeOK', FreshSlots, MinedAreEvents, [RelayerNext]_allVars
  PROVE  MinedAreEvents'
<1>1. \A e \in ElectionIds :
        log[e] \in Seq(Event) /\ log'[e] \in Seq(Event) /\ IsPrefix(log[e], log'[e])
  BY LogsExtended DEF TypeOK
<1>2. \A u \in DOMAIN txs : Payloads'[u] = Payloads[u]
  BY PayloadsKept
<1>3. \A e \in ElectionIds : MinedFor(e) \subseteq DOMAIN txs
  BY DEF MinedFor
<1>4. ASSUME NEW e \in ElectionIds, MinedFor(e)' = MinedFor(e)
      PROVE  EventOfEach(MinedFor(e)', Payloads', log'[e])
  BY <1>1, <1>2, <1>3, <1>4, EventsStay DEF MinedAreEvents
<1>5. CASE \A e \in ElectionIds : MinedFor(e)' = MinedFor(e)
  BY <1>4, <1>5 DEF MinedAreEvents
<1>6. ASSUME NEW t \in DOMAIN txs, NEW e \in ElectionIds, NEW ev \in Event,
             Emit(e, ev), Carries(ev, Payloads'[t]),
             t \notin MinedFor(e), MinedFor(e)' = MinedFor(e) \cup {t},
             \A d \in ElectionIds : d # e => MinedFor(d)' = MinedFor(d)
      PROVE  MinedAreEvents'
  <2>1. IsPrefix(log[e], log[e])
    BY <1>1, PrefixOfLonger
  <2>2. EventOfEach(MinedFor(e), Payloads', log[e])
    BY <1>1, <1>2, <1>3, <2>1, EventsStay DEF MinedAreEvents
  <2>3. log'[e] = Append(log[e], ev)
    BY <1>6 DEF Emit, TypeOK
  <2>4. EventOfEach(MinedFor(e)', Payloads', log'[e])
    <3>1. PICK M, asked : M = MinedFor(e) /\ asked = Payloads'
      OBVIOUS
    <3>2. EventOfEach(M \cup {t}, asked, Append(log[e], ev))
      BY <1>1, <1>6, <2>2, <3>1, EventAdded
    <3>3. QED
      BY <1>6, <2>3, <3>1, <3>2
  <2>5. QED
    BY <1>4, <1>6, <2>4 DEF MinedAreEvents
<1>7. QED
  BY <1>5, <1>6, MinedOnlyByMining, Mined

(* What is mined is in the log of its election, at every moment.           *)
LEMMA MinedEventsInvariant == RelayerSafety => []MinedAreEvents
<1>1. RelayerInit => MinedAreEvents
  <2> SUFFICES ASSUME RelayerInit, NEW e \in ElectionIds
               PROVE  EventOfEach(MinedFor(e), Payloads, log[e])
    BY DEF MinedAreEvents
  <2>1. MinedFor(e) = {}
    BY DEF RelayerInit, MinedFor
  <2>2. [t \in {} |-> 0] \in [{} -> DOMAIN log[e]]
    OBVIOUS
  <2>3. QED
    BY <2>1, <2>2 DEF EventOfEach
<1>2. /\ RInv /\ TypeOK /\ TypeOK' /\ FreshSlots /\ MinedAreEvents
      /\ [RelayerNext]_allVars
      => MinedAreEvents'
  BY MinedEventsStep
<1>3. RelayerSafety => [](RInv /\ TypeOK /\ FreshSlots)
  BY RelayerInvariant, RelayerRunsTheContract, TypeCorrect, FreshSlotsInvariant, PTL
<1>4. QED
  BY <1>1, <1>2, <1>3, PTL DEF RelayerSafety

(* A client that reads SUCCESS can rely on it: whatever failed and however *)
(* many relayers there are, distinct successful submissions stand for      *)
(* distinct events of the registry that carry what they asked for.         *)
THEOREM SuccessOnChain == RelayerSafety => []SuccessIsOnChain
<1>1. RInv /\ ReceiptsKnown /\ MinedAreEvents => SuccessIsOnChain
  <2> SUFFICES ASSUME RInv, ReceiptsKnown, MinedAreEvents, NEW e \in ElectionIds
               PROVE  \E position \in Injection(Successful(e), DOMAIN log[e]) :
                        \A r \in Successful(e) :
                          Carries(log[e][position[r]], submissions[r].payload)
    BY DEF SuccessIsOnChain
  <2>1. PICK place \in [MinedFor(e) -> DOMAIN log[e]] :
          /\ \A t, u \in MinedFor(e) : place[t] = place[u] => t = u
          /\ \A t \in MinedFor(e) : Carries(log[e][place[t]], Payloads[t])
    BY DEF MinedAreEvents, EventOfEach
  <2> DEFINE receipt == [r \in Successful(e) |->
                           CHOOSE t \in DOMAIN txs : txs[t].row = r /\ txs[t].state = "mined"]
             position == [r \in Successful(e) |-> place[receipt[r]]]
  <2>2. ASSUME NEW r \in Successful(e)
        PROVE  /\ receipt[r] \in MinedFor(e) /\ txs[receipt[r]].row = r
               /\ Payloads[receipt[r]] = submissions[r].payload
    <3>1. \E t \in DOMAIN txs : txs[t].row = r /\ txs[t].state = "mined"
      BY DEF ReceiptsKnown, Successful, Delivered
    <3>2. /\ receipt[r] \in DOMAIN txs /\ txs[receipt[r]].row = r
          /\ txs[receipt[r]].state = "mined"
      BY <3>1
    <3>3. submissions[r].payload.election = e
      BY DEF Successful
    <3> HIDE DEF receipt
    <3>4. QED
      BY <3>2, <3>3 DEF MinedFor, Payloads
  <2> HIDE DEF receipt
  <2>3. position \in [Successful(e) -> DOMAIN log[e]]
    BY <2>1, <2>2
  <2>4. \A q, r \in Successful(e) : position[q] = position[r] => q = r
    BY <2>1, <2>2
  <2>5. \A r \in Successful(e) :
          Carries(log[e][position[r]], submissions[r].payload)
    BY <2>1, <2>2
  <2> HIDE DEF position
  <2>6. position \in Injection(Successful(e), DOMAIN log[e])
    BY <2>3, <2>4 DEF Injection, IsInjective
  <2>7. QED
    BY <2>5, <2>6
<1>2. QED
  BY <1>1, RelayerInvariant, ReceiptsInvariant, MinedEventsInvariant, PTL

-----------------------------------------------------------------------------
(* The log holds what p asked for, by nullifier or by ciphertext.          *)
Answered(p, events) ==
  \E i \in DOMAIN events :
    IF p.kind = "SIGNUP"
    THEN events[i].event = "SignupRecorded" /\ events[i].nullifier = p.nullifier
    ELSE events[i].event = "BallotPublished" /\ events[i].ciphertext = p.ciphertext

(* What IncidentsTruthful says of one row.                                 *)
IncidentTrue(r) == incident[r] # "none" =>
  /\ r \in DOMAIN submissions
  /\ submissions[r].status = "FAILED"
  /\ incident[r] = "resolved" =>
       Answered(submissions[r].payload, log[submissions[r].payload.election])

(* The indexer has stored no more than there is.                           *)
IndexedOK ==
  /\ indexed \in [ElectionIds -> Nat]
  /\ \A e \in ElectionIds : indexed[e] <= Len(log[e])

(* An answer is not taken back.                                            *)
LEMMA AnswerStays ==
  ASSUME NEW events \in Seq(Event), NEW longer \in Seq(Event),
         IsPrefix(events, longer), NEW p, Answered(p, events)
  PROVE  Answered(p, longer)
<1>1. PICK i \in DOMAIN events :
        IF p.kind = "SIGNUP"
        THEN events[i].event = "SignupRecorded" /\ events[i].nullifier = p.nullifier
        ELSE events[i].event = "BallotPublished" /\ events[i].ciphertext = p.ciphertext
  BY DEF Answered
<1>2. i \in DOMAIN longer /\ longer[i] = events[i]
  BY PrefixKeepsEvents
<1>3. QED
  BY <1>1, <1>2 DEF Answered

(* What the indexer finds among the stored events is on the chain.         *)
LEMMA FoundIsAnswered ==
  ASSUME TypeOK, IndexedOK, NEW p \in SignupPayload \cup BallotPayload, OnRecord(p)
  PROVE  Answered(p, log[p.election])
<1>1. PICK e \in ElectionIds : p.election = e
  BY DEF SignupPayload, BallotPayload
<1>2. /\ log[e] \in Seq(Event) /\ indexed[e] \in Nat /\ indexed[e] <= Len(log[e])
  BY DEF TypeOK, IndexedOK
<1>3. \A i \in DOMAIN Stored(e) : i \in DOMAIN log[e] /\ Stored(e)[i] = log[e][i]
  BY <1>2 DEF Stored
<1>4. PICK i \in DOMAIN Stored(e) :
        LET ev == Stored(e)[i] IN
        \/ p.kind = "SIGNUP" /\ ev.event = "SignupRecorded" /\ ev.nullifier = p.nullifier
        \/ p.kind = "BALLOT" /\ ev.event = "BallotPublished" /\ ev.ciphertext = p.ciphertext
  BY <1>1 DEF OnRecord
<1>5. QED
  BY <1>1, <1>3, <1>4 DEF Answered

(* Whatever happens, no row's incident comes to say something untrue.      *)
LEMMA IncidentsStep ==
  ASSUME RInv, TypeOK, TypeOK', FreshSlots, IndexedOK,
         \A r \in Rows : IncidentTrue(r), [RelayerNext]_allVars
  PROVE  \A r \in Rows : IncidentTrue(r)'
<1>1. \A e \in ElectionIds :
        log[e] \in Seq(Event) /\ log'[e] \in Seq(Event) /\ IsPrefix(log[e], log'[e])
  BY LogsExtended DEF TypeOK
<1>2. \A r \in DOMAIN submissions :
        /\ r \in DOMAIN submissions'
        /\ submissions'[r].payload = submissions[r].payload
        /\ submissions[r].payload \in SignupPayload \cup BallotPayload
        /\ submissions[r].payload.election \in ElectionIds
  BY PayloadsKept, RowsOfTransactions, SubmissibleAssumption
     DEF SignupPayload, BallotPayload
<1>3. \A r \in DOMAIN submissions :
        submissions[r].status = "FAILED" => submissions'[r].status = "FAILED"
  <2>1. CASE RelayerNext
    BY <2>1, VerdictStep DEF VerdictsStandStep
  <2>2. CASE UNCHANGED allVars
    BY <2>2 DEF allVars, relayerVars
  <2>3. QED
    BY <2>1, <2>2
<1>4. ASSUME NEW r \in Rows, incident'[r] = incident[r]
      PROVE  IncidentTrue(r)'
  <2> SUFFICES ASSUME incident[r] # "none"
               PROVE  IncidentTrue(r)'
    BY <1>4 DEF IncidentTrue
  <2>1. /\ r \in DOMAIN submissions /\ submissions[r].status = "FAILED"
        /\ incident[r] = "resolved" =>
             Answered(submissions[r].payload, log[submissions[r].payload.election])
    BY DEF IncidentTrue
  <2>2. PICK p, e : p = submissions[r].payload /\ e = p.election
    OBVIOUS
  <2>3. Answered(p, log[e]) => Answered(p, log'[e])
    BY <1>1, <1>2, <2>1, <2>2, AnswerStays
  <2>4. submissions'[r].payload = p /\ submissions'[r].status = "FAILED"
        /\ r \in DOMAIN submissions'
    BY <1>2, <1>3, <2>1, <2>2
  <2>5. incident'[r] = "resolved" => Answered(p, log'[e])
    BY <1>4, <2>1, <2>2, <2>3
  <2>6. QED
    BY <2>2, <2>4, <2>5 DEF IncidentTrue
<1>5. incident \in [Rows -> {"none", "active", "resolved"}]
  BY DEF RInv, TableOK
<1>6. ASSUME NEW w \in Workers, Report(w) \/ ReportFails(w)
      PROVE  \A r \in Rows : IncidentTrue(r)'
  <2>1. PICK q \in DOMAIN submissions : worker[w].row = q
    BY <1>6, Standing DEF Report, ReportFails
  <2>2. submissions[q].status = "FAILED"
    BY <1>6, <2>1 DEF Report, ReportFails, RInv, HeldRowIs
  <2>3. submissions' = submissions /\ (OpenIncident(q) \/ UNCHANGED incident)
    BY <1>6, <2>1 DEF Report, ReportFails
  <2>4. \A r \in Rows : \/ incident'[r] = incident[r]
                        \/ r = q /\ incident'[r] = "active"
    BY <1>5, <2>3 DEF OpenIncident
  <2>5. QED
    BY <1>4, <2>2, <2>3, <2>4 DEF IncidentTrue
<1>7. CASE ResolveRecoveredRelayerIncidents
  <2>1. UNCHANGED <<submissions, log>>
    BY <1>7 DEF ResolveRecoveredRelayerIncidents, vars
  <2>2. ASSUME NEW r \in Rows, incident'[r] # incident[r]
        PROVE  IncidentTrue(r)'
    <3>1. incident[r] = "active" /\ OnRecord(submissions[r].payload)
      BY <1>7, <2>2 DEF ResolveRecoveredRelayerIncidents
    <3>2. r \in DOMAIN submissions /\ submissions[r].status = "FAILED"
      BY <3>1 DEF IncidentTrue
    <3>3. PICK p \in SignupPayload \cup BallotPayload : p = submissions[r].payload
      BY <1>2, <3>2
    <3>4. Answered(p, log[p.election])
      BY <3>1, <3>3, FoundIsAnswered
    <3>5. QED
      BY <2>1, <3>2, <3>3, <3>4 DEF IncidentTrue
  <2>3. QED
    BY <1>4, <2>2
<1>8. ASSUME UNCHANGED incident
      PROVE  \A r \in Rows : IncidentTrue(r)'
  BY <1>4, <1>8
<1>9. ASSUME NEW w \in Workers, WorkerStep(w) \/ WorkerFault(w)
      PROVE  \A r \in Rows : IncidentTrue(r)'
  <2>1. CASE \/ Poll(w) \/ Claim(w) \/ Send(w) \/ Wait(w) \/ Lookup(w) \/ Record(w)
             \/ Rescue(w) \/ MarkFailed(w) \/ ClaimReplyLost(w) \/ SendFails(w)
             \/ WaitFails(w) \/ RecordFails(w) \/ MarkFails(w) \/ Crash(w)
    BY <1>8, <2>1 DEF Poll, Claim, Send, Wait, Lookup, Record, Rescue, MarkFailed,
       ClaimReplyLost, SendFails, WaitFails, RecordFails, MarkFails, Crash,
       allVars, relayerVars
  <2>2. QED
    BY <1>6, <1>9, <2>1 DEF WorkerStep, WorkerFault
<1>10. CASE \/ \E payload \in Submissible : Submit(payload)
            \/ \E t \in DOMAIN txs : Mine(t)
            \/ (\E e \in ElectionIds : IndexBatch(e)) \/ IndexerRestart \/ ChainStep
            \/ UNCHANGED allVars
  BY <1>8, <1>10 DEF Submit, Mine, IndexBatch, IndexerRestart, ChainStep,
     allVars, relayerVars
<1>11. QED
  BY <1>7, <1>9, <1>10 DEF RelayerNext, IndexerStep

(* The indexer stays behind the chain.                                     *)
LEMMA IndexedStep ==
  ASSUME RInv, TypeOK, TypeOK', FreshSlots, IndexedOK, [RelayerNext]_allVars
  PROVE  IndexedOK'
<1>1. \A e \in ElectionIds : Len(log[e]) <= Len(log'[e]) /\ Len(log[e]) \in Nat
                             /\ Len(log'[e]) \in Nat
  BY LogsExtended DEF TypeOK, IsPrefix
<1>2. CASE UNCHANGED indexed
  BY <1>1, <1>2 DEF IndexedOK
<1>3. ASSUME NEW e \in ElectionIds, IndexBatch(e)
      PROVE  IndexedOK'
  <2>1. PICK upTo \in indexed[e] + 1 .. Len(log[e]) :
          indexed' = [indexed EXCEPT ![e] = upTo]
    BY <1>3 DEF IndexBatch
  <2>2. upTo \in Nat /\ upTo <= Len(log[e]) /\ log' = log
    BY <1>1, <1>3, <2>1 DEF IndexedOK, IndexBatch, vars
  <2>3. QED
    BY <1>1, <2>1, <2>2 DEF IndexedOK
<1>4. ASSUME NEW w \in Workers, WorkerStep(w) \/ WorkerFault(w)
      PROVE  UNCHANGED indexed
  BY <1>4 DEF WorkerStep, WorkerFault, Poll, Claim, Send, Wait, Lookup, Record,
     Rescue, MarkFailed, Report, ClaimReplyLost, SendFails, WaitFails,
     RecordFails, MarkFails, ReportFails, Crash, allVars, relayerVars
<1>5. CASE \/ \E payload \in Submissible : Submit(payload)
           \/ \E t \in DOMAIN txs : Mine(t)
           \/ ResolveRecoveredRelayerIncidents \/ IndexerRestart \/ ChainStep
           \/ UNCHANGED allVars
  BY <1>2, <1>5 DEF Submit, Mine, ResolveRecoveredRelayerIncidents, IndexerRestart,
     ChainStep, allVars, relayerVars
<1>6. QED
  BY <1>2, <1>3, <1>4, <1>5 DEF RelayerNext, IndexerStep

(* Incidents tell the truth: each is about a row the relayer gave up, and  *)
(* a closed one is about a nullifier or a ciphertext the chain has after   *)
(* all.                                                                    *)
THEOREM IncidentsTellTheTruth == RelayerSafety => []IncidentsTruthful
<1>1. RelayerInit => IndexedOK /\ \A r \in Rows : IncidentTrue(r)
  <2> SUFFICES ASSUME RelayerInit
               PROVE  IndexedOK /\ \A r \in Rows : IncidentTrue(r)
    OBVIOUS
  <2>1. \A e \in ElectionIds : indexed[e] = 0 /\ log[e] = <<>>
    BY DEF RelayerInit, Init
  <2>2. IndexedOK
    BY <2>1 DEF RelayerInit, IndexedOK
  <2>3. \A r \in Rows : IncidentTrue(r)
    BY DEF RelayerInit, IncidentTrue
  <2>4. QED
    BY <2>2, <2>3
<1>2. /\ RInv /\ TypeOK /\ TypeOK' /\ FreshSlots /\ [RelayerNext]_allVars
      /\ IndexedOK /\ \A r \in Rows : IncidentTrue(r)
      => (IndexedOK /\ \A r \in Rows : IncidentTrue(r))'
  BY IncidentsStep, IndexedStep
<1>3. RelayerSafety => [](RInv /\ TypeOK /\ FreshSlots)
  BY RelayerInvariant, RelayerRunsTheContract, TypeCorrect, FreshSlotsInvariant, PTL
<1>4. (\A r \in Rows : IncidentTrue(r)) => IncidentsTruthful
  BY DEF IncidentsTruthful, IncidentTrue, Answered
<1>5. QED
  BY <1>1, <1>2, <1>3, <1>4, PTL DEF RelayerSafety

=============================================================================
