------------------------- MODULE DecryptionCeremony -------------------------
(***************************************************************************)
(* The 2-of-3 decryption ceremonies of one election, as the server actions *)
(* of apps/tally-board keep them in the tables decryption_ceremonies and   *)
(* decryption_shares: create, submit a share, close, and the resolution of *)
(* the coordinator's key for the tally.                                    *)
(*                                                                         *)
(* Server actions run concurrently, none takes a lock or a transaction,    *)
(* and each await on the database is a step of its own; a server can die   *)
(* between any two.  Requests whose signature is refused change nothing    *)
(* and are left out.                                                       *)
(***************************************************************************)
EXTENDS Threshold, Sequences

CONSTANTS
  Calls,      \* server actions that can be under way at once
  Trustees,
  Shares,     \* the share payloads there are
  NoShare,
  Submitted,  \* the <<trustee, share>> pairs trustees submit
  MaxCalls,   \* bound: server actions ever called
  MaxCrashes  \* bound: actions cut short

ASSUME SharesAssumption == Shares \subseteq SharePayload /\ NoShare \notin Shares
ASSUME SubmittedAssumption == Submitted \subseteq Trustees \X Shares
ASSUME FiniteTrusteesAssumption == IsFiniteSet(Trustees)
ASSUME CeremonyBoundsAssumption == MaxCalls \in Nat /\ MaxCrashes \in Nat

VOTING_OPEN == 3
VOTING_CLOSED == 4
thresholdRequired == 2

Ids == 1 .. MaxCalls \* every call opens at most one ceremony
NoCeremony == 0

(* What a client can ask for.  A ceremony of 0 means none was named: the   *)
(* MANUAL channel may do that, API_SIGNED has to name one.                 *)
CreateRequests == [op : {"create"}]
SubmitRequests ==
  {q \in [op : {"submit"}, ceremony : Ids \cup {NoCeremony}, trustee : Trustees,
          share : Shares] : <<q.trustee, q.share>> \in Submitted}
CloseRequests == [op : {"close"}, ceremony : Ids \cup {NoCeremony}]
TallyRequests == [op : {"tally"}, ceremony : {NoCeremony}]
Requests == CreateRequests \cup SubmitRequests \cup CloseRequests \cup TallyRequests

VARIABLES
  phase,         \* elections.phase, as the indexer stored it
  ceremonies,    \* rows of decryption_ceremonies, in created_at order
  call,          \* the server actions under way
  reconstructed, \* the coordinator keys put together, and what from
  served, crashes

vars == <<phase, ceremonies, call, reconstructed, served, crashes>>

Idle == [pc |-> "idle"]
Ceremony == [status : {"OPEN", "READY", "CLOSED"}, closedAt : BOOLEAN,
             shares : [Trustees -> Shares \cup {NoShare}]]
NewCeremony == [status |-> "OPEN", closedAt |-> FALSE,
                shares |-> [t \in Trustees |-> NoShare]]

Init ==
  /\ phase = VOTING_OPEN
  /\ ceremonies = <<>>
  /\ call = [c \in Calls |-> Idle]
  /\ reconstructed = {}
  /\ served = 0 /\ crashes = 0

-----------------------------------------------------------------------------
Goto(c, pc) == call' = [call EXCEPT ![c].pc = pc]
Return(c) == call' = [call EXCEPT ![c] = Idle]
At(c, pc) == call[c].pc = pc

Open == {i \in DOMAIN ceremonies : ceremonies[i].status \in {"OPEN", "READY"}}

(* i is the latest of ids, or 0 for want of any.                           *)
LatestOf(i, ids) ==
  \/ i = NoCeremony /\ ids = {}
  \/ i \in ids /\ \A j \in ids : j <= i

shareCount(i) ==
  Cardinality({t \in Trustees : ceremonies[i].shares[t] # NoShare})

(* loadLatestCeremonyState: by id, the latest open one, or the latest.     *)
Loaded(q, i) ==
  IF q.ceremony # NoCeremony THEN i = q.ceremony
  ELSE LatestOf(i, IF q.op = "tally" THEN DOMAIN ceremonies ELSE Open)

Begin(c) ==
  /\ call[c] = Idle
  /\ served < MaxCalls
  /\ served' = served + 1
  /\ \E q \in Requests :
       /\ q.op # "create" => q.ceremony <= Len(ceremonies)
       /\ call' = [call EXCEPT ![c] =
            [pc |-> IF q.op = "create" THEN "phase" ELSE "load",
             request |-> q, id |-> NoCeremony, seen |-> "OPEN"]]
  /\ UNCHANGED <<phase, ceremonies, reconstructed, crashes>>

-----------------------------------------------------------------------------
(* createDecryptionCeremonyAction, called by a client or by a submission   *)
(* that found no open ceremony.                                            *)

(* Mutant: the phase is not looked at (Bug 7.1 of the source).             *)
CheckPhaseSkipped(c) ==
  /\ At(c, "phase")
  /\ Goto(c, "existing")
  /\ UNCHANGED <<phase, ceremonies, reconstructed, served, crashes>>

CheckPhase(c) ==
  /\ At(c, "phase")
  /\ IF phase >= VOTING_CLOSED THEN Goto(c, "existing") ELSE Return(c)
  /\ UNCHANGED <<phase, ceremonies, reconstructed, served, crashes>>

(* The ceremony a creation ends with: the reply, or where the share goes.  *)
CreatedOrFound(c, i) ==
  IF call[c].request.op = "create" \/ i = NoCeremony THEN Return(c)
  ELSE call' = [call EXCEPT ![c].pc = "upsert", ![c].id = i]

CheckExisting(c) ==
  /\ At(c, "existing")
  /\ \/ Open = {} /\ Goto(c, "insert")
     \/ \E i \in Open : LatestOf(i, Open) /\ CreatedOrFound(c, i)
  /\ UNCHANGED <<phase, ceremonies, reconstructed, served, crashes>>

Insert(c) ==
  /\ At(c, "insert")
  /\ ceremonies' = Append(ceremonies, NewCeremony)
  /\ Goto(c, "created")
  /\ UNCHANGED <<phase, reconstructed, served, crashes>>

LoadCreated(c) ==
  /\ At(c, "created")
  /\ \E i \in Open \cup {NoCeremony} : LatestOf(i, Open) /\ CreatedOrFound(c, i)
  /\ UNCHANGED <<phase, ceremonies, reconstructed, served, crashes>>

-----------------------------------------------------------------------------
(* The load every other action starts with, and its early returns.         *)
Load(c) ==
  /\ At(c, "load")
  /\ \E i \in DOMAIN ceremonies \cup {NoCeremony} :
       LET q == call[c].request IN
       /\ Loaded(q, i)
       /\ \/ /\ i = NoCeremony
             /\ IF q.op = "submit" THEN Goto(c, "phase") ELSE Return(c)
          \/ /\ i # NoCeremony /\ q.op # "tally" /\ ceremonies[i].status = "CLOSED"
             /\ Return(c)
          \/ /\ i # NoCeremony
             /\ q.op = "tally" \/ ceremonies[i].status # "CLOSED"
             /\ call' = [call EXCEPT ![c].id = i, ![c].pc =
                  CASE q.op = "submit" -> "upsert" [] q.op = "close" -> "count"
                    [] q.op = "tally" -> "shares"]
  /\ UNCHANGED <<phase, ceremonies, reconstructed, served, crashes>>

(* submitDecryptionShareAction, from its upsert on.                        *)

Upsert(c) ==
  /\ At(c, "upsert")
  /\ LET i == call[c].id IN
       \/ /\ ceremonies[i].status # "CLOSED"
          /\ ceremonies' = [ceremonies EXCEPT ![i].shares[call[c].request.trustee] =
                              call[c].request.share]
          /\ Goto(c, "reload")
       \/ /\ ceremonies[i].status = "CLOSED"
          /\ Return(c) /\ UNCHANGED ceremonies
  /\ UNCHANGED <<phase, reconstructed, served, crashes>>

(* The reload reads the status, then the shares.                           *)
Reload(c) ==
  /\ At(c, "reload")
  /\ call' = [call EXCEPT ![c].seen = ceremonies[call[c].id].status,
                          ![c].pc = "recount"]
  /\ UNCHANGED <<phase, ceremonies, reconstructed, served, crashes>>

(* Mutant: READY takes more shares than the threshold.                     *)
NextStatusAbove(i) == IF shareCount(i) > thresholdRequired THEN "READY" ELSE "OPEN"

NextStatus(i) == IF shareCount(i) >= thresholdRequired THEN "READY" ELSE "OPEN"

Recount(c) ==
  /\ At(c, "recount")
  /\ LET next == NextStatus(call[c].id) IN
       IF call[c].seen # next
       THEN call' = [call EXCEPT ![c].seen = next, ![c].pc = "status"]
       ELSE Return(c)
  /\ UNCHANGED <<phase, ceremonies, reconstructed, served, crashes>>

UpdateStatus(c) ==
  /\ At(c, "status")
  /\ ceremonies' = [ceremonies EXCEPT ![call[c].id].status = call[c].seen]
  /\ Return(c)
  /\ UNCHANGED <<phase, reconstructed, served, crashes>>

-----------------------------------------------------------------------------
(* closeDecryptionCeremonyAction, after its load of the status.            *)

(* Mutant: a ceremony is closed however few shares it has.                 *)
CountSkipped(c) ==
  /\ At(c, "count")
  /\ Goto(c, "close")
  /\ UNCHANGED <<phase, ceremonies, reconstructed, served, crashes>>

Count(c) ==
  /\ At(c, "count")
  /\ IF shareCount(call[c].id) >= thresholdRequired THEN Goto(c, "close") ELSE Return(c)
  /\ UNCHANGED <<phase, ceremonies, reconstructed, served, crashes>>

Close(c) ==
  /\ At(c, "close")
  /\ ceremonies' = [ceremonies EXCEPT ![call[c].id].status = "CLOSED",
                                      ![call[c].id].closedAt = TRUE]
  /\ Return(c)
  /\ UNCHANGED <<phase, reconstructed, served, crashes>>

-----------------------------------------------------------------------------
(* resolveCoordinatorPrivateKeyForTally: enough shares, and those of them  *)
(* that count are consistent.                                              *)
SharesOf(i) ==
  {ceremonies[i].shares[t] : t \in Trustees} \ {NoShare}

ResolveCoordinatorPrivateKey(c) ==
  /\ At(c, "shares")
  /\ LET i == call[c].id IN
       \/ /\ shareCount(i) >= thresholdRequired
          /\ \E p \in Counted(SharesOf(i)) :
               reconstructed' = reconstructed \cup
                 {[ceremony |-> i, from |-> SharesOf(i), key |-> k] : k \in KeyFrom(p)}
       \/ /\ shareCount(i) < thresholdRequired \/ Counted(SharesOf(i)) = {}
          /\ UNCHANGED reconstructed
  /\ Return(c)
  /\ UNCHANGED <<phase, ceremonies, served, crashes>>

-----------------------------------------------------------------------------
(* The indexer stores the event that closes voting; no later phase makes a *)
(* difference to a ceremony.                                               *)
StorePhase ==
  /\ phase < VOTING_CLOSED
  /\ phase' = phase + 1
  /\ UNCHANGED <<ceremonies, call, reconstructed, served, crashes>>

Crash(c) ==
  /\ call[c] # Idle
  /\ crashes < MaxCrashes
  /\ crashes' = crashes + 1
  /\ Return(c)
  /\ UNCHANGED <<phase, ceremonies, reconstructed, served>>

(* All calls have returned and no more are made.                           *)
Quiet ==
  /\ served = MaxCalls /\ phase = VOTING_CLOSED
  /\ \A c \in Calls : call[c] = Idle
  /\ UNCHANGED vars

CreateStep(c) == CheckPhase(c) \/ CheckExisting(c) \/ Insert(c) \/ LoadCreated(c)
SubmitStep(c) == Upsert(c) \/ Reload(c) \/ Recount(c) \/ UpdateStatus(c)
CloseStep(c) == Count(c) \/ Close(c)
CallStep(c) ==
  \/ Load(c) \/ CreateStep(c) \/ SubmitStep(c) \/ CloseStep(c)
  \/ ResolveCoordinatorPrivateKey(c)

Next ==
  \/ \E c \in Calls : Begin(c) \/ CallStep(c) \/ Crash(c)
  \/ StorePhase
  \/ Quiet

Safety == Init /\ [][Next]_vars

(* A server action that was called runs to its return, unless its server   *)
(* dies.  Nobody has to call one.                                          *)
Spec == Safety /\ \A c \in Calls : WF_vars(CallStep(c))

-----------------------------------------------------------------------------
Positions == {"load", "phase", "existing", "insert", "created", "upsert", "reload",
              "recount", "status", "count", "close", "shares"}
UnderWay == [pc : Positions, request : Requests, id : DOMAIN ceremonies \cup {NoCeremony},
             seen : {"OPEN", "READY", "CLOSED"}]
Reconstruction == [ceremony : DOMAIN ceremonies, from : SUBSET Shares,
                   key : 0 .. MaxByte]

TypeOK ==
  /\ phase \in {VOTING_OPEN, VOTING_CLOSED}
  /\ ceremonies \in Seq(Ceremony)
  /\ call \in [Calls -> {Idle} \cup UnderWay]
  /\ reconstructed \subseteq Reconstruction
  /\ served \in 0 .. MaxCalls
  /\ crashes \in 0 .. MaxCrashes

(* A ceremony that was reported READY, or closed, has its quorum of shares *)
(* and keeps it, however submissions and closings overlap.                 *)
ReadyHasQuorum ==
  \A i \in DOMAIN ceremonies :
    ceremonies[i].status # "OPEN" \/ ceremonies[i].closedAt
      => shareCount(i) >= thresholdRequired

(* No coordinator key before the end of voting: as long as the phase says  *)
(* voting may go on, no ceremony exists, so nobody holds shares enough to  *)
(* read a ballot, and none was ever reconstructed.                         *)
KeyHeldUntilVotingCloses ==
  /\ phase < VOTING_CLOSED => ceremonies = <<>> /\ reconstructed = {}
  /\ \A r \in reconstructed : shareCount(r.ceremony) >= thresholdRequired

(* A key put together is the coordinator's whenever its shares come from   *)
(* one dealing.  Every generateCoordinatorSharesAction deals anew, so the  *)
(* shares of two dealings can meet in one ceremony: of three shares with   *)
(* distinct coordinates, two of them of one dealing, no other key comes    *)
(* out, wherever the odd one stands.  Two shares alone have no such check. *)
OneDealing(shares) == \E d \in Coefficients : shares \subseteq Dealing(d)
TwoOfThree(shares) ==
  /\ Cardinality(shares) = 3 /\ Cardinality(Coordinates(shares)) = 3
  /\ \E d \in Coefficients : Cardinality(shares \cap Dealing(d)) >= 2
KeyIsCoordinators ==
  \A r \in reconstructed : OneDealing(r.from) \/ TwoOfThree(r.from) => r.key = Secret

(* While its status is CLOSED a ceremony takes no share: a submission that *)
(* passed its first check before the closing is still turned away.         *)
ClosedTakesNoShareStep ==
  \A i \in DOMAIN ceremonies :
    ceremonies[i].status = "CLOSED" => ceremonies'[i].shares = ceremonies[i].shares
ClosedTakesNoShare == [][ClosedTakesNoShareStep]_vars

(* When a quorum is reached by overlapping submissions, one of them sees   *)
(* it: the ceremony leaves OPEN, unless a server died on the way.          *)
HasQuorum(i) == i \in DOMAIN ceremonies /\ shareCount(i) >= thresholdRequired
LeftOpen(i) == i \in DOMAIN ceremonies /\ ceremonies[i].status # "OPEN"
QuorumIsNoticed == \A i \in Ids : HasQuorum(i) ~> (LeftOpen(i) \/ crashes > 0)

(* apps/tally-board/README.md: "Ceremonias cerradas no aceptan nuevas      *)
(* shares." Once closed, the shares of a ceremony are final.               *)
ClosedIsFinalStep ==
  \A i \in DOMAIN ceremonies :
    ceremonies[i].closedAt => ceremonies'[i].shares = ceremonies[i].shares
ClosedIsFinal == [][ClosedIsFinalStep]_vars
=============================================================================
