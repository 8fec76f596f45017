--------------------------- MODULE OffChainProofs ---------------------------
(***************************************************************************)
(* Proofs about what happens beside the chain, for any number of voters,   *)
(* clerks, calls, candidates, editors, pages, acts and nullifiers: the     *)
(* enrolment desk, the public roll, the ballot catalogue and the evidence  *)
(* audit.  Each has an inductive invariant of its own (DeskInv, RollInv,   *)
(* CatalogueInv, AuditInv), one lemma per action, and theorems drawn from  *)
(* it.                                                                     *)
(***************************************************************************)
EXTENDS OffChain, FiniteSetTheorems, InductionLemmas, TLAPS

-----------------------------------------------------------------------------
(* The enrolment desk.                                                     *)

RowsIn(table) == {table[i] : i \in DOMAIN table}
HasWallet(table, w) == \E row \in RowsIn(table) : row.wallet = w

(* The calls that have seen a voter let in, and those that hold a link.    *)
EntitledSteps == {"ENSURE", "SEED", "INSERT", "RELIST", "PERMIT"}

DeskTyped ==
  /\ census \in [Voters -> [status : CensusStatuses, code : BOOLEAN]]
  /\ links \in [Voters -> Seq(LinkRows)]
  /\ authz \in [Voters -> 0 .. MaxSecrets]
  /\ requests \in [Voters -> Seq(RequestStatuses)]
  /\ permits \in SUBSET Secrets
  /\ drawn \in 0 .. MaxSecrets
  /\ edited \in SUBSET Voters
  /\ edits \in 0 .. MaxEdits

DeskActorsTyped ==
  /\ clerk \in [Clerks -> [at : ClerkSteps, voter : Voters, wallet : 0 .. MaxSecrets]]
  /\ call \in [Calls -> [at : CallSteps, session : {"NONE", "ACTIVE", "REVOKED"},
                         seen : SUBSET {"census", "authorizations"}, eligible : BOOLEAN,
                         wallet : 0 .. MaxSecrets, chosen : LinkRows, hardened : LinkRows]]
  /\ received \in [Voters -> SUBSET Secrets]
  /\ enrolled \in [Voters -> SUBSET Secrets]

(* Every link is of a wallet that was drawn; a link nobody edited by hand  *)
(* holds a secret.                                                         *)
LinksSound ==
  \A v \in Voters : \A row \in RowsIn(links[v]) :
    /\ row.wallet \in 1 .. drawn
    /\ v \notin edited => row.secret # NoSecret

ClerkSound == \A k \in Clerks : clerk[k].at = "AUTHORIZE" => clerk[k].wallet # NoWallet

(* What a call has in memory: its voter was let in, and what it took for a  *)
(* link is one, the same as long as nobody edits the links by hand.        *)
CallSound(c, r) ==
  LET v == Owner[c]
  IN  /\ r.wallet # NoWallet => authz[v] # NoWallet
      /\ r.at \in EntitledSteps => authz[v] # NoWallet
      /\ r.at = "SEED" => HasWallet(links[v], r.hardened.wallet) /\ v \in edited
      /\ v \notin edited =>
           /\ r.at \in EntitledSteps => r.chosen \in RowsIn(links[v])
           /\ r.at = "PERMIT" => r.hardened \in RowsIn(links[v])

CallsSound == \A c \in Calls : CallSound(c, call[c])

(* What a voter has received, and has used up on the chain.                *)
PermitsSound ==
  \A v \in Voters :
    /\ received[v] \subseteq permits
    /\ enrolled[v] \subseteq received[v]
    /\ received[v] # {} => authz[v] # NoWallet
    /\ v \notin edited => \A secret \in received[v] : \E row \in RowsIn(links[v]) : row.secret = secret

DeskInv ==
  /\ DeskTyped /\ DeskActorsTyped
  /\ LinksSound /\ ClerkSound /\ CallsSound /\ PermitsSound

-----------------------------------------------------------------------------
(* The first of some rows is one of them, if there is any.                 *)
LEMMA FirstOfRows ==
  ASSUME NEW table \in Seq(LinkRows), NEW some \in SUBSET (DOMAIN table)
  PROVE  \/ FirstOf(table, some) = NoLink /\ some = {}
         \/ \E i \in some : FirstOf(table, some) = table[i]
<1>1. CASE some = {}
  BY <1>1 DEF FirstOf
<1>2. CASE some # {}
  <2>1. some \in SUBSET Nat
    OBVIOUS
  <2>2. \E i \in some : \A j \in some : i <= j
    BY <1>2, <2>1, LeastNumber
  <2>3. QED
    BY <1>2, <2>2 DEF FirstOf
<1>3. QED
  BY <1>1, <1>2

(* The first active link of the list, and that of one wallet.              *)
LEMMA FirstActiveRow ==
  ASSUME NEW table \in Seq(LinkRows)
  PROVE  /\ FirstActive(table) \in LinkRows
         /\ FirstActive(table) # NoLink => FirstActive(table) \in RowsIn(table)
         /\ \A w : ActiveOf(table, w) \in LinkRows
         /\ \A w : ActiveOf(table, w) # NoLink => ActiveOf(table, w) \in RowsIn(table)
<1>1. NoLink \in LinkRows /\ \A i \in DOMAIN table : table[i] \in LinkRows
  <2>1. 0 \in 0 .. MaxSecrets
    BY DeskAssumption
  <2>2. NoLink \in LinkRows
    BY <2>1 DEF NoLink, LinkRows, NoWallet, NoSecret
  <2>3. QED
    BY <2>2
<1>2. ASSUME NEW some \in SUBSET (DOMAIN table)
      PROVE  /\ FirstOf(table, some) \in LinkRows
             /\ FirstOf(table, some) # NoLink => FirstOf(table, some) \in RowsIn(table)
  BY <1>1, FirstOfRows DEF RowsIn
<1>3. {i \in DOMAIN table : table[i].active} \in SUBSET (DOMAIN table)
      /\ \A w : {i \in DOMAIN table : table[i].active /\ table[i].wallet = w} \in SUBSET (DOMAIN table)
  OBVIOUS
<1>4. QED
  BY <1>2, <1>3 DEF FirstActive, ActiveOf

(* The upsert of a link: the row is there, the others stay, and so does    *)
(* every wallet.                                                           *)
LEMMA UpsertedRows ==
  ASSUME NEW table \in Seq(LinkRows), NEW row \in LinkRows
  PROVE  /\ Upserted(table, row) \in Seq(LinkRows)
         /\ row \in RowsIn(Upserted(table, row))
         /\ RowsIn(Upserted(table, row)) \subseteq RowsIn(table) \cup {row}
         /\ \A w : HasWallet(table, w) => HasWallet(Upserted(table, row), w)
         /\ ~HasWallet(table, row.wallet) => RowsIn(table) \subseteq RowsIn(Upserted(table, row))
<1> DEFINE old == PlaceOf(table, row.wallet)
           rest == IF old = {} THEN table ELSE RemoveAt(table, CHOOSE i \in old : TRUE)
           new == Upserted(table, row)
<1>1. rest \in Seq(LinkRows) /\ RowsIn(rest) \subseteq RowsIn(table)
      /\ \A r \in RowsIn(table) : r \in RowsIn(rest) \/ r.wallet = row.wallet
  <2>1. CASE old = {}
    BY <2>1
  <2>2. CASE old # {}
    <3>1. PICK p \in old : rest = RemoveAt(table, p)
      BY <2>2
    <3>2. p \in 1 .. Len(table) /\ table[p].wallet = row.wallet /\ Len(table) \in Nat
      BY DEF PlaceOf
    <3> DEFINE a == SubSeq(table, 1, p - 1)
               b == SubSeq(table, p + 1, Len(table))
               len == Len(table)
    <3>3. rest = a \o b
      BY <3>1 DEF RemoveAt
    <3>4. /\ a \in Seq(LinkRows) /\ Len(a) = p - 1
          /\ \A i \in 1 .. p - 1 : a[i] = table[i]
      BY <3>2
    <3>5. /\ b \in Seq(LinkRows) /\ Len(b) = len - p
          /\ \A i \in 1 .. len - p : b[i] = table[i + p]
      BY <3>2
    <3> HIDE DEF a, b, rest
    <3>6. /\ rest \in Seq(LinkRows) /\ Len(rest) = len - 1
          /\ \A i \in 1 .. p - 1 : rest[i] = table[i]
          /\ \A i \in p .. len - 1 : rest[i] = table[i + 1]
      <4>0. a \in Seq(LinkRows) /\ b \in Seq(LinkRows)
        BY <3>4, <3>5
      <4>1. rest \in Seq(LinkRows) /\ Len(rest) = Len(a) + Len(b)
        BY <3>3, <4>0
      <4>2. Len(rest) = len - 1
        BY <3>2, <3>4, <3>5, <4>1
      <4>3. ASSUME NEW i \in 1 .. p - 1
            PROVE  rest[i] = table[i]
        <5>1. i \in 1 .. Len(a) /\ i \in 1 .. Len(a) + Len(b) /\ i <= Len(a)
          BY <3>2, <3>4, <3>5
        <5>2. rest[i] = a[i]
          BY <3>3, <3>4, <3>5, <5>1
        <5>3. QED
          BY <3>4, <5>2
      <4>4. ASSUME NEW i \in p .. len - 1
            PROVE  rest[i] = table[i + 1]
        <5>1. i \in 1 .. Len(a) + Len(b) /\ i > Len(a) /\ i - Len(a) = (i + 1) - p
          BY <3>2, <3>4, <3>5
        <5>2. rest[i] = b[(i + 1) - p]
          BY <3>3, <3>4, <3>5, <5>1
        <5>3. (i + 1) - p \in 1 .. len - p /\ ((i + 1) - p) + p = i + 1
          BY <3>2
        <5>4. QED
          BY <3>5, <5>2, <5>3
      <4>5. QED
        BY <4>1, <4>2, <4>3, <4>4
    <3>7. DOMAIN rest = 1 .. len - 1 /\ DOMAIN table = 1 .. len
      BY <3>6
    <3>8. RowsIn(rest) \subseteq RowsIn(table)
      <4> SUFFICES ASSUME NEW i \in 1 .. len - 1
                   PROVE  \E j \in 1 .. len : rest[i] = table[j]
        BY <3>7 DEF RowsIn
      <4>1. CASE i \in 1 .. p - 1
        BY <3>2, <3>6, <4>1
      <4>2. CASE i \in p .. len - 1
        <5>1. i + 1 \in 1 .. len
          BY <3>2, <4>2
        <5>2. QED
          BY <3>6, <4>2, <5>1
      <4>3. QED
        BY <3>2, <4>1, <4>2
    <3>9. \A r \in RowsIn(table) : r \in RowsIn(rest) \/ r.wallet = row.wallet
      <4> SUFFICES ASSUME NEW i \in 1 .. len, i # p
                   PROVE  \E j \in 1 .. len - 1 : rest[j] = table[i]
        BY <3>2, <3>7 DEF RowsIn
      <4>1. CASE i < p
        <5>1. i \in 1 .. p - 1 /\ i \in 1 .. len - 1
          BY <3>2, <4>1
        <5>2. QED
          BY <3>6, <5>1
      <4>2. CASE i > p
        <5>1. i - 1 \in p .. len - 1 /\ i - 1 \in 1 .. len - 1 /\ (i - 1) + 1 = i
          BY <3>2, <4>2
        <5>2. QED
          BY <3>6, <5>1
      <4>3. QED
        BY <3>2, <4>1, <4>2
    <3>10. QED
      BY <3>6, <3>8, <3>9
  <2>3. QED
    BY <2>1, <2>2
<1>2. new = <<row>> \o rest
  BY DEF Upserted
<1> HIDE DEF rest, new, old
<1>3. /\ new \in Seq(LinkRows) /\ Len(new) = Len(rest) + 1 /\ Len(rest) \in Nat
      /\ new[1] = row /\ \A i \in 1 .. Len(rest) : new[i + 1] = rest[i]
  BY <1>1, <1>2
<1>4. RowsIn(new) = RowsIn(rest) \cup {row}
  <2>1. DOMAIN new = 1 .. Len(rest) + 1 /\ DOMAIN rest = 1 .. Len(rest)
    BY <1>1, <1>3
  <2>2. ASSUME NEW i \in 1 .. Len(rest) + 1, i # 1
        PROVE  \E j \in 1 .. Len(rest) : new[i] = rest[j]
    <3>1. i - 1 \in 1 .. Len(rest) /\ (i - 1) + 1 = i
      BY <1>3, <2>2
    <3>2. QED
      BY <1>3, <3>1
  <2>3. \A j \in 1 .. Len(rest) : j + 1 \in 1 .. Len(rest) + 1
    BY <1>3
  <2>4. QED
    BY <1>3, <2>1, <2>2, <2>3 DEF RowsIn
<1>5. QED
  BY <1>1, <1>3, <1>4 DEF new, HasWallet

-----------------------------------------------------------------------------
ClerkRecords == [at : ClerkSteps, voter : Voters, wallet : 0 .. MaxSecrets]
CallRecords == [at : CallSteps, session : {"NONE", "ACTIVE", "REVOKED"},
                seen : SUBSET {"census", "authorizations"}, eligible : BOOLEAN,
                wallet : 0 .. MaxSecrets, chosen : LinkRows, hardened : LinkRows]

(* What no step takes away: an authorisation, the wallets, the links that   *)
(* nobody edited, the memory of an edit.                                   *)
Grown ==
  /\ edited \subseteq edited'
  /\ \A v \in Voters :
       /\ authz[v] # NoWallet => authz'[v] # NoWallet
       /\ \A w : HasWallet(links[v], w) => HasWallet(links'[v], w)
       /\ v \notin edited' => RowsIn(links[v]) \subseteq RowsIn(links'[v])

(* So what a call has in memory stays sound.                               *)
LEMMA CallStaysSound ==
  ASSUME Grown, NEW c \in Calls, NEW r, CallSound(c, r)
  PROVE  CallSound(c, r)'
<1>1. Owner[c] \in Voters
  BY DeskAssumption
<1>2. QED
  BY <1>1 DEF Grown, CallSound

(* And so does what a voter holds.                                         *)
LEMMA PermitsStaySound ==
  ASSUME PermitsSound, Grown, received' = received, enrolled' = enrolled,
         permits \subseteq permits'
  PROVE  PermitsSound'
<1> SUFFICES ASSUME NEW v \in Voters
             PROVE  /\ received[v] \subseteq permits'
                    /\ enrolled[v] \subseteq received[v]
                    /\ received[v] # {} => authz'[v] # NoWallet
                    /\ v \notin edited' => \A secret \in received[v] :
                         \E row \in RowsIn(links'[v]) : row.secret = secret
  BY DEF PermitsSound
<1>1. v \notin edited' => v \notin edited /\ RowsIn(links[v]) \subseteq RowsIn(links'[v])
  BY DEF Grown
<1>2. QED
  BY <1>1 DEF PermitsSound, Grown

(* The links after an upsert.                                              *)
LEMMA LinkWritten ==
  ASSUME DeskInv, NEW v \in Voters, NEW row \in LinkRows,
         links' = [links EXCEPT ![v] = Upserted(@, row)],
         row.wallet \in 1 .. drawn', drawn <= drawn', drawn' \in 0 .. MaxSecrets,
         edited \subseteq edited', authz' = authz,
         v \notin edited' => row.secret # NoSecret /\ ~HasWallet(links[v], row.wallet)
  PROVE  links' \in [Voters -> Seq(LinkRows)] /\ LinksSound' /\ Grown
<1>1. links \in [Voters -> Seq(LinkRows)] /\ drawn \in Nat /\ MaxSecrets \in Nat
  BY DeskAssumption DEF DeskInv, DeskTyped
<1>2. links[v] \in Seq(LinkRows)
  BY <1>1
<1> DEFINE new == Upserted(links[v], row)
<1>3. /\ new \in Seq(LinkRows)
      /\ RowsIn(new) \subseteq RowsIn(links[v]) \cup {row}
      /\ \A w : HasWallet(links[v], w) => HasWallet(new, w)
      /\ ~HasWallet(links[v], row.wallet) => RowsIn(links[v]) \subseteq RowsIn(new)
  BY <1>2, UpsertedRows
<1>4. /\ links' \in [Voters -> Seq(LinkRows)]
      /\ \A u \in Voters : links'[u] = IF u = v THEN new ELSE links[u]
  BY <1>1, <1>3
<1> HIDE DEF new
<1>5. Grown
  BY <1>3, <1>4 DEF Grown
<1>6. LinksSound'
  <2> SUFFICES ASSUME NEW u \in Voters, NEW r \in RowsIn(links'[u])
               PROVE  r.wallet \in 1 .. drawn' /\ (u \notin edited' => r.secret # NoSecret)
    BY DEF LinksSound
  <2>1. 1 .. drawn \subseteq 1 .. drawn'
    BY <1>1
  <2>2. CASE r \in RowsIn(links[u])
    BY <2>1, <2>2 DEF DeskInv, LinksSound
  <2>3. CASE r \notin RowsIn(links[u])
    <3>1. u = v /\ r = row
      BY <1>3, <1>4, <2>3
    <3>2. QED
      BY <3>1
  <2>4. QED
    BY <2>2, <2>3
<1>7. QED
  BY <1>4, <1>5, <1>6

(* A managed wallet, created with its secret.                              *)
LEMMA ManagedWritten ==
  ASSUME DeskInv, NEW v \in Voters, drawn < MaxSecrets, drawn' = drawn + 1,
         links' = [links EXCEPT ![v] = Upserted(@, ManagedRow(drawn + 1))],
         edited' = edited, authz' = authz
  PROVE  links' \in [Voters -> Seq(LinkRows)] /\ LinksSound' /\ Grown
         /\ drawn' \in 0 .. MaxSecrets
<1>1. drawn \in Nat /\ MaxSecrets \in Nat
  BY DeskAssumption DEF DeskInv, DeskTyped
<1>2. PICK row : row = ManagedRow(drawn + 1)
  OBVIOUS
<1>3. /\ row.wallet = drawn + 1 /\ row.secret = drawn + 1
      /\ drawn + 1 \in 0 .. MaxSecrets /\ drawn + 1 # NoSecret /\ drawn + 1 \notin 1 .. drawn
      /\ row.wallet \in 1 .. drawn' /\ drawn <= drawn' /\ drawn' \in 0 .. MaxSecrets
  BY <1>1, <1>2 DEF ManagedRow, NoSecret
<1>4. row \in LinkRows
  BY <1>2, <1>3 DEF ManagedRow, LinkRows
<1>5. ~HasWallet(links[v], row.wallet)
  BY <1>3 DEF DeskInv, LinksSound, HasWallet
<1>6. links' = [links EXCEPT ![v] = Upserted(@, row)]
  BY <1>2
<1>7. QED
  BY <1>3, <1>4, <1>5, <1>6, LinkWritten

(* A step of the clerks that leaves the calls alone.                       *)
LEMMA ClerksKeep ==
  ASSUME DeskInv, DeskTyped', clerk' \in [Clerks -> ClerkRecords], LinksSound', ClerkSound',
         Grown, UNCHANGED <<call, permits, received, enrolled>>
  PROVE  DeskInv'
<1>1. DeskActorsTyped'
  BY DEF DeskInv, DeskActorsTyped, ClerkRecords
<1>2. CallsSound'
  <2> SUFFICES ASSUME NEW c \in Calls
               PROVE  CallSound(c, call[c])'
    BY DEF CallsSound
  <2>1. PICK r : r = call[c]
    OBVIOUS
  <2>2. CallSound(c, r)
    BY <2>1 DEF DeskInv, CallsSound
  <2>3. CallSound(c, r)' /\ call'[c] = r
    BY <2>1, <2>2, CallStaysSound
  <2>4. QED
    BY <2>3 DEF CallSound
<1>3. PermitsSound'
  BY PermitsStaySound DEF DeskInv
<1>4. QED
  BY <1>1, <1>2, <1>3 DEF DeskInv

(* One clerk's session moves on.                                           *)
LEMMA ClerkMoved ==
  ASSUME DeskInv, NEW k \in Clerks, NEW new \in ClerkRecords,
         clerk' = [clerk EXCEPT ![k] = new], new.at = "AUTHORIZE" => new.wallet # NoWallet
  PROVE  clerk' \in [Clerks -> ClerkRecords] /\ ClerkSound'
<1>1. /\ clerk' \in [Clerks -> ClerkRecords]
      /\ \A q \in Clerks : clerk'[q] = IF q = k THEN new ELSE clerk[q]
  BY DEF DeskInv, DeskActorsTyped, ClerkRecords
<1>2. QED
  BY <1>1 DEF DeskInv, ClerkSound

(* Nothing about the links or the authorisations changed.                  *)
LEMMA LinksStay ==
  ASSUME DeskInv, UNCHANGED <<links, authz, drawn, edited>>
  PROVE  LinksSound' /\ Grown
BY DEF DeskInv, LinksSound, Grown

(* A clerk's actions take from the bound on them.                          *)
LEMMA EditsTyped ==
  ASSUME DeskInv, Edit
  PROVE  edits' \in 0 .. MaxEdits
<1>1. edits \in Nat /\ MaxEdits \in Nat
  BY DeskAssumption DEF DeskInv, DeskTyped
<1>2. QED
  BY <1>1 DEF Edit

(* A clerk at rest is a record of a clerk.                                 *)
LEMMA IdleClerkTyped ==
  ASSUME NEW v \in Voters
  PROVE  IdleClerk \in ClerkRecords /\ IdleClerk.at = "IDLE"
<1>1. (CHOOSE u \in Voters : TRUE) \in Voters
  OBVIOUS
<1>2. NoWallet \in 0 .. MaxSecrets
  BY DeskAssumption DEF NoWallet
<1>3. QED
  BY <1>1, <1>2 DEF IdleClerk, ClerkRecords, ClerkSteps

(* The census saved, with an access code or without.                       *)
LEMMA SaveRecordKeeps ==
  ASSUME DeskInv, NEW k \in Clerks, NEW v \in Voters, NEW status \in CensusStatuses,
         NEW code \in BOOLEAN, ClerkSavesRecord(k, v, status, code)
  PROVE  DeskInv'
<1>1. /\ census' = [census EXCEPT ![v] = [status |-> status, code |-> code]]
      /\ UNCHANGED <<links, authz, requests, permits, drawn, call, received, enrolled, edited>>
      /\ edits' \in 0 .. MaxEdits
  BY EditsTyped DEF ClerkSavesRecord
<1>2. census' \in [Voters -> [status : CensusStatuses, code : BOOLEAN]]
  BY <1>1 DEF DeskInv, DeskTyped
<1>3. DeskTyped'
  BY <1>1, <1>2 DEF DeskInv, DeskTyped
<1>4. clerk' \in [Clerks -> ClerkRecords] /\ ClerkSound'
  <2>1. CASE clerk' = clerk
    BY <2>1 DEF DeskInv, DeskActorsTyped, ClerkSound, ClerkRecords
  <2>2. CASE clerk' = [clerk EXCEPT ![k] = [@ EXCEPT !.at = "REVOKE", !.voter = v]]
    <3>1. clerk[k] \in ClerkRecords
      BY DEF DeskInv, DeskActorsTyped, ClerkRecords
    <3>2. PICK new : new = [clerk[k] EXCEPT !.at = "REVOKE", !.voter = v]
      OBVIOUS
    <3>3. new \in ClerkRecords /\ new.at = "REVOKE"
      BY <3>1, <3>2 DEF ClerkRecords, ClerkSteps
    <3>4. QED
      BY <2>2, <3>2, <3>3, ClerkMoved
  <2>3. QED
    BY <2>1, <2>2 DEF ClerkSavesRecord
<1>5. QED
  BY <1>1, <1>3, <1>4, LinksStay, ClerksKeep

(* The review of an enrolment request.                                     *)
LEMMA ReviewKeeps ==
  ASSUME DeskInv, NEW v \in Voters, NEW i \in DOMAIN requests[v], NEW decision \in RequestStatuses,
         ReviewRequest(v, i, decision)
  PROVE  DeskInv'
<1>1. /\ requests' = [requests EXCEPT ![v][i] = decision]
      /\ UNCHANGED <<census, links, authz, permits, drawn, clerk, call, received, enrolled, edited>>
      /\ edits' \in 0 .. MaxEdits
  BY EditsTyped DEF ReviewRequest
<1>2. requests' \in [Voters -> Seq(RequestStatuses)]
  <2>1. requests \in [Voters -> Seq(RequestStatuses)] /\ requests[v] \in Seq(RequestStatuses)
    BY DEF DeskInv, DeskTyped
  <2>2. [requests[v] EXCEPT ![i] = decision] \in Seq(RequestStatuses)
    BY <2>1
  <2>3. QED
    BY <1>1, <2>1, <2>2
<1>3. DeskTyped'
  BY <1>1, <1>2 DEF DeskInv, DeskTyped
<1>4. clerk' \in [Clerks -> ClerkRecords] /\ ClerkSound'
  BY <1>1 DEF DeskInv, DeskActorsTyped, ClerkSound, ClerkRecords
<1>5. QED
  BY <1>1, <1>3, <1>4, LinksStay, ClerksKeep

(* A link edited by hand loses its secret, and its voter is remembered.    *)
LEMMA EditKeeps ==
  ASSUME DeskInv, NEW v \in Voters, NEW wallet \in Secrets, NEW works \in BOOLEAN,
         EditLink(v, wallet, works)
  PROVE  DeskInv'
<1>1. PICK row : row = [wallet |-> wallet, active |-> works, secret |-> NoSecret]
  OBVIOUS
<1>2. /\ drawn' = IF wallet > drawn THEN wallet ELSE drawn
      /\ links' = [links EXCEPT ![v] = Upserted(@, row)]
      /\ edited' = edited \cup {v}
      /\ UNCHANGED <<census, authz, requests, permits, clerk, call, received, enrolled>>
      /\ edits' \in 0 .. MaxEdits
  BY <1>1, EditsTyped DEF EditLink
<1>3. drawn \in Nat /\ drawn <= MaxSecrets /\ MaxSecrets \in Nat /\ wallet \in Nat
      /\ wallet >= 1 /\ wallet <= MaxSecrets
  BY DeskAssumption DEF DeskInv, DeskTyped, Secrets
<1>4. drawn' \in 0 .. MaxSecrets /\ drawn <= drawn' /\ wallet \in 1 .. drawn'
  BY <1>2, <1>3
<1>5. row \in LinkRows /\ row.wallet = wallet
  BY <1>1, <1>3 DEF LinkRows, NoSecret
<1>6. v \in edited' /\ edited \subseteq edited'
  BY <1>2
<1>7. links' \in [Voters -> Seq(LinkRows)] /\ LinksSound' /\ Grown
  BY <1>2, <1>4, <1>5, <1>6, LinkWritten
<1>8. edited' \in SUBSET Voters
  BY <1>2 DEF DeskInv, DeskTyped
<1>9. DeskTyped'
  BY <1>2, <1>4, <1>7, <1>8 DEF DeskInv, DeskTyped
<1>10. clerk' \in [Clerks -> ClerkRecords] /\ ClerkSound'
  BY <1>2 DEF DeskInv, DeskActorsTyped, ClerkSound, ClerkRecords
<1>11. QED
  BY <1>2, <1>7, <1>9, <1>10, ClerksKeep

(* authorizeVoterAction begins.                                            *)
LEMMA BeginsKeeps ==
  ASSUME DeskInv, NEW k \in Clerks, NEW v \in Voters, ClerkBegins(k, v)
  PROVE  DeskInv'
<1>1. PICK new : new = [clerk[k] EXCEPT !.at = "LIST", !.voter = v]
  OBVIOUS
<1>2. clerk[k] \in ClerkRecords
  BY DEF DeskInv, DeskActorsTyped, ClerkRecords
<1>3. new \in ClerkRecords /\ new.at = "LIST"
  BY <1>1, <1>2 DEF ClerkRecords, ClerkSteps
<1>4. /\ clerk' = [clerk EXCEPT ![k] = new] /\ edits' \in 0 .. MaxEdits
      /\ UNCHANGED <<census, links, authz, requests, permits, drawn, call, received, enrolled, edited>>
  BY <1>1, EditsTyped DEF ClerkBegins, tables
<1>5. clerk' \in [Clerks -> ClerkRecords] /\ ClerkSound'
  BY <1>3, <1>4, ClerkMoved
<1>6. DeskTyped'
  BY <1>4 DEF DeskInv, DeskTyped
<1>7. QED
  BY <1>4, <1>5, <1>6, LinksStay, ClerksKeep

(* The link a clerk finds is of a wallet.                                  *)
LEMMA FoundLink ==
  ASSUME DeskInv, NEW v \in Voters, FirstActive(links[v]) # NoLink
  PROVE  /\ FirstActive(links[v]) \in RowsIn(links[v])
         /\ FirstActive(links[v]).wallet \in 0 .. MaxSecrets
         /\ FirstActive(links[v]).wallet # NoWallet
<1>1. links[v] \in Seq(LinkRows) /\ drawn \in Nat
  BY DEF DeskInv, DeskTyped
<1>2. FirstActive(links[v]) \in RowsIn(links[v]) /\ FirstActive(links[v]) \in LinkRows
  BY <1>1, FirstActiveRow
<1>3. FirstActive(links[v]).wallet \in 1 .. drawn
  BY <1>2 DEF DeskInv, LinksSound
<1>4. QED
  BY <1>1, <1>2, <1>3 DEF LinkRows, NoWallet

(* A clerk listing the links, before the wallet is created or after.       *)
LEMMA ListsKeeps ==
  ASSUME DeskInv, NEW k \in Clerks, ClerkLists(k) \/ ClerkRelists(k)
  PROVE  DeskInv'
<1>1. PICK found : found = FirstActive(links[clerk[k].voter])
  OBVIOUS
<1>2. clerk[k] \in ClerkRecords /\ clerk[k].voter \in Voters
  BY DEF DeskInv, DeskActorsTyped, ClerkRecords
<1>3. PICK new : /\ clerk' = [clerk EXCEPT ![k] = new]
                 /\ \/ found = NoLink /\ new = [clerk[k] EXCEPT !.at = "INSERT"]
                    \/ found = NoLink /\ new = IdleClerk
                    \/ /\ found # NoLink
                       /\ new = [clerk[k] EXCEPT !.at = "AUTHORIZE", !.wallet = found.wallet]
  BY <1>1 DEF ClerkLists, ClerkRelists
<1>4. found # NoLink => found.wallet \in 0 .. MaxSecrets /\ found.wallet # NoWallet
  BY <1>1, <1>2, FoundLink
<1>5. new \in ClerkRecords /\ (new.at = "AUTHORIZE" => new.wallet # NoWallet)
  <2>1. CASE new = IdleClerk
    BY <1>2, <2>1, IdleClerkTyped
  <2>2. CASE new = [clerk[k] EXCEPT !.at = "INSERT"]
    BY <1>2, <2>2 DEF ClerkRecords, ClerkSteps
  <2>3. CASE found # NoLink /\ new = [clerk[k] EXCEPT !.at = "AUTHORIZE", !.wallet = found.wallet]
    BY <1>2, <1>4, <2>3 DEF ClerkRecords, ClerkSteps
  <2>4. QED
    BY <1>3, <2>1, <2>2, <2>3
<1>6. UNCHANGED <<census, links, authz, requests, permits, drawn, call, received, enrolled, edited, edits>>
  BY DEF ClerkLists, ClerkRelists, tables
<1>7. clerk' \in [Clerks -> ClerkRecords] /\ ClerkSound'
  BY <1>3, <1>5, ClerkMoved
<1>8. DeskTyped'
  BY <1>6 DEF DeskInv, DeskTyped
<1>9. QED
  BY <1>6, <1>7, <1>8, LinksStay, ClerksKeep

(* A clerk creating a managed wallet.                                      *)
LEMMA ClerkInsertsKeeps ==
  ASSUME DeskInv, NEW k \in Clerks, ClerkInserts(k)
  PROVE  DeskInv'
<1>1. PICK new, v : new = [clerk[k] EXCEPT !.at = "RELIST"] /\ v = clerk[k].voter
  OBVIOUS
<1>2. clerk[k] \in ClerkRecords /\ v \in Voters
  BY <1>1 DEF DeskInv, DeskActorsTyped, ClerkRecords
<1>3. new \in ClerkRecords /\ new.at = "RELIST"
  BY <1>1, <1>2 DEF ClerkRecords, ClerkSteps
<1>4. /\ clerk' = [clerk EXCEPT ![k] = new] /\ drawn < MaxSecrets /\ drawn' = drawn + 1
      /\ links' = [links EXCEPT ![v] = Upserted(@, ManagedRow(drawn + 1))]
      /\ UNCHANGED <<census, authz, requests, permits, call, received, enrolled, edited, edits>>
  BY <1>1 DEF ClerkInserts
<1>5. clerk' \in [Clerks -> ClerkRecords] /\ ClerkSound'
  BY <1>3, <1>4, ClerkMoved
<1>6. links' \in [Voters -> Seq(LinkRows)] /\ LinksSound' /\ Grown /\ drawn' \in 0 .. MaxSecrets
  BY <1>2, <1>4, ManagedWritten
<1>7. DeskTyped'
  BY <1>4, <1>6 DEF DeskInv, DeskTyped
<1>8. QED
  BY <1>4, <1>5, <1>6, <1>7, ClerksKeep

(* A clerk authorising the wallet it found.                                *)
LEMMA AuthorizesKeeps ==
  ASSUME DeskInv, NEW k \in Clerks, ClerkAuthorizes(k)
  PROVE  DeskInv'
<1>1. /\ clerk[k].at = "AUTHORIZE" /\ clerk' = [clerk EXCEPT ![k] = IdleClerk]
      /\ authz' = [authz EXCEPT ![clerk[k].voter] = clerk[k].wallet]
      /\ UNCHANGED <<census, links, requests, permits, drawn, call, received, enrolled, edited, edits>>
  BY DEF ClerkAuthorizes
<1>2. clerk[k] \in ClerkRecords /\ clerk[k].voter \in Voters /\ clerk[k].wallet \in 0 .. MaxSecrets
      /\ clerk[k].wallet # NoWallet
  BY <1>1 DEF DeskInv, DeskActorsTyped, ClerkRecords, ClerkSound
<1>3. /\ authz' \in [Voters -> 0 .. MaxSecrets]
      /\ \A u \in Voters : authz'[u] = IF u = clerk[k].voter THEN clerk[k].wallet ELSE authz[u]
  BY <1>1, <1>2 DEF DeskInv, DeskTyped
<1>4. DeskTyped'
  BY <1>1, <1>3 DEF DeskInv, DeskTyped
<1>5. Grown
  BY <1>1, <1>2, <1>3 DEF Grown
<1>6. LinksSound'
  BY <1>1 DEF DeskInv, LinksSound
<1>7. PICK new : new = IdleClerk
  OBVIOUS
<1>8. new \in ClerkRecords /\ new.at = "IDLE"
  BY <1>2, <1>7, IdleClerkTyped
<1>9. clerk' \in [Clerks -> ClerkRecords] /\ ClerkSound'
  BY <1>1, <1>7, <1>8, ClerkMoved
<1>10. QED
  BY <1>1, <1>4, <1>5, <1>6, <1>9, ClerksKeep

(* A new access code ends sessions, and no call in progress.               *)
LEMMA RevokesKeeps ==
  ASSUME DeskInv, NEW k \in Clerks, ClerkRevokesSessions(k)
  PROVE  DeskInv'
<1>1. /\ call' = [c \in Calls |->
                   IF Owner[c] = clerk[k].voter /\ call[c].session = "ACTIVE"
                   THEN [call[c] EXCEPT !.session = "REVOKED"] ELSE call[c]]
      /\ clerk' = [clerk EXCEPT ![k] = IdleClerk]
      /\ UNCHANGED <<census, links, authz, requests, permits, drawn, received, enrolled, edited, edits>>
  BY DEF ClerkRevokesSessions, tables
<1>2. \A c \in Calls : call[c] \in CallRecords
  BY DEF DeskInv, DeskActorsTyped, CallRecords
<1>3. ASSUME NEW c \in Calls
      PROVE  /\ call'[c] \in CallRecords
             /\ call'[c].at = call[c].at /\ call'[c].wallet = call[c].wallet
             /\ call'[c].chosen = call[c].chosen /\ call'[c].hardened = call[c].hardened
  <2>1. call'[c] \in {call[c], [call[c] EXCEPT !.session = "REVOKED"]}
    BY <1>1
  <2>2. QED
    BY <1>2, <2>1 DEF CallRecords
<1>4. call' \in [Calls -> CallRecords]
  <2>1. call' = [c \in Calls |-> call'[c]]
    BY <1>1
  <2>2. QED
    BY <1>3, <2>1
<1>5. PICK new : new = IdleClerk
  OBVIOUS
<1>6. new \in ClerkRecords /\ new.at = "IDLE"
  <2>1. clerk[k].voter \in Voters
    BY DEF DeskInv, DeskActorsTyped
  <2>2. QED
    BY <1>5, <2>1, IdleClerkTyped
<1>7. clerk' \in [Clerks -> ClerkRecords] /\ ClerkSound'
  BY <1>1, <1>5, <1>6, ClerkMoved
<1>8. DeskActorsTyped'
  BY <1>1, <1>4, <1>7 DEF DeskInv, DeskActorsTyped, CallRecords, ClerkRecords
<1>9. DeskTyped' /\ LinksSound' /\ PermitsSound'
  BY <1>1 DEF DeskInv, DeskTyped, LinksSound, PermitsSound
<1>10. CallsSound'
  BY <1>1, <1>3 DEF DeskInv, CallsSound, CallSound
<1>11. QED
  BY <1>7, <1>8, <1>9, <1>10 DEF DeskInv

-----------------------------------------------------------------------------
(* One call moves on, whatever it writes.                                  *)
LEMMA CallKeeps ==
  ASSUME DeskInv, NEW c \in Calls, NEW r \in CallRecords, call' = [call EXCEPT ![c] = r],
         CallSound(c, r)', DeskTyped', LinksSound', Grown, PermitsSound',
         received' \in [Voters -> SUBSET Secrets],
         UNCHANGED <<clerk, enrolled>>
  PROVE  DeskInv'
<1>1. /\ call' \in [Calls -> CallRecords]
      /\ \A d \in Calls : call'[d] = IF d = c THEN r ELSE call[d]
  BY DEF DeskInv, DeskActorsTyped, CallRecords
<1>2. DeskActorsTyped' /\ ClerkSound'
  BY <1>1 DEF DeskInv, DeskActorsTyped, CallRecords, ClerkSound
<1>3. CallsSound'
  <2> SUFFICES ASSUME NEW d \in Calls
               PROVE  CallSound(d, call[d])'
    BY DEF CallsSound
  <2>1. CASE d = c
    BY <1>1, <2>1
  <2>2. CASE d # c
    <3>1. PICK q : q = call[d]
      OBVIOUS
    <3>2. CallSound(d, q)
      BY <3>1 DEF DeskInv, CallsSound
    <3>3. CallSound(d, q)' /\ call'[d] = q
      BY <1>1, <2>2, <3>1, <3>2, CallStaysSound
    <3>4. QED
      BY <3>3
  <2>3. QED
    BY <2>1, <2>2
<1>4. QED
  BY <1>2, <1>3 DEF DeskInv

(* A query that only reads.                                                *)
LEMMA ReadsKeep ==
  ASSUME DeskInv, NEW c \in Calls, NEW r \in CallRecords, CallMoves(c, r), CallSound(c, r)
  PROVE  DeskInv'
<1>1. /\ call' = [call EXCEPT ![c] = r]
      /\ UNCHANGED <<census, links, authz, requests, permits, drawn, clerk, received, enrolled, edited, edits>>
  BY DEF CallMoves, tables
<1>2. DeskTyped' /\ PermitsSound' /\ CallSound(c, r)' /\ received' \in [Voters -> SUBSET Secrets]
  BY <1>1 DEF DeskInv, DeskTyped, DeskActorsTyped, PermitsSound, CallSound
<1>3. QED
  BY <1>1, <1>2, LinksStay, CallKeeps

(* No link, as a record of a link.                                         *)
LEMMA NoLinkTyped ==
  NoLink \in LinkRows /\ NoWallet \in 0 .. MaxSecrets /\ NoSecret \in 0 .. MaxSecrets
<1>1. 0 \in 0 .. MaxSecrets
  BY DeskAssumption
<1>2. QED
  BY <1>1 DEF NoLink, LinkRows, NoWallet, NoSecret

(* A call that ends holds nothing.                                         *)
LEMMA EndedSound ==
  ASSUME NEW c \in Calls, NEW q \in CallRecords
  PROVE  Ended(q) \in CallRecords /\ CallSound(c, Ended(q))
         /\ Ended(q).at = "IDLE" /\ Ended(q).wallet = NoWallet
<1>1. IdleCall \in CallRecords
  BY NoLinkTyped DEF IdleCall, CallRecords, CallSteps
<1>2. /\ Ended(q) \in CallRecords /\ Ended(q).at = IdleCall.at
      /\ Ended(q).wallet = IdleCall.wallet
  BY <1>1 DEF Ended, CallRecords
<1>3. Ended(q).at = "IDLE" /\ Ended(q).wallet = NoWallet
  BY <1>2 DEF IdleCall
<1>4. QED
  BY <1>2, <1>3 DEF CallSound, EntitledSteps

(* The record of a call, and what is known of it.                          *)
LEMMA CallKnown ==
  ASSUME DeskInv, NEW c \in Calls
  PROVE  /\ call[c] \in CallRecords /\ CallSound(c, call[c])
         /\ Owner[c] \in Voters /\ links[Owner[c]] \in Seq(LinkRows)
<1>1. Owner[c] \in Voters
  BY DeskAssumption
<1>2. QED
  BY <1>1 DEF DeskInv, DeskTyped, DeskActorsTyped, CallsSound, CallRecords

(* The steps of a call that read, up to the link chosen.                   *)
LEMMA EarlyReadsKeep ==
  ASSUME DeskInv, NEW c \in Calls,
         \/ CheckAccessCode(c) \/ OpenSession(c) \/ SessionExpires(c)
         \/ FindPending(c) \/ PrepareSignup(c) \/ ReadCensus(c) \/ ReadAuthorizations(c)
  PROVE  DeskInv'
<1>1. PICK q, w, e : q = call[c] /\ w = authz[Owner[c]] /\ e = (census[Owner[c]].status = "HABILITADO")
  OBVIOUS
<1>2. q \in CallRecords /\ CallSound(c, q) /\ w \in 0 .. MaxSecrets /\ e \in BOOLEAN
  <2>1. Owner[c] \in Voters
    BY CallKnown
  <2>2. w \in 0 .. MaxSecrets
    BY <1>1, <2>1 DEF DeskInv, DeskTyped
  <2>3. QED
    BY <1>1, <2>2, CallKnown
<1>3. ASSUME NEW r \in CallRecords, CallMoves(c, r), r.at \notin EntitledSteps,
             r.wallet = q.wallet \/ r.wallet = w
      PROVE  DeskInv'
  <2>1. CallSound(c, r)
    BY <1>1, <1>2, <1>3 DEF CallSound, EntitledSteps
  <2>2. QED
    BY <1>3, <2>1, ReadsKeep
<1>4. CASE CheckAccessCode(c)
  <2>1. PICK r : r = [q EXCEPT !.at = "OPEN"]
    OBVIOUS
  <2>2. r \in CallRecords /\ r.at = "OPEN" /\ r.wallet = q.wallet
    BY <1>2, <2>1 DEF CallRecords, CallSteps
  <2>3. CallMoves(c, r)
    BY <1>1, <1>4, <2>1 DEF CheckAccessCode
  <2>4. QED
    BY <1>3, <2>2, <2>3 DEF EntitledSteps
<1>5. CASE OpenSession(c)
  <2>1. PICK r : r = [q EXCEPT !.at = "IDLE", !.session = "ACTIVE"]
    OBVIOUS
  <2>2. r \in CallRecords /\ r.at = "IDLE" /\ r.wallet = q.wallet
    BY <1>2, <2>1 DEF CallRecords, CallSteps
  <2>3. CallMoves(c, r)
    BY <1>1, <1>5, <2>1 DEF OpenSession
  <2>4. QED
    BY <1>3, <2>2, <2>3 DEF EntitledSteps
<1>6. CASE SessionExpires(c)
  <2>1. PICK r : r = [q EXCEPT !.session = "NONE"]
    OBVIOUS
  <2>2. r \in CallRecords /\ r.at = q.at /\ q.at = "IDLE" /\ r.wallet = q.wallet
    BY <1>1, <1>2, <1>6, <2>1 DEF CallRecords, CallSteps, SessionExpires
  <2>3. CallMoves(c, r)
    BY <1>1, <1>6, <2>1 DEF SessionExpires
  <2>4. QED
    BY <1>3, <2>2, <2>3 DEF EntitledSteps
<1>7. CASE FindPending(c)
  <2>1. PICK r : r = [q EXCEPT !.at = "REQUEST"]
    OBVIOUS
  <2>2. r \in CallRecords /\ r.at = "REQUEST" /\ r.wallet = q.wallet
    BY <1>2, <2>1 DEF CallRecords, CallSteps
  <2>3. CallMoves(c, r)
    BY <1>1, <1>7, <2>1 DEF FindPending
  <2>4. QED
    BY <1>3, <2>2, <2>3 DEF EntitledSteps
<1>8. CASE PrepareSignup(c)
  <2>1. PICK r : r = [q EXCEPT !.at = "READ"]
    OBVIOUS
  <2>2. r \in CallRecords /\ r.at = "READ" /\ r.wallet = q.wallet
    BY <1>2, <2>1 DEF CallRecords, CallSteps
  <2>3. CallMoves(c, r)
    BY <1>1, <1>8, <2>1 DEF PrepareSignup
  <2>4. QED
    BY <1>3, <2>2, <2>3 DEF EntitledSteps
<1>9. CASE ReadCensus(c)
  <2>1. PICK r : r = [q EXCEPT !.seen = @ \cup {"census"}, !.eligible = e]
    OBVIOUS
  <2>2. r \in CallRecords /\ r.at = q.at /\ q.at = "READ" /\ r.wallet = q.wallet
    BY <1>1, <1>2, <1>9, <2>1 DEF CallRecords, CallSteps, ReadCensus
  <2>3. CallMoves(c, r)
    BY <1>1, <1>9, <2>1 DEF ReadCensus
  <2>4. QED
    BY <1>3, <2>2, <2>3 DEF EntitledSteps
<1>10. CASE ReadAuthorizations(c)
  <2>1. PICK r : r = [q EXCEPT !.seen = @ \cup {"authorizations"}, !.wallet = w]
    OBVIOUS
  <2>2. r \in CallRecords /\ r.at = q.at /\ q.at = "READ" /\ r.wallet = w
    BY <1>1, <1>2, <1>10, <2>1 DEF CallRecords, CallSteps, ReadAuthorizations
  <2>3. CallMoves(c, r)
    BY <1>1, <1>10, <2>1 DEF ReadAuthorizations
  <2>4. QED
    BY <1>3, <2>2, <2>3 DEF EntitledSteps
<1>11. QED
  BY <1>4, <1>5, <1>6, <1>7, <1>8, <1>9, <1>10

(* A request inserted.                                                     *)
LEMMA RequestKeeps ==
  ASSUME DeskInv, NEW c \in Calls, InsertRequest(c)
  PROVE  DeskInv'
<1>1. PICK r, v : r = Ended(call[c]) /\ v = Owner[c]
  OBVIOUS
<1>2. /\ requests' = [requests EXCEPT ![v] = Append(@, "PENDING_REVIEW")]
      /\ call' = [call EXCEPT ![c] = r]
      /\ UNCHANGED <<census, links, authz, permits, drawn, clerk, received, enrolled, edited, edits>>
  BY <1>1 DEF InsertRequest
<1>3. r \in CallRecords /\ CallSound(c, r) /\ v \in Voters
  BY <1>1, CallKnown, EndedSound
<1>4. requests' \in [Voters -> Seq(RequestStatuses)]
  <2>1. requests \in [Voters -> Seq(RequestStatuses)] /\ requests[v] \in Seq(RequestStatuses)
    BY <1>3 DEF DeskInv, DeskTyped
  <2>2. "PENDING_REVIEW" \in RequestStatuses
    BY DEF RequestStatuses
  <2>3. Append(requests[v], "PENDING_REVIEW") \in Seq(RequestStatuses)
    <3>1. PICK one : one = "PENDING_REVIEW"
      OBVIOUS
    <3>2. one \in RequestStatuses
      BY <2>2, <3>1
    <3> HIDE DEF RequestStatuses
    <3>3. Append(requests[v], one) \in Seq(RequestStatuses)
      BY <2>1, <3>2
    <3>4. QED
      BY <3>1, <3>3
  <2>4. QED
    BY <1>2, <2>1, <2>3
<1>5. DeskTyped'
  BY <1>2, <1>4 DEF DeskInv, DeskTyped
<1>6. PermitsSound' /\ CallSound(c, r)' /\ received' \in [Voters -> SUBSET Secrets]
  BY <1>2, <1>3 DEF DeskInv, DeskActorsTyped, PermitsSound, CallSound
<1>7. QED
  BY <1>2, <1>3, <1>5, <1>6, LinksStay, CallKeeps

(* The link chosen, for a voter let in.                                    *)
LEMMA ChooseKeeps ==
  ASSUME DeskInv, NEW c \in Calls, ChooseLink(c)
  PROVE  DeskInv'
<1>1. PICK q, v : q = call[c] /\ v = Owner[c]
  OBVIOUS
<1>2. q \in CallRecords /\ CallSound(c, q) /\ v \in Voters /\ links[v] \in Seq(LinkRows)
  BY <1>1, CallKnown
<1>3. PICK link : /\ \/ link = ActiveOf(links[v], q.wallet) \/ link = FirstActive(links[v])
                  /\ CallMoves(c, IF Entitled(q) /\ link # NoLink
                                  THEN [q EXCEPT !.at = "ENSURE", !.chosen = link]
                                  ELSE Ended(q))
  <2> DEFINE own == ActiveOf(links[v], q.wallet)
             taken == IF own = NoLink THEN FirstActive(links[v]) ELSE own
  <2>1. CallMoves(c, IF Entitled(q) /\ taken # NoLink
                     THEN [q EXCEPT !.at = "ENSURE", !.chosen = taken]
                     ELSE Ended(q))
    BY <1>1, Zenon DEF ChooseLink, LinksOf
  <2>2. taken = own \/ taken = FirstActive(links[v])
    OBVIOUS
  <2> HIDE DEF taken
  <2>3. QED
    BY <2>1, <2>2
<1>4. link \in LinkRows /\ (link # NoLink => link \in RowsIn(links[v]))
  BY <1>2, <1>3, FirstActiveRow
<1>5. CASE Entitled(q) /\ link # NoLink
  <2>1. PICK r : r = [q EXCEPT !.at = "ENSURE", !.chosen = link]
    OBVIOUS
  <2>2. r \in CallRecords /\ r.at = "ENSURE" /\ r.chosen = link /\ r.wallet = q.wallet
    BY <1>2, <1>4, <2>1 DEF CallRecords, CallSteps
  <2>3. q.wallet # NoWallet
    BY <1>5 DEF Entitled
  <2>4. CallSound(c, r)
    BY <1>1, <1>2, <1>4, <1>5, <2>2, <2>3 DEF CallSound
  <2>5. QED
    BY <1>3, <1>5, <2>1, <2>2, <2>4, ReadsKeep
<1>6. CASE ~(Entitled(q) /\ link # NoLink)
  <2>1. PICK r : r = Ended(q)
    OBVIOUS
  <2>2. r \in CallRecords /\ CallSound(c, r)
    BY <1>2, <2>1, EndedSound
  <2>3. QED
    BY <1>3, <1>6, <2>1, <2>2, ReadsKeep
<1>7. QED
  BY <1>5, <1>6

(* The links listed once more: only a link edited by hand lacks a secret.  *)
LEMMA EnsureKeeps ==
  ASSUME DeskInv, NEW c \in Calls, EnsureLink(c)
  PROVE  DeskInv'
<1>1. PICK q, v, found : q = call[c] /\ v = Owner[c] /\ found = FirstActive(links[v])
  OBVIOUS
<1>2. /\ q \in CallRecords /\ CallSound(c, q) /\ v \in Voters /\ links[v] \in Seq(LinkRows)
      /\ q.at = "ENSURE"
  BY <1>1, CallKnown DEF EnsureLink
<1>3. found \in LinkRows /\ (found # NoLink => found \in RowsIn(links[v]))
  BY <1>1, <1>2, FirstActiveRow
<1>4. PICK r : r = [q EXCEPT !.hardened = found,
                             !.at = IF found = NoLink THEN "INSERT"
                                    ELSE IF found.secret = NoSecret THEN "SEED"
                                    ELSE "PERMIT"]
  OBVIOUS
<1>5. CallMoves(c, r)
  BY <1>1, <1>4 DEF EnsureLink, LinksOf
<1>6. /\ r \in CallRecords /\ r.hardened = found /\ r.chosen = q.chosen /\ r.wallet = q.wallet
      /\ r.at \in {"INSERT", "SEED", "PERMIT"}
      /\ r.at # "INSERT" => found # NoLink
      /\ r.at = "SEED" => found.secret = NoSecret
  BY <1>2, <1>3, <1>4 DEF CallRecords, CallSteps
<1>7. authz[v] # NoWallet /\ (v \notin edited => q.chosen \in RowsIn(links[v]))
  BY <1>1, <1>2 DEF CallSound, EntitledSteps
<1>8. r.at = "SEED" => HasWallet(links[v], found.wallet) /\ v \in edited
  BY <1>2, <1>3, <1>6 DEF DeskInv, LinksSound, HasWallet
<1>9. CallSound(c, r)
  BY <1>1, <1>3, <1>6, <1>7, <1>8 DEF CallSound
<1>10. QED
  BY <1>5, <1>6, <1>9, ReadsKeep

(* Without any link, and after one was created.                            *)
LEMMA RelistKeeps ==
  ASSUME DeskInv, NEW c \in Calls, RelistLinks(c)
  PROVE  DeskInv'
<1>1. PICK q, v, found : q = call[c] /\ v = Owner[c] /\ found = FirstActive(links[v])
  OBVIOUS
<1>2. /\ q \in CallRecords /\ CallSound(c, q) /\ v \in Voters /\ links[v] \in Seq(LinkRows)
      /\ q.at = "RELIST"
  BY <1>1, CallKnown DEF RelistLinks
<1>3. found \in LinkRows /\ (found # NoLink => found \in RowsIn(links[v]))
  BY <1>1, <1>2, FirstActiveRow
<1>4. PICK r : r = IF found = NoLink THEN Ended(q)
                   ELSE [q EXCEPT !.at = "PERMIT", !.hardened = found]
  OBVIOUS
<1>5. CallMoves(c, r)
  BY <1>1, <1>4 DEF RelistLinks, LinksOf
<1>6. CASE found = NoLink
  BY <1>2, <1>4, <1>5, <1>6, EndedSound, ReadsKeep
<1>7. CASE found # NoLink
  <2>1. /\ r \in CallRecords /\ r.hardened = found /\ r.chosen = q.chosen
        /\ r.wallet = q.wallet /\ r.at = "PERMIT"
    BY <1>2, <1>3, <1>4, <1>7 DEF CallRecords, CallSteps
  <2>2. authz[v] # NoWallet /\ (v \notin edited => q.chosen \in RowsIn(links[v]))
    BY <1>1, <1>2 DEF CallSound, EntitledSteps
  <2>3. CallSound(c, r)
    BY <1>1, <1>3, <1>7, <2>1, <2>2 DEF CallSound
  <2>4. QED
    BY <1>5, <2>1, <2>3, ReadsKeep
<1>8. QED
  BY <1>6, <1>7

(* A link without a secret given one: its voter's links were edited.       *)
LEMMA SeedKeeps ==
  ASSUME DeskInv, NEW c \in Calls, SeedLink(c)
  PROVE  DeskInv'
<1>1. PICK q, v, w : q = call[c] /\ v = Owner[c] /\ w = call[c].hardened.wallet
  OBVIOUS
<1>2. /\ q \in CallRecords /\ CallSound(c, q) /\ v \in Voters /\ links[v] \in Seq(LinkRows)
      /\ q.at = "SEED" /\ drawn < MaxSecrets /\ drawn' = drawn + 1
  BY <1>1, CallKnown DEF SeedLink
<1>3. drawn \in Nat /\ MaxSecrets \in Nat
  BY DeskAssumption DEF DeskInv, DeskTyped
<1>4. drawn + 1 \in 0 .. MaxSecrets /\ drawn' \in 0 .. MaxSecrets /\ drawn <= drawn'
      /\ 1 .. drawn \subseteq 1 .. drawn'
  BY <1>2, <1>3
<1>5. /\ HasWallet(links[v], w) /\ v \in edited /\ authz[v] # NoWallet
  BY <1>1, <1>2 DEF CallSound, EntitledSteps
<1>6. PICK old \in LinkRows : /\ old.wallet = w
                              /\ old \in RowsIn(links[v])
                              /\ Seeded(links[v], w, drawn + 1) =
                                   Upserted(links[v], [old EXCEPT !.secret = drawn + 1])
  <2>1. PlaceOf(links[v], w) # {}
    BY <1>5 DEF HasWallet, RowsIn, PlaceOf
  <2>2. PICK i \in PlaceOf(links[v], w) : i = CHOOSE j \in PlaceOf(links[v], w) : TRUE
    BY <2>1
  <2>3. i \in DOMAIN links[v] /\ links[v][i].wallet = w /\ links[v][i] \in LinkRows
    BY <1>2 DEF PlaceOf
  <2>4. QED
    BY <2>2, <2>3 DEF Seeded, RowsIn
<1>7. PICK row : row = [old EXCEPT !.secret = drawn + 1]
  OBVIOUS
<1>8. row \in LinkRows /\ row.wallet = w /\ w \in 1 .. drawn
  <2>1. w \in 1 .. drawn
    BY <1>2, <1>6 DEF DeskInv, LinksSound
  <2>2. QED
    BY <1>4, <1>6, <1>7, <2>1 DEF LinkRows
<1>9. /\ links' = [links EXCEPT ![v] = Upserted(@, row)]
      /\ UNCHANGED <<census, authz, requests, permits, clerk, received, enrolled, edited, edits>>
  <2>1. links' = [links EXCEPT ![v] = Seeded(links[v], w, drawn + 1)]
    BY <1>1 DEF SeedLink
  <2>2. QED
    BY <1>6, <1>7, <2>1 DEF SeedLink
<1>10. links' \in [Voters -> Seq(LinkRows)] /\ LinksSound' /\ Grown
  <2>1. row.wallet \in 1 .. drawn' /\ v \in edited' /\ edited \subseteq edited' /\ authz' = authz
    BY <1>4, <1>5, <1>8, <1>9
  <2>2. QED
    BY <1>2, <1>4, <1>8, <1>9, <2>1, LinkWritten
<1>11. PICK r : r = [q EXCEPT !.at = "PERMIT", !.hardened.secret = drawn + 1]
  OBVIOUS
<1>12. call' = [call EXCEPT ![c] = r]
  BY <1>1, <1>11 DEF SeedLink
<1>13. r \in CallRecords /\ r.at = "PERMIT" /\ r.wallet = q.wallet
  <2>1. [q.hardened EXCEPT !.secret = drawn + 1] \in LinkRows
    BY <1>2, <1>4 DEF CallRecords, LinkRows
  <2>2. QED
    BY <1>2, <1>11, <2>1 DEF CallRecords, CallSteps
<1>14. CallSound(c, r)'
  BY <1>1, <1>5, <1>9, <1>13 DEF CallSound
<1>15. DeskTyped' /\ received' \in [Voters -> SUBSET Secrets]
  BY <1>4, <1>9, <1>10 DEF DeskInv, DeskTyped, DeskActorsTyped
<1>16. PermitsSound'
  BY <1>9, <1>10, PermitsStaySound DEF DeskInv
<1>17. QED
  BY <1>9, <1>10, <1>12, <1>13, <1>14, <1>15, <1>16, CallKeeps

(* A call creating a managed wallet.                                       *)
LEMMA InsertKeeps ==
  ASSUME DeskInv, NEW c \in Calls, InsertLink(c)
  PROVE  DeskInv'
<1>1. PICK q, v : q = call[c] /\ v = Owner[c]
  OBVIOUS
<1>2. q \in CallRecords /\ CallSound(c, q) /\ v \in Voters /\ q.at = "INSERT"
  BY <1>1, CallKnown DEF InsertLink
<1>3. PICK r : r = [q EXCEPT !.at = "RELIST"]
  OBVIOUS
<1>4. /\ r \in CallRecords /\ r.at = "RELIST" /\ r.wallet = q.wallet /\ r.chosen = q.chosen
  BY <1>2, <1>3 DEF CallRecords, CallSteps
<1>5. /\ drawn < MaxSecrets /\ drawn' = drawn + 1
      /\ links' = [links EXCEPT ![v] = Upserted(@, ManagedRow(drawn + 1))]
      /\ call' = [call EXCEPT ![c] = r]
      /\ UNCHANGED <<census, authz, requests, permits, clerk, received, enrolled, edited, edits>>
  BY <1>1, <1>3 DEF InsertLink
<1>6. links' \in [Voters -> Seq(LinkRows)] /\ LinksSound' /\ Grown /\ drawn' \in 0 .. MaxSecrets
  BY <1>2, <1>5, ManagedWritten
<1>7. CallSound(c, r)
  BY <1>1, <1>2, <1>4 DEF CallSound, EntitledSteps
<1>8. CallSound(c, r)'
  BY <1>6, <1>7, CallStaysSound
<1>9. DeskTyped' /\ received' \in [Voters -> SUBSET Secrets]
  BY <1>5, <1>6 DEF DeskInv, DeskTyped, DeskActorsTyped
<1>10. PermitsSound'
  BY <1>5, <1>6, PermitsStaySound DEF DeskInv
<1>11. QED
  BY <1>4, <1>5, <1>6, <1>8, <1>9, <1>10, CallKeeps

(* The permit issued: its secret is one of the links of its voter.         *)
LEMMA IssuePermitKeeps ==
  ASSUME DeskInv, NEW c \in Calls, NEW heard \in BOOLEAN, IssuePermit(c, heard)
  PROVE  DeskInv'
<1>1. PICK q, v, secret, r : /\ q = call[c] /\ v = Owner[c] /\ secret = PermitLink(q).secret
                             /\ r = Ended(q)
  OBVIOUS
<1>2. /\ q \in CallRecords /\ CallSound(c, q) /\ v \in Voters
      /\ q.at = "PERMIT" /\ secret # NoSecret /\ r \in CallRecords /\ CallSound(c, r)
  BY <1>1, CallKnown, EndedSound DEF IssuePermit
<1>3. /\ permits' = permits \cup {secret}
      /\ received' = IF heard THEN [received EXCEPT ![v] = @ \cup {secret}] ELSE received
      /\ call' = [call EXCEPT ![c] = r]
      /\ UNCHANGED <<census, links, authz, requests, drawn, clerk, enrolled, edited, edits>>
  BY <1>1 DEF IssuePermit
<1>4. secret \in Secrets
  <2>1. q.hardened \in LinkRows /\ q.chosen \in LinkRows /\ MaxSecrets \in Nat
    BY <1>2, DeskAssumption DEF CallRecords
  <2>2. secret \in 0 .. MaxSecrets
    BY <1>1, <2>1 DEF PermitLink, LinkRows
  <2>3. QED
    BY <1>2, <2>1, <2>2 DEF Secrets, NoSecret
<1>5. /\ authz[v] # NoWallet
      /\ v \notin edited => PermitLink(q) \in RowsIn(links[v])
  BY <1>1, <1>2 DEF CallSound, EntitledSteps, PermitLink
<1>6. received \in [Voters -> SUBSET Secrets] /\ permits \in SUBSET Secrets
  BY DEF DeskInv, DeskTyped, DeskActorsTyped
<1>7. /\ received' \in [Voters -> SUBSET Secrets]
      /\ \A u \in Voters : received[u] \subseteq received'[u]
      /\ \A u \in Voters : \A x \in received'[u] : x \in received[u] \/ (u = v /\ x = secret)
  BY <1>2, <1>3, <1>4, <1>6
<1>8. PermitsSound'
  <2> SUFFICES ASSUME NEW u \in Voters
               PROVE  /\ received'[u] \subseteq permits'
                      /\ enrolled[u] \subseteq received'[u]
                      /\ received'[u] # {} => authz[u] # NoWallet
                      /\ u \notin edited => \A x \in received'[u] :
                           \E row \in RowsIn(links[u]) : row.secret = x
    BY <1>3 DEF PermitsSound
  <2>1. received'[u] \subseteq permits'
    BY <1>3, <1>7 DEF DeskInv, PermitsSound
  <2>2. enrolled[u] \subseteq received'[u]
    BY <1>7 DEF DeskInv, PermitsSound
  <2>3. received'[u] # {} => authz[u] # NoWallet
    BY <1>5, <1>7 DEF DeskInv, PermitsSound
  <2>4. u \notin edited => \A x \in received'[u] : \E row \in RowsIn(links[u]) : row.secret = x
    BY <1>1, <1>5, <1>7 DEF DeskInv, PermitsSound
  <2>5. QED
    BY <2>1, <2>2, <2>3, <2>4
<1>9. DeskTyped' /\ CallSound(c, r)'
  BY <1>2, <1>3, <1>4, <1>6 DEF DeskInv, DeskTyped, CallSound
<1>10. QED
  BY <1>2, <1>3, <1>7, <1>8, <1>9, LinksStay, CallKeeps

(* No secret, no permit.                                                   *)
LEMMA RefuseKeeps ==
  ASSUME DeskInv, NEW c \in Calls, RefusePermit(c)
  PROVE  DeskInv'
<1>1. PICK r : r = Ended(call[c])
  OBVIOUS
<1>2. r \in CallRecords /\ CallSound(c, r)
  BY <1>1, CallKnown, EndedSound
<1>3. QED
  BY <1>1, <1>2, ReadsKeep DEF RefusePermit

(* The signup mined uses up a permit that was received.                    *)
LEMMA MinedKeeps ==
  ASSUME DeskInv, NEW v \in Voters, NEW secret \in Secrets, SignupMined(v, secret)
  PROVE  DeskInv'
<1>1. /\ secret \in received[v] /\ enrolled' = [enrolled EXCEPT ![v] = @ \cup {secret}]
      /\ UNCHANGED <<census, links, authz, requests, permits, drawn, clerk, call, received, edited, edits>>
  BY DEF SignupMined, tables
<1>2. /\ enrolled' \in [Voters -> SUBSET Secrets]
      /\ \A u \in Voters : enrolled'[u] = IF u = v THEN enrolled[v] \cup {secret} ELSE enrolled[u]
  BY <1>1 DEF DeskInv, DeskActorsTyped
<1>3. PermitsSound'
  BY <1>1, <1>2 DEF DeskInv, PermitsSound
<1>4. DeskTyped' /\ DeskActorsTyped' /\ LinksSound' /\ ClerkSound'
  BY <1>1, <1>2 DEF DeskInv, DeskTyped, DeskActorsTyped, LinksSound, ClerkSound
<1>5. CallsSound'
  BY <1>1 DEF DeskInv, CallsSound, CallSound
<1>6. QED
  BY <1>3, <1>4, <1>5 DEF DeskInv

(* The desk as it begins.                                                  *)
LEMMA DeskBegins == DeskInit => DeskInv
<1> SUFFICES ASSUME DeskInit PROVE DeskInv
  OBVIOUS
<1>1. 0 \in 0 .. MaxSecrets /\ 0 \in 0 .. MaxEdits
  BY DeskAssumption
<1>2. \A v \in Voters : RowsIn(links[v]) = {} /\ links[v] = << >>
  BY DEF DeskInit, RowsIn
<1>3. DeskTyped
  <2>1. census \in [Voters -> [status : CensusStatuses, code : BOOLEAN]]
    <3>1. {NoRecord, [status |-> "HABILITADO", code |-> TRUE]} \subseteq
            [status : CensusStatuses, code : BOOLEAN]
      BY DEF NoRecord, CensusStatuses
    <3>2. QED
      BY <3>1 DEF DeskInit
  <2>2. links \in [Voters -> Seq(LinkRows)] /\ requests \in [Voters -> Seq(RequestStatuses)]
    BY DEF DeskInit
  <2>3. authz \in [Voters -> 0 .. MaxSecrets]
    BY <1>1 DEF DeskInit, NoWallet
  <2>4. QED
    BY <1>1, <2>1, <2>2, <2>3 DEF DeskInit, DeskTyped
<1>4. IdleCall \in CallRecords /\ IdleCall.at = "IDLE" /\ IdleCall.wallet = NoWallet
  BY NoLinkTyped DEF IdleCall, CallRecords, CallSteps
<1>5. call \in [Calls -> CallRecords] /\ \A c \in Calls : call[c] = IdleCall
  BY <1>4 DEF DeskInit
<1>6. clerk \in [Clerks -> ClerkRecords] /\ \A k \in Clerks : clerk[k] = IdleClerk
  <2>1. IdleClerk \in ClerkRecords
    BY IdleClerkTyped, DeskAssumption
  <2>2. QED
    BY <2>1 DEF DeskInit
<1>7. IdleClerk.at = "IDLE"
  BY DEF IdleClerk
<1>8. DeskActorsTyped
  BY <1>5, <1>6 DEF DeskInit, DeskActorsTyped, CallRecords, ClerkRecords
<1>9. LinksSound /\ ClerkSound /\ PermitsSound
  BY <1>2, <1>6, <1>7 DEF DeskInit, LinksSound, ClerkSound, PermitsSound
<1>10. CallsSound
  BY <1>4, <1>5 DEF CallsSound, CallSound, EntitledSteps
<1>11. QED
  BY <1>3, <1>8, <1>9, <1>10 DEF DeskInv

(* The identity tables, the clerks and the calls hold together.            *)
THEOREM DeskInvariant == DeskSpec => []DeskInv
<1>1. ASSUME DeskInv, [DeskNext]_deskVars
      PROVE  DeskInv'
  <2>1. CASE ClerkStep
    <3>1. \A s : s \in CensusStatuses \ {"NONE"} => s \in CensusStatuses
      OBVIOUS
    <3>2. \A d : d \in RequestStatuses \ {"PENDING_REVIEW"} => d \in RequestStatuses
      OBVIOUS
    <3>3. QED
      BY <1>1, <2>1, <3>1, <3>2, SaveRecordKeeps, RevokesKeeps, BeginsKeeps, ListsKeeps,
         ClerkInsertsKeeps, AuthorizesKeeps, EditKeeps, ReviewKeeps DEF ClerkStep
  <2>2. CASE CallStep
    BY <1>1, <2>2, EarlyReadsKeep, RequestKeeps, ChooseKeeps, EnsureKeeps, SeedKeeps,
       InsertKeeps, RelistKeeps, IssuePermitKeeps, RefuseKeeps DEF CallStep
  <2>3. CASE \E v \in Voters, secret \in Secrets : SignupMined(v, secret)
    BY <1>1, <2>3, MinedKeeps
  <2>4. CASE UNCHANGED deskVars
    <3>1. UNCHANGED <<census, links, authz, requests, permits, drawn, clerk, call, received,
                      enrolled, edited, edits>>
      BY <2>4 DEF deskVars, tables
    <3>2. QED
      BY <1>1, <3>1 DEF DeskInv, DeskTyped, DeskActorsTyped, LinksSound, ClerkSound,
         CallsSound, CallSound, PermitsSound
  <2>5. QED
    BY <1>1, <2>1, <2>2, <2>3, <2>4 DEF DeskNext
<1>2. QED
  BY <1>1, DeskBegins, PTL DEF DeskSpec

(* The tables of the desk, its clerks and its calls are what they should be *)
(* (authority-console db.ts, evidence-api index.ts).                       *)
THEOREM DeskIsTyped == DeskSpec => []DeskTypeOK
<1>1. DeskInv => DeskTypeOK
  BY DEF DeskInv, DeskTyped, DeskActorsTyped, DeskTypeOK
<1>2. QED
  BY <1>1, DeskInvariant, PTL

(* A voter without links edited by hand or provisioned twice is enrolled at *)
(* most once (prepare-signup, evidence-api index.ts).                      *)
THEOREM VotersEnrolOnce == DeskSpec => []OneEnrolmentPerVoter
<1>1. DeskInv => OneEnrolmentPerVoter
  <2> SUFFICES ASSUME DeskInv, NEW v \in Voters, v \notin edited, Len(links[v]) <= 1
               PROVE  Cardinality(enrolled[v]) <= 1
    BY DEF OneEnrolmentPerVoter
  <2>1. \A x \in enrolled[v] : \E row \in RowsIn(links[v]) : row.secret = x
    BY DEF DeskInv, PermitsSound
  <2>2. \A a \in RowsIn(links[v]), b \in RowsIn(links[v]) : a = b
    <3>1. links[v] \in Seq(LinkRows)
      BY DEF DeskInv, DeskTyped
    <3>2. \A i, j \in DOMAIN links[v] : i = j
      BY <3>1
    <3>3. QED
      BY <3>2 DEF RowsIn
  <2>3. \A a, b \in enrolled[v] : a = b
    BY <2>1, <2>2
  <2>4. enrolled[v] = {} \/ \E x : enrolled[v] = {x}
    BY <2>3
  <2>5. Cardinality(enrolled[v]) \in {0, 1}
    BY <2>4, FS_EmptySet, FS_Singleton
  <2>6. QED
    BY <2>5
<1>2. QED
  BY <1>1, DeskInvariant, PTL

(* Whoever is enrolled was authorised, with a permit on record.            *)
THEOREM EnrolledWereAuthorized == DeskSpec => []EnrolmentsAuthorized
<1>1. DeskInv => EnrolmentsAuthorized
  BY DEF DeskInv, PermitsSound, EnrolmentsAuthorized
<1>2. QED
  BY <1>1, DeskInvariant, PTL

-----------------------------------------------------------------------------
(* The public roll, and the attempts of the audit CLI.                     *)

RollVerdicts == {"UNVERIFIED", "INVALID", "VALID"}
AttemptCodes == {"SIGNUP_DUP_NULLIFIER", "SIGNUP_INVALID_PERMIT", "SIGNUP_TX_REVERTED"}

(* The records of the pages and of the incidents, and the bounds.          *)
RollRecords ==
  /\ view \in [status : {"CLOSED", "SHOWN", "DETAIL", "UNAVAILABLE"}, cursor : Nat,
               rows : SUBSET Nat, verdicts : SUBSET [row : Nat, verdict : RollVerdicts],
               next : Nat]
  /\ walk \in [seen : SUBSET Nat, kept : Nat]
  /\ incidents \subseteq [run : Runs, code : AttemptCodes]
  /\ rollUsed \in [Bounds -> Nat]

(* The permit the API signed stays the one on record, whoever inserts what.*)
GrantsStand == \A n \in granted : permitRows[n] = "AUTHORITY"

(* A signup shown as VALID has such a permit, then and ever since.         *)
VerdictsStand ==
  \A v \in view.verdicts : v.verdict = "VALID" => permitRows[roll[v.row].nullifier] = "AUTHORITY"

(* The walk has seen what was stored all the time from position i on.      *)
SeenFrom(i) == \A j \in 1 .. walk.kept : j >= i => j \in walk.seen

(* Every cursor the observer holds is one the walk has come down to.       *)
WalkCovers ==
  /\ walk.kept <= indexed
  /\ view.cursor # 0 => SeenFrom(view.cursor)
  /\ view.status = "CLOSED" => walk.kept = 0
  /\ view.status = "SHOWN" => SeenFrom(view.next)
  /\ view.next # 0 => view.status = "SHOWN"

EnrolledOnce(r) == \E i \in 1 .. Len(roll) : SignupsBy(r) = {i}

(* How far a rea-signup has come tells how many signups it has on the roll.*)
RunStands(r, run) ==
  /\ ~run.unexpected
  /\ run.at # "IDLE" => run.permit \in Permit
  /\ run.usedBefore => OnRoll(run.permit.nullifier)
  /\ run.attempt = 1 /\ run.at \in {"IDLE", "SEND", "MINING"} =>
       SignupsBy(r) = {} /\ ~run.lost
  /\ run.attempt = 1 /\ run.at \in {"FAILED", "EXITED"} =>
       /\ SignupsBy(r) = {} \/ run.lost
       /\ run.tamper => SignupsBy(r) = {}
  /\ run.at \in {"ACCEPTED", "EXITED", "IDLE"} => run.attempt = 1
  /\ run.attempt = 2 \/ run.at = "ACCEPTED" => OnRoll(run.permit.nullifier)
  /\ run.attempt = 2 \/ run.at \in {"ACCEPTED", "DONE"} => EnrolledOnce(r)

(* What was recorded of an attempt that is over.                           *)
IncidentStands(i) ==
  LET run == runs[i.run]
  IN  /\ run.at \in {"EXITED", "DONE"}
      /\ i.code = "SIGNUP_DUP_NULLIFIER" => OnRoll(run.permit.nullifier)
      /\ i.code = "SIGNUP_INVALID_PERMIT" => SignupsBy(i.run) = {}
      /\ i.code = "SIGNUP_TX_REVERTED" => SignupsBy(i.run) = {} \/ run.lost

AttemptsStand ==
  /\ \A r \in Runs : RunStands(r, runs[r])
  /\ \A i \in incidents : IncidentStands(i)

RollInv ==
  /\ RollTypeOK /\ RollRecords
  /\ GrantsStand /\ VerdictsStand /\ WalkCovers /\ AttemptsStand

(* Newest(n, positions) of finitely many positions.                        *)
LEMMA NewestFirst ==
  ASSUME NEW m \in Nat, NEW P \in SUBSET (1 .. m), NEW n \in Nat
  PROVE  /\ Newest(n, P) \subseteq P
         /\ IsFiniteSet(Newest(n, P))
         /\ \A i \in Newest(n, P), j \in P : j > i => j \in Newest(n, P)
         /\ Cardinality(Newest(n, P)) <= n
         /\ Cardinality(Newest(n, P)) < n => Newest(n, P) = P
<1> DEFINE After(i) == {j \in P : j > i}
           N == Newest(n, P)
<1>1. IsFiniteSet(P) /\ P \subseteq Nat
  <2>1. IsFiniteSet(1 .. m)
    BY FS_Interval
  <2>2. IsFiniteSet(P)
    BY <2>1, FS_Subset
  <2>3. QED
    BY <2>2
<1>2. \A i \in P : IsFiniteSet(After(i)) /\ Cardinality(After(i)) \in Nat
  BY <1>1, FS_Subset, FS_CardinalityType
<1>3. N = {i \in P : Cardinality(After(i)) < n}
  BY DEF Newest
<1>4. IsFiniteSet(N) /\ N \subseteq P
  BY <1>1, <1>3, FS_Subset
<1>5. \A i \in N, j \in P : j > i => j \in N
  <2> SUFFICES ASSUME NEW i \in N, NEW j \in P, j > i
               PROVE  j \in N
    OBVIOUS
  <2>0. i \in P /\ i \in Nat /\ j \in Nat
    BY <1>1, <1>4
  <2>1. After(j) \subseteq After(i)
    <3>1. \A k \in Nat : k > j => k > i
      BY <2>0
    <3>2. QED
      BY <1>1, <3>1
  <2>2. Cardinality(After(j)) <= Cardinality(After(i))
    BY <1>2, <2>0, <2>1, FS_Subset
  <2> HIDE DEF After
  <2>3. Cardinality(After(j)) < n
    BY <1>2, <1>3, <2>0, <2>2
  <2>4. QED
    BY <1>3, <2>3
<1>6. Cardinality(N) <= n
  <2>1. CASE N = {}
    BY <2>1, FS_EmptySet
  <2>2. CASE N # {}
    <3>1. N \in SUBSET Nat
      BY <1>1, <1>4
    <3> HIDE DEF N
    <3>2. PICK i \in N : \A j \in N : i <= j
      BY <2>2, <3>1, LeastNumber
    <3>3. N \subseteq After(i) \cup {i}
      BY <1>4, <3>1, <3>2
    <3>4. i \in P /\ Cardinality(After(i)) < n /\ i \notin After(i)
      BY <1>3, <1>4, <3>1
    <3> HIDE DEF After
    <3>5. /\ IsFiniteSet(After(i) \cup {i})
          /\ Cardinality(After(i) \cup {i}) = Cardinality(After(i)) + 1
      BY <1>2, <3>4, FS_AddElement
    <3>6. Cardinality(N) <= Cardinality(After(i) \cup {i})
      BY <3>3, <3>5, FS_Subset
    <3>7. Cardinality(N) \in Nat
      BY <1>4, FS_CardinalityType
    <3>8. QED
      BY <1>2, <3>4, <3>5, <3>6, <3>7
  <2>3. QED
    BY <2>1, <2>2
<1>7. ASSUME N # P
      PROVE  Cardinality(N) >= n
  <2> DEFINE Q == {d \in Nat : m - d \in P /\ m - d \notin N}
  <2>1. PICK p \in P : p \notin N
    BY <1>4, <1>7
  <2>2. m - p \in Q
    BY <2>1
  <2>3. Q \in SUBSET Nat /\ Q # {}
    BY <2>2
  <2> HIDE DEF Q, N
  <2>4. PICK d \in Q : \A e \in Q : d <= e
    BY <2>3, LeastNumber
  <2>5. m - d \in P /\ m - d \notin N /\ d \in Nat
    BY <2>4 DEF Q
  <2>6. After(m - d) \subseteq N
    <3> SUFFICES ASSUME NEW j \in P, j > m - d, j \notin N
                 PROVE  FALSE
      OBVIOUS
    <3>1. m - j \in Q
      BY DEF Q
    <3>2. QED
      BY <2>4, <2>5, <3>1
  <2>7. ~(Cardinality(After(m - d)) < n)
    BY <1>3, <2>5
  <2>8. Cardinality(After(m - d)) <= Cardinality(N) /\ Cardinality(N) \in Nat
    BY <1>4, <2>6, FS_Subset, FS_CardinalityType
  <2>9. Cardinality(After(m - d)) \in Nat
    BY <1>2, <2>5
  <2> HIDE DEF After
  <2>10. QED
    BY <2>7, <2>8, <2>9
<1>8. Cardinality(N) \in Nat
  BY <1>4, FS_CardinalityType
<1> HIDE DEF N, After
<1>9. Cardinality(N) < n => N = P
  BY <1>7, <1>8
<1>10. QED
  BY <1>4, <1>5, <1>6, <1>9 DEF N

-----------------------------------------------------------------------------
(* One page of the roll: the newest LIMIT rows below the cursor, and a next *)
(* cursor if and only if there are more.                                   *)
LEMMA PageShown ==
  ASSUME LIMIT \in Nat \ {0}, indexed \in Nat, NEW below \in Nat
  PROVE  LET onePage == PageAt(below)
         IN  /\ onePage.status = "SHOWN" /\ onePage.cursor = below
             /\ onePage.verdicts = SignupVerdicts(onePage.rows)
             /\ onePage \in [status : {"SHOWN"}, cursor : Nat, rows : SUBSET (1 .. indexed),
                          verdicts : {SignupVerdicts(onePage.rows)}, next : Nat]
             /\ Cardinality(onePage.rows) <= LIMIT
             /\ onePage.next \in onePage.rows \cup {0}
             /\ \A i \in Below(below) : i >= onePage.next => i \in onePage.rows
<1> DEFINE P == Below(below)
           fetched == Newest(LIMIT + 1, P)
           kept == Newest(LIMIT, fetched)
           next == IF Cardinality(fetched) > LIMIT THEN Oldest(kept) ELSE 0
           onePage == PageAt(below)
<1>1. P \in SUBSET (1 .. indexed)
  BY DEF Below
<1>2. onePage = [status |-> "SHOWN", cursor |-> below, rows |-> kept,
              verdicts |-> SignupVerdicts(kept), next |-> next]
  BY DEF PageAt
<1> HIDE DEF P, onePage
<1>3. /\ fetched \subseteq P
      /\ \A i \in fetched, j \in P : j > i => j \in fetched
      /\ Cardinality(fetched) <= LIMIT + 1
      /\ Cardinality(fetched) < LIMIT + 1 => fetched = P
      /\ Cardinality(fetched) \in Nat
  <2>1. LIMIT + 1 \in Nat
    OBVIOUS
  <2>2. IsFiniteSet(fetched)
    BY <1>1, <2>1, NewestFirst
  <2>3. QED
    BY <1>1, <2>1, <2>2, NewestFirst, FS_CardinalityType
<1>4. fetched \in SUBSET (1 .. indexed)
  BY <1>1, <1>3
<1> HIDE DEF fetched
<1>5. /\ kept \subseteq fetched
      /\ \A i \in kept, j \in fetched : j > i => j \in kept
      /\ Cardinality(kept) <= LIMIT
      /\ Cardinality(kept) < LIMIT => kept = fetched
      /\ Cardinality(kept) \in Nat
  <2>1. LIMIT \in Nat
    OBVIOUS
  <2>2. IsFiniteSet(kept)
    BY <1>4, <2>1, NewestFirst
  <2>3. QED
    BY <1>4, <2>1, <2>2, NewestFirst, FS_CardinalityType
<1> HIDE DEF kept
<1>6. kept \in SUBSET (1 .. indexed) /\ kept \in SUBSET Nat
  BY <1>4, <1>5
<1>7. Cardinality(fetched) > LIMIT =>
        Oldest(kept) \in kept /\ \A j \in kept : Oldest(kept) <= j
  <2> SUFFICES ASSUME Cardinality(fetched) > LIMIT
               PROVE  Oldest(kept) \in kept /\ \A j \in kept : Oldest(kept) <= j
    OBVIOUS
  <2>1. kept # {}
    <3> SUFFICES ASSUME kept = {} PROVE FALSE
      OBVIOUS
    <3>1. Cardinality(kept) = 0
      BY FS_EmptySet
    <3>2. Cardinality(fetched) = 0
      BY <1>5, <3>1
    <3>3. QED
      BY <3>2
  <2>2. \E i \in kept : \A j \in kept : i <= j
    BY <1>6, <2>1, LeastNumber
  <2>3. QED
    BY <2>2 DEF Oldest
<1>8. next \in kept \cup {0} /\ next \in Nat
  BY <1>6, <1>7
<1>9. ASSUME NEW i \in P, i >= next
      PROVE  i \in kept
  <2>1. CASE Cardinality(fetched) > LIMIT
    <3>1. next = Oldest(kept) /\ next \in kept
      BY <1>7, <2>1
    <3>2. i \in Nat /\ next \in Nat /\ (i = next \/ i > next)
      BY <1>1, <1>8, <1>9
    <3> HIDE DEF next
    <3>3. i \in fetched
      BY <1>3, <1>5, <3>1, <3>2
    <3>4. QED
      BY <1>5, <3>1, <3>2, <3>3
  <2>2. CASE Cardinality(fetched) <= LIMIT
    <3>1. fetched = P
      BY <1>3, <2>2
    <3>2. Cardinality(kept) < LIMIT \/ Cardinality(kept) = LIMIT
      BY <1>5
    <3>3. kept = fetched
      <4>1. CASE Cardinality(kept) < LIMIT
        BY <1>5, <4>1
      <4>2. CASE Cardinality(kept) = LIMIT
        <5>1. IsFiniteSet(fetched) /\ Cardinality(kept) <= Cardinality(fetched)
          <6>1. IsFiniteSet(1 .. indexed)
            BY FS_Interval
          <6>2. IsFiniteSet(fetched)
            BY <1>4, <6>1, FS_Subset
          <6>3. QED
            BY <1>5, <6>2, FS_Subset
        <5>2. Cardinality(kept) = Cardinality(fetched)
          BY <1>3, <2>2, <4>2, <5>1
        <5>3. QED
          BY <1>5, <5>1, <5>2, FS_Subset
      <4>3. QED
        BY <3>2, <4>1, <4>2
    <3>4. QED
      BY <3>1, <3>3
  <2>3. QED
    BY <1>3, <2>1, <2>2
<1> HIDE DEF next
<1>10. QED
  BY <1>2, <1>5, <1>6, <1>8, <1>9 DEF P, onePage

(* The roll of the chain, one signup longer.                               *)
LEMMA RollAppended ==
  ASSUME roll \in Seq(Signup), NEW n \in Nullifiers, NEW key \in Keys,
         NEW by \in Runs \cup {"DIRECT"}, Enrolled(n, key, by)
  PROVE  /\ roll' \in Seq(Signup) /\ Len(roll') = Len(roll) + 1
         /\ \A i \in 1 .. Len(roll) : roll'[i] = roll[i]
         /\ \A r : SignupsBy(r)' = IF r = by THEN SignupsBy(r) \cup {Len(roll) + 1}
                                   ELSE SignupsBy(r)
         /\ \A m : OnRoll(m)' <=> OnRoll(m) \/ m = n
<1> DEFINE s == [nullifier |-> n, key |-> key, by |-> by]
           len == Len(roll)
<1>1. s \in Signup /\ roll' = Append(roll, s) /\ s.by = by /\ s.nullifier = n
  BY DEF Enrolled, Signup
<1> HIDE DEF s
<1>2. /\ roll' \in Seq(Signup) /\ Len(roll') = len + 1 /\ len \in Nat
      /\ \A i \in 1 .. len : roll'[i] = roll[i]
      /\ roll'[len + 1] = s
  BY <1>1
<1>3. DOMAIN roll = 1 .. len /\ DOMAIN roll' = 1 .. len + 1
  BY <1>2
<1>4. \A i : i \in 1 .. len + 1 <=> i \in 1 .. len \/ i = len + 1
  BY <1>2
<1>5. \A r : SignupsBy(r)' = IF r = by THEN SignupsBy(r) \cup {len + 1} ELSE SignupsBy(r)
  BY <1>1, <1>2, <1>4 DEF SignupsBy
<1>6. \A m : OnRoll(m)' <=> OnRoll(m) \/ m = n
  <2>1. \A m : OnRoll(m) <=> \E i \in 1 .. len : roll[i].nullifier = m
    BY <1>3 DEF OnRoll, Range
  <2>2. \A m : OnRoll(m)' <=> \E i \in 1 .. len + 1 : roll'[i].nullifier = m
    BY <1>3 DEF OnRoll, Range
  <2>3. QED
    BY <1>1, <1>2, <1>4, <2>1, <2>2
<1>7. QED
  BY <1>2, <1>5, <1>6 DEF s

(* A step of the tables and the observers leaves the attempts as they are, *)
(* but for incidents it may delete.                                        *)
LEMMA AttemptsFrame ==
  ASSUME AttemptsStand, UNCHANGED <<roll, runs>>, incidents' \subseteq incidents
  PROVE  AttemptsStand'
BY DEF AttemptsStand, RunStands, IncidentStands, SignupsBy, OnRoll, EnrolledOnce

(* So it does the pages, if it adds to the copy at most.                   *)
LEMMA PagesFrame ==
  ASSUME RollInv, UNCHANGED <<view, walk>>, indexed' \in Nat, indexed <= indexed'
  PROVE  WalkCovers'
<1>1. walk.kept \in Nat /\ indexed \in Nat
  BY DEF RollInv, RollTypeOK, RollRecords
<1>2. walk.kept <= indexed' /\ walk.kept <= indexed
  BY <1>1 DEF RollInv, WalkCovers
<1>3. QED
  BY <1>2 DEF RollInv, WalkCovers, SeenFrom

(* A signup shown has a nullifier of the election.                         *)
LEMMA ShownAreSignups ==
  ASSUME RollInv, NEW v \in view.verdicts
  PROVE  v.row \in 1 .. Len(roll) /\ roll[v.row].nullifier \in Nullifiers
<1>1. v.row \in 1 .. Len(roll)
  BY DEF RollInv, RollTypeOK
<1>2. roll[v.row] \in Signup
  BY <1>1 DEF RollInv, RollTypeOK
<1>3. QED
  BY <1>1, <1>2 DEF Signup

(* A signup on the chain leaves every verdict shown as true as it was.     *)
LEMMA SignupKeeps ==
  ASSUME RollInv, NEW n \in Nullifiers, NEW key \in Keys, NEW by \in Runs \cup {"DIRECT"},
         Enrolled(n, key, by),
         UNCHANGED <<tableVars, observerVars>>
  PROVE  /\ roll' \in Seq(Signup) /\ indexed' \in 0 .. Len(roll')
         /\ view'.rows \subseteq 1 .. Len(roll')
         /\ walk'.seen \subseteq 1 .. Len(roll') /\ walk'.kept \in 0 .. Len(roll')
         /\ GrantsStand' /\ VerdictsStand' /\ WalkCovers'
<1>1. /\ roll' \in Seq(Signup) /\ Len(roll') = Len(roll) + 1 /\ Len(roll) \in Nat
      /\ \A i \in 1 .. Len(roll) : roll'[i] = roll[i]
  BY RollAppended DEF RollInv, RollTypeOK
<1>2. indexed \in 0 .. Len(roll) /\ walk.kept \in 0 .. Len(roll)
      /\ view.rows \subseteq 1 .. Len(roll) /\ walk.seen \subseteq 1 .. Len(roll)
  BY DEF RollInv, RollTypeOK
<1>3. 0 .. Len(roll) \subseteq 0 .. Len(roll') /\ 1 .. Len(roll) \subseteq 1 .. Len(roll')
      /\ \A i \in 1 .. Len(roll') : i \in 1 .. Len(roll) \/ i = Len(roll) + 1
  BY <1>1
<1>4. view' = view /\ walk' = walk /\ indexed' = indexed /\ granted' = granted
      /\ permitRows' = permitRows
  BY DEF tableVars, observerVars
<1>5. GrantsStand'
  BY <1>4 DEF RollInv, GrantsStand
<1>6. VerdictsStand'
  <2>1. \A v \in view.verdicts : v.row \in 1 .. Len(roll)
    BY ShownAreSignups
  <2>2. QED
    BY <1>1, <1>4, <2>1 DEF RollInv, VerdictsStand
<1>7. WalkCovers'
  <2>1. indexed' \in Nat /\ indexed <= indexed'
    BY <1>2, <1>4
  <2>2. QED
    BY <1>4, <2>1, PagesFrame
<1>8. QED
  BY <1>1, <1>2, <1>3, <1>4, <1>5, <1>6, <1>7

(* The registry closing.                                                   *)
LEMMA CloseKeeps ==
  ASSUME RollInv, CloseRegistry
  PROVE  RollInv'
<1>1. registering' = FALSE
      /\ UNCHANGED <<roll, indexed, permitRows, granted, files, runs, incidents, view, walk, rollUsed>>
  BY DEF CloseRegistry, tableVars, cliVars, observerVars
<1>2. RollTypeOK' /\ RollRecords'
  BY <1>1 DEF RollInv, RollTypeOK, RollRecords
<1>3. GrantsStand' /\ VerdictsStand'
  BY <1>1 DEF RollInv, GrantsStand, VerdictsStand
<1>4. WalkCovers'
  <2>1. indexed' \in Nat /\ indexed <= indexed'
    BY <1>1 DEF RollInv, RollTypeOK
  <2>2. QED
    BY <1>1, <2>1, PagesFrame
<1>5. AttemptsStand'
  BY <1>1, AttemptsFrame DEF RollInv
<1>6. QED
  BY <1>2, <1>3, <1>4, <1>5 DEF RollInv

(* A permit signed by the API: its row replaces whatever was there.        *)
LEMMA GrantKeeps ==
  ASSUME RollInv, NEW n \in Nullifiers, GrantPermit(n)
  PROVE  RollInv'
<1>1. /\ permitRows' = [permitRows EXCEPT ![n] = "AUTHORITY"]
      /\ granted' = granted \cup {n}
      /\ UNCHANGED <<registering, roll, indexed, files, runs, incidents, view, walk, rollUsed>>
  BY DEF GrantPermit, chainVars, cliVars, observerVars
<1>2. permitRows' \in [Nullifiers -> Signers \cup {"NONE"}]
      /\ \A m \in Nullifiers : permitRows'[m] = IF m = n THEN "AUTHORITY" ELSE permitRows[m]
  BY <1>1 DEF RollInv, RollTypeOK, Signers
<1>3. granted' \subseteq Nullifiers
  BY <1>1 DEF RollInv, RollTypeOK
<1>4. RollTypeOK' /\ RollRecords'
  BY <1>1, <1>2, <1>3 DEF RollInv, RollTypeOK, RollRecords
<1>5. GrantsStand' /\ VerdictsStand'
  <2>1. granted \subseteq Nullifiers
    BY DEF RollInv, RollTypeOK
  <2>2. QED
    BY <1>1, <1>2, <2>1, ShownAreSignups DEF RollInv, GrantsStand, VerdictsStand
<1>6. WalkCovers'
  <2>1. indexed' \in Nat /\ indexed <= indexed'
    BY <1>1 DEF RollInv, RollTypeOK
  <2>2. QED
    BY <1>1, <2>1, PagesFrame
<1>7. AttemptsStand'
  BY <1>1, AttemptsFrame DEF RollInv
<1>8. QED
  BY <1>4, <1>5, <1>6, <1>7 DEF RollInv

(* A signup sent with a permit that covers its key.                        *)
LEMMA DirectKeeps ==
  ASSUME RollInv, NEW p \in Covering, SignupDirect(p)
  PROVE  RollInv'
<1>0. PICK n, key : n = p.nullifier /\ key = p.key
  OBVIOUS
<1>1. /\ n \in Nullifiers /\ key \in Keys /\ Enrolled(n, key, "DIRECT")
      /\ UNCHANGED <<registering, tableVars, cliVars, observerVars, rollUsed>>
  BY <1>0, RollAssumption DEF SignupDirect
<1>2. UNCHANGED <<indexed, permitRows, granted, files, runs, incidents, view, walk>>
  BY <1>1 DEF tableVars, cliVars, observerVars
<1>3. /\ roll' \in Seq(Signup) /\ indexed' \in 0 .. Len(roll')
      /\ view'.rows \subseteq 1 .. Len(roll')
      /\ walk'.seen \subseteq 1 .. Len(roll') /\ walk'.kept \in 0 .. Len(roll')
      /\ GrantsStand' /\ VerdictsStand' /\ WalkCovers'
  BY <1>1, SignupKeeps
<1>4. RollTypeOK' /\ RollRecords'
  BY <1>1, <1>2, <1>3 DEF RollInv, RollTypeOK, RollRecords
<1>5. AttemptsStand'
  <2>1. /\ \A r : r # "DIRECT" => SignupsBy(r)' = SignupsBy(r)
        /\ \A m : OnRoll(m) => OnRoll(m)'
        /\ Len(roll) \in Nat /\ Len(roll') = Len(roll) + 1
    <3>1. roll \in Seq(Signup) /\ "DIRECT" \in Runs \cup {"DIRECT"}
      BY DEF RollInv, RollTypeOK
    <3>2. /\ Len(roll') = Len(roll) + 1
          /\ \A r : SignupsBy(r)' = IF r = "DIRECT" THEN SignupsBy(r) \cup {Len(roll) + 1}
                                    ELSE SignupsBy(r)
          /\ \A m : OnRoll(m)' <=> OnRoll(m) \/ m = n
      BY <1>1, <3>1, RollAppended
    <3>3. QED
      BY <3>1, <3>2
  <2>2. \A r \in Runs : SignupsBy(r)' = SignupsBy(r)
    BY <2>1, RollAssumption
  <2>3. \A r \in Runs : EnrolledOnce(r) => EnrolledOnce(r)'
    BY <2>1, <2>2 DEF EnrolledOnce
  <2>4. \A r \in Runs : RunStands(r, runs[r])'
    BY <1>2, <2>1, <2>2, <2>3 DEF RollInv, AttemptsStand, RunStands
  <2>5. \A i \in incidents : i.run \in Runs
    BY DEF RollInv, RollTypeOK
  <2>6. \A i \in incidents : IncidentStands(i)'
    BY <1>2, <2>1, <2>2, <2>5 DEF RollInv, AttemptsStand, IncidentStands
  <2>7. QED
    BY <1>2, <2>4, <2>6 DEF AttemptsStand
<1>6. QED
  BY <1>3, <1>4, <1>5 DEF RollInv

(* The CLI's permit: it never replaces a row.                              *)
LEMMA IssueKeeps ==
  ASSUME RollInv, NEW p \in ReaPermit, ReaIssuePermit(p)
  PROVE  RollInv'
<1>1. /\ permitRows' \in {permitRows, InsertIfNone(p)}
      /\ files' = files \cup {p}
      /\ rollUsed["PERMIT"] < MaxPermits
      /\ rollUsed' = [rollUsed EXCEPT !["PERMIT"] = @ + 1]
      /\ UNCHANGED <<registering, roll, indexed, granted, runs, incidents, view, walk>>
  BY DEF ReaIssuePermit, Spend, chainVars, cliVars, observerVars
<1>2. p.nullifier \in Nullifiers /\ p.issuer \in Signers
  BY DEF ReaPermit
<1>3. permitRows' \in [Nullifiers -> Signers \cup {"NONE"}]
      /\ \A m \in Nullifiers : permitRows[m] = "AUTHORITY" => permitRows'[m] = "AUTHORITY"
  BY <1>1, <1>2 DEF RollInv, RollTypeOK, InsertIfNone
<1>4. files' \subseteq ReaPermit
  BY <1>1 DEF RollInv, RollTypeOK
<1>5. rollUsed' \in [Bounds -> Nat]
  BY <1>1 DEF RollInv, RollRecords, Bounds
<1>6. RollTypeOK' /\ RollRecords'
  BY <1>1, <1>3, <1>4, <1>5 DEF RollInv, RollTypeOK, RollRecords
<1>7. GrantsStand' /\ VerdictsStand'
  <2>1. granted \subseteq Nullifiers
    BY DEF RollInv, RollTypeOK
  <2>2. QED
    BY <1>1, <1>3, <2>1, ShownAreSignups DEF RollInv, GrantsStand, VerdictsStand
<1>8. WalkCovers'
  <2>1. indexed' \in Nat /\ indexed <= indexed'
    BY <1>1 DEF RollInv, RollTypeOK
  <2>2. QED
    BY <1>1, <2>1, PagesFrame
<1>9. AttemptsStand'
  BY <1>1, AttemptsFrame DEF RollInv
<1>10. QED
  BY <1>6, <1>7, <1>8, <1>9 DEF RollInv

(* A step of the attempts that enrols nobody leaves the tables and pages.  *)
LEMMA RunFrame ==
  ASSUME RollInv, AttemptsStand', runs' \in [Runs -> RunType],
         incidents' \subseteq [run : Runs, code : AttemptCodes], rollUsed' \in [Bounds -> Nat],
         UNCHANGED <<registering, roll, indexed, permitRows, granted, files, view, walk>>
  PROVE  RollInv'
<1>1. RollTypeOK' /\ RollRecords'
  BY DEF RollInv, RollTypeOK, RollRecords, AttemptCodes
<1>2. GrantsStand' /\ VerdictsStand'
  BY DEF RollInv, GrantsStand, VerdictsStand
<1>3. WalkCovers'
  <2>1. indexed' \in Nat /\ indexed <= indexed'
    BY DEF RollInv, RollTypeOK
  <2>2. QED
    BY <2>1, PagesFrame
<1>4. QED
  BY <1>1, <1>2, <1>3 DEF RollInv

(* A step of one rea-signup that is not over and records nothing; the roll  *)
(* may have grown by a signup of its own.                                  *)
LEMMA RunMoves ==
  ASSUME RollInv, NEW r \in Runs, NEW run \in RunType,
         runs' = [runs EXCEPT ![r] = run], incidents' = incidents,
         runs[r].at \notin {"EXITED", "DONE"},
         \A q \in Runs \ {r} : SignupsBy(q)' = SignupsBy(q),
         \A m : OnRoll(m) => OnRoll(m)',
         1 .. Len(roll) \subseteq 1 .. Len(roll'),
         RunStands(r, run)'
  PROVE  AttemptsStand' /\ runs' \in [Runs -> RunType]
<1>1. runs' \in [Runs -> RunType]
      /\ \A q \in Runs : runs'[q] = IF q = r THEN run ELSE runs[q]
  BY DEF RollInv, RollTypeOK
<1>2. \A q \in Runs \ {r} : EnrolledOnce(q) => EnrolledOnce(q)'
  BY DEF EnrolledOnce
<1>3. ASSUME NEW q \in Runs
      PROVE  RunStands(q, runs[q])'
  <2>1. CASE q = r
    BY <1>1, <2>1
  <2>2. CASE q # r
    <3>1. RunStands(q, runs[q]) /\ runs'[q] = runs[q]
      BY <1>1, <2>2 DEF RollInv, AttemptsStand
    <3>2. QED
      BY <1>2, <2>2, <3>1 DEF RunStands
  <2>3. QED
    BY <2>1, <2>2
<1>4. ASSUME NEW i \in incidents
      PROVE  IncidentStands(i)'
  <2>1. IncidentStands(i) /\ i.run \in Runs
    BY DEF RollInv, AttemptsStand, RollTypeOK
  <2>2. i.run # r
    BY <2>1 DEF IncidentStands
  <2>3. runs'[i.run] = runs[i.run]
    BY <1>1, <2>1, <2>2
  <2>4. QED
    BY <2>1, <2>2, <2>3 DEF IncidentStands
<1>5. QED
  BY <1>1, <1>3, <1>4 DEF AttemptsStand

(* rea-signup starting: it reads the use of the nullifier once.            *)
LEMMA SignupStartKeeps ==
  ASSUME RollInv, NEW r \in Runs, NEW p \in files \cup Covering,
         NEW key \in Keys \cup {"NONE"}, NEW tamper \in BOOLEAN,
         NEW force \in BOOLEAN, NEW twice \in BOOLEAN,
         ReaSignup(r, p, key, tamper, force, twice)
  PROVE  RollInv'
<1>0. PICK run : run = [runs[r] EXCEPT !.at = "SEND", !.permit = p, !.key = key,
                     !.tamper = tamper, !.force = force, !.twice = twice,
                     !.usedBefore = OnRoll(p.nullifier)]
  OBVIOUS
<1>1. /\ runs[r].at = "IDLE" /\ runs' = [runs EXCEPT ![r] = run]
      /\ UNCHANGED <<registering, roll, indexed, permitRows, granted, files, incidents, view, walk, rollUsed>>
  BY <1>0 DEF ReaSignup, chainVars, tableVars, observerVars
<1>2. runs[r] \in RunType /\ p \in Permit /\ OnRoll(p.nullifier) \in BOOLEAN
      /\ RunStands(r, runs[r])
  <2>1. p \in ReaPermit \/ p \in Covering
    BY DEF RollInv, RollTypeOK
  <2>2. p \in Permit
    BY <2>1, RollAssumption DEF ReaPermit, Permit, Signers
  <2>3. QED
    BY <2>2 DEF RollInv, RollTypeOK, OnRoll, AttemptsStand
<1>3. run \in RunType
  BY ZenonT(40), <1>0, <1>2 DEF RunType
<1>4. /\ run.at = "SEND" /\ run.permit = p /\ run.usedBefore = OnRoll(p.nullifier)
      /\ run.attempt = runs[r].attempt /\ run.lost = runs[r].lost
      /\ run.unexpected = runs[r].unexpected
  BY <1>0, <1>2 DEF RunType
<1>5. RunStands(r, run)
  BY <1>1, <1>2, <1>4 DEF RunStands
<1>6. /\ RunStands(r, run)' /\ 1 .. Len(roll) \subseteq 1 .. Len(roll')
      /\ \A q \in Runs : SignupsBy(q)' = SignupsBy(q)
      /\ \A m : OnRoll(m) => OnRoll(m)'
  BY <1>1, <1>5 DEF RunStands, SignupsBy, OnRoll, EnrolledOnce
<1>7. AttemptsStand' /\ runs' \in [Runs -> RunType]
  BY <1>1, <1>3, <1>6, RunMoves
<1>8. QED
  BY <1>1, <1>7, RunFrame DEF RollInv, RollRecords

(* One lost answer more.                                                   *)
LEMMA SpendType ==
  ASSUME RollInv, NEW b \in Bounds, NEW limit \in Nat, Spend(b, limit)
  PROVE  rollUsed' \in [Bounds -> Nat]
<1>1. rollUsed \in [Bounds -> Nat] /\ rollUsed' = [rollUsed EXCEPT ![b] = @ + 1]
  BY DEF RollInv, RollRecords, Spend
<1>2. QED
  BY <1>1

(* An attempt sent, refused by the estimate, or lost on the way.           *)
LEMMA SendKeeps ==
  ASSUME RollInv, NEW r \in Runs, SendAttempt(r)
  PROVE  RollInv'
<1>1. PICK at \in {"FAILED", "MINING"} : runs' = [runs EXCEPT ![r] = [runs[r] EXCEPT !.at = at]]
  BY DEF SendAttempt, Moves
<1>2. PICK run : run = [runs[r] EXCEPT !.at = at]
  OBVIOUS
<1>3. /\ runs[r].at = "SEND" /\ runs' = [runs EXCEPT ![r] = run]
      /\ UNCHANGED <<registering, roll, indexed, permitRows, granted, files, incidents, view, walk>>
  BY <1>1, <1>2 DEF SendAttempt, chainVars, tableVars, observerVars
<1>4. rollUsed' \in [Bounds -> Nat]
  <2>1. rollUsed' = rollUsed \/ Spend("LOST", MaxLost)
    BY DEF SendAttempt
  <2>2. "LOST" \in Bounds /\ MaxLost \in Nat /\ rollUsed \in [Bounds -> Nat]
    BY RollAssumption DEF Bounds, RollInv, RollRecords
  <2>3. QED
    BY <2>1, <2>2, SpendType
<1>5. runs[r] \in RunType /\ RunStands(r, runs[r])
  BY DEF RollInv, RollTypeOK, AttemptsStand
<1>6. run \in RunType
  BY <1>2, <1>5 DEF RunType
<1>7. /\ run.at = at /\ run.permit = runs[r].permit /\ run.usedBefore = runs[r].usedBefore
      /\ run.attempt = runs[r].attempt /\ run.lost = runs[r].lost
      /\ run.unexpected = runs[r].unexpected /\ run.tamper = runs[r].tamper
  BY <1>2, <1>5 DEF RunType
<1>8. RunStands(r, run)
  BY <1>3, <1>5, <1>7 DEF RunStands
<1>9. /\ RunStands(r, run)' /\ 1 .. Len(roll) \subseteq 1 .. Len(roll')
      /\ \A q \in Runs : SignupsBy(q)' = SignupsBy(q)
      /\ \A m : OnRoll(m) => OnRoll(m)'
  BY <1>3, <1>8 DEF RunStands, SignupsBy, OnRoll, EnrolledOnce
<1>10. AttemptsStand' /\ runs' \in [Runs -> RunType]
  BY <1>3, <1>6, <1>9, RunMoves
<1>11. QED
  BY <1>3, <1>4, <1>10, RunFrame DEF RollInv, RollRecords

(* An accepted attempt going on to the second one, or ending.              *)
LEMMA AcceptedKeeps ==
  ASSUME RollInv, NEW r \in Runs, AttemptAccepted(r)
  PROVE  RollInv'
<1>1. PICK run : run = IF runs[r].attempt = 1 /\ runs[r].twice
                       THEN [runs[r] EXCEPT !.at = "SEND", !.attempt = 2]
                       ELSE [runs[r] EXCEPT !.at = "DONE", !.unexpected = (runs[r].attempt = 2)]
  OBVIOUS
<1>2. /\ runs[r].at = "ACCEPTED" /\ runs' = [runs EXCEPT ![r] = run] /\ rollUsed' = rollUsed
      /\ UNCHANGED <<registering, roll, indexed, permitRows, granted, files, incidents, view, walk>>
  BY <1>1 DEF AttemptAccepted, Moves, chainVars, tableVars, observerVars
<1>3. runs[r] \in RunType /\ RunStands(r, runs[r]) /\ runs[r].attempt = 1
  BY <1>2 DEF RollInv, RollTypeOK, AttemptsStand, RunStands
<1>4. run \in RunType
  BY <1>1, <1>3 DEF RunType
<1>5. /\ run.permit = runs[r].permit /\ run.usedBefore = runs[r].usedBefore
      /\ run.lost = runs[r].lost /\ run.unexpected = FALSE /\ run.tamper = runs[r].tamper
      /\ \/ run.at = "SEND" /\ run.attempt = 2
         \/ run.at = "DONE" /\ run.attempt = 1
  BY <1>1, <1>3 DEF RunType, RunStands
<1>6. RunStands(r, run)
  BY <1>2, <1>3, <1>5 DEF RunStands
<1>7. /\ RunStands(r, run)' /\ 1 .. Len(roll) \subseteq 1 .. Len(roll')
      /\ \A q \in Runs : SignupsBy(q)' = SignupsBy(q)
      /\ \A m : OnRoll(m) => OnRoll(m)'
  BY <1>2, <1>6 DEF RunStands, SignupsBy, OnRoll, EnrolledOnce
<1>8. AttemptsStand' /\ runs' \in [Runs -> RunType]
  BY <1>2, <1>4, <1>7, RunMoves
<1>9. QED
  BY <1>2, <1>8, RunFrame DEF RollInv, RollRecords

(* A failed attempt, recorded or not, whatever it is recorded as.          *)
LEMMA RecordKeeps ==
  ASSUME RollInv, NEW r \in Runs, RecordIncident(r)
  PROVE  RollInv'
<1>1. PICK run : run = [runs[r] EXCEPT !.at = IF runs[r].attempt = 1 THEN "EXITED" ELSE "DONE"]
  OBVIOUS
<1>2. PICK row : row = [run |-> r, code |-> CodeOf(runs[r])]
  OBVIOUS
<1>3. /\ runs[r].at = "FAILED" /\ runs' = [runs EXCEPT ![r] = run] /\ rollUsed' = rollUsed
      /\ incidents' \in {incidents, incidents \cup {row}}
      /\ UNCHANGED <<registering, roll, indexed, permitRows, granted, files, view, walk>>
  BY <1>1, <1>2 DEF RecordIncident, UpsertIncidentLog, Moves, chainVars, tableVars, observerVars
<1>4. runs[r] \in RunType /\ RunStands(r, runs[r])
  BY DEF RollInv, RollTypeOK, AttemptsStand
<1>5. run \in RunType
  BY <1>1, <1>4 DEF RunType
<1>6. /\ run.permit = runs[r].permit /\ run.usedBefore = runs[r].usedBefore
      /\ run.attempt = runs[r].attempt
      /\ run.lost = runs[r].lost /\ run.unexpected = runs[r].unexpected
      /\ run.tamper = runs[r].tamper
      /\ run.at = IF run.attempt = 1 THEN "EXITED" ELSE "DONE"
      /\ run.attempt \in {1, 2}
  BY <1>1, <1>4 DEF RunType
<1>7. RunStands(r, run)
  BY <1>3, <1>4, <1>6 DEF RunStands
<1>8. /\ row.run = r /\ row.code \in AttemptCodes /\ row \in [run : Runs, code : AttemptCodes]
      /\ row.code = "SIGNUP_DUP_NULLIFIER" => run.attempt = 2 \/ run.usedBefore
      /\ row.code = "SIGNUP_INVALID_PERMIT" => run.attempt = 1 /\ run.tamper
      /\ row.code = "SIGNUP_TX_REVERTED" => run.attempt = 1
  <2>1. run.attempt \in {1, 2} /\ runs[r].tamper \in BOOLEAN /\ runs[r].usedBefore \in BOOLEAN
    BY <1>4, <1>6 DEF RunType
  <2>2. row.run = r /\ row.code = CodeOf(runs[r])
    BY <1>2
  <2>3. CASE runs[r].attempt = 2
    BY <1>2, <1>6, <2>2, <2>3 DEF CodeOf, AttemptCodes
  <2>4. CASE runs[r].attempt = 1
    BY <1>2, <1>6, <2>1, <2>2, <2>4 DEF CodeOf, AttemptCodes
  <2>5. QED
    BY <1>6, <2>1, <2>3, <2>4
<1>9. /\ runs' \in [Runs -> RunType]
      /\ \A q \in Runs : runs'[q] = IF q = r THEN run ELSE runs[q]
  BY <1>3, <1>5 DEF RollInv, RollTypeOK
<1>10. \A q \in Runs : RunStands(q, runs[q])'
  BY <1>3, <1>7, <1>9 DEF RollInv, AttemptsStand, RunStands, SignupsBy, OnRoll, EnrolledOnce
<1>11. \A m : OnRoll(m)' <=> OnRoll(m)
  BY <1>3 DEF OnRoll
<1>12. \A q : SignupsBy(q)' = SignupsBy(q)
  BY <1>3 DEF SignupsBy
<1>13. ASSUME NEW i \in incidents
       PROVE  IncidentStands(i)'
  <2>1. IncidentStands(i) /\ i.run \in Runs /\ i.run # r
    BY <1>3 DEF RollInv, AttemptsStand, RollTypeOK, IncidentStands
  <2>2. runs'[i.run] = runs[i.run]
    BY <1>9, <2>1
  <2>3. QED
    BY <1>11, <1>12, <2>1, <2>2 DEF IncidentStands
<1>14. IncidentStands(row)'
  <2>1. runs'[row.run] = run
    BY <1>8, <1>9
  <2>2. RunStands(r, run)
    BY <1>7
  <2>3. QED
    BY <1>6, <1>8, <1>11, <1>12, <2>1, <2>2 DEF IncidentStands, RunStands
<1>15. AttemptsStand'
  BY <1>3, <1>10, <1>13, <1>14 DEF AttemptsStand
<1>16. incidents' \subseteq [run : Runs, code : AttemptCodes]
  BY <1>3, <1>8 DEF RollInv, RollRecords
<1>17. QED
  BY <1>3, <1>9, <1>15, <1>16, RunFrame DEF RollInv, RollRecords

(* An attempt mined: only a first one, of an honest signature, enrols.     *)
LEMMA MineKeeps ==
  ASSUME RollInv, NEW r \in Runs, MineAttempt(r)
  PROVE  RollInv'
<1> DEFINE n == runs[r].permit.nullifier
           key == runs[r].key
           accepted == Accepts(runs[r].permit, SignerOf(runs[r]), key)
<1>1. PICK run : /\ runs' = [runs EXCEPT ![r] = run]
                 /\ \/ run = [runs[r] EXCEPT !.at = IF accepted THEN "ACCEPTED" ELSE "FAILED"]
                    \/ run = [runs[r] EXCEPT !.at = "FAILED", !.lost = TRUE]
  BY DEF MineAttempt, Moves
<1>2. /\ runs[r].at = "MINING"
      /\ IF accepted THEN Enrolled(n, key, r) ELSE UNCHANGED roll
      /\ UNCHANGED <<registering, tableVars, incidents, observerVars>>
  BY DEF MineAttempt
<1>3. UNCHANGED <<indexed, permitRows, granted, files, view, walk>>
  BY <1>2 DEF tableVars, observerVars
<1>4. rollUsed' \in [Bounds -> Nat]
  <2>1. rollUsed' = rollUsed \/ Spend("LOST", MaxLost)
    BY DEF MineAttempt
  <2>2. "LOST" \in Bounds /\ MaxLost \in Nat /\ rollUsed \in [Bounds -> Nat]
    BY RollAssumption DEF Bounds, RollInv, RollRecords
  <2>3. QED
    BY <2>1, <2>2, SpendType
<1>5. runs[r] \in RunType /\ RunStands(r, runs[r]) /\ runs[r].permit \in Permit
      /\ n \in Nullifiers
  BY <1>2 DEF RollInv, RollTypeOK, AttemptsStand, RunStands, Permit
<1>6. run \in RunType
  BY <1>1, <1>5 DEF RunType
<1>7. /\ run.permit = runs[r].permit /\ run.usedBefore = runs[r].usedBefore
      /\ run.attempt = runs[r].attempt
      /\ run.unexpected = runs[r].unexpected /\ run.tamper = runs[r].tamper
      /\ \/ run.at = "FAILED" /\ run.lost
         \/ accepted /\ run.at = "ACCEPTED"
         \/ ~accepted /\ run.at = "FAILED"
  BY <1>1, <1>5 DEF RunType
<1>8. accepted => runs[r].attempt = 1 /\ ~runs[r].tamper /\ ~OnRoll(n) /\ key \in Keys
  <2>1. runs[r].attempt \in {1, 2} /\ runs[r].tamper \in BOOLEAN
    BY <1>5 DEF RunType
  <2>2. QED
    BY <1>5, <2>1 DEF Accepts, SignerOf, RunStands
<1>9. CASE ~accepted
  <2>1. /\ roll' = roll
        /\ UNCHANGED <<registering, indexed, permitRows, granted, files, incidents, view, walk>>
    BY <1>2, <1>3, <1>9
  <2>2. RunStands(r, run)
    BY <1>2, <1>5, <1>7, <1>9 DEF RunStands
  <2>3. /\ RunStands(r, run)' /\ 1 .. Len(roll) \subseteq 1 .. Len(roll')
        /\ \A q \in Runs : SignupsBy(q)' = SignupsBy(q)
        /\ \A m : OnRoll(m) => OnRoll(m)'
    BY <2>1, <2>2 DEF RunStands, SignupsBy, OnRoll, EnrolledOnce
  <2>4. runs[r].at \notin {"EXITED", "DONE"} /\ runs' = [runs EXCEPT ![r] = run]
    BY <1>1, <1>2
  <2> HIDE DEF n, key, accepted
  <2>5. AttemptsStand' /\ runs' \in [Runs -> RunType]
    BY <1>6, <2>1, <2>3, <2>4, RunMoves
  <2>6. QED
    BY <1>4, <2>1, <2>5, RunFrame DEF RollInv, RollRecords
<1>10. CASE accepted
  <2>1. /\ Enrolled(n, key, r) /\ key \in Keys
        /\ roll \in Seq(Signup) /\ r \in Runs \cup {"DIRECT"} /\ r # "DIRECT"
        /\ runs[r].at \notin {"EXITED", "DONE"} /\ runs' = [runs EXCEPT ![r] = run]
    BY <1>1, <1>2, <1>8, <1>10, RollAssumption DEF RollInv, RollTypeOK
  <2> PICK nn, kk : nn = n /\ kk = key
    OBVIOUS
  <2>2. /\ nn \in Nullifiers /\ kk \in Keys /\ Enrolled(nn, kk, r)
        /\ runs[r].permit.nullifier = nn
    BY <1>5, <2>1
  <2> HIDE DEF n, key, accepted
  <2>3. /\ roll' \in Seq(Signup) /\ indexed' \in 0 .. Len(roll')
        /\ view'.rows \subseteq 1 .. Len(roll')
        /\ walk'.seen \subseteq 1 .. Len(roll') /\ walk'.kept \in 0 .. Len(roll')
        /\ GrantsStand' /\ VerdictsStand' /\ WalkCovers'
    BY <1>2, <2>1, <2>2, SignupKeeps
  <2>4. /\ Len(roll') = Len(roll) + 1
        /\ \A q : SignupsBy(q)' = IF q = r THEN SignupsBy(q) \cup {Len(roll) + 1}
                                  ELSE SignupsBy(q)
        /\ \A m : OnRoll(m)' <=> OnRoll(m) \/ m = nn
    BY <2>1, <2>2, RollAppended
  <2>5. Len(roll) \in Nat /\ Len(roll') \in Nat
    BY <2>1, <2>3
  <2>6. 1 .. Len(roll) \subseteq 1 .. Len(roll') /\ Len(roll) + 1 \in 1 .. Len(roll')
    BY <2>4, <2>5
  <2>7. SignupsBy(r) = {} /\ run.attempt = 1 /\ ~run.tamper
    BY <1>2, <1>5, <1>7, <1>8, <1>10 DEF RunStands
  <2>8. SignupsBy(r)' = {Len(roll) + 1} /\ OnRoll(nn)'
    BY <2>4, <2>7
  <2>9. EnrolledOnce(r)'
    BY <2>6, <2>8 DEF EnrolledOnce
  <2>10. RunStands(r, run)'
    BY <1>5, <1>7, <1>10, <2>2, <2>7, <2>8, <2>9 DEF RunStands
  <2>11. AttemptsStand' /\ runs' \in [Runs -> RunType]
    BY <1>2, <1>6, <2>1, <2>4, <2>6, <2>10, RunMoves
  <2>12. RollTypeOK' /\ RollRecords'
    BY <1>2, <1>3, <1>4, <2>3, <2>11 DEF RollInv, RollTypeOK, RollRecords
  <2>13. QED
    BY <2>3, <2>11, <2>12 DEF RollInv
<1>11. QED
  BY <1>9, <1>10

(* The copy growing, or being thrown away: then nothing was stored all the  *)
(* time any more.                                                          *)
LEMMA CopyKeeps ==
  ASSUME RollInv, ResetCopy \/ \E i \in 1 .. Len(roll) : StoreSignups(i)
  PROVE  RollInv'
<1>1. /\ indexed' \in 0 .. Len(roll) /\ rollUsed' \in [Bounds -> Nat]
      /\ UNCHANGED <<registering, roll, permitRows, granted, files, runs, view>>
      /\ incidents' \subseteq incidents
      /\ \/ walk' = walk /\ indexed <= indexed'
         \/ walk' = [walk EXCEPT !.kept = 0]
  <2>1. indexed \in 0 .. Len(roll) /\ Len(roll) \in Nat
    BY DEF RollInv, RollTypeOK
  <2>2. CASE ResetCopy
    <3>1. "RESET" \in Bounds /\ MaxResets \in Nat
      BY RollAssumption DEF Bounds
    <3>2. rollUsed' \in [Bounds -> Nat]
      BY <2>2, <3>1, SpendType DEF ResetCopy
    <3>3. QED
      BY <2>1, <2>2, <3>2 DEF ResetCopy, chainVars, cliVars
  <2>3. CASE \E i \in 1 .. Len(roll) : StoreSignups(i)
    BY <2>1, <2>3 DEF StoreSignups, chainVars, cliVars, observerVars, RollInv, RollRecords
  <2>4. QED
    BY <2>2, <2>3
<1>2. walk' \in [seen : SUBSET Nat, kept : Nat] /\ walk'.seen = walk.seen
      /\ walk'.kept \in {0, walk.kept}
  <2>1. walk \in [seen : SUBSET Nat, kept : Nat]
    BY DEF RollInv, RollRecords
  <2>2. QED
    BY <1>1, <2>1
<1>3. walk'.kept \in 0 .. Len(roll)
  BY <1>2 DEF RollInv, RollTypeOK
<1>4. RollTypeOK' /\ RollRecords'
  BY <1>1, <1>2, <1>3 DEF RollInv, RollTypeOK, RollRecords
<1>5. GrantsStand' /\ VerdictsStand'
  BY <1>1 DEF RollInv, GrantsStand, VerdictsStand
<1>6. WalkCovers'
  <2>1. CASE walk' = walk /\ indexed <= indexed'
    BY <1>1, <2>1, PagesFrame
  <2>2. CASE walk' = [walk EXCEPT !.kept = 0]
    <3>1. walk'.kept = 0 /\ walk'.kept <= indexed'
      BY <1>1, <2>2 DEF RollInv, RollRecords
    <3>2. \A i : SeenFrom(i)'
      BY <3>1 DEF SeenFrom
    <3>3. QED
      BY <1>1, <3>1, <3>2 DEF RollInv, WalkCovers
  <2>3. QED
    BY <1>1, <2>1, <2>2
<1>7. AttemptsStand'
  BY <1>1, AttemptsFrame DEF RollInv
<1>8. QED
  BY <1>4, <1>5, <1>6, <1>7 DEF RollInv

(* The verdict on a row of the copy is VALID for a permit of the authority. *)
LEMMA VerdictsSound ==
  ASSUME RollInv, NEW copied \in SUBSET (1 .. Len(roll))
  PROVE  /\ SignupVerdicts(copied) \subseteq [row : copied, verdict : RollVerdicts]
         /\ \A v \in SignupVerdicts(copied) :
                v.verdict = "VALID" => permitRows[roll[v.row].nullifier] = "AUTHORITY"
<1>1. \A i \in 1 .. Len(roll) : roll[i] \in Signup /\ roll[i].nullifier \in Nullifiers
  <2>1. \A i \in 1 .. Len(roll) : roll[i] \in Signup
    BY DEF RollInv, RollTypeOK
  <2>2. QED
    BY <2>1 DEF Signup
<1>2. \A i \in 1 .. Len(roll) : permitRows[roll[i].nullifier] \in {"NONE", "OTHER", "AUTHORITY"}
  BY <1>1 DEF RollInv, RollTypeOK, Signers
<1>3. \A i \in 1 .. Len(roll) :
        /\ SignupVerdict(i) \in RollVerdicts
        /\ SignupVerdict(i) = "VALID" => permitRows[roll[i].nullifier] = "AUTHORITY"
  BY <1>1, <1>2 DEF SignupVerdict, RollVerdicts
<1>4. QED
  BY <1>3 DEF SignupVerdicts

(* What was stored all the time is below the cursor or has been passed.    *)
LEMMA StoredBelow ==
  ASSUME indexed \in Nat, NEW below \in Nat, NEW kept \in 0 .. indexed
  PROVE  \A j \in 1 .. kept : j \in Nat /\ (j \in Below(below) \/ (below # 0 /\ j >= below))
<1> SUFFICES ASSUME NEW j \in 1 .. kept
             PROVE  j \in Nat /\ (j \in Below(below) \/ (below # 0 /\ j >= below))
  OBVIOUS
<1>1. j \in Nat /\ j \in 1 .. indexed
  OBVIOUS
<1>2. j \in Below(below) <=> below = 0 \/ j < below
  BY <1>1 DEF Below
<1>3. j < below \/ j >= below
  BY <1>1
<1>4. QED
  BY <1>1, <1>2, <1>3

(* A page built now, with the rows it adds to what the walk has seen.      *)
LEMMA PageBuilt ==
  ASSUME RollInv, NEW below \in Nat, NEW seen \in SUBSET (1 .. Len(roll)),
         NEW kept \in 0 .. indexed,
         below # 0 => \A j \in 1 .. kept : j >= below => j \in seen,
         view' = PageAt(below), walk' = [seen |-> seen \cup PageAt(below).rows, kept |-> kept],
         rollUsed' \in [Bounds -> Nat],
         UNCHANGED <<registering, roll, indexed, permitRows, granted, files, runs, incidents>>
  PROVE  RollInv'
<1> DEFINE onePage == PageAt(below)
<1>1. indexed \in 0 .. Len(roll) /\ Len(roll) \in Nat /\ indexed \in Nat
  BY DEF RollInv, RollTypeOK
<1>2. /\ onePage.status = "SHOWN" /\ onePage.cursor = below
      /\ onePage.verdicts = SignupVerdicts(onePage.rows)
      /\ onePage \in [status : {"SHOWN"}, cursor : Nat, rows : SUBSET (1 .. indexed),
                   verdicts : {SignupVerdicts(onePage.rows)}, next : Nat]
      /\ Cardinality(onePage.rows) <= LIMIT
      /\ onePage.next \in onePage.rows \cup {0}
      /\ \A i \in Below(below) : i >= onePage.next => i \in onePage.rows
  BY <1>1, RollAssumption, PageShown
<1> HIDE DEF onePage
<1>3. onePage.rows \in SUBSET (1 .. indexed) /\ onePage.next \in Nat
  BY <1>2
<1>4. 1 .. indexed \subseteq 1 .. Len(roll) /\ 1 .. Len(roll) \subseteq Nat
      /\ kept \in 0 .. Len(roll) /\ kept \in Nat /\ kept <= indexed
  BY <1>1
<1>5. onePage.rows \in SUBSET (1 .. Len(roll))
  BY <1>3, <1>4
<1>6. /\ onePage.verdicts \subseteq [row : onePage.rows, verdict : RollVerdicts]
      /\ \A v \in onePage.verdicts :
             v.verdict = "VALID" => permitRows[roll[v.row].nullifier] = "AUTHORITY"
  BY <1>2, <1>5, VerdictsSound
<1>7. /\ view' = onePage /\ walk'.kept = kept /\ walk'.seen = seen \cup onePage.rows
      /\ walk' \in [seen : SUBSET Nat, kept : Nat] /\ walk'.seen \subseteq 1 .. Len(roll)
  BY <1>4, <1>5 DEF onePage
<1>8. onePage.verdicts \subseteq [row : Nat, verdict : RollVerdicts] /\ onePage.rows \subseteq Nat
  BY <1>4, <1>5, <1>6
<1>9. onePage \in [status : {"CLOSED", "SHOWN", "DETAIL", "UNAVAILABLE"}, cursor : Nat,
                rows : SUBSET Nat, verdicts : SUBSET [row : Nat, verdict : RollVerdicts], next : Nat]
  BY <1>2, <1>8
<1>10. RollRecords'
  BY <1>7, <1>9 DEF RollInv, RollRecords
<1>11. RollTypeOK'
  BY <1>2, <1>4, <1>5, <1>6, <1>7 DEF RollInv, RollTypeOK, RollVerdicts
<1>12. GrantsStand' /\ VerdictsStand'
  BY <1>6, <1>7 DEF RollInv, GrantsStand, VerdictsStand
<1>13. WalkCovers'
  <2>1. \A j \in 1 .. kept : j \in Nat /\ (j \in Below(below) \/ (below # 0 /\ j >= below))
    BY <1>1, StoredBelow
  <2>2. \A j \in 1 .. kept : j >= onePage.next => j \in walk'.seen
    BY <1>2, <1>7, <2>1
  <2>3. below # 0 => \A j \in 1 .. kept : j >= below => j \in walk'.seen
    BY <1>7
  <2>4. /\ walk'.kept <= indexed' /\ view'.status = "SHOWN" /\ view'.next = onePage.next
        /\ view'.cursor = below
    BY <1>2, <1>4, <1>7
  <2>5. walk'.kept = kept
    BY <1>7
  <2>6. QED
    BY <2>2, <2>3, <2>4, <2>5 DEF WalkCovers, SeenFrom
<1>14. AttemptsStand'
  BY AttemptsFrame DEF RollInv
<1>15. QED
  BY <1>10, <1>11, <1>12, <1>13, <1>14 DEF RollInv

(* A page the API did not answer for: no rows, no next view.               *)
LEMMA PageUnavailable ==
  ASSUME RollInv, NEW below \in Nat, below # 0 => SeenFrom(below),
         view' = [status |-> "UNAVAILABLE", cursor |-> below, rows |-> {},
                  verdicts |-> {}, next |-> 0],
         walk' = walk, rollUsed' \in [Bounds -> Nat],
         UNCHANGED <<registering, roll, indexed, permitRows, granted, files, runs, incidents>>
  PROVE  RollInv'
<1>1. Cardinality({}) <= LIMIT
  <2>1. Cardinality({}) = 0
    BY FS_EmptySet
  <2>2. QED
    BY <2>1, RollAssumption
<1>2. RollRecords'
  <2>1. view' \in [status : {"CLOSED", "SHOWN", "DETAIL", "UNAVAILABLE"}, cursor : Nat,
                   rows : SUBSET Nat, verdicts : SUBSET [row : Nat, verdict : RollVerdicts],
                   next : Nat]
    OBVIOUS
  <2>2. QED
    BY <2>1 DEF RollInv, RollRecords
<1>6. /\ view'.status = "UNAVAILABLE" /\ view'.cursor = below /\ view'.rows = {}
      /\ view'.verdicts = {} /\ view'.next = 0
  OBVIOUS
<1>7. RollTypeOK'
  BY <1>1, <1>6 DEF RollInv, RollTypeOK
<1>3. GrantsStand' /\ VerdictsStand'
  BY <1>6 DEF RollInv, GrantsStand, VerdictsStand
<1>4. WalkCovers'
  BY <1>6 DEF RollInv, WalkCovers, SeenFrom
<1>5. AttemptsStand'
  BY AttemptsFrame DEF RollInv
<1>8. QED
  BY <1>2, <1>3, <1>4, <1>5, <1>7 DEF RollInv

(* The pages of the roll, whichever way the observer comes to them.        *)
LEMMA PagesKeep ==
  ASSUME RollInv, OpenFirstPage \/ OpenNextPage \/ ReloadPage
  PROVE  RollInv'
<1>1. UNCHANGED <<registering, roll, indexed, permitRows, granted, files, runs, incidents>>
  BY DEF OpenFirstPage, OpenNextPage, ReloadPage, chainVars, tableVars, cliVars
<1>2. /\ {"LOST", "WALK"} \subseteq Bounds /\ MaxLost \in Nat /\ MaxWalks \in Nat
      /\ rollUsed \in [Bounds -> Nat]
  BY RollAssumption DEF Bounds, RollInv, RollRecords
<1>3. CASE OpenFirstPage
  <2>1. rollUsed' \in [Bounds -> Nat]
    BY <1>2, <1>3, SpendType DEF OpenFirstPage
  <2>2. indexed \in 0 .. indexed /\ 0 \in Nat
    BY DEF RollInv, RollTypeOK
  <2>3. view' = PageAt(0) /\ walk' = [seen |-> {} \cup PageAt(0).rows, kept |-> indexed]
    BY <1>3 DEF OpenFirstPage
  <2>4. {} \in SUBSET (1 .. Len(roll))
    OBVIOUS
  <2>5. PICK kept \in 0 .. indexed : kept = indexed
    BY <2>2
  <2>6. QED
    BY <1>1, <2>1, <2>2, <2>3, <2>4, <2>5, PageBuilt
<1>4. ASSUME NEW below \in Nat, below # 0 => SeenFrom(below), Show(below)
      PROVE  RollInv'
  <2>1. /\ walk \in [seen : SUBSET Nat, kept : Nat] /\ walk.seen \subseteq 1 .. Len(roll)
        /\ walk.kept \in 0 .. indexed
    BY DEF RollInv, RollTypeOK, RollRecords, WalkCovers
  <2>2. CASE /\ view' = PageAt(below) /\ UNCHANGED rollUsed
             /\ walk' = [walk EXCEPT !.seen = @ \cup PageAt(below).rows]
    <3>1. PICK seen, kept : seen = walk.seen /\ kept = walk.kept
      OBVIOUS
    <3>2. walk' = [seen |-> seen \cup PageAt(below).rows, kept |-> kept]
      BY <2>1, <2>2, <3>1
    <3>3. below # 0 => \A j \in 1 .. kept : j >= below => j \in seen
      BY <1>4, <3>1 DEF SeenFrom
    <3>4. seen \in SUBSET (1 .. Len(roll)) /\ kept \in 0 .. indexed
      BY <2>1, <3>1
    <3>5. QED
      BY <1>1, <1>2, <2>2, <3>2, <3>3, <3>4, PageBuilt
  <2>3. CASE /\ view' = [ClosedPage EXCEPT !.status = "UNAVAILABLE", !.cursor = below]
             /\ Spend("LOST", MaxLost) /\ walk' = walk
    <3>1. rollUsed' \in [Bounds -> Nat]
      BY <1>2, <2>3, SpendType
    <3>2. view' = [status |-> "UNAVAILABLE", cursor |-> below, rows |-> {},
                   verdicts |-> {}, next |-> 0]
      BY <2>3 DEF ClosedPage
    <3>3. QED
      BY <1>1, <1>4, <2>3, <3>1, <3>2, PageUnavailable
  <2>4. QED
    BY <1>4, <2>2, <2>3 DEF Show
<1>5. CASE OpenNextPage
  <2>1. PICK below : below = view.next
    OBVIOUS
  <2>2. below \in Nat /\ SeenFrom(below) /\ Show(below)
    BY <1>5, <2>1 DEF OpenNextPage, RollInv, RollRecords, WalkCovers, SeenFrom
  <2>3. QED
    BY <1>4, <2>2
<1>6. CASE ReloadPage
  <2>1. PICK below : below = view.cursor
    OBVIOUS
  <2>2. below \in Nat /\ (below # 0 => SeenFrom(below)) /\ Show(below)
    BY <1>6, <2>1 DEF ReloadPage, RollInv, RollRecords, WalkCovers, SeenFrom
  <2>3. QED
    BY <1>4, <2>2
<1>7. QED
  BY <1>3, <1>5, <1>6

(* The page of one signup of those shown.                                  *)
LEMMA DetailKeeps ==
  ASSUME RollInv, NEW i \in 1 .. Len(roll), OpenSignup(i)
  PROVE  RollInv'
<1>1. /\ view.status = "SHOWN" /\ i \in view.rows
      /\ view' = [view EXCEPT !.status = "DETAIL", !.rows = {i}, !.next = 0,
                             !.verdicts = SignupVerdicts({i})]
      /\ UNCHANGED <<registering, roll, indexed, permitRows, granted, files, runs, incidents, walk, rollUsed>>
  BY DEF OpenSignup, chainVars, tableVars, cliVars
<1>2. /\ SignupVerdicts({i}) \subseteq [row : {i}, verdict : RollVerdicts]
      /\ \A v \in SignupVerdicts({i}) :
             v.verdict = "VALID" => permitRows[roll[v.row].nullifier] = "AUTHORITY"
  BY VerdictsSound
<1>3. Cardinality({i}) <= LIMIT /\ i \in Nat
  <2>1. Cardinality({i}) = 1
    BY FS_Singleton
  <2>2. Len(roll) \in Nat
    BY DEF RollInv, RollTypeOK
  <2>3. QED
    BY <2>1, <2>2, RollAssumption
<1>4. SignupVerdicts({i}) \subseteq [row : Nat, verdict : RollVerdicts]
  BY <1>2, <1>3
<1>5. view \in [status : {"CLOSED", "SHOWN", "DETAIL", "UNAVAILABLE"}, cursor : Nat,
                rows : SUBSET Nat, verdicts : SUBSET [row : Nat, verdict : RollVerdicts], next : Nat]
  BY DEF RollInv, RollRecords
<1>6. view' = [status |-> "DETAIL", cursor |-> view.cursor, rows |-> {i},
               verdicts |-> SignupVerdicts({i}), next |-> 0]
  BY <1>1, <1>5
<1>7. RollRecords'
  <2>1. view' \in [status : {"CLOSED", "SHOWN", "DETAIL", "UNAVAILABLE"}, cursor : Nat,
                   rows : SUBSET Nat, verdicts : SUBSET [row : Nat, verdict : RollVerdicts],
                   next : Nat]
    <3>1. view.cursor \in Nat /\ {i} \in SUBSET Nat
      BY <1>3, <1>5
    <3>2. QED
      BY <1>4, <1>6, <3>1
  <2>2. QED
    BY <1>1, <2>1 DEF RollInv, RollRecords
<1>8. RollTypeOK'
  <2>1. /\ view'.status = "DETAIL" /\ view'.rows = {i} /\ view'.next = 0
        /\ view'.verdicts = SignupVerdicts({i})
    BY <1>6
  <2>2. view'.rows \subseteq 1 .. Len(roll) /\ Cardinality(view'.rows) <= LIMIT
        /\ view'.verdicts \subseteq [row : view'.rows, verdict : RollVerdicts]
    BY <1>2, <1>3, <2>1
  <2>3. QED
    BY <1>1, <2>1, <2>2 DEF RollInv, RollTypeOK, RollVerdicts
<1>9. GrantsStand' /\ VerdictsStand'
  BY <1>1, <1>2, <1>6 DEF RollInv, GrantsStand, VerdictsStand
<1>10. WalkCovers'
  BY <1>1, <1>6 DEF RollInv, WalkCovers, SeenFrom
<1>11. AttemptsStand'
  BY <1>1, AttemptsFrame DEF RollInv
<1>12. QED
  BY <1>7, <1>8, <1>9, <1>10, <1>11 DEF RollInv

(* An empty registry, a page that is not open and no attempt.              *)
LEMMA RollBegins == RollInit => RollInv
<1> SUFFICES ASSUME RollInit PROVE RollInv
  OBVIOUS
<1>1. roll = << >> /\ Len(roll) = 0 /\ \A r : SignupsBy(r) = {}
  BY DEF RollInit, SignupsBy
<1>2. Cardinality({}) <= LIMIT
  BY FS_EmptySet, RollAssumption
<1>3. BlankRun \in RunType
  BY DEF BlankRun, RunType
<1>4. RollTypeOK
  BY <1>1, <1>2, <1>3 DEF RollInit, RollTypeOK, ClosedPage, Signers
<1>5. RollRecords
  BY DEF RollInit, RollRecords, ClosedPage
<1>6. GrantsStand /\ VerdictsStand /\ WalkCovers
  BY <1>1 DEF RollInit, GrantsStand, VerdictsStand, WalkCovers, SeenFrom, ClosedPage
<1>7. AttemptsStand
  BY <1>1 DEF RollInit, AttemptsStand, RunStands, BlankRun
<1>8. QED
  BY <1>4, <1>5, <1>6, <1>7 DEF RollInv

(* The tables, the attempts and the pages hold together at every moment.   *)
THEOREM RollInvariant == RollSpec => []RollInv
<1>1. ASSUME RollInv, [RollNext]_rollVars
      PROVE  RollInv'
  <2>1. CASE EnrolStep
    BY <1>1, <2>1, CloseKeeps, DirectKeeps, IssueKeeps DEF EnrolStep
  <2>2. CASE AttemptStep
    <3>1. PICK r \in Runs :
              \/ \E p \in files \cup Covering, key \in Keys \cup {"NONE"},
                    tamper, force, twice \in BOOLEAN :
                      ReaSignup(r, p, key, tamper, force, twice)
              \/ SendAttempt(r) \/ MineAttempt(r) \/ RecordIncident(r) \/ AttemptAccepted(r)
      BY <2>2 DEF AttemptStep
    <3>2. CASE SendAttempt(r) \/ MineAttempt(r) \/ RecordIncident(r) \/ AttemptAccepted(r)
      BY <1>1, <3>2, SendKeeps, MineKeeps, RecordKeeps, AcceptedKeeps
    <3>3. CASE \E p \in files \cup Covering, key \in Keys \cup {"NONE"},
                 tamper, force, twice \in BOOLEAN :
                   ReaSignup(r, p, key, tamper, force, twice)
      BY <1>1, <3>3, SignupStartKeeps
    <3>4. QED
      BY <3>1, <3>2, <3>3
  <2>3. CASE ObserveStep
    BY <1>1, <2>3, GrantKeeps, CopyKeeps, DetailKeeps, PagesKeep DEF ObserveStep
  <2>4. CASE UNCHANGED rollVars
    <3>1. UNCHANGED <<registering, roll, indexed, permitRows, granted, files, runs, incidents,
                      view, walk, rollUsed>>
      BY <2>4 DEF rollVars
    <3>2. AttemptsStand'
      BY <1>1, <3>1, AttemptsFrame DEF RollInv
    <3>3. QED
      BY <1>1, <3>1, <3>2, RunFrame DEF RollInv, RollTypeOK, RollRecords
  <2>5. QED
    BY <1>1, <2>1, <2>2, <2>3, <2>4 DEF RollNext
<1>2. QED
  BY <1>1, RollBegins, PTL DEF RollSpec

(* The copy is never ahead of the chain, and no page is too long.          *)
THEOREM RollIsTyped == RollSpec => []RollTypeOK
<1>1. RollInv => RollTypeOK
  BY DEF RollInv
<1>2. QED
  BY <1>1, RollInvariant, PTL

(* The observer's walk down the pages (observer-portal signups page) misses *)
(* nothing that was stored all the time, and a signup that reads VALID, or *)
(* whose nullifier has a permit of the evidence API, is doubted no more.   *)
THEOREM RollIsShown == RollSpec => []RollShown
<1>1. RollInv => RollShown
  <2> SUFFICES ASSUME RollInv PROVE RollShown
    OBVIOUS
  <2>1. view.status = "SHOWN" /\ view.next = 0 => 1 .. walk.kept \subseteq walk.seen
    <3>1. walk.kept \in Nat
      BY DEF RollInv, RollRecords
    <3>2. QED
      BY <3>1 DEF RollInv, WalkCovers, SeenFrom
  <2>2. \A i \in 1 .. Len(roll) :
            permitRows[roll[i].nullifier] = "AUTHORITY" => SignupVerdict(i) = "VALID"
    BY DEF SignupVerdict
  <2>3. \A v \in view.verdicts : v.verdict = "VALID" => SignupVerdict(v.row) = "VALID"
    BY <2>2, ShownAreSignups DEF RollInv, VerdictsStand
  <2>4. \A i \in 1 .. indexed : roll[i].nullifier \in granted => SignupVerdict(i) = "VALID"
    <3>1. indexed \in 0 .. Len(roll) /\ Len(roll) \in Nat
      BY DEF RollInv, RollTypeOK
    <3>2. 1 .. indexed \subseteq 1 .. Len(roll)
      BY <3>1
    <3>3. QED
      BY <2>2, <3>2 DEF RollInv, GrantsStand
  <2>5. QED
    BY <2>1, <2>3, <2>4 DEF RollShown
<1>2. QED
  BY <1>1, RollInvariant, PTL

(* What rea-signup (audit-cli) records of its attempts did happen.         *)
THEOREM AttemptsAreTruthful == RollSpec => []AttemptsTruthful
<1>1. RollInv => AttemptsTruthful
  <2> SUFFICES ASSUME RollInv PROVE AttemptsTruthful
    OBVIOUS
  <2>1. ASSUME NEW r \in Runs, runs[r].at = "DONE"
        PROVE  Cardinality(SignupsBy(r)) = 1 /\ ~runs[r].unexpected
    <3>1. EnrolledOnce(r) /\ ~runs[r].unexpected
      BY <2>1 DEF RollInv, AttemptsStand, RunStands
    <3>2. QED
      BY <3>1, FS_Singleton DEF EnrolledOnce
  <2>2. QED
    BY <2>1 DEF RollInv, AttemptsStand, IncidentStands, AttemptsTruthful
<1>2. QED
  BY <1>1, RollInvariant, PTL

-----------------------------------------------------------------------------
(* The ballot catalogue.                                                   *)

-----------------------------------------------------------------------------
(* The ballot catalogue: tables of candidates.                             *)

RowRecords == [order : Orders, status : SaveStatuses, born : 1..Cardinality(Candidates)]

(* A table gives a row to each of some candidates, and no more.            *)
LEMMA RowsAreFunctions ==
  ASSUME NEW recs
  PROVE  recs \in Rows <=> /\ DOMAIN recs \subseteq Candidates
                           /\ recs \in [DOMAIN recs -> RowRecords]
<1>1. ASSUME recs \in Rows
      PROVE  DOMAIN recs \subseteq Candidates /\ recs \in [DOMAIN recs -> RowRecords]
  <2>1. PICK S \in SUBSET Candidates : recs \in [S -> RowRecords]
    BY <1>1 DEF Rows, RowRecords
  <2>2. QED
    BY <2>1
<1>2. ASSUME DOMAIN recs \subseteq Candidates, recs \in [DOMAIN recs -> RowRecords]
      PROVE  recs \in Rows
  BY <1>2 DEF Rows, RowRecords
<1>3. QED
  BY <1>1, <1>2

(* An empty table.                                                         *)
LEMMA NoRowsAreRows == NoRows \in Rows /\ DOMAIN NoRows = {}
<1>1. DOMAIN NoRows = {} /\ NoRows \in [{} -> RowRecords]
  BY DEF NoRows
<1>2. QED
  BY <1>1, RowsAreFunctions

(* A row is added, or takes the place of another.                          *)
LEMMA RowIsPut ==
  ASSUME NEW recs \in Rows, NEW id \in Candidates, NEW row \in RowRecords, NEW next,
         next = [c \in DOMAIN recs \cup {id} |-> IF c = id THEN row ELSE recs[c]]
  PROVE  /\ next \in Rows /\ DOMAIN next = DOMAIN recs \cup {id}
         /\ next[id] = row /\ \A c \in DOMAIN recs \ {id} : next[c] = recs[c]
<1>1. DOMAIN recs \subseteq Candidates /\ \A c \in DOMAIN recs : recs[c] \in RowRecords
  BY RowsAreFunctions
<1>2. next \in [DOMAIN recs \cup {id} -> RowRecords]
  BY <1>1
<1>3. DOMAIN next = DOMAIN recs \cup {id}
  OBVIOUS
<1>4. next \in Rows
  BY <1>1, <1>2, <1>3, RowsAreFunctions
<1>5. QED
  BY <1>3, <1>4

(* Some of the rows.                                                       *)
LEMMA RowsAreKept ==
  ASSUME NEW recs \in Rows, NEW S \in SUBSET DOMAIN recs
  PROVE  [c \in S |-> recs[c]] \in Rows
<1>1. DOMAIN recs \subseteq Candidates /\ \A c \in DOMAIN recs : recs[c] \in RowRecords
  BY RowsAreFunctions
<1>2. [c \in S |-> recs[c]] \in [S -> RowRecords] /\ DOMAIN [c \in S |-> recs[c]] = S
  BY <1>1
<1>3. QED
  BY <1>1, <1>2, RowsAreFunctions

(* The active candidates of a table are some of all candidates, and there  *)
(* are no more positions than candidates.                                  *)
LEMMA ActiveAreCandidates ==
  ASSUME NEW recs \in Rows
  PROVE  /\ DOMAIN recs \subseteq Candidates /\ IsFiniteSet(DOMAIN recs)
         /\ Cardinality(DOMAIN recs) \in 0..Cardinality(Candidates)
         /\ Cardinality(Candidates) \in Nat
         /\ ActiveIds(recs) \subseteq DOMAIN recs
         /\ \A c : Position(recs, c) \in 0..Cardinality(Candidates)
<1>1. DOMAIN recs \subseteq Candidates
  BY RowsAreFunctions
<1>2. ActiveIds(recs) \subseteq DOMAIN recs
  BY DEF ActiveIds
<1>3. IsFiniteSet(Candidates) /\ Cardinality(Candidates) \in Nat
  BY CatalogueAssumption, FS_CardinalityType DEF CatalogueAssumption
<1>4. \A S \in SUBSET Candidates : IsFiniteSet(S) /\ Cardinality(S) \in 0..Cardinality(Candidates)
  <2> TAKE S \in SUBSET Candidates
  <2>1. IsFiniteSet(S) /\ Cardinality(S) <= Cardinality(Candidates)
    BY <1>3, FS_Subset
  <2>2. Cardinality(S) \in Nat
    BY <2>1, FS_CardinalityType
  <2>3. QED
    BY <1>3, <2>1, <2>2
<1>5. ASSUME NEW c PROVE Position(recs, c) \in 0..Cardinality(Candidates)
  <2>1. {d \in ActiveIds(recs) : Precedes(recs, d, c)} \in SUBSET Candidates
    BY <1>1, <1>2
  <2>2. QED
    BY <1>4, <2>1 DEF Position
<1>6. QED
  BY <1>1, <1>2, <1>3, <1>4, <1>5

-----------------------------------------------------------------------------
(* The ballot catalogue: types.                                            *)

CatalogueKeys == {KeyOf[c] : c \in Candidates}

EditorStates == [at : {"IDLE", "READ", "SAVED", "CHECKED", "LISTED", "CLEARED"},
                 save : Saves \cup {AnySave}, read : SETUP..VOTING_OPEN, listed : Rows,
                 alone : BOOLEAN]

SlotTables == UNION {[S -> 0..NUM_CANDIDATES - 1] : S \in SUBSET CatalogueKeys}

Jobs == [at : {"NONE", "BUILDING", "PAIRING", "VERIFIED_OFFCHAIN", "FAILED"},
         script : Scripts, slots : SlotTables, read : Nat]

BallotRecords == [selection : Candidates, selectionIndex : 0..Cardinality(Candidates)]

CatalogueIncidents == [code : {"CANDIDATE_EDIT_OUT_OF_PHASE"}, about : Candidates]
              \cup [code : {"CANDIDATE_BALLOT_ORDER_DUPLICATE"}, about : Orders]

\* Where a server action may stand.
EditorTyped(k) ==
    /\ editor[k].at # "IDLE" => editor[k].save \in Saves
    /\ editor[k].at = "SAVED" => editor[k].save.op = "UPSERT"

CatalogueTyped ==
    /\ electionPhase \in SETUP..VOTING_OPEN
    /\ candidates \in Rows /\ manifest \in Rows
    /\ raised \subseteq CatalogueIncidents
    /\ editor \in [Editors -> EditorStates]
    /\ \A k \in Editors : EditorTyped(k)
    /\ page \in [Pages -> Rows]
    /\ ballots \in Seq(BallotRecords) /\ Len(ballots) <= MaxBallots
    /\ transcript \in Scripts /\ job \in Jobs
    /\ budget \in [saves : Nat, counts : Nat, deaths : Nat]

(* A save is a form with an id of a candidate.                             *)
LEMMA SavesAreForms ==
  ASSUME NEW s \in Saves
  PROVE  /\ s.id \in Candidates /\ s.order \in Orders /\ s.status \in SaveStatuses
         /\ s.op \in {"UPSERT", "STATUS"}
<1> DEFINE Upserts == [op : {"UPSERT"}, id : Candidates, order : Orders, status : SaveStatuses]
           Updates == [op : {"STATUS"}, id : Candidates, order : {1}, status : SaveStatuses]
<1>1. s \in Upserts \/ s \in Updates
  BY DEF Saves
<1>2. CASE s \in Upserts
  BY <1>2
<1>3. CASE s \in Updates
  <2>1. s.order = 1 /\ s.id \in Candidates /\ s.status \in SaveStatuses /\ s.op = "STATUS"
    BY <1>3
  <2>2. QED
    BY <2>1 DEF Orders
<1>4. QED
  BY <1>1, <1>2, <1>3

(* The bounds are numbers.                                                 *)
LEMMA CatalogueBounds ==
  /\ NUM_CANDIDATES \in Nat /\ DEPTH \in Nat /\ MaxSaves \in Nat
  /\ MaxBallots \in Nat /\ MaxCounts \in Nat /\ MaxDeaths \in Nat
  BY CatalogueAssumption DEF CatalogueAssumption

(* Using one of the bounds up.                                             *)
LEMMA ChargeIsTyped ==
  ASSUME NEW what \in {"saves", "counts", "deaths"}, NEW max,
         budget \in [saves : Nat, counts : Nat, deaths : Nat], Charge(what, max)
  PROVE  /\ budget' \in [saves : Nat, counts : Nat, deaths : Nat]
         /\ budget'[what] = budget[what] + 1
         /\ \A w \in {"saves", "counts", "deaths"} \ {what} : budget'[w] = budget[w]
<1>1. budget' = [budget EXCEPT ![what] = @ + 1]
  BY DEF Charge
<1>2. budget[what] \in Nat /\ budget[what] + 1 \in Nat
  <2>1. budget[what] \in Nat
    OBVIOUS
  <2>2. QED
    BY <2>1
<1>3. budget' \in [saves : Nat, counts : Nat, deaths : Nat]
  BY <1>1, <1>2
<1>4. QED
  BY <1>1, <1>3

(* A count begins with no ballots.                                         *)
LEMMA NoTranscriptIsTyped ==
  /\ NoTranscript \in Scripts /\ NoTranscript.ballots = 0 /\ NoTranscript.valid = << >>
  /\ NoJob \in Jobs /\ NoJob.at = "NONE" /\ NoJob.script = NoTranscript
  /\ DOMAIN NoJob.slots = {}
<1>1. << >> \in Seq(CatalogueKeys)
  OBVIOUS
<1>2. NoTranscript \in Scripts /\ NoTranscript.ballots = 0 /\ NoTranscript.valid = << >>
  BY <1>1, CatalogueBounds DEF NoTranscript, Scripts, CatalogueKeys
<1>3. << >> \in SlotTables /\ DOMAIN << >> = {}
  <2>1. << >> \in [{} -> 0..NUM_CANDIDATES - 1] /\ {} \in SUBSET CatalogueKeys
    OBVIOUS
  <2>2. QED
    BY <2>1 DEF SlotTables
<1>4. QED
  BY <1>2, <1>3 DEF NoJob, Jobs

(* The resting server action.                                              *)
LEMMA RestingIsTyped ==
  /\ Resting \in EditorStates /\ Resting.at = "IDLE"
  /\ Resting.alone = FALSE
<1>1. PICK s : s = AnySave
  OBVIOUS
<1>2. Resting = [at |-> "IDLE", save |-> s, read |-> SETUP, listed |-> NoRows, alone |-> FALSE]
  BY <1>1 DEF Resting
<1>3. SETUP \in SETUP..VOTING_OPEN /\ s \in Saves \cup {AnySave}
  BY <1>1 DEF SETUP, VOTING_OPEN
<1>4. QED
  BY <1>2, <1>3, NoRowsAreRows DEF EditorStates

(* A server action goes on, or ends.                                       *)
LEMMA EditorGoes ==
  ASSUME NEW k \in Editors, editor \in [Editors -> EditorStates],
         NEW at \in {"IDLE", "READ", "SAVED", "CHECKED", "LISTED", "CLEARED"}, Goes(k, at)
  PROVE  /\ editor' \in [Editors -> EditorStates]
         /\ editor'[k].at = at /\ editor'[k].save = editor[k].save
         /\ editor'[k].listed = editor[k].listed /\ editor'[k].alone = editor[k].alone
         /\ \A j \in Editors \ {k} : editor'[j] = editor[j]
<1>1. editor' = [editor EXCEPT ![k].at = at]
  BY DEF Goes
<1>2. editor[k] \in EditorStates
  OBVIOUS
<1> DEFINE next == [editor[k] EXCEPT !.at = at]
<1>3. /\ next \in EditorStates /\ next.at = at /\ next.save = editor[k].save
      /\ next.listed = editor[k].listed /\ next.alone = editor[k].alone
  BY <1>2 DEF EditorStates
<1>4. editor' = [editor EXCEPT ![k] = next]
  BY <1>1
<1> HIDE DEF next
<1>5. editor' \in [Editors -> EditorStates] /\ editor'[k] = next
  BY <1>3, <1>4
<1>6. \A j \in Editors \ {k} : editor'[j] = editor[j]
  BY <1>4
<1>7. QED
  BY <1>3, <1>5, <1>6

(* A server action ends.                                                   *)
LEMMA EditorEnds ==
  ASSUME NEW k \in Editors, editor \in [Editors -> EditorStates], Done(k)
  PROVE  /\ editor' \in [Editors -> EditorStates]
         /\ editor'[k].at = "IDLE" /\ ~editor'[k].alone
         /\ \A j \in Editors \ {k} : editor'[j] = editor[j]
<1>1. editor' = [editor EXCEPT ![k] = Resting]
  BY DEF Done
<1>2. editor' \in [Editors -> EditorStates] /\ editor'[k] = Resting
  BY <1>1, RestingIsTyped
<1>3. QED
  BY <1>1, <1>2, RestingIsTyped

(* A server action ends or goes on: those that do not save have what they  *)
(* had.                                                                    *)
LEMMA EditorStaysTyped ==
  ASSUME CatalogueTyped, NEW k \in Editors,
         editor' \in [Editors -> EditorStates],
         editor'[k].at # "IDLE" => editor'[k].save \in Saves,
         editor'[k].at = "SAVED" => editor'[k].save.op = "UPSERT",
         \A j \in Editors \ {k} : editor'[j] = editor[j]
  PROVE  \A j \in Editors : EditorTyped(j)'
<1> SUFFICES ASSUME NEW j \in Editors PROVE EditorTyped(j)'
  OBVIOUS
<1>1. EditorTyped(j)
  BY DEF CatalogueTyped
<1>2. CASE j = k
  BY <1>2 DEF EditorTyped
<1>3. CASE j # k
  <2>1. editor'[j] = editor[j]
    BY <1>3
  <2>2. QED
    BY <1>1, <2>1 DEF EditorTyped
<1>4. QED
  BY <1>2, <1>3

-----------------------------------------------------------------------------
(* The ballot catalogue: the invariant.                                    *)

\* created_at tells the rows apart.
BornApart ==
    /\ \A c \in DOMAIN candidates : candidates[c].born <= Cardinality(DOMAIN candidates)
    /\ \A c, d \in DOMAIN candidates : c # d => candidates[c].born # candidates[d].born

Duplicate(n) == [code |-> "CANDIDATE_BALLOT_ORDER_DUPLICATE", about |-> n]

\* Two candidates with one order are reported, or will be by the save that made
\* them two.
OrdersCounted ==
    \A n \in Orders : Cardinality(WithOrder(candidates, n)) > 1 /\ budget.deaths = 0 =>
        \/ Duplicate(n) \in raised
        \/ \E k \in Editors : editor[k].at = "SAVED" /\ editor[k].save.order = n

\* What a save that nothing overlaps has listed is the table.
AloneSound ==
    \A k \in Editors : editor[k].alone =>
        /\ \A j \in Editors \ {k} : editor[j].at = "IDLE"
        /\ editor[k].at \in {"LISTED", "CLEARED"} => editor[k].listed = candidates
        /\ editor[k].at = "CLEARED" => manifest = NoRows

Named(i) == KeyOf[ballots[i].selection]

\* A count has every ballot of the keys it counted, and no other.
CountedRight(script) ==
    /\ script.ballots <= Len(ballots) /\ script.ballots <= MAX_BALLOTS
    /\ Len(script.valid) <= script.ballots
    /\ \A key \in SummaryKeys(script) :
            Cardinality({i \in DOMAIN script.valid : script.valid[i] = key})
                = Cardinality({i \in 1..script.ballots : Named(i) = key})
    /\ Len(script.valid) = script.ballots =>
            \A i \in 1..script.ballots : Named(i) \in SummaryKeys(script)

CountsSound == CountedRight(transcript) /\ CountedRight(job.script)

\* Every counted key has a slot of its own.
SlotsSound ==
    /\ SummaryKeys(job.script) \subseteq DOMAIN job.slots
    /\ \A a, b \in DOMAIN job.slots : job.slots[a] = job.slots[b] => a = b

\* The positions of the ballots are counted as their keys were.
PairChecked ==
    /\ \A i \in 1..job.script.ballots : ballots[i].selectionIndex <= NUM_CANDIDATES
    /\ \A j \in 0..NUM_CANDIDATES - 1 :
            Cardinality({i \in 1..job.script.ballots : ballots[i].selectionIndex = j})
                = VoteCounts(job.script, job.slots)[j]

JobSound == job.at = "VERIFIED_OFFCHAIN" => PairChecked

ConsoleSound == BornApart /\ OrdersCounted /\ AloneSound
TallySound == CountsSound /\ SlotsSound /\ JobSound

CatalogueInv == CatalogueTyped /\ ConsoleSound /\ TallySound

(* What is said of the console depends on its state alone.                 *)
LEMMA ConsoleUntouched ==
  ASSUME ConsoleSound, UNCHANGED consoleVars, budget'.deaths = budget.deaths
  PROVE  ConsoleSound'
<1>1. BornApart'
  BY DEF ConsoleSound, BornApart, consoleVars
<1>2. OrdersCounted'
  BY DEF ConsoleSound, OrdersCounted, consoleVars
<1>3. AloneSound'
  BY DEF ConsoleSound, AloneSound, consoleVars
<1>4. QED
  BY <1>1, <1>2, <1>3 DEF ConsoleSound

(* What is said of the tally depends on the ballots and its own state.     *)
LEMMA TallyUntouched ==
  ASSUME TallySound, UNCHANGED <<ballots, tallyVars>>
  PROVE  TallySound'
<1>1. CountsSound'
  BY DEF TallySound, CountsSound, CountedRight, Named, tallyVars
<1>2. SlotsSound'
  BY DEF TallySound, SlotsSound, tallyVars
<1>3. JobSound'
  BY DEF TallySound, JobSound, PairChecked, tallyVars
<1>4. QED
  BY <1>1, <1>2, <1>3 DEF TallySound

-----------------------------------------------------------------------------
(* The ballot catalogue: the tree.                                         *)

(* The widths of the tree are those of its definition.                     *)
LEMMA WidthIsComputed ==
  /\ Width \in [0..DEPTH -> Nat] /\ Width[0] = 1
  /\ \A d \in 1..DEPTH : Width[d] = 2 * Width[d - 1]
<1> DEFINE F == [p \in (1..DEPTH) \X Nat |-> 2 * p[2]]
           Step(f, d) == IF d = 0 THEN 1 ELSE 2 * f[d - 1]
<1>1. DEPTH \in Nat
  BY CatalogueBounds
<1>2. F \in [(1..DEPTH) \X Nat -> Nat]
  OBVIOUS
<1>3. PICK f \in [0..DEPTH -> Nat] : /\ f[0] = 1
                                      /\ \A d \in 1..DEPTH : f[d] = F[<<d, f[d - 1]>>]
  <2> HIDE DEF F
  <2>1. PICK one \in Nat : one = 1
    OBVIOUS
  <2>2. \E f \in [0..DEPTH -> Nat] : f[0] = one /\ \A d \in 1..DEPTH : f[d] = F[<<d, f[d - 1]>>]
    BY <1>1, <1>2, NumbersByRecursion
  <2>3. QED
    BY <2>1, <2>2
<1>4. \A d \in 1..DEPTH : f[d] = 2 * f[d - 1]
  <2>1. \A d \in 1..DEPTH : d - 1 \in 0..DEPTH
    BY <1>1
  <2>2. \A d \in 1..DEPTH : f[d - 1] \in Nat /\ f[d] = F[<<d, f[d - 1]>>]
    <3> HIDE DEF F
    <3>1. QED
      BY <1>3, <2>1
  <2>3. QED
    BY <2>2
<1>5. f = [d \in 0..DEPTH |-> Step(f, d)]
  <2>1. \A d \in 0..DEPTH : f[d] = Step(f, d)
    BY <1>1, <1>3, <1>4
  <2> HIDE DEF Step, F
  <2>2. QED
    BY <1>3, <2>1
<1>6. Width = CHOOSE v : v = [d \in 0..DEPTH |-> Step(v, d)]
  BY DEF Width
<1>7. Width = [d \in 0..DEPTH |-> Step(Width, d)]
  <2> HIDE DEF Step
  <2>1. PICK v : v = Width
    OBVIOUS
  <2>2. QED
    BY <1>5, <1>6, <2>1
<1>8. Width[0] = 1 /\ \A d \in 1..DEPTH : Width[d] = 2 * Width[d - 1]
  BY <1>1, <1>7
<1>9. \A d \in 0..DEPTH : Width[d] \in Nat
  <2> DEFINE Known == {d \in Nat : d <= DEPTH => Width[d] \in Nat}
  <2>1. 0 \in Known
    BY <1>8
  <2>2. \A d \in Nat : d \in Known => d + 1 \in Known
    <3> SUFFICES ASSUME NEW d \in Nat, d \in Known, d + 1 <= DEPTH PROVE Width[d + 1] \in Nat
      OBVIOUS
    <3>1. Width[d] \in Nat /\ d + 1 \in 1..DEPTH
      BY <1>1
    <3>2. Width[d + 1] = 2 * Width[d]
      BY <1>8, <3>1
    <3>3. QED
      BY <3>1, <3>2
  <2> HIDE DEF Known
  <2>3. Nat \subseteq Known
    BY <2>1, <2>2, SetInduction
  <2>4. QED
    BY <1>1, <2>3 DEF Known
<1>10. Width \in [0..DEPTH -> Nat]
  <2> HIDE DEF Step
  <2>1. DOMAIN Width = 0..DEPTH /\ Width = [d \in 0..DEPTH |-> Width[d]]
    BY <1>7
  <2>2. QED
    BY <1>9, <2>1
<1>11. QED
  BY <1>8, <1>10

(* The circuits take some number of ballots.                               *)
LEMMA MaxBallotsIsNat == MAX_BALLOTS \in Nat
<1>1. DEPTH \in 0..DEPTH
  BY CatalogueBounds
<1>2. QED
  BY <1>1, WidthIsComputed DEF MAX_BALLOTS

-----------------------------------------------------------------------------
(* The ballot catalogue: one lemma per action of the console.              *)

(* A phase begins: nothing else moves.                                     *)
LEMMA CatalogueTransition ==
  ASSUME CatalogueInv, Transition
  PROVE  CatalogueInv'
<1>1. ConsoleSound'
  BY ConsoleUntouched DEF CatalogueInv, Transition
<1>2. TallySound'
  BY TallyUntouched DEF CatalogueInv, Transition, votingVars
<1>3. electionPhase' \in SETUP..VOTING_OPEN
  BY DEF CatalogueInv, CatalogueTyped, Transition, SETUP, VOTING_OPEN
<1>4. CatalogueTyped'
  BY <1>3 DEF CatalogueInv, CatalogueTyped, Transition, consoleVars, votingVars, tallyVars, EditorTyped
<1>5. QED
  BY <1>1, <1>2, <1>4 DEF CatalogueInv

(* A save begins: it is alone when no other runs, and no other is any more.*)
LEMMA CatalogueReadPhase ==
  ASSUME CatalogueInv, NEW k \in Editors, NEW save \in SaveInputs, ReadPhase(k, save)
  PROVE  CatalogueInv'
<1> DEFINE idle == \A j \in Editors \ {k} : editor[j].at = "IDLE"
           begun == [Resting EXCEPT !.at = "READ", !.save = save, !.read = electionPhase, !.alone = idle]
           other(j) == [editor[j] EXCEPT !.alone = FALSE]
<1>1. /\ editor' = [j \in Editors |-> IF j = k THEN begun ELSE other(j)]
      /\ UNCHANGED <<electionPhase, candidates, manifest, raised, votingVars, tallyVars>>
      /\ Charge("saves", MaxSaves) /\ editor[k].at = "IDLE"
  BY DEF ReadPhase
<1>2. /\ budget' \in [saves : Nat, counts : Nat, deaths : Nat]
      /\ budget'.deaths = budget.deaths
  <2>1. budget \in [saves : Nat, counts : Nat, deaths : Nat]
    BY DEF CatalogueInv, CatalogueTyped
  <2>2. QED
    BY <1>1, <2>1, ChargeIsTyped
<1>3. save \in Saves /\ electionPhase \in SETUP..VOTING_OPEN
  BY CatalogueAssumption DEF CatalogueAssumption, CatalogueInv, CatalogueTyped
<1>4. idle \in BOOLEAN
  OBVIOUS
<1>5. begun \in EditorStates /\ begun.at = "READ" /\ begun.save = save /\ (begun.alone <=> idle)
  <2> HIDE DEF idle
  <2>1. Resting \in EditorStates
    BY RestingIsTyped
  <2>2. QED
    BY <1>3, <1>4, <2>1 DEF EditorStates
<1>6. \A j \in Editors : /\ other(j) \in EditorStates /\ other(j).at = editor[j].at
                         /\ other(j).save = editor[j].save /\ ~other(j).alone
  <2> TAKE j \in Editors
  <2>1. editor[j] \in EditorStates
    BY DEF CatalogueInv, CatalogueTyped
  <2>2. QED
    BY <2>1 DEF EditorStates
<1> HIDE DEF begun, other
<1>7. editor' \in [Editors -> EditorStates] /\ editor'[k] = begun
      /\ \A j \in Editors \ {k} : editor'[j] = other(j)
  BY <1>1, <1>5, <1>6
<1>8. \A j \in Editors : EditorTyped(j)'
  <2> TAKE j \in Editors
  <2>1. EditorTyped(j)
    BY DEF CatalogueInv, CatalogueTyped
  <2>2. CASE j = k
    BY <1>3, <1>5, <1>7, <2>2 DEF EditorTyped
  <2>3. CASE j # k
    <3>1. editor'[j].at = editor[j].at /\ editor'[j].save = editor[j].save
      BY <1>6, <1>7, <2>3
    <3>2. QED
      BY <2>1, <3>1 DEF EditorTyped
  <2>4. QED
    BY <2>2, <2>3
<1>9. CatalogueTyped'
  BY <1>1, <1>2, <1>7, <1>8 DEF CatalogueInv, CatalogueTyped, votingVars, tallyVars
<1>10. BornApart'
  BY <1>1 DEF CatalogueInv, ConsoleSound, BornApart
<1>11. OrdersCounted'
  <2> SUFFICES ASSUME NEW n \in Orders, Cardinality(WithOrder(candidates, n)) > 1, budget.deaths = 0
               PROVE  \/ Duplicate(n) \in raised
                      \/ \E j \in Editors : editor'[j].at = "SAVED" /\ editor'[j].save.order = n
    BY <1>1, <1>2 DEF OrdersCounted, WithOrder
  <2>1. \/ Duplicate(n) \in raised
        \/ \E j \in Editors : editor[j].at = "SAVED" /\ editor[j].save.order = n
    BY DEF CatalogueInv, ConsoleSound, OrdersCounted
  <2>2. ASSUME NEW j \in Editors, editor[j].at = "SAVED", editor[j].save.order = n
        PROVE  editor'[j].at = "SAVED" /\ editor'[j].save.order = n
    <3>1. j # k
      BY <1>1, <2>2
    <3>2. QED
      BY <1>6, <1>7, <2>2, <3>1
  <2>3. QED
    BY <2>1, <2>2
<1>12. AloneSound'
  <2> SUFFICES ASSUME NEW j \in Editors, editor'[j].alone
               PROVE  /\ \A i \in Editors \ {j} : editor'[i].at = "IDLE"
                      /\ editor'[j].at \notin {"LISTED", "CLEARED"}
    BY DEF AloneSound
  <2>1. j = k
    BY <1>6, <1>7
  <2>2. \A i \in Editors \ {k} : editor'[i].at = "IDLE"
    BY <1>5, <1>6, <1>7, <2>1
  <2>3. QED
    BY <1>5, <1>7, <2>1, <2>2
<1>13. TallySound'
  BY <1>1, TallyUntouched DEF CatalogueInv, votingVars
<1>14. QED
  BY <1>9, <1>10, <1>11, <1>12, <1>13 DEF CatalogueInv, ConsoleSound

(* A server action that ends without a trace: nothing it had said to be    *)
(* counted later is due, and it is alone no more.                          *)
LEMMA OthersStayAlone ==
  ASSUME AloneSound, NEW k \in Editors,
         \A j \in Editors \ {k} : editor'[j] = editor[j],
         editor[k].at # "IDLE",
         editor'[k].alone => editor[k].alone,
         editor[k].alone =>
            /\ editor'[k].at \in {"LISTED", "CLEARED"} => editor'[k].listed = candidates'
            /\ editor'[k].at = "CLEARED" => manifest' = NoRows,
         editor'[k].at = "IDLE" => ~editor'[k].alone
  PROVE  AloneSound'
<1> SUFFICES ASSUME NEW j \in Editors, editor'[j].alone
             PROVE  /\ \A i \in Editors \ {j} : editor'[i].at = "IDLE"
                    /\ editor'[j].at \in {"LISTED", "CLEARED"} => editor'[j].listed = candidates'
                    /\ editor'[j].at = "CLEARED" => manifest' = NoRows
  BY DEF AloneSound
<1>1. CASE j = k
  <2>1. editor[k].alone
    BY <1>1
  <2>2. \A i \in Editors \ {k} : editor'[i].at = "IDLE"
    BY <2>1 DEF AloneSound
  <2>3. QED
    BY <1>1, <2>1, <2>2
<1>2. CASE j # k
  <2>1. editor[j].alone
    BY <1>2
  <2>2. editor[k].at = "IDLE"
    BY <1>2, <2>1 DEF AloneSound
  <2>3. QED
    BY <2>2
<1>3. QED
  BY <1>1, <1>2

(* What is due to be counted stays due while the rows, and the server      *)
(* actions at SAVED, are the same.                                         *)
LEMMA OrdersStayCounted ==
  ASSUME OrdersCounted, NEW k \in Editors,
         \A j \in Editors \ {k} : editor'[j] = editor[j], editor[k].at # "SAVED",
         \A n \in Orders : WithOrder(candidates', n) = WithOrder(candidates, n),
         raised \subseteq raised', budget'.deaths = budget.deaths
  PROVE  OrdersCounted'
<1> SUFFICES ASSUME NEW n \in Orders, Cardinality(WithOrder(candidates', n)) > 1, budget'.deaths = 0
             PROVE  \/ Duplicate(n) \in raised'
                    \/ \E j \in Editors : editor'[j].at = "SAVED" /\ editor'[j].save.order = n
  BY DEF OrdersCounted, WithOrder
<1>1. \/ Duplicate(n) \in raised
      \/ \E j \in Editors : editor[j].at = "SAVED" /\ editor[j].save.order = n
  <2>1. Cardinality(WithOrder(candidates, n)) > 1 /\ budget.deaths = 0
    <3>1. WithOrder(candidates', n) = WithOrder(candidates, n)
      OBVIOUS
    <3>2. QED
      BY <3>1
  <2>2. QED
    BY <2>1 DEF OrdersCounted
<1>2. QED
  BY <1>1

(* A save of a phase that allows none ends with its incident.              *)
LEMMA CatalogueRefuseSave ==
  ASSUME CatalogueInv, NEW k \in Editors, RefuseSave(k)
  PROVE  CatalogueInv'
<1> DEFINE incident == [code |-> "CANDIDATE_EDIT_OUT_OF_PHASE", about |-> editor[k].save.id]
<1>1. /\ editor[k].at = "READ" /\ Done(k) /\ raised' = raised \cup {incident}
      /\ UNCHANGED <<electionPhase, candidates, manifest, votingVars, tallyVars, budget>>
  BY DEF RefuseSave
<1>2. editor \in [Editors -> EditorStates] /\ EditorTyped(k) /\ raised \subseteq CatalogueIncidents
  BY DEF CatalogueInv, CatalogueTyped
<1>3. /\ editor' \in [Editors -> EditorStates] /\ editor'[k].at = "IDLE" /\ ~editor'[k].alone
      /\ \A j \in Editors \ {k} : editor'[j] = editor[j]
  BY <1>1, <1>2, EditorEnds
<1>4. incident \in CatalogueIncidents
  <2>1. editor[k].save \in Saves
    BY <1>1, <1>2 DEF EditorTyped
  <2>2. editor[k].save.id \in Candidates
    BY <2>1, SavesAreForms
  <2>3. QED
    BY <2>2 DEF CatalogueIncidents
<1> HIDE DEF incident
<1>5. \A j \in Editors : EditorTyped(j)'
  BY <1>3, EditorStaysTyped DEF CatalogueInv
<1>6. CatalogueTyped'
  BY <1>1, <1>2, <1>3, <1>4, <1>5 DEF CatalogueInv, CatalogueTyped, votingVars, tallyVars
<1>7. BornApart'
  BY <1>1 DEF CatalogueInv, ConsoleSound, BornApart
<1>8. OrdersCounted'
  BY <1>1, <1>3, OrdersStayCounted DEF CatalogueInv, ConsoleSound
<1>9. AloneSound'
  BY <1>1, <1>3, OthersStayAlone DEF CatalogueInv, ConsoleSound
<1>10. TallySound'
  BY <1>1, TallyUntouched DEF CatalogueInv, votingVars
<1>11. QED
  BY <1>6, <1>7, <1>8, <1>9, <1>10 DEF CatalogueInv, ConsoleSound

(* A row is put: a new one is born last, and the pair of orders it may make*)
(* is for this save to report.                                             *)
LEMMA CatalogueUpsertCandidate ==
  ASSUME CatalogueInv, NEW k \in Editors, UpsertCandidate(k)
  PROVE  CatalogueInv'
<1> DEFINE s == editor[k].save
           born == IF s.id \in DOMAIN candidates THEN candidates[s.id].born
                   ELSE Cardinality(DOMAIN candidates) + 1
           row == [order |-> s.order, status |-> s.status, born |-> born]
<1>1. /\ editor[k].at = "READ" /\ Goes(k, "SAVED") /\ s.op = "UPSERT"
      /\ candidates' = [c \in DOMAIN candidates \cup {s.id} |-> IF c = s.id THEN row ELSE candidates[c]]
      /\ UNCHANGED <<electionPhase, manifest, raised, votingVars, tallyVars, budget>>
  BY DEF UpsertCandidate
<1>2. /\ editor \in [Editors -> EditorStates] /\ EditorTyped(k) /\ candidates \in Rows
      /\ BornApart /\ OrdersCounted
  BY DEF CatalogueInv, CatalogueTyped, ConsoleSound
<1>3. s \in Saves /\ s.id \in Candidates /\ s.order \in Orders /\ s.status \in SaveStatuses
  <2>1. s \in Saves
    BY <1>1, <1>2 DEF EditorTyped
  <2>2. QED
    BY <2>1, SavesAreForms
<1>4. /\ editor' \in [Editors -> EditorStates]
      /\ editor'[k].at = "SAVED" /\ editor'[k].save = s
      /\ editor'[k].alone = editor[k].alone
      /\ \A j \in Editors \ {k} : editor'[j] = editor[j]
  BY <1>1, <1>2, EditorGoes
<1> HIDE DEF s
<1>5. /\ DOMAIN candidates \subseteq Candidates /\ candidates \in [DOMAIN candidates -> RowRecords]
      /\ IsFiniteSet(DOMAIN candidates) /\ Cardinality(DOMAIN candidates) \in Nat
      /\ Cardinality(Candidates) \in Nat /\ IsFiniteSet(Candidates)
  <2>1. Cardinality(DOMAIN candidates) \in 0..Cardinality(Candidates) /\ Cardinality(Candidates) \in Nat
    BY <1>2, ActiveAreCandidates
  <2>2. Cardinality(DOMAIN candidates) \in Nat
    BY <2>1
  <2>3. QED
    BY <1>2, <2>1, <2>2, ActiveAreCandidates, RowsAreFunctions, CatalogueAssumption DEF CatalogueAssumption
<1>6. born \in 1..Cardinality(Candidates)
  <2>1. CASE s.id \in DOMAIN candidates
    <3>1. candidates[s.id] \in RowRecords
      BY <1>5, <2>1
    <3>2. QED
      BY <2>1, <3>1 DEF RowRecords
  <2>2. CASE s.id \notin DOMAIN candidates
    <3>1. /\ IsFiniteSet(DOMAIN candidates \cup {s.id})
          /\ Cardinality(DOMAIN candidates \cup {s.id}) = Cardinality(DOMAIN candidates) + 1
      BY <1>5, <2>2, FS_AddElement
    <3>2. Cardinality(DOMAIN candidates \cup {s.id}) <= Cardinality(Candidates)
      <4>1. DOMAIN candidates \cup {s.id} \subseteq Candidates
        BY <1>3, <1>5
      <4>2. QED
        BY <1>5, <4>1, FS_Subset
    <3>3. QED
      BY <1>5, <2>2, <3>1, <3>2
  <2>3. QED
    BY <2>1, <2>2
<1>7. row \in RowRecords
  <2> HIDE DEF born
  <2>1. QED
    BY <1>3, <1>6 DEF RowRecords
<1> HIDE DEF row
<1>8. /\ candidates' \in Rows /\ DOMAIN candidates' = DOMAIN candidates \cup {s.id}
      /\ candidates'[s.id] = row /\ \A c \in DOMAIN candidates \ {s.id} : candidates'[c] = candidates[c]
  BY <1>1, <1>2, <1>3, <1>7, RowIsPut
<1>9. row.born = born /\ row.order = s.order
  BY DEF row
<1>10. \A j \in Editors : EditorTyped(j)'
  <2>1. s.op = "UPSERT"
    BY <1>1
  <2>2. QED
    BY <1>3, <1>4, <2>1, EditorStaysTyped DEF CatalogueInv
<1>11. CatalogueTyped'
  BY <1>1, <1>4, <1>8, <1>10 DEF CatalogueInv, CatalogueTyped, votingVars, tallyVars
<1>12. BornApart'
  <2>1. CASE s.id \in DOMAIN candidates
    <3>1. DOMAIN candidates' = DOMAIN candidates /\ born = candidates[s.id].born
      BY <1>8, <2>1
    <3>2. \A c \in DOMAIN candidates : candidates'[c].born = candidates[c].born
      BY <1>8, <1>9, <3>1
    <3>3. QED
      BY <1>2, <3>1, <3>2 DEF BornApart
  <2>2. CASE s.id \notin DOMAIN candidates
    <3>1. Cardinality(DOMAIN candidates') = Cardinality(DOMAIN candidates) + 1
      BY <1>5, <1>8, <2>2, FS_AddElement
    <3>2. candidates'[s.id].born = Cardinality(DOMAIN candidates) + 1
      BY <1>8, <1>9, <2>2
    <3>3. \A c \in DOMAIN candidates : /\ candidates'[c].born = candidates[c].born
                                       /\ candidates[c].born \in Nat
                                       /\ candidates[c].born <= Cardinality(DOMAIN candidates)
      <4> TAKE c \in DOMAIN candidates
      <4>1. candidates[c] \in RowRecords
        BY <1>5
      <4>2. candidates[c].born \in Nat
        BY <4>1 DEF RowRecords
      <4>3. QED
        BY <1>2, <1>8, <2>2, <4>2 DEF BornApart
    <3>4. \A c \in DOMAIN candidates' : candidates'[c].born <= Cardinality(DOMAIN candidates')
      <4> TAKE c \in DOMAIN candidates'
      <4>1. CASE c = s.id
        BY <1>5, <3>1, <3>2, <4>1
      <4>2. CASE c \in DOMAIN candidates
        BY <1>5, <3>1, <3>3, <4>2
      <4>3. QED
        BY <1>8, <4>1, <4>2
    <3>5. ASSUME NEW c \in DOMAIN candidates', NEW d \in DOMAIN candidates', c # d
          PROVE  candidates'[c].born # candidates'[d].born
      <4>1. CASE c = s.id
        <5>1. d \in DOMAIN candidates
          BY <1>8, <3>5, <4>1
        <5>2. QED
          BY <1>5, <3>2, <3>3, <4>1, <5>1
      <4>2. CASE d = s.id
        <5>1. c \in DOMAIN candidates
          BY <1>8, <3>5, <4>2
        <5>2. QED
          BY <1>5, <3>2, <3>3, <4>2, <5>1
      <4>3. CASE c \in DOMAIN candidates /\ d \in DOMAIN candidates
        BY <1>2, <3>3, <3>5, <4>3 DEF BornApart
      <4>4. QED
        BY <1>8, <4>1, <4>2, <4>3
    <3>6. QED
      BY <3>4, <3>5 DEF BornApart
  <2>3. QED
    BY <2>1, <2>2
<1>13. OrdersCounted'
  <2> SUFFICES ASSUME NEW n \in Orders, Cardinality(WithOrder(candidates', n)) > 1, budget.deaths = 0
               PROVE  \/ Duplicate(n) \in raised
                      \/ \E j \in Editors : editor'[j].at = "SAVED" /\ editor'[j].save.order = n
    BY <1>1 DEF OrdersCounted, WithOrder
  <2>1. CASE n = s.order
    BY <1>4, <2>1
  <2>2. CASE n # s.order
    <3>1. WithOrder(candidates', n) \subseteq WithOrder(candidates, n)
      BY <1>8, <1>9, <2>2 DEF WithOrder
    <3>2. IsFiniteSet(WithOrder(candidates, n))
      <4>1. WithOrder(candidates, n) \subseteq DOMAIN candidates
        BY DEF WithOrder
      <4>2. QED
        BY <1>5, <4>1, FS_Subset
    <3>3. /\ Cardinality(WithOrder(candidates', n)) <= Cardinality(WithOrder(candidates, n))
          /\ Cardinality(WithOrder(candidates', n)) \in Nat /\ Cardinality(WithOrder(candidates, n)) \in Nat
      BY <3>1, <3>2, FS_Subset, FS_CardinalityType
    <3>4. Cardinality(WithOrder(candidates, n)) > 1
      BY <3>3
    <3>5. \/ Duplicate(n) \in raised
          \/ \E j \in Editors : editor[j].at = "SAVED" /\ editor[j].save.order = n
      BY <1>2, <3>4 DEF OrdersCounted
    <3>6. QED
      BY <1>1, <1>4, <3>5
  <2>3. QED
    BY <2>1, <2>2
<1>14. AloneSound'
  BY <1>1, <1>4, OthersStayAlone DEF CatalogueInv, ConsoleSound
<1>15. TallySound'
  BY <1>1, TallyUntouched DEF CatalogueInv, votingVars
<1>16. QED
  BY <1>11, <1>12, <1>13, <1>14, <1>15 DEF CatalogueInv, ConsoleSound

(* A status is put: no order changes, and no birth.                        *)
LEMMA CatalogueUpdateStatus ==
  ASSUME CatalogueInv, NEW k \in Editors, UpdateStatus(k)
  PROVE  CatalogueInv'
<1> DEFINE s == editor[k].save
           row == [candidates[s.id] EXCEPT !.status = s.status]
<1>1. /\ editor[k].at = "READ"
      /\ \/ s.id \in DOMAIN candidates /\ Goes(k, "CHECKED")
            /\ candidates' = [candidates EXCEPT ![s.id].status = s.status]
         \/ candidates' = candidates /\ Done(k)
      /\ UNCHANGED <<electionPhase, manifest, raised, votingVars, tallyVars, budget>>
  BY DEF UpdateStatus
<1>2. /\ editor \in [Editors -> EditorStates] /\ EditorTyped(k) /\ candidates \in Rows
      /\ BornApart /\ OrdersCounted
  BY DEF CatalogueInv, CatalogueTyped, ConsoleSound
<1>3. s \in Saves /\ s.id \in Candidates /\ s.status \in SaveStatuses
  <2>1. s \in Saves
    BY <1>1, <1>2 DEF EditorTyped
  <2>2. QED
    BY <2>1, SavesAreForms
<1>4. /\ editor' \in [Editors -> EditorStates]
      /\ \/ editor'[k].at = "CHECKED" /\ editor'[k].save = editor[k].save /\ editor'[k].alone = editor[k].alone
         \/ editor'[k].at = "IDLE" /\ ~editor'[k].alone
      /\ \A j \in Editors \ {k} : editor'[j] = editor[j]
  <2>1. CASE Goes(k, "CHECKED")
    BY <1>2, <2>1, EditorGoes
  <2>2. CASE Done(k)
    BY <1>2, <2>2, EditorEnds
  <2>3. QED
    BY <1>1, <2>1, <2>2
<1>5. /\ candidates' \in Rows /\ DOMAIN candidates' = DOMAIN candidates
      /\ \A c \in DOMAIN candidates : /\ candidates'[c].order = candidates[c].order
                                      /\ candidates'[c].born = candidates[c].born
  <2>1. CASE candidates' = candidates
    BY <1>2, <2>1
  <2>2. CASE /\ s.id \in DOMAIN candidates
             /\ candidates' = [candidates EXCEPT ![s.id].status = s.status]
    <3>1. /\ DOMAIN candidates \subseteq Candidates
          /\ \A c \in DOMAIN candidates : candidates[c] \in RowRecords
          /\ candidates = [c \in DOMAIN candidates |-> candidates[c]]
      BY <1>2, RowsAreFunctions
    <3>2. row \in RowRecords /\ row.order = candidates[s.id].order /\ row.born = candidates[s.id].born
      <4>1. candidates[s.id] \in RowRecords
        BY <2>2, <3>1
      <4>2. QED
        BY <1>3, <4>1 DEF RowRecords
    <3>3. candidates' = [candidates EXCEPT ![s.id] = row]
      BY <2>2
    <3> HIDE DEF row
    <3>4. candidates' = [c \in DOMAIN candidates |-> IF c = s.id THEN row ELSE candidates[c]]
      BY <3>3
    <3>5. DOMAIN candidates' = DOMAIN candidates /\ candidates' \in [DOMAIN candidates -> RowRecords]
      BY <3>1, <3>2, <3>4
    <3>6. candidates' \in Rows
      BY <3>1, <3>5, RowsAreFunctions
    <3>7. \A c \in DOMAIN candidates : /\ candidates'[c].order = candidates[c].order
                                       /\ candidates'[c].born = candidates[c].born
      BY <3>2, <3>4
    <3>8. QED
      BY <3>5, <3>6, <3>7
  <2>3. QED
    BY <1>1, <2>1, <2>2
<1> HIDE DEF s
<1>6. \A j \in Editors : EditorTyped(j)'
  <2>1. editor'[k].at = "CHECKED" => editor'[k].save \in Saves
    BY <1>3, <1>4 DEF s
  <2>2. QED
    BY <1>4, <2>1, EditorStaysTyped DEF CatalogueInv
<1>7. CatalogueTyped'
  BY <1>1, <1>4, <1>5, <1>6 DEF CatalogueInv, CatalogueTyped, votingVars, tallyVars
<1>8. BornApart'
  BY <1>2, <1>5 DEF BornApart
<1>9. OrdersCounted'
  <2>1. \A n \in Orders : WithOrder(candidates', n) = WithOrder(candidates, n)
    BY <1>5 DEF WithOrder
  <2>2. QED
    BY <1>1, <1>2, <1>4, <2>1, OrdersStayCounted
<1>10. AloneSound'
  BY <1>1, <1>4, OthersStayAlone DEF CatalogueInv, ConsoleSound
<1>11. TallySound'
  BY <1>1, TallyUntouched DEF CatalogueInv, votingVars
<1>12. QED
  BY <1>7, <1>8, <1>9, <1>10, <1>11 DEF CatalogueInv, ConsoleSound

(* The save counts the rows with its order and reports what it found.      *)
LEMMA CatalogueCheckOrder ==
  ASSUME CatalogueInv, NEW k \in Editors, CheckOrder(k)
  PROVE  CatalogueInv'
<1> DEFINE order == editor[k].save.order
<1>1. /\ editor[k].at = "SAVED" /\ Goes(k, "CHECKED")
      /\ raised' = IF Cardinality(WithOrder(candidates, order)) > 1 THEN raised \cup {Duplicate(order)}
                   ELSE raised
      /\ UNCHANGED <<electionPhase, candidates, manifest, votingVars, tallyVars, budget>>
  BY DEF CheckOrder, Duplicate
<1>2. /\ editor \in [Editors -> EditorStates] /\ EditorTyped(k) /\ raised \subseteq CatalogueIncidents
      /\ OrdersCounted
  BY DEF CatalogueInv, CatalogueTyped, ConsoleSound
<1>3. /\ editor' \in [Editors -> EditorStates] /\ editor'[k].at = "CHECKED"
      /\ editor'[k].save = editor[k].save /\ editor'[k].alone = editor[k].alone
      /\ \A j \in Editors \ {k} : editor'[j] = editor[j]
  BY <1>1, <1>2, EditorGoes
<1>4. editor[k].save \in Saves /\ order \in Orders
  <2>1. editor[k].save \in Saves
    BY <1>1, <1>2 DEF EditorTyped
  <2>2. QED
    BY <2>1, SavesAreForms
<1> HIDE DEF order
<1>5. raised' \subseteq CatalogueIncidents /\ raised \subseteq raised'
  <2>1. Duplicate(order) \in CatalogueIncidents
    BY <1>4 DEF CatalogueIncidents, Duplicate
  <2>2. QED
    BY <1>1, <1>2, <2>1
<1>6. \A j \in Editors : EditorTyped(j)'
  BY <1>3, <1>4, EditorStaysTyped DEF CatalogueInv
<1>7. CatalogueTyped'
  BY <1>1, <1>3, <1>5, <1>6 DEF CatalogueInv, CatalogueTyped, votingVars, tallyVars
<1>8. BornApart'
  BY <1>1 DEF CatalogueInv, ConsoleSound, BornApart
<1>9. OrdersCounted'
  <2> SUFFICES ASSUME NEW n \in Orders, Cardinality(WithOrder(candidates, n)) > 1, budget.deaths = 0
               PROVE  \/ Duplicate(n) \in raised'
                      \/ \E j \in Editors : editor'[j].at = "SAVED" /\ editor'[j].save.order = n
    BY <1>1 DEF OrdersCounted, WithOrder
  <2>1. CASE n = order
    BY <1>1, <2>1
  <2>2. CASE n # order
    <3>1. \/ Duplicate(n) \in raised
          \/ \E j \in Editors : editor[j].at = "SAVED" /\ editor[j].save.order = n
      BY <1>2 DEF OrdersCounted
    <3>2. ASSUME NEW j \in Editors, editor[j].at = "SAVED", editor[j].save.order = n
          PROVE  editor'[j].at = "SAVED" /\ editor'[j].save.order = n
      <4>1. j # k
        BY <2>2, <3>2 DEF order
      <4>2. QED
        BY <1>3, <3>2, <4>1
    <3>3. QED
      BY <1>5, <3>1, <3>2
  <2>3. QED
    BY <2>1, <2>2
<1>10. AloneSound'
  BY <1>1, <1>3, OthersStayAlone DEF CatalogueInv, ConsoleSound
<1>11. TallySound'
  BY <1>1, TallyUntouched DEF CatalogueInv, votingVars
<1>12. QED
  BY <1>7, <1>8, <1>9, <1>10, <1>11 DEF CatalogueInv, ConsoleSound

(* The rows are listed: alone, they are the table.                         *)
LEMMA CatalogueListCandidates ==
  ASSUME CatalogueInv, NEW k \in Editors, ListCandidates(k)
  PROVE  CatalogueInv'
<1> DEFINE next == [editor[k] EXCEPT !.at = "LISTED", !.listed = candidates]
<1>1. /\ editor[k].at = "CHECKED"
      /\ editor' = [editor EXCEPT ![k] = next]
      /\ UNCHANGED <<electionPhase, candidates, manifest, raised, votingVars, tallyVars, budget>>
  BY DEF ListCandidates
<1>2. editor \in [Editors -> EditorStates] /\ EditorTyped(k) /\ candidates \in Rows
  BY DEF CatalogueInv, CatalogueTyped
<1>3. /\ next \in EditorStates /\ next.at = "LISTED" /\ next.listed = candidates
      /\ next.save = editor[k].save /\ next.alone = editor[k].alone
  <2>1. editor[k] \in EditorStates
    BY <1>2
  <2>2. QED
    BY <1>2, <2>1 DEF EditorStates
<1> HIDE DEF next
<1>4. /\ editor' \in [Editors -> EditorStates] /\ editor'[k] = next
      /\ \A j \in Editors \ {k} : editor'[j] = editor[j]
  BY <1>1, <1>2, <1>3
<1>5. \A j \in Editors : EditorTyped(j)'
  <2>1. editor'[k].save \in Saves
    BY <1>1, <1>2, <1>3, <1>4 DEF EditorTyped
  <2>2. QED
    BY <1>3, <1>4, <2>1, EditorStaysTyped DEF CatalogueInv
<1>6. CatalogueTyped'
  BY <1>1, <1>4, <1>5 DEF CatalogueInv, CatalogueTyped, votingVars, tallyVars
<1>7. BornApart'
  BY <1>1 DEF CatalogueInv, ConsoleSound, BornApart
<1>8. OrdersCounted'
  BY <1>1, <1>4, OrdersStayCounted DEF CatalogueInv, ConsoleSound
<1>9. AloneSound'
  BY <1>1, <1>3, <1>4, OthersStayAlone DEF CatalogueInv, ConsoleSound
<1>10. TallySound'
  BY <1>1, TallyUntouched DEF CatalogueInv, votingVars
<1>11. QED
  BY <1>6, <1>7, <1>8, <1>9, <1>10 DEF CatalogueInv, ConsoleSound

(* The first statement of the manifest: none is current.                   *)
LEMMA CatalogueClearCurrent ==
  ASSUME CatalogueInv, NEW k \in Editors, ClearCurrent(k)
  PROVE  CatalogueInv'
<1>1. /\ editor[k].at = "LISTED" /\ Goes(k, "CLEARED") /\ manifest' = NoRows
      /\ UNCHANGED <<electionPhase, candidates, raised, votingVars, tallyVars, budget>>
  BY DEF ClearCurrent
<1>2. editor \in [Editors -> EditorStates] /\ EditorTyped(k) /\ AloneSound
  BY DEF CatalogueInv, CatalogueTyped, ConsoleSound
<1>3. /\ editor' \in [Editors -> EditorStates] /\ editor'[k].at = "CLEARED"
      /\ editor'[k].save = editor[k].save /\ editor'[k].alone = editor[k].alone
      /\ editor'[k].listed = editor[k].listed
      /\ \A j \in Editors \ {k} : editor'[j] = editor[j]
  BY <1>1, <1>2, EditorGoes
<1>4. \A j \in Editors : EditorTyped(j)'
  <2>1. editor'[k].save \in Saves
    BY <1>1, <1>2, <1>3 DEF EditorTyped
  <2>2. QED
    BY <1>3, <2>1, EditorStaysTyped DEF CatalogueInv
<1>5. CatalogueTyped'
  BY <1>1, <1>3, <1>4, NoRowsAreRows DEF CatalogueInv, CatalogueTyped, votingVars, tallyVars
<1>6. BornApart'
  BY <1>1 DEF CatalogueInv, ConsoleSound, BornApart
<1>7. OrdersCounted'
  BY <1>1, <1>3, OrdersStayCounted DEF CatalogueInv, ConsoleSound
<1>8. AloneSound'
  <2>1. editor[k].alone => editor'[k].listed = candidates'
    BY <1>1, <1>2, <1>3 DEF AloneSound
  <2>2. QED
    BY <1>1, <1>2, <1>3, <2>1, OthersStayAlone
<1>9. TallySound'
  BY <1>1, TallyUntouched DEF CatalogueInv, votingVars
<1>10. QED
  BY <1>5, <1>6, <1>7, <1>8, <1>9 DEF CatalogueInv, ConsoleSound

(* The second statement; alone, the manifest lists the table as it then is.*)
LEMMA CatalogueInsertCurrent ==
  ASSUME CatalogueInv, NEW k \in Editors, InsertCurrent(k)
  PROVE  CatalogueInv' /\ (editor[k].alone => manifest' = candidates')
<1>1. /\ editor[k].at = "CLEARED" /\ Done(k)
      /\ manifest' = IF manifest = NoRows THEN editor[k].listed ELSE manifest
      /\ UNCHANGED <<electionPhase, candidates, raised, votingVars, tallyVars, budget>>
  BY DEF InsertCurrent
<1>2. /\ editor \in [Editors -> EditorStates] /\ EditorTyped(k) /\ AloneSound
      /\ manifest \in Rows
  BY DEF CatalogueInv, CatalogueTyped, ConsoleSound
<1>3. /\ editor' \in [Editors -> EditorStates] /\ editor'[k].at = "IDLE" /\ ~editor'[k].alone
      /\ \A j \in Editors \ {k} : editor'[j] = editor[j]
  BY <1>1, <1>2, EditorEnds
<1>4. \A j \in Editors : EditorTyped(j)'
  BY <1>3, EditorStaysTyped DEF CatalogueInv
<1>5. manifest' \in Rows
  <2>1. editor[k].listed \in Rows
    <3>1. editor[k] \in EditorStates
      BY <1>2
    <3>2. QED
      BY <3>1 DEF EditorStates
  <2>2. QED
    BY <1>1, <1>2, <2>1
<1>6. CatalogueTyped'
  BY <1>1, <1>3, <1>4, <1>5 DEF CatalogueInv, CatalogueTyped, votingVars, tallyVars
<1>7. BornApart'
  BY <1>1 DEF CatalogueInv, ConsoleSound, BornApart
<1>8. OrdersCounted'
  BY <1>1, <1>3, OrdersStayCounted DEF CatalogueInv, ConsoleSound
<1>9. AloneSound'
  BY <1>1, <1>2, <1>3, OthersStayAlone
<1>10. TallySound'
  BY <1>1, TallyUntouched DEF CatalogueInv, votingVars
<1>11. editor[k].alone => manifest' = candidates'
  BY <1>1, <1>2 DEF AloneSound
<1>12. QED
  BY <1>6, <1>7, <1>8, <1>9, <1>10, <1>11 DEF CatalogueInv, ConsoleSound

(* A save dies: from then on the duplicates are not promised.              *)
LEMMA CatalogueSaveDies ==
  ASSUME CatalogueInv, NEW k \in Editors, SaveDies(k)
  PROVE  CatalogueInv'
<1>1. /\ editor[k].at # "IDLE" /\ Done(k) /\ Charge("deaths", MaxDeaths)
      /\ UNCHANGED <<electionPhase, candidates, manifest, raised, votingVars, tallyVars>>
  BY DEF SaveDies
<1>2. /\ editor \in [Editors -> EditorStates] /\ budget \in [saves : Nat, counts : Nat, deaths : Nat]
  BY DEF CatalogueInv, CatalogueTyped
<1>3. /\ editor' \in [Editors -> EditorStates] /\ editor'[k].at = "IDLE" /\ ~editor'[k].alone
      /\ \A j \in Editors \ {k} : editor'[j] = editor[j]
  BY <1>1, <1>2, EditorEnds
<1>4. budget' \in [saves : Nat, counts : Nat, deaths : Nat] /\ budget'.deaths = budget.deaths + 1
  BY <1>1, <1>2, ChargeIsTyped
<1>5. \A j \in Editors : EditorTyped(j)'
  BY <1>3, EditorStaysTyped DEF CatalogueInv
<1>6. CatalogueTyped'
  BY <1>1, <1>3, <1>4, <1>5 DEF CatalogueInv, CatalogueTyped, votingVars, tallyVars
<1>7. BornApart'
  BY <1>1 DEF CatalogueInv, ConsoleSound, BornApart
<1>8. OrdersCounted'
  <2>1. budget.deaths \in Nat
    BY <1>2
  <2>2. budget'.deaths # 0
    BY <1>4, <2>1
  <2>3. QED
    BY <2>2 DEF OrdersCounted
<1>9. AloneSound'
  BY <1>1, <1>3, OthersStayAlone DEF CatalogueInv, ConsoleSound
<1>10. TallySound'
  BY <1>1, TallyUntouched DEF CatalogueInv, votingVars
<1>11. QED
  BY <1>6, <1>7, <1>8, <1>9, <1>10 DEF CatalogueInv, ConsoleSound

-----------------------------------------------------------------------------
(* The ballot catalogue: one lemma per action of the portal.               *)

(* A page loads the active rows.                                           *)
LEMMA CatalogueLoadCandidates ==
  ASSUME CatalogueInv, NEW t \in Pages, LoadCandidates(t)
  PROVE  CatalogueInv'
<1>1. /\ page' = [page EXCEPT ![t] = [c \in ActiveIds(candidates) |-> candidates[c]]]
      /\ UNCHANGED <<electionPhase, consoleVars, ballots, tallyVars, budget>>
  BY DEF LoadCandidates
<1>2. [c \in ActiveIds(candidates) |-> candidates[c]] \in Rows
  <2>1. candidates \in Rows
    BY DEF CatalogueInv, CatalogueTyped
  <2>2. QED
    BY <2>1, ActiveAreCandidates, RowsAreKept
<1>3. page' \in [Pages -> Rows]
  BY <1>1, <1>2 DEF CatalogueInv, CatalogueTyped
<1>4. ConsoleSound'
  BY <1>1, ConsoleUntouched DEF CatalogueInv
<1>5. TallySound'
  BY <1>1, TallyUntouched DEF CatalogueInv
<1>6. CatalogueTyped'
  BY <1>1, <1>3 DEF CatalogueInv, CatalogueTyped, consoleVars, tallyVars, EditorTyped
<1>7. QED
  BY <1>4, <1>5, <1>6 DEF CatalogueInv

(* A count stays right when ballots come after it.                         *)
LEMMA CountStaysRight ==
  ASSUME NEW script \in Scripts, CountedRight(script),
         Len(ballots) \in Nat, Len(ballots') \in Nat, Len(ballots) <= Len(ballots'),
         \A i \in 1..Len(ballots) : ballots'[i] = ballots[i]
  PROVE  CountedRight(script)'
<1>1. script.ballots \in Nat
  <2>1. script.ballots \in 0..MaxBallots
    BY DEF Scripts
  <2>2. QED
    BY <2>1
<1>2. script.ballots <= Len(ballots) /\ script.ballots <= MAX_BALLOTS
  BY DEF CountedRight
<1>3. \A i \in 1..script.ballots : Named(i)' = Named(i)
  <2>1. \A i \in 1..script.ballots : i \in 1..Len(ballots)
    BY <1>1, <1>2
  <2>2. QED
    BY <2>1 DEF Named
<1>4. script.ballots <= Len(ballots')
  BY <1>1, <1>2
<1>5. \A key : {i \in 1..script.ballots : Named(i)' = key} = {i \in 1..script.ballots : Named(i) = key}
  BY <1>3
<1>6. \A key \in SummaryKeys(script) :
          Cardinality({i \in DOMAIN script.valid : script.valid[i] = key})
            = Cardinality({i \in 1..script.ballots : Named(i)' = key})
  BY <1>5 DEF CountedRight
<1>7. Len(script.valid) = script.ballots =>
          \A i \in 1..script.ballots : Named(i)' \in SummaryKeys(script)
  BY <1>3 DEF CountedRight
<1>8. Len(script.valid) <= script.ballots
  BY DEF CountedRight
<1> HIDE DEF SummaryKeys, Named
<1>9. QED
  BY <1>2, <1>4, <1>6, <1>7, <1>8 DEF CountedRight

(* A ballot is cast at the end of the box: what was counted is not touched.*)
LEMMA CatalogueCastBallot ==
  ASSUME CatalogueInv, NEW t \in Pages, NEW c \in Candidates, CastBallot(t, c)
  PROVE  CatalogueInv'
<1> DEFINE ballot == [selection |-> c, selectionIndex |-> Position(page[t], c)]
<1>1. /\ Len(ballots) < MaxBallots /\ ballots' = Append(ballots, ballot)
      /\ page' = [page EXCEPT ![t] = NoRows]
      /\ UNCHANGED <<electionPhase, consoleVars, tallyVars, budget>>
  BY DEF CastBallot
<1>2. ballots \in Seq(BallotRecords) /\ page \in [Pages -> Rows]
  BY DEF CatalogueInv, CatalogueTyped
<1>3. ballot \in BallotRecords
  <2>1. page[t] \in Rows
    BY <1>2
  <2>2. Position(page[t], c) \in 0..Cardinality(Candidates)
    BY <2>1, ActiveAreCandidates
  <2>3. QED
    BY <2>2 DEF BallotRecords
<1> HIDE DEF ballot
<1>4. /\ ballots' \in Seq(BallotRecords) /\ Len(ballots') = Len(ballots) + 1
      /\ Len(ballots) \in Nat
      /\ \A i \in 1..Len(ballots) : ballots'[i] = ballots[i]
  <2> HIDE DEF BallotRecords
  <2>1. PICK R : R = BallotRecords
    OBVIOUS
  <2>2. ballots \in Seq(R) /\ ballot \in R
    BY <1>2, <1>3, <2>1
  <2>3. ballots' \in Seq(R) /\ Len(ballots') = Len(ballots) + 1 /\ Len(ballots) \in Nat
        /\ \A i \in 1..Len(ballots) : ballots'[i] = ballots[i]
    BY <1>1, <2>2
  <2>4. QED
    BY <2>1, <2>3
<1>5. Len(ballots') <= MaxBallots
  BY <1>1, <1>4, CatalogueBounds
<1>6. page' \in [Pages -> Rows]
  BY <1>1, <1>2, NoRowsAreRows
<1>7. ConsoleSound'
  BY <1>1, ConsoleUntouched DEF CatalogueInv
<1>8. CatalogueTyped'
  BY <1>1, <1>4, <1>5, <1>6 DEF CatalogueInv, CatalogueTyped, consoleVars, tallyVars, EditorTyped
<1>9. /\ transcript \in Scripts /\ job.script \in Scripts
      /\ CountedRight(transcript) /\ CountedRight(job.script)
      /\ transcript' = transcript /\ job' = job
  <2>1. job \in Jobs /\ transcript \in Scripts
    BY DEF CatalogueInv, CatalogueTyped
  <2>2. job.script \in Scripts
    BY <2>1 DEF Jobs
  <2>3. QED
    BY <1>1, <2>1, <2>2 DEF CatalogueInv, TallySound, CountsSound, tallyVars
<1>10. CountsSound'
  <2>1. PICK first, second : first = transcript /\ second = job.script
    OBVIOUS
  <2>2. Len(ballots') \in Nat /\ Len(ballots) <= Len(ballots')
    BY <1>4
  <2>3. \A script \in Scripts : CountedRight(script) => CountedRight(script)'
    BY <1>4, <2>2, CountStaysRight
  <2>4. CountedRight(first)' /\ CountedRight(second)'
    BY <1>9, <2>1, <2>3
  <2>5. first = transcript' /\ second = job'.script
    BY <1>9, <2>1
  <2>6. QED
    BY <2>4, <2>5 DEF CountsSound, CountedRight, Named
<1>11. SlotsSound'
  BY <1>9 DEF CatalogueInv, TallySound, SlotsSound
<1>12. JobSound'
  <2>1. job.script.ballots \in Nat /\ job.script.ballots <= Len(ballots)
    <3>1. job.script.ballots \in 0..MaxBallots
      BY <1>9 DEF Scripts
    <3>2. QED
      BY <1>9, <3>1 DEF CountedRight
  <2>2. \A i \in 1..job.script.ballots : ballots'[i] = ballots[i]
    BY <1>4, <2>1
  <2>3. \A j : {i \in 1..job.script.ballots : ballots'[i].selectionIndex = j}
                  = {i \in 1..job.script.ballots : ballots[i].selectionIndex = j}
    BY <2>2
  <2>4. PairChecked => PairChecked'
    BY <1>9, <2>2, <2>3 DEF PairChecked
  <2>5. QED
    BY <1>9, <2>4 DEF CatalogueInv, TallySound, JobSound
<1>13. QED
  BY <1>7, <1>8, <1>10, <1>11, <1>12 DEF CatalogueInv, TallySound

-----------------------------------------------------------------------------
(* The ballot catalogue: the beginning.                                    *)

(* The earlier rows have orders of their own, so nothing is to be reported.*)
LEMMA CatalogueInitSound ==
  ASSUME CatalogueInit
  PROVE  CatalogueInv
<1>1. EarlierRows \in Rows
  BY CatalogueAssumption DEF CatalogueAssumption
<1>2. editor \in [Editors -> EditorStates] /\ \A k \in Editors : editor[k] = Resting
  BY RestingIsTyped DEF CatalogueInit
<1>3. CatalogueTyped
  <2>1. electionPhase \in SETUP..VOTING_OPEN
    BY DEF CatalogueInit, SETUP, VOTING_OPEN
  <2>2. page \in [Pages -> Rows]
    BY NoRowsAreRows DEF CatalogueInit
  <2>3. ballots \in Seq(BallotRecords) /\ Len(ballots) <= MaxBallots
    BY CatalogueBounds DEF CatalogueInit
  <2>4. \A k \in Editors : EditorTyped(k)
    BY <1>2, RestingIsTyped DEF EditorTyped
  <2>5. budget \in [saves : Nat, counts : Nat, deaths : Nat]
    BY DEF CatalogueInit
  <2>6. QED
    BY <1>1, <1>2, <2>1, <2>2, <2>3, <2>4, <2>5, NoTranscriptIsTyped DEF CatalogueInit, CatalogueTyped
<1>4. BornApart
  BY CatalogueAssumption DEF CatalogueInit, BornApart, CatalogueAssumption
<1>5. OrdersCounted
  <2> SUFFICES ASSUME NEW n \in Orders PROVE ~(Cardinality(WithOrder(candidates, n)) > 1)
    BY DEF OrdersCounted
  <2>1. \A c, d \in WithOrder(candidates, n) : c = d
    BY CatalogueAssumption DEF CatalogueInit, WithOrder, CatalogueAssumption
  <2>2. CASE WithOrder(candidates, n) = {}
    BY <2>2, FS_EmptySet
  <2>3. CASE WithOrder(candidates, n) # {}
    <3>1. PICK c : WithOrder(candidates, n) = {c}
      BY <2>1, <2>3
    <3>2. QED
      BY <3>1, FS_Singleton
  <2>4. QED
    BY <2>2, <2>3
<1>6. AloneSound
  BY <1>2, RestingIsTyped DEF AloneSound
<1>7. TallySound
  <2>1. transcript = NoTranscript /\ job = NoJob /\ ballots = << >>
    BY DEF CatalogueInit
  <2>2. MAX_BALLOTS \in Nat
    BY MaxBallotsIsNat
  <2>3. CountedRight(NoTranscript)
    <3>1. SummaryKeys(NoTranscript) = {} /\ Len(NoTranscript.valid) = 0
      BY NoTranscriptIsTyped DEF SummaryKeys
    <3>2. QED
      BY <2>1, <2>2, <3>1, NoTranscriptIsTyped DEF CountedRight
  <2>4. CountsSound
    BY <2>1, <2>3, NoTranscriptIsTyped DEF CountsSound
  <2>5. SlotsSound
    <3>1. SummaryKeys(NoTranscript) = {}
      BY NoTranscriptIsTyped DEF SummaryKeys
    <3>2. QED
      BY <2>1, <3>1, NoTranscriptIsTyped DEF SlotsSound
  <2>6. JobSound
    BY <2>1, NoTranscriptIsTyped DEF JobSound
  <2>7. QED
    BY <2>4, <2>5, <2>6 DEF TallySound
<1>8. QED
  BY <1>3, <1>4, <1>5, <1>6, <1>7 DEF CatalogueInv, ConsoleSound

-----------------------------------------------------------------------------
(* The ballot catalogue: the proofs of the tree.                           *)

(* The tree over any leaves is that of its definition.                     *)
LEMMA TreeIsComputed ==
  ASSUME NEW leaves
  PROVE  /\ TreeOf(leaves)[0] = leaves
         /\ \A d \in 1..DEPTH : TreeOf(leaves)[d] =
              [i \in 0..Width[DEPTH - d] - 1 |->
                  <<TreeOf(leaves)[d - 1][2 * i], TreeOf(leaves)[d - 1][2 * i + 1]>>]
<1> DEFINE Pairs(below, d) == [i \in 0..Width[DEPTH - d] - 1 |-> <<below[2 * i], below[2 * i + 1]>>]
           Step(f, d) == IF d = 0 THEN leaves ELSE Pairs(f[d - 1], d)
           Reached == {m \in Nat : \E f : f = [d \in 0..m |-> Step(f, d)]}
<1>1. DEPTH \in Nat
  BY CatalogueBounds
<1>2. 0 \in Reached
  <2> DEFINE f == [d \in 0..0 |-> leaves]
  <2>1. \A d \in 0..0 : Step(f, d) = leaves
    OBVIOUS
  <2>2. f = [d \in 0..0 |-> Step(f, d)]
    <3> HIDE DEF Step
    <3>1. QED
      BY <2>1
  <2> HIDE DEF f, Step
  <2>3. QED
    BY <2>2
<1>3. ASSUME NEW m \in Nat, m \in Reached PROVE m + 1 \in Reached
  <2>1. PICK f : f = [d \in 0..m |-> Step(f, d)]
    BY <1>3
  <2> DEFINE g == [d \in 0..m + 1 |-> IF d = m + 1 THEN Step(f, m + 1) ELSE f[d]]
  <2>2. \A d \in 0..m : g[d] = f[d]
    OBVIOUS
  <2>3. \A d \in 0..m + 1 : Step(g, d) = Step(f, d)
    <3> TAKE d \in 0..m + 1
    <3>1. CASE d = 0
      BY <3>1
    <3>2. CASE d # 0
      <4>1. g[d - 1] = f[d - 1]
        <5>1. d - 1 \in 0..m
          BY <3>2
        <5>2. QED
          BY <2>2, <5>1
      <4> HIDE DEF g
      <4>2. QED
        BY <4>1
    <3>3. QED
      BY <3>1, <3>2
  <2>4. \A d \in 0..m + 1 : g[d] = Step(f, d)
    <3> TAKE d \in 0..m + 1
    <3>1. CASE d = m + 1
      <4> HIDE DEF Step
      <4>1. QED
        BY <3>1
    <3>2. CASE d \in 0..m
      <4> HIDE DEF Step
      <4>1. f[d] = Step(f, d)
        BY <2>1, <3>2
      <4> HIDE DEF g
      <4>2. QED
        BY <2>2, <3>2, <4>1
    <3>3. QED
      BY <3>1, <3>2
  <2>5. DOMAIN g = 0..m + 1 /\ g = [d \in 0..m + 1 |-> g[d]]
    <3> HIDE DEF Step
    <3>1. QED
      OBVIOUS
  <2> HIDE DEF g, Step
  <2>6. g = [d \in 0..m + 1 |-> Step(g, d)]
    BY <2>3, <2>4, <2>5
  <2>7. QED
    BY <2>6
<1>4. PICK f : f = [d \in 0..DEPTH |-> Step(f, d)]
  <2> HIDE DEF Reached
  <2>1. DEPTH \in Reached
    BY <1>1, <1>2, <1>3, SetInduction
  <2>2. QED
    BY <2>1 DEF Reached
<1>5. TreeOf(leaves) = CHOOSE v : v = [d \in 0..DEPTH |-> Step(v, d)]
  BY DEF TreeOf
<1>6. TreeOf(leaves) = [d \in 0..DEPTH |-> Step(TreeOf(leaves), d)]
  <2> HIDE DEF Step
  <2>1. PICK v : v = TreeOf(leaves)
    OBVIOUS
  <2>2. QED
    BY <1>4, <1>5, <2>1
<1>7. \A d \in 0..DEPTH : TreeOf(leaves)[d] = Step(TreeOf(leaves), d)
  <2> HIDE DEF Step
  <2>1. PICK v : v = TreeOf(leaves)
    OBVIOUS
  <2>2. v = [d \in 0..DEPTH |-> Step(v, d)]
    BY <1>6, <2>1
  <2>3. \A d \in 0..DEPTH : v[d] = Step(v, d)
    BY <2>2
  <2>4. QED
    BY <2>1, <2>3
<1>8. TreeOf(leaves)[0] = leaves
  <2>1. 0 \in 0..DEPTH
    BY <1>1
  <2>2. QED
    BY <1>7, <2>1
<1>9. ASSUME NEW d \in 1..DEPTH PROVE TreeOf(leaves)[d] = Pairs(TreeOf(leaves)[d - 1], d)
  <2> HIDE DEF Pairs
  <2>1. d \in 0..DEPTH /\ d # 0
    BY <1>1
  <2>2. QED
    BY <1>7, <2>1
<1>10. QED
  BY <1>8, <1>9

(* The hash that a path of siblings and directions leads to is computed    *)
(* one level after the other.                                              *)
LEMMA PathIsComputed ==
  ASSUME NEW leaf, NEW path, NEW bits
  PROVE  \E hash : /\ hash[0] = leaf /\ PathRoot(leaf, path, bits) = hash[DEPTH]
                   /\ \A d \in 1..DEPTH :
                        hash[d] = IF bits[d - 1] = 0 THEN <<hash[d - 1], path[d - 1]>>
                                  ELSE <<path[d - 1], hash[d - 1]>>
<1> DEFINE Pair(below, d) == IF bits[d - 1] = 0 THEN <<below, path[d - 1]>> ELSE <<path[d - 1], below>>
           Step(f, d) == IF d = 0 THEN leaf ELSE Pair(f[d - 1], d)
           Reached == {m \in Nat : \E f : f = [d \in 0..m |-> Step(f, d)]}
<1>1. DEPTH \in Nat
  BY CatalogueBounds
<1>2. 0 \in Reached
  <2> DEFINE f == [d \in 0..0 |-> leaf]
  <2>1. \A d \in 0..0 : Step(f, d) = leaf
    OBVIOUS
  <2>2. f = [d \in 0..0 |-> Step(f, d)]
    <3> HIDE DEF Step
    <3>1. QED
      BY <2>1
  <2> HIDE DEF f, Step
  <2>3. QED
    BY <2>2
<1>3. ASSUME NEW m \in Nat, m \in Reached PROVE m + 1 \in Reached
  <2>1. PICK f : f = [d \in 0..m |-> Step(f, d)]
    BY <1>3
  <2> DEFINE g == [d \in 0..m + 1 |-> IF d = m + 1 THEN Step(f, m + 1) ELSE f[d]]
  <2>2. \A d \in 0..m : g[d] = f[d]
    <3> HIDE DEF Step
    <3>1. QED
      OBVIOUS
  <2>3. \A d \in 0..m + 1 : Step(g, d) = Step(f, d)
    <3> TAKE d \in 0..m + 1
    <3>1. CASE d = 0
      BY <3>1
    <3>2. CASE d # 0
      <4>1. g[d - 1] = f[d - 1]
        <5>1. d - 1 \in 0..m
          BY <3>2
        <5> HIDE DEF g
        <5>2. QED
          BY <2>2, <5>1
      <4> HIDE DEF g, Pair
      <4>2. QED
        BY <4>1
    <3>3. QED
      BY <3>1, <3>2
  <2>4. \A d \in 0..m + 1 : g[d] = Step(f, d)
    <3> TAKE d \in 0..m + 1
    <3> HIDE DEF Step
    <3>1. CASE d = m + 1
      BY <3>1
    <3>2. CASE d \in 0..m
      <4>1. f[d] = Step(f, d)
        BY <2>1, <3>2
      <4> HIDE DEF g
      <4>2. QED
        BY <2>2, <3>2, <4>1
    <3>3. QED
      BY <3>1, <3>2
  <2>5. DOMAIN g = 0..m + 1 /\ g = [d \in 0..m + 1 |-> g[d]]
    <3> HIDE DEF Step
    <3>1. QED
      OBVIOUS
  <2> HIDE DEF g, Step
  <2>6. g = [d \in 0..m + 1 |-> Step(g, d)]
    BY <2>3, <2>4, <2>5
  <2>7. QED
    BY <2>6
<1>4. PICK f : f = [d \in 0..DEPTH |-> Step(f, d)]
  <2> HIDE DEF Reached
  <2>1. DEPTH \in Reached
    BY <1>1, <1>2, <1>3, SetInduction
  <2>2. QED
    BY <2>1 DEF Reached
<1> DEFINE V == CHOOSE v : v = [d \in 0..DEPTH |-> Step(v, d)]
<1>5. PathRoot(leaf, path, bits) = V[DEPTH]
  BY DEF PathRoot
<1>6. V = [d \in 0..DEPTH |-> Step(V, d)]
  <2> HIDE DEF Step
  <2>1. QED
    BY <1>4
<1> HIDE DEF V
<1>7. \A d \in 0..DEPTH : V[d] = Step(V, d)
  <2> HIDE DEF Step
  <2>1. QED
    BY <1>6
<1>8. V[0] = leaf
  <2>1. 0 \in 0..DEPTH
    BY <1>1
  <2>2. QED
    BY <1>7, <2>1
<1>9. ASSUME NEW d \in 1..DEPTH PROVE V[d] = Pair(V[d - 1], d)
  <2> HIDE DEF Pair
  <2>1. d \in 0..DEPTH /\ d # 0
    BY <1>1
  <2>2. QED
    BY <1>7, <2>1
<1>10. QED
  BY <1>5, <1>8, <1>9

(* Half of a number.                                                       *)
LEMMA HalfOfNumber ==
  ASSUME NEW x \in Nat
  PROVE  /\ x \div 2 \in Nat /\ x % 2 \in {0, 1} /\ x = 2 * (x \div 2) + (x % 2)
         /\ \A w \in Nat : x < 2 * w => x \div 2 < w
  OBVIOUS

(* The way from a slot to the root stays within the tree.                  *)
LEMMA IndexIsComputed ==
  ASSUME NEW slot \in Slots
  PROVE  /\ IndexAtLevel(slot)[0] = slot
         /\ \A d \in 1..DEPTH : IndexAtLevel(slot)[d] = IndexAtLevel(slot)[d - 1] \div 2
         /\ \A d \in 0..DEPTH : /\ IndexAtLevel(slot)[d] \in Nat
                                /\ IndexAtLevel(slot)[d] < Width[DEPTH - d]
<1> DEFINE F == [p \in (1..DEPTH) \X Nat |-> p[2] \div 2]
           Step(f, d) == IF d = 0 THEN slot ELSE f[d - 1] \div 2
<1>1. DEPTH \in Nat /\ slot \in Nat /\ slot < MAX_BALLOTS
  <2>1. MAX_BALLOTS \in Nat
    BY MaxBallotsIsNat
  <2>2. QED
    BY <2>1, CatalogueBounds DEF Slots
<1>2. F \in [(1..DEPTH) \X Nat -> Nat]
  <2>1. \A p \in (1..DEPTH) \X Nat : p[2] \div 2 \in Nat
    BY HalfOfNumber
  <2>2. QED
    BY <2>1
<1>3. PICK f \in [0..DEPTH -> Nat] : /\ f[0] = slot
                                      /\ \A d \in 1..DEPTH : f[d] = F[<<d, f[d - 1]>>]
  <2> HIDE DEF F
  <2>1. QED
    BY <1>1, <1>2, NumbersByRecursion
<1>4. \A d \in 1..DEPTH : f[d] = f[d - 1] \div 2
  <2>1. \A d \in 1..DEPTH : d - 1 \in 0..DEPTH
    BY <1>1
  <2>2. \A d \in 1..DEPTH : f[d - 1] \in Nat /\ f[d] = F[<<d, f[d - 1]>>]
    <3> HIDE DEF F
    <3>1. QED
      BY <1>3, <2>1
  <2>3. QED
    BY <2>2
<1>5. f = [d \in 0..DEPTH |-> Step(f, d)]
  <2>1. \A d \in 0..DEPTH : f[d] = Step(f, d)
    BY <1>1, <1>3, <1>4
  <2> HIDE DEF Step, F
  <2>2. QED
    BY <1>3, <2>1
<1> DEFINE V == IndexAtLevel(slot)
<1>6. V = CHOOSE v : v = [d \in 0..DEPTH |-> Step(v, d)]
  BY DEF IndexAtLevel
<1> HIDE DEF V
<1>7. V = [d \in 0..DEPTH |-> Step(V, d)]
  <2> HIDE DEF Step
  <2>1. QED
    BY <1>5, <1>6
<1>8. V[0] = slot /\ \A d \in 1..DEPTH : V[d] = V[d - 1] \div 2
  BY <1>1, <1>7
<1>9. \A d \in 0..DEPTH : V[d] \in Nat /\ V[d] < Width[DEPTH - d]
  <2> DEFINE Known == {d \in Nat : d <= DEPTH => V[d] \in Nat /\ V[d] < Width[DEPTH - d]}
  <2>1. 0 \in Known
    BY <1>1, <1>8 DEF MAX_BALLOTS
  <2>2. \A d \in Nat : d \in Known => d + 1 \in Known
    <3> SUFFICES ASSUME NEW d \in Nat, d \in Known, d + 1 <= DEPTH
                 PROVE  V[d + 1] \in Nat /\ V[d + 1] < Width[DEPTH - (d + 1)]
      OBVIOUS
    <3>1. V[d] \in Nat /\ V[d] < Width[DEPTH - d]
      BY <1>1
    <3>2. V[d + 1] = V[d] \div 2
      <4>1. d + 1 \in 1..DEPTH /\ (d + 1) - 1 = d
        BY <1>1
      <4>2. QED
        BY <1>8, <4>1
    <3>3. /\ Width[DEPTH - d] = 2 * Width[DEPTH - (d + 1)]
          /\ Width[DEPTH - (d + 1)] \in Nat
      <4>1. /\ DEPTH - d \in 1..DEPTH /\ (DEPTH - d) - 1 = DEPTH - (d + 1)
            /\ DEPTH - (d + 1) \in 0..DEPTH
        BY <1>1
      <4>2. QED
        BY <4>1, WidthIsComputed
    <3>4. QED
      BY <3>1, <3>2, <3>3, HalfOfNumber
  <2> HIDE DEF Known
  <2>3. Nat \subseteq Known
    BY <2>1, <2>2, SetInduction
  <2>4. QED
    BY <1>1, <2>3 DEF Known
<1>10. QED
  BY <1>8, <1>9 DEF V

(* The path of a slot leads to the root of the tree.                       *)
LEMMA PathReachesRoot ==
  ASSUME NEW leaves, NEW slot \in Slots, NEW path, NEW bits,
         \A d \in 0..DEPTH - 1 :
            /\ path[d] = TreeOf(leaves)[d][Sibling(IndexAtLevel(slot)[d])]
            /\ bits[d] = IndexAtLevel(slot)[d] % 2
  PROVE  PathRoot(leaves[slot], path, bits) = TreeOf(leaves)[DEPTH][0]
<1> DEFINE T == TreeOf(leaves)
           at == IndexAtLevel(slot)
<1>1. DEPTH \in Nat
  BY CatalogueBounds
<1>2. PICK hash : /\ hash[0] = leaves[slot] /\ PathRoot(leaves[slot], path, bits) = hash[DEPTH]
                  /\ \A d \in 1..DEPTH :
                        hash[d] = IF bits[d - 1] = 0 THEN <<hash[d - 1], path[d - 1]>>
                                  ELSE <<path[d - 1], hash[d - 1]>>
  BY PathIsComputed
<1>3. /\ at[0] = slot /\ \A d \in 1..DEPTH : at[d] = at[d - 1] \div 2
      /\ \A d \in 0..DEPTH : at[d] \in Nat /\ at[d] < Width[DEPTH - d]
  BY IndexIsComputed
<1>4. /\ T[0] = leaves
      /\ \A d \in 1..DEPTH : T[d] = [i \in 0..Width[DEPTH - d] - 1 |-> <<T[d - 1][2 * i], T[d - 1][2 * i + 1]>>]
  BY TreeIsComputed
<1>5. \A d \in 0..DEPTH - 1 : path[d] = T[d][Sibling(at[d])] /\ bits[d] = at[d] % 2
  OBVIOUS
<1> HIDE DEF T, at
<1>6. ASSUME NEW d \in Nat, d + 1 <= DEPTH, hash[d] = T[d][at[d]]
      PROVE  hash[d + 1] = T[d + 1][at[d + 1]]
  <2>1. d \in 0..DEPTH - 1 /\ d + 1 \in 1..DEPTH /\ (d + 1) - 1 = d /\ d \in 0..DEPTH
        /\ d + 1 \in 0..DEPTH
    BY <1>1, <1>6
  <2>2. PICK x \in Nat : x = at[d]
    BY <1>3, <2>1
  <2>3. at[d + 1] = x \div 2 /\ x \div 2 < Width[DEPTH - (d + 1)]
    BY <1>3, <2>1, <2>2
  <2>4. hash[d + 1] = IF x % 2 = 0 THEN <<T[d][x], T[d][Sibling(x)]>>
                      ELSE <<T[d][Sibling(x)], T[d][x]>>
    BY <1>2, <1>5, <1>6, <2>1, <2>2
  <2>5. T[d + 1][x \div 2] = <<T[d][2 * (x \div 2)], T[d][2 * (x \div 2) + 1]>>
    <3>1. PICK w : w = Width[DEPTH - (d + 1)]
      OBVIOUS
    <3>2. w \in Nat
      <4>1. DEPTH - (d + 1) \in 0..DEPTH
        BY <1>1, <2>1
      <4>2. QED
        BY <3>1, <4>1, WidthIsComputed
    <3>3. x \div 2 \in 0..w - 1
      BY <2>2, <2>3, <3>1, <3>2, HalfOfNumber
    <3>4. T[d + 1] = [i \in 0..w - 1 |-> <<T[d][2 * i], T[d][2 * i + 1]>>]
      BY <1>4, <2>1, <3>1
    <3>5. PICK half : half = x \div 2
      OBVIOUS
    <3>6. QED
      BY <3>3, <3>4, <3>5
  <2>6. CASE x % 2 = 0
    <3>1. 2 * (x \div 2) = x /\ Sibling(x) = x + 1
      BY <2>2, <2>6, HalfOfNumber DEF Sibling
    <3>2. QED
      BY <2>3, <2>4, <2>5, <2>6, <3>1
  <2>7. CASE x % 2 # 0
    <3>1. /\ 2 * (x \div 2) = x - 1 /\ Sibling(x) = x - 1 /\ (x - 1) + 1 = x
      <4>1. x % 2 = 1
        BY <2>2, <2>7, HalfOfNumber
      <4>2. PICK half \in Nat : half = x \div 2 /\ x = 2 * half + 1
        BY <2>2, <4>1, HalfOfNumber
      <4>3. Sibling(x) = x - 1
        BY <2>7 DEF Sibling
      <4>4. QED
        BY <2>2, <4>2, <4>3
    <3>2. QED
      BY <2>3, <2>4, <2>5, <2>7, <3>1
  <2>8. QED
    BY <2>6, <2>7
<1>7. hash[DEPTH] = T[DEPTH][at[DEPTH]]
  <2> DEFINE Known == {d \in Nat : d <= DEPTH => hash[d] = T[d][at[d]]}
  <2>1. 0 \in Known
    BY <1>2, <1>3, <1>4
  <2>2. \A d \in Nat : d \in Known => d + 1 \in Known
    <3> SUFFICES ASSUME NEW d \in Nat, d \in Known, d + 1 <= DEPTH
                 PROVE  hash[d + 1] = T[d + 1][at[d + 1]]
      OBVIOUS
    <3>1. hash[d] = T[d][at[d]]
      BY <1>1
    <3>2. QED
      BY <1>6, <3>1
  <2> HIDE DEF Known
  <2>3. Nat \subseteq Known
    BY <2>1, <2>2, SetInduction
  <2>4. QED
    BY <1>1, <2>3 DEF Known
<1>8. at[DEPTH] = 0
  <2>1. DEPTH \in 0..DEPTH /\ DEPTH - DEPTH = 0
    BY <1>1
  <2>2. at[DEPTH] \in Nat /\ at[DEPTH] < Width[0]
    BY <1>3, <2>1
  <2>3. QED
    BY <2>2, WidthIsComputed
<1>9. QED
  BY <1>2, <1>7, <1>8 DEF T

(* Every slot of a bundle has a path that the circuit accepts, whatever    *)
(* the number of ballots.                                                  *)
LEMMA BundleProves ==
  ASSUME NEW n, NEW i \in Slots
  PROVE  PathRoot(MerkleBundle(n).leaves[i], MerkleBundle(n).proofs[i], MerkleBundle(n).bits[i])
            = MerkleBundle(n).root
<1> DEFINE leaves == [j \in Slots |-> IF j < n THEN j + 1 ELSE 0]
           at == [j \in Slots |-> IndexAtLevel(j)]
           path == [d \in 0..DEPTH - 1 |-> TreeOf(leaves)[d][Sibling(at[i][d])]]
           bits == [d \in 0..DEPTH - 1 |-> at[i][d] % 2]
<1>1. /\ MerkleBundle(n).leaves = leaves /\ MerkleBundle(n).root = TreeOf(leaves)[DEPTH][0]
      /\ MerkleBundle(n).proofs[i] = path /\ MerkleBundle(n).bits[i] = bits
  BY DEF MerkleBundle
<1>2. \A d \in 0..DEPTH - 1 : /\ path[d] = TreeOf(leaves)[d][Sibling(IndexAtLevel(i)[d])]
                              /\ bits[d] = IndexAtLevel(i)[d] % 2
  <2> HIDE DEF leaves
  <2>1. QED
    OBVIOUS
<1> HIDE DEF leaves, path, bits
<1>3. PathRoot(leaves[i], path, bits) = TreeOf(leaves)[DEPTH][0]
  BY <1>2, PathReachesRoot
<1>4. QED
  BY <1>1, <1>3

-----------------------------------------------------------------------------
(* The ballot catalogue: what a count keeps.                               *)

\* How often a value is among the first of a sequence.
Times(f, n, v) == Cardinality({i \in 1..n : f[i] = v})

(* A number more that has a property is one more of those that have it.    *)
LEMMA CountOneMore ==
  ASSUME NEW n \in Nat, NEW f, NEW v
  PROVE  /\ Times(f, n, v) \in Nat
         /\ f[n + 1] = v => Times(f, n + 1, v) = Times(f, n, v) + 1
         /\ f[n + 1] # v => Times(f, n + 1, v) = Times(f, n, v)
<1> DEFINE S == {i \in 1..n : f[i] = v}
           T == {i \in 1..n + 1 : f[i] = v}
<1>1. IsFiniteSet(S) /\ Cardinality(S) \in Nat
  <2>1. IsFiniteSet(1..n) /\ S \subseteq 1..n
    BY FS_Interval
  <2>2. QED
    BY <2>1, FS_Subset, FS_CardinalityType
<1>2. n + 1 \notin S
  OBVIOUS
<1>3. CASE f[n + 1] = v
  <2>1. T = S \cup {n + 1}
    BY <1>3
  <2>2. Cardinality(T) = Cardinality(S) + 1
    <3> HIDE DEF S, T
    <3>1. QED
      BY <1>1, <1>2, <2>1, FS_AddElement
  <2>3. QED
    BY <1>1, <1>3, <2>2 DEF Times
<1>4. CASE f[n + 1] # v
  <2>1. T = S
    BY <1>4
  <2>2. QED
    BY <1>1, <1>4, <2>1 DEF Times
<1>5. QED
  BY <1>1, <1>3, <1>4 DEF Times

(* Keeping, one after the other, the names that are among some keys.       *)
LEMMA KeepingNames ==
  ASSUME NEW K, NEW N \in Nat, NEW name \in [1..N -> K], NEW keys, NEW kept,
         kept[0] = << >>,
         \A n \in 1..N : kept[n] = IF name[n] \in keys THEN Append(kept[n - 1], name[n]) ELSE kept[n - 1]
  PROVE  /\ kept[N] \in Seq(K) /\ Len(kept[N]) <= N
         /\ \A i \in 1..Len(kept[N]) : kept[N][i] \in keys
         /\ \A key \in keys : Times(kept[N], Len(kept[N]), key) = Times(name, N, key)
         /\ Len(kept[N]) = N => \A i \in 1..N : name[i] \in keys
<1>0. \A x \in Nat : \A f, v :
         /\ Times(f, x, v) \in Nat
         /\ f[x + 1] = v => Times(f, x + 1, v) = Times(f, x, v) + 1
         /\ f[x + 1] # v => Times(f, x + 1, v) = Times(f, x, v)
  BY CountOneMore
<1> DEFINE Typed(n) == kept[n] \in Seq(K) /\ Len(kept[n]) <= n
           Inside(n) == \A i \in 1..Len(kept[n]) : kept[n][i] \in keys
           Counted(n) == \A key \in keys : Times(kept[n], Len(kept[n]), key) = Times(name, n, key)
           Whole(n) == Len(kept[n]) = n => \A i \in 1..n : name[i] \in keys
           Known == {n \in Nat : n <= N => Typed(n) /\ Inside(n) /\ Counted(n) /\ Whole(n)}
<1>1. 0 \in Known
  <2>1. Len(kept[0]) = 0 /\ kept[0] \in Seq(K)
    OBVIOUS
  <2>2. 1..0 = {}
    OBVIOUS
  <2>3. \A key \in keys : {i \in 1..Len(kept[0]) : kept[0][i] = key} = {i \in 1..0 : name[i] = key}
    BY <2>1, <2>2
  <2>4. Counted(0)
    BY <2>3 DEF Times
  <2>5. Typed(0) /\ Inside(0) /\ Whole(0)
    BY <2>1, <2>2
  <2> HIDE DEF Typed, Inside, Counted, Whole
  <2>6. QED
    BY <2>4, <2>5
<1>2. \A n \in Nat : n \in Known => n + 1 \in Known
  <2> SUFFICES ASSUME NEW n \in Nat, n + 1 <= N, Typed(n), Inside(n), Counted(n), Whole(n)
               PROVE  Typed(n + 1) /\ Inside(n + 1) /\ Counted(n + 1) /\ Whole(n + 1)
    <3> HIDE DEF Typed, Inside, Counted, Whole
    <3>1. QED
      OBVIOUS
  <2>0. n \in Nat
    OBVIOUS
  <2>1. n + 1 \in 1..N /\ (n + 1) - 1 = n
    OBVIOUS
  <2>2. PICK s \in Seq(K) : s = kept[n]
    OBVIOUS
  <2>3. PICK e \in K : e = name[n + 1]
    BY <2>1
  <2>4. Len(s) \in Nat /\ Len(s) <= n
    BY <2>2
  <2>5. CASE e \notin keys
    <3>1. kept[n + 1] = s
      BY <2>1, <2>2, <2>3, <2>5
    <3>2. Typed(n + 1) /\ Inside(n + 1)
      BY <2>2, <2>4, <3>1
    <3>3. Counted(n + 1)
      <4> SUFFICES ASSUME NEW key \in keys
                   PROVE  Times(s, Len(s), key) = Times(name, n + 1, key)
        BY <3>1
      <4>1. name[n + 1] # key
        BY <2>3, <2>5
      <4>2. Times(name, n + 1, key) = Times(name, n, key)
        BY <4>1, <1>0, <2>0
      <4>3. QED
        BY <2>2, <4>2
    <3>4. Whole(n + 1)
      BY <2>4, <3>1
    <3>5. QED
      BY <3>2, <3>3, <3>4
  <2>6. CASE e \in keys
    <3>1. kept[n + 1] = Append(s, e)
      BY <2>1, <2>2, <2>3, <2>6
    <3>2. /\ Append(s, e) \in Seq(K) /\ Len(Append(s, e)) = Len(s) + 1
          /\ Append(s, e)[Len(s) + 1] = e
          /\ \A i \in 1..Len(s) : Append(s, e)[i] = s[i]
      OBVIOUS
    <3>3. Typed(n + 1)
      BY <2>4, <3>1, <3>2
    <3>4. Inside(n + 1)
      <4> SUFFICES ASSUME NEW i \in 1..Len(s) + 1 PROVE Append(s, e)[i] \in keys
        BY <3>1, <3>2
      <4>1. CASE i = Len(s) + 1
        BY <2>6, <3>2, <4>1
      <4>2. CASE i \in 1..Len(s)
        BY <2>2, <3>2, <4>2
      <4>3. QED
        BY <2>4, <4>1, <4>2
    <3>5. Counted(n + 1)
      <4> SUFFICES ASSUME NEW key \in keys
                   PROVE  Times(Append(s, e), Len(s) + 1, key) = Times(name, n + 1, key)
        BY <3>1, <3>2
      <4>1. Times(Append(s, e), Len(s), key) = Times(s, Len(s), key)
        <5>1. {i \in 1..Len(s) : Append(s, e)[i] = key} = {i \in 1..Len(s) : s[i] = key}
          BY <3>2
        <5>2. QED
          BY <5>1 DEF Times
      <4>2. /\ Append(s, e)[Len(s) + 1] = key =>
                  Times(Append(s, e), Len(s) + 1, key) = Times(Append(s, e), Len(s), key) + 1
            /\ Append(s, e)[Len(s) + 1] # key =>
                  Times(Append(s, e), Len(s) + 1, key) = Times(Append(s, e), Len(s), key)
        <5>1. PICK t, m : t = Append(s, e) /\ m = Len(s)
          OBVIOUS
        <5>2. m \in Nat
          BY <2>4, <5>1
        <5>3. /\ t[m + 1] = key => Times(t, m + 1, key) = Times(t, m, key) + 1
              /\ t[m + 1] # key => Times(t, m + 1, key) = Times(t, m, key)
          BY <1>0, <5>2
        <5>4. QED
          BY <5>1, <5>3
      <4>3. /\ name[n + 1] = key => Times(name, n + 1, key) = Times(name, n, key) + 1
            /\ name[n + 1] # key => Times(name, n + 1, key) = Times(name, n, key)
        BY <1>0, <2>0
      <4>4. Times(s, Len(s), key) = Times(name, n, key)
        BY <2>2
      <4>5. Append(s, e)[Len(s) + 1] = name[n + 1]
        BY <2>3, <3>2
      <4>6. QED
        BY <4>1, <4>2, <4>3, <4>4, <4>5
    <3>6. Whole(n + 1)
      <4> SUFFICES ASSUME Len(s) + 1 = n + 1, NEW i \in 1..n + 1 PROVE name[i] \in keys
        BY <3>1, <3>2
      <4>1. Len(s) = n
        BY <2>4
      <4>2. CASE i = n + 1
        BY <2>3, <2>6, <4>2
      <4>3. CASE i \in 1..n
        BY <2>2, <4>1, <4>3
      <4>4. QED
        BY <4>2, <4>3
    <3>7. QED
      BY <3>3, <3>4, <3>5, <3>6
  <2>7. QED
    BY <2>5, <2>6
<1> HIDE DEF Known
<1>3. N \in Known
  BY <1>1, <1>2, SetInduction
<1>4. QED
  BY <1>3 DEF Known

(* What a count keeps of the ballots.                                      *)
LEMMA ValidKeysOf ==
  ASSUME NEW box \in Seq(BallotRecords), NEW keys
  PROVE  /\ ValidKeys(box, keys) \in Seq(CatalogueKeys) /\ Len(ValidKeys(box, keys)) <= Len(box)
         /\ \A key \in SummaryKeys([valid |-> ValidKeys(box, keys)]) :
                Cardinality({i \in DOMAIN ValidKeys(box, keys) : ValidKeys(box, keys)[i] = key})
                    = Cardinality({i \in 1..Len(box) : KeyOf[box[i].selection] = key})
         /\ Len(ValidKeys(box, keys)) = Len(box) =>
                \A i \in 1..Len(box) : KeyOf[box[i].selection] \in SummaryKeys([valid |-> ValidKeys(box, keys)])
<1> DEFINE N == Len(box)
           S == Seq(CatalogueKeys)
           name == [i \in 1..N |-> KeyOf[box[i].selection]]
           Keep(s, n) == IF name[n] \in keys THEN Append(s, name[n]) ELSE s
           F == [p \in (1..N) \X S |-> Keep(p[2], p[1])]
           Step(f, n) == IF n = 0 THEN << >>
                         ELSE IF KeyOf[box[n].selection] \in keys
                              THEN Append(f[n - 1], KeyOf[box[n].selection]) ELSE f[n - 1]
           v == ValidKeys(box, keys)
<1>1. N \in Nat /\ name \in [1..N -> CatalogueKeys]
  <2>1. \A i \in 1..N : box[i].selection \in Candidates
    <3> TAKE i \in 1..N
    <3>1. PICK R : R = BallotRecords
      OBVIOUS
    <3>2. box[i] \in R
      <4> HIDE DEF BallotRecords
      <4>1. box \in Seq(R)
        BY <3>1
      <4>2. QED
        BY <4>1
    <3>3. QED
      BY <3>1, <3>2 DEF BallotRecords
  <2>2. QED
    BY <2>1 DEF CatalogueKeys
<1>2. \A s \in S, n \in 1..N : Keep(s, n) \in S
  <2> TAKE s \in S, n \in 1..N
  <2>1. PICK K, e : K = CatalogueKeys /\ e = name[n]
    OBVIOUS
  <2>2. e \in K /\ s \in Seq(K)
    <3> HIDE DEF name
    <3>1. QED
      BY <1>1, <2>1
  <2>3. Append(s, e) \in Seq(K)
    BY <2>2
  <2>4. QED
    BY <2>1, <2>2, <2>3
<1>3. F \in [(1..N) \X S -> S]
  <2> HIDE DEF Keep, S
  <2>1. QED
    BY <1>2
<1>4. PICK f : /\ f \in [0..N -> S] /\ f[0] = << >>
               /\ \A n \in 1..N : f[n] = F[<<n, f[n - 1]>>]
  <2>1. << >> \in S
    OBVIOUS
  <2> DEFINE Computed(T, a, m, G) ==
               \E f \in [0..m -> T] : f[0] = a /\ \A n \in 1..m : f[n] = G[<<n, f[n - 1]>>]
  <2>2. \A T : \A a \in T : \A m \in Nat : \A G \in [(1..m) \X T -> T] : Computed(T, a, m, G)
    BY RecursionExists
  <2>3. Computed(S, << >>, N, F)
    <3> HIDE DEF S, F, N, Computed
    <3>1. QED
      BY <1>1, <1>3, <2>1, <2>2, Zenon
  <2>4. QED
    <3> HIDE DEF S, F, N
    <3>1. QED
      BY <2>3
<1>5. \A n \in 1..N : f[n] = Keep(f[n - 1], n)
  <2> TAKE n \in 1..N
  <2>1. n - 1 \in 0..N
    BY <1>1
  <2>2. f[n - 1] \in S /\ f[n] = F[<<n, f[n - 1]>>]
    <3> HIDE DEF F, S
    <3>1. QED
      BY <1>4, <2>1
  <2>3. QED
    <3> HIDE DEF S, Keep
    <3>1. QED
      BY <2>2
<1>6. f = [n \in 0..N |-> Step(f, n)]
  <2>1. \A n \in 1..N : f[n] = Step(f, n)
    BY <1>5
  <2>2. \A n \in 0..N : f[n] = Step(f, n)
    <3> TAKE n \in 0..N
    <3>1. CASE n = 0
      BY <1>4, <3>1
    <3>2. CASE n \in 1..N
      BY <2>1, <3>2
    <3>3. QED
      BY <1>1, <3>1, <3>2
  <2>3. DOMAIN f = 0..N /\ f = [n \in 0..N |-> f[n]]
    <3> HIDE DEF S, F
    <3>1. QED
      BY <1>4
  <2> HIDE DEF Step
  <2>4. QED
    BY <2>2, <2>3
<1> DEFINE W == CHOOSE w : w = [n \in 0..N |-> Step(w, n)]
<1>7. v = W[N]
  BY DEF ValidKeys
<1>8. W = [n \in 0..N |-> Step(W, n)]
  <2> HIDE DEF Step
  <2>1. QED
    BY <1>6
<1> HIDE DEF W
<1>9. W[0] = << >> /\ \A n \in 1..N : W[n] = IF name[n] \in keys THEN Append(W[n - 1], name[n]) ELSE W[n - 1]
  <2>1. \A n \in 0..N : W[n] = Step(W, n)
    <3> HIDE DEF Step
    <3>1. QED
      BY <1>8
  <2>2. 0 \in 0..N /\ \A n \in 1..N : n \in 0..N /\ n # 0
    BY <1>1
  <2>3. QED
    BY <2>1, <2>2
<1> HIDE DEF v
<1>10. /\ v \in Seq(CatalogueKeys) /\ Len(v) <= N
       /\ \A i \in 1..Len(v) : v[i] \in keys
       /\ \A key \in keys : Times(v, Len(v), key) = Times(name, N, key)
       /\ Len(v) = N => \A i \in 1..N : name[i] \in keys
  <2>1. PICK K, n, g : K = CatalogueKeys /\ n = N /\ g = name
    OBVIOUS
  <2> HIDE DEF name, N
  <2>2. n \in Nat /\ g \in [1..n -> K] /\ W[0] = << >>
        /\ \A x \in 1..n : W[x] = IF g[x] \in keys THEN Append(W[x - 1], g[x]) ELSE W[x - 1]
    BY <1>1, <1>9, <2>1
  <2>3. /\ W[n] \in Seq(K) /\ Len(W[n]) <= n
        /\ \A i \in 1..Len(W[n]) : W[n][i] \in keys
        /\ \A key \in keys : Times(W[n], Len(W[n]), key) = Times(g, n, key)
        /\ Len(W[n]) = n => \A i \in 1..n : g[i] \in keys
    BY <2>2, KeepingNames
  <2>4. QED
    BY <1>7, <2>1, <2>3
<1>11. DOMAIN v = 1..Len(v) /\ Len(v) \in Nat
  BY <1>10
<1>12. \A key : /\ Times(v, Len(v), key) = Cardinality({i \in DOMAIN v : v[i] = key})
                /\ Times(name, N, key) = Cardinality({i \in 1..N : KeyOf[box[i].selection] = key})
  <2> TAKE key
  <2>1. {i \in 1..N : name[i] = key} = {i \in 1..N : KeyOf[box[i].selection] = key}
    OBVIOUS
  <2>2. QED
    BY <1>11, <2>1 DEF Times
<1>13. SummaryKeys([valid |-> v]) = {v[i] : i \in 1..Len(v)}
  BY <1>11 DEF SummaryKeys
<1>14. ASSUME Len(v) = N, NEW i \in 1..N PROVE name[i] \in SummaryKeys([valid |-> v])
  <2> DEFINE K == {j \in 1..Len(v) : v[j] = name[i]}
             M == {j \in 1..N : name[j] = name[i]}
  <2>1. Cardinality(K) = Cardinality(M)
    BY <1>10, <1>14 DEF Times
  <2>2. IsFiniteSet(M) /\ M # {}
    <3>1. IsFiniteSet(1..N) /\ M \subseteq 1..N /\ i \in M
      BY <1>1, FS_Interval
    <3>2. QED
      BY <3>1, FS_Subset
  <2>3. IsFiniteSet(K)
    <3>1. IsFiniteSet(1..Len(v)) /\ K \subseteq 1..Len(v)
      BY <1>11, FS_Interval
    <3>2. QED
      BY <3>1, FS_Subset
  <2>4. K # {}
    <3> HIDE DEF K, M
    <3>1. QED
      BY <2>1, <2>2, <2>3, FS_EmptySet
  <2>5. QED
    BY <1>13, <2>4
<1>15. \A key \in SummaryKeys([valid |-> v]) :
          Cardinality({i \in DOMAIN v : v[i] = key})
            = Cardinality({i \in 1..N : KeyOf[box[i].selection] = key})
  <2> TAKE key \in SummaryKeys([valid |-> v])
  <2>1. key \in keys
    BY <1>10, <1>13
  <2>2. Times(v, Len(v), key) = Times(name, N, key)
    BY <1>10, <2>1
  <2> HIDE DEF name, N
  <2>3. QED
    BY <1>12, <2>2
<1>16. Len(v) = N => \A i \in 1..N : KeyOf[box[i].selection] \in SummaryKeys([valid |-> v])
  BY <1>14
<1>17. QED
  BY <1>10, <1>15, <1>16 DEF v

-----------------------------------------------------------------------------
(* The ballot catalogue: the order of the candidates.                      *)

\* Rows that their order and their time tell apart.
Ordered(recs) ==
    /\ \A c \in DOMAIN recs : recs[c].order \in Nat /\ recs[c].born \in Nat
    /\ \A c, d \in DOMAIN recs : c # d => recs[c].born # recs[d].born

(* The table is in such an order.                                          *)
LEMMA CandidatesAreOrdered ==
  ASSUME candidates \in Rows, BornApart
  PROVE  Ordered(candidates)
<1>1. \A c \in DOMAIN candidates : candidates[c] \in RowRecords
  BY RowsAreFunctions
<1>2. \A c \in DOMAIN candidates : candidates[c].order \in Nat /\ candidates[c].born \in Nat
  BY <1>1 DEF RowRecords, Orders
<1>3. QED
  BY <1>2 DEF Ordered, BornApart

(* Of some rows of it, one comes first.                                    *)
LEMMA FirstRowExists ==
  ASSUME NEW recs, Ordered(recs), NEW S \in SUBSET DOMAIN recs, S # {}
  PROVE  \E c \in S : \A d \in S \ {c} : Precedes(recs, c, d)
<1>1. \A c \in S : recs[c].order \in Nat /\ recs[c].born \in Nat
  BY DEF Ordered
<1>2. PICK n \in {recs[c].order : c \in S} : \A m \in {recs[c].order : c \in S} : n <= m
  <2>1. {recs[c].order : c \in S} \in SUBSET Nat /\ {recs[c].order : c \in S} # {}
    BY <1>1
  <2>2. QED
    BY <2>1, LeastNumber
<1> DEFINE T == {c \in S : recs[c].order = n}
<1>3. PICK b \in {recs[c].born : c \in T} : \A m \in {recs[c].born : c \in T} : b <= m
  <2>1. {recs[c].born : c \in T} \in SUBSET Nat /\ {recs[c].born : c \in T} # {}
    BY <1>1, <1>2
  <2> HIDE DEF T
  <2>2. QED
    BY <2>1, LeastNumber
<1>4. PICK c \in T : recs[c].born = b
  BY <1>3
<1>5. ASSUME NEW d \in S, d # c PROVE Precedes(recs, c, d)
  <2>1. recs[c].order = n /\ recs[d].order \in Nat /\ recs[c].order \in Nat
    BY <1>1, <1>4
  <2>2. n <= recs[d].order
    BY <1>2
  <2>3. CASE recs[d].order = n
    <3>1. recs[c].born <= recs[d].born
      BY <1>3, <1>4, <2>3
    <3>2. recs[c].born # recs[d].born /\ recs[c].born \in Nat /\ recs[d].born \in Nat
      BY <1>1, <1>4, <1>5 DEF Ordered
    <3>3. recs[c].born < recs[d].born
      BY <3>1, <3>2
    <3>4. QED
      BY <2>1, <2>3, <3>3 DEF Precedes
  <2>4. CASE recs[d].order # n
    BY <2>1, <2>2, <2>4 DEF Precedes
  <2>5. QED
    BY <2>3, <2>4
<1>6. QED
  BY <1>4, <1>5

(* The first row of an active key is an active row with that key.          *)
LEMMA FirstWithKey ==
  ASSUME NEW recs, Ordered(recs), NEW key \in ActiveKeys(recs)
  PROVE  FirstWith(recs, key) \in ActiveIds(recs) /\ KeyOf[FirstWith(recs, key)] = key
<1> DEFINE S == {c \in ActiveIds(recs) : KeyOf[c] = key}
           IsFirst(c) == KeyOf[c] = key
                         /\ \A d \in ActiveIds(recs) \ {c} : KeyOf[d] = key => Precedes(recs, c, d)
<1>1. S \in SUBSET DOMAIN recs /\ S # {}
  BY DEF ActiveKeys, ActiveIds
<1>2. PICK c \in S : \A d \in S \ {c} : Precedes(recs, c, d)
  <2> HIDE DEF S
  <2>1. QED
    BY <1>1, FirstRowExists
<1>3. c \in ActiveIds(recs) /\ IsFirst(c)
  BY <1>2
<1>4. FirstWith(recs, key) = CHOOSE x \in ActiveIds(recs) : IsFirst(x)
  BY DEF FirstWith
<1>5. FirstWith(recs, key) \in ActiveIds(recs) /\ IsFirst(FirstWith(recs, key))
  <2> HIDE DEF IsFirst
  <2>1. QED
    BY <1>3, <1>4
<1>6. QED
  BY <1>5

(* There are finitely many active keys.                                    *)
LEMMA KeysAreFinite ==
  /\ IsFiniteSet(CatalogueKeys)
  /\ \A recs \in Rows : ActiveKeys(recs) \subseteq CatalogueKeys /\ IsFiniteSet(ActiveKeys(recs))
<1>1. IsFiniteSet(Candidates)
  BY CatalogueAssumption DEF CatalogueAssumption
<1>2. [c \in Candidates |-> KeyOf[c]] \in Surjection(Candidates, CatalogueKeys)
  BY DEF Surjection, CatalogueKeys
<1>3. IsFiniteSet(CatalogueKeys)
  BY <1>1, <1>2, FS_Surjection
<1>4. ASSUME NEW recs \in Rows PROVE ActiveKeys(recs) \subseteq CatalogueKeys
  BY ActiveAreCandidates DEF ActiveKeys, CatalogueKeys
<1>5. QED
  BY <1>3, <1>4, FS_Subset

(* The candidate order gives a place of its own to each key.               *)
LEMMA CandidateOrderIsInjective ==
  ASSUME NEW recs \in Rows, Ordered(recs),
         NEW a \in ActiveKeys(recs), NEW b \in ActiveKeys(recs), a # b
  PROVE  CandidateOrder(recs)[a] # CandidateOrder(recs)[b]
<1> DEFINE first(key) == FirstWith(recs, key)
           before(key) == {other \in ActiveKeys(recs) : Precedes(recs, first(other), first(key))}
<1>1. \A key \in ActiveKeys(recs) : CandidateOrder(recs)[key] = Cardinality(before(key))
  BY DEF CandidateOrder
<1>2. \A key \in ActiveKeys(recs) : /\ first(key) \in DOMAIN recs /\ KeyOf[first(key)] = key
                                    /\ recs[first(key)].order \in Nat /\ recs[first(key)].born \in Nat
  BY FirstWithKey DEF ActiveIds, Ordered
<1> HIDE DEF first
<1>3. ASSUME NEW x \in ActiveKeys(recs), NEW y \in ActiveKeys(recs), Precedes(recs, first(x), first(y))
      PROVE  Cardinality(before(x)) # Cardinality(before(y))
  <2>1. before(x) \subseteq before(y)
    <3> SUFFICES ASSUME NEW z \in ActiveKeys(recs), Precedes(recs, first(z), first(x))
                 PROVE  Precedes(recs, first(z), first(y))
      OBVIOUS
    <3>1. PICK p, q, r : p = recs[first(z)] /\ q = recs[first(x)] /\ r = recs[first(y)]
      OBVIOUS
    <3>2. /\ p.order \in Nat /\ q.order \in Nat /\ r.order \in Nat
          /\ p.born \in Nat /\ q.born \in Nat /\ r.born \in Nat
      BY <1>2, <3>1
    <3>3. /\ p.order < q.order \/ (p.order = q.order /\ p.born < q.born)
          /\ q.order < r.order \/ (q.order = r.order /\ q.born < r.born)
      BY <1>3, <3>1 DEF Precedes
    <3>4. p.order < r.order \/ (p.order = r.order /\ p.born < r.born)
      BY <3>2, <3>3
    <3>5. QED
      BY <3>1, <3>4 DEF Precedes
  <2>2. x \in before(y) /\ x \notin before(x)
    BY <1>2, <1>3 DEF Precedes
  <2>3. IsFiniteSet(before(y))
    <3>1. before(y) \subseteq ActiveKeys(recs)
      OBVIOUS
    <3>2. QED
      BY <3>1, KeysAreFinite, FS_Subset
  <2> HIDE DEF before
  <2>4. QED
    BY <2>1, <2>2, <2>3, FS_Subset
<1>4. Precedes(recs, first(a), first(b)) \/ Precedes(recs, first(b), first(a))
  <2>1. first(a) # first(b)
    BY <1>2
  <2>2. recs[first(a)].born # recs[first(b)].born
    BY <1>2, <2>1 DEF Ordered
  <2>3. PICK p, q : p = recs[first(a)] /\ q = recs[first(b)]
    OBVIOUS
  <2>4. p.order \in Nat /\ q.order \in Nat /\ p.born \in Nat /\ q.born \in Nat /\ p.born # q.born
    BY <1>2, <2>2, <2>3
  <2>5. \/ p.order < q.order \/ (p.order = q.order /\ p.born < q.born)
        \/ q.order < p.order \/ (q.order = p.order /\ q.born < p.born)
    BY <2>4
  <2>6. QED
    BY <2>3, <2>5 DEF Precedes
<1>5. QED
  BY <1>1, <1>3, <1>4

-----------------------------------------------------------------------------
(* The ballot catalogue: the selections of the circuits.                   *)

(* Counting from 0 counts the same as counting from 1.                     *)
LEMMA CountFromZero ==
  ASSUME NEW n \in Nat, NEW f, NEW v
  PROVE  Cardinality({i \in 0..n - 1 : f[i + 1] = v}) = Times(f, n, v)
<1> DEFINE S == {i \in 1..n : f[i] = v}
           T == {i \in 0..n - 1 : f[i + 1] = v}
           g == [i \in S |-> i - 1]
<1>1. IsFiniteSet(S)
  <2>1. IsFiniteSet(1..n) /\ S \subseteq 1..n
    BY FS_Interval
  <2>2. QED
    BY <2>1, FS_Subset
<1>2. g \in [S -> T]
  <2>1. \A i \in S : i - 1 \in T
    <3> TAKE i \in S
    <3>1. i \in 1..n /\ f[i] = v /\ i - 1 \in 0..n - 1 /\ (i - 1) + 1 = i
      OBVIOUS
    <3>2. QED
      BY <3>1
  <2>2. QED
    BY <2>1
<1>3. \A i, j \in S : g[i] = g[j] => i = j
  OBVIOUS
<1>4. \A t \in T : \E i \in S : g[i] = t
  <2> TAKE t \in T
  <2>1. t + 1 \in S /\ (t + 1) - 1 = t
    OBVIOUS
  <2>2. QED
    BY <2>1
<1> HIDE DEF g, S, T
<1>5. g \in Bijection(S, T)
  <2>1. DOMAIN g = S
    BY <1>2
  <2>2. QED
    BY <1>2, <1>3, <1>4, <2>1 DEF Bijection, Injection, IsInjective, Surjection
<1>6. Cardinality(T) = Cardinality(S)
  BY <1>1, <1>5, FS_Bijection DEF ExistsBijection
<1>7. QED
  BY <1>6 DEF S, T, Times

\* The slots of the counted keys, ballot by ballot.
Places(script, slots) == [i \in 1..Len(script.valid) |-> slots[script.valid[i]]]

(* The slots of a table are numbers below NUM_CANDIDATES.                  *)
LEMMA SlotTablesAreFunctions ==
  ASSUME NEW slots \in SlotTables
  PROVE  /\ DOMAIN slots \subseteq CatalogueKeys
         /\ \A key \in DOMAIN slots : slots[key] \in 0..NUM_CANDIDATES - 1
<1>1. PICK S \in SUBSET CatalogueKeys : slots \in [S -> 0..NUM_CANDIDATES - 1]
  BY DEF SlotTables
<1>2. QED
  BY <1>1

(* The vote counts of a count, when every key it counted has a slot.       *)
LEMMA VoteCountsOfPlaces ==
  ASSUME NEW script \in Scripts, NEW slots \in SlotTables, SummaryKeys(script) \subseteq DOMAIN slots
  PROVE  /\ Len(script.valid) \in Nat /\ DOMAIN script.valid = 1..Len(script.valid)
         /\ Places(script, slots) \in [1..Len(script.valid) -> 0..NUM_CANDIDATES - 1]
         /\ \A i \in 1..Len(script.valid) : script.valid[i] \in DOMAIN slots
         /\ \A j \in 0..NUM_CANDIDATES - 1 :
                VoteCounts(script, slots)[j] = Times(Places(script, slots), Len(script.valid), j)
<1>1. Len(script.valid) \in Nat /\ DOMAIN script.valid = 1..Len(script.valid)
  BY DEF Scripts
<1>2. \A i \in 1..Len(script.valid) : script.valid[i] \in DOMAIN slots
  BY <1>1 DEF SummaryKeys
<1>3. Places(script, slots) \in [1..Len(script.valid) -> 0..NUM_CANDIDATES - 1]
  BY <1>2, SlotTablesAreFunctions DEF Places
<1>4. ASSUME NEW j \in 0..NUM_CANDIDATES - 1
      PROVE  VoteCounts(script, slots)[j] = Times(Places(script, slots), Len(script.valid), j)
  <2>1. VoteCounts(script, slots)[j] =
          Cardinality({i \in DOMAIN script.valid :
              script.valid[i] \in DOMAIN slots /\ slots[script.valid[i]] = j})
    BY DEF VoteCounts
  <2>2. {i \in DOMAIN script.valid : script.valid[i] \in DOMAIN slots /\ slots[script.valid[i]] = j}
          = {i \in 1..Len(script.valid) : Places(script, slots)[i] = j}
    BY <1>1, <1>2 DEF Places
  <2>3. QED
    BY <2>1, <2>2 DEF Times
<1>5. QED
  BY <1>1, <1>2, <1>3, <1>4

(* What the first circuit asks of its witness holds of every count that    *)
(* fits its slots.                                                         *)
LEMMA WitnessCloses ==
  ASSUME NEW script \in Scripts, NEW slots \in SlotTables, SummaryKeys(script) \subseteq DOMAIN slots,
         Len(script.valid) <= MAX_BALLOTS
  PROVE  TallyVerifier(TallyWitness(script, slots))
<1> DEFINE N == Len(script.valid)
           place == Places(script, slots)
           w == TallyWitness(script, slots)
<1>1. /\ N \in Nat /\ DOMAIN script.valid = 1..N /\ place \in [1..N -> 0..NUM_CANDIDATES - 1]
      /\ \A i \in 1..N : script.valid[i] \in DOMAIN slots /\ place[i] = slots[script.valid[i]]
      /\ \A j \in 0..NUM_CANDIDATES - 1 : VoteCounts(script, slots)[j] = Times(place, N, j)
  BY VoteCountsOfPlaces DEF Places
<1>2. NUM_CANDIDATES \in Nat /\ MAX_BALLOTS \in Nat /\ N <= MAX_BALLOTS
  BY CatalogueBounds, MaxBallotsIsNat
<1>3. /\ w.voteCounts = VoteCounts(script, slots) /\ w.totalValid = N
      /\ w.merkle = MerkleBundle(script.ballots)
      /\ \A i \in Slots : w.selections[i] =
            IF i + 1 \in DOMAIN script.valid /\ script.valid[i + 1] \in DOMAIN slots
            THEN slots[script.valid[i + 1]] ELSE NUM_CANDIDATES
  BY DEF TallyWitness
<1> HIDE DEF N, place, w
<1>4. \A i \in 0..N - 1 : i \in Slots /\ w.selections[i] = place[i + 1]
                          /\ w.selections[i] \in 0..NUM_CANDIDATES - 1
  <2> TAKE i \in 0..N - 1
  <2>1. i \in Slots /\ i + 1 \in 1..N
    BY <1>1, <1>2 DEF Slots
  <2>2. w.selections[i] = place[i + 1]
    BY <1>1, <1>3, <2>1
  <2>3. place[i + 1] \in 0..NUM_CANDIDATES - 1
    BY <1>1, <2>1
  <2>4. QED
    BY <2>1, <2>2, <2>3
<1>5. \A i \in Slots : i \notin 0..N - 1 => w.selections[i] = NUM_CANDIDATES
  <2> SUFFICES ASSUME NEW i \in Slots, i \notin 0..N - 1 PROVE w.selections[i] = NUM_CANDIDATES
    OBVIOUS
  <2>1. i + 1 \notin 1..N
    BY <1>1, <1>2 DEF Slots
  <2>2. QED
    BY <1>1, <1>3, <2>1
<1>6. \A i \in Slots : w.selections[i] \in 0..NUM_CANDIDATES
  <2> TAKE i \in Slots
  <2>1. CASE i \in 0..N - 1
    BY <1>2, <1>4, <2>1
  <2>2. CASE i \notin 0..N - 1
    BY <1>2, <1>5, <2>2
  <2>3. QED
    BY <2>1, <2>2
<1>7. ASSUME NEW j \in 0..NUM_CANDIDATES - 1
      PROVE  w.voteCounts[j] = Cardinality({i \in Slots : w.selections[i] = j})
  <2>1. j # NUM_CANDIDATES
    BY <1>2
  <2>2. {i \in Slots : w.selections[i] = j} = {i \in 0..N - 1 : place[i + 1] = j}
    BY <1>4, <1>5, <2>1
  <2>3. Cardinality({i \in 0..N - 1 : place[i + 1] = j}) = Times(place, N, j)
    <3>1. PICK f, n : f = place /\ n = N
      OBVIOUS
    <3>2. n \in Nat
      BY <1>1, <3>1
    <3>3. Cardinality({i \in 0..n - 1 : f[i + 1] = j}) = Times(f, n, j)
      BY <3>2, CountFromZero
    <3>4. QED
      BY <3>1, <3>3
  <2>4. QED
    BY <1>1, <1>3, <2>2, <2>3
<1>8. w.totalValid = Cardinality({i \in Slots : w.selections[i] # NUM_CANDIDATES})
  <2>1. {i \in Slots : w.selections[i] # NUM_CANDIDATES} = 0..N - 1
    <3>1. \A i \in 0..N - 1 : w.selections[i] # NUM_CANDIDATES
      BY <1>2, <1>4
    <3>2. QED
      BY <1>4, <1>5, <3>1
  <2>2. Cardinality(0..N - 1) = N
    <3>1. 0 \in Int /\ N - 1 \in Int
      BY <1>1
    <3>2. Cardinality(0..N - 1) = IF 0 > N - 1 THEN 0 ELSE (N - 1) - 0 + 1
      BY <3>1, FS_Interval
    <3>3. QED
      BY <1>1, <3>2
  <2>3. QED
    BY <1>3, <2>1, <2>2
<1>9. Aggregates(w)
  BY <1>6, <1>7, <1>8 DEF Aggregates
<1>10. \A i \in Slots : PathRoot(w.merkle.leaves[i], w.merkle.proofs[i], w.merkle.bits[i]) = w.merkle.root
  BY <1>3, BundleProves
<1>11. TallyVerifier(w)
  BY <1>9, <1>10 DEF TallyVerifier
<1>12. QED
  BY <1>11 DEF w

(* What the second circuit checks says that the positions are counted as   *)
(* the keys were.                                                          *)
LEMMA PairIsChecked ==
  ASSUME NEW script \in Scripts, NEW slots \in SlotTables, NEW box \in Seq(BallotRecords),
         Len(box) = script.ballots, Len(box) <= MAX_BALLOTS,
         DecryptionVerifier(DecryptionWitness(script, slots, box))
  PROVE  \A j \in 0..NUM_CANDIDATES - 1 :
            Cardinality({i \in 1..script.ballots : box[i].selectionIndex = j}) = VoteCounts(script, slots)[j]
<1> DEFINE n == script.ballots
           index == [i \in 1..n |-> box[i].selectionIndex]
           w == DecryptionWitness(script, slots, box)
<1>1. n \in Nat /\ DOMAIN box = 1..n /\ n <= MAX_BALLOTS /\ MAX_BALLOTS \in Nat
  <2>1. PICK R : R = BallotRecords
    OBVIOUS
  <2>2. box \in Seq(R)
    BY <2>1
  <2>3. Len(box) \in Nat /\ DOMAIN box = 1..Len(box)
    BY <2>2
  <2>4. QED
    BY <2>3, MaxBallotsIsNat
<1>2. /\ w.voteCounts = VoteCounts(script, slots)
      /\ \A i \in Slots : w.selections[i] =
            IF i + 1 \in DOMAIN box THEN box[i + 1].selectionIndex ELSE NUM_CANDIDATES
  BY DEF DecryptionWitness
<1>3. \A j \in 0..NUM_CANDIDATES - 1 : w.voteCounts[j] = Cardinality({i \in Slots : w.selections[i] = j})
  BY DEF DecryptionVerifier, Aggregates
<1> HIDE DEF w, n
<1> SUFFICES ASSUME NEW j \in 0..NUM_CANDIDATES - 1
             PROVE  Cardinality({i \in 1..n : box[i].selectionIndex = j}) = VoteCounts(script, slots)[j]
  BY DEF n
<1>4. j # NUM_CANDIDATES
  BY CatalogueBounds
<1>5. {i \in Slots : w.selections[i] = j} = {i \in 0..n - 1 : index[i + 1] = j}
  <2>1. ASSUME NEW i \in Slots, w.selections[i] = j PROVE i \in 0..n - 1 /\ index[i + 1] = j
    <3>1. i + 1 \in 1..n /\ box[i + 1].selectionIndex = j
      BY <1>1, <1>2, <1>4, <2>1
    <3>2. QED
      BY <1>1, <3>1 DEF Slots
  <2>2. ASSUME NEW i \in 0..n - 1, index[i + 1] = j PROVE i \in Slots /\ w.selections[i] = j
    <3>1. i \in Slots /\ i + 1 \in 1..n
      BY <1>1 DEF Slots
    <3>2. QED
      BY <1>1, <1>2, <2>2, <3>1
  <2> HIDE DEF index
  <2>3. QED
    BY <2>1, <2>2
<1>6. Cardinality({i \in 0..n - 1 : index[i + 1] = j}) = Times(index, n, j)
  <2> HIDE DEF index
  <2>1. QED
    BY <1>1, CountFromZero
<1>7. Times(index, n, j) = Cardinality({i \in 1..n : box[i].selectionIndex = j})
  <2>1. {i \in 1..n : index[i] = j} = {i \in 1..n : box[i].selectionIndex = j}
    OBVIOUS
  <2>2. QED
    BY <2>1 DEF Times
<1>8. QED
  BY <1>2, <1>3, <1>5, <1>6, <1>7

-----------------------------------------------------------------------------
(* The ballot catalogue: one lemma per action of the tally board.          *)

(* A count: its valid keys are those of the ballots that the catalogue has.*)
LEMMA CatalogueComputeRealTally ==
  ASSUME CatalogueInv, ComputeRealTally
  PROVE  CatalogueInv'
<1> DEFINE keys == ActiveKeys(candidates)
           valid == ValidKeys(ballots, keys)
<1>1. /\ Charge("counts", MaxCounts) /\ Len(ballots) <= MAX_BALLOTS
      /\ transcript' = [ballots |-> Len(ballots), valid |-> valid]
      /\ UNCHANGED <<electionPhase, consoleVars, votingVars, job>>
  BY DEF ComputeRealTally
<1>2. /\ ballots \in Seq(BallotRecords) /\ Len(ballots) <= MaxBallots
      /\ budget \in [saves : Nat, counts : Nat, deaths : Nat]
  BY DEF CatalogueInv, CatalogueTyped
<1>3. /\ budget' \in [saves : Nat, counts : Nat, deaths : Nat]
      /\ budget'.deaths = budget.deaths
  BY <1>1, <1>2, ChargeIsTyped
<1>4. Len(ballots) \in 0..MaxBallots
  <2>1. PICK R : R = BallotRecords
    OBVIOUS
  <2>2. ballots \in Seq(R)
    BY <1>2, <2>1
  <2>3. Len(ballots) \in Nat
    BY <2>2
  <2>4. QED
    BY <1>2, <2>3, CatalogueBounds
<1>5. /\ valid \in Seq(CatalogueKeys) /\ Len(valid) <= Len(ballots)
      /\ \A key \in SummaryKeys([valid |-> valid]) :
              Cardinality({i \in DOMAIN valid : valid[i] = key})
                  = Cardinality({i \in 1..Len(ballots) : Named(i) = key})
      /\ Len(valid) = Len(ballots) =>
              \A i \in 1..Len(ballots) : Named(i) \in SummaryKeys([valid |-> valid])
  BY <1>2, ValidKeysOf DEF Named
<1> HIDE DEF valid
<1>6. transcript' \in Scripts /\ transcript'.ballots = Len(ballots) /\ transcript'.valid = valid
  BY <1>1, <1>4, <1>5 DEF Scripts, CatalogueKeys
<1>7. SummaryKeys(transcript') = SummaryKeys([valid |-> valid])
  BY <1>6 DEF SummaryKeys
<1>8. CountedRight(transcript)'
  <2>1. ballots' = ballots
    BY <1>1 DEF votingVars
  <2>2. \A i : Named(i)' = Named(i)
    BY <2>1 DEF Named
  <2> HIDE DEF SummaryKeys, Named
  <2>3. QED
    BY <1>1, <1>5, <1>6, <1>7, <2>1, <2>2 DEF CountedRight
<1>9. CountedRight(job.script)'
  <2>1. ballots' = ballots /\ job' = job
    BY <1>1 DEF votingVars
  <2>2. QED
    BY <2>1 DEF CatalogueInv, TallySound, CountsSound, CountedRight, Named
<1>10. TallySound'
  <2>1. ballots' = ballots /\ job' = job
    BY <1>1 DEF votingVars
  <2>2. SlotsSound'
    BY <2>1 DEF CatalogueInv, TallySound, SlotsSound
  <2>3. JobSound'
    BY <2>1 DEF CatalogueInv, TallySound, JobSound, PairChecked
  <2>4. QED
    BY <1>8, <1>9, <2>2, <2>3 DEF TallySound, CountsSound
<1>11. ConsoleSound'
  BY <1>1, <1>3, ConsoleUntouched DEF CatalogueInv
<1>12. CatalogueTyped'
  BY <1>1, <1>3, <1>6 DEF CatalogueInv, CatalogueTyped, consoleVars, votingVars, EditorTyped
<1>13. QED
  BY <1>10, <1>11, <1>12 DEF CatalogueInv

(* The slots are those of the catalogue, or any order of the keys counted; *)
(* they are distinct, and every key has one.                               *)
LEMMA CatalogueGenerateZkProof ==
  ASSUME CatalogueInv, GenerateZkProof
  PROVE  CatalogueInv'
<1> DEFINE keys == IF ActiveIds(candidates) # {} THEN ActiveKeys(candidates) ELSE SummaryKeys(transcript)
<1>1. PICK slots \in [keys -> 0..NUM_CANDIDATES - 1] :
          /\ IF ActiveIds(candidates) # {} THEN slots = CandidateOrder(candidates)
             ELSE \A a, b \in keys : slots[a] = slots[b] => a = b
          /\ job' = [at |-> "BUILDING", script |-> transcript, slots |-> slots, read |-> 0]
  BY DEF GenerateZkProof
<1>2. /\ SummaryKeys(transcript) \subseteq keys
      /\ UNCHANGED <<electionPhase, consoleVars, votingVars, transcript, budget>>
  BY DEF GenerateZkProof
<1>3. candidates \in Rows /\ transcript \in Scripts /\ BornApart /\ CountedRight(transcript)
  BY DEF CatalogueInv, CatalogueTyped, ConsoleSound, TallySound, CountsSound
<1>4. DOMAIN slots = keys
  OBVIOUS
<1>5. keys \subseteq CatalogueKeys
  <2>1. SummaryKeys(transcript) \subseteq CatalogueKeys
    <3>1. transcript.valid \in Seq(CatalogueKeys)
      BY <1>3 DEF Scripts, CatalogueKeys
    <3>2. PICK K : K = CatalogueKeys
      OBVIOUS
    <3>3. transcript.valid \in Seq(K)
      BY <3>1, <3>2
    <3>4. \A i \in DOMAIN transcript.valid : transcript.valid[i] \in K
      BY <3>3
    <3>5. QED
      BY <3>2, <3>4 DEF SummaryKeys
  <2>2. QED
    BY <1>3, <2>1, KeysAreFinite
<1>6. slots \in SlotTables
  BY <1>5 DEF SlotTables
<1>7. \A a, b \in keys : slots[a] = slots[b] => a = b
  <2>1. CASE ActiveIds(candidates) = {}
    BY <1>1, <2>1
  <2>2. CASE ActiveIds(candidates) # {}
    <3>1. slots = CandidateOrder(candidates) /\ keys = ActiveKeys(candidates)
      BY <1>1, <2>2
    <3>2. Ordered(candidates)
      BY <1>3, CandidatesAreOrdered
    <3>3. QED
      BY <1>3, <3>1, <3>2, CandidateOrderIsInjective
  <2>3. QED
    BY <2>1, <2>2
<1> HIDE DEF keys
<1>8. /\ job' \in Jobs /\ job'.at = "BUILDING" /\ job'.script = transcript /\ job'.slots = slots
  BY <1>1, <1>3, <1>6 DEF Jobs
<1>9. ballots' = ballots /\ transcript' = transcript
  BY <1>2 DEF votingVars
<1>10. CountsSound'
  <2>1. CountedRight(transcript)'
    BY <1>3, <1>9 DEF CountedRight, Named
  <2>2. CountedRight(job.script)'
    BY <1>3, <1>8, <1>9 DEF CountedRight, Named
  <2>3. QED
    BY <2>1, <2>2 DEF CountsSound
<1>11. SlotsSound'
  BY <1>2, <1>4, <1>7, <1>8 DEF SlotsSound
<1>12. JobSound'
  BY <1>8 DEF JobSound
<1>13. ConsoleSound'
  BY <1>2, ConsoleUntouched DEF CatalogueInv
<1>14. CatalogueTyped'
  BY <1>2, <1>8 DEF CatalogueInv, CatalogueTyped, consoleVars, votingVars, EditorTyped
<1>15. QED
  BY <1>10, <1>11, <1>12, <1>13, <1>14 DEF CatalogueInv, TallySound

(* The tally circuit accepts the witness of the job.                       *)
LEMMA JobWitnessCloses ==
  ASSUME CatalogueInv
  PROVE  TallyVerifier(TallyWitness(job.script, job.slots))
<1>1. job.script \in Scripts /\ job.slots \in SlotTables
  <2>1. job \in Jobs
    BY DEF CatalogueInv, CatalogueTyped
  <2>2. QED
    BY <2>1 DEF Jobs
<1>2. SummaryKeys(job.script) \subseteq DOMAIN job.slots
  BY DEF CatalogueInv, TallySound, SlotsSound
<1>3. Len(job.script.valid) <= MAX_BALLOTS
  <2>1. /\ Len(job.script.valid) <= job.script.ballots /\ job.script.ballots <= MAX_BALLOTS
    BY DEF CatalogueInv, TallySound, CountsSound, CountedRight
  <2>2. Len(job.script.valid) \in Nat /\ job.script.ballots \in Nat
    <3>1. job.script.ballots \in 0..MaxBallots /\ job.script.valid \in Seq(CatalogueKeys)
      BY <1>1 DEF Scripts, CatalogueKeys
    <3>2. QED
      BY <3>1
  <2>3. QED
    BY <2>1, <2>2, MaxBallotsIsNat
<1>4. QED
  BY <1>1, <1>2, <1>3, WitnessCloses

(* So the job goes on to its decryption proof.                             *)
LEMMA CatalogueProveTally ==
  ASSUME CatalogueInv, ProveTally
  PROVE  CatalogueInv'
<1> DEFINE next == IF TallyVerifier(TallyWitness(job.script, job.slots)) THEN "PAIRING" ELSE "FAILED"
<1>1. /\ job' = [job EXCEPT !.at = next]
      /\ UNCHANGED <<electionPhase, consoleVars, votingVars, transcript, budget>>
  BY DEF ProveTally
<1>2. job \in Jobs /\ job.script \in Scripts /\ job.slots \in SlotTables
  <2>1. job \in Jobs
    BY DEF CatalogueInv, CatalogueTyped
  <2>2. QED
    BY <2>1 DEF Jobs
<1>3. TallyVerifier(TallyWitness(job.script, job.slots))
  BY JobWitnessCloses
<1>4. next = "PAIRING"
  BY <1>3
<1> HIDE DEF next
<1>5. job' \in Jobs /\ job'.at = "PAIRING" /\ job'.script = job.script /\ job'.slots = job.slots
  BY <1>1, <1>2, <1>4 DEF Jobs
<1>6. ballots' = ballots /\ transcript' = transcript
  BY <1>1 DEF votingVars
<1>7. CountsSound'
  BY <1>5, <1>6 DEF CatalogueInv, TallySound, CountsSound, CountedRight, Named
<1>8. SlotsSound'
  BY <1>5 DEF CatalogueInv, TallySound, SlotsSound
<1>9. JobSound'
  BY <1>5 DEF JobSound
<1>10. ConsoleSound'
  BY <1>1, ConsoleUntouched DEF CatalogueInv
<1>11. CatalogueTyped'
  BY <1>1, <1>5 DEF CatalogueInv, CatalogueTyped, consoleVars, votingVars, EditorTyped
<1>12. QED
  BY <1>7, <1>8, <1>9, <1>10, <1>11 DEF CatalogueInv, TallySound

(* What the decryption circuit accepts is a count of the positions, by slot.*)
LEMMA CatalogueProveDecryption ==
  ASSUME CatalogueInv, ProveDecryption
  PROVE  CatalogueInv'
<1> DEFINE w == DecryptionWitness(job.script, job.slots, ballots)
           passes == /\ Len(ballots) = job.script.ballots
                     /\ \A i \in DOMAIN ballots : ballots[i].selectionIndex <= NUM_CANDIDATES
                     /\ DecryptionVerifier(w)
           next == IF passes THEN "VERIFIED_OFFCHAIN" ELSE "FAILED"
<1>1. /\ job' = [job EXCEPT !.read = Len(ballots), !.at = next]
      /\ UNCHANGED <<electionPhase, consoleVars, votingVars, transcript, budget>>
  BY DEF ProveDecryption
<1>2. job \in Jobs /\ job.script \in Scripts /\ job.slots \in SlotTables
  <2>1. job \in Jobs
    BY DEF CatalogueInv, CatalogueTyped
  <2>2. QED
    BY <2>1 DEF Jobs
<1>3. ballots \in Seq(BallotRecords) /\ Len(ballots) \in Nat /\ DOMAIN ballots = 1..Len(ballots)
  <2>1. ballots \in Seq(BallotRecords)
    BY DEF CatalogueInv, CatalogueTyped
  <2>2. PICK R : R = BallotRecords
    OBVIOUS
  <2>3. ballots \in Seq(R)
    BY <2>1, <2>2
  <2>4. Len(ballots) \in Nat /\ DOMAIN ballots = 1..Len(ballots)
    BY <2>3
  <2>5. QED
    BY <2>1, <2>4
<1>4. passes => PairChecked
  <2> SUFFICES ASSUME passes PROVE PairChecked
    OBVIOUS
  <2>1. Len(ballots) = job.script.ballots /\ Len(ballots) <= MAX_BALLOTS
    BY DEF CatalogueInv, TallySound, CountsSound, CountedRight
  <2>2. \A j \in 0..NUM_CANDIDATES - 1 :
            Cardinality({i \in 1..job.script.ballots : ballots[i].selectionIndex = j})
              = VoteCounts(job.script, job.slots)[j]
    BY <1>2, <1>3, <2>1, PairIsChecked
  <2>3. \A i \in 1..job.script.ballots : ballots[i].selectionIndex <= NUM_CANDIDATES
    BY <1>3, <2>1
  <2>4. QED
    BY <2>2, <2>3 DEF PairChecked
<1>5. next \in {"VERIFIED_OFFCHAIN", "FAILED"} /\ (next = "VERIFIED_OFFCHAIN" => PairChecked)
  <2> HIDE DEF passes
  <2>1. QED
    BY <1>4
<1> HIDE DEF next
<1>6. job' \in Jobs /\ job'.at = next /\ job'.script = job.script /\ job'.slots = job.slots
  BY <1>1, <1>2, <1>3, <1>5 DEF Jobs
<1>7. ballots' = ballots /\ transcript' = transcript
  BY <1>1 DEF votingVars
<1>8. CountsSound'
  BY <1>6, <1>7 DEF CatalogueInv, TallySound, CountsSound, CountedRight, Named
<1>9. SlotsSound'
  BY <1>6 DEF CatalogueInv, TallySound, SlotsSound
<1>10. JobSound'
  <2>1. PairChecked' <=> PairChecked
    BY <1>6, <1>7 DEF PairChecked
  <2>2. QED
    BY <1>5, <1>6, <2>1 DEF JobSound
<1>11. ConsoleSound'
  BY <1>1, ConsoleUntouched DEF CatalogueInv
<1>12. CatalogueTyped'
  BY <1>1, <1>6 DEF CatalogueInv, CatalogueTyped, consoleVars, votingVars, EditorTyped
<1>13. QED
  BY <1>8, <1>9, <1>10, <1>11, <1>12 DEF CatalogueInv, TallySound

-----------------------------------------------------------------------------
(* The ballot catalogue: theorems.                                         *)

(* Two lists of numbers below m with the same count of each number are of  *)
(* one length.                                                             *)
LEMMA SameCountsSameLength ==
  ASSUME NEW m \in Nat, NEW n \in Nat, NEW k \in Nat,
         NEW f \in [1..n -> 0..m - 1], NEW g \in [1..k -> 0..m - 1],
         \A j \in 0..m - 1 : Times(f, n, j) = Times(g, k, j)
  PROVE  n = k
<1> DEFINE Under(h, l, j) == {i \in 1..l : h[i] < j}
           Known == {j \in Nat : j <= m => Cardinality(Under(f, n, j)) = Cardinality(Under(g, k, j))}
<1>1. 0 \in Known
  <2>1. Under(f, n, 0) = {} /\ Under(g, k, 0) = {}
    OBVIOUS
  <2> HIDE DEF Under
  <2>2. QED
    BY <2>1
<1>2. \A l \in Nat : \A h \in [1..l -> 0..m - 1] : \A j \in Nat :
          Cardinality(Under(h, l, j + 1)) = Cardinality(Under(h, l, j)) + Times(h, l, j)
  <2> TAKE l \in Nat
  <2> TAKE h \in [1..l -> 0..m - 1]
  <2> TAKE j \in Nat
  <2> DEFINE S == Under(h, l, j)
             T == {i \in 1..l : h[i] = j}
  <2>1. IsFiniteSet(S) /\ IsFiniteSet(T)
    <3>1. IsFiniteSet(1..l) /\ S \subseteq 1..l /\ T \subseteq 1..l
      BY FS_Interval
    <3>2. QED
      BY <3>1, FS_Subset
  <2>2. S \cap T = {} /\ Under(h, l, j + 1) = S \cup T
    <3>1. \A i \in 1..l : h[i] \in Nat
      OBVIOUS
    <3>2. \A i \in 1..l : ~(h[i] < j /\ h[i] = j) /\ (h[i] < j + 1 <=> h[i] < j \/ h[i] = j)
      BY <3>1
    <3>3. QED
      BY <3>2
  <2> HIDE DEF S, T
  <2>3. Cardinality(S \cup T) = Cardinality(S) + Cardinality(T) - Cardinality(S \cap T)
    BY <2>1, FS_Union
  <2>4. Cardinality(S \cup T) = Cardinality(S) + Cardinality(T)
    <3>1. Cardinality(S) \in Nat /\ Cardinality(T) \in Nat /\ Cardinality({}) = 0
      BY <2>1, FS_CardinalityType, FS_EmptySet
    <3>2. Cardinality(S \cap T) = 0
      <4>1. S \cap T = {}
        BY <2>2
      <4>2. QED
        BY <4>1, <3>1
    <3>3. \A a, b \in Nat : a + b - 0 = a + b
      OBVIOUS
    <3>4. QED
      BY <2>3, <3>1, <3>2, <3>3
  <2>5. QED
    BY <2>2, <2>4 DEF S, T, Times
<1>3. \A j \in Nat : j \in Known => j + 1 \in Known
  <2> SUFFICES ASSUME NEW j \in Nat, j + 1 <= m,
                      Cardinality(Under(f, n, j)) = Cardinality(Under(g, k, j))
               PROVE  Cardinality(Under(f, n, j + 1)) = Cardinality(Under(g, k, j + 1))
    <3> HIDE DEF Under
    <3>1. QED
      OBVIOUS
  <2>1. Times(f, n, j) = Times(g, k, j)
    OBVIOUS
  <2> HIDE DEF Under
  <2>2. /\ Cardinality(Under(f, n, j + 1)) = Cardinality(Under(f, n, j)) + Times(f, n, j)
        /\ Cardinality(Under(g, k, j + 1)) = Cardinality(Under(g, k, j)) + Times(g, k, j)
    BY <1>2
  <2>3. QED
    BY <2>1, <2>2
<1>4. Cardinality(Under(f, n, m)) = Cardinality(Under(g, k, m))
  <2> HIDE DEF Known
  <2>1. m \in Known
    BY <1>1, <1>3, SetInduction
  <2>2. QED
    BY <2>1 DEF Known
<1>5. Under(f, n, m) = 1..n /\ Under(g, k, m) = 1..k
  OBVIOUS
<1>6. \A l \in Nat : Cardinality(1..l) = l
  <2> TAKE l \in Nat
  <2>1. 1 \in Int /\ l \in Int
    OBVIOUS
  <2>2. Cardinality(1..l) = IF 1 > l THEN 0 ELSE l - 1 + 1
    BY <2>1, FS_Interval
  <2>3. QED
    BY <2>2
<1> HIDE DEF Under
<1>7. QED
  BY <1>4, <1>5, <1>6

(* The two proofs agree, candidate by candidate.                           *)
LEMMA PairAgrees ==
  ASSUME CatalogueInv
  PROVE  ProvedPairAgrees
<1> SUFFICES ASSUME job.at = "VERIFIED_OFFCHAIN" PROVE ProvedPairAgrees
  BY DEF ProvedPairAgrees
<1> DEFINE n == job.script.ballots
           valid == job.script.valid
           slots == job.slots
           N == Len(valid)
           box == SubSeq(ballots, 1, n)
           place == Places(job.script, job.slots)
           index == [i \in 1..n |-> ballots[i].selectionIndex]
           points(j) == Cardinality({i \in 1..n : ballots[i].selectionIndex = j})
           names(key) == Cardinality({i \in 1..n : Named(i) = key})
<1>1. job.script \in Scripts /\ slots \in SlotTables /\ CountedRight(job.script) /\ PairChecked
      /\ SlotsSound
  <2>1. job \in Jobs
    BY DEF CatalogueInv, CatalogueTyped
  <2>2. QED
    BY <2>1 DEF Jobs, CatalogueInv, TallySound, CountsSound, JobSound
<1>2. /\ N \in Nat /\ DOMAIN valid = 1..N /\ place \in [1..N -> 0..NUM_CANDIDATES - 1]
      /\ \A i \in 1..N : valid[i] \in DOMAIN slots /\ place[i] = slots[valid[i]]
      /\ \A j \in 0..NUM_CANDIDATES - 1 : VoteCounts(job.script, slots)[j] = Times(place, N, j)
  BY <1>1, VoteCountsOfPlaces DEF SlotsSound, Places
<1>3. /\ \A j \in 0..NUM_CANDIDATES - 1 : points(j) = VoteCounts(job.script, slots)[j]
      /\ \A key \in SummaryKeys(job.script) : Cardinality({i \in DOMAIN valid : valid[i] = key}) = names(key)
  BY <1>1 DEF PairChecked, CountedRight
<1>4. n \in Nat /\ n <= Len(ballots) /\ N <= n
  <2>1. n \in 0..MaxBallots
    BY <1>1 DEF Scripts
  <2>2. QED
    BY <1>1, <2>1 DEF CountedRight
<1>5. DOMAIN box = 1..n /\ \A i \in 1..n : box[i] = ballots[i]
  <2>1. ballots \in Seq(BallotRecords)
    BY DEF CatalogueInv, CatalogueTyped
  <2>2. PICK R, s : R = BallotRecords /\ s = ballots
    OBVIOUS
  <2>3. s \in Seq(R) /\ n <= Len(s)
    BY <1>4, <2>1, <2>2
  <2> HIDE DEF n
  <2>4. DOMAIN SubSeq(s, 1, n) = 1..n /\ \A i \in 1..n : SubSeq(s, 1, n)[i] = s[i]
    BY <1>4, <2>3
  <2>5. QED
    BY <2>2, <2>4
<1>6. \A key : Naming(box, key) = names(key)
  <2> TAKE key
  <2>1. {i \in DOMAIN box : KeyOf[box[i].selection] = key} = {i \in 1..n : Named(i) = key}
    BY <1>5 DEF Named
  <2>2. QED
    BY <2>1 DEF Naming
<1>7. \A j : Pointing(box, j) = points(j)
  <2> TAKE j
  <2>1. {i \in DOMAIN box : box[i].selectionIndex = j} = {i \in 1..n : ballots[i].selectionIndex = j}
    BY <1>5
  <2>2. QED
    BY <2>1 DEF Pointing
<1>8. \A key \in DOMAIN slots : slots[key] \in 0..NUM_CANDIDATES - 1
  BY <1>1, SlotTablesAreFunctions
<1>9. \A key \in DOMAIN slots : \A i \in 1..N : place[i] = slots[key] <=> valid[i] = key
  BY <1>1, <1>2 DEF SlotsSound
<1>10. \A key \in DOMAIN slots : points(slots[key]) = Cardinality({i \in DOMAIN valid : valid[i] = key})
  <2> TAKE key \in DOMAIN slots
  <2>1. points(slots[key]) = Times(place, N, slots[key])
    BY <1>2, <1>3, <1>8
  <2>2. {i \in 1..N : place[i] = slots[key]} = {i \in DOMAIN valid : valid[i] = key}
    BY <1>2, <1>9
  <2>3. QED
    BY <2>1, <2>2 DEF Times
<1>11. SummaryKeys(job.script) = {valid[i] : i \in DOMAIN valid}
  BY DEF SummaryKeys
<1>12. ASSUME NEW key \in SummaryKeys(job.script), key \in DOMAIN slots
       PROVE  names(key) = points(slots[key])
  BY <1>3, <1>10, <1>12
<1>13. ASSUME \A i \in 1..n : ballots[i].selectionIndex < NUM_CANDIDATES,
              NEW key \in DOMAIN slots, key \notin SummaryKeys(job.script)
       PROVE  names(key) = points(slots[key])
  <2>1. index \in [1..n -> 0..NUM_CANDIDATES - 1]
    <3>1. \A i \in 1..n : ballots[i].selectionIndex \in Nat
      <4> TAKE i \in 1..n
      <4>1. ballots \in Seq(BallotRecords)
        BY DEF CatalogueInv, CatalogueTyped
      <4>2. PICK R, s : R = BallotRecords /\ s = ballots
        OBVIOUS
      <4>3. s \in Seq(R) /\ i \in 1..Len(s)
        BY <1>4, <4>1, <4>2
      <4>4. s[i] \in R
        BY <4>3
      <4>5. ballots[i] \in BallotRecords
        BY <4>2, <4>4
      <4>6. ballots[i].selectionIndex \in 0..Cardinality(Candidates)
        BY <4>5 DEF BallotRecords
      <4>7. QED
        BY <4>6
    <3>2. \A i \in 1..n : ballots[i].selectionIndex \in 0..NUM_CANDIDATES - 1
      BY <1>13, <3>1, CatalogueBounds
    <3>3. QED
      BY <3>2
  <2>2. \A j \in 0..NUM_CANDIDATES - 1 : Times(index, n, j) = Times(place, N, j)
    <3> TAKE j \in 0..NUM_CANDIDATES - 1
    <3>1. {i \in 1..n : index[i] = j} = {i \in 1..n : ballots[i].selectionIndex = j}
      OBVIOUS
    <3>2. Times(index, n, j) = points(j)
      BY <3>1 DEF Times
    <3> HIDE DEF points
    <3>3. QED
      BY <1>2, <1>3, <3>2
  <2>3. n = N
    <3>1. PICK f, g, x, y : f = index /\ g = place /\ x = n /\ y = N
      OBVIOUS
    <3> HIDE DEF index, place, n, N
    <3>2. /\ x \in Nat /\ y \in Nat /\ f \in [1..x -> 0..NUM_CANDIDATES - 1]
          /\ g \in [1..y -> 0..NUM_CANDIDATES - 1]
          /\ \A j \in 0..NUM_CANDIDATES - 1 : Times(f, x, j) = Times(g, y, j)
      BY <1>2, <1>4, <2>1, <2>2, <3>1
    <3>3. x = y
      BY <3>2, SameCountsSameLength, CatalogueBounds
    <3>4. QED
      BY <3>1, <3>3
  <2>4. \A i \in 1..n : Named(i) \in SummaryKeys(job.script)
    BY <1>1, <2>3 DEF CountedRight
  <2>5. {i \in 1..n : Named(i) = key} = {}
    BY <1>13, <2>4
  <2>6. {i \in DOMAIN valid : valid[i] = key} = {}
    BY <1>11, <1>13
  <2> HIDE DEF points, valid
  <2>7. QED
    BY <1>10, <2>5, <2>6
<1>14. ASSUME NEW key \in DOMAIN job.slots,
              \/ key \in SummaryKeys(job.script)
              \/ \A i \in DOMAIN box : box[i].selectionIndex < NUM_CANDIDATES
       PROVE  Naming(box, key) = Pointing(box, job.slots[key])
  <2> HIDE DEF names, points, box, n
  <2>1. CASE key \in SummaryKeys(job.script)
    BY <1>6, <1>7, <1>12, <2>1
  <2>2. CASE key \notin SummaryKeys(job.script)
    <3>1. \A i \in 1..n : ballots[i].selectionIndex < NUM_CANDIDATES
      BY <1>5, <1>14, <2>2
    <3>2. QED
      BY <1>6, <1>7, <1>13, <2>2, <3>1
  <2>3. QED
    BY <2>1, <2>2
<1>15. QED
  BY <1>14 DEF ProvedPairAgrees

-----------------------------------------------------------------------------
(* The ballot catalogue: theorems.                                         *)

(* A step that leaves the catalogue alone keeps the invariant.             *)
LEMMA CatalogueStutters ==
  ASSUME CatalogueInv, UNCHANGED catalogueVars
  PROVE  CatalogueInv'
<1>1. ConsoleSound'
  BY ConsoleUntouched DEF CatalogueInv, catalogueVars
<1>2. TallySound'
  BY TallyUntouched DEF CatalogueInv, catalogueVars, votingVars
<1>3. CatalogueTyped'
  BY DEF CatalogueInv, CatalogueTyped, catalogueVars, consoleVars, votingVars, tallyVars, EditorTyped
<1>4. QED
  BY <1>1, <1>2, <1>3 DEF CatalogueInv

(* Every action of the console, the portal's pages and the tally board keeps *)
(* the invariant.                                                           *)
LEMMA CatalogueKeepsInv ==
  ASSUME CatalogueInv, [CatalogueNext]_catalogueVars
  PROVE  CatalogueInv'
<1>1. CASE Transition
  BY <1>1, CatalogueTransition
<1>2. CASE \E k \in Editors :
            \/ \E save \in SaveInputs : ReadPhase(k, save)
            \/ RefuseSave(k) \/ UpsertCandidate(k) \/ UpdateStatus(k) \/ CheckOrder(k)
            \/ ListCandidates(k) \/ ClearCurrent(k) \/ InsertCurrent(k) \/ SaveDies(k)
  <2> PICK k \in Editors :
            \/ \E save \in SaveInputs : ReadPhase(k, save)
            \/ RefuseSave(k) \/ UpsertCandidate(k) \/ UpdateStatus(k) \/ CheckOrder(k)
            \/ ListCandidates(k) \/ ClearCurrent(k) \/ InsertCurrent(k) \/ SaveDies(k)
    BY <1>2
  <2>1. CASE \E save \in SaveInputs : ReadPhase(k, save)
    BY <2>1, CatalogueReadPhase
  <2>2. CASE RefuseSave(k)
    BY <2>2, CatalogueRefuseSave
  <2>3. CASE UpsertCandidate(k)
    BY <2>3, CatalogueUpsertCandidate
  <2>4. CASE UpdateStatus(k)
    BY <2>4, CatalogueUpdateStatus
  <2>5. CASE CheckOrder(k)
    BY <2>5, CatalogueCheckOrder
  <2>6. CASE ListCandidates(k)
    BY <2>6, CatalogueListCandidates
  <2>7. CASE ClearCurrent(k)
    BY <2>7, CatalogueClearCurrent
  <2>8. CASE InsertCurrent(k)
    BY <2>8, CatalogueInsertCurrent
  <2>9. CASE SaveDies(k)
    BY <2>9, CatalogueSaveDies
  <2>10. QED
    BY <2>1, <2>2, <2>3, <2>4, <2>5, <2>6, <2>7, <2>8, <2>9
<1>3. CASE \E t \in Pages : LoadCandidates(t) \/ \E c \in Candidates : CastBallot(t, c)
  BY <1>3, CatalogueLoadCandidates, CatalogueCastBallot
<1>4. CASE ComputeRealTally
  BY <1>4, CatalogueComputeRealTally
<1>5. CASE GenerateZkProof
  BY <1>5, CatalogueGenerateZkProof
<1>6. CASE ProveTally
  BY <1>6, CatalogueProveTally
<1>7. CASE ProveDecryption
  BY <1>7, CatalogueProveDecryption
<1>8. CASE UNCHANGED catalogueVars
  BY <1>8, CatalogueStutters
<1>9. QED
  BY <1>1, <1>2, <1>3, <1>4, <1>5, <1>6, <1>7, <1>8 DEF CatalogueNext

(* Whatever the editors, the pages and the tally board do at the same time, *)
(* created_at tells the rows apart, an unreported pair of orders has a save *)
(* that will report it, a save that nothing overlaps holds the table it     *)
(* listed, and what was counted is counted right.                           *)
THEOREM CatalogueInvariant == CatalogueSpec => []CatalogueInv
BY CatalogueInitSound, CatalogueKeepsInv, PTL DEF CatalogueSpec

(* The catalogue's types; no server action is at a statement not its own.  *)
THEOREM CatalogueIsTyped == CatalogueSpec => []CatalogueTypeOK
<1>1. CatalogueInv => CatalogueTypeOK
  <2> SUFFICES ASSUME CatalogueInv PROVE CatalogueTypeOK
    OBVIOUS
  <2>1. CatalogueTyped
    BY DEF CatalogueInv
  <2>2. raised \subseteq [code : {"CANDIDATE_EDIT_OUT_OF_PHASE"}, about : Candidates]
                          \cup [code : {"CANDIDATE_BALLOT_ORDER_DUPLICATE"}, about : Orders]
    BY <2>1 DEF CatalogueTyped, CatalogueIncidents
  <2>3. \A k \in Editors :
            /\ editor[k].at \in {"IDLE", "READ", "SAVED", "CHECKED", "LISTED", "CLEARED"}
            /\ editor[k].listed \in Rows /\ editor[k].read \in SETUP..VOTING_OPEN
            /\ editor[k].at # "IDLE" => editor[k].save \in Saves
            /\ editor[k].at = "SAVED" => editor[k].save.op = "UPSERT"
    <3> TAKE k \in Editors
    <3>1. editor[k] \in EditorStates /\ EditorTyped(k)
      BY <2>1 DEF CatalogueTyped
    <3>2. QED
      BY <3>1 DEF EditorStates, EditorTyped
  <2>4. job.script \in Scripts
        /\ job.at \in {"NONE", "BUILDING", "PAIRING", "VERIFIED_OFFCHAIN", "FAILED"}
    BY <2>1 DEF CatalogueTyped, Jobs
  <2>5. QED
    BY <2>1, <2>2, <2>3, <2>4 DEF CatalogueTyped, CatalogueTypeOK, BallotRecords
<1>2. QED
  BY <1>1, CatalogueInvariant, PTL

(* Two saves may be between their row and their count at once, and the one  *)
(* that makes two candidates share a ballot order may be counted by the     *)
(* other: an incident is there in any order, unless a save died.            *)
THEOREM DuplicatesAreReported == CatalogueSpec => []DuplicateOrdersReported
<1>1. CatalogueInv => DuplicateOrdersReported
  BY DEF CatalogueInv, ConsoleSound, OrdersCounted, DuplicateOrdersReported, Duplicate
<1>2. QED
  BY <1>1, CatalogueInvariant, PTL

(* The witness of a count is one its circuit accepts, whatever was saved    *)
(* between the count and the proof and whatever the constants are.          *)
THEOREM TallyProofsClose == CatalogueSpec => []TallyProofCloses
<1>1. CatalogueInv => TallyProofCloses
  BY JobWitnessCloses DEF TallyProofCloses
<1>2. QED
  BY <1>1, CatalogueInvariant, PTL

(* With both proofs verified, the ids and the positions of the ballots      *)
(* counted give every candidate the same votes, although a page may have    *)
(* been loaded before a save that moved the positions.                      *)
THEOREM ProvedPairsAgree == CatalogueSpec => []ProvedPairAgrees
<1>1. CatalogueInv => ProvedPairAgrees
  BY PairAgrees
<1>2. QED
  BY <1>1, CatalogueInvariant, PTL

(* A save that no other overlaps leaves a manifest that lists the table.    *)
THEOREM SoloSavesProject == CatalogueSpec => SoloSaveProjects
<1>1. CatalogueInv => (\A k \in Editors : InsertCurrent(k) /\ editor[k].alone => manifest' = candidates')
  BY CatalogueInsertCurrent
<1>2. QED
  BY <1>1, CatalogueInvariant, PTL DEF SoloSaveProjects

-----------------------------------------------------------------------------
(* The evidence audit.                                                     *)

RuleCodes == Codes \ {"BLOCK_TIMESTAMP_MISSING"}
Refs == Nat \cup Acts
Writes == [election : Elections, code : Codes \cup CustodyCodes \cup Verdicts, ref : Refs]
Versions == [phase : 0 .. LastPhase, counts : [Kinds -> Nat], last : Nat]
Contents == [election : Elections, act : Acts, hash : Acts, valid : BOOLEAN, status : Statuses]
Uses == [anomalies : Nat, damages : Nat, gaps : Nat, lags : Nat, crashes : Nat, ended : BOOLEAN]
IndexerSteps == {"BACKFILL", "FILL", "LOAD", "UPSERT", "CUSTODY", "VERIFY", "CHECK", "RAISE",
                 "POLL", "STORE", "CURSOR"}
IndexerRecords ==
  [at : IndexerSteps, next : Nat \ {0}, to : Nat, looping : BOOLEAN,
   touched : SUBSET Elections, blocks : SUBSET (1 .. MaxBlocks), loaded : SUBSET Signed,
   upserts : SUBSET Signed, checks : SUBSET Elections, about : SUBSET Elections,
   writes : SUBSET Writes]

(* The chain, the tables and the process, by their types.                  *)
ChainTyped == chain \in Seq(Events) /\ Len(chain) <= MaxBlocks
TablesTyped ==
  /\ rows \in [1 .. MaxBlocks -> {"ABSENT", "UNTIMED", "TIMED"}]
  /\ phaseOf \in [Elections -> 0 .. LastPhase]
  /\ cursor \in Nat \ {0}
  /\ reports \in [Elections -> Seq([version : Versions, ok : BOOLEAN])]
  /\ active \subseteq [election : Elections, code : Codes \cup CustodyCodes, ref : Refs]
FilesTyped ==
  /\ disk \subseteq Signed
  /\ contents \subseteq Contents
  /\ \A c, d \in contents : c.election = d.election /\ (c.act = d.act \/ c.hash = d.hash)
                               => c = d
  /\ \A f \in disk : <<f.election, f.act>> \in Files
  /\ \A c \in contents : <<c.election, c.act>> \in BoardActas => c.valid /\ c.hash = c.act
ProcessTyped ==
  /\ indexer \in IndexerRecords
  /\ used \in Uses
AuditTyped == ChainTyped /\ TablesTyped /\ FilesTyped /\ ProcessTyped

(* Where the process stands on the chain.                                  *)
Placed ==
  /\ indexer.next = cursor
  /\ cursor <= Len(chain) + 1
  /\ 1 .. cursor - 1 \subseteq Stored
  /\ Stored \subseteq 1 .. cursor - 1 + BATCH_SIZE
  /\ Stored \subseteq DOMAIN chain
  /\ indexer.blocks \subseteq Stored
  /\ indexer.at \in {"STORE", "CURSOR"} =>
       /\ indexer.to \in indexer.next .. Len(chain)
       /\ indexer.to <= indexer.next + BATCH_SIZE - 1
  /\ indexer.at = "CURSOR" => indexer.next .. indexer.to \subseteq Stored
  /\ indexer.upserts \subseteq indexer.loaded
  /\ \A f \in indexer.loaded : <<f.election, f.act>> \in Files

Upright == used.lags = 0

PhaseOfRows(e) ==
  LET changes == RowsOf(e, "PHASE")
  IN  IF changes = {} THEN 0 ELSE chain[Latest(changes)].next

(* As long as no node reported an earlier head, the rows are those of the  *)
(* first blocks, and the elections' phases those of the rows.              *)
Forward ==
  Upright =>
    /\ \A b \in Stored : 1 .. b \subseteq Stored
    /\ indexer.at \in {"STORE", "CURSOR"} => Stored \subseteq 1 .. indexer.to
    /\ \A e \in Elections : phaseOf[e] = PhaseOfRows(e)

LatestReport(e) == reports[e][Len(reports[e])]
RulesRaised(e) == ActiveIncidents(e, RuleCodes) = Rules(e)

(* Only the latest report may be of the rows as they are; if it is, it and *)
(* the incidents beside it are what the rules say of them.                 *)
ReportSound(e) ==
  /\ \A n \in DOMAIN reports[e] : reports[e][n].version.last <= DataVersion(e).last
  /\ \A n \in DOMAIN reports[e] :
       reports[e][n].version = DataVersion(e) => n = Len(reports[e])
  /\ UpToDate(e) => RulesRaised(e) /\ (LatestReport(e).ok <=> ~Critical(Rules(e)))

(* A renewal that has begun raises what the rules say.                     *)
Renewal ==
  indexer.at = "RAISE" =>
    \E e \in indexer.checks :
      /\ indexer.about = {e}
      /\ ~UpToDate(e)
      /\ indexer.writes \subseteq Incidents(e)
      /\ ActiveIncidents(e, RuleCodes) \subseteq Rules(e)
      /\ Rules(e) \subseteq active \cup indexer.writes

(* The elections that the process has yet to look at.                      *)
Unchecked ==
  IF indexer.at \in {"POLL", "STORE"} THEN {}
  ELSE IF indexer.at \in {"CHECK", "RAISE"} THEN indexer.checks
  ELSE IF \/ indexer.at = "CURSOR"
          \/ indexer.at \in {"LOAD", "UPSERT", "CUSTODY", "VERIFY"} /\ indexer.looping
       THEN indexer.touched ELSE Elections

ReportsSound ==
  Upright => /\ \A e \in Elections : ReportSound(e)
             /\ \A e \in Elections \ Unchecked : UpToDate(e)

(* The elections whose custody is yet to be renewed.                       *)
AwaitingCustody ==
  IF indexer.at = "CURSOR" \/ (indexer.at = "LOAD" /\ indexer.looping) THEN indexer.touched
  ELSE IF indexer.at = "UPSERT" THEN Hinted ELSE {}

(* What of e has no content is raised, or will be.                         *)
MissingRaised(e) ==
  /\ ActiveIncidents(e, CustodyCodes) \subseteq Custody(e) \cup Outdated(e)
  /\ Missing(e) \subseteq active \cup indexer.writes

(* A status that is right, or that the board wrote last.                   *)
StatusRight(e, a, c) ==
  \/ c.status = Verdict(c)
  \/ c.status = "VALID" /\ Verdict(c) = "OK" /\ <<e, a>> \in BoardActas

(* What is still to be written makes the custody of e exact.               *)
CustodyRenewed(e) ==
  /\ ActiveIncidents(e, CustodyCodes) \subseteq Custody(e) \cup Outdated(e)
  /\ Custody(e) \subseteq active \cup indexer.writes
  /\ \A a \in Anchored(e) : \A c \in ContentOf(e, a) :
       StatusRight(e, a, c) \/ Incident(e, Verdict(c), a) \in indexer.writes

(* The process is in the middle of a renewal of custody.                   *)
Renewing == indexer.at \in {"CUSTODY", "VERIFY"}

CustodySound ==
  /\ ~Renewing /\ ~Restarted => \A e \in Elections \ AwaitingCustody : CustodyExact(e)
  /\ Renewing /\ ~Restarted => \A e \in Elections \ Hinted : CustodyExact(e)
  /\ indexer.at = "CUSTODY" =>
       /\ \A e \in Elections \cap Hinted : MissingRaised(e)
       /\ \A w \in indexer.writes : w \in Missing(w.election) \cup Outdated(w.election)
  /\ indexer.at = "VERIFY" =>
       /\ \A e \in Elections \cap Hinted : CustodyRenewed(e)
       /\ \A w \in indexer.writes : w \in Failures(w.election) \cup Verified(w.election)
  /\ indexer.at \in {"CHECK", "RAISE", "POLL"} =>
       \A e \in Elections \cap Hinted : CustodyExact(e)

AuditInv ==
  AuditTyped /\ Placed /\ Forward /\ Renewal /\ ReportsSound /\ CustodySound

-----------------------------------------------------------------------------
(* The last of some blocks is one of them, and none is after it.           *)
LEMMA LatestIs ==
  ASSUME NEW n \in Nat, NEW S \in SUBSET (1 .. n), S # {}
  PROVE  Latest(S) \in S /\ \A c \in S : c <= Latest(S)
<1> DEFINE T == {n - b : b \in S}
<1>0. \A b \in S : n - b \in Nat
  OBVIOUS
<1>1. T \in SUBSET Nat /\ T # {}
  BY <1>0
<1> HIDE DEF T
<1>2. PICK m \in T : \A k \in T : m <= k
  BY <1>1, LeastNumber
<1>3. PICK b \in S : m = n - b
  BY DEF T
<1>4. \A c \in S : m <= n - c
  BY <1>2 DEF T
<1>5. \A c \in S : c <= b
  BY <1>3, <1>4
<1>6. QED
  BY <1>5 DEF Latest

(* A block of the chain is an event the node may report.                   *)
LEMMA BlocksAreEvents ==
  ASSUME ChainTyped
  PROVE  \A b \in DOMAIN chain :
           /\ b \in 1 .. MaxBlocks
           /\ chain[b].election \in Elections /\ chain[b].kind \in Kinds
           /\ chain[b].kind = "PHASE" =>
                /\ chain[b].prev \in 0 .. LastPhase - 1
                /\ chain[b].next \in 1 .. LastPhase
           /\ chain[b].kind # "PHASE" => chain[b].ref \in Refs
           /\ chain[b].kind = "ACTA" => chain[b].ref \in Acts
<1> SUFFICES ASSUME NEW b \in DOMAIN chain
             PROVE  /\ b \in 1 .. MaxBlocks
                    /\ chain[b].election \in Elections /\ chain[b].kind \in Kinds
                    /\ chain[b].kind = "PHASE" =>
                         /\ chain[b].prev \in 0 .. LastPhase - 1
                         /\ chain[b].next \in 1 .. LastPhase
                    /\ chain[b].kind # "PHASE" => chain[b].ref \in Refs
                    /\ chain[b].kind = "ACTA" => chain[b].ref \in Acts
  OBVIOUS
<1>1. chain[b] \in AllEvents /\ b \in 1 .. Len(chain) /\ Len(chain) \in Nat
  BY AuditAssumption DEF ChainTyped
<1>2. MaxBlocks \in Nat /\ b \in 1 .. MaxBlocks
  BY <1>1, AuditAssumption DEF ChainTyped
<1>3. CASE chain[b] \in [kind : {"PHASE"}, election : Elections, prev : 0 .. LastPhase - 1,
                         next : 1 .. LastPhase]
  BY <1>2, <1>3 DEF Kinds
<1>4. CASE chain[b] \in [kind : {"SIGNUP", "BALLOT"}, election : Elections, ref : 1 .. 2]
  BY <1>2, <1>4 DEF Kinds, Refs
<1>5. CASE chain[b] \in [kind : {"ACTA"}, election : Elections, ref : Acts]
  BY <1>2, <1>5 DEF Kinds, Refs
<1>6. QED
  BY <1>1, <1>3, <1>4, <1>5 DEF AllEvents

(* The rows of an election are blocks of the chain, finitely many.         *)
LEMMA RowsAreBlocks ==
  ASSUME ChainTyped, Stored \subseteq DOMAIN chain, NEW e \in Elections
  PROVE  \A k \in Kinds :
           /\ RowsOf(e, k) \subseteq Stored /\ RowsOf(e, k) \subseteq DOMAIN chain
           /\ RowsOf(e, k) \in SUBSET (1 .. MaxBlocks)
           /\ IsFiniteSet(RowsOf(e, k)) /\ Cardinality(RowsOf(e, k)) \in Nat
           /\ \A b \in RowsOf(e, k) : chain[b].kind = k /\ chain[b].election = e
<1> SUFFICES ASSUME NEW k \in Kinds
             PROVE  /\ RowsOf(e, k) \subseteq Stored /\ RowsOf(e, k) \subseteq DOMAIN chain
                    /\ RowsOf(e, k) \in SUBSET (1 .. MaxBlocks)
                    /\ IsFiniteSet(RowsOf(e, k)) /\ Cardinality(RowsOf(e, k)) \in Nat
                    /\ \A b \in RowsOf(e, k) : chain[b].kind = k /\ chain[b].election = e
  OBVIOUS
<1>1. RowsOf(e, k) \subseteq Stored /\ Stored \subseteq 1 .. MaxBlocks
  BY DEF RowsOf, Stored
<1>2. MaxBlocks \in Nat
  BY AuditAssumption
<1>3. IsFiniteSet(1 .. MaxBlocks)
  BY <1>2, FS_Interval
<1>4. IsFiniteSet(RowsOf(e, k))
  BY <1>1, <1>3, FS_Subset
<1>5. Cardinality(RowsOf(e, k)) \in Nat
  BY <1>4, FS_CardinalityType
<1>6. \A b \in RowsOf(e, k) : chain[b].kind = k /\ chain[b].election = e
  BY DEF RowsOf
<1>7. QED
  BY <1>1, <1>4, <1>5, <1>6

(* The rows of an election, and what they say, stay as they are.           *)
SameRows(e) ==
  /\ \A k \in Kinds : RowsOf(e, k)' = RowsOf(e, k)
  /\ \A b \in Stored : chain'[b] = chain[b]
  /\ phaseOf'[e] = phaseOf[e]

(* The phases the rules compare with are those of the rows.                *)
LEMMA PhasesStay ==
  ASSUME ChainTyped, Stored \subseteq DOMAIN chain, NEW e \in Elections, SameRows(e)
  PROVE  /\ \A b \in RowsOf(e, "PHASE") : ExpectedPrevious(e, b)' = ExpectedPrevious(e, b)
         /\ \A b \in Stored : PhaseAt(e, b)' = PhaseAt(e, b)
<1>1. RowsOf(e, "PHASE")' = RowsOf(e, "PHASE")
  BY DEF SameRows, Kinds
<1>2. \A b \in Stored : chain'[b] = chain[b]
  BY DEF SameRows
<1>3. RowsOf(e, "PHASE") \in SUBSET (1 .. MaxBlocks) /\ RowsOf(e, "PHASE") \subseteq Stored
  BY RowsAreBlocks DEF Kinds
<1>4. MaxBlocks \in Nat
  BY AuditAssumption
<1>5. ASSUME NEW b
      PROVE  LET earlier == {c \in RowsOf(e, "PHASE") : c < b}
             IN  earlier # {} => chain'[Latest(earlier)] = chain[Latest(earlier)]
  <2> DEFINE earlier == {c \in RowsOf(e, "PHASE") : c < b}
  <2>1. earlier \in SUBSET (1 .. MaxBlocks) /\ earlier \subseteq Stored
    BY <1>3
  <2>2. earlier # {} => Latest(earlier) \in Stored
    <3> HIDE DEF earlier
    <3>1. QED
      BY <2>1, <1>4, LatestIs
  <2>3. QED
    BY <2>2, <1>2
<1>6. ASSUME NEW b \in Stored
      PROVE  /\ ExpectedPrevious(e, b)' = ExpectedPrevious(e, b)
             /\ PhaseAt(e, b)' = PhaseAt(e, b)
  BY <1>1, <1>2, <1>5 DEF ExpectedPrevious, PhaseAt
<1>7. QED
  BY <1>3, <1>6

(* What the rules say of an election stays.                                *)
LEMMA RulesStay ==
  ASSUME ChainTyped, Stored \subseteq DOMAIN chain, NEW e \in Elections, SameRows(e)
  PROVE  Rules(e)' = Rules(e) /\ DataVersion(e)' = DataVersion(e)
         /\ Anchored(e)' = Anchored(e)
<1> DEFINE changes == RowsOf(e, "PHASE")
<1>1. \A k \in Kinds : RowsOf(e, k)' = RowsOf(e, k) /\ RowsOf(e, k) \subseteq Stored
                       /\ RowsOf(e, k) \in SUBSET (1 .. MaxBlocks)
  BY RowsAreBlocks DEF SameRows
<1>2. \A b \in Stored : chain'[b] = chain[b]
  BY DEF SameRows
<1>3. phaseOf'[e] = phaseOf[e]
  BY DEF SameRows
<1>4. MaxBlocks \in Nat
  BY AuditAssumption
<1>5. \A k \in Kinds : RowsOf(e, k) # {} => Latest(RowsOf(e, k)) \in Stored
  BY <1>1, <1>4, LatestIs
<1>6. {Incident(e, "PHASE_PREVIOUS_MISMATCH", b) :
          b \in {c \in changes : chain[c].prev # ExpectedPrevious(e, c)}}'
      = {Incident(e, "PHASE_PREVIOUS_MISMATCH", b) :
            b \in {c \in changes : chain[c].prev # ExpectedPrevious(e, c)}}
  BY <1>1, <1>2, PhasesStay DEF Incident, Kinds
<1>7. {Incident(e, "PHASE_NON_SEQUENTIAL", b) :
          b \in {c \in changes : chain[c].next # ExpectedPrevious(e, c) + 1}}'
      = {Incident(e, "PHASE_NON_SEQUENTIAL", b) :
            b \in {c \in changes : chain[c].next # ExpectedPrevious(e, c) + 1}}
  BY <1>1, <1>2, PhasesStay DEF Incident, Kinds
<1>8. (IF changes # {} /\ phaseOf[e] # chain[Latest(changes)].next
       THEN {Incident(e, "PHASE_CURRENT_MISMATCH", phaseOf[e])} ELSE {})'
      = IF changes # {} /\ phaseOf[e] # chain[Latest(changes)].next
        THEN {Incident(e, "PHASE_CURRENT_MISMATCH", phaseOf[e])} ELSE {}
  BY <1>1, <1>2, <1>3, <1>5 DEF Incident, Kinds
<1>9. ASSUME NEW k \in Kinds, NEW code
      PROVE  Duplicates(e, k, code)' = Duplicates(e, k, code)
  BY <1>1, <1>2 DEF Duplicates, Incident
<1>10. ASSUME NEW k \in Kinds, NEW phase, NEW code
       PROVE  OutOfPhase(e, k, phase, code)' = OutOfPhase(e, k, phase, code)
  <2>1. Examined(e, k)' = Examined(e, k) /\ Examined(e, k) \subseteq Stored
    BY <1>1 DEF Examined
  <2>2. QED
    BY <2>1, PhasesStay DEF OutOfPhase, Incident
<1>11. Rules(e)' = Rules(e)
  BY <1>6, <1>7, <1>8, <1>9, <1>10 DEF Rules, Kinds
<1>12. Anchored(e)' = Anchored(e)
  BY <1>1, <1>2, <1>5 DEF Anchored, Kinds
<1>13. DataVersion(e)' = DataVersion(e)
  <2>1. [k \in Kinds |-> Cardinality(RowsOf(e, k))]'
        = [k \in Kinds |-> Cardinality(RowsOf(e, k))]
    BY <1>1
  <2>2. {RowsOf(e, k) : k \in Kinds}' = {RowsOf(e, k) : k \in Kinds}
    BY <1>1
  <2>3. QED
    BY <1>3, <2>1, <2>2 DEF DataVersion
<1>14. QED
  BY <1>11, <1>12, <1>13

(* A report says which rows it is about: its last block is one of them.    *)
LEMMA VersionTyped ==
  ASSUME AuditTyped, Placed, NEW e \in Elections
  PROVE  /\ DataVersion(e) \in Versions
         /\ \A k \in Kinds : \A b \in RowsOf(e, k) : b <= DataVersion(e).last
         /\ DataVersion(e).last = 0 \/ \E k \in Kinds : DataVersion(e).last \in RowsOf(e, k)
<1> DEFINE all == UNION {RowsOf(e, k) : k \in Kinds}
           last == IF all = {} THEN 0 ELSE Latest(all)
<1>1. MaxBlocks \in Nat /\ all \in SUBSET (1 .. MaxBlocks)
  BY RowsAreBlocks, AuditAssumption DEF AuditTyped, Placed
<1>2. all # {} => Latest(all) \in all /\ \A b \in all : b <= Latest(all)
  <2> HIDE DEF all
  <2>1. QED
    BY <1>1, LatestIs
<1>3. last \in Nat /\ \A b \in all : b <= last
  <2> HIDE DEF all
  <2>1. CASE all = {}
    BY <2>1
  <2>2. CASE all # {}
    <3>1. Latest(all) \in Nat /\ \A b \in all : b <= Latest(all)
      <4>1. Latest(all) \in all
        BY <1>2, <2>2
      <4>2. Latest(all) \in 1 .. MaxBlocks
        BY <1>1, <4>1
      <4>3. QED
        BY <1>1, <1>2, <2>2, <4>2
    <3>2. QED
      BY <2>2, <3>1
  <2>3. QED
    BY <2>1, <2>2
<1>4. last = 0 \/ last \in all
  <2> HIDE DEF all
  <2>1. QED
    BY <1>1, <1>2
<1>5. [k \in Kinds |-> Cardinality(RowsOf(e, k))] \in [Kinds -> Nat]
  BY RowsAreBlocks DEF AuditTyped, Placed
<1>6. phaseOf[e] \in 0 .. LastPhase
  BY DEF AuditTyped, TablesTyped
<1>7. DataVersion(e).last = last
  BY DEF DataVersion
<1>8. DataVersion(e) = [phase |-> phaseOf[e],
                        counts |-> [k \in Kinds |-> Cardinality(RowsOf(e, k))], last |-> last]
  BY DEF DataVersion
<1>9. DataVersion(e) \in Versions
  <2> HIDE DEF last
  <2>1. QED
    BY <1>3, <1>5, <1>6, <1>8 DEF Versions
<1>10. QED
  BY <1>3, <1>4, <1>7, <1>9

(* The same of the state a step leads to.                                  *)
VersionsKnown ==
  \A e \in Elections :
    /\ DataVersion(e) \in Versions
    /\ \A k \in Kinds : \A b \in RowsOf(e, k) : b <= DataVersion(e).last

(* Every election's version is one.                                        *)
LEMMA VersionsTyped == AuditTyped /\ Placed => VersionsKnown
  BY VersionTyped DEF VersionsKnown

(* So is the version in the state a step leads to.                         *)
LEMMA NextVersionTyped ==
  ASSUME AuditTyped', Placed', NEW e \in Elections, NEW v, v = DataVersion(e)'
  PROVE  v \in Versions /\ \A k \in Kinds : \A b \in RowsOf(e, k)' : b <= v.last
<1>1. (AuditTyped /\ Placed => VersionsKnown)'
  BY VersionsTyped, PTL
<1>2. VersionsKnown'
  BY <1>1
<1>3. QED
  BY <1>2 DEF VersionsKnown, Versions, Kinds

(* The incidents of the rules are records of the incident table.           *)
LEMMA RulesTyped ==
  ASSUME AuditTyped, Placed, NEW e \in Elections
  PROVE  /\ Rules(e) \subseteq [election : {e}, code : RuleCodes, ref : Refs]
         /\ Incidents(e) \subseteq [election : {e}, code : Codes, ref : Refs]
         /\ \A i \in Incidents(e) \ Rules(e) : i.code = "BLOCK_TIMESTAMP_MISSING"
<1>1. phaseOf[e] \in Nat
  BY DEF AuditTyped, TablesTyped, LastPhase
<1>2. \A k \in Kinds : \A b \in RowsOf(e, k) : b \in Nat /\ (k # "PHASE" => chain[b].ref \in Refs)
  <2>1. MaxBlocks \in Nat
    BY AuditAssumption
  <2>2. QED
    BY <2>1, RowsAreBlocks, BlocksAreEvents DEF AuditTyped, Placed
<1>3. ASSUME NEW code \in RuleCodes, NEW ref \in Refs
      PROVE  Incident(e, code, ref) \in [election : {e}, code : RuleCodes, ref : Refs]
  BY DEF Incident
<1>4. \A n \in Nat : n \in Refs
  BY DEF Refs
<1>5. {Incident(e, "PHASE_PREVIOUS_MISMATCH", b) :
          b \in {c \in RowsOf(e, "PHASE") : chain[c].prev # ExpectedPrevious(e, c)}}
      \subseteq [election : {e}, code : RuleCodes, ref : Refs]
  BY <1>2, <1>3, <1>4 DEF RuleCodes, Codes, Kinds
<1>6. {Incident(e, "PHASE_NON_SEQUENTIAL", b) :
          b \in {c \in RowsOf(e, "PHASE") : chain[c].next # ExpectedPrevious(e, c) + 1}}
      \subseteq [election : {e}, code : RuleCodes, ref : Refs]
  BY <1>2, <1>3, <1>4 DEF RuleCodes, Codes, Kinds
<1>7. Incident(e, "PHASE_CURRENT_MISMATCH", phaseOf[e])
      \in [election : {e}, code : RuleCodes, ref : Refs]
  BY <1>1, <1>3, <1>4 DEF RuleCodes, Codes
<1>8. ASSUME NEW k \in {"SIGNUP", "BALLOT"}, NEW code \in RuleCodes
      PROVE  Duplicates(e, k, code) \subseteq [election : {e}, code : RuleCodes, ref : Refs]
  BY <1>2, <1>3 DEF Duplicates, Kinds
<1>9. ASSUME NEW k, NEW phase, NEW code \in RuleCodes
      PROVE  OutOfPhase(e, k, phase, code) \subseteq [election : {e}, code : RuleCodes, ref : Refs]
  BY <1>3, <1>4 DEF OutOfPhase
<1>10. {"DUP_REGISTRY_NULLIFIER", "DUP_BALLOT_INDEX", "SIGNUP_OUT_OF_PHASE",
        "BALLOT_OUT_OF_PHASE"} \subseteq RuleCodes
  BY DEF RuleCodes, Codes
<1>11. Rules(e) \subseteq [election : {e}, code : RuleCodes, ref : Refs]
  BY <1>5, <1>6, <1>7, <1>8, <1>9, <1>10 DEF Rules
<1>12. Incident(e, "BLOCK_TIMESTAMP_MISSING", 0)
       \in [election : {e}, code : Codes, ref : Refs]
  BY <1>4 DEF Incident, Codes
<1>13. Incident(e, "BLOCK_TIMESTAMP_MISSING", 0).code = "BLOCK_TIMESTAMP_MISSING"
  BY DEF Incident
<1>14. RuleCodes \subseteq Codes
  BY DEF RuleCodes
<1>15. QED
  BY <1>11, <1>12, <1>13, <1>14 DEF Incidents

(* Where the rows are those of the first blocks, a rule raises an incident *)
(* exactly if one of the rows looked at is no event of the registry.       *)
LEMMA RulesFindUnlawful ==
  ASSUME AuditTyped, Placed, NEW e \in Elections, FromSetup(e),
         \A b \in Stored : 1 .. b \subseteq Stored, phaseOf[e] = PhaseOfRows(e)
  PROVE  Rules(e) # {} <=> \E b \in Audited(e) : ~Lawful(b)
<1> DEFINE Earlier(k, b) == {c \in RowsOf(e, k) : c < b}
<1>1. Stored \subseteq 1 .. MaxBlocks /\ MaxBlocks \in Nat
  BY AuditAssumption DEF Stored
<1>2. \A b \in Stored : \A k : Of(e, k, b - 1) = Earlier(k, b)
  <2> SUFFICES ASSUME NEW b \in Stored, NEW k PROVE Of(e, k, b - 1) = Earlier(k, b)
    OBVIOUS
  <2>1. b \in Nat /\ 1 .. b - 1 \subseteq Stored
    BY <1>1
  <2>2. \A c \in Stored : c \in 1 .. b - 1 <=> c < b
    BY <1>1, <2>1
  <2>3. QED
    BY <2>1, <2>2 DEF Of, RowsOf
<1>3. \A b \in Stored : PhaseAfter(e, b - 1) = PhaseAt(e, b)
  BY <1>2 DEF PhaseAfter, PhaseAt
<1>4. \A b \in RowsOf(e, "PHASE") : ExpectedPrevious(e, b) = PhaseAt(e, b)
  <2> SUFFICES ASSUME NEW b \in RowsOf(e, "PHASE")
               PROVE  ExpectedPrevious(e, b) = PhaseAt(e, b)
    OBVIOUS
  <2>1. b \in Stored /\ RowsOf(e, "PHASE") \subseteq Stored
    BY DEF RowsOf
  <2>2. CASE Earlier("PHASE", b) = {}
    <3>1. \A c \in RowsOf(e, "PHASE") : b <= c
      BY <1>1, <2>1, <2>2
    <3>2. chain[b].prev = 0
      BY <3>1 DEF FromSetup
    <3>3. QED
      BY <2>2, <3>2 DEF ExpectedPrevious, PhaseAt
  <2>3. CASE Earlier("PHASE", b) # {}
    BY <2>3 DEF ExpectedPrevious, PhaseAt
  <2>4. QED
    BY <2>2, <2>3
<1>5. \A b \in Stored : chain[b].election = e => chain[b].kind \in Kinds
                                                 /\ b \in RowsOf(e, chain[b].kind)
  BY BlocksAreEvents DEF AuditTyped, Placed, RowsOf
<1>6. \A b \in RowsOf(e, "PHASE") :
        Lawful(b) <=> /\ chain[b].prev = ExpectedPrevious(e, b)
                      /\ chain[b].next = ExpectedPrevious(e, b) + 1
  BY <1>3, <1>4 DEF Lawful, Allows, RowsOf
<1>7. \A b \in RowsOf(e, "SIGNUP") :
        Lawful(b) <=> /\ PhaseAt(e, b) = 1
                      /\ \A c \in Earlier("SIGNUP", b) : chain[c].ref # chain[b].ref
  BY <1>2, <1>3 DEF Lawful, Allows, RowsOf
<1>8. \A b \in RowsOf(e, "BALLOT") :
        Lawful(b) <=> /\ PhaseAt(e, b) = 3
                      /\ \A c \in Earlier("BALLOT", b) : chain[c].ref # chain[b].ref
  BY <1>2, <1>3 DEF Lawful, Allows, RowsOf
<1>9. /\ \A k : Examined(e, k) \subseteq RowsOf(e, k)
      /\ \A b \in Repeated(e) : \E k \in {"SIGNUP", "BALLOT"} :
            b \in RowsOf(e, k) /\ \E c \in Earlier(k, b) : chain[c].ref = chain[b].ref
      /\ \A k \in {"SIGNUP", "BALLOT"} : \A b \in RowsOf(e, k) :
            (\E c \in Earlier(k, b) : chain[c].ref = chain[b].ref) => b \in Repeated(e)
  BY DEF Examined, Repeated
<1>10. ASSUME NEW b \in Audited(e), ~Lawful(b)
       PROVE  Rules(e) # {}
  <2>1. CASE b \in RowsOf(e, "PHASE")
    <3>1. CASE chain[b].prev # ExpectedPrevious(e, b)
      <4>1. Incident(e, "PHASE_PREVIOUS_MISMATCH", b) \in Rules(e)
        BY <2>1, <3>1 DEF Rules
      <4>2. QED
        BY <4>1
    <3>2. CASE chain[b].next # ExpectedPrevious(e, b) + 1
      <4>1. Incident(e, "PHASE_NON_SEQUENTIAL", b) \in Rules(e)
        BY <2>1, <3>2 DEF Rules
      <4>2. QED
        BY <4>1
    <3>3. QED
      BY <1>6, <1>10, <2>1, <3>1, <3>2
  <2>2. CASE b \in RowsOf(e, "SIGNUP") /\ (b \in Examined(e, "SIGNUP") \/ b \in Repeated(e))
    <3>1. CASE b \in Examined(e, "SIGNUP") /\ PhaseAt(e, b) # 1
      <4>1. Incident(e, "SIGNUP_OUT_OF_PHASE", 0) \in Rules(e)
        BY <3>1 DEF Rules, OutOfPhase
      <4>2. QED
        BY <4>1
    <3>2. ASSUME NEW c \in Earlier("SIGNUP", b), chain[c].ref = chain[b].ref
          PROVE  Rules(e) # {}
      <4>1. c \in RowsOf(e, "SIGNUP") \ {b}
        BY <1>1, <3>2 DEF RowsOf
      <4>2. Incident(e, "DUP_REGISTRY_NULLIFIER", chain[b].ref) \in Rules(e)
        BY <2>2, <3>2, <4>1 DEF Rules, Duplicates
      <4>3. QED
        BY <4>2
    <3>3. CASE b \in Repeated(e)
      <4>1. PICK k \in {"SIGNUP", "BALLOT"} :
              b \in RowsOf(e, k) /\ \E c \in Earlier(k, b) : chain[c].ref = chain[b].ref
        BY <1>9, <3>3
      <4>2. k = "SIGNUP"
        BY <2>2, <4>1 DEF RowsOf
      <4>3. QED
        BY <3>2, <4>1, <4>2
    <3>4. QED
      BY <1>7, <1>10, <2>2, <3>1, <3>2, <3>3
  <2>3. CASE b \in RowsOf(e, "BALLOT") /\ (b \in Examined(e, "BALLOT") \/ b \in Repeated(e))
    <3>1. CASE b \in Examined(e, "BALLOT") /\ PhaseAt(e, b) # 3
      <4>1. Incident(e, "BALLOT_OUT_OF_PHASE", 0) \in Rules(e)
        BY <3>1 DEF Rules, OutOfPhase
      <4>2. QED
        BY <4>1
    <3>2. ASSUME NEW c \in Earlier("BALLOT", b), chain[c].ref = chain[b].ref
          PROVE  Rules(e) # {}
      <4>1. c \in RowsOf(e, "BALLOT") \ {b}
        BY <1>1, <3>2 DEF RowsOf
      <4>2. Incident(e, "DUP_BALLOT_INDEX", chain[b].ref) \in Rules(e)
        BY <2>3, <3>2, <4>1 DEF Rules, Duplicates
      <4>3. QED
        BY <4>2
    <3>3. CASE b \in Repeated(e)
      <4>1. PICK k \in {"SIGNUP", "BALLOT"} :
              b \in RowsOf(e, k) /\ \E c \in Earlier(k, b) : chain[c].ref = chain[b].ref
        BY <1>9, <3>3
      <4>2. k = "BALLOT"
        BY <2>3, <4>1 DEF RowsOf
      <4>3. QED
        BY <3>2, <4>1, <4>2
    <3>4. QED
      BY <1>8, <1>10, <2>3, <3>1, <3>2, <3>3
  <2>4. QED
    BY <1>9, <1>10, <2>1, <2>2, <2>3 DEF Audited
<1>11. ASSUME NEW i \in Rules(e)
       PROVE  \E b \in Audited(e) : ~Lawful(b)
  <2>1. \A k : \A b \in RowsOf(e, k) : b \in Stored /\ chain[b].election = e
    BY DEF RowsOf
  <2>2. ASSUME NEW b \in RowsOf(e, "PHASE"),
               \/ chain[b].prev # ExpectedPrevious(e, b)
               \/ chain[b].next # ExpectedPrevious(e, b) + 1
        PROVE  \E d \in Audited(e) : ~Lawful(d)
    BY <1>6, <2>2 DEF Audited
  <2>3. ~(RowsOf(e, "PHASE") # {} /\ phaseOf[e] # chain[Latest(RowsOf(e, "PHASE"))].next)
    BY DEF PhaseOfRows
  <2>4. ASSUME NEW k \in {"SIGNUP", "BALLOT"},
               NEW b \in RowsOf(e, k), NEW c \in RowsOf(e, k) \ {b},
               chain[c].ref = chain[b].ref
        PROVE  \E d \in Audited(e) : ~Lawful(d)
    <3>1. b \in Nat /\ c \in Nat /\ (b < c \/ c < b)
      <4>1. b \in Stored /\ c \in Stored
        BY <2>1
      <4>2. b \in 1 .. MaxBlocks /\ c \in 1 .. MaxBlocks /\ b # c
        BY <1>1, <4>1
      <4>3. QED
        BY <1>1, <4>2
    <3>2. CASE b < c
      <4>1. b \in Earlier(k, c)
        BY <3>2
      <4>2. ~Lawful(c)
        BY <1>7, <1>8, <2>4, <4>1
      <4>3. c \in Audited(e)
        BY <1>9, <2>4, <4>1 DEF Audited
      <4>4. QED
        BY <4>2, <4>3
    <3>3. CASE c < b
      <4>1. c \in Earlier(k, b)
        BY <3>3
      <4>2. ~Lawful(b)
        BY <1>7, <1>8, <2>4, <4>1
      <4>3. b \in Audited(e)
        BY <1>9, <2>4, <4>1 DEF Audited
      <4>4. QED
        BY <4>2, <4>3
    <3>4. QED
      BY <3>1, <3>2, <3>3
  <2>5. CASE i \in Duplicates(e, "SIGNUP", "DUP_REGISTRY_NULLIFIER")
             \/ i \in Duplicates(e, "BALLOT", "DUP_BALLOT_INDEX")
    BY <2>4, <2>5 DEF Duplicates
  <2>6. CASE i \in OutOfPhase(e, "SIGNUP", 1, "SIGNUP_OUT_OF_PHASE")
             \/ i \in OutOfPhase(e, "BALLOT", 3, "BALLOT_OUT_OF_PHASE")
    <3>1. \/ \E b \in Examined(e, "SIGNUP") : PhaseAt(e, b) # 1
          \/ \E b \in Examined(e, "BALLOT") : PhaseAt(e, b) # 3
      BY <2>6 DEF OutOfPhase
    <3>2. QED
      BY <1>7, <1>8, <1>9, <3>1 DEF Audited
  <2>7. QED
    BY <2>2, <2>3, <2>5, <2>6, <1>11 DEF Rules
<1>12. QED
  BY <1>10, <1>11

(* The custody incidents and the statuses of an election are about it.     *)
LEMMA CustodyTyped ==
  ASSUME AuditTyped, Placed, NEW e \in Elections
  PROVE  /\ Anchored(e) \subseteq Acts
         /\ Missing(e) \cup Failures(e) \subseteq [election : {e}, code : CustodyCodes, ref : Acts]
         /\ Verified(e) \subseteq [election : {e}, code : Verdicts, ref : Acts]
<1>1. Anchored(e) \subseteq Acts
  <2>1. "ACTA" \in Kinds
    BY DEF Kinds
  <2>2. RowsOf(e, "ACTA") \in SUBSET (1 .. MaxBlocks) /\ MaxBlocks \in Nat
        /\ \A b \in RowsOf(e, "ACTA") : chain[b].ref \in Acts
    BY <2>1, AuditAssumption, RowsAreBlocks, BlocksAreEvents DEF AuditTyped, Placed
  <2>3. RowsOf(e, "ACTA") # {} => Latest(RowsOf(e, "ACTA")) \in RowsOf(e, "ACTA")
    BY <2>2, LatestIs
  <2>4. QED
    BY <2>2, <2>3 DEF Anchored
<1>2. Missing(e) \subseteq [election : {e}, code : CustodyCodes, ref : Acts]
  BY <1>1 DEF Missing, Incident, CustodyCodes
<1>3. QED
  BY <1>1, <1>2 DEF Failures, Verified

(* What is written of custody is an incident of its codes, or a verdict.   *)
LEMMA CodesOfCustody ==
  ASSUME NEW e, NEW w
  PROVE  /\ w \in Custody(e) \cup Outdated(e) =>
              w.election = e /\ w.code \in CustodyCodes /\ w.code \notin Verdicts
         /\ w \in Verified(e) => w.election = e /\ w.code \in Verdicts
<1>1. \A c : c \in CustodyCodes => c \notin Verdicts
  BY DEF CustodyCodes, Verdicts
<1>2. w \in Missing(e) \cup Outdated(e) => w.election = e /\ w.code \in CustodyCodes
  <2>1. \A a : LET i == Incident(e, "ACTA_CONTENT_MISSING", a)
               IN  i.election = e /\ i.code \in CustodyCodes
    BY DEF Incident, CustodyCodes
  <2>2. w \in Missing(e) \cup Outdated(e)
           => \E a \in Anchored(e) : w = Incident(e, "ACTA_CONTENT_MISSING", a)
    BY DEF Missing, Outdated
  <2>3. QED
    BY <2>1, <2>2
<1>3. w \in Failures(e) => w.election = e /\ w.code \in CustodyCodes
  BY DEF Failures
<1>4. w \in Verified(e) => w.election = e /\ w.code \in Verdicts
  BY DEF Verified
<1>5. QED
  BY <1>1, <1>2, <1>3, <1>4 DEF Custody

(* The chain and the files.                                                *)
LEMMA ChainStaysTyped ==
  ASSUME AuditTyped, [AuditNext]_auditVars
  PROVE  ChainTyped'
<1>1. ASSUME NEW ev \in Events, NewBlock(ev) PROVE ChainTyped'
  <2>1. chain \in Seq(Events) /\ Len(chain) \in Nat /\ Len(chain) < MaxBlocks
        /\ chain' = Append(chain, ev) /\ MaxBlocks \in Nat
    BY <1>1, AuditAssumption DEF NewBlock, AuditTyped, ChainTyped
  <2>2. Append(chain, ev) \in Seq(Events) /\ Len(Append(chain, ev)) = Len(chain) + 1
    BY <2>1
  <2>3. QED
    BY <2>1, <2>2 DEF ChainTyped
<1>2. CASE chain' = chain
  BY <1>2 DEF AuditTyped, ChainTyped
<1>3. QED
  BY <1>1, <1>2 DEF AuditNext, auditVars, IndexerStep, Crash, WriteActa, SaveActaContent, DamageActa,
    ListMissingTimes, FillTime, EndBackfill, LoadActas, UpsertActa, ResolveCustody,
    WriteCustody, VerifyContents, EndCustody, SkipReport, ResolveManaged, Raise, StoreReport, EndChecks,
    Poll, StoreBatch, StoreCursor

(* A file that is loaded is a content of its election and act, once.       *)
LEMMA UpsertKeepsFiles ==
  ASSUME AuditTyped, Placed, NEW f \in indexer.upserts, UpsertActa(f)
  PROVE  FilesTyped'
<1> DEFINE others == contents \ ContentOf(f.election, f.act)
           status == IF ContentOf(f.election, f.act) = {} THEN "NONE"
                     ELSE (CHOOSE c \in ContentOf(f.election, f.act) : TRUE).status
           row == [election |-> f.election, act |-> f.act, hash |-> f.hash,
                   valid |-> f.valid, status |-> status]
           unique == \A c \in others : c.election = f.election => c.hash # f.hash
<1>1. f \in Signed /\ contents \subseteq Contents /\ <<f.election, f.act>> \notin BoardActas
  BY AuditAssumption DEF AuditTyped, ProcessTyped, IndexerRecords, FilesTyped, Placed
<1>2. disk' = disk
  BY DEF UpsertActa
<1>3. CASE ~unique
  BY <1>2, <1>3 DEF UpsertActa, AuditTyped, FilesTyped
<1>4. CASE unique
  <2>1. contents' = others \cup {row}
    BY <1>4 DEF UpsertActa
  <2>2. others \subseteq contents
    OBVIOUS
  <2>3. status \in Statuses
    <3>1. CASE ContentOf(f.election, f.act) = {}
      BY <3>1 DEF Statuses
    <3>2. CASE ContentOf(f.election, f.act) # {}
      <4>1. PICK c : c = CHOOSE d \in ContentOf(f.election, f.act) : TRUE
        OBVIOUS
      <4>2. c \in ContentOf(f.election, f.act)
        BY <3>2, <4>1
      <4>3. c \in Contents
        BY <1>1, <4>2 DEF ContentOf
      <4>4. c.status \in Statuses
        BY <4>3 DEF Contents
      <4>5. QED
        BY <3>2, <4>1, <4>4
    <3>3. QED
      BY <3>1, <3>2
  <2>4. row \in Contents
    <3> HIDE DEF status
    <3>1. QED
      BY <1>1, <2>3 DEF Signed, Contents
  <2>5. \A c \in others : c.election = f.election => c.act # f.act /\ c.hash # f.hash
    BY <1>4 DEF ContentOf
  <2>6. row.election = f.election /\ row.act = f.act /\ row.hash = f.hash
    OBVIOUS
  <2> HIDE DEF row
  <2>7. \A c, d \in contents' : c.election = d.election /\ (c.act = d.act \/ c.hash = d.hash)
                                  => c = d
    BY <2>1, <2>2, <2>5, <2>6 DEF AuditTyped, FilesTyped
  <2>8. contents' \subseteq Contents
    BY <1>1, <2>1, <2>2, <2>4
  <2>9. \A c \in contents' :
          <<c.election, c.act>> \in BoardActas => c.valid /\ c.hash = c.act
    BY <1>1, <2>1, <2>2, <2>6 DEF AuditTyped, FilesTyped
  <2>10. QED
    BY <1>2, <2>7, <2>8, <2>9 DEF AuditTyped, FilesTyped
<1>5. QED
  BY <1>3, <1>4

(* A status that is written leaves every content what it was.              *)
LEMMA WriteKeepsFiles ==
  ASSUME AuditTyped, NEW w \in indexer.writes, WriteCustody(w)
  PROVE  FilesTyped'
<1>1. w \in Writes /\ disk' = disk
  BY DEF AuditTyped, ProcessTyped, IndexerRecords, WriteCustody
<1>2. CASE w.code \notin Verdicts
  BY <1>1, <1>2 DEF WriteCustody, AuditTyped, FilesTyped
<1>3. CASE w.code \in Verdicts
  <2> DEFINE New(c) == IF c.election = w.election /\ c.act = w.ref
                       THEN [c EXCEPT !.status = w.code] ELSE c
  <2>1. contents' = {New(c) : c \in contents}
    BY <1>3 DEF WriteCustody
  <2>2. \A c \in contents : c \in Contents
    BY DEF AuditTyped, FilesTyped
  <2>3. \A c \in contents : /\ New(c) \in Contents /\ New(c).election = c.election
                            /\ New(c).act = c.act /\ New(c).hash = c.hash
                            /\ New(c).valid = c.valid
    <3> SUFFICES ASSUME NEW c \in contents
                 PROVE  /\ New(c) \in Contents /\ New(c).election = c.election
                        /\ New(c).act = c.act /\ New(c).hash = c.hash
                        /\ New(c).valid = c.valid
      OBVIOUS
    <3>1. c \in Contents /\ w.code \in Statuses
      BY <1>3, <2>2 DEF Statuses
    <3>2. QED
      BY <3>1 DEF Contents
  <2> HIDE DEF New
  <2>4. \A c, d \in contents : c.election = d.election /\ (c.act = d.act \/ c.hash = d.hash)
                                  => c = d
    BY DEF AuditTyped, FilesTyped
  <2>5. \A c, d \in contents' : c.election = d.election /\ (c.act = d.act \/ c.hash = d.hash)
                                  => c = d
    BY <2>1, <2>3, <2>4
  <2>6. contents' \subseteq Contents
    BY <2>1, <2>3
  <2>7. \A c \in contents' :
          <<c.election, c.act>> \in BoardActas => c.valid /\ c.hash = c.act
    BY <2>1, <2>3 DEF AuditTyped, FilesTyped
  <2>8. QED
    BY <1>1, <2>5, <2>6, <2>7 DEF AuditTyped, FilesTyped
<1>4. QED
  BY <1>2, <1>3

(* A content that the board writes is right.                               *)
LEMMA SaveKeepsFiles ==
  ASSUME AuditTyped, NEW e \in Elections, NEW a \in Acts, SaveActaContent(e, a)
  PROVE  FilesTyped'
<1> DEFINE others == contents \ ContentOf(e, a)
           row == [election |-> e, act |-> a, hash |-> a, valid |-> TRUE, status |-> "VALID"]
<1>1. contents' = others \cup {row} /\ disk' = disk
  BY DEF SaveActaContent
<1>2. row \in Contents /\ row.election = e /\ row.act = a /\ row.hash = a /\ row.valid
  BY DEF Contents, Statuses
<1>3. others \subseteq contents /\ \A c \in others : c.election = e => c.act # a /\ c.hash # a
  BY DEF SaveActaContent, ContentOf
<1> HIDE DEF row, others
<1>4. contents' \subseteq Contents
  BY <1>1, <1>2, <1>3 DEF AuditTyped, FilesTyped
<1>5. \A c, d \in contents' : c.election = d.election /\ (c.act = d.act \/ c.hash = d.hash)
                                => c = d
  BY <1>1, <1>2, <1>3 DEF AuditTyped, FilesTyped
<1>6. \A c \in contents' : <<c.election, c.act>> \in BoardActas => c.valid /\ c.hash = c.act
  BY <1>1, <1>2, <1>3 DEF AuditTyped, FilesTyped
<1>7. QED
  BY <1>1, <1>4, <1>5, <1>6 DEF AuditTyped, FilesTyped

(* The files and the contents.                                             *)
LEMMA FilesStayTyped ==
  ASSUME AuditTyped, Placed, [AuditNext]_auditVars
  PROVE  FilesTyped'
<1>1. CASE disk' = disk /\ contents' = contents
  BY <1>1 DEF AuditTyped, FilesTyped
<1>2. ASSUME NEW e \in Elections, NEW a \in Acts, WriteActa(e, a) PROVE FilesTyped'
  <2>1. PICK f : f = [election |-> e, act |-> a, hash |-> a, valid |-> TRUE]
    OBVIOUS
  <2>2. f \in Signed /\ f.election = e /\ f.act = a
    BY <2>1 DEF Signed
  <2>3. disk' = disk \cup {f} /\ <<e, a>> \in Files /\ contents' = contents
    BY <1>2, <2>1 DEF WriteActa
  <2>4. QED
    BY <2>2, <2>3 DEF AuditTyped, FilesTyped
<1>3. ASSUME NEW f \in disk, DamageActa(f) PROVE FilesTyped'
  <2>1. \A h \in Acts : /\ [f EXCEPT !.hash = h, !.valid = FALSE] \in Signed
                        /\ [f EXCEPT !.hash = h, !.valid = FALSE].election = f.election
                        /\ [f EXCEPT !.hash = h, !.valid = FALSE].act = f.act
    BY DEF AuditTyped, FilesTyped, Signed
  <2>2. /\ disk' \subseteq Signed /\ contents' = contents
        /\ \A d \in disk' : <<d.election, d.act>> \in Files
    BY <1>3, <2>1 DEF DamageActa, AuditTyped, FilesTyped
  <2>3. QED
    BY <2>2 DEF AuditTyped, FilesTyped
<1>4. QED
  BY <1>1, <1>2, <1>3, UpsertKeepsFiles, WriteKeepsFiles, SaveKeepsFiles DEF AuditNext, auditVars,
    IndexerStep, Crash, NewBlock, ListMissingTimes, FillTime, EndBackfill, LoadActas,
    ResolveCustody, VerifyContents, EndCustody, SkipReport, ResolveManaged, Raise, StoreReport, EndChecks,
    Poll, StoreBatch, StoreCursor

(* What the process writes has the type of its table.                      *)
LEMMA RaisedIsTyped ==
  ASSUME AuditTyped, Placed, Renewal, NEW w \in indexer.writes,
         Raise(w) \/ (WriteCustody(w) /\ w.code \notin Verdicts)
  PROVE  w \in [election : Elections, code : Codes \cup CustodyCodes, ref : Refs]
<1>1. w \in Writes
  BY DEF AuditTyped, ProcessTyped, IndexerRecords
<1>2. CASE WriteCustody(w) /\ w.code \notin Verdicts
  BY <1>1, <1>2 DEF Writes
<1>3. CASE Raise(w)
  <2>1. PICK e \in Elections : w \in Incidents(e)
    BY <1>3 DEF Raise, Renewal, AuditTyped, ProcessTyped, IndexerRecords
  <2>2. w \in [election : {e}, code : Codes, ref : Refs]
    BY <2>1, RulesTyped
  <2>3. QED
    BY <2>2
<1>4. QED
  BY <1>2, <1>3

(* A report that is stored is one.                                         *)
LEMMA StoreReportTyped ==
  ASSUME AuditTyped, Placed, NEW e \in Elections, StoreReport(e)
  PROVE  reports' \in [Elections -> Seq([version : Versions, ok : BOOLEAN])]
<1>1. PICK report : report = [version |-> DataVersion(e), ok |-> ~Critical(Incidents(e))]
  OBVIOUS
<1>2. report \in [version : Versions, ok : BOOLEAN]
  BY <1>1, VersionTyped DEF Critical
<1>3. reports' = reports \/ reports' = [reports EXCEPT ![e] = Append(reports[e], report)]
  BY <1>1 DEF StoreReport
<1>4. reports \in [Elections -> Seq([version : Versions, ok : BOOLEAN])]
  BY DEF AuditTyped, TablesTyped
<1>5. PICK R : R = [version : Versions, ok : BOOLEAN]
  OBVIOUS
<1>6. Append(reports[e], report) \in Seq(R)
  <2>1. reports[e] \in Seq(R) /\ report \in R
    BY <1>2, <1>4, <1>5
  <2>2. QED
    BY <2>1
<1>7. QED
  BY <1>3, <1>4, <1>5, <1>6

(* A batch stores rows and phases.                                         *)
LEMMA StoreBatchTables ==
  ASSUME AuditTyped, Placed, NEW untimed, StoreBatch(untimed)
  PROVE  /\ rows' \in [1 .. MaxBlocks -> {"ABSENT", "UNTIMED", "TIMED"}]
         /\ phaseOf' \in [Elections -> 0 .. LastPhase]
<1>1. rows' \in [1 .. MaxBlocks -> {"ABSENT", "UNTIMED", "TIMED"}]
  <2>1. \A b \in 1 .. MaxBlocks : rows[b] \in {"ABSENT", "UNTIMED", "TIMED"}
    BY DEF AuditTyped, TablesTyped
  <2>2. QED
    BY <2>1 DEF StoreBatch
<1> DEFINE batch == indexer.next .. indexer.to
           changes(e) == {b \in batch : chain[b].election = e /\ chain[b].kind = "PHASE"}
<1>2. indexer.next \in Nat \ {0} /\ indexer.to \in indexer.next .. Len(chain)
      /\ Len(chain) \in Nat
  BY DEF AuditTyped, ProcessTyped, IndexerRecords, Placed, StoreBatch, ChainTyped
<1>3. \A e : changes(e) \in SUBSET (1 .. Len(chain))
  BY <1>2
<1>4. \A e : changes(e) # {} => Latest(changes(e)) \in changes(e)
  <2> SUFFICES ASSUME NEW e, changes(e) # {} PROVE Latest(changes(e)) \in changes(e)
    OBVIOUS
  <2>1. PICK C : C = changes(e)
    OBVIOUS
  <2>2. C \in SUBSET (1 .. Len(chain)) /\ C # {}
    BY <1>3, <2>1
  <2>3. Latest(C) \in C
    BY <1>2, <2>2, LatestIs
  <2>4. QED
    BY <2>1, <2>3
<1>5. \A e : changes(e) # {} => chain[Latest(changes(e))].next \in 0 .. LastPhase
  <2> SUFFICES ASSUME NEW e, changes(e) # {}
               PROVE  chain[Latest(changes(e))].next \in 0 .. LastPhase
    OBVIOUS
  <2>1. PICK b : b = Latest(changes(e))
    OBVIOUS
  <2>2. b \in DOMAIN chain /\ chain[b].kind = "PHASE"
    <3>1. b \in changes(e)
      BY <1>4, <2>1
    <3>2. b \in 1 .. Len(chain) /\ chain[b].kind = "PHASE"
      BY <1>2, <3>1
    <3>3. QED
      BY <3>2 DEF AuditTyped, ChainTyped
  <2>3. chain[b].next \in 1 .. LastPhase
    BY <2>2, BlocksAreEvents DEF AuditTyped
  <2>4. QED
    BY <2>1, <2>3 DEF LastPhase
<1>6. phaseOf' = [e \in Elections |->
                    IF changes(e) = {} THEN phaseOf[e] ELSE chain[Latest(changes(e))].next]
  BY DEF StoreBatch
<1>7. \A e \in Elections : phaseOf[e] \in 0 .. LastPhase
  BY DEF AuditTyped, TablesTyped
<1> HIDE DEF changes
<1>8. phaseOf' \in [Elections -> 0 .. LastPhase]
  BY <1>5, <1>6, <1>7
<1>9. QED
  BY <1>1, <1>8

(* The tables.                                                             *)
LEMMA TablesStayTyped ==
  ASSUME AuditTyped, Placed, Renewal, [AuditNext]_auditVars
  PROVE  TablesTyped'
<1> DEFINE R == [election : Elections, code : Codes \cup CustodyCodes, ref : Refs]
<1>1. /\ rows' \in [1 .. MaxBlocks -> {"ABSENT", "UNTIMED", "TIMED"}]
      /\ phaseOf' \in [Elections -> 0 .. LastPhase]
  <2>1. CASE rows' = rows /\ phaseOf' = phaseOf
    BY <2>1 DEF AuditTyped, TablesTyped
  <2>2. ASSUME NEW b \in 1 .. MaxBlocks, NEW found \in BOOLEAN, FillTime(b, found)
        PROVE  /\ rows' \in [1 .. MaxBlocks -> {"ABSENT", "UNTIMED", "TIMED"}]
               /\ phaseOf' \in [Elections -> 0 .. LastPhase]
    BY <2>2 DEF FillTime, AuditTyped, TablesTyped
  <2>3. QED
    BY <2>1, <2>2, StoreBatchTables DEF AuditNext, auditVars, IndexerStep, Crash, NewBlock,
      WriteActa, SaveActaContent, DamageActa, ListMissingTimes, EndBackfill, LoadActas, UpsertActa,
      ResolveCustody, WriteCustody, VerifyContents, EndCustody, SkipReport, ResolveManaged, Raise,
      StoreReport, EndChecks, Poll, StoreCursor
<1>2. cursor' \in Nat \ {0}
  <2>1. CASE cursor' = cursor
    BY <2>1 DEF AuditTyped, TablesTyped
  <2>2. CASE StoreCursor
    BY <2>2 DEF StoreCursor, AuditTyped, ProcessTyped, IndexerRecords
  <2>3. QED
    BY <2>1, <2>2 DEF AuditNext, auditVars, IndexerStep, Crash, NewBlock, WriteActa, SaveActaContent,
      DamageActa, ListMissingTimes, FillTime, EndBackfill, LoadActas, UpsertActa,
      ResolveCustody, WriteCustody, VerifyContents, EndCustody, SkipReport, ResolveManaged, Raise,
      StoreReport, EndChecks, Poll, StoreBatch
<1>3. reports' \in [Elections -> Seq([version : Versions, ok : BOOLEAN])]
  <2>1. CASE reports' = reports
    BY <2>1 DEF AuditTyped, TablesTyped
  <2>2. QED
    BY <2>1, StoreReportTyped DEF AuditNext, auditVars, IndexerStep, Crash, NewBlock,
      WriteActa, SaveActaContent, DamageActa, ListMissingTimes, FillTime, EndBackfill, LoadActas, UpsertActa,
      ResolveCustody, WriteCustody, VerifyContents, EndCustody, SkipReport, ResolveManaged, Raise,
      EndChecks, Poll, StoreBatch, StoreCursor
<1>4. active' \subseteq R
  <2>1. active \subseteq R
    BY DEF AuditTyped, TablesTyped
  <2>2. CASE active' \subseteq active
    BY <2>1, <2>2
  <2>3. ASSUME NEW w \in indexer.writes, WriteCustody(w) \/ Raise(w) PROVE active' \subseteq R
    BY <2>1, <2>3, RaisedIsTyped DEF WriteCustody, Raise
  <2>4. QED
    BY <2>2, <2>3 DEF AuditNext, auditVars, IndexerStep, Crash, NewBlock,
      WriteActa, SaveActaContent, DamageActa, ListMissingTimes, FillTime, EndBackfill, LoadActas, UpsertActa,
      ResolveCustody, VerifyContents, EndCustody, SkipReport, ResolveManaged, StoreReport,
      EndChecks, Poll, StoreBatch, StoreCursor
<1>5. QED
  BY <1>1, <1>2, <1>3, <1>4 DEF TablesTyped

(* What is used of a bound grows.                                          *)
LEMMA UseGrows ==
  ASSUME used \in Uses, NEW what \in {"anomalies", "damages", "gaps", "lags", "crashes"},
         NEW max, Use(what, max)
  PROVE  /\ used' \in Uses
         /\ used'.lags = IF what = "lags" THEN used.lags + 1 ELSE used.lags
         /\ used'.crashes = IF what = "crashes" THEN used.crashes + 1 ELSE used.crashes
         /\ used'.ended = used.ended
<1>1. used' = [used EXCEPT ![what] = used[what] + 1]
  BY DEF Use
<1>2. used[what] + 1 \in Nat
  BY DEF Uses
<1>3. CASE what = "anomalies"
  BY <1>1, <1>2, <1>3 DEF Uses
<1>4. CASE what = "damages"
  BY <1>1, <1>2, <1>4 DEF Uses
<1>5. CASE what = "gaps"
  BY <1>1, <1>2, <1>5 DEF Uses
<1>6. CASE what = "lags"
  BY <1>1, <1>2, <1>6 DEF Uses
<1>7. CASE what = "crashes"
  BY <1>1, <1>2, <1>7 DEF Uses
<1>8. QED
  BY <1>3, <1>4, <1>5, <1>6, <1>7

(* No step takes back a lag, a death or the end of the process.            *)
LEMMA UsedStays ==
  ASSUME AuditTyped, Placed, [AuditNext]_auditVars
  PROVE  used' \in Uses /\ (Upright' => Upright) /\ (~Restarted' => ~Restarted)
<1>1. used \in Uses
  BY DEF AuditTyped, ProcessTyped
<1>2. CASE used' = used
  BY <1>1, <1>2 DEF Upright, Restarted
<1>3. ASSUME NEW what \in {"anomalies", "damages", "gaps", "lags", "crashes"}, NEW max,
             Use(what, max)
      PROVE  used' \in Uses /\ (Upright' => Upright) /\ (~Restarted' => ~Restarted)
  <2>1. used.lags \in Nat /\ used.crashes \in Nat
    BY <1>1 DEF Uses
  <2>2. QED
    BY <1>1, <1>3, <2>1, UseGrows DEF Upright, Restarted
<1>4. ASSUME NEW f \in indexer.upserts, UpsertActa(f)
      PROVE  used' \in Uses /\ (Upright' => Upright) /\ (~Restarted' => ~Restarted)
  <2>1. used' = used \/ used' = [used EXCEPT !.ended = TRUE]
    BY <1>4 DEF UpsertActa
  <2>2. QED
    BY <1>1, <2>1 DEF Upright, Restarted, Uses
<1>5. ASSUME NEW untimed, StoreBatch(untimed)
      PROVE  used' \in Uses /\ (Upright' => Upright) /\ (~Restarted' => ~Restarted)
  <2>1. Cardinality(untimed) \in Nat
    <3>1. untimed \subseteq indexer.next .. indexer.to /\ indexer.next \in Nat /\ indexer.to \in Nat
      BY <1>5 DEF StoreBatch, AuditTyped, ProcessTyped, IndexerRecords
    <3>2. IsFiniteSet(indexer.next .. indexer.to)
      BY <3>1, FS_Interval
    <3>3. QED
      BY <3>1, <3>2, FS_Subset, FS_CardinalityType
  <2>2. used' = used \/ used' = [used EXCEPT !.gaps = used.gaps + Cardinality(untimed)]
    BY <1>5 DEF StoreBatch
  <2>3. used.gaps + Cardinality(untimed) \in Nat
    BY <1>1, <2>1 DEF Uses
  <2>4. QED
    BY <1>1, <2>2, <2>3 DEF Upright, Restarted, Uses
<1>6. QED
  BY <1>2, <1>3, <1>4, <1>5 DEF AuditNext, auditVars, IndexerStep, Crash, NewBlock,
    WriteActa, SaveActaContent, DamageActa, ListMissingTimes, FillTime, EndBackfill, LoadActas,
    ResolveCustody, WriteCustody, VerifyContents, EndCustody, SkipReport, ResolveManaged, Raise,
    StoreReport, EndChecks, Poll, StoreCursor

(* The process begins with nothing in hand.                                *)
LEMMA StartedTyped ==
  ASSUME NEW n \in Nat \ {0}
  PROVE  /\ Started(n) \in IndexerRecords /\ Started(n).at = "BACKFILL" /\ Started(n).next = n
         /\ Started(n).blocks = {} /\ Started(n).upserts = {} /\ Started(n).loaded = {}
  BY DEF Started, IndexerRecords, IndexerSteps

(* The process.                                                            *)
LEMMA IndexerStaysTyped ==
  ASSUME AuditTyped, Placed, [AuditNext]_auditVars
  PROVE  indexer' \in IndexerRecords
<1>1. indexer \in IndexerRecords /\ cursor \in Nat \ {0} /\ indexer.next \in Nat \ {0}
  BY DEF AuditTyped, ProcessTyped, TablesTyped, IndexerRecords
<1>0. \A e \in Hinted : Missing(e) \cup Failures(e) \cup Verified(e) \subseteq Writes
  <2> SUFFICES ASSUME NEW e \in Hinted
               PROVE  Missing(e) \cup Failures(e) \cup Verified(e) \subseteq Writes
    OBVIOUS
  <2>1. e \in Elections
    BY <1>1 DEF Hinted, IndexerRecords, Signed
  <2>2. [election : {e}, code : CustodyCodes, ref : Acts] \subseteq Writes
    BY <2>1 DEF Writes, Refs
  <2>3. [election : {e}, code : Verdicts, ref : Acts] \subseteq Writes
    BY <2>1 DEF Writes, Refs, Statuses
  <2>4. QED
    BY <2>1, <2>2, <2>3, CustodyTyped
<1>2. CASE indexer' = indexer
  BY <1>1, <1>2
<1>3. CASE indexer' = Started(cursor)
  BY <1>1, <1>3, StartedTyped
<1>4. CASE ListMissingTimes
  <2>1. {b \in Stored : rows[b] = "UNTIMED"} \in SUBSET (1 .. MaxBlocks)
    BY DEF Stored
  <2>2. QED
    BY <1>1, <1>4, <2>1 DEF ListMissingTimes, IndexerRecords, IndexerSteps
<1>5. ASSUME NEW b, NEW found, FillTime(b, found) PROVE indexer' \in IndexerRecords
  BY <1>1, <1>5 DEF FillTime, IndexerRecords
<1>6. CASE EndBackfill
  BY <1>1, <1>6 DEF EndBackfill, LoadNext, IndexerRecords, IndexerSteps
<1>7. CASE LoadActas
  BY <1>1, <1>7 DEF LoadActas, AuditTyped, FilesTyped, IndexerRecords, IndexerSteps
<1>8. ASSUME NEW f \in indexer.upserts, UpsertActa(f) PROVE indexer' \in IndexerRecords
  <2>1. indexer' = Started(cursor) \/ indexer' = [indexer EXCEPT !.upserts = indexer.upserts \ {f}]
    BY <1>8 DEF UpsertActa
  <2>2. QED
    BY <1>1, <1>3, <2>1 DEF IndexerRecords
<1>9. CASE ResolveCustody
  <2>1. PICK W : W = UNION {Missing(e) : e \in Hinted}
    OBVIOUS
  <2>2. W \subseteq Writes
    BY <1>0, <2>1
  <2>3. indexer' = [indexer EXCEPT !.at = "CUSTODY", !.writes = W]
    BY <1>9, <2>1 DEF ResolveCustody
  <2>4. QED
    BY <1>1, <2>2, <2>3 DEF IndexerRecords, IndexerSteps
<1>20. CASE VerifyContents
  <2>1. PICK W : W = UNION {Failures(e) \cup Verified(e) : e \in Hinted}
    OBVIOUS
  <2>2. W \subseteq Writes
    BY <1>0, <2>1
  <2>3. indexer' = [indexer EXCEPT !.at = "VERIFY", !.writes = W]
    BY <1>20, <2>1 DEF VerifyContents
  <2>4. QED
    BY <1>1, <2>2, <2>3 DEF IndexerRecords, IndexerSteps
<1>10. ASSUME NEW w \in indexer.writes, WriteCustody(w) \/ Raise(w)
       PROVE  indexer' \in IndexerRecords
  BY <1>1, <1>10 DEF WriteCustody, Raise, IndexerRecords
<1>11. CASE EndCustody
  BY <1>1, <1>11 DEF EndCustody, IndexerRecords, IndexerSteps
<1>12. ASSUME NEW e \in Elections, SkipReport(e) PROVE indexer' \in IndexerRecords
  BY <1>1, <1>12 DEF SkipReport, IndexerRecords
<1>13. ASSUME NEW e \in Elections, ResolveManaged(e) PROVE indexer' \in IndexerRecords
  <2>1. PICK W : W = Incidents(e)
    OBVIOUS
  <2>2. [election : {e}, code : Codes, ref : Refs] \subseteq Writes
    BY DEF Writes
  <2>3. W \subseteq Writes
    BY <2>1, <2>2, RulesTyped
  <2>4. indexer' = [indexer EXCEPT !.at = "RAISE", !.about = {e}, !.writes = W]
    BY <1>13, <2>1 DEF ResolveManaged
  <2>5. QED
    BY <1>1, <2>3, <2>4 DEF IndexerRecords, IndexerSteps
<1>14. ASSUME NEW e \in Elections, StoreReport(e) PROVE indexer' \in IndexerRecords
  <2>1. indexer' = [indexer EXCEPT !.at = "CHECK", !.about = {}, !.checks = @ \ {e}]
    BY <1>14 DEF StoreReport
  <2>2. QED
    BY <1>1, <2>1 DEF IndexerRecords, IndexerSteps
<1>15. CASE EndChecks
  <2>1. PICK s : s = Started(indexer.next)
    OBVIOUS
  <2>2. s \in IndexerRecords
    BY <1>1, <2>1, StartedTyped
  <2>3. indexer' = [s EXCEPT !.at = "POLL", !.loaded = indexer.loaded,
                             !.looping = indexer.looping, !.touched = indexer.touched]
    BY <1>15, <2>1 DEF EndChecks
  <2>4. QED
    BY <1>1, <2>2, <2>3 DEF IndexerRecords, IndexerSteps
<1>16. ASSUME NEW head \in 1 .. Len(chain), Poll(head) PROVE indexer' \in IndexerRecords
  <2>1. PICK to : to = IF head < indexer.next + BATCH_SIZE - 1 THEN head
                       ELSE indexer.next + BATCH_SIZE - 1
    OBVIOUS
  <2>2. to \in Nat
    BY <1>1, <2>1, AuditAssumption
  <2>3. PICK s : s = Started(indexer.next)
    OBVIOUS
  <2>4. s \in IndexerRecords
    BY <1>1, <2>3, StartedTyped
  <2>5. indexer' = [s EXCEPT !.at = "STORE", !.to = to]
    BY <1>16, <2>1, <2>3 DEF Poll
  <2>6. QED
    BY <2>2, <2>4, <2>5 DEF IndexerRecords, IndexerSteps
<1>17. ASSUME NEW untimed, StoreBatch(untimed) PROVE indexer' \in IndexerRecords
  <2>1. PICK T : T = {chain[b].election : b \in indexer.next .. indexer.to}
    OBVIOUS
  <2>2. indexer.next .. indexer.to \subseteq DOMAIN chain
    BY <1>1, <1>17 DEF StoreBatch, Placed, AuditTyped, ChainTyped
  <2>3. T \subseteq Elections
    BY <2>1, <2>2, BlocksAreEvents DEF AuditTyped
  <2>4. indexer' = [indexer EXCEPT !.at = "CURSOR", !.touched = T]
    BY <1>17, <2>1 DEF StoreBatch
  <2>5. QED
    BY <1>1, <2>3, <2>4 DEF IndexerRecords, IndexerSteps
<1>18. CASE StoreCursor
  <2>1. indexer.to + 1 \in Nat \ {0}
    BY <1>1 DEF IndexerRecords
  <2>2. indexer' = LoadNext([indexer EXCEPT !.next = indexer.to + 1], TRUE)
    BY <1>18 DEF StoreCursor
  <2>3. QED
    BY <1>1, <2>1, <2>2 DEF LoadNext, IndexerRecords, IndexerSteps
<1>19. QED
  BY <1>2, <1>3, <1>4, <1>5, <1>6, <1>7, <1>8, <1>9, <1>10, <1>11, <1>12, <1>13, <1>14, <1>15,
     <1>16, <1>17, <1>18, <1>20 DEF AuditNext, auditVars, IndexerStep, Crash, NewBlock, WriteActa,
     SaveActaContent,
     DamageActa

(* The whole state.                                                        *)
LEMMA StaysTyped ==
  ASSUME AuditTyped, Placed, Renewal, [AuditNext]_auditVars
  PROVE  AuditTyped'
  BY ChainStaysTyped, FilesStayTyped, TablesStayTyped, UsedStays, IndexerStaysTyped
     DEF AuditTyped, ProcessTyped

-----------------------------------------------------------------------------
(* A step that leaves the chain and the tables alone, and does not take a  *)
(* batch, leaves the process where it stands.                              *)
LEMMA PlacedFrame ==
  ASSUME AuditTyped, Placed,
         Len(chain) <= Len(chain)', Stored' = Stored, cursor' = cursor,
         indexer'.next = cursor, indexer'.blocks \subseteq Stored,
         indexer'.at \notin {"STORE", "CURSOR"}, indexer'.upserts \subseteq indexer'.loaded,
         \A f \in indexer'.loaded : <<f.election, f.act>> \in Files,
         DOMAIN chain = 1 .. Len(chain), DOMAIN chain' = 1 .. Len(chain)',
         Len(chain)' \in Nat
  PROVE  Placed'
<1>1. Len(chain) \in Nat /\ cursor \in Nat
  BY DEF AuditTyped, ChainTyped, TablesTyped
<1>2. DOMAIN chain \subseteq (DOMAIN chain)'
  BY <1>1
<1>3. cursor <= Len(chain)' + 1
  BY <1>1 DEF Placed
<1>4. QED
  BY <1>2, <1>3 DEF Placed

(* A batch is stored whole, and no row goes.                               *)
LEMMA StoreBatchStored ==
  ASSUME AuditTyped, Placed, NEW untimed, StoreBatch(untimed)
  PROVE  /\ indexer.next .. indexer.to \subseteq DOMAIN chain
         /\ indexer.next .. indexer.to \subseteq 1 .. MaxBlocks
         /\ Stored' = Stored \cup (indexer.next .. indexer.to)
<1>1. /\ indexer.next \in Nat \ {0} /\ indexer.to \in Nat /\ MaxBlocks \in Nat
      /\ Len(chain) \in Nat /\ Len(chain) <= MaxBlocks /\ DOMAIN chain = 1 .. Len(chain)
  BY AuditAssumption DEF AuditTyped, ChainTyped, ProcessTyped, IndexerRecords
<1>2. indexer.to <= Len(chain)
  <2>1. indexer.to \in indexer.next .. Len(chain)
    BY DEF Placed, StoreBatch
  <2>2. QED
    BY <1>1, <2>1
<1> DEFINE batch == indexer.next .. indexer.to
<1>3. batch \subseteq DOMAIN chain /\ batch \subseteq 1 .. MaxBlocks
  BY <1>1, <1>2
<1>4. rows' = [b \in 1 .. MaxBlocks |->
                 IF b \notin batch \/ rows[b] # "ABSENT" THEN rows[b]
                 ELSE IF b \in untimed THEN "UNTIMED" ELSE "TIMED"]
  BY DEF StoreBatch
<1> HIDE DEF batch
<1>5. \A b \in 1 .. MaxBlocks : rows'[b] # "ABSENT" <=> rows[b] # "ABSENT" \/ b \in batch
  BY <1>4
<1>6. Stored' = Stored \cup batch
  BY <1>3, <1>5 DEF Stored
<1>7. QED
  BY <1>3, <1>6 DEF batch

(* A later cursor allows for later rows.                                   *)
LEMMA LongerInterval ==
  ASSUME NEW m \in Nat, NEW n \in Nat, m <= n, NEW k \in Nat
  PROVE  1 .. m - 1 + k \subseteq 1 .. n - 1 + k
  OBVIOUS

(* The process stands where its cursor says.                               *)
LEMMA PlacedStays ==
  ASSUME AuditTyped, Placed, [AuditNext]_auditVars
  PROVE  Placed'
<1>1. /\ indexer \in IndexerRecords /\ cursor \in Nat \ {0} /\ indexer.next = cursor
      /\ Len(chain) \in Nat /\ DOMAIN chain = 1 .. Len(chain)
      /\ indexer.blocks \subseteq Stored /\ indexer.upserts \subseteq indexer.loaded
      /\ \A f \in indexer.loaded : <<f.election, f.act>> \in Files
  BY DEF AuditTyped, ProcessTyped, TablesTyped, ChainTyped, Placed
<1>2. CASE UNCHANGED <<chain, rows, cursor, indexer>>
  BY <1>2 DEF Placed, Stored
<1>3. ASSUME NEW ev \in Events, NewBlock(ev) PROVE Placed'
  <2>1. chain \in Seq(Events)
    BY DEF AuditTyped, ChainTyped
  <2>2. /\ Len(chain') = Len(chain) + 1 /\ DOMAIN chain' = 1 .. Len(chain')
    BY <1>3, <2>1 DEF NewBlock
  <2>3. rows' = rows /\ cursor' = cursor /\ indexer' = indexer
    BY <1>3 DEF NewBlock
  <2>4. cursor <= Len(chain') + 1 /\ DOMAIN chain \subseteq DOMAIN chain'
    BY <1>1, <2>2 DEF Placed
  <2>5. \A to \in Nat : to \in indexer.next .. Len(chain) => to \in indexer.next .. Len(chain')
    BY <1>1, <2>2
  <2>6. indexer.to \in Nat
    BY <1>1 DEF IndexerRecords
  <2>7. QED
    BY <2>3, <2>4, <2>5, <2>6 DEF Placed, Stored
<1> DEFINE Apart ==
      /\ UNCHANGED <<chain, cursor>> /\ Stored' = Stored
      /\ indexer'.next = cursor /\ indexer'.blocks \subseteq Stored
      /\ indexer'.at \notin {"STORE", "CURSOR"} /\ indexer'.upserts \subseteq indexer'.loaded
      /\ \A f \in indexer'.loaded : <<f.election, f.act>> \in Files
<1>4. Apart => Placed'
  BY <1>1, PlacedFrame
<1>5. CASE Crash
  <2>1. Apart
    BY <1>1, <1>5, StartedTyped DEF Crash, Stored
  <2>2. QED
    BY <1>4, <2>1
<1>6. CASE ListMissingTimes
  <2>1. Apart
    BY <1>1, <1>6 DEF ListMissingTimes, Stored, IndexerRecords
  <2>2. QED
    BY <1>4, <2>1
<1>7. ASSUME NEW b \in 1 .. MaxBlocks, NEW found \in BOOLEAN, FillTime(b, found) PROVE Placed'
  <2>1. Stored' = Stored
    <3>1. CASE ~found
      BY <1>7, <3>1 DEF FillTime, Stored
    <3>2. CASE found
      <4>1. b \in Stored /\ rows' = [rows EXCEPT ![b] = "TIMED"]
            /\ rows \in [1 .. MaxBlocks -> {"ABSENT", "UNTIMED", "TIMED"}]
        BY <1>1, <1>7, <3>2 DEF FillTime, AuditTyped, TablesTyped
      <4>2. \A c \in 1 .. MaxBlocks : rows'[c] # "ABSENT" <=> rows[c] # "ABSENT"
        BY <4>1 DEF Stored
      <4>3. QED
        BY <4>2 DEF Stored
    <3>3. QED
      BY <3>1, <3>2
  <2>2. indexer' = [indexer EXCEPT !.blocks = @ \ {b}] /\ indexer.at = "FILL"
        /\ chain' = chain /\ cursor' = cursor
    BY <1>7 DEF FillTime
  <2>3. Apart
    BY <1>1, <2>1, <2>2 DEF IndexerRecords
  <2>4. QED
    BY <1>4, <2>3
<1>8. CASE EndBackfill
  <2>1. Apart
    BY <1>1, <1>8 DEF EndBackfill, LoadNext, Stored, IndexerRecords
  <2>2. QED
    BY <1>4, <2>1
<1>9. CASE LoadActas
  <2>1. Apart
    BY <1>1, <1>9 DEF LoadActas, Stored, IndexerRecords, AuditTyped, FilesTyped
  <2>2. QED
    BY <1>4, <2>1
<1>10. ASSUME NEW f \in indexer.upserts, UpsertActa(f) PROVE Placed'
  <2>1. \/ indexer' = [indexer EXCEPT !.upserts = @ \ {f}]
        \/ indexer' = Started(cursor)
    BY <1>10 DEF UpsertActa
  <2>2. UNCHANGED <<chain, rows, cursor>> /\ indexer.at = "UPSERT"
    BY <1>10 DEF UpsertActa
  <2>3. Apart
    BY <1>1, <2>1, <2>2, StartedTyped DEF Stored, IndexerRecords
  <2>4. QED
    BY <1>4, <2>3
<1>11. CASE ResolveCustody \/ VerifyContents
  <2>1. \E W : \/ indexer' = [indexer EXCEPT !.at = "CUSTODY", !.writes = W]
              \/ indexer' = [indexer EXCEPT !.at = "VERIFY", !.writes = W]
    BY <1>11 DEF ResolveCustody, VerifyContents
  <2>2. UNCHANGED <<chain, rows, cursor>> /\ indexer.at \in {"UPSERT", "CUSTODY"}
    BY <1>11 DEF ResolveCustody, VerifyContents
  <2>3. Apart
    BY <1>1, <2>1, <2>2 DEF Stored, IndexerRecords
  <2>4. QED
    BY <1>4, <2>3
<1>12. ASSUME NEW w \in indexer.writes, WriteCustody(w) \/ Raise(w) PROVE Placed'
  <2>1. indexer' = [indexer EXCEPT !.writes = @ \ {w}] /\ UNCHANGED <<chain, rows, cursor>>
        /\ indexer.at \in {"CUSTODY", "VERIFY", "RAISE"}
    BY <1>12 DEF WriteCustody, Raise
  <2>2. Apart
    BY <1>1, <2>1 DEF Stored, IndexerRecords
  <2>3. QED
    BY <1>4, <2>2
<1>13. CASE EndCustody
  <2>1. Apart
    BY <1>1, <1>13 DEF EndCustody, Stored, IndexerRecords
  <2>2. QED
    BY <1>4, <2>1
<1>14. ASSUME NEW e \in Elections, SkipReport(e) PROVE Placed'
  <2>1. Apart
    BY <1>1, <1>14 DEF SkipReport, Stored, IndexerRecords
  <2>2. QED
    BY <1>4, <2>1
<1>15. ASSUME NEW e \in Elections, ResolveManaged(e) PROVE Placed'
  <2>1. PICK W : W = Incidents(e)
    OBVIOUS
  <2>2. indexer' = [indexer EXCEPT !.at = "RAISE", !.about = {e}, !.writes = W]
        /\ UNCHANGED <<chain, rows, cursor>>
    BY <1>15, <2>1 DEF ResolveManaged
  <2>3. Apart
    BY <1>1, <2>2 DEF Stored, IndexerRecords
  <2>4. QED
    BY <1>4, <2>3
<1>16. ASSUME NEW e \in Elections, StoreReport(e) PROVE Placed'
  <2>1. indexer' = [indexer EXCEPT !.at = "CHECK", !.about = {}, !.checks = @ \ {e}]
        /\ UNCHANGED <<chain, rows, cursor>>
    BY <1>16 DEF StoreReport
  <2>2. Apart
    BY <1>1, <2>1 DEF Stored, IndexerRecords
  <2>3. QED
    BY <1>4, <2>2
<1>17. CASE EndChecks
  <2>1. PICK s : s = Started(indexer.next)
    OBVIOUS
  <2>2. /\ s \in IndexerRecords /\ s.next = cursor /\ s.blocks = {} /\ s.upserts = {}
    BY <1>1, <2>1, StartedTyped
  <2>3. indexer' = [s EXCEPT !.at = "POLL", !.loaded = indexer.loaded,
                             !.looping = indexer.looping, !.touched = indexer.touched]
        /\ UNCHANGED <<chain, rows, cursor>>
    BY <1>17, <2>1 DEF EndChecks
  <2>4. Apart
    BY <1>1, <2>2, <2>3 DEF Stored, IndexerRecords
  <2>5. QED
    BY <1>4, <2>4
<1>18. ASSUME NEW head \in 1 .. Len(chain), Poll(head) PROVE Placed'
  <2>1. PICK full : full = indexer.next + BATCH_SIZE - 1
    OBVIOUS
  <2>2. PICK to : to = IF head < full THEN head ELSE full
    OBVIOUS
  <2>3. PICK s : s = Started(indexer.next)
    OBVIOUS
  <2>4. s \in IndexerRecords /\ s.next = cursor /\ s.blocks = {} /\ s.upserts = {}
        /\ s.loaded = {}
    BY <1>1, <2>3, StartedTyped
  <2>5. indexer' = [s EXCEPT !.at = "STORE", !.to = to] /\ UNCHANGED <<chain, rows, cursor>>
        /\ head \in indexer.next .. Len(chain)
    BY <1>18, <2>1, <2>2, <2>3 DEF Poll
  <2>6. to \in cursor .. Len(chain) /\ to <= cursor + BATCH_SIZE - 1
    BY <1>1, <2>1, <2>2, <2>5, AuditAssumption
  <2>7. indexer'.next = cursor /\ indexer'.at = "STORE" /\ indexer'.to = to
        /\ indexer'.blocks = {} /\ indexer'.upserts = {} /\ indexer'.loaded = {}
    BY <2>4, <2>5 DEF IndexerRecords
  <2>8. QED
    BY <2>5, <2>6, <2>7 DEF Placed, Stored
<1>19. ASSUME NEW untimed, StoreBatch(untimed) PROVE Placed'
  <2>1. PICK T : T = {chain[b].election : b \in indexer.next .. indexer.to}
    OBVIOUS
  <2>2. indexer' = [indexer EXCEPT !.at = "CURSOR", !.touched = T] /\ indexer.at = "STORE"
        /\ chain' = chain /\ cursor' = cursor
    BY <1>19, <2>1 DEF StoreBatch
  <2>3. Stored' = Stored \cup (indexer.next .. indexer.to)
        /\ indexer.next .. indexer.to \subseteq DOMAIN chain
    BY <1>19, StoreBatchStored
  <2>4. indexer.to \in Nat /\ indexer.to <= cursor + BATCH_SIZE - 1 /\ BATCH_SIZE \in Nat
    BY <1>1, <2>2, AuditAssumption DEF Placed, IndexerRecords
  <2>5. indexer.next .. indexer.to \subseteq 1 .. cursor - 1 + BATCH_SIZE
    BY <1>1, <2>4
  <2>6. /\ indexer'.next = indexer.next /\ indexer'.to = indexer.to /\ indexer'.at = "CURSOR"
        /\ indexer'.blocks = indexer.blocks /\ indexer'.upserts = indexer.upserts
        /\ indexer'.loaded = indexer.loaded
    BY <1>1, <2>2 DEF IndexerRecords
  <2>7. QED
    BY <2>2, <2>3, <2>5, <2>6 DEF Placed
<1>20. CASE StoreCursor
  <2>1. indexer.at = "CURSOR" /\ cursor' = indexer.to + 1 /\ UNCHANGED <<chain, rows>>
        /\ indexer' = [[indexer EXCEPT !.next = indexer.to + 1]
                          EXCEPT !.at = "LOAD", !.looping = TRUE]
    BY <1>20 DEF StoreCursor, LoadNext
  <2>2. /\ indexer'.next = indexer.to + 1 /\ indexer'.at = "LOAD"
        /\ indexer'.blocks = indexer.blocks /\ indexer'.upserts = indexer.upserts
        /\ indexer'.loaded = indexer.loaded /\ indexer.to \in Nat
    BY <1>1, <2>1 DEF IndexerRecords
  <2>3. indexer.to \in cursor .. Len(chain) /\ indexer.to <= cursor + BATCH_SIZE - 1
        /\ cursor .. indexer.to \subseteq Stored
    BY <1>1, <2>1 DEF Placed
  <2>4. cursor' <= Len(chain) + 1
    BY <1>1, <2>1, <2>2, <2>3
  <2>5. 1 .. cursor' - 1 \subseteq Stored
    <3>1. 1 .. cursor' - 1 \subseteq (1 .. cursor - 1) \cup (cursor .. indexer.to)
      BY <1>1, <2>1, <2>2
    <3>2. QED
      BY <2>3, <3>1 DEF Placed
  <2>6. 1 .. cursor - 1 + BATCH_SIZE \subseteq 1 .. cursor' - 1 + BATCH_SIZE
    <3>1. cursor <= cursor' /\ cursor' \in Nat
      BY <1>1, <2>1, <2>2, <2>3
    <3>2. BATCH_SIZE \in Nat /\ cursor \in Nat
      BY <1>1, AuditAssumption
    <3>3. QED
      BY <3>1, <3>2, LongerInterval
  <2>7. QED
    BY <1>1, <2>1, <2>2, <2>4, <2>5, <2>6 DEF Placed, Stored
<1>21. QED
  BY <1>2, <1>3, <1>5, <1>6, <1>7, <1>8, <1>9, <1>10, <1>11, <1>12, <1>13, <1>14, <1>15,
     <1>16, <1>17, <1>18, <1>19, <1>20 DEF AuditNext, auditVars, IndexerStep, WriteActa, SaveActaContent,
     DamageActa

(* The rows of all elections, and what they say, stay as they are.         *)
SameTables ==
  /\ Stored' = Stored
  /\ \A b \in Stored : chain'[b] = chain[b]
  /\ phaseOf' = phaseOf

(* Only a batch changes the rows; a missing time that is found does not.   *)
LEMMA OnlyBatchesStore ==
  ASSUME AuditTyped, Placed, [AuditNext]_auditVars
  PROVE  SameTables \/ \E untimed \in SUBSET (1 .. MaxBlocks) : StoreBatch(untimed)
<1>1. CASE UNCHANGED <<chain, rows, phaseOf>>
  BY <1>1 DEF SameTables, Stored
<1>2. ASSUME NEW ev \in Events, NewBlock(ev) PROVE SameTables
  <2>1. chain \in Seq(Events) /\ chain' = Append(chain, ev) /\ rows' = rows
        /\ phaseOf' = phaseOf
    BY <1>2 DEF NewBlock, AuditTyped, ChainTyped
  <2>2. \A b \in DOMAIN chain : chain'[b] = chain[b]
    BY <2>1
  <2>3. QED
    BY <2>1, <2>2 DEF SameTables, Stored, Placed
<1>3. ASSUME NEW b \in 1 .. MaxBlocks, NEW found \in BOOLEAN, FillTime(b, found)
      PROVE  SameTables
  <2>1. chain' = chain /\ phaseOf' = phaseOf
    BY <1>3 DEF FillTime
  <2>2. CASE ~found
    BY <1>3, <2>1, <2>2 DEF FillTime, SameTables, Stored
  <2>3. CASE found
    <3>1. b \in Stored /\ rows' = [rows EXCEPT ![b] = "TIMED"]
          /\ rows \in [1 .. MaxBlocks -> {"ABSENT", "UNTIMED", "TIMED"}]
      BY <1>3, <2>3 DEF FillTime, AuditTyped, TablesTyped, Placed
    <3>2. \A c \in 1 .. MaxBlocks : rows'[c] # "ABSENT" <=> rows[c] # "ABSENT"
      BY <3>1 DEF Stored
    <3>3. QED
      BY <2>1, <3>2 DEF SameTables, Stored
  <2>4. QED
    BY <2>2, <2>3
<1>4. QED
  BY <1>1, <1>2, <1>3 DEF AuditNext, auditVars, IndexerStep, Crash, WriteActa, SaveActaContent, DamageActa,
    ListMissingTimes, EndBackfill, LoadActas, UpsertActa, ResolveCustody, WriteCustody,
    VerifyContents, EndCustody, SkipReport, ResolveManaged, Raise, StoreReport, EndChecks, Poll, StoreCursor

(* With the rows, what the rules and the anchors say of them stays.        *)
LEMMA SameTablesSameRules ==
  ASSUME AuditTyped, Placed, SameTables, NEW e \in Elections
  PROVE  /\ SameRows(e)
         /\ Rules(e)' = Rules(e) /\ DataVersion(e)' = DataVersion(e)
         /\ Anchored(e)' = Anchored(e)
         /\ PhaseOfRows(e)' = PhaseOfRows(e)
<1>1. \A k \in Kinds : RowsOf(e, k)' = RowsOf(e, k)
  BY DEF RowsOf, SameTables
<1>2. SameRows(e)
  BY <1>1 DEF SameRows, SameTables
<1>3. ChainTyped /\ Stored \subseteq DOMAIN chain
  BY DEF AuditTyped, Placed
<1>4. RowsOf(e, "PHASE") # {} => Latest(RowsOf(e, "PHASE")) \in Stored
  <2>1. RowsOf(e, "PHASE") \in SUBSET (1 .. MaxBlocks) /\ RowsOf(e, "PHASE") \subseteq Stored
    BY <1>3, RowsAreBlocks DEF Kinds
  <2>2. MaxBlocks \in Nat
    BY AuditAssumption
  <2>3. QED
    BY <2>1, <2>2, LatestIs
<1>5. PhaseOfRows(e)' = PhaseOfRows(e)
  BY <1>1, <1>4 DEF PhaseOfRows, SameTables, Kinds
<1>6. QED
  BY <1>2, <1>3, <1>5, RulesStay

(* A batch adds its events to the rows of their elections.                 *)
LEMMA StoreBatchRows ==
  ASSUME AuditTyped, Placed, NEW untimed, StoreBatch(untimed), NEW e \in Elections
  PROVE  /\ \A k : RowsOf(e, k)' = RowsOf(e, k) \cup
                      {b \in indexer.next .. indexer.to : chain[b].election = e
                                                          /\ chain[b].kind = k}
         /\ e \notin indexer'.touched => SameRows(e)
<1>1. Stored' = Stored \cup (indexer.next .. indexer.to) /\ chain' = chain
  BY StoreBatchStored DEF StoreBatch
<1>2. \A k : RowsOf(e, k)' = RowsOf(e, k) \cup
                {b \in indexer.next .. indexer.to : chain[b].election = e /\ chain[b].kind = k}
  BY <1>1 DEF RowsOf
<1>3. ASSUME e \notin indexer'.touched
      PROVE  SameRows(e)
  <2>1. PICK T : T = {chain[b].election : b \in indexer.next .. indexer.to}
    OBVIOUS
  <2>2. indexer' = [indexer EXCEPT !.at = "CURSOR", !.touched = T] /\ indexer \in IndexerRecords
    BY <2>1 DEF StoreBatch, AuditTyped, ProcessTyped
  <2>3. indexer'.touched = T
    BY <2>2 DEF IndexerRecords
  <2>4. \A b \in indexer.next .. indexer.to : chain[b].election # e
    BY <1>3, <2>1, <2>3
  <2>5. phaseOf'[e] = phaseOf[e]
    BY <2>4 DEF StoreBatch
  <2>6. \A k : RowsOf(e, k)' = RowsOf(e, k)
    BY <1>2, <2>4
  <2>7. QED
    BY <1>1, <2>5, <2>6 DEF SameRows
<1>4. QED
  BY <1>2, <1>3

(* The phase of an election is the one the last of its stored changes sets. *)
LEMMA StoreBatchForward ==
  ASSUME AuditTyped, Placed, Forward, Upright, NEW untimed, StoreBatch(untimed)
  PROVE  /\ \A b \in Stored' : 1 .. b \subseteq Stored'
         /\ Stored' \subseteq 1 .. indexer.to
         /\ \A e \in Elections : phaseOf'[e] = PhaseOfRows(e)'
<1> DEFINE batch == indexer.next .. indexer.to
<1>1. /\ indexer.next \in Nat \ {0} /\ indexer.to \in Nat /\ MaxBlocks \in Nat
      /\ indexer.at = "STORE" /\ 1 .. indexer.next - 1 \subseteq Stored
      /\ Stored' = Stored \cup batch /\ batch \subseteq 1 .. MaxBlocks
      /\ Stored \subseteq 1 .. MaxBlocks
  <2>1. Stored \subseteq 1 .. MaxBlocks
    BY DEF Stored
  <2>2. QED
    BY <2>1, AuditAssumption, StoreBatchStored DEF StoreBatch, Placed, AuditTyped, ProcessTyped,
       IndexerRecords
<1>2. /\ \A b \in Stored : 1 .. b \subseteq Stored
      /\ Stored \subseteq 1 .. indexer.to
      /\ \A e \in Elections : phaseOf[e] = PhaseOfRows(e)
  BY <1>1 DEF Forward
<1>3. Stored' \subseteq 1 .. indexer.to
  <2>1. batch \subseteq 1 .. indexer.to
    BY <1>1
  <2> HIDE DEF batch
  <2>2. QED
    BY <1>1, <1>2, <2>1
<1>4. ASSUME NEW b \in Stored' PROVE 1 .. b \subseteq Stored'
  <2>1. CASE b \in Stored
    BY <1>1, <1>2, <2>1
  <2>2. CASE b \in batch
    <3>1. 1 .. b \subseteq (1 .. indexer.next - 1) \cup batch
      BY <1>1, <2>2
    <3>2. QED
      BY <1>1, <3>1
  <2>3. QED
    BY <1>1, <1>4, <2>1, <2>2
<1>5. ASSUME NEW e \in Elections PROVE phaseOf'[e] = PhaseOfRows(e)'
  <2> DEFINE changes == {b \in batch : chain[b].election = e /\ chain[b].kind = "PHASE"}
             earlier == RowsOf(e, "PHASE")
  <2>1. RowsOf(e, "PHASE")' = earlier \cup changes /\ chain' = chain
    BY StoreBatchRows DEF StoreBatch
  <2>2. phaseOf'[e] = IF changes = {} THEN phaseOf[e] ELSE chain[Latest(changes)].next
    BY DEF StoreBatch
  <2>3. earlier \subseteq Stored /\ changes \subseteq batch
    BY DEF RowsOf
  <2>4. CASE changes = {}
    BY <1>2, <2>1, <2>2, <2>4 DEF PhaseOfRows
  <2>5. CASE changes # {}
    <3>1. \A b \in earlier : b \in changes \/ (b < indexer.next /\ b \in Nat)
      <4> SUFFICES ASSUME NEW b \in earlier, b \notin changes
                   PROVE  b < indexer.next /\ b \in Nat
        OBVIOUS
      <4>1. b \in Stored /\ b \notin batch
        BY DEF RowsOf
      <4>2. b \in 1 .. indexer.to
        BY <1>2, <4>1
      <4>3. QED
        BY <1>1, <4>1, <4>2
    <3>2. changes \in SUBSET (1 .. MaxBlocks) /\ \A b \in changes : indexer.next <= b /\ b \in Nat
      BY <1>1, <2>3
    <3> HIDE DEF changes, earlier
    <3>3. Latest(changes) \in changes /\ \A b \in changes : b <= Latest(changes)
      BY <1>1, <2>5, <3>2, LatestIs
    <3>4. PICK m : m = Latest(changes)
      OBVIOUS
    <3>5. m \in changes /\ \A b \in earlier \cup changes : b <= m /\ b \in Nat
      <4>1. m \in changes /\ indexer.next <= m /\ m \in Nat
        BY <3>2, <3>3, <3>4
      <4>2. \A b \in changes : b <= m /\ b \in Nat
        BY <3>2, <3>3, <3>4
      <4>3. \A b \in Nat : b < indexer.next => b <= m
        BY <1>1, <4>1
      <4>4. QED
        BY <3>1, <4>1, <4>2, <4>3
    <3>6. Latest(earlier \cup changes) = m
      BY <3>5 DEF Latest
    <3>7. QED
      BY <2>1, <2>2, <2>5, <3>4, <3>5, <3>6 DEF PhaseOfRows
  <2>6. QED
    BY <2>4, <2>5
<1>6. QED
  BY <1>3, <1>4, <1>5

(* What the process remembers of its batch and its files.                   *)
SameScope ==
  /\ indexer'.looping = indexer.looping
  /\ indexer'.touched = indexer.touched
  /\ indexer'.loaded = indexer.loaded

(* Where each step of the indexer takes it, and what it remembers.         *)
LEMMA StepMoves ==
  ASSUME AuditTyped, Placed
  PROVE  /\ ListMissingTimes => indexer'.at = "FILL"
         /\ \A b, found : FillTime(b, found) => indexer'.at = "FILL"
         /\ EndBackfill => indexer'.at = "LOAD" /\ ~indexer'.looping
         /\ LoadActas => /\ indexer'.at = "UPSERT" /\ indexer'.loaded = disk
                         /\ indexer'.looping = indexer.looping
                         /\ indexer'.touched = indexer.touched
         /\ \A f : UpsertActa(f) => (indexer'.at = "UPSERT" /\ SameScope)
                                    \/ (indexer'.at = "BACKFILL" /\ used'.ended)
         /\ ResolveCustody =>
              /\ indexer'.at = "CUSTODY" /\ SameScope
              /\ indexer'.writes = UNION {Missing(e) : e \in Hinted}
         /\ VerifyContents =>
              /\ indexer'.at = "VERIFY" /\ SameScope
              /\ indexer'.writes = UNION {Failures(e) \cup Verified(e) : e \in Hinted}
         /\ \A w : WriteCustody(w) \/ Raise(w) =>
              /\ indexer'.at = indexer.at /\ SameScope /\ indexer'.checks = indexer.checks
              /\ indexer'.about = indexer.about /\ indexer'.writes = indexer.writes \ {w}
         /\ EndCustody =>
              /\ indexer'.at = "CHECK" /\ SameScope
              /\ indexer'.checks = IF indexer.looping THEN indexer.touched ELSE Elections
         /\ \A e : SkipReport(e) => /\ indexer'.at = "CHECK" /\ SameScope
                                    /\ indexer'.checks = indexer.checks \ {e}
         /\ \A e : ResolveManaged(e) =>
              /\ indexer'.at = "RAISE" /\ SameScope /\ indexer'.checks = indexer.checks
              /\ indexer'.about = {e} /\ indexer'.writes = Incidents(e)
         /\ \A e : StoreReport(e) => /\ indexer'.at = "CHECK" /\ SameScope
                                     /\ indexer'.checks = indexer.checks \ {e}
         /\ EndChecks => indexer'.at = "POLL" /\ SameScope
         /\ \A head : Poll(head) =>
              /\ indexer'.at = "STORE"
              /\ indexer'.to = head \/ indexer'.to = indexer.next + BATCH_SIZE - 1
         /\ \A untimed : StoreBatch(untimed) =>
              /\ indexer'.at = "CURSOR" /\ indexer'.to = indexer.to
              /\ indexer'.touched = {chain[b].election : b \in indexer.next .. indexer.to}
         /\ StoreCursor => indexer'.at = "LOAD" /\ indexer'.looping
                            /\ indexer'.touched = indexer.touched
         /\ Crash => indexer'.at = "BACKFILL"
<1>1. indexer \in IndexerRecords
  BY DEF AuditTyped, ProcessTyped
<1>2. /\ ListMissingTimes => indexer'.at = "FILL"
      /\ \A b, found : FillTime(b, found) => indexer'.at = "FILL"
      /\ EndBackfill => indexer'.at = "LOAD" /\ ~indexer'.looping
      /\ LoadActas => /\ indexer'.at = "UPSERT" /\ indexer'.loaded = disk
                      /\ indexer'.looping = indexer.looping
                      /\ indexer'.touched = indexer.touched
  BY <1>1 DEF ListMissingTimes, FillTime, EndBackfill, LoadActas, LoadNext, IndexerRecords
<1>3. ASSUME NEW f, UpsertActa(f)
      PROVE  (indexer'.at = "UPSERT" /\ SameScope) \/ (indexer'.at = "BACKFILL" /\ used'.ended)
  <2>1. \/ indexer' = [indexer EXCEPT !.upserts = @ \ {f}]
        \/ indexer' = Started(cursor) /\ used' = [used EXCEPT !.ended = TRUE]
    BY <1>3 DEF UpsertActa
  <2>2. indexer.at = "UPSERT" /\ used \in Uses
    BY <1>3 DEF UpsertActa, AuditTyped, ProcessTyped
  <2>3. QED
    BY <1>1, <2>1, <2>2 DEF SameScope, Started, IndexerRecords, Uses
<1>4. ASSUME ResolveCustody
      PROVE  /\ indexer'.at = "CUSTODY" /\ SameScope
             /\ indexer'.writes = UNION {Missing(e) : e \in Hinted}
  <2>1. PICK W : W = UNION {Missing(e) : e \in Hinted}
    OBVIOUS
  <2>2. indexer' = [indexer EXCEPT !.at = "CUSTODY", !.writes = W]
    BY <1>4, <2>1 DEF ResolveCustody
  <2>3. QED
    BY <1>1, <2>1, <2>2 DEF SameScope, IndexerRecords
<1>16. ASSUME VerifyContents
       PROVE  /\ indexer'.at = "VERIFY" /\ SameScope
              /\ indexer'.writes = UNION {Failures(e) \cup Verified(e) : e \in Hinted}
  <2>1. PICK W : W = UNION {Failures(e) \cup Verified(e) : e \in Hinted}
    OBVIOUS
  <2>2. indexer' = [indexer EXCEPT !.at = "VERIFY", !.writes = W]
    BY <1>16, <2>1 DEF VerifyContents
  <2>3. QED
    BY <1>1, <2>1, <2>2 DEF SameScope, IndexerRecords
<1>5. ASSUME NEW w, WriteCustody(w) \/ Raise(w)
      PROVE  /\ indexer'.at = indexer.at /\ SameScope /\ indexer'.checks = indexer.checks
             /\ indexer'.about = indexer.about /\ indexer'.writes = indexer.writes \ {w}
  BY <1>1, <1>5 DEF WriteCustody, Raise, SameScope, IndexerRecords
<1>6. ASSUME EndCustody
      PROVE  /\ indexer'.at = "CHECK" /\ SameScope
             /\ indexer'.checks = IF indexer.looping THEN indexer.touched ELSE Elections
  BY <1>1, <1>6 DEF EndCustody, SameScope, IndexerRecords
<1>7. ASSUME NEW e, SkipReport(e)
      PROVE  indexer'.at = "CHECK" /\ SameScope /\ indexer'.checks = indexer.checks \ {e}
  BY <1>1, <1>7 DEF SkipReport, SameScope, IndexerRecords
<1>8. ASSUME NEW e, ResolveManaged(e)
      PROVE  /\ indexer'.at = "RAISE" /\ SameScope /\ indexer'.checks = indexer.checks
             /\ indexer'.about = {e} /\ indexer'.writes = Incidents(e)
  <2>1. PICK W : W = Incidents(e)
    OBVIOUS
  <2>2. indexer' = [indexer EXCEPT !.at = "RAISE", !.about = {e}, !.writes = W]
    BY <1>8, <2>1 DEF ResolveManaged
  <2>3. QED
    BY <1>1, <2>1, <2>2 DEF SameScope, IndexerRecords
<1>9. ASSUME NEW e, StoreReport(e)
      PROVE  indexer'.at = "CHECK" /\ SameScope /\ indexer'.checks = indexer.checks \ {e}
  <2>1. indexer' = [indexer EXCEPT !.at = "CHECK", !.about = {}, !.checks = @ \ {e}]
    BY <1>9 DEF StoreReport
  <2>2. QED
    BY <1>1, <2>1 DEF SameScope, IndexerRecords
<1>10. ASSUME EndChecks PROVE indexer'.at = "POLL" /\ SameScope
  BY <1>1, <1>10 DEF EndChecks, Started, SameScope, IndexerRecords
<1>11. ASSUME NEW head, Poll(head)
       PROVE  /\ indexer'.at = "STORE"
              /\ indexer'.to = head \/ indexer'.to = indexer.next + BATCH_SIZE - 1
  <2>1. PICK full : full = indexer.next + BATCH_SIZE - 1
    OBVIOUS
  <2>2. indexer' = [Started(indexer.next) EXCEPT !.at = "STORE",
                                                 !.to = IF head < full THEN head ELSE full]
    BY <1>11, <2>1 DEF Poll
  <2>3. QED
    BY <2>1, <2>2 DEF Started
<1>12. ASSUME NEW untimed, StoreBatch(untimed)
       PROVE  /\ indexer'.at = "CURSOR" /\ indexer'.to = indexer.to
              /\ indexer'.touched = {chain[b].election : b \in indexer.next .. indexer.to}
  <2>1. PICK T : T = {chain[b].election : b \in indexer.next .. indexer.to}
    OBVIOUS
  <2>2. indexer' = [indexer EXCEPT !.at = "CURSOR", !.touched = T]
    BY <1>12, <2>1 DEF StoreBatch
  <2>3. QED
    BY <1>1, <2>1, <2>2 DEF IndexerRecords
<1>13. ASSUME StoreCursor
       PROVE  indexer'.at = "LOAD" /\ indexer'.looping /\ indexer'.touched = indexer.touched
  <2>1. indexer' = [[indexer EXCEPT !.next = indexer.to + 1] EXCEPT !.at = "LOAD", !.looping = TRUE]
    BY <1>13 DEF StoreCursor, LoadNext
  <2>2. QED
    BY <1>1, <2>1 DEF IndexerRecords
<1>14. ASSUME Crash PROVE indexer'.at = "BACKFILL"
  BY <1>14 DEF Crash, Started
<1>15. QED
  BY <1>2, <1>3, <1>4, <1>5, <1>6, <1>7, <1>8, <1>9, <1>10, <1>11, <1>12, <1>13, <1>14, <1>16

(* As long as no node lags, the rows are those of the first blocks.        *)
LEMMA ForwardStays ==
  ASSUME AuditTyped, Placed, Forward, [AuditNext]_auditVars
  PROVE  Forward'
<1> SUFFICES ASSUME Upright'
             PROVE  /\ \A b \in Stored' : 1 .. b \subseteq Stored'
                    /\ indexer'.at \in {"STORE", "CURSOR"} => Stored' \subseteq 1 .. indexer'.to
                    /\ \A e \in Elections : phaseOf'[e] = PhaseOfRows(e)'
  BY DEF Forward
<1>1. Upright
  BY UsedStays
<1>2. /\ indexer \in IndexerRecords /\ cursor \in Nat \ {0} /\ indexer.next = cursor
      /\ Len(chain) \in Nat /\ DOMAIN chain = 1 .. Len(chain)
  BY DEF AuditTyped, ProcessTyped, TablesTyped, ChainTyped, Placed
<1>3. /\ \A b \in Stored : 1 .. b \subseteq Stored
      /\ indexer.at \in {"STORE", "CURSOR"} => Stored \subseteq 1 .. indexer.to
      /\ \A e \in Elections : phaseOf[e] = PhaseOfRows(e)
  BY <1>1 DEF Forward
<1>4. ASSUME NEW untimed, StoreBatch(untimed)
      PROVE  /\ \A b \in Stored' : 1 .. b \subseteq Stored'
             /\ Stored' \subseteq 1 .. indexer'.to
             /\ \A e \in Elections : phaseOf'[e] = PhaseOfRows(e)'
  <2>1. PICK T : T = {chain[b].election : b \in indexer.next .. indexer.to}
    OBVIOUS
  <2>2. indexer' = [indexer EXCEPT !.at = "CURSOR", !.touched = T]
    BY <1>4, <2>1 DEF StoreBatch
  <2>3. indexer'.to = indexer.to
    BY <1>2, <2>2 DEF IndexerRecords
  <2>4. QED
    BY <1>1, <1>4, <2>3, StoreBatchForward
<1>5. CASE SameTables
  <2>1. /\ \A b \in Stored' : 1 .. b \subseteq Stored'
        /\ \A e \in Elections : phaseOf'[e] = PhaseOfRows(e)'
    BY <1>3, <1>5, SameTablesSameRules DEF SameTables
  <2>2. ASSUME NEW head \in 1 .. Len(chain), Poll(head)
        PROVE  Stored' \subseteq 1 .. indexer'.to
    <3>1. used \in Uses /\ head \in indexer.next .. Len(chain)
      BY <2>2 DEF Poll, AuditTyped, ProcessTyped
    <3>2. head = Len(chain)
      <4>1. CASE head # Len(chain)
        <5>1. Use("lags", MaxLags)
          BY <2>2, <4>1 DEF Poll
        <5>2. used'.lags = used.lags + 1 /\ used.lags \in Nat
          BY <3>1, <5>1, UseGrows DEF Uses
        <5>3. FALSE
          BY <5>2 DEF Upright
        <5>4. QED
          BY <5>3
      <4>2. QED
        BY <4>1
    <3>3. indexer'.to = head \/ indexer'.to = indexer.next + BATCH_SIZE - 1
      BY <2>2, StepMoves
    <3>4. CASE indexer'.to = head
      BY <1>2, <1>5, <3>2, <3>4 DEF Placed, SameTables
    <3>5. CASE indexer'.to = indexer.next + BATCH_SIZE - 1
      <4>1. indexer'.to = cursor - 1 + BATCH_SIZE
        BY <1>2, <3>5, AuditAssumption
      <4>2. QED
        BY <1>5, <4>1 DEF Placed, SameTables
    <3>6. QED
      BY <3>3, <3>4, <3>5
  <2>3. CASE indexer' = indexer
    BY <1>3, <1>5, <2>1, <2>3 DEF SameTables
  <2>4. CASE indexer'.at \notin {"STORE", "CURSOR"}
    BY <2>1, <2>4
  <2>5. ASSUME NEW w \in indexer.writes, WriteCustody(w) \/ Raise(w)
        PROVE  indexer'.at \notin {"STORE", "CURSOR"}
    BY <2>5, StepMoves DEF WriteCustody, Raise
  <2>6. \/ indexer' = indexer
        \/ indexer'.at \notin {"STORE", "CURSOR"}
        \/ \E head \in 1 .. Len(chain) : Poll(head)
        \/ \E untimed \in SUBSET (1 .. MaxBlocks) : StoreBatch(untimed)
    BY <2>5, StepMoves DEF AuditNext, auditVars, IndexerStep, NewBlock, WriteActa, SaveActaContent, DamageActa
  <2>7. QED
    BY <1>4, <2>1, <2>2, <2>3, <2>4, <2>6
<1>6. QED
  BY <1>4, <1>5, OnlyBatchesStore

-----------------------------------------------------------------------------
(* While the rows, the reports and the incidents of an election stay, so   *)
(* does what its latest report is worth.                                   *)
LEMMA ReportFrame ==
  ASSUME AuditTyped, Placed, NEW e \in Elections, SameRows(e), reports'[e] = reports[e]
  PROVE  /\ UpToDate(e)' <=> UpToDate(e)
         /\ ReportSound(e) /\ (UpToDate(e) => ActiveIncidents(e, RuleCodes)'
                                              = ActiveIncidents(e, RuleCodes))
              => ReportSound(e)'
<1>1. Rules(e)' = Rules(e) /\ DataVersion(e)' = DataVersion(e)
  BY RulesStay DEF AuditTyped, Placed
<1>2. UpToDate(e)' <=> UpToDate(e)
  BY <1>1 DEF UpToDate
<1>3. LatestReport(e)' = LatestReport(e)
  BY DEF LatestReport
<1>4. Critical(Rules(e))' <=> Critical(Rules(e))
  BY <1>1 DEF Critical
<1>5. ASSUME ReportSound(e),
             UpToDate(e) => ActiveIncidents(e, RuleCodes)' = ActiveIncidents(e, RuleCodes)
      PROVE  ReportSound(e)'
  BY <1>1, <1>2, <1>3, <1>4, <1>5 DEF ReportSound, RulesRaised
<1>6. QED
  BY <1>2, <1>5

(* A report that has become stale is no lie.                               *)
LEMMA StaleIsSound ==
  ASSUME AuditTyped, Placed, AuditTyped', Placed', NEW e \in Elections,
         reports'[e] = reports[e], ReportSound(e),
         DataVersion(e).last < DataVersion(e)'.last
  PROVE  ReportSound(e)'
<1>1. reports[e] \in Seq([version : Versions, ok : BOOLEAN])
  BY DEF AuditTyped, TablesTyped
<1>2. \A n \in DOMAIN reports[e] : reports[e][n].version \in Versions
  <2>1. PICK R : R = [version : Versions, ok : BOOLEAN]
    OBVIOUS
  <2>2. PICK s : s = reports[e]
    OBVIOUS
  <2>3. s \in Seq(R)
    BY <1>1, <2>1, <2>2
  <2>4. \A n \in DOMAIN s : s[n] \in R
    BY <2>3
  <2>5. QED
    BY <2>1, <2>2, <2>4
<1>3. \A n \in DOMAIN reports[e] : reports[e][n].version.last \in Nat
  BY <1>2 DEF Versions
<1>4. DataVersion(e).last \in Nat
  <2>1. DataVersion(e) \in Versions
    BY VersionTyped
  <2>2. QED
    BY <2>1 DEF Versions
<1>5. PICK v : v = DataVersion(e)'
  OBVIOUS
<1>6. v.last \in Nat
  BY <1>5, NextVersionTyped DEF Versions
<1>7. \A n \in DOMAIN reports[e] : reports[e][n].version.last <= DataVersion(e).last
  BY DEF ReportSound
<1>8. \A n \in DOMAIN reports[e] : reports[e][n].version.last < v.last
  BY <1>3, <1>4, <1>5, <1>6, <1>7
<1>9. \A n \in DOMAIN reports[e] :
        reports[e][n].version.last <= v.last /\ reports[e][n].version # v
  BY <1>3, <1>6, <1>8
<1>10. reports[e] # << >> => Len(reports[e]) \in DOMAIN reports[e]
  BY <1>1
<1>11. ~UpToDate(e)'
  BY <1>5, <1>9, <1>10 DEF UpToDate
<1>12. QED
  BY <1>5, <1>9, <1>11 DEF ReportSound

(* A batch with a new event of an election makes its reports stale.        *)
LEMMA NewRowsAreLater ==
  ASSUME AuditTyped, Placed, Forward, Upright, AuditTyped', Placed', Forward', Upright',
         NEW untimed, StoreBatch(untimed), NEW e \in Elections
  PROVE  SameRows(e) \/ DataVersion(e).last < DataVersion(e)'.last
<1> DEFINE batch == indexer.next .. indexer.to
<1>1. /\ Stored' = Stored \cup batch /\ batch \subseteq 1 .. MaxBlocks
      /\ Stored \subseteq 1 .. MaxBlocks /\ MaxBlocks \in Nat /\ chain' = chain
      /\ batch \subseteq DOMAIN chain
  BY StoreBatchStored, AuditAssumption DEF Stored, StoreBatch
<1>2. \A k : RowsOf(e, k)' = RowsOf(e, k) \cup
                {b \in batch : chain[b].election = e /\ chain[b].kind = k}
  BY StoreBatchRows
<1>3. /\ \A b \in Stored : 1 .. b \subseteq Stored
      /\ phaseOf[e] = PhaseOfRows(e)
  BY DEF Forward
<1>4. phaseOf'[e] = PhaseOfRows(e)'
  BY DEF Forward
<1>5. CASE \A b \in batch : chain[b].election = e => b \in Stored
  <2>1. \A k : RowsOf(e, k)' = RowsOf(e, k)
    BY <1>2, <1>5 DEF RowsOf
  <2>2. PhaseOfRows(e)' = PhaseOfRows(e)
    BY <1>1, <2>1 DEF PhaseOfRows
  <2>3. QED
    BY <1>1, <1>3, <1>4, <2>1, <2>2 DEF SameRows
<1>6. ASSUME NEW b \in batch, chain[b].election = e, b \notin Stored
      PROVE  DataVersion(e).last < DataVersion(e)'.last
  <2>1. b \in Nat \ {0} /\ \A c \in Stored : c \in Nat /\ c < b
    <3>1. b \in 1 .. MaxBlocks
      BY <1>1
    <3>2. \A c \in Stored : c \in 1 .. MaxBlocks /\ b \notin 1 .. c
      BY <1>1, <1>3, <1>6
    <3>3. QED
      BY <1>1, <3>1, <3>2
  <2>2. DataVersion(e).last = 0 \/ DataVersion(e).last \in Stored
    BY VersionTyped DEF RowsOf
  <2>3. DataVersion(e).last < b /\ DataVersion(e).last \in Nat
    BY <2>1, <2>2
  <2>4. chain[b].kind \in Kinds
    BY <1>1, BlocksAreEvents DEF AuditTyped
  <2>5. \A k : chain[b].kind = k => b \in RowsOf(e, k)'
    BY <1>2, <1>6
  <2>6. PICK v : v = DataVersion(e)'
    OBVIOUS
  <2>7. v \in Versions /\ \A k \in Kinds : \A c \in RowsOf(e, k)' : c <= v.last
    BY <2>6, NextVersionTyped
  <2>9. v.last \in Nat /\ b <= v.last
    BY <2>4, <2>5, <2>7 DEF Versions
  <2>10. QED
    BY <2>1, <2>3, <2>6, <2>9
<1>7. QED
  BY <1>5, <1>6

(* Only the end of a renewal, or finding the report up to date, takes an   *)
(* election off the list of those to check.                                *)
LEMMA UncheckedMoves ==
  ASSUME AuditTyped, Placed, [AuditNext]_auditVars, NEW e \in Elections, e \notin Unchecked'
  PROVE  e \notin Unchecked \/ SkipReport(e) \/ StoreReport(e)
<1>1. CASE indexer' = indexer
  BY <1>1 DEF Unchecked
<1>2. CASE ListMissingTimes \/ EndBackfill \/ LoadActas \/ Crash
           \/ \E b, found : FillTime(b, found)
  BY <1>2, StepMoves DEF Unchecked, ListMissingTimes, EndBackfill, LoadActas, FillTime
<1>3. ASSUME NEW f, UpsertActa(f) PROVE e \notin Unchecked
  <2>1. indexer.at = "UPSERT"
    BY <1>3 DEF UpsertActa
  <2>2. (indexer'.at = "UPSERT" /\ SameScope) \/ indexer'.at = "BACKFILL"
    BY <1>3, StepMoves
  <2>3. QED
    BY <2>1, <2>2 DEF Unchecked, SameScope
<1>4. CASE ResolveCustody
  <2>1. indexer.at = "UPSERT" /\ indexer'.at = "CUSTODY" /\ SameScope
    BY <1>4, StepMoves DEF ResolveCustody
  <2>2. QED
    BY <2>1 DEF Unchecked, SameScope
<1>13. CASE VerifyContents
  <2>1. indexer.at = "CUSTODY" /\ indexer'.at = "VERIFY" /\ SameScope
    BY <1>13, StepMoves DEF VerifyContents
  <2>2. QED
    BY <2>1 DEF Unchecked, SameScope
<1>5. ASSUME NEW w, WriteCustody(w) \/ Raise(w) PROVE e \notin Unchecked
  <2>1. indexer'.at = indexer.at /\ SameScope /\ indexer'.checks = indexer.checks
    BY <1>5, StepMoves
  <2>2. QED
    BY <2>1 DEF Unchecked, SameScope
<1>6. CASE EndCustody
  <2>1. /\ indexer.at = "VERIFY" /\ indexer'.at = "CHECK"
        /\ indexer'.checks = IF indexer.looping THEN indexer.touched ELSE Elections
    BY <1>6, StepMoves DEF EndCustody
  <2>2. QED
    BY <2>1 DEF Unchecked
<1>7. ASSUME NEW d, SkipReport(d) \/ StoreReport(d) PROVE e \notin Unchecked \/ e = d
  <2>1. indexer'.at = "CHECK" /\ indexer'.checks = indexer.checks \ {d}
        /\ indexer.at \in {"CHECK", "RAISE"}
    BY <1>7, StepMoves DEF SkipReport, StoreReport
  <2>2. QED
    BY <2>1 DEF Unchecked
<1>8. ASSUME NEW d, ResolveManaged(d) PROVE e \notin Unchecked
  <2>1. indexer'.at = "RAISE" /\ indexer'.checks = indexer.checks /\ indexer.at = "CHECK"
    BY <1>8, StepMoves DEF ResolveManaged
  <2>2. QED
    BY <2>1 DEF Unchecked
<1>9. CASE EndChecks
  BY <1>9 DEF Unchecked, EndChecks
<1>10. CASE (\E head : Poll(head)) \/ (\E untimed : StoreBatch(untimed))
  BY <1>10 DEF Unchecked, Poll, StoreBatch
<1>11. CASE StoreCursor
  <2>1. indexer.at = "CURSOR" /\ indexer'.at = "LOAD" /\ indexer'.looping
        /\ indexer'.touched = indexer.touched
    BY <1>11, StepMoves DEF StoreCursor
  <2>2. QED
    BY <2>1 DEF Unchecked
<1>12. QED
  BY <1>1, <1>2, <1>3, <1>4, <1>5, <1>6, <1>7, <1>8, <1>9, <1>10, <1>11, <1>13 DEF AuditNext,
     auditVars, IndexerStep, NewBlock, WriteActa, SaveActaContent, DamageActa

(* Only a renewal of the election changes what the rules have raised of it. *)
LEMMA RaisedStay ==
  ASSUME AuditTyped, Placed, Renewal, CustodySound, [AuditNext]_auditVars, NEW e \in Elections
  PROVE  \/ ActiveIncidents(e, RuleCodes)' = ActiveIncidents(e, RuleCodes)
         \/ ResolveManaged(e)
         \/ \E w \in indexer.writes : Raise(w) /\ w.election = e
<1>1. CASE active' = active
  BY <1>1 DEF ActiveIncidents
<1>2. CASE ResolveCustody
  <2>1. \A i : i.code \in RuleCodes => i.code \notin CustodyCodes
    BY DEF RuleCodes, Codes, CustodyCodes
  <2>2. active' = {i \in active : ~(i.code \in CustodyCodes /\ i.election \in Hinted)}
    BY <1>2 DEF ResolveCustody
  <2>3. QED
    BY <2>1, <2>2 DEF ActiveIncidents
<1>3. ASSUME NEW w \in indexer.writes, WriteCustody(w)
      PROVE  ActiveIncidents(e, RuleCodes)' = ActiveIncidents(e, RuleCodes)
  <2>1. CASE w.code \in Verdicts
    BY <1>3, <2>1 DEF WriteCustody, ActiveIncidents
  <2>2. CASE w.code \notin Verdicts
    <3>1. /\ w.election \in Elections
          /\ w \in Custody(w.election) \cup Outdated(w.election) \cup Verified(w.election)
      BY <1>3 DEF WriteCustody, CustodySound, AuditTyped, ProcessTyped, IndexerRecords, Writes,
         Custody
    <3>2. w.code \in CustodyCodes
      BY <2>2, <3>1, CodesOfCustody
    <3>3. w.code \notin RuleCodes
      BY <3>2 DEF RuleCodes, Codes, CustodyCodes
    <3>4. active' = active \cup {w}
      BY <1>3, <2>2 DEF WriteCustody
    <3>5. QED
      BY <3>3, <3>4 DEF ActiveIncidents
  <2>3. QED
    BY <2>1, <2>2
<1>4. ASSUME NEW d \in Elections, ResolveManaged(d), d # e
      PROVE  ActiveIncidents(e, RuleCodes)' = ActiveIncidents(e, RuleCodes)
  BY <1>4 DEF ResolveManaged, ActiveIncidents
<1>5. ASSUME NEW w \in indexer.writes, Raise(w), w.election # e
      PROVE  ActiveIncidents(e, RuleCodes)' = ActiveIncidents(e, RuleCodes)
  BY <1>5 DEF Raise, ActiveIncidents
<1>6. QED
  BY <1>1, <1>2, <1>3, <1>4, <1>5 DEF AuditNext, auditVars, IndexerStep, Crash, NewBlock,
     WriteActa, SaveActaContent, DamageActa, ListMissingTimes, FillTime, EndBackfill, LoadActas, UpsertActa,
     VerifyContents, EndCustody, SkipReport, StoreReport, EndChecks, Poll, StoreBatch, StoreCursor

(* A renewal that has begun goes on for the same rows.                     *)
LEMMA RenewalStays ==
  ASSUME AuditTyped, Placed, Renewal, [AuditNext]_auditVars
  PROVE  Renewal'
<1> SUFFICES ASSUME indexer'.at = "RAISE"
             PROVE  \E e \in indexer'.checks :
                      /\ indexer'.about = {e}
                      /\ ~UpToDate(e)'
                      /\ indexer'.writes \subseteq Incidents(e)'
                      /\ ActiveIncidents(e, RuleCodes)' \subseteq Rules(e)'
                      /\ Rules(e)' \subseteq active' \cup indexer'.writes
  BY DEF Renewal
<1>1. indexer.checks \subseteq Elections
  BY DEF AuditTyped, ProcessTyped, IndexerRecords
<1>2. ASSUME SameTables, UNCHANGED <<rows, reports>>
      PROVE  \A e \in Elections : /\ UpToDate(e)' <=> UpToDate(e)
                                  /\ Rules(e)' = Rules(e) /\ Incidents(e)' = Incidents(e)
  <2> SUFFICES ASSUME NEW e \in Elections
               PROVE  /\ UpToDate(e)' <=> UpToDate(e)
                      /\ Rules(e)' = Rules(e) /\ Incidents(e)' = Incidents(e)
    OBVIOUS
  <2>1. SameRows(e) /\ Rules(e)' = Rules(e)
    BY <1>2, SameTablesSameRules
  <2>2. UpToDate(e)' <=> UpToDate(e)
    BY <1>2, <2>1, ReportFrame
  <2>3. Untimed(e)' = Untimed(e)
    BY <1>2 DEF Untimed, SameTables
  <2>4. Incidents(e)' = Incidents(e)
    BY <2>1, <2>3 DEF Incidents, Incident
  <2>5. QED
    BY <2>1, <2>2, <2>4
<1>3. CASE UNCHANGED <<rows, reports, indexer, active>> /\ SameTables
  <2>1. PICK e \in indexer.checks :
          /\ indexer.about = {e}
          /\ ~UpToDate(e)
          /\ indexer.writes \subseteq Incidents(e)
          /\ ActiveIncidents(e, RuleCodes) \subseteq Rules(e)
          /\ Rules(e) \subseteq active \cup indexer.writes
    BY <1>3 DEF Renewal
  <2>2. QED
    BY <1>1, <1>2, <1>3, <2>1 DEF ActiveIncidents
<1>4. ASSUME NEW i \in indexer.writes, Raise(i), SameTables
      PROVE  Renewal'
  <2>1. PICK e \in indexer.checks :
          /\ indexer.about = {e}
          /\ ~UpToDate(e)
          /\ indexer.writes \subseteq Incidents(e)
          /\ ActiveIncidents(e, RuleCodes) \subseteq Rules(e)
          /\ Rules(e) \subseteq active \cup indexer.writes
    BY <1>4 DEF Renewal, Raise
  <2>2. /\ indexer'.checks = indexer.checks /\ indexer'.about = indexer.about
        /\ indexer'.writes = indexer.writes \ {i} /\ active' = active \cup {i}
        /\ UNCHANGED <<rows, reports>>
    BY <1>4, StepMoves DEF Raise
  <2>3. e \in Elections /\ i \in Incidents(e)
    BY <1>1, <1>4, <2>1
  <2>4. i.code \in RuleCodes => i \in Rules(e)
    BY <2>3, RulesTyped DEF RuleCodes
  <2>5. ActiveIncidents(e, RuleCodes)' \subseteq Rules(e)
    BY <2>1, <2>2, <2>4 DEF ActiveIncidents
  <2>6. Rules(e) \subseteq active' \cup indexer'.writes
    BY <2>1, <2>2
  <2>7. (UpToDate(e)' <=> UpToDate(e)) /\ Rules(e)' = Rules(e)
        /\ Incidents(e)' = Incidents(e)
    BY <1>2, <1>4, <2>2, <2>3
  <2>8. QED
    BY <2>1, <2>2, <2>5, <2>6, <2>7 DEF Renewal
<1>5. ASSUME NEW e \in Elections, ResolveManaged(e), SameTables
      PROVE  Renewal'
  <2>1. /\ indexer'.checks = indexer.checks /\ indexer'.about = {e}
        /\ indexer'.writes = Incidents(e) /\ e \in indexer.checks /\ ~UpToDate(e)
        /\ active' = {i \in active : ~(i.code \in Codes /\ i.election = e)}
        /\ UNCHANGED <<rows, reports>>
    BY <1>5, StepMoves DEF ResolveManaged
  <2>2. ActiveIncidents(e, RuleCodes)' = {}
    BY <2>1 DEF ActiveIncidents, RuleCodes
  <2>3. Rules(e) \subseteq Incidents(e)
    BY DEF Incidents
  <2>4. (UpToDate(e)' <=> UpToDate(e)) /\ Rules(e)' = Rules(e)
        /\ Incidents(e)' = Incidents(e)
    BY <1>2, <1>5, <2>1
  <2>5. QED
    BY <2>1, <2>2, <2>3, <2>4 DEF Renewal
<1>6. ASSUME NEW w \in indexer.writes, WriteCustody(w) PROVE indexer'.at # "RAISE"
  BY <1>6, StepMoves DEF WriteCustody
<1>7. ASSUME NEW untimed, StoreBatch(untimed) PROVE indexer'.at # "RAISE"
  BY <1>7, StepMoves
<1>8. ASSUME NEW e, SkipReport(e) \/ StoreReport(e) PROVE indexer'.at # "RAISE"
  BY <1>8, StepMoves
<1>9. CASE \/ ListMissingTimes \/ EndBackfill \/ LoadActas \/ ResolveCustody
           \/ VerifyContents \/ EndCustody \/ EndChecks \/ StoreCursor \/ Crash \/ (\E b, found : FillTime(b, found))
           \/ (\E f : UpsertActa(f)) \/ \E head : Poll(head)
  <2>1. indexer'.at # "RAISE"
    BY <1>9, StepMoves
  <2>2. QED
    BY <2>1
<1>10. SameTables \/ \E untimed \in SUBSET (1 .. MaxBlocks) : StoreBatch(untimed)
  BY OnlyBatchesStore
<1>11. QED
  BY <1>3, <1>4, <1>5, <1>6, <1>7, <1>8, <1>9, <1>10 DEF AuditNext, auditVars, IndexerStep,
     NewBlock, WriteActa, SaveActaContent, DamageActa, Renewal

(* The report a renewal ends with is the latest one, and is of the rows    *)
(* whose incidents have been raised.                                       *)
LEMMA StoredReportIsSound ==
  ASSUME AuditTyped, Placed, Renewal, AuditTyped', SameTables, NEW e \in Elections,
         ReportSound(e), StoreReport(e)
  PROVE  UpToDate(e)' /\ ReportSound(e)' /\ \A d \in Elections \ {e} : reports'[d] = reports[d]
<1>1. /\ indexer.at = "RAISE" /\ indexer.writes = {} /\ indexer.about = {e} /\ active' = active
  BY DEF StoreReport
<1>2. ~UpToDate(e) /\ ActiveIncidents(e, RuleCodes) \subseteq Rules(e) /\ Rules(e) \subseteq active
  <2>1. PICK d \in indexer.checks :
          /\ indexer.about = {d}
          /\ ~UpToDate(d)
          /\ ActiveIncidents(d, RuleCodes) \subseteq Rules(d)
          /\ Rules(d) \subseteq active \cup indexer.writes
    BY <1>1 DEF Renewal
  <2>2. d = e
    BY <1>1, <2>1
  <2>3. QED
    BY <1>1, <2>1, <2>2
<1>3. ActiveIncidents(e, RuleCodes) = Rules(e)
  <2>1. \A i \in Rules(e) : i.election = e /\ i.code \in RuleCodes
    <3>1. Rules(e) \subseteq [election : {e}, code : RuleCodes, ref : Refs]
      BY RulesTyped
    <3>2. QED
      BY <3>1
  <2>2. QED
    BY <1>2, <2>1 DEF ActiveIncidents
<1>4. Critical(Incidents(e)) <=> Critical(Rules(e))
  <2>1. Rules(e) \subseteq Incidents(e)
    BY DEF Incidents
  <2>2. \A i \in Incidents(e) \ Rules(e) : i.code \in Warnings
    BY RulesTyped DEF Warnings
  <2>3. QED
    BY <2>1, <2>2 DEF Critical
<1>5. PICK v : v = DataVersion(e)
  OBVIOUS
<1>6. PICK report : report = [version |-> v, ok |-> ~Critical(Incidents(e))]
  OBVIOUS
<1>7. PICK s : s = reports[e]
  OBVIOUS
<1>8. reports \in [Elections -> Seq([version : Versions, ok : BOOLEAN])]
  BY DEF AuditTyped, TablesTyped
<1>9. PICK R : R = [version : Versions, ok : BOOLEAN]
  OBVIOUS
<1>10. s \in Seq(R)
  BY <1>7, <1>8, <1>9
<1>11. Len(s) \in Nat /\ DOMAIN s = 1 .. Len(s)
  BY <1>10
<1>12. ~\E n \in DOMAIN s : s[n].version = v
  <2> SUFFICES ASSUME NEW n \in DOMAIN s, s[n].version = v
               PROVE  FALSE
    OBVIOUS
  <2>1. n = Len(s)
    BY <1>5, <1>7 DEF ReportSound
  <2>2. s # << >>
    BY <1>10
  <2>3. UpToDate(e)
    BY <1>5, <1>7, <2>1, <2>2 DEF UpToDate
  <2>4. QED
    BY <1>2, <2>3
<1>13. reports' = [reports EXCEPT ![e] = Append(s, report)]
  BY <1>5, <1>6, <1>7, <1>12 DEF StoreReport
<1>14. reports'[e] = Append(s, report) /\ \A d \in Elections \ {e} : reports'[d] = reports[d]
  BY <1>8, <1>13
<1>15. PICK t : t = Append(s, report)
  OBVIOUS
<1>16. /\ Len(t) = Len(s) + 1 /\ DOMAIN t = 1 .. Len(s) + 1 /\ t[Len(t)] = report
       /\ \A n \in DOMAIN s : t[n] = s[n]
       /\ t # << >>
  <2>1. /\ Len(t) = Len(s) + 1 /\ DOMAIN t = 1 .. Len(s) + 1 /\ t[Len(s) + 1] = report
        /\ \A n \in 1 .. Len(s) : t[n] = s[n]
    BY <1>10, <1>15
  <2>2. QED
    BY <1>11, <2>1
<1>17. DataVersion(e)' = v /\ Rules(e)' = Rules(e)
  BY <1>5, SameTablesSameRules
<1>18. UpToDate(e)'
  BY <1>6, <1>14, <1>15, <1>16, <1>17 DEF UpToDate
<1>19. v.last \in Nat
  <2>1. v \in Versions
    BY <1>5, VersionTyped
  <2>2. QED
    BY <2>1 DEF Versions
<1>20. report.version = v /\ (report.ok <=> ~Critical(Rules(e)))
  BY <1>4, <1>6
<1>21. \A n \in DOMAIN t : n = Len(t) \/ (n \in DOMAIN s /\ t[n] = s[n])
  BY <1>11, <1>16
<1>22. \A n \in DOMAIN t : t[n].version.last <= v.last
  <2>1. \A n \in DOMAIN s : s[n].version.last <= v.last
    BY <1>5, <1>7 DEF ReportSound
  <2>2. report.version.last <= v.last
    BY <1>19, <1>20
  <2>3. QED
    BY <1>16, <1>21, <2>1, <2>2
<1>23. \A n \in DOMAIN t : t[n].version = v => n = Len(t)
  BY <1>12, <1>21
<1>24. t[Len(t)].ok <=> ~Critical(Rules(e))
  BY <1>16, <1>20
<1>25. ActiveIncidents(e, RuleCodes)' = Rules(e)
  BY <1>1, <1>3 DEF ActiveIncidents
<1>26. ReportSound(e)'
  BY <1>14, <1>15, <1>17, <1>22, <1>23, <1>24, <1>25 DEF ReportSound, RulesRaised, LatestReport,
     Critical
<1>27. QED
  BY <1>14, <1>18, <1>26

(* The latest report stays right, of every election not to be checked.     *)
LEMMA ReportsStay ==
  ASSUME AuditInv, [AuditNext]_auditVars, AuditTyped', Placed', Forward'
  PROVE  ReportsSound'
<1> SUFFICES ASSUME Upright', NEW e \in Elections
             PROVE  ReportSound(e)' /\ (e \notin Unchecked' => UpToDate(e)')
  BY DEF ReportsSound
<1>1. /\ AuditTyped /\ Placed /\ Forward /\ Renewal /\ ReportsSound /\ CustodySound /\ Upright
  BY UsedStays DEF AuditInv
<1>2. ReportSound(e) /\ (e \notin Unchecked => UpToDate(e))
  BY <1>1 DEF ReportsSound
<1>3. ASSUME NEW untimed, StoreBatch(untimed)
      PROVE  ReportSound(e)' /\ (e \notin Unchecked' => UpToDate(e)')
  <2>1. reports' = reports /\ active' = active /\ indexer.at = "STORE"
    BY <1>3 DEF StoreBatch
  <2>2. UpToDate(e)
    BY <1>2, <2>1 DEF Unchecked
  <2>3. indexer'.at = "CURSOR"
    BY <1>1, <1>3, StepMoves
  <2>4. CASE SameRows(e)
    BY <1>1, <1>2, <2>1, <2>2, <2>4, ReportFrame DEF ActiveIncidents
  <2>5. CASE DataVersion(e).last < DataVersion(e)'.last
    <3>1. ReportSound(e)'
      BY <1>1, <1>2, <2>1, <2>5, StaleIsSound
    <3>2. e \in Unchecked' \/ SameRows(e)
      BY <1>1, <1>3, <2>3, StoreBatchRows DEF Unchecked
    <3>3. SameRows(e) => UpToDate(e)'
      BY <1>1, <2>1, <2>2, ReportFrame
    <3>4. QED
      BY <3>1, <3>2, <3>3
  <2>6. QED
    BY <1>1, <1>3, <2>4, <2>5, NewRowsAreLater
<1>4. CASE SameTables
  <2>1. SameRows(e)
    BY <1>1, <1>4, SameTablesSameRules
  <2>2. ASSUME StoreReport(e)
        PROVE  ReportSound(e)' /\ UpToDate(e)'
    BY <1>1, <1>2, <1>4, <2>2, StoredReportIsSound
  <2>3. CASE ~StoreReport(e)
    <3>1. reports'[e] = reports[e]
      <4>1. ASSUME NEW d \in Elections, StoreReport(d)
            PROVE  reports'[e] = reports[e]
        <5>1. ReportSound(d) /\ e # d
          BY <1>1, <2>3, <4>1 DEF ReportsSound
        <5>2. QED
          BY <1>1, <1>4, <4>1, <5>1, StoredReportIsSound
      <4>2. QED
        BY <4>1 DEF AuditNext, auditVars, IndexerStep, Crash, NewBlock, WriteActa, SaveActaContent, DamageActa,
           ListMissingTimes, FillTime, EndBackfill, LoadActas, UpsertActa, ResolveCustody,
           WriteCustody, VerifyContents, EndCustody, SkipReport, ResolveManaged, Raise, EndChecks, Poll,
           StoreBatch, StoreCursor
    <3>2. UpToDate(e)' <=> UpToDate(e)
      BY <1>1, <2>1, <3>1, ReportFrame
    <3>3. UpToDate(e) => ActiveIncidents(e, RuleCodes)' = ActiveIncidents(e, RuleCodes)
      <4>1. ResolveManaged(e) => ~UpToDate(e)
        BY DEF ResolveManaged
      <4>2. ASSUME NEW w \in indexer.writes, Raise(w), w.election = e
            PROVE  ~UpToDate(e)
        <5>1. PICK d \in indexer.checks : ~UpToDate(d) /\ indexer.writes \subseteq Incidents(d)
          BY <1>1, <4>2 DEF Renewal, Raise
        <5>2. d \in Elections
          BY <1>1 DEF AuditTyped, ProcessTyped, IndexerRecords
        <5>3. w \in [election : {d}, code : Codes, ref : Refs]
          BY <1>1, <4>2, <5>1, <5>2, RulesTyped
        <5>4. d = e
          BY <4>2, <5>3
        <5>5. QED
          BY <5>1, <5>4
      <4>3. QED
        BY <1>1, <4>1, <4>2, RaisedStay
    <3>4. ReportSound(e)'
      BY <1>1, <1>2, <2>1, <3>1, <3>3, ReportFrame
    <3>5. e \notin Unchecked' => UpToDate(e)
      <4>1. SkipReport(e) => UpToDate(e)
        BY DEF SkipReport
      <4>2. QED
        BY <1>1, <1>2, <2>3, <4>1, UncheckedMoves
    <3>6. QED
      BY <3>2, <3>4, <3>5
  <2>4. QED
    BY <2>2, <2>3
<1>5. QED
  BY <1>1, <1>3, <1>4, OnlyBatchesStore

-----------------------------------------------------------------------------
(* What custody says of an election depends on its anchors, its contents    *)
(* and its incidents.                                                       *)
LEMMA CustodyFrame ==
  ASSUME NEW e \in Elections, Anchored(e)' = Anchored(e),
         \A a : ContentOf(e, a)' = ContentOf(e, a)
  PROVE  /\ Missing(e)' = Missing(e) /\ Failures(e)' = Failures(e)
         /\ Verified(e)' = Verified(e) /\ Outdated(e)' = Outdated(e)
         /\ ActiveIncidents(e, CustodyCodes)' = ActiveIncidents(e, CustodyCodes)
              => (CustodyExact(e)' <=> CustodyExact(e))
<1>1. Missing(e)' = Missing(e) /\ Outdated(e)' = Outdated(e)
  <2>1. /\ {b \in Anchored(e) : ContentOf(e, b) = {}}' = {b \in Anchored(e) : ContentOf(e, b) = {}}
        /\ {b \in Anchored(e) : <<e, b>> \in BoardActas /\ ContentOf(e, b) # {}}'
           = {b \in Anchored(e) : <<e, b>> \in BoardActas /\ ContentOf(e, b) # {}}
    OBVIOUS
  <2>2. QED
    BY <2>1 DEF Missing, Outdated, Incident
<1>2. Failures(e)' = Failures(e)
  BY DEF Failures
<1>3. Verified(e)' = Verified(e)
  BY DEF Verified, Verdict
<1>4. QED
  BY <1>1, <1>2, <1>3 DEF CustodyExact, Custody, Verdict

(* Only a renewal of custody changes the custody incidents.                *)
LEMMA CustodyStays ==
  ASSUME AuditTyped, Placed, Renewal, [AuditNext]_auditVars, NEW e \in Elections
  PROVE  \/ ActiveIncidents(e, CustodyCodes)' = ActiveIncidents(e, CustodyCodes)
         \/ ResolveCustody
         \/ \E w \in indexer.writes : WriteCustody(w)
<1>0. \A i : i.code \in CustodyCodes => i.code \notin Codes
  BY DEF Codes, CustodyCodes
<1>1. CASE active' = active
  BY <1>1 DEF ActiveIncidents
<1>2. ASSUME NEW d \in Elections, ResolveManaged(d)
      PROVE  ActiveIncidents(e, CustodyCodes)' = ActiveIncidents(e, CustodyCodes)
  BY <1>0, <1>2 DEF ResolveManaged, ActiveIncidents
<1>3. ASSUME NEW w \in indexer.writes, Raise(w)
      PROVE  ActiveIncidents(e, CustodyCodes)' = ActiveIncidents(e, CustodyCodes)
  <2>1. PICK d \in indexer.checks : indexer.writes \subseteq Incidents(d)
    BY <1>3 DEF Renewal, Raise
  <2>2. d \in Elections
    BY <2>1 DEF AuditTyped, ProcessTyped, IndexerRecords
  <2>3. w \in [election : {d}, code : Codes, ref : Refs]
    BY <2>1, <2>2, RulesTyped
  <2>4. w.code \notin CustodyCodes
    BY <1>0, <2>3
  <2>5. QED
    BY <1>3, <2>4 DEF Raise, ActiveIncidents
<1>4. QED
  BY <1>1, <1>2, <1>3 DEF AuditNext, auditVars, IndexerStep, Crash, NewBlock, WriteActa,
     SaveActaContent, DamageActa, ListMissingTimes, FillTime, EndBackfill, LoadActas, UpsertActa,
     VerifyContents, EndCustody, SkipReport, StoreReport, EndChecks, Poll, StoreBatch, StoreCursor

(* A file's election is one whose custody is renewed next.                 *)
LEMMA FilesAreHinted ==
  ASSUME AuditTyped, NEW f \in indexer.loaded
  PROVE  f.election \in Hinted
  BY DEF Hinted

(* The elections whose custody awaits renewal do so until it comes.        *)
LEMMA AwaitingMoves ==
  ASSUME AuditTyped, Placed, [AuditNext]_auditVars, ~Restarted', NEW e \in Elections,
         e \notin AwaitingCustody', ~Renewing, ~Renewing'
  PROVE  e \notin AwaitingCustody
<1>1. CASE indexer' = indexer
  BY <1>1 DEF AwaitingCustody, Hinted
<1>2. CASE ListMissingTimes \/ EndBackfill \/ EndChecks
           \/ (\E b, found : FillTime(b, found)) \/ (\E untimed : StoreBatch(untimed))
           \/ \E head : Poll(head)
  BY <1>2 DEF AwaitingCustody, ListMissingTimes, EndBackfill, FillTime, EndChecks, StoreBatch, Poll
<1>3. CASE LoadActas
  <2>1. /\ indexer.at = "LOAD" /\ indexer'.at = "UPSERT"
        /\ indexer'.looping = indexer.looping /\ indexer'.touched = indexer.touched
    BY <1>3, StepMoves DEF LoadActas
  <2>2. QED
    BY <2>1 DEF AwaitingCustody, Hinted
<1>4. ASSUME NEW f, UpsertActa(f) PROVE e \notin AwaitingCustody
  <2>1. indexer.at = "UPSERT" /\ ~used'.ended
    BY <1>4 DEF UpsertActa, Restarted
  <2>2. indexer'.at = "UPSERT" /\ SameScope
    BY <1>4, <2>1, StepMoves
  <2>3. QED
    BY <2>1, <2>2 DEF AwaitingCustody, Hinted, SameScope
<1>5. ASSUME NEW w, Raise(w) PROVE e \notin AwaitingCustody
  BY <1>5 DEF AwaitingCustody, Raise
<1>6. ASSUME NEW d, SkipReport(d) \/ ResolveManaged(d) \/ StoreReport(d)
      PROVE  e \notin AwaitingCustody
  BY <1>6 DEF AwaitingCustody, SkipReport, ResolveManaged, StoreReport
<1>7. CASE StoreCursor
  <2>1. /\ indexer.at = "CURSOR" /\ indexer'.at = "LOAD" /\ indexer'.looping
        /\ indexer'.touched = indexer.touched
    BY <1>7, StepMoves DEF StoreCursor
  <2>2. QED
    BY <2>1 DEF AwaitingCustody
<1>8. CASE Crash
  <2>1. used \in Uses /\ Use("crashes", MaxCrashes)
    BY <1>8 DEF Crash, AuditTyped, ProcessTyped
  <2>2. used'.crashes = used.crashes + 1 /\ used.crashes \in Nat
    BY <2>1, UseGrows DEF Uses
  <2>3. FALSE
    BY <2>2 DEF Restarted
  <2>4. QED
    BY <2>3
<1>9. CASE ResolveCustody \/ VerifyContents \/ EndCustody \/ \E w : WriteCustody(w)
  BY <1>9, StepMoves DEF Renewing, VerifyContents, EndCustody, WriteCustody
<1>10. QED
  BY <1>1, <1>2, <1>3, <1>4, <1>5, <1>6, <1>7, <1>8, <1>9 DEF AuditNext, auditVars, IndexerStep,
     NewBlock, WriteActa, SaveActaContent, DamageActa

(* A file replaces a content of its own election.                          *)
LEMMA UpsertElsewhere ==
  ASSUME NEW f, UpsertActa(f), NEW e, e # f.election
  PROVE  \A a : ContentOf(e, a)' = ContentOf(e, a)
<1> DEFINE others == contents \ ContentOf(f.election, f.act)
           status == IF ContentOf(f.election, f.act) = {} THEN "NONE"
                     ELSE (CHOOSE c \in ContentOf(f.election, f.act) : TRUE).status
           row == [election |-> f.election, act |-> f.act, hash |-> f.hash,
                   valid |-> f.valid, status |-> status]
<1>1. contents' = others \cup {row} \/ contents' = contents
  BY DEF UpsertActa
<1>2. row.election = f.election
  OBVIOUS
<1>3. \A c \in contents : c.election = e => c \in others
  BY DEF ContentOf
<1> HIDE DEF row
<1>4. QED
  BY <1>1, <1>2, <1>3 DEF ContentOf

(* Writing a status changes nothing else of a content.                     *)
LEMMA StatusIsWritten ==
  ASSUME AuditTyped, NEW w \in indexer.writes, WriteCustody(w), w.code \in Verdicts,
         NEW e \in Elections, NEW a
  PROVE  /\ \A d \in ContentOf(e, a)' : \E c \in ContentOf(e, a) :
              /\ d.valid = c.valid /\ d.hash = c.hash /\ d.act = c.act
              /\ d.status = IF e = w.election /\ a = w.ref THEN w.code ELSE c.status
         /\ \A c \in ContentOf(e, a) : \E d \in ContentOf(e, a)' :
              d.valid = c.valid /\ d.hash = c.hash /\ d.act = c.act
<1> DEFINE New(c) == IF c.election = w.election /\ c.act = w.ref
                     THEN [c EXCEPT !.status = w.code] ELSE c
<1>1. contents' = {New(c) : c \in contents}
  BY DEF WriteCustody
<1>2. \A c \in contents : c \in Contents
  BY DEF AuditTyped, FilesTyped
<1>3. \A c \in contents :
        /\ New(c).election = c.election /\ New(c).act = c.act /\ New(c).hash = c.hash
        /\ New(c).valid = c.valid
        /\ New(c).status = IF c.election = w.election /\ c.act = w.ref THEN w.code ELSE c.status
  <2> SUFFICES ASSUME NEW c \in contents
               PROVE  /\ New(c).election = c.election /\ New(c).act = c.act
                      /\ New(c).hash = c.hash /\ New(c).valid = c.valid
                      /\ New(c).status = IF c.election = w.election /\ c.act = w.ref
                                         THEN w.code ELSE c.status
    OBVIOUS
  <2>1. c \in Contents
    BY <1>2
  <2>2. QED
    BY <2>1 DEF Contents
<1> HIDE DEF New
<1>4. QED
  BY <1>1, <1>3 DEF ContentOf

(* What custody requires of an election does not depend on the statuses.   *)
LEMMA StatusesKeepCustody ==
  ASSUME AuditTyped, NEW w \in indexer.writes, WriteCustody(w), w.code \in Verdicts,
         NEW e \in Elections
  PROVE  /\ Missing(e)' = Missing(e) /\ Failures(e)' = Failures(e)
         /\ Verified(e)' = Verified(e) /\ Outdated(e)' = Outdated(e)
         /\ Anchored(e)' = Anchored(e)
<1>1. Anchored(e)' = Anchored(e)
  BY DEF WriteCustody, Anchored, RowsOf, Stored
<1>2. \A a : /\ ContentOf(e, a)' = {} <=> ContentOf(e, a) = {}
             /\ (\E c \in ContentOf(e, a)' : ~c.valid) <=> (\E c \in ContentOf(e, a) : ~c.valid)
             /\ (\E c \in ContentOf(e, a)' : c.hash # c.act)
                   <=> (\E c \in ContentOf(e, a) : c.hash # c.act)
  <2> SUFFICES ASSUME NEW a
               PROVE  /\ ContentOf(e, a)' = {} <=> ContentOf(e, a) = {}
                      /\ (\E c \in ContentOf(e, a)' : ~c.valid)
                            <=> (\E c \in ContentOf(e, a) : ~c.valid)
                      /\ (\E c \in ContentOf(e, a)' : c.hash # c.act)
                            <=> (\E c \in ContentOf(e, a) : c.hash # c.act)
    OBVIOUS
  <2>1. \A d \in ContentOf(e, a)' : \E c \in ContentOf(e, a) :
          d.valid = c.valid /\ d.hash = c.hash /\ d.act = c.act
    BY StatusIsWritten
  <2>2. \A c \in ContentOf(e, a) : \E d \in ContentOf(e, a)' :
          d.valid = c.valid /\ d.hash = c.hash /\ d.act = c.act
    BY StatusIsWritten
  <2>3. QED
    BY <2>1, <2>2
<1>3. Missing(e)' = Missing(e) /\ Outdated(e)' = Outdated(e)
  BY <1>1, <1>2 DEF Missing, Outdated, Incident
<1>4. Failures(e)' = Failures(e)
  BY <1>1, <1>2 DEF Failures
<1>5. \A a, code : (\E c \in ContentOf(e, a)' : code = Verdict(c))
                      <=> (\E c \in ContentOf(e, a) : code = Verdict(c))
  <2> SUFFICES ASSUME NEW a, NEW code
               PROVE  (\E c \in ContentOf(e, a)' : code = Verdict(c))
                         <=> (\E c \in ContentOf(e, a) : code = Verdict(c))
    OBVIOUS
  <2>1. \A d \in ContentOf(e, a)' : \E c \in ContentOf(e, a) :
          d.valid = c.valid /\ d.hash = c.hash /\ d.act = c.act
    BY StatusIsWritten
  <2>2. \A c \in ContentOf(e, a) : \E d \in ContentOf(e, a)' :
          d.valid = c.valid /\ d.hash = c.hash /\ d.act = c.act
    BY StatusIsWritten
  <2>3. QED
    BY <2>1, <2>2 DEF Verdict
<1>6. Verified(e)' = Verified(e)
  BY <1>1, <1>5 DEF Verified, Verdict
<1>7. QED
  BY <1>1, <1>3, <1>4, <1>6

(* The statuses written are those of the one content of their anchor.      *)
LEMMA VerdictIsItsContents ==
  ASSUME AuditTyped, NEW e \in Elections, NEW w \in Verified(e), NEW c \in ContentOf(e, w.ref)
  PROVE  w.code = Verdict(c)
<1>1. PICK d \in ContentOf(e, w.ref) : w.code = Verdict(d)
  BY DEF Verified
<1>2. d = c
  BY DEF ContentOf, AuditTyped, FilesTyped
<1>3. QED
  BY <1>1, <1>2

(* What is written brings the custody of its election closer to exact, and *)
(* leaves an exact one exact.                                              *)
LEMMA IncidentsRenewCustody ==
  ASSUME AuditTyped, Placed, NEW w \in indexer.writes, WriteCustody(w), w.code \notin Verdicts,
         w \in Custody(w.election) \cup Outdated(w.election), NEW e \in Elections
  PROVE  /\ Missing(e)' = Missing(e) /\ Failures(e)' = Failures(e)
         /\ Verified(e)' = Verified(e) /\ Outdated(e)' = Outdated(e)
         /\ MissingRaised(e) => MissingRaised(e)'
         /\ CustodyRenewed(e) => CustodyRenewed(e)'
         /\ CustodyExact(e) => CustodyExact(e)'
<1>1. /\ UNCHANGED <<chain, rows, contents>> /\ active' = active \cup {w}
      /\ indexer'.writes = indexer.writes \ {w}
  BY StepMoves DEF WriteCustody
<1>2. Anchored(e)' = Anchored(e) /\ \A a : ContentOf(e, a)' = ContentOf(e, a)
  BY <1>1 DEF Anchored, RowsOf, Stored, ContentOf
<1>3. /\ Missing(e)' = Missing(e) /\ Failures(e)' = Failures(e)
      /\ Verified(e)' = Verified(e) /\ Outdated(e)' = Outdated(e)
  BY <1>2, CustodyFrame
<1>4. Custody(e)' = Custody(e)
  BY <1>3 DEF Custody
<1>5. /\ active \subseteq active' /\ active \cup indexer.writes \subseteq active' \cup indexer'.writes
      /\ \A i \in ActiveIncidents(e, CustodyCodes)' :
            \/ i \in ActiveIncidents(e, CustodyCodes)
            \/ i \in Custody(e) \cup Outdated(e)
  BY <1>1 DEF ActiveIncidents
<1>6. \A a, c : Incident(e, Verdict(c), a) # w
  <2>1. \A a, c : Incident(e, Verdict(c), a).code \in Verdicts
    BY DEF Incident, Verdict, Verdicts
  <2>2. QED
    BY <2>1
<1>7. ASSUME MissingRaised(e) PROVE MissingRaised(e)'
  BY <1>3, <1>4, <1>5, <1>7 DEF MissingRaised
<1>8. ASSUME CustodyRenewed(e) PROVE CustodyRenewed(e)'
  <2>1. ActiveIncidents(e, CustodyCodes)' \subseteq Custody(e) \cup Outdated(e)
    BY <1>5, <1>8 DEF CustodyRenewed
  <2>2. Custody(e) \subseteq active' \cup indexer'.writes
    BY <1>5, <1>8 DEF CustodyRenewed
  <2>3. \A a \in Anchored(e) : \A c \in ContentOf(e, a) :
          StatusRight(e, a, c) \/ Incident(e, Verdict(c), a) \in indexer'.writes
    BY <1>1, <1>6, <1>8 DEF CustodyRenewed
  <2>4. QED
    BY <1>2, <1>3, <1>4, <2>1, <2>2, <2>3 DEF CustodyRenewed, StatusRight, Incident, Verdict
<1>9. ASSUME CustodyExact(e) PROVE CustodyExact(e)'
  <2>1. ActiveIncidents(e, CustodyCodes)' \subseteq Custody(e) \cup Outdated(e)
    BY <1>5, <1>9 DEF CustodyExact
  <2>2. Custody(e) \subseteq ActiveIncidents(e, CustodyCodes)'
    BY <1>5, <1>9 DEF CustodyExact, ActiveIncidents
  <2>3. QED
    BY <1>2, <1>3, <1>4, <1>9, <2>1, <2>2 DEF CustodyExact, Verdict
<1>10. QED
  BY <1>3, <1>7, <1>8, <1>9

(* The same of a status that is written.                                   *)
LEMMA StatusesRenewCustody ==
  ASSUME AuditTyped, Placed, NEW w \in indexer.writes, WriteCustody(w), w.code \in Verdicts,
         w \in Verified(w.election), NEW e \in Elections
  PROVE  /\ Missing(e)' = Missing(e) /\ Failures(e)' = Failures(e)
         /\ Verified(e)' = Verified(e) /\ Outdated(e)' = Outdated(e)
         /\ CustodyRenewed(e) => CustodyRenewed(e)'
         /\ CustodyExact(e) => CustodyExact(e)'
<1>1. active' = active /\ indexer'.writes = indexer.writes \ {w}
  BY StepMoves DEF WriteCustody
<1>2. /\ Missing(e)' = Missing(e) /\ Failures(e)' = Failures(e)
      /\ Verified(e)' = Verified(e) /\ Outdated(e)' = Outdated(e) /\ Anchored(e)' = Anchored(e)
  BY StatusesKeepCustody
<1>3. Custody(e)' = Custody(e) /\ \A v \in Custody(e) : v # w
  BY <1>2, CodesOfCustody DEF Custody
<1>4. ActiveIncidents(e, CustodyCodes)' = ActiveIncidents(e, CustodyCodes)
  BY <1>1 DEF ActiveIncidents
<1>5. ASSUME NEW a, NEW d \in ContentOf(e, a)'
      PROVE  \E c \in ContentOf(e, a) :
               /\ Verdict(d) = Verdict(c)
               /\ \/ d.status = Verdict(c)
                  \/ d.status = c.status /\ Incident(e, Verdict(c), a) # w
  <2>1. PICK c \in ContentOf(e, a) :
          /\ d.valid = c.valid /\ d.hash = c.hash /\ d.act = c.act
          /\ d.status = IF e = w.election /\ a = w.ref THEN w.code ELSE c.status
    BY <1>5, StatusIsWritten
  <2>2. Verdict(d) = Verdict(c)
    BY <2>1 DEF Verdict
  <2>3. CASE e = w.election /\ a = w.ref
    <3>1. w.code = Verdict(c)
      BY <2>3, VerdictIsItsContents
    <3>2. QED
      BY <2>1, <2>2, <2>3, <3>1
  <2>4. CASE ~(e = w.election /\ a = w.ref)
    <3>1. Incident(e, Verdict(c), a).election = e /\ Incident(e, Verdict(c), a).ref = a
      BY DEF Incident
    <3>2. QED
      BY <2>1, <2>2, <2>4, <3>1
  <2>5. QED
    BY <2>3, <2>4
<1>6. ASSUME CustodyRenewed(e) PROVE CustodyRenewed(e)'
  <2>1. Custody(e) \subseteq active' \cup indexer'.writes
    BY <1>1, <1>3, <1>6 DEF CustodyRenewed
  <2>2. ASSUME NEW a \in Anchored(e), NEW d \in ContentOf(e, a)'
        PROVE  StatusRight(e, a, d) \/ Incident(e, Verdict(d), a) \in indexer'.writes
    <3>1. PICK c \in ContentOf(e, a) :
            /\ Verdict(d) = Verdict(c)
            /\ \/ d.status = Verdict(c)
               \/ d.status = c.status /\ Incident(e, Verdict(c), a) # w
      BY <1>5, <2>2
    <3>2. StatusRight(e, a, c) \/ Incident(e, Verdict(c), a) \in indexer.writes
      BY <1>6, <3>1 DEF CustodyRenewed
    <3>3. QED
      BY <1>1, <3>1, <3>2 DEF StatusRight
  <2>3. QED
    BY <1>2, <1>3, <1>4, <1>6, <2>1, <2>2 DEF CustodyRenewed, StatusRight, Incident, Verdict
<1>7. ASSUME CustodyExact(e) PROVE CustodyExact(e)'
  <2>1. ASSUME NEW a \in Anchored(e), NEW d \in ContentOf(e, a)'
        PROVE  StatusRight(e, a, d)
    <3>1. PICK c \in ContentOf(e, a) :
            /\ Verdict(d) = Verdict(c)
            /\ d.status = Verdict(c) \/ d.status = c.status
      BY <1>5, <2>1
    <3>2. StatusRight(e, a, c)
      BY <1>7, <3>1 DEF CustodyExact, StatusRight
    <3>3. QED
      BY <3>1, <3>2 DEF StatusRight
  <2>2. QED
    BY <1>2, <1>3, <1>4, <1>7, <2>1 DEF CustodyExact, StatusRight, Verdict
<1>8. QED
  BY <1>2, <1>6, <1>7

(* What the board writes is no longer missing, and right.                  *)
LEMMA BoardWritesContent ==
  ASSUME AuditTyped, NEW e \in Elections, NEW a \in Acts, SaveActaContent(e, a)
  PROVE  /\ <<e, a>> \in BoardActas
         /\ \A d, b : <<d, b>> # <<e, a>> => ContentOf(d, b)' = ContentOf(d, b)
         /\ ContentOf(e, a)' # {}
         /\ \A c \in ContentOf(e, a) \cup ContentOf(e, a)' : c.valid /\ c.hash = c.act
         /\ \A c \in ContentOf(e, a)' : c.status = "VALID" /\ Verdict(c) = "OK"
<1> DEFINE others == contents \ ContentOf(e, a)
           row == [election |-> e, act |-> a, hash |-> a, valid |-> TRUE, status |-> "VALID"]
<1>1. contents' = others \cup {row} /\ <<e, a>> \in BoardActas
  BY DEF SaveActaContent
<1>2. row.election = e /\ row.act = a /\ row.hash = a /\ row.valid /\ row.status = "VALID"
  OBVIOUS
<1>3. \A c \in contents : c \in others <=> ~(c.election = e /\ c.act = a)
  BY DEF ContentOf
<1>4. \A c \in others : c \in contents
  OBVIOUS
<1> HIDE DEF row, others
<1>5. ContentOf(e, a)' = {row}
  BY <1>1, <1>2, <1>3, <1>4 DEF ContentOf
<1>6. \A d, b : <<d, b>> # <<e, a>> => ContentOf(d, b)' = ContentOf(d, b)
  BY <1>1, <1>2, <1>3, <1>4 DEF ContentOf
<1>7. \A c \in ContentOf(e, a) : c.valid /\ c.hash = c.act
  BY <1>1 DEF ContentOf, AuditTyped, FilesTyped
<1>8. QED
  BY <1>1, <1>2, <1>5, <1>6, <1>7 DEF Verdict

(* So the board's write leaves the custody of an election as it should be. *)
LEMMA BoardKeepsCustody ==
  ASSUME AuditTyped, NEW e \in Elections, NEW a \in Acts, SaveActaContent(e, a),
         NEW d \in Elections
  PROVE  /\ Missing(d) \cup Outdated(d) \subseteq (Missing(d) \cup Outdated(d))'
         /\ Failures(d) \cup Verified(d) \subseteq (Failures(d) \cup Verified(d))'
         /\ MissingRaised(d) => MissingRaised(d)'
         /\ CustodyRenewed(d) => CustodyRenewed(d)'
         /\ CustodyExact(d) => CustodyExact(d)'
<1>1. /\ UNCHANGED <<chain, rows, active, indexer>>
      /\ ActiveIncidents(d, CustodyCodes)' = ActiveIncidents(d, CustodyCodes)
      /\ Anchored(d)' = Anchored(d)
  BY DEF SaveActaContent, ActiveIncidents, Anchored, RowsOf, Stored
<1>2. \A b : ContentOf(d, b) # {} => ContentOf(d, b)' # {}
  BY BoardWritesContent
<1>3. Missing(d)' \subseteq Missing(d) /\ Outdated(d) \subseteq Outdated(d)'
  BY <1>1, <1>2 DEF Missing, Outdated, Incident
<1>4. Missing(d) \subseteq (Missing(d) \cup Outdated(d))'
  <2>1. ASSUME NEW b \in Anchored(d), ContentOf(d, b) = {}, ContentOf(d, b)' # {}
        PROVE  <<d, b>> \in BoardActas
    BY <2>1, BoardWritesContent
  <2>2. QED
    BY <1>1, <2>1 DEF Missing, Outdated, Incident
<1>5. \A b : /\ (\E c \in ContentOf(d, b)' : ~c.valid) <=> (\E c \in ContentOf(d, b) : ~c.valid)
             /\ (\E c \in ContentOf(d, b)' : c.hash # c.act)
                   <=> (\E c \in ContentOf(d, b) : c.hash # c.act)
  <2> SUFFICES ASSUME NEW b
               PROVE  /\ (\E c \in ContentOf(d, b)' : ~c.valid)
                            <=> (\E c \in ContentOf(d, b) : ~c.valid)
                      /\ (\E c \in ContentOf(d, b)' : c.hash # c.act)
                            <=> (\E c \in ContentOf(d, b) : c.hash # c.act)
    OBVIOUS
  <2>1. CASE d = e /\ b = a
    <3>1. \A c \in ContentOf(d, b) \cup ContentOf(d, b)' : c.valid /\ c.hash = c.act
      BY <2>1, BoardWritesContent
    <3>2. QED
      BY <3>1
  <2>2. CASE ~(d = e /\ b = a)
    <3>1. ContentOf(d, b)' = ContentOf(d, b)
      BY <2>2, BoardWritesContent
    <3>2. QED
      BY <3>1
  <2>3. QED
    BY <2>1, <2>2
<1>6. Failures(d)' = Failures(d)
  BY <1>1, <1>5 DEF Failures
<1>7. Verified(d) \subseteq Verified(d)'
  <2>1. ASSUME NEW b, NEW c \in ContentOf(d, b)
        PROVE  \E f \in ContentOf(d, b)' : Verdict(f) = Verdict(c)
    <3>1. CASE d = e /\ b = a
      <4>1. c.valid /\ c.hash = c.act /\ ContentOf(d, b)' # {}
            /\ \A f \in ContentOf(d, b)' : Verdict(f) = "OK"
        BY <2>1, <3>1, BoardWritesContent
      <4>2. QED
        BY <4>1 DEF Verdict
    <3>2. CASE ~(d = e /\ b = a)
      <4>1. ContentOf(d, b)' = ContentOf(d, b)
        BY <3>2, BoardWritesContent
      <4>2. QED
        BY <2>1, <4>1
    <3>3. QED
      BY <3>1, <3>2
  <2>2. QED
    BY <1>1, <2>1 DEF Verified, Verdict
<1>8. Custody(d)' \subseteq Custody(d)
      /\ Custody(d) \cup Outdated(d) \subseteq (Custody(d) \cup Outdated(d))'
  BY <1>3, <1>4, <1>6 DEF Custody
<1>9. ASSUME NEW b, NEW c \in ContentOf(d, b)'
      PROVE  c \in ContentOf(d, b) \/ StatusRight(d, b, c)
  <2>1. CASE d = e /\ b = a
    <3>1. c.status = "VALID" /\ Verdict(c) = "OK" /\ <<d, b>> \in BoardActas
      BY <1>9, <2>1, BoardWritesContent
    <3>2. QED
      BY <3>1 DEF StatusRight
  <2>2. CASE ~(d = e /\ b = a)
    <3>1. ContentOf(d, b)' = ContentOf(d, b)
      BY <2>2, BoardWritesContent
    <3>2. QED
      BY <1>9, <3>1
  <2>3. QED
    BY <2>1, <2>2
<1>10. ASSUME MissingRaised(d) PROVE MissingRaised(d)'
  BY <1>1, <1>3, <1>8, <1>10 DEF MissingRaised
<1>11. ASSUME CustodyRenewed(d) PROVE CustodyRenewed(d)'
  <2>1. \A b \in Anchored(d) : \A c \in ContentOf(d, b)' :
          StatusRight(d, b, c) \/ Incident(d, Verdict(c), b) \in indexer.writes
    BY <1>9, <1>11 DEF CustodyRenewed
  <2>2. QED
    BY <1>1, <1>8, <1>11, <2>1 DEF CustodyRenewed, StatusRight, Incident, Verdict
<1>12. ASSUME CustodyExact(d) PROVE CustodyExact(d)'
  <2>1. \A b \in Anchored(d) : \A c \in ContentOf(d, b)' : StatusRight(d, b, c)
    BY <1>9, <1>12 DEF CustodyExact, StatusRight
  <2>2. QED
    BY <1>1, <1>8, <1>12, <2>1 DEF CustodyExact, StatusRight, Verdict
<1>13. QED
  BY <1>3, <1>4, <1>6, <1>7, <1>10, <1>11, <1>12

(* A renewal of custody begins.                                            *)
LEMMA ResolveCustodySound ==
  ASSUME AuditTyped, Placed, CustodySound, ResolveCustody
  PROVE  CustodySound'
<1>1. /\ UNCHANGED <<chain, rows, contents, used>> /\ indexer.at = "UPSERT"
      /\ active' = {i \in active : ~(i.code \in CustodyCodes /\ i.election \in Hinted)}
      /\ indexer'.at = "CUSTODY" /\ SameScope
      /\ indexer'.writes = UNION {Missing(e) : e \in Hinted}
  BY StepMoves DEF ResolveCustody
<1>2. Hinted' = Hinted /\ Hinted \subseteq Elections /\ (Restarted' <=> Restarted)
  BY <1>1 DEF Hinted, SameScope, Restarted, AuditTyped, ProcessTyped, IndexerRecords, Signed
<1>3. \A e \in Elections : /\ Anchored(e)' = Anchored(e)
                           /\ \A a : ContentOf(e, a)' = ContentOf(e, a)
  BY <1>1 DEF Anchored, RowsOf, Stored, ContentOf
<1>4. \A e \in Elections : Missing(e)' = Missing(e)
  BY <1>3, CustodyFrame
<1>5. ASSUME NEW e \in Elections, e \in Hinted PROVE MissingRaised(e)'
  <2>1. ActiveIncidents(e, CustodyCodes)' = {}
    BY <1>1, <1>5 DEF ActiveIncidents
  <2>2. Missing(e) \subseteq indexer'.writes
    BY <1>1, <1>5
  <2>3. QED
    BY <1>4, <1>5, <2>1, <2>2 DEF MissingRaised
<1>6. ASSUME NEW e \in Elections, e \notin Hinted, ~Restarted PROVE CustodyExact(e)'
  <2>1. CustodyExact(e)
    BY <1>1, <1>6 DEF CustodySound, AwaitingCustody, Renewing
  <2>2. ActiveIncidents(e, CustodyCodes)' = ActiveIncidents(e, CustodyCodes)
    BY <1>1, <1>6 DEF ActiveIncidents
  <2>3. QED
    BY <1>3, <2>1, <2>2, CustodyFrame
<1>7. ASSUME NEW w \in indexer'.writes PROVE w \in Missing(w.election)'
  <2>1. PICK e \in Hinted : w \in Missing(e)
    BY <1>1, <1>7
  <2>2. e \in Elections /\ w.election = e
    BY <1>2, <2>1, CodesOfCustody DEF Custody
  <2>3. QED
    BY <1>4, <2>1, <2>2
<1>8. QED
  BY <1>1, <1>2, <1>5, <1>6, <1>7 DEF CustodySound, Renewing

(* What is missing has been raised; the contents are verified next.        *)
LEMMA VerifyContentsSound ==
  ASSUME AuditTyped, Placed, CustodySound, VerifyContents
  PROVE  CustodySound'
<1>1. /\ UNCHANGED <<chain, rows, contents, active, used>>
      /\ indexer.at = "CUSTODY" /\ indexer.writes = {}
      /\ indexer'.at = "VERIFY" /\ SameScope
      /\ indexer'.writes = UNION {Failures(e) \cup Verified(e) : e \in Hinted}
  BY StepMoves DEF VerifyContents
<1>2. Hinted' = Hinted /\ Hinted \subseteq Elections /\ (Restarted' <=> Restarted)
  BY <1>1 DEF Hinted, SameScope, Restarted, AuditTyped, ProcessTyped, IndexerRecords, Signed
<1>3. \A e \in Elections : /\ Anchored(e)' = Anchored(e)
                           /\ \A a : ContentOf(e, a)' = ContentOf(e, a)
                           /\ ActiveIncidents(e, CustodyCodes)' = ActiveIncidents(e, CustodyCodes)
  BY <1>1 DEF Anchored, RowsOf, Stored, ContentOf, ActiveIncidents
<1>4. \A e \in Elections : /\ Missing(e)' = Missing(e) /\ Failures(e)' = Failures(e)
                           /\ Verified(e)' = Verified(e) /\ Outdated(e)' = Outdated(e)
                           /\ CustodyExact(e)' <=> CustodyExact(e)
  BY <1>3, CustodyFrame
<1>5. ASSUME NEW e \in Elections, e \in Hinted PROVE CustodyRenewed(e)'
  <2>1. /\ ActiveIncidents(e, CustodyCodes) \subseteq Custody(e) \cup Outdated(e)
        /\ Missing(e) \subseteq active
    BY <1>1, <1>5 DEF CustodySound, MissingRaised
  <2>2. Failures(e) \cup Verified(e) \subseteq indexer'.writes
    BY <1>1, <1>5
  <2>3. ASSUME NEW a \in Anchored(e), NEW c \in ContentOf(e, a)
        PROVE  Incident(e, Verdict(c), a) \in Verified(e)
    <3>1. Verdict(c) \in Verdicts
      BY DEF Verdict, Verdicts
    <3>2. Incident(e, Verdict(c), a) \in [election : {e}, code : Verdicts, ref : Anchored(e)]
      BY <3>1 DEF Incident
    <3>3. Incident(e, Verdict(c), a).ref = a /\ Incident(e, Verdict(c), a).code = Verdict(c)
      BY DEF Incident
    <3>4. QED
      BY <3>2, <3>3 DEF Verified
  <2>4. Custody(e)' = Custody(e) /\ Custody(e) \subseteq active \cup indexer'.writes
    BY <1>4, <2>1, <2>2 DEF Custody
  <2>5. QED
    BY <1>1, <1>3, <1>4, <1>5, <2>1, <2>2, <2>3, <2>4 DEF CustodyRenewed, Incident, Verdict
<1>6. \A e \in Elections : e \notin Hinted /\ ~Restarted => CustodyExact(e)
  BY <1>1 DEF CustodySound, Renewing
<1>7. ASSUME NEW w \in indexer'.writes
      PROVE  w \in (Failures(w.election) \cup Verified(w.election))'
  <2>1. PICK e \in Hinted : w \in Failures(e) \cup Verified(e)
    BY <1>1, <1>7
  <2>2. e \in Elections /\ w.election = e
    BY <1>2, <2>1, CodesOfCustody DEF Custody
  <2>3. QED
    BY <1>4, <2>1, <2>2
<1>8. QED
  BY <1>1, <1>2, <1>4, <1>5, <1>6, <1>7 DEF CustodySound, Renewing

(* A renewal of custody ends: the custody it was about is exact.           *)
LEMMA EndCustodySound ==
  ASSUME AuditTyped, Placed, CustodySound, EndCustody
  PROVE  CustodySound'
<1>1. /\ UNCHANGED <<chain, rows, contents, active, used>>
      /\ indexer.at = "VERIFY" /\ indexer.writes = {}
      /\ indexer'.at = "CHECK" /\ SameScope
  BY StepMoves DEF EndCustody
<1>2. Hinted' = Hinted /\ (Restarted' <=> Restarted)
  BY <1>1 DEF Hinted, SameScope, Restarted
<1>3. ASSUME NEW e \in Elections PROVE CustodyExact(e)' <=> CustodyExact(e)
  <2>1. /\ Anchored(e)' = Anchored(e) /\ \A a : ContentOf(e, a)' = ContentOf(e, a)
        /\ ActiveIncidents(e, CustodyCodes)' = ActiveIncidents(e, CustodyCodes)
    BY <1>1 DEF Anchored, RowsOf, Stored, ContentOf, ActiveIncidents
  <2>2. QED
    BY <2>1, CustodyFrame
<1>4. ASSUME NEW e \in Elections, e \in Hinted PROVE CustodyExact(e)
  <2>1. CustodyRenewed(e)
    BY <1>1, <1>4 DEF CustodySound
  <2>2. \A i \in Custody(e) : i.election = e /\ i.code \in CustodyCodes
    BY CodesOfCustody
  <2>3. Custody(e) \subseteq ActiveIncidents(e, CustodyCodes)
    BY <1>1, <2>1, <2>2 DEF CustodyRenewed, ActiveIncidents
  <2>4. QED
    BY <1>1, <2>1, <2>3 DEF CustodyRenewed, CustodyExact, StatusRight
<1>5. \A e \in Elections : e \notin Hinted /\ ~Restarted => CustodyExact(e)
  BY <1>1 DEF CustodySound, Renewing
<1>6. QED
  BY <1>1, <1>2, <1>3, <1>4, <1>5 DEF CustodySound, Renewing

(* The board writes a content, wherever the process stands.                *)
LEMMA SaveContentSound ==
  ASSUME AuditTyped, CustodySound, NEW e \in Elections, NEW a \in Acts, SaveActaContent(e, a)
  PROVE  CustodySound'
<1>1. UNCHANGED <<indexer, used>>
  BY DEF SaveActaContent
<1>2. /\ Hinted' = Hinted /\ AwaitingCustody' = AwaitingCustody
      /\ Renewing' <=> Renewing
      /\ Restarted' <=> Restarted
  BY <1>1 DEF Hinted, AwaitingCustody, Renewing, Restarted
<1>3. \A d \in Elections : /\ CustodyExact(d) => CustodyExact(d)'
                           /\ MissingRaised(d) => MissingRaised(d)'
                           /\ CustodyRenewed(d) => CustodyRenewed(d)'
  BY BoardKeepsCustody
<1>4. \A w \in indexer.writes : w.election \in Elections
  BY DEF AuditTyped, ProcessTyped, IndexerRecords, Writes
<1>5. ASSUME NEW w \in indexer.writes
      PROVE  /\ w \in Missing(w.election) \cup Outdated(w.election)
                  => w \in (Missing(w.election) \cup Outdated(w.election))'
             /\ w \in Failures(w.election) \cup Verified(w.election)
                  => w \in (Failures(w.election) \cup Verified(w.election))'
  <2>1. PICK d \in Elections : d = w.election
    BY <1>4
  <2>2. QED
    BY <2>1, BoardKeepsCustody
<1>6. QED
  BY <1>1, <1>2, <1>3, <1>5 DEF CustodySound

(* What custody is worth stays, outside of a renewal and during one.       *)
LEMMA CustodySoundStays ==
  ASSUME AuditTyped, Placed, Renewal, CustodySound, [AuditNext]_auditVars
  PROVE  CustodySound'
<1>1. ~Restarted' => ~Restarted
  BY UsedStays
<1>2. ASSUME NEW w \in indexer.writes, WriteCustody(w) PROVE CustodySound'
  <2>1. /\ indexer.at \in {"CUSTODY", "VERIFY"} /\ indexer'.at = indexer.at
        /\ SameScope /\ used' = used /\ indexer'.writes = indexer.writes \ {w}
    BY <1>2, StepMoves DEF WriteCustody
  <2>2. Hinted' = Hinted
    BY <2>1 DEF Hinted, SameScope
  <2>3. \A v \in indexer.writes : v.election \in Elections
    BY DEF AuditTyped, ProcessTyped, IndexerRecords, Writes
  <2>4. CASE indexer.at = "CUSTODY"
    <3>1. w \in Custody(w.election) \cup Outdated(w.election)
      BY <1>2, <2>4 DEF CustodySound, Custody
    <3>2. w.code \notin Verdicts
      BY <3>1, CodesOfCustody
    <3>3. \A e \in Elections : /\ Missing(e)' = Missing(e) /\ Outdated(e)' = Outdated(e)
                               /\ MissingRaised(e) => MissingRaised(e)'
                               /\ CustodyExact(e) => CustodyExact(e)'
      BY <1>2, <3>1, <3>2, IncidentsRenewCustody
    <3>4. QED
      BY <1>1, <2>1, <2>2, <2>3, <2>4, <3>3 DEF CustodySound, Renewing
  <2>5. CASE indexer.at = "VERIFY"
    <3>1. w \in Failures(w.election) \cup Verified(w.election)
      BY <1>2, <2>5 DEF CustodySound
    <3>2. CASE w.code \in Verdicts
      <4>1. w \in Verified(w.election)
        BY <3>1, <3>2, CodesOfCustody DEF Custody
      <4>2. \A e \in Elections : /\ Failures(e)' = Failures(e) /\ Verified(e)' = Verified(e)
                                 /\ CustodyRenewed(e) => CustodyRenewed(e)'
                                 /\ CustodyExact(e) => CustodyExact(e)'
        BY <1>2, <3>2, <4>1, StatusesRenewCustody
      <4>3. QED
        BY <1>1, <2>1, <2>2, <2>3, <2>5, <4>2 DEF CustodySound, Renewing
    <3>3. CASE w.code \notin Verdicts
      <4>1. w \in Custody(w.election) \cup Outdated(w.election)
        BY <3>1, <3>3, CodesOfCustody DEF Custody
      <4>2. \A e \in Elections : /\ Failures(e)' = Failures(e) /\ Verified(e)' = Verified(e)
                                 /\ CustodyRenewed(e) => CustodyRenewed(e)'
                                 /\ CustodyExact(e) => CustodyExact(e)'
        BY <1>2, <3>3, <4>1, IncidentsRenewCustody
      <4>3. QED
        BY <1>1, <2>1, <2>2, <2>3, <2>5, <4>2 DEF CustodySound, Renewing
    <3>4. QED
      BY <3>2, <3>3
  <2>6. QED
    BY <2>1, <2>4, <2>5
<1>3. CASE Crash
  <2>1. used \in Uses /\ Use("crashes", MaxCrashes)
    BY <1>3 DEF Crash, AuditTyped, ProcessTyped
  <2>2. used'.crashes = used.crashes + 1 /\ used.crashes \in Nat
    BY <2>1, UseGrows DEF Uses
  <2>3. Restarted' /\ indexer'.at = "BACKFILL"
    BY <1>3, <2>2, StepMoves DEF Restarted
  <2>4. QED
    BY <2>3 DEF CustodySound
<1>4. ASSUME NEW f \in indexer.upserts, UpsertActa(f) PROVE CustodySound'
  <2>1. indexer.at = "UPSERT" /\ UNCHANGED <<chain, rows, active>>
    BY <1>4 DEF UpsertActa
  <2>2. CASE indexer'.at = "BACKFILL" /\ used'.ended
    BY <2>2 DEF CustodySound, Restarted
  <2>3. CASE indexer'.at = "UPSERT" /\ SameScope
    <3>1. Hinted' = Hinted
      BY <2>3 DEF Hinted, SameScope
    <3>2. f.election \in Hinted
      BY FilesAreHinted DEF Placed
    <3>3. ASSUME NEW e \in Elections, e \notin Hinted, ~Restarted PROVE CustodyExact(e)'
      <4>1. CustodyExact(e)
        BY <2>1, <3>3 DEF CustodySound, AwaitingCustody, Renewing
      <4>2. \A a : ContentOf(e, a)' = ContentOf(e, a)
        BY <1>4, <3>2, <3>3, UpsertElsewhere
      <4>3. /\ Anchored(e)' = Anchored(e)
            /\ ActiveIncidents(e, CustodyCodes)' = ActiveIncidents(e, CustodyCodes)
        BY <2>1 DEF Anchored, RowsOf, Stored, ActiveIncidents
      <4>4. QED
        BY <4>1, <4>2, <4>3, CustodyFrame
    <3>4. QED
      BY <1>1, <2>3, <3>1, <3>3 DEF CustodySound, AwaitingCustody, Renewing
  <2>4. QED
    BY <1>4, <2>2, <2>3, StepMoves
<1>5. ASSUME NEW untimed, StoreBatch(untimed) PROVE CustodySound'
  <2>1. indexer.at = "STORE" /\ indexer'.at = "CURSOR" /\ UNCHANGED <<active, contents>>
    BY <1>5, StepMoves DEF StoreBatch
  <2>2. ASSUME NEW e \in Elections, e \notin indexer'.touched, ~Restarted PROVE CustodyExact(e)'
    <3>1. CustodyExact(e)
      BY <2>1, <2>2 DEF CustodySound, AwaitingCustody, Renewing
    <3>2. SameRows(e)
      BY <1>5, <2>2, StoreBatchRows
    <3>3. Anchored(e)' = Anchored(e)
      BY <3>2, RulesStay DEF AuditTyped, Placed
    <3>4. /\ ActiveIncidents(e, CustodyCodes)' = ActiveIncidents(e, CustodyCodes)
          /\ \A a : ContentOf(e, a)' = ContentOf(e, a)
      BY <2>1 DEF ActiveIncidents, ContentOf
    <3>5. QED
      BY <3>1, <3>3, <3>4, CustodyFrame
  <2>3. QED
    BY <1>1, <2>1, <2>2 DEF CustodySound, AwaitingCustody, Renewing
<1> DEFINE Quiet == /\ contents' = contents
                    /\ ~ResolveCustody /\ ~VerifyContents /\ ~EndCustody
                    /\ \A w \in indexer.writes : ~WriteCustody(w)
<1>6. ASSUME Quiet, SameTables, NEW e \in Elections
      PROVE  /\ Missing(e)' = Missing(e) /\ Failures(e)' = Failures(e)
             /\ Verified(e)' = Verified(e) /\ Outdated(e)' = Outdated(e)
             /\ CustodyExact(e)' <=> CustodyExact(e)
             /\ ActiveIncidents(e, CustodyCodes)' = ActiveIncidents(e, CustodyCodes)
             /\ Anchored(e)' = Anchored(e) /\ \A a : ContentOf(e, a)' = ContentOf(e, a)
  <2>1. Anchored(e)' = Anchored(e)
    BY <1>6, SameTablesSameRules
  <2>2. \A a : ContentOf(e, a)' = ContentOf(e, a)
    BY <1>6 DEF ContentOf
  <2>3. ActiveIncidents(e, CustodyCodes)' = ActiveIncidents(e, CustodyCodes)
    BY <1>6, CustodyStays
  <2>4. QED
    BY <2>1, <2>2, <2>3, CustodyFrame
<1>7. CASE Quiet /\ SameTables /\ indexer' = indexer /\ active' = active
  <2>1. /\ Hinted' = Hinted /\ AwaitingCustody' = AwaitingCustody
        /\ Renewing' <=> Renewing
    BY <1>7 DEF Hinted, AwaitingCustody, Renewing
  <2>2. ASSUME NEW e \in Elections
        PROVE  /\ CustodyRenewed(e)' <=> CustodyRenewed(e)
               /\ MissingRaised(e)' <=> MissingRaised(e)
    <3>1. Custody(e)' = Custody(e)
      BY <1>6, <1>7 DEF Custody
    <3>2. CustodyRenewed(e)' <=> CustodyRenewed(e)
      BY <1>6, <1>7, <3>1 DEF CustodyRenewed, StatusRight, Incident, Verdict
    <3>3. MissingRaised(e)' <=> MissingRaised(e)
      BY <1>6, <1>7, <3>1 DEF MissingRaised
    <3>4. QED
      BY <3>2, <3>3
  <2>3. \A v \in indexer.writes : v.election \in Elections
    BY DEF AuditTyped, ProcessTyped, IndexerRecords, Writes
  <2>4. QED
    BY <1>1, <1>6, <1>7, <2>1, <2>2, <2>3 DEF CustodySound
<1>8. ASSUME Quiet, SameTables, ~Renewing, ~Renewing',
             indexer'.at \in {"CHECK", "RAISE", "POLL"} =>
                indexer.at \in {"CHECK", "RAISE", "POLL"} /\ SameScope
      PROVE  CustodySound'
  <2>1. ~Restarted' => \A e \in Elections : e \notin AwaitingCustody' => CustodyExact(e)
    BY <1>1, <1>8, AwaitingMoves DEF CustodySound
  <2>2. SameScope => Hinted' = Hinted
    BY DEF SameScope, Hinted
  <2>3. \A e \in Elections : CustodyExact(e)' <=> CustodyExact(e)
    BY <1>6, <1>8
  <2>4. indexer'.at \notin {"CUSTODY", "VERIFY"}
    BY <1>8 DEF Renewing
  <2>5. QED
    BY <1>8, <2>1, <2>2, <2>3, <2>4 DEF CustodySound
<1>9. ASSUME \/ ListMissingTimes \/ EndBackfill \/ LoadActas \/ StoreCursor
             \/ (\E b, found : FillTime(b, found)) \/ \E head : Poll(head),
             SameTables
      PROVE  CustodySound'
  <2>1. /\ indexer.at \in {"BACKFILL", "FILL", "LOAD", "CURSOR", "POLL"} /\ contents' = contents
        /\ indexer'.at \in {"FILL", "LOAD", "UPSERT", "STORE"}
    BY <1>9, StepMoves DEF ListMissingTimes, EndBackfill, LoadActas, StoreCursor, FillTime, Poll
  <2>2. Quiet /\ ~Renewing /\ ~Renewing'
    BY <2>1 DEF ResolveCustody, VerifyContents, WriteCustody, EndCustody, Renewing
  <2>3. QED
    BY <1>8, <1>9, <2>1, <2>2
<1>10. ASSUME \/ EndChecks \/ (\E i \in indexer.writes : Raise(i))
              \/ (\E e : SkipReport(e) \/ ResolveManaged(e) \/ StoreReport(e)),
              SameTables
       PROVE  CustodySound'
  <2>1. /\ indexer.at \in {"CHECK", "RAISE"} /\ contents' = contents
    BY <1>10 DEF EndChecks, Raise, SkipReport, ResolveManaged, StoreReport
  <2>2. indexer'.at \in {"CHECK", "RAISE", "POLL"} /\ SameScope
    BY <1>10, <2>1, StepMoves
  <2>3. Quiet /\ ~Renewing /\ ~Renewing'
    BY <2>1, <2>2 DEF ResolveCustody, VerifyContents, WriteCustody, EndCustody, Renewing
  <2>4. QED
    BY <1>8, <1>10, <2>1, <2>2, <2>3
<1>11. CASE UNCHANGED <<indexer, active, contents>>
  <2>1. \/ Quiet /\ SameTables
        \/ (\E w \in indexer.writes : WriteCustody(w))
        \/ ResolveCustody \/ VerifyContents \/ EndCustody
        \/ \E untimed : StoreBatch(untimed)
    BY <1>11, OnlyBatchesStore
  <2>2. QED
    BY <1>2, <1>5, <1>7, <1>11, <2>1, ResolveCustodySound, VerifyContentsSound, EndCustodySound
<1>12. QED
  BY <1>2, <1>3, <1>4, <1>5, <1>9, <1>10, <1>11, OnlyBatchesStore, ResolveCustodySound,
     VerifyContentsSound, EndCustodySound, SaveContentSound DEF AuditNext, auditVars, IndexerStep,
     NewBlock, WriteActa, DamageActa

-----------------------------------------------------------------------------
(* AuditInv holds at the start and is kept by every step.                  *)
LEMMA AuditInitInv == AuditInit => AuditInv
<1> SUFFICES ASSUME AuditInit PROVE AuditInv
  OBVIOUS
<1>1. MaxBlocks \in Nat /\ BATCH_SIZE \in Nat \ {0}
  BY AuditAssumption
<1>2. chain = << >> /\ Len(chain) = 0 /\ DOMAIN chain = {} /\ chain \in Seq(Events)
  BY DEF AuditInit
<1>3. ChainTyped
  BY <1>1, <1>2 DEF ChainTyped
<1>4. Stored = {}
  BY DEF AuditInit, Stored
<1>5. TablesTyped
  <2>1. PICK R : R = [version : Versions, ok : BOOLEAN]
    OBVIOUS
  <2>2. << >> \in Seq(R)
    OBVIOUS
  <2>3. reports \in [Elections -> Seq([version : Versions, ok : BOOLEAN])]
    BY <2>1, <2>2 DEF AuditInit
  <2>4. phaseOf \in [Elections -> 0 .. LastPhase]
    BY DEF AuditInit, LastPhase
  <2>5. QED
    BY <2>3, <2>4 DEF AuditInit, TablesTyped
<1>6. FilesTyped
  BY DEF AuditInit, FilesTyped
<1>7. /\ indexer \in IndexerRecords /\ indexer.at = "BACKFILL" /\ indexer.next = 1
      /\ indexer.blocks = {} /\ indexer.upserts = {} /\ indexer.loaded = {}
  BY StartedTyped DEF AuditInit
<1>8. ProcessTyped
  BY <1>7 DEF AuditInit, ProcessTyped, Uses
<1>9. Placed
  <2>1. cursor = 1
    BY DEF AuditInit
  <2>2. QED
    BY <1>2, <1>4, <1>7, <2>1 DEF Placed
<1>10. \A e : RowsOf(e, "PHASE") = {} /\ Anchored(e) = {}
  BY <1>4 DEF RowsOf, Anchored
<1>11. Forward
  BY <1>4, <1>7, <1>10 DEF Forward, PhaseOfRows, AuditInit
<1>12. Renewal
  BY <1>7 DEF Renewal
<1>13. ReportsSound
  <2>1. ASSUME NEW e \in Elections
        PROVE  DOMAIN reports[e] = {} /\ ~UpToDate(e)
    BY DEF AuditInit, UpToDate
  <2>2. Unchecked = Elections
    BY <1>7 DEF Unchecked
  <2>3. QED
    BY <2>1, <2>2 DEF ReportsSound, ReportSound
<1>14. CustodySound
  <2>1. ASSUME NEW e \in Elections PROVE CustodyExact(e)
    <3>1. ActiveIncidents(e, CustodyCodes) = {} /\ Missing(e) = {} /\ Failures(e) = {}
      BY <1>10 DEF AuditInit, ActiveIncidents, Missing, Failures
    <3>2. QED
      BY <1>10, <3>1 DEF CustodyExact, Custody
  <2>2. QED
    BY <1>7, <2>1 DEF CustodySound
<1>15. QED
  BY <1>3, <1>5, <1>6, <1>8, <1>9, <1>11, <1>12, <1>13, <1>14 DEF AuditInv, AuditTyped

(* Every step keeps the invariant.                                         *)
LEMMA AuditStepInv == AuditInv /\ [AuditNext]_auditVars => AuditInv'
<1> SUFFICES ASSUME AuditInv, [AuditNext]_auditVars PROVE AuditInv'
  OBVIOUS
<1>1. /\ AuditTyped /\ Placed /\ Forward /\ Renewal /\ ReportsSound /\ CustodySound
  BY DEF AuditInv
<1>2. AuditTyped' /\ Placed' /\ Forward' /\ Renewal' /\ CustodySound'
  BY <1>1, StaysTyped, PlacedStays, ForwardStays, RenewalStays, CustodySoundStays
<1>3. ReportsSound'
  BY <1>1, <1>2, ReportsStay
<1>4. QED
  BY <1>2, <1>3 DEF AuditInv

(* The indexer's custody pass and its reports keep what AuditInv says of   *)
(* them, whatever the events, the files, the deaths and the node's lags.   *)
THEOREM AuditInvariant == AuditSpec => []AuditInv
BY AuditInitInv, AuditStepInv, PTL DEF AuditSpec

(* The tables and the process have their types, and the cursor stands      *)
(* behind rows that are all stored, a batch at most behind the last one.   *)
THEOREM AuditIsTyped == AuditSpec => []AuditTypeOK
<1>1. AuditInv => AuditTypeOK
  <2> SUFFICES ASSUME AuditTyped, Placed PROVE AuditTypeOK
    BY DEF AuditInv
  <2>1. \A b \in DOMAIN chain : chain[b] \in Events
    BY DEF AuditTyped, ChainTyped
  <2>2. Tables
    BY DEF AuditTyped, TablesTyped, FilesTyped, Contents, Placed, Tables
  <2>3. cursor \in 1 .. Len(chain) + 1 /\ cursor <= indexer.next
    <3>1. cursor \in Nat \ {0} /\ Len(chain) \in Nat
      BY DEF AuditTyped, TablesTyped, ChainTyped
    <3>2. cursor <= Len(chain) + 1 /\ indexer.next = cursor
      BY DEF Placed
    <3>3. QED
      BY <3>1, <3>2
  <2>4. disk \subseteq Signed /\ indexer.loaded \subseteq Signed
    BY DEF AuditTyped, FilesTyped, ProcessTyped, IndexerRecords
  <2>5. \A i \in active : i.election \in Elections /\ i.code \in Codes \cup CustodyCodes
    BY DEF AuditTyped, TablesTyped
  <2>6. QED
    BY <2>1, <2>2, <2>3, <2>4, <2>5 DEF AuditTypeOK, Placed
<1>2. QED
  BY <1>1, AuditInvariant, PTL

(* Between batches, and as long as no node reported an earlier head, the   *)
(* rules' incidents of every election are those of its rows.               *)
LEMMA RaisedAtRest ==
  ASSUME AuditInv, AtRest, used.lags = 0, NEW e \in Elections
  PROVE  UpToDate(e) /\ ReportSound(e) /\ ActiveIncidents(e, RuleCodes) = Rules(e)
BY DEF AuditInv, AtRest, Upright, ReportsSound, Unchecked, ReportSound, RulesRaised

(* The alarm is right: between batches an election whose history starts in *)
(* SETUP has an active incident of the rules exactly if the registry would *)
(* not have emitted one of its events among those the rules look at: the   *)
(* phase changes, the first signups and ballots, and those that repeat one.*)
THEOREM AlarmsAreTruthful == AuditSpec => []AlarmsTruthful
<1>1. AuditInv => AlarmsTruthful
  <2> SUFFICES ASSUME AuditInv, AtRest, used.lags = 0, NEW e \in Elections, FromSetup(e)
               PROVE  (ActiveIncidents(e, RuleCodes) # {}) <=>
                         \E b \in Audited(e) : ~Lawful(b)
    BY DEF AlarmsTruthful, RuleCodes
  <2>1. ActiveIncidents(e, RuleCodes) = Rules(e)
    BY RaisedAtRest
  <2>2. /\ AuditTyped /\ Placed /\ phaseOf[e] = PhaseOfRows(e)
        /\ \A b \in Stored : 1 .. b \subseteq Stored
    BY DEF AuditInv, Forward, Upright
  <2>3. QED
    BY <2>1, <2>2, RulesFindUnlawful
<1>2. QED
  BY <1>1, AuditInvariant, PTL

(* Between batches the latest report of an election is about its rows, and *)
(* says of them what the active incidents say.                             *)
THEOREM ReportsAreCurrent == AuditSpec => []ReportsCurrent
<1>1. AuditInv => ReportsCurrent
  <2> SUFFICES ASSUME AuditInv, AtRest, used.lags = 0, NEW e \in Elections
               PROVE  /\ reports[e] # << >> /\ LatestReport(e).version = DataVersion(e)
                      /\ LatestReport(e).ok <=> ~Critical(ActiveIncidents(e, Codes))
    BY DEF ReportsCurrent, LatestReport
  <2>1. UpToDate(e) /\ ReportSound(e) /\ ActiveIncidents(e, RuleCodes) = Rules(e)
    BY RaisedAtRest
  <2>2. reports[e] # << >> /\ LatestReport(e).version = DataVersion(e)
    BY <2>1 DEF UpToDate, LatestReport
  <2>3. LatestReport(e).ok <=> ~Critical(Rules(e))
    BY <2>1 DEF ReportSound
  <2>4. Critical(ActiveIncidents(e, Codes)) <=> Critical(ActiveIncidents(e, RuleCodes))
    BY DEF Critical, ActiveIncidents, RuleCodes, Warnings
  <2>5. QED
    BY <2>1, <2>2, <2>3, <2>4
<1>2. QED
  BY <1>1, AuditInvariant, PTL

(* Between batches what custody must raise is raised, and what else is     *)
(* raised is that the board's content was missing; the statuses tell right *)
(* from wrong: of every election until the process ends, and then of those *)
(* it has looked at since.                                                 *)
THEOREM CustodyIsTruthful == AuditSpec => []CustodyTruthful
<1>1. AuditInv => CustodyTruthful
  BY DEF AuditInv, CustodyTruthful, AtRest, CustodySound, AwaitingCustody, Renewing
<1>2. QED
  BY <1>1, AuditInvariant, PTL

-----------------------------------------------------------------------------
(* The parts side by side.                                                 *)

(* A step of the part that runs is a step of that part, and none of the    *)
(* others, so each part keeps its specification and its theorems.          *)
THEOREM OffChainKeepsItsParts ==
  OffChainSpec => DeskSpec /\ AuditSpec /\ CatalogueSpec /\ RollSpec
<1>1. OffChainInit => DeskInit /\ AuditInit /\ CatalogueInit /\ RollInit
  BY DEF OffChainInit
<1>2. [OffChainNext]_offChainVars =>
        /\ [DeskNext]_deskVars /\ [AuditNext]_auditVars
        /\ [CatalogueNext]_catalogueVars /\ [RollNext]_rollVars
  BY DEF OffChainNext, offChainVars, RollNext
<1>. QED BY <1>1, <1>2, PTL DEF OffChainSpec, DeskSpec, AuditSpec, CatalogueSpec, RollSpec

(* Whichever part runs, its tables and its processes hold what they should.*)
THEOREM OffChainIsTyped == OffChainSpec => []OffChainTypeOK
<1>1. DeskTypeOK /\ AuditTypeOK /\ CatalogueTypeOK /\ RollTypeOK => OffChainTypeOK
  BY DEF OffChainTypeOK
<1>. QED
  BY <1>1, OffChainKeepsItsParts, DeskIsTyped, AuditIsTyped, CatalogueIsTyped, RollIsTyped, PTL
=============================================================================
