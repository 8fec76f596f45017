---------------------------- MODULE EnrolmentDesk ----------------------------
(***************************************************************************)
(* How a citizen gets from the census to a signup permit.  The identity    *)
(* tables (hn_voter_registry, hn_wallet_links, hn_voter_authorizations,    *)
(* rea_signup_permits, hn_citizen_sessions) are written by the clerks of   *)
(* the authority console and by the evidence API, each of them one query   *)
(* at a time and without a transaction, so that every query below is a     *)
(* step.  A handler of the API goes on when its client has left, so calls  *)
(* are processes of their own, not parts of a browser tab.                 *)
(*                                                                         *)
(* A nullifier is the hash of a credential secret and the election, and    *)
(* the secret stands for it.  Wallets and secrets are numbered in the      *)
(* order in which they are drawn.                                          *)
(***************************************************************************)
EXTENDS Naturals, FiniteSets, SequencesExt

CONSTANTS
    Voters,        \* the citizens (dni)
    Calls,         \* clients of the evidence API, each with one call at a time
    Owner,         \* the citizen who calls
    Clerks,        \* console sessions that authorise voters
    MaxSecrets,    \* bound: wallets and credential secrets drawn
    MaxEdits,      \* bound: actions of the clerks
    MaxRequests    \* bound: enrolment requests of a citizen

ASSUME DeskAssumption ==
    /\ Voters # {}
    /\ Owner \in [Calls -> Voters]
    /\ {MaxSecrets, MaxEdits, MaxRequests} \subseteq Nat

VARIABLES
    census,    \* hn_voter_registry: per voter, the status and the access code
    links,     \* hn_wallet_links: per voter, the rows, last updated first
    authz,     \* hn_voter_authorizations: the wallet of the AUTHORIZED row
    requests,  \* hn_enrollment_requests: per voter, their statuses, newest last
    permits,   \* rea_signup_permits: the nullifiers a permit was signed for
    drawn,     \* how many secrets have been drawn
    clerk,     \* what each clerk's authorizeVoterAction is doing
    call,      \* what each call is doing, and the session of its client
    received,  \* per voter, the nullifiers of the permits it has received
    enrolled,  \* per voter, the nullifiers its signups used up on the chain
    edited,    \* history: voters whose links were edited by hand
    edits      \* how many actions the clerks have taken

tables == <<census, links, authz, requests, permits, drawn>>
deskVars == <<tables, clerk, call, received, enrolled, edited, edits>>

NoSecret == 0
NoWallet == 0
NoLink == [wallet |-> NoWallet, active |-> FALSE, secret |-> NoSecret]
NoRecord == [status |-> "NONE", code |-> FALSE]
CensusStatuses == {"NONE", "HABILITADO", "INHABILITADO"}
RequestStatuses == {"PENDING_REVIEW", "APPROVED", "REJECTED", "CANCELLED"}
CallSteps == {"IDLE", "OPEN", "READ", "ENSURE", "SEED", "INSERT", "RELIST",
              "PERMIT", "REQUEST"}
ClerkSteps == {"IDLE", "LIST", "INSERT", "RELIST", "AUTHORIZE", "REVOKE"}

Secrets == 1..MaxSecrets
LinkRows == [wallet : 0..MaxSecrets, active : BOOLEAN, secret : 0..MaxSecrets]

IdleCall == [at |-> "IDLE", session |-> "NONE", seen |-> {}, eligible |-> FALSE,
             wallet |-> NoWallet, chosen |-> NoLink, hardened |-> NoLink]
IdleClerk == [at |-> "IDLE", voter |-> CHOOSE v \in Voters : TRUE, wallet |-> NoWallet]

DeskInit ==
    /\ census \in [Voters -> {NoRecord, [status |-> "HABILITADO", code |-> TRUE]}]
    /\ links = [v \in Voters |-> << >>]
    /\ authz = [v \in Voters |-> NoWallet]
    /\ requests = [v \in Voters |-> << >>]
    /\ permits = {}
    /\ drawn = 0
    /\ clerk = [k \in Clerks |-> IdleClerk]
    /\ call = [c \in Calls |-> IdleCall]
    /\ received = [v \in Voters |-> {}]
    /\ enrolled = [v \in Voters |-> {}]
    /\ edited = {}
    /\ edits = 0

Edit == edits < MaxEdits /\ edits' = edits + 1

-----------------------------------------------------------------------------
(* The tables.                                                             *)

\* The first of some of the rows; the list is ordered by updated_at, newest first.
FirstOf(rows, some) ==
    IF some = {} THEN NoLink ELSE rows[CHOOSE i \in some : \A j \in some : i <= j]

\* The row getActiveWalletLink and ensureSystemManagedWalletLink take: the
\* first ACTIVE one of the list.
FirstActive(rows) == FirstOf(rows, {i \in DOMAIN rows : rows[i].active})

\* The active row of one wallet, if there is one.
ActiveOf(rows, wallet) ==
    FirstOf(rows, {i \in DOMAIN rows : rows[i].active /\ rows[i].wallet = wallet})

\* The place of a wallet's one row.
PlaceOf(rows, wallet) == {i \in DOMAIN rows : rows[i].wallet = wallet}

\* INSERT ... ON CONFLICT (dni, wallet_address) DO UPDATE: one row a wallet, and
\* the row just written is the newest.
Upserted(rows, row) ==
    LET old == PlaceOf(rows, row.wallet)
    IN  <<row>> \o IF old = {} THEN rows ELSE RemoveAt(rows, CHOOSE i \in old : TRUE)

\* A wallet created by the system comes with a credential secret; both are drawn.
ManagedRow(n) == [wallet |-> n, active |-> TRUE, secret |-> n]

\* UPDATE ... SET evidence_json: the row of the wallet gets the secret and is the
\* newest; its status is not written.
Seeded(rows, wallet, secret) ==
    LET row == rows[CHOOSE i \in PlaceOf(rows, wallet) : TRUE]
    IN  Upserted(rows, [row EXCEPT !.secret = secret])

-----------------------------------------------------------------------------
(* The clerks.                                                             *)

\* upsertCensusRecordAction, bulkImportCensusAction and
\* createCensusFromEnrollmentRequestAction: the record is replaced, its metadata
\* included, so a record saved without an access code loses the one it had.
ClerkSavesRecord(k, v, status, code) ==
    /\ clerk[k].at = "IDLE"
    /\ Edit
    /\ census' = [census EXCEPT ![v] = [status |-> status, code |-> code]]
    /\ clerk' = IF code THEN [clerk EXCEPT ![k] = [@ EXCEPT !.at = "REVOKE", !.voter = v]]
                ELSE clerk
    /\ UNCHANGED <<links, authz, requests, permits, drawn, call, received, enrolled, edited>>

\* A new access code is followed by the end of the sessions opened so far.
ClerkRevokesSessions(k) ==
    /\ clerk[k].at = "REVOKE"
    /\ call' = [c \in Calls |->
           IF Owner[c] = clerk[k].voter /\ call[c].session = "ACTIVE"
           THEN [call[c] EXCEPT !.session = "REVOKED"] ELSE call[c]]
    /\ clerk' = [clerk EXCEPT ![k] = IdleClerk]
    /\ UNCHANGED <<tables, received, enrolled, edited, edits>>

\* reviewEnrollmentRequestAction: whatever its status was; nothing else in the
\* system reads a request's status to decide.
ReviewRequest(v, i, decision) ==
    /\ i \in DOMAIN requests[v] /\ requests[v][i] # decision
    /\ Edit
    /\ requests' = [requests EXCEPT ![v][i] = decision]
    /\ UNCHANGED <<census, links, authz, permits, drawn, clerk, call, received, enrolled, edited>>

\* upsertWalletLinkAction: a clerk sets the status of a wallet's link, known or
\* new, and replaces its evidence, so that the row is left without a secret.
EditLink(v, wallet, active) ==
    /\ census[v].status # "NONE"
    /\ \/ \E i \in DOMAIN links[v] : links[v][i].wallet = wallet
       \/ wallet = drawn + 1
    /\ Edit
    /\ drawn' = IF wallet > drawn THEN wallet ELSE drawn
    /\ links' = [links EXCEPT ![v] = Upserted(@, [wallet |-> wallet, active |-> active,
                                                  secret |-> NoSecret])]
    /\ edited' = edited \cup {v}
    /\ UNCHANGED <<census, authz, requests, permits, clerk, call, received, enrolled>>

\* authorizeVoterAction, query by query.  The voter must be HABILITADO.
ClerkBegins(k, v) ==
    /\ clerk[k].at = "IDLE"
    /\ census[v].status = "HABILITADO"
    /\ Edit
    /\ clerk' = [clerk EXCEPT ![k] = [@ EXCEPT !.at = "LIST", !.voter = v]]
    /\ UNCHANGED <<tables, call, received, enrolled, edited>>

\* ensureSystemManagedWalletLink: the active link, or a new managed wallet.
ClerkLists(k) ==
    LET found == FirstActive(links[clerk[k].voter])
    IN  /\ clerk[k].at = "LIST"
        /\ clerk' = [clerk EXCEPT ![k] =
               IF found = NoLink THEN [@ EXCEPT !.at = "INSERT"]
               ELSE [@ EXCEPT !.at = "AUTHORIZE", !.wallet = found.wallet]]
        /\ UNCHANGED <<tables, call, received, enrolled, edited, edits>>

ClerkInserts(k) ==
    LET v == clerk[k].voter
    IN  /\ clerk[k].at = "INSERT"
        /\ drawn < MaxSecrets
        /\ drawn' = drawn + 1
        /\ links' = [links EXCEPT ![v] = Upserted(@, ManagedRow(drawn + 1))]
        /\ clerk' = [clerk EXCEPT ![k].at = "RELIST"]
        /\ UNCHANGED <<census, authz, requests, permits, call, received, enrolled, edited, edits>>

\* The table is listed again, and the first active link is the one authorised;
\* there may be none left by now, and the action fails.
ClerkRelists(k) ==
    LET found == FirstActive(links[clerk[k].voter])
    IN  /\ clerk[k].at = "RELIST"
        /\ clerk' = [clerk EXCEPT ![k] =
               IF found = NoLink THEN IdleClerk
               ELSE [@ EXCEPT !.at = "AUTHORIZE", !.wallet = found.wallet]]
        /\ UNCHANGED <<tables, call, received, enrolled, edited, edits>>

\* createHondurasVoterAuthorization: one AUTHORIZED row per voter and election;
\* a second authorisation replaces its wallet.
ClerkAuthorizes(k) ==
    /\ clerk[k].at = "AUTHORIZE"
    /\ authz' = [authz EXCEPT ![clerk[k].voter] = clerk[k].wallet]
    /\ clerk' = [clerk EXCEPT ![k] = IdleClerk]
    /\ UNCHANGED <<census, links, requests, permits, drawn, call, received, enrolled, edited, edits>>

ClerkStep ==
    \E k \in Clerks, v \in Voters :
        \/ \E s \in CensusStatuses \ {"NONE"}, code \in BOOLEAN : ClerkSavesRecord(k, v, s, code)
        \/ ClerkRevokesSessions(k)
        \/ ClerkBegins(k, v) \/ ClerkLists(k) \/ ClerkInserts(k)
        \/ ClerkRelists(k) \/ ClerkAuthorizes(k)
        \/ \E w \in Secrets, active \in BOOLEAN : EditLink(v, w, active)
        \/ \E i \in DOMAIN requests[v], d \in RequestStatuses \ {"PENDING_REVIEW"} :
               ReviewRequest(v, i, d)

-----------------------------------------------------------------------------
(* The evidence API.                                                       *)

LinksOf(c) == links[Owner[c]]

\* A call ends, and what it had read is gone; its client keeps the session.
Ended(r) == [IdleCall EXCEPT !.session = r.session]

\* The call moves on, and no table changes.
CallMoves(c, r) ==
    /\ call' = [call EXCEPT ![c] = r]
    /\ UNCHANGED <<tables, clerk, received, enrolled, edited, edits>>

\* POST /v1/hn/auth/session: the access code must be configured and right, and
\* the session is inserted after that has been checked.
CheckAccessCode(c) ==
    /\ call[c].at = "IDLE" /\ call[c].session = "NONE"
    /\ census[Owner[c]].code
    /\ CallMoves(c, [call[c] EXCEPT !.at = "OPEN"])

OpenSession(c) ==
    /\ call[c].at = "OPEN"
    /\ CallMoves(c, [call[c] EXCEPT !.at = "IDLE", !.session = "ACTIVE"])

\* A session runs out, revoked or not, and the client drops it.
SessionExpires(c) ==
    /\ call[c].at = "IDLE" /\ call[c].session # "NONE"
    /\ CallMoves(c, [call[c] EXCEPT !.session = "NONE"])

\* The two endpoints that take an enrolment request look for a pending one, and
\* insert a new one if there is none.
FindPending(c) ==
    /\ call[c].at = "IDLE"
    /\ \A i \in DOMAIN requests[Owner[c]] : requests[Owner[c]][i] # "PENDING_REVIEW"
    /\ Len(requests[Owner[c]]) < MaxRequests
    /\ CallMoves(c, [call[c] EXCEPT !.at = "REQUEST"])

InsertRequest(c) ==
    /\ call[c].at = "REQUEST"
    /\ requests' = [requests EXCEPT ![Owner[c]] = Append(@, "PENDING_REVIEW")]
    /\ call' = [call EXCEPT ![c] = Ended(@)]
    /\ UNCHANGED <<census, links, authz, permits, drawn, clerk, received, enrolled, edited, edits>>

\* POST prepare-signup: requireCitizenSession wants a session that is active.
PrepareSignup(c) ==
    /\ call[c].at = "IDLE" /\ call[c].session = "ACTIVE"
    /\ CallMoves(c, [call[c] EXCEPT !.at = "READ"])

\* The census and the authorisations are read together, in no order.
ReadCensus(c) ==
    /\ call[c].at = "READ" /\ "census" \notin call[c].seen
    /\ CallMoves(c, [call[c] EXCEPT !.seen = @ \cup {"census"},
                         !.eligible = census[Owner[c]].status = "HABILITADO"])

ReadAuthorizations(c) ==
    /\ call[c].at = "READ" /\ "authorizations" \notin call[c].seen
    /\ CallMoves(c, [call[c] EXCEPT !.seen = @ \cup {"authorizations"},
                         !.wallet = authz[Owner[c]]])

(* Mutant: an eligible voter is served without an authorisation.                *)
EntitledAnyWallet(r) == r.eligible

\* Only an eligible voter with an authorisation gets past this point, and the
\* link chosen is the authorised wallet's, or else any active one.
Entitled(r) == r.eligible /\ r.wallet # NoWallet

ChooseLink(c) ==
    LET own == ActiveOf(LinksOf(c), call[c].wallet)
        link == IF own = NoLink THEN FirstActive(LinksOf(c)) ELSE own
    IN  /\ call[c].at = "READ" /\ call[c].seen = {"census", "authorizations"}
        /\ CallMoves(c, IF Entitled(call[c]) /\ link # NoLink
                        THEN [call[c] EXCEPT !.at = "ENSURE", !.chosen = link]
                        ELSE Ended(call[c]))

(* Mutant: every call seeds the link anew, a link with a secret too.            *)
EnsureLinkAlwaysSeeds(c) ==
    LET found == FirstActive(LinksOf(c))
    IN  /\ call[c].at = "ENSURE"
        /\ CallMoves(c, [call[c] EXCEPT !.hardened = found,
                             !.at = IF found = NoLink THEN "INSERT" ELSE "SEED"])

\* ensureManagedWalletLinkForDni lists the links again: an active link with a
\* secret is taken as it is, one without is to be given a secret, and without
\* any a managed wallet is to be created.
EnsureLink(c) ==
    LET found == FirstActive(LinksOf(c))
    IN  /\ call[c].at = "ENSURE"
        /\ CallMoves(c, [call[c] EXCEPT !.hardened = found,
                             !.at = IF found = NoLink THEN "INSERT"
                                    ELSE IF found.secret = NoSecret THEN "SEED"
                                    ELSE "PERMIT"])

\* The new secret replaces whatever the row holds by now, and the call goes on
\* with the row as it was read.
SeedLink(c) ==
    LET v == Owner[c]
    IN  /\ call[c].at = "SEED" /\ drawn < MaxSecrets
        /\ drawn' = drawn + 1
        /\ links' = [links EXCEPT ![v] = Seeded(@, call[c].hardened.wallet, drawn + 1)]
        /\ call' = [call EXCEPT ![c] = [@ EXCEPT !.at = "PERMIT", !.hardened.secret = drawn + 1]]
        /\ UNCHANGED <<census, authz, requests, permits, clerk, received, enrolled, edited, edits>>

InsertLink(c) ==
    LET v == Owner[c]
    IN  /\ call[c].at = "INSERT" /\ drawn < MaxSecrets
        /\ drawn' = drawn + 1
        /\ links' = [links EXCEPT ![v] = Upserted(@, ManagedRow(drawn + 1))]
        /\ call' = [call EXCEPT ![c].at = "RELIST"]
        /\ UNCHANGED <<census, authz, requests, permits, clerk, received, enrolled, edited, edits>>

RelistLinks(c) ==
    LET found == FirstActive(LinksOf(c))
    IN  /\ call[c].at = "RELIST"
        /\ CallMoves(c, IF found = NoLink THEN Ended(call[c])
                        ELSE [call[c] EXCEPT !.at = "PERMIT", !.hardened = found])

\* The permit is for the hardened link if that is still the wallet chosen, and
\* for the chosen link, as first read, if not.
PermitLink(r) == IF r.hardened.wallet = r.chosen.wallet THEN r.hardened ELSE r.chosen

\* issueAuthorizedSignupPermit: no secret, no permit; the permit row of a
\* nullifier is inserted or replaced, and the answer may be lost.
IssuePermit(c, heard) ==
    LET secret == PermitLink(call[c]).secret
        v == Owner[c]
    IN  /\ call[c].at = "PERMIT" /\ secret # NoSecret
        /\ permits' = permits \cup {secret}
        /\ received' = IF heard THEN [received EXCEPT ![v] = @ \cup {secret}] ELSE received
        /\ call' = [call EXCEPT ![c] = Ended(@)]
        /\ UNCHANGED <<census, links, authz, requests, drawn, clerk, enrolled, edited, edits>>

RefusePermit(c) ==
    /\ call[c].at = "PERMIT" /\ PermitLink(call[c]).secret = NoSecret
    /\ CallMoves(c, Ended(call[c]))

CallStep ==
    \E c \in Calls :
        \/ CheckAccessCode(c) \/ OpenSession(c) \/ SessionExpires(c)
        \/ FindPending(c) \/ InsertRequest(c)
        \/ PrepareSignup(c) \/ ReadCensus(c) \/ ReadAuthorizations(c) \/ ChooseLink(c)
        \/ EnsureLink(c) \/ SeedLink(c) \/ InsertLink(c) \/ RelistLinks(c)
        \/ \E heard \in BOOLEAN : IssuePermit(c, heard)
        \/ RefusePermit(c)

\* A voter's signup with a permit it received is mined.  Of the registry's checks
\* only the single use of a nullifier is kept: the phase, the key and the digest of
\* the permit, which covers a voting address that the API here does not sign, are
\* left out, so that more may be enrolled here than the registry lets in.
SignupMined(v, secret) ==
    /\ secret \in received[v]
    /\ \A u \in Voters : secret \notin enrolled[u]
    /\ enrolled' = [enrolled EXCEPT ![v] = @ \cup {secret}]
    /\ UNCHANGED <<tables, clerk, call, received, edited, edits>>

DeskNext ==
    \/ ClerkStep
    \/ CallStep
    \/ \E v \in Voters, secret \in Secrets : SignupMined(v, secret)

DeskSpec == DeskInit /\ [][DeskNext]_deskVars

-----------------------------------------------------------------------------
(* What the tables and the processes hold.                                 *)
DeskTypeOK ==
    /\ census \in [Voters -> [status : CensusStatuses, code : BOOLEAN]]
    /\ links \in [Voters -> Seq(LinkRows)]
    /\ authz \in [Voters -> 0..MaxSecrets]
    /\ requests \in [Voters -> Seq(RequestStatuses)]
    /\ permits \in SUBSET Secrets
    /\ drawn \in 0..MaxSecrets
    /\ clerk \in [Clerks -> [at : ClerkSteps, voter : Voters, wallet : 0..MaxSecrets]]
    /\ call \in [Calls -> [at : CallSteps, session : {"NONE", "ACTIVE", "REVOKED"},
                           seen : SUBSET {"census", "authorizations"}, eligible : BOOLEAN,
                           wallet : 0..MaxSecrets, chosen : LinkRows, hardened : LinkRows]]
    /\ received \in [Voters -> SUBSET Secrets]
    /\ enrolled \in [Voters -> SUBSET Secrets]
    /\ edited \in SUBSET Voters
    /\ edits \in 0..MaxEdits

(* A voter whose wallet links no clerk edited by hand, and for whom no two     *)
(* wallets were provisioned at once, is enrolled at most once: however often   *)
(* and from however many clients it asks, whatever answer is lost, every       *)
(* permit it is sent carries the nullifier of the one secret its link holds.   *)
OneEnrolmentPerVoter ==
    \A v \in Voters :
        v \notin edited /\ Len(links[v]) <= 1 => Cardinality(enrolled[v]) <= 1

(* Whoever is enrolled was let in, whatever clerks and other clients changed   *)
(* between the queries of its request: each nullifier on the chain has a       *)
(* permit on record, and its voter holds an authorisation.                     *)
EnrolmentsAuthorized ==
    \A v \in Voters : \A secret \in enrolled[v] :
        /\ secret \in permits
        /\ authz[v] # NoWallet

=============================================================================
