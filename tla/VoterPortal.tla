----------------------------- MODULE VoterPortal -----------------------------
(***************************************************************************)
(* The guided vote of the voter portal, one tab at a time: a tab asks for  *)
(* a permit, draws a voting key, posts the signup to the relayer, waits    *)
(* for the chain and the index to show it, offers the candidates, posts    *)
(* the ballot and waits again, until it shows a receipt.  The private key  *)
(* lives in the memory of the page and is lost on a reload; a flight is    *)
(* given up after two minutes; and the polls of a flight given up may      *)
(* still answer.  The evidence API appears only as the permits it sends,   *)
(* the relayer and the registry as what the portal sees of them: a         *)
(* submission is mined if the contract takes it, and reported.             *)
(*                                                                         *)
(* A permit is named by its nullifier.  The tab sends the address of its   *)
(* new key along when it asks for one; the registry wants it in the digest *)
(* of the permit, and the API of this repository leaves it out, so that    *)
(* none of its permits is in Covered.  The key of a tab is the tab and     *)
(* the number of the attempt that drew it; a ballot is its key and the     *)
(* number of the attempt that made it.                                     *)
(***************************************************************************)
EXTENDS Naturals, Sequences

CONSTANTS
    Tabs,          \* the browser tabs of one voter
    Nullifiers,    \* of the permits the evidence API may send that voter
    Covered,       \* those whose permit covers the tab's voting address as well
    MaxTries,      \* bound: keys a tab draws, and ballots it makes with one
    MaxFaults,     \* bound: answers lost and wrong failure reports
    MaxBreaks      \* bound: page reloads

ASSUME PortalAssumption ==
    /\ {MaxTries, MaxFaults, MaxBreaks} \subseteq Nat
    /\ Nullifiers # {} /\ Covered \subseteq Nullifiers

VARIABLES
    tab,       \* the state of each tab, as the page shows and keeps it
    tries,     \* per tab, the keys drawn, and the ballots made with the last
    flights,   \* per tab, the submissions whose polls may still answer
    subs,      \* the relayer's submissions, with what became of them
    phase,     \* of the election on the chain
    spent      \* of the bounds, how much is used

portalVars == <<tab, tries, flights, subs, phase, spent>>

WizardSteps == {"SETUP", "SIGNUP_FLIGHT", "VOTING", "BALLOT_FLIGHT", "RECEIPT"}
Phases == {"REGISTRY_OPEN", "VOTING_OPEN", "VOTING_CLOSED"}

\* A tab as it mounts with nothing stored.  `busy' is isSubmitting while a permit
\* is asked for, `key' and `ballot' number the attempt they were made in, `sub'
\* is the submission it waits for, `advised' says that it was told to register
\* again, and `route' that the election was found valid.
FreshTab == [step |-> "SETUP", busy |-> FALSE, key |-> 0, priv |-> FALSE,
             ballot |-> 0, sub |-> 0, route |-> TRUE, advised |-> FALSE]

PortalInit ==
    /\ tab = [t \in Tabs |-> FreshTab]
    /\ tries = [t \in Tabs |-> [keys |-> 0, ballots |-> 0]]
    /\ flights = [t \in Tabs |-> {}]
    /\ subs = << >>
    /\ phase = "REGISTRY_OPEN"
    /\ spent = [faults |-> 0, breaks |-> 0]

Spend(what, max) ==
    /\ spent[what] < max
    /\ spent' = [spent EXCEPT ![what] = @ + 1]

-----------------------------------------------------------------------------
(* The chain and the relayer, as the portal meets them.                    *)

Mined == {i \in DOMAIN subs : subs[i].mined}
Signups == {i \in Mined : subs[i].kind = "SIGNUP"}
Ballots == {i \in Mined : subs[i].kind = "BALLOT"}

\* signup: registry open, a permit over the voting address, neither the nullifier
\* nor the key used before.
\* castBallot: voting open, the key enrolled and without a ballot.
Acceptable(s) ==
    \/ /\ s.kind = "SIGNUP" /\ phase = "REGISTRY_OPEN" /\ s.nullifier \in Covered
       /\ \A i \in Signups : subs[i].nullifier # s.nullifier /\ subs[i].key # s.key
    \/ /\ s.kind = "BALLOT" /\ phase = "VOTING_OPEN"
       /\ \E i \in Signups : subs[i].key = s.key
       /\ \A i \in Ballots : subs[i].key # s.key

Mine(i) ==
    /\ ~subs[i].mined /\ Acceptable(subs[i])
    /\ subs' = [subs EXCEPT ![i].mined = TRUE]
    /\ UNCHANGED <<tab, tries, flights, phase, spent>>

\* The submission is reported as a success, and the indexer has its event: the
\* portal waits for both.
Confirm(i) ==
    /\ subs[i].mined /\ subs[i].status = "PENDING"
    /\ subs' = [subs EXCEPT ![i].status = "SUCCESS"]
    /\ UNCHANGED <<tab, tries, flights, phase, spent>>

\* The relayer reports a submission the contract refuses, and may also report
\* one that is only late, or that was mined.
ReportFailure(i) ==
    /\ subs[i].status = "PENDING"
    /\ IF ~subs[i].mined /\ ~Acceptable(subs[i]) THEN spent' = spent
       ELSE Spend("faults", MaxFaults)
    /\ subs' = [subs EXCEPT ![i].status = "FAILED"]
    /\ UNCHANGED <<tab, tries, flights, phase>>

AdvancePhase ==
    /\ \/ phase = "REGISTRY_OPEN" /\ phase' = "VOTING_OPEN"
       \/ phase = "VOTING_OPEN" /\ phase' = "VOTING_CLOSED"
    /\ UNCHANGED <<tab, tries, flights, subs, spent>>

-----------------------------------------------------------------------------
(* The tabs of the voter portal.                                           *)

\* What became of a post: the relayer took it and the tab heard so; took it but
\* the answer was lost; or never got it.  Only the first puts the tab in flight.
PostOutcomes == {"TAKEN", "LOST", "REFUSED"}

Post(t, s, r, flight, outcome) ==
    LET new == Len(subs) + 1
    IN  /\ IF outcome = "TAKEN" THEN spent' = spent ELSE Spend("faults", MaxFaults)
        /\ subs' = IF outcome = "REFUSED" THEN subs ELSE Append(subs, s)
        /\ tab' = [tab EXCEPT ![t] =
               IF outcome = "TAKEN" THEN [r EXCEPT !.step = flight, !.sub = new] ELSE r]
        /\ flights' = [flights EXCEPT ![t] =
               IF outcome = "TAKEN" THEN @ \cup {new} ELSE @]

\* What the tab shows changes, and nothing else.
Shows(t, r) ==
    /\ tab' = [tab EXCEPT ![t] = r]
    /\ UNCHANGED <<tries, flights, subs, phase, spent>>

\* handleSignup: the tab opens a citizen session if it has none and asks for a
\* permit; either call may be refused.
BeginSignup(t) ==
    /\ tab[t].step = "SETUP" /\ ~tab[t].busy /\ tab[t].route
    /\ tries[t].keys < MaxTries
    /\ Shows(t, [tab[t] EXCEPT !.busy = TRUE])

SignupRefused(t) ==
    /\ tab[t].busy
    /\ Shows(t, [tab[t] EXCEPT !.busy = FALSE])

\* The permit arrived: the key pair just drawn replaces the tab's, whatever
\* became of that one and whatever becomes of this post.
PostSignup(t, nullifier, outcome) ==
    LET n == tries[t].keys + 1
        s == [kind |-> "SIGNUP", tab |-> t, nullifier |-> nullifier, key |-> <<t, n>>,
              ballot |-> 0, status |-> "PENDING", mined |-> FALSE]
    IN  /\ tab[t].busy
        /\ Post(t, s, [tab[t] EXCEPT !.busy = FALSE, !.key = n, !.priv = TRUE,
                                     !.advised = FALSE], "SIGNUP_FLIGHT", outcome)
        /\ tries' = [tries EXCEPT ![t] = [keys |-> n, ballots |-> 0]]
        /\ phase' = phase

\* handleBallot: only with the private key; the hash the receipt shows is set
\* before the ballot is posted.
PostBallot(t, outcome) ==
    LET n == tries[t].ballots + 1
        s == [kind |-> "BALLOT", tab |-> t, nullifier |-> CHOOSE x \in Nullifiers : TRUE,
              key |-> <<t, tab[t].key>>, ballot |-> n, status |-> "PENDING", mined |-> FALSE]
    IN  /\ tab[t].step = "VOTING" /\ ~tab[t].busy /\ tab[t].priv /\ tab[t].route
        /\ n <= MaxTries
        /\ Post(t, s, [tab[t] EXCEPT !.ballot = n], "BALLOT_FLIGHT", outcome)
        /\ tries' = [tries EXCEPT ![t].ballots = n]
        /\ phase' = phase

Before(kind) == IF kind = "SIGNUP" THEN "SETUP" ELSE "VOTING"
After(kind) == IF kind = "SIGNUP" THEN "VOTING" ELSE "RECEIPT"

(* Mutant: whatever is not reported as failed counts as done.                   *)
PollAnswersUnfinished(t, i) ==
    /\ i \in flights[t]
    /\ IF subs[i].status # "FAILED"
       THEN Shows(t, [tab[t] EXCEPT !.step = After(subs[i].kind)])
       ELSE Shows(t, [tab[t] EXCEPT !.step = Before(subs[i].kind)])

\* The answer of a poll: the submission succeeded and is indexed, or it failed.
\* Clearing the interval does not recall a poll already sent, so the answer moves
\* the tab even if the flight it belongs to is over.
PollAnswers(t, i) ==
    /\ i \in flights[t]
    /\ \/ /\ subs[i].status = "SUCCESS"
          /\ Shows(t, [tab[t] EXCEPT !.step = After(subs[i].kind)])
       \/ /\ subs[i].status = "FAILED"
          /\ Shows(t, [tab[t] EXCEPT !.step = Before(subs[i].kind)])

(* Mutant: only the wait for a ballot is given up.                              *)
FlightTimesOutBallotOnly(t) ==
    /\ tab[t].step = "BALLOT_FLIGHT"
    /\ Shows(t, [tab[t] EXCEPT !.step = "VOTING"])

\* Two minutes in flight without an answer.
FlightTimesOut(t) ==
    \/ /\ tab[t].step = "SIGNUP_FLIGHT"
       /\ Shows(t, [tab[t] EXCEPT !.step = "SETUP"])
    \/ /\ tab[t].step = "BALLOT_FLIGHT"
       /\ Shows(t, [tab[t] EXCEPT !.step = "VOTING"])

\* What sessionStorage gives back: never the private key, nothing after the
\* receipt, and a tab that would need the key is sent to register again.
Restored(r) ==
    CASE r.step = "RECEIPT" -> FreshTab
      [] r.step \in {"VOTING", "BALLOT_FLIGHT"} -> [FreshTab EXCEPT !.advised = TRUE]
      [] OTHER -> [FreshTab EXCEPT !.step = r.step, !.key = r.key, !.ballot = r.ballot,
                                   !.sub = r.sub]

\* The page is loaded again; if the election cannot be validated the wizard goes
\* back to its first step and its buttons refuse until the next load.
Reload(t, valid) ==
    LET r == Restored(tab[t])
        mounted == IF valid THEN r ELSE [r EXCEPT !.step = "SETUP", !.sub = 0,
                                                  !.route = FALSE]
    IN  /\ Spend("breaks", MaxBreaks)
        /\ tab' = [tab EXCEPT ![t] = mounted]
        /\ flights' = [flights EXCEPT ![t] =
               IF mounted.step = "SIGNUP_FLIGHT" /\ mounted.sub # 0
               THEN {mounted.sub} ELSE {}]
        /\ UNCHANGED <<tries, subs, phase>>

TabStep(t) ==
    \/ BeginSignup(t) \/ SignupRefused(t)
    \/ \E o \in PostOutcomes : \/ \E x \in Nullifiers : PostSignup(t, x, o)
                               \/ PostBallot(t, o)
    \/ \E i \in DOMAIN subs : PollAnswers(t, i)
    \/ FlightTimesOut(t)
    \/ \E valid \in BOOLEAN : Reload(t, valid)

ChainStep ==
    \/ \E i \in DOMAIN subs : Mine(i) \/ Confirm(i) \/ ReportFailure(i)
    \/ AdvancePhase

PortalNext == (\E t \in Tabs : TabStep(t)) \/ ChainStep

PortalSpec == PortalInit /\ [][PortalNext]_portalVars

\* What the page itself brings about: the calls of handleSignup end, one way or
\* another, and the timer of a flight fires.
PortalFairness ==
    \A t \in Tabs :
        /\ WF_portalVars(\/ SignupRefused(t)
                         \/ \E x \in Nullifiers, o \in PostOutcomes : PostSignup(t, x, o))
        /\ WF_portalVars(FlightTimesOut(t))

FairPortalSpec == PortalSpec /\ PortalFairness

-----------------------------------------------------------------------------
(* What a tab shows and waits for, and what the relayer holds.                 *)
PortalTypeOK ==
    /\ tab \in [Tabs -> [step : WizardSteps, busy : BOOLEAN, key : 0..MaxTries,
                         priv : BOOLEAN, ballot : 0..MaxTries, sub : Nat,
                         route : BOOLEAN, advised : BOOLEAN]]
    /\ \A t \in Tabs : /\ tab[t].sub \in 0..Len(subs)
                       /\ flights[t] \subseteq DOMAIN subs
                       /\ tab[t].priv => tab[t].key = tries[t].keys
                       /\ tab[t].step \in {"SIGNUP_FLIGHT", "BALLOT_FLIGHT"} =>
                              tab[t].sub \in flights[t]
    /\ tries \in [Tabs -> [keys : 0..MaxTries, ballots : 0..MaxTries]]
    /\ phase \in Phases

(* The wizard tells the truth about the chain even when a poll of a flight     *)
(* already given up answers late: a tab that offers the candidates has a       *)
(* signup of its own on the chain, and one that shows a receipt has a ballot.  *)
JourneyTruthful ==
    \A t \in Tabs :
        /\ tab[t].step \in {"VOTING", "BALLOT_FLIGHT"} =>
               \E i \in Signups : subs[i].tab = t
        /\ tab[t].step = "RECEIPT" => \E i \in Ballots : subs[i].tab = t

InFlight(t) == tab[t].step \in {"SIGNUP_FLIGHT", "BALLOT_FLIGHT"}

(* No tab waits forever: one that asks for a permit or is in flight comes back *)
(* to buttons or to a receipt, although the relayer loses its submission, the  *)
(* answer never comes, the poll of another flight moves the step, or the page  *)
(* is loaded again in the middle of the wait (the two minutes of a flight are  *)
(* there so that nobody is "trapped in a spinner forever").                    *)
TabsComeToRest ==
    \A t \in Tabs : (tab[t].busy \/ InFlight(t)) ~> (~tab[t].busy /\ ~InFlight(t))

(* "Debes volver a registrarte para emitir tu voto", says the page of a tab    *)
(* that lost its key: so the voter it says it to must be able to register, and *)
(* the nullifier a new permit would carry cannot have been used.               *)
AdviceCanBeFollowed ==
    \A t \in Tabs : tab[t].advised =>
        \E x \in Nullifiers : \A i \in Signups : subs[i].nullifier # x

=============================================================================
