-------------------------- MODULE VoterPortalProofs --------------------------
(***************************************************************************)
(* Proofs about VoterPortal, for any number of tabs, permits, attempts,    *)
(* reloads and lost answers: the wizard never says more than the chain.    *)
(***************************************************************************)
EXTENDS VoterPortal, TLAPS

Tab == [step : WizardSteps, busy : BOOLEAN, key : 0..MaxTries, priv : BOOLEAN,
        ballot : 0..MaxTries, sub : Nat, route : BOOLEAN, advised : BOOLEAN]
Sub == [kind : {"SIGNUP", "BALLOT"}, tab : Tabs, nullifier : Nullifiers,
        key : Tabs \X Nat, ballot : Nat, status : {"PENDING", "SUCCESS", "FAILED"},
        mined : BOOLEAN]

\* What the variables hold, as far as the proofs need it.
PagesOK ==
    /\ tab \in [Tabs -> Tab]
    /\ tries \in [Tabs -> [keys : 0..MaxTries, ballots : 0..MaxTries]]
    /\ flights \in [Tabs -> SUBSET Nat]
    /\ subs \in Seq(Sub)
    /\ phase \in Phases

\* A submission of the tab t, and an enrolment or a ballot of it on the chain.
OwnSub(t, i, held) == i \in DOMAIN held /\ held[i].tab = t
OnChain(t, kind, held) ==
    \E i \in DOMAIN held : held[i].mined /\ held[i].kind = kind /\ held[i].tab = t

\* A success is mined, and a ballot is posted by a tab that was enrolled.
HeldTrue(held) ==
    \A i \in DOMAIN held :
        /\ held[i].status = "SUCCESS" => held[i].mined
        /\ held[i].kind = "BALLOT" => OnChain(held[i].tab, "SIGNUP", held)

\* What one tab keeps, polls and shows, beside the submissions the relayer holds.
TabTrue(t, r, tr, fl, held) ==
    /\ r.sub # 0 => OwnSub(t, r.sub, held)
    /\ \A i \in fl : OwnSub(t, i, held)
    /\ r.priv => r.key = tr.keys
    /\ r.busy => tr.keys < MaxTries
    /\ r.step \in {"SIGNUP_FLIGHT", "BALLOT_FLIGHT"} => r.sub \in fl
    /\ r.step \in {"VOTING", "BALLOT_FLIGHT"} => OnChain(t, "SIGNUP", held)
    /\ r.step = "RECEIPT" => OnChain(t, "BALLOT", held)

PortalInv ==
    /\ PagesOK
    /\ HeldTrue(subs)
    /\ \A t \in Tabs : TabTrue(t, tab[t], tries[t], flights[t], subs)

-----------------------------------------------------------------------------
\* The relayer loses no submission, turns none into another, and unmines none.
HeldMore(held, later) ==
    \A i \in DOMAIN held :
        /\ i \in DOMAIN later
        /\ later[i].kind = held[i].kind /\ later[i].tab = held[i].tab
        /\ held[i].mined => later[i].mined

(* What a tab shows stays true as the relayer holds and mines more.        *)
LEMMA TabStaysTrue ==
  ASSUME NEW held, NEW later, HeldMore(held, later),
         NEW t, NEW r, NEW tr, NEW fl, TabTrue(t, r, tr, fl, held)
  PROVE  TabTrue(t, r, tr, fl, later)
<1>1. \A i : OwnSub(t, i, held) => OwnSub(t, i, later)
  BY DEF OwnSub, HeldMore
<1>2. \A kind : OnChain(t, kind, held) => OnChain(t, kind, later)
  BY DEF OnChain, HeldMore
<1>3. QED
  BY <1>1, <1>2 DEF TabTrue

(* One tab moves, whatever the relayer comes to hold.                      *)
LEMMA OneTabMoves ==
  ASSUME PortalInv, NEW t \in Tabs, NEW r \in Tab,
         NEW tr \in [keys : 0..MaxTries, ballots : 0..MaxTries], NEW fl \in SUBSET Nat,
         tab' = [tab EXCEPT ![t] = r], tries' = [tries EXCEPT ![t] = tr],
         flights' = [flights EXCEPT ![t] = fl],
         subs' \in Seq(Sub), HeldMore(subs, subs'), HeldTrue(subs'), phase' \in Phases,
         TabTrue(t, r, tr, fl, subs')
  PROVE  PortalInv'
<1>1. PagesOK'
  BY DEF PortalInv, PagesOK
<1>2. ASSUME NEW u \in Tabs
      PROVE  TabTrue(u, tab'[u], tries'[u], flights'[u], subs')
  <2>1. CASE u = t
    <3>1. tab'[t] = r /\ tries'[t] = tr /\ flights'[t] = fl
      BY DEF PortalInv, PagesOK
    <3>2. QED
      BY <2>1, <3>1
  <2>2. CASE u # t
    <3>1. tab'[u] = tab[u] /\ tries'[u] = tries[u] /\ flights'[u] = flights[u]
      BY <2>2 DEF PortalInv, PagesOK
    <3>2. PICK held, later : held = subs /\ later = subs'
      OBVIOUS
    <3>3. TabTrue(u, tab[u], tries[u], flights[u], held) /\ HeldMore(held, later)
      BY <3>2 DEF PortalInv
    <3>4. TabTrue(u, tab[u], tries[u], flights[u], later)
      BY <3>3, TabStaysTrue
    <3>5. QED
      BY <3>1, <3>2, <3>4
  <2>3. QED
    BY <2>1, <2>2
<1>3. QED
  BY <1>1, <1>2 DEF PortalInv

(* A tab that only shows something else, truthfully.                       *)
LEMMA ShowsTruthfully ==
  ASSUME PortalInv, NEW t \in Tabs, NEW r \in Tab, Shows(t, r),
         TabTrue(t, r, tries[t], flights[t], subs)
  PROVE  PortalInv'
<1>1. /\ tries = [tries EXCEPT ![t] = tries[t]]
      /\ flights = [flights EXCEPT ![t] = flights[t]]
      /\ tries[t] \in [keys : 0..MaxTries, ballots : 0..MaxTries]
      /\ flights[t] \in SUBSET Nat
      /\ subs \in Seq(Sub) /\ phase \in Phases /\ HeldTrue(subs)
  BY DEF PortalInv, PagesOK
<1>2. HeldMore(subs, subs)
  BY DEF HeldMore
<1>3. /\ tab' = [tab EXCEPT ![t] = r]
      /\ tries' = tries /\ flights' = flights /\ subs' = subs /\ phase' = phase
  BY DEF Shows
<1>4. PICK tr, fl : tr = tries[t] /\ fl = flights[t]
  OBVIOUS
<1>5. QED
  BY <1>1, <1>2, <1>3, <1>4, OneTabMoves

(* The chain and the relayer only add to what a tab may rest on.           *)
LEMMA ChainStepKeeps ==
  ASSUME PortalInv, ChainStep
  PROVE  PortalInv'
<1>1. subs \in Seq(Sub) /\ HeldTrue(subs)
  BY DEF PortalInv, PagesOK
<1>2. ASSUME subs' \in Seq(Sub), HeldMore(subs, subs'), HeldTrue(subs'),
             phase' \in Phases, UNCHANGED <<tab, tries, flights>>
      PROVE  PortalInv'
  <2>1. PagesOK'
    BY <1>2 DEF PortalInv, PagesOK
  <2>2. PICK held, later : held = subs /\ later = subs'
    OBVIOUS
  <2>3. \A t \in Tabs : TabTrue(t, tab[t], tries[t], flights[t], held)
    BY <2>2 DEF PortalInv
  <2>4. \A t \in Tabs : TabTrue(t, tab[t], tries[t], flights[t], later)
    BY <1>2, <2>2, <2>3, TabStaysTrue
  <2>5. QED
    BY <1>2, <2>1, <2>2, <2>4 DEF PortalInv
<1>3. CASE AdvancePhase
  <2>1. HeldMore(subs, subs) /\ phase' \in Phases /\ UNCHANGED <<tab, tries, flights, subs>>
    BY <1>3 DEF AdvancePhase, HeldMore, Phases
  <2>2. QED
    BY <1>1, <1>2, <2>1
<1>4. ASSUME NEW i \in DOMAIN subs, Mine(i) \/ Confirm(i) \/ ReportFailure(i)
      PROVE  PortalInv'
  <2>1. subs[i] \in Sub
    BY <1>1
  <2>2. PICK s \in Sub :
          /\ subs' = [subs EXCEPT ![i] = s]
          /\ s.kind = subs[i].kind /\ s.tab = subs[i].tab
          /\ subs[i].mined => s.mined
          /\ s.status = "SUCCESS" => s.mined
    <3>1. CASE Mine(i)
      <4>1. PICK s : s = [subs[i] EXCEPT !.mined = TRUE]
        OBVIOUS
      <4>2. s \in Sub /\ s.mined /\ s.kind = subs[i].kind /\ s.tab = subs[i].tab
        BY <2>1, <4>1 DEF Sub
      <4>3. subs' = [subs EXCEPT ![i] = s] 
        BY <3>1, <4>1 DEF Mine
      <4>4. QED
        BY <4>2, <4>3
    <3>2. CASE Confirm(i)
      <4>1. PICK s : s = [subs[i] EXCEPT !.status = "SUCCESS"]
        OBVIOUS
      <4>2. s \in Sub /\ s.mined = subs[i].mined /\ s.kind = subs[i].kind
            /\ s.tab = subs[i].tab
        BY <2>1, <4>1 DEF Sub
      <4>3. subs' = [subs EXCEPT ![i] = s] /\ subs[i].mined
        BY <3>2, <4>1 DEF Confirm
      <4>4. QED
        BY <4>2, <4>3
    <3>3. CASE ReportFailure(i)
      <4>1. PICK s : s = [subs[i] EXCEPT !.status = "FAILED"]
        OBVIOUS
      <4>2. s \in Sub /\ s.mined = subs[i].mined /\ s.status = "FAILED"
            /\ s.kind = subs[i].kind /\ s.tab = subs[i].tab
        BY <2>1, <4>1 DEF Sub
      <4>3. subs' = [subs EXCEPT ![i] = s] 
        BY <3>3, <4>1 DEF ReportFailure
      <4>4. QED
        BY <4>2, <4>3
    <3>4. QED
      BY <1>4, <3>1, <3>2, <3>3
  <2>3. /\ subs' \in Seq(Sub) /\ DOMAIN subs' = DOMAIN subs /\ subs'[i] = s
        /\ \A j \in DOMAIN subs : j # i => subs'[j] = subs[j]
    BY <1>1, <2>2
  <2>4. HeldMore(subs, subs')
    BY <2>2, <2>3 DEF HeldMore
  <2>5. HeldTrue(subs')
    <3>1. PICK held, later : held = subs /\ later = subs'
      OBVIOUS
    <3>2. HeldTrue(held) /\ HeldMore(held, later)
      BY <1>1, <2>4, <3>1
    <3>3. \A t, kind : OnChain(t, kind, held) => OnChain(t, kind, later)
      BY <3>2 DEF OnChain, HeldMore
    <3>4. \A j \in DOMAIN later : later[j].status = "SUCCESS" => later[j].mined
      BY <2>2, <2>3, <3>1, <3>2 DEF HeldTrue
    <3>5. \A j \in DOMAIN later :
            later[j].kind = "BALLOT" => OnChain(later[j].tab, "SIGNUP", later)
      BY <2>2, <2>3, <3>1, <3>2, <3>3 DEF HeldTrue
    <3>6. QED
      BY <3>1, <3>4, <3>5 DEF HeldTrue
  <2>6. phase' \in Phases /\ UNCHANGED <<tab, tries, flights>>
    BY <1>4 DEF Mine, Confirm, ReportFailure, PortalInv, PagesOK
  <2>7. QED
    BY <1>2, <2>3, <2>4, <2>5, <2>6
<1>5. QED
  BY <1>3, <1>4 DEF ChainStep

-----------------------------------------------------------------------------
(* One more submission of a tab takes nothing from what was held before.   *)
LEMMA OneMoreHeld ==
  ASSUME NEW held \in Seq(Sub), HeldTrue(held), NEW s \in Sub,
         s.status = "PENDING", s.kind = "BALLOT" => OnChain(s.tab, "SIGNUP", held)
  PROVE  /\ Append(held, s) \in Seq(Sub)
         /\ HeldMore(held, Append(held, s)) /\ HeldTrue(Append(held, s))
         /\ OwnSub(s.tab, Len(held) + 1, Append(held, s))
<1> DEFINE later == Append(held, s)
<1>1. /\ later \in Seq(Sub) /\ DOMAIN later = 1..Len(held) + 1
      /\ DOMAIN held = 1..Len(held) /\ Len(held) \in Nat
      /\ later[Len(held) + 1] = s /\ \A i \in 1..Len(held) : later[i] = held[i]
  OBVIOUS
<1> HIDE DEF later
<1>2. HeldMore(held, later)
  BY <1>1 DEF HeldMore
<1>3. \A t, kind : OnChain(t, kind, held) => OnChain(t, kind, later)
  BY <1>2 DEF OnChain, HeldMore
<1>4. ASSUME NEW i \in DOMAIN later
      PROVE  /\ later[i].status = "SUCCESS" => later[i].mined
             /\ later[i].kind = "BALLOT" => OnChain(later[i].tab, "SIGNUP", later)
  <2>1. CASE i = Len(held) + 1
    BY <1>1, <1>3, <2>1
  <2>2. CASE i \in DOMAIN held
    BY <1>1, <1>3, <2>2 DEF HeldTrue
  <2>3. QED
    BY <1>1, <2>1, <2>2
<1>5. HeldTrue(later)
  BY <1>4 DEF HeldTrue
<1>6. OwnSub(s.tab, Len(held) + 1, later)
  BY <1>1 DEF OwnSub
<1>7. QED
  BY <1>1, <1>2, <1>5, <1>6 DEF later

(* A post, whatever becomes of it, moves a tab no further than its own     *)
(* submission.                                                             *)
LEMMA PostKeeps ==
  ASSUME PortalInv, NEW t \in Tabs, NEW s \in Sub, s.tab = t, s.status = "PENDING",
         s.kind = "BALLOT" => OnChain(t, "SIGNUP", subs),
         NEW r \in Tab, NEW tr \in [keys : 0..MaxTries, ballots : 0..MaxTries],
         tries' = [tries EXCEPT ![t] = tr], phase' = phase,
         NEW flight \in {"SIGNUP_FLIGHT", "BALLOT_FLIGHT"},
         flight = "BALLOT_FLIGHT" => OnChain(t, "SIGNUP", subs),
         NEW outcome, Post(t, s, r, flight, outcome),
         TabTrue(t, r, tr, flights[t], subs)
  PROVE  PortalInv'
<1>1. /\ subs \in Seq(Sub) /\ HeldTrue(subs) /\ phase \in Phases
      /\ flights \in [Tabs -> SUBSET Nat] /\ flights[t] \in SUBSET Nat
      /\ Len(subs) \in Nat
  BY DEF PortalInv, PagesOK
<1>2. /\ Append(subs, s) \in Seq(Sub) /\ HeldMore(subs, Append(subs, s))
      /\ HeldTrue(Append(subs, s)) /\ OwnSub(t, Len(subs) + 1, Append(subs, s))
  BY <1>1, OneMoreHeld
<1>3. HeldMore(subs, subs)
  BY DEF HeldMore
<1>4. /\ subs' \in Seq(Sub) /\ HeldMore(subs, subs') /\ HeldTrue(subs')
      /\ outcome = "TAKEN" => OwnSub(t, Len(subs) + 1, subs')
  <2>1. (subs' = subs /\ outcome # "TAKEN") \/ subs' = Append(subs, s)
    BY DEF Post
  <2>2. QED
    BY <1>1, <1>2, <1>3, <2>1
<1>5. PICK held, later : held = subs /\ later = subs'
  OBVIOUS
<1>6. PICK fl : fl = flights[t]
  OBVIOUS
<1>7. TabTrue(t, r, tr, fl, later)
  BY <1>4, <1>5, <1>6, TabStaysTrue
<1>8. PICK n \in Nat : n = Len(subs) + 1
  BY <1>1
<1>9. CASE outcome = "TAKEN"
  <2>1. PICK r2 : r2 = [r EXCEPT !.step = flight, !.sub = n]
    OBVIOUS
  <2>2. /\ r2 \in Tab /\ r2.step = flight /\ r2.sub = n
        /\ r2.priv = r.priv /\ r2.key = r.key /\ r2.busy = r.busy
    BY <2>1 DEF Tab, WizardSteps
  <2>3. /\ tab' = [tab EXCEPT ![t] = r2]
        /\ flights' = [flights EXCEPT ![t] = fl \cup {n}]
    BY <1>1, <1>6, <1>8, <1>9, <2>1 DEF Post
  <2>4. flight = "BALLOT_FLIGHT" => OnChain(t, "SIGNUP", later)
    BY <1>4, <1>5 DEF OnChain, HeldMore
  <2>5. OwnSub(t, n, later)
    BY <1>4, <1>5, <1>8, <1>9
  <2>6. TabTrue(t, r2, tr, fl \cup {n}, later)
    BY <1>7, <2>2, <2>4, <2>5 DEF TabTrue
  <2>7. fl \cup {n} \in SUBSET Nat
    BY <1>1, <1>6
  <2>8. QED
    BY <1>1, <1>4, <1>5, <2>2, <2>3, <2>6, <2>7, OneTabMoves
<1>10. CASE outcome # "TAKEN"
  <2>1. /\ tab' = [tab EXCEPT ![t] = r]
        /\ flights' = [flights EXCEPT ![t] = fl]
    BY <1>1, <1>6, <1>10 DEF Post
  <2>2. QED
    BY <1>1, <1>4, <1>5, <1>6, <1>7, <2>1, OneTabMoves
<1>11. QED
  BY <1>9, <1>10

(* What a tab is before any step of it.                                    *)
LEMMA TabBefore ==
  ASSUME PortalInv, NEW t \in Tabs
  PROVE  /\ tab[t] \in Tab
         /\ tries[t] \in [keys : 0..MaxTries, ballots : 0..MaxTries]
         /\ flights[t] \in SUBSET Nat
         /\ TabTrue(t, tab[t], tries[t], flights[t], subs)
         /\ subs \in Seq(Sub) /\ HeldTrue(subs)
         /\ FreshTab \in Tab
BY PortalAssumption DEF PortalInv, PagesOK, Tab, FreshTab, WizardSteps

(* Drawing a new key for a signup, or making another ballot with the key.  *)
LEMMA PostsKeep ==
  ASSUME PortalInv, NEW t \in Tabs, NEW outcome,
         PostBallot(t, outcome) \/ \E x \in Nullifiers : PostSignup(t, x, outcome)
  PROVE  PortalInv'
<1>1. /\ tab[t] \in Tab /\ tries \in [Tabs -> [keys : 0..MaxTries, ballots : 0..MaxTries]]
      /\ tries[t] \in [keys : 0..MaxTries, ballots : 0..MaxTries]
      /\ TabTrue(t, tab[t], tries[t], flights[t], subs)
  BY TabBefore DEF PortalInv, PagesOK
<1>2. ASSUME NEW x \in Nullifiers, PostSignup(t, x, outcome)
      PROVE  PortalInv'
  <2>1. PICK n : n = tries[t].keys + 1
    OBVIOUS
  <2>2. n \in 1..MaxTries /\ n \in Nat
    BY <1>1, <1>2, <2>1, PortalAssumption DEF TabTrue, PostSignup
  <2>3. PICK s : s = [kind |-> "SIGNUP", tab |-> t, nullifier |-> x, key |-> <<t, n>>,
                      ballot |-> 0, status |-> "PENDING", mined |-> FALSE]
    OBVIOUS
  <2>4. s \in Sub /\ s.tab = t /\ s.status = "PENDING" /\ s.kind = "SIGNUP"
    BY <2>2, <2>3 DEF Sub
  <2>5. PICK r : r = [tab[t] EXCEPT !.busy = FALSE, !.key = n, !.priv = TRUE,
                                    !.advised = FALSE]
    OBVIOUS
  <2>6. r \in Tab
    <3>1. n \in 0..MaxTries
      BY <2>2, PortalAssumption
    <3>2. PICK q : q = [tab[t] EXCEPT !.busy = FALSE, !.key = n]
      OBVIOUS
    <3>3. q \in Tab
      BY <1>1, <3>1, <3>2 DEF Tab
    <3>4. r = [q EXCEPT !.priv = TRUE, !.advised = FALSE]
      BY <2>5, <3>2
    <3>5. QED
      BY <3>3, <3>4 DEF Tab
  <2>7. r.step = tab[t].step /\ r.sub = tab[t].sub /\ ~r.busy /\ r.key = n
    BY <1>1, <2>5 DEF Tab
  <2>8. PICK tr : tr = [keys |-> n, ballots |-> 0]
    OBVIOUS
  <2>9. tr \in [keys : 0..MaxTries, ballots : 0..MaxTries] /\ tr.keys = n
    BY <2>2, <2>8, PortalAssumption
  <2>10. TabTrue(t, r, tr, flights[t], subs)
    BY <1>1, <2>7, <2>9 DEF TabTrue
  <2>11. /\ Post(t, s, r, "SIGNUP_FLIGHT", outcome)
         /\ tries' = [tries EXCEPT ![t] = tr] /\ phase' = phase
    BY <1>2, <2>1, <2>3, <2>5, <2>8 DEF PostSignup
  <2>12. QED
    BY <2>4, <2>6, <2>9, <2>10, <2>11, PostKeeps
<1>3. ASSUME PostBallot(t, outcome)
      PROVE  PortalInv'
  <2>1. PICK n : n = tries[t].ballots + 1
    OBVIOUS
  <2>2. n \in 1..MaxTries /\ n \in Nat
    BY <1>1, <1>3, <2>1, PortalAssumption DEF PostBallot
  <2>3. PICK s : s = [kind |-> "BALLOT", tab |-> t,
                      nullifier |-> CHOOSE x \in Nullifiers : TRUE,
                      key |-> <<t, tab[t].key>>, ballot |-> n,
                      status |-> "PENDING", mined |-> FALSE]
    OBVIOUS
  <2>4. (CHOOSE x \in Nullifiers : TRUE) \in Nullifiers
    BY PortalAssumption
  <2>5. tab[t].key \in Nat
    BY <1>1, PortalAssumption DEF Tab
  <2>6. s \in Sub /\ s.tab = t /\ s.status = "PENDING"
    BY <2>2, <2>3, <2>4, <2>5 DEF Sub
  <2>7. PICK r : r = [tab[t] EXCEPT !.ballot = n]
    OBVIOUS
  <2>8. r \in Tab /\ r.step = tab[t].step /\ r.sub = tab[t].sub
        /\ r.busy = tab[t].busy /\ r.key = tab[t].key /\ r.priv = tab[t].priv
    BY <1>1, <2>2, <2>7 DEF Tab
  <2>9. PICK tr : tr = [tries[t] EXCEPT !.ballots = n]
    OBVIOUS
  <2>10. tr \in [keys : 0..MaxTries, ballots : 0..MaxTries] /\ tr.keys = tries[t].keys
    BY <1>1, <2>2, <2>9, PortalAssumption
  <2>11. TabTrue(t, r, tr, flights[t], subs)
    BY <1>1, <2>8, <2>10 DEF TabTrue
  <2>12. /\ Post(t, s, r, "BALLOT_FLIGHT", outcome)
         /\ tries' = [tries EXCEPT ![t] = tr] /\ phase' = phase
    BY <1>1, <1>3, <2>1, <2>3, <2>7, <2>9 DEF PostBallot
  <2>13. OnChain(t, "SIGNUP", subs)
    BY <1>1, <1>3 DEF TabTrue, PostBallot
  <2>14. QED
    BY <2>6, <2>8, <2>10, <2>11, <2>12, <2>13, PostKeeps
<1>4. QED
  BY <1>2, <1>3

(* Asking for a permit, being refused one, an answer of a poll, or a       *)
(* flight given up only moves the wizard.                                  *)
LEMMA WizardKeeps ==
  ASSUME PortalInv, NEW t \in Tabs,
         \/ BeginSignup(t) \/ SignupRefused(t) \/ FlightTimesOut(t)
         \/ \E i \in DOMAIN subs : PollAnswers(t, i)
  PROVE  PortalInv'
<1>1. /\ tab[t] \in Tab /\ HeldTrue(subs)
      /\ TabTrue(t, tab[t], tries[t], flights[t], subs)
      /\ tries[t] \in [keys : 0..MaxTries, ballots : 0..MaxTries]
  BY TabBefore
<1>2. ASSUME NEW busy \in BOOLEAN, Shows(t, [tab[t] EXCEPT !.busy = busy]),
             busy => tries[t].keys < MaxTries
      PROVE  PortalInv'
  <2>1. PICK r : r = [tab[t] EXCEPT !.busy = busy]
    OBVIOUS
  <2>2. /\ r \in Tab /\ r.busy = busy /\ r.step = tab[t].step /\ r.sub = tab[t].sub
        /\ r.priv = tab[t].priv /\ r.key = tab[t].key
    BY <1>1, <2>1 DEF Tab
  <2>3. TabTrue(t, r, tries[t], flights[t], subs)
    BY <1>1, <1>2, <2>2 DEF TabTrue
  <2>4. QED
    BY <1>2, <2>1, <2>2, <2>3, ShowsTruthfully
<1>3. ASSUME NEW step \in {"SETUP", "VOTING", "RECEIPT"},
             Shows(t, [tab[t] EXCEPT !.step = step]),
             step = "VOTING" => OnChain(t, "SIGNUP", subs),
             step = "RECEIPT" => OnChain(t, "BALLOT", subs)
      PROVE  PortalInv'
  <2>1. PICK r : r = [tab[t] EXCEPT !.step = step]
    OBVIOUS
  <2>2. /\ r \in Tab /\ r.step = step /\ r.busy = tab[t].busy /\ r.sub = tab[t].sub
        /\ r.priv = tab[t].priv /\ r.key = tab[t].key
    BY <1>1, <2>1 DEF Tab, WizardSteps
  <2>3. TabTrue(t, r, tries[t], flights[t], subs)
    BY <1>1, <1>3, <2>2 DEF TabTrue
  <2>4. QED
    BY <1>3, <2>1, <2>2, <2>3, ShowsTruthfully
<1>4. CASE BeginSignup(t) \/ SignupRefused(t)
  BY <1>2, <1>4 DEF BeginSignup, SignupRefused
<1>5. CASE FlightTimesOut(t)
  BY <1>1, <1>3, <1>5 DEF FlightTimesOut, TabTrue
<1>6. ASSUME NEW i \in DOMAIN subs, PollAnswers(t, i)
      PROVE  PortalInv'
  <2>1. subs[i] \in Sub /\ subs[i].tab = t
    BY <1>1, <1>6, TabBefore DEF PollAnswers, TabTrue, OwnSub
  <2>2. subs[i].kind \in {"SIGNUP", "BALLOT"}
    BY <2>1 DEF Sub
  <2>3. subs[i].kind = "BALLOT" => OnChain(t, "SIGNUP", subs)
    BY <1>1, <2>1 DEF HeldTrue
  <2>4. CASE /\ subs[i].status = "SUCCESS"
             /\ Shows(t, [tab[t] EXCEPT !.step = After(subs[i].kind)])
    <3>1. OnChain(t, subs[i].kind, subs)
      BY <1>1, <2>1, <2>4 DEF HeldTrue, OnChain
    <3>2. PICK step : step = After(subs[i].kind)
      OBVIOUS
    <3>3. \/ subs[i].kind = "SIGNUP" /\ step = "VOTING"
          \/ subs[i].kind = "BALLOT" /\ step = "RECEIPT"
      BY <2>2, <3>2 DEF After
    <3>4. QED
      BY <1>3, <2>4, <3>1, <3>2, <3>3
  <2>5. CASE /\ subs[i].status = "FAILED"
             /\ Shows(t, [tab[t] EXCEPT !.step = Before(subs[i].kind)])
    <3>1. PICK step : step = Before(subs[i].kind)
      OBVIOUS
    <3>2. \/ subs[i].kind = "SIGNUP" /\ step = "SETUP"
          \/ subs[i].kind = "BALLOT" /\ step = "VOTING"
      BY <2>2, <3>1 DEF Before
    <3>3. QED
      BY <1>3, <2>3, <2>5, <3>1, <3>2
  <2>6. QED
    BY <1>6, <2>4, <2>5 DEF PollAnswers
<1>7. QED
  BY <1>4, <1>5, <1>6

(* A page loaded again shows nothing its own submissions do not back.      *)
LEMMA ReloadKeeps ==
  ASSUME PortalInv, NEW t \in Tabs, NEW valid \in BOOLEAN, Reload(t, valid)
  PROVE  PortalInv'
<1>1. /\ tab[t] \in Tab /\ subs \in Seq(Sub) /\ HeldTrue(subs) /\ FreshTab \in Tab
      /\ TabTrue(t, tab[t], tries[t], flights[t], subs)
      /\ tries[t] \in [keys : 0..MaxTries, ballots : 0..MaxTries]
  BY TabBefore
<1>2. PICK back : back = Restored(tab[t])
  OBVIOUS
<1>3. /\ back \in Tab /\ ~back.busy /\ ~back.priv
      /\ back.step \in {"SETUP", "SIGNUP_FLIGHT"}
      /\ back.sub \in {0, tab[t].sub}
      /\ back.step = "SIGNUP_FLIGHT" =>
           tab[t].step = "SIGNUP_FLIGHT" /\ back.sub = tab[t].sub
  <2>1. CASE tab[t].step = "RECEIPT"
    BY <1>1, <1>2, <2>1 DEF Restored, FreshTab
  <2>2. CASE tab[t].step \in {"VOTING", "BALLOT_FLIGHT"}
    BY <1>1, <1>2, <2>2 DEF Restored, FreshTab, Tab
  <2>3. CASE tab[t].step \in {"SETUP", "SIGNUP_FLIGHT"}
    <3>1. back = [FreshTab EXCEPT !.step = tab[t].step, !.key = tab[t].key,
                                  !.ballot = tab[t].ballot, !.sub = tab[t].sub]
      BY <1>2, <2>3 DEF Restored
    <3>2. QED
      BY <1>1, <2>3, <3>1 DEF FreshTab, Tab, WizardSteps
  <2>4. QED
    BY <1>1, <2>1, <2>2, <2>3 DEF Tab, WizardSteps
<1>4. PICK mounted :
        mounted = IF valid THEN back
                  ELSE [back EXCEPT !.step = "SETUP", !.sub = 0, !.route = FALSE]
  OBVIOUS
<1>5. /\ mounted \in Tab /\ ~mounted.busy /\ ~mounted.priv
      /\ mounted.step \in {"SETUP", "SIGNUP_FLIGHT"}
      /\ mounted.sub \in {0, tab[t].sub}
      /\ mounted.step = "SIGNUP_FLIGHT" =>
           tab[t].step = "SIGNUP_FLIGHT" /\ mounted.sub = tab[t].sub
  <2>1. CASE valid
    BY <1>3, <1>4, <2>1
  <2>2. CASE ~valid
    BY <1>3, <1>4, <2>2 DEF Tab, WizardSteps
  <2>3. QED
    BY <2>1, <2>2
<1>6. PICK fl : fl = IF mounted.step = "SIGNUP_FLIGHT" /\ mounted.sub # 0
                     THEN {mounted.sub} ELSE {}
  OBVIOUS
<1>7. fl \in SUBSET Nat /\ fl \subseteq {mounted.sub} \ {0}
  BY <1>5, <1>6 DEF Tab
<1>8. mounted.step = "SIGNUP_FLIGHT" => mounted.sub \in fl
  <2>1. tab[t].step = "SIGNUP_FLIGHT" => tab[t].sub \in DOMAIN subs
    BY <1>1 DEF TabTrue, OwnSub
  <2>2. 0 \notin DOMAIN subs
    BY <1>1
  <2>3. QED
    BY <1>5, <1>6, <2>1, <2>2
<1>9. TabTrue(t, mounted, tries[t], fl, subs)
  BY <1>1, <1>5, <1>7, <1>8 DEF TabTrue
<1>10. /\ tab' = [tab EXCEPT ![t] = mounted] /\ flights' = [flights EXCEPT ![t] = fl]
       /\ tries' = tries /\ subs' = subs /\ phase' = phase
  BY <1>2, <1>4, <1>6 DEF Reload
<1>11. HeldMore(subs, subs) /\ tries = [tries EXCEPT ![t] = tries[t]] /\ phase \in Phases
  BY DEF HeldMore, PortalInv, PagesOK
<1>12. QED
  BY <1>1, <1>5, <1>7, <1>9, <1>10, <1>11, OneTabMoves

(* The invariant holds as the pages mount, and every step keeps it.        *)
LEMMA PortalInvariant == PortalSpec => []PortalInv
<1>1. PortalInit => PortalInv
  <2> SUFFICES ASSUME PortalInit
               PROVE  PortalInv
    OBVIOUS
  <2>1. FreshTab \in Tab
    BY PortalAssumption DEF Tab, FreshTab, WizardSteps
  <2>2. PagesOK
    BY <2>1, PortalAssumption DEF PortalInit, PagesOK, Phases
  <2>3. HeldTrue(subs)
    BY DEF PortalInit, HeldTrue
  <2>4. ASSUME NEW t \in Tabs
        PROVE  TabTrue(t, tab[t], tries[t], flights[t], subs)
    <3>1. tab[t] = FreshTab /\ flights[t] = {}
      BY DEF PortalInit
    <3>2. QED
      BY <3>1 DEF TabTrue, FreshTab
  <2>5. QED
    BY <2>2, <2>3, <2>4 DEF PortalInv
<1>2. PortalInv /\ [PortalNext]_portalVars => PortalInv'
  <2> SUFFICES ASSUME PortalInv, [PortalNext]_portalVars
               PROVE  PortalInv'
    OBVIOUS
  <2>1. CASE UNCHANGED portalVars
    BY <2>1 DEF portalVars, PortalInv, PagesOK
  <2>2. CASE \E t \in Tabs : TabStep(t)
    BY <2>2, WizardKeeps, PostsKeep, ReloadKeeps DEF TabStep
  <2>3. QED
    BY <2>1, <2>2, ChainStepKeeps DEF PortalNext
<1>3. QED
  BY <1>1, <1>2, PTL DEF PortalSpec

(* The wizard tells the truth about the chain, through lost answers, wrong *)
(* failure reports, late polls and reloads: a tab that offers the          *)
(* candidates has a signup of its own on the chain, one that shows a       *)
(* receipt has a ballot there.                                             *)
THEOREM WizardTellsTheTruth == PortalSpec => []JourneyTruthful
<1>1. PortalInv => JourneyTruthful
  <2> SUFFICES ASSUME PortalInv, NEW t \in Tabs
               PROVE  /\ tab[t].step \in {"VOTING", "BALLOT_FLIGHT"} =>
                             \E i \in Signups : subs[i].tab = t
                      /\ tab[t].step = "RECEIPT" => \E i \in Ballots : subs[i].tab = t
    BY DEF JourneyTruthful
  <2>1. TabTrue(t, tab[t], tries[t], flights[t], subs)
    BY DEF PortalInv
  <2>2. ASSUME OnChain(t, "SIGNUP", subs)
        PROVE  \E i \in Signups : subs[i].tab = t
    BY <2>2 DEF OnChain, Signups, Mined
  <2>3. ASSUME OnChain(t, "BALLOT", subs)
        PROVE  \E i \in Ballots : subs[i].tab = t
    BY <2>3 DEF OnChain, Ballots, Mined
  <2>4. QED
    BY <2>1, <2>2, <2>3 DEF TabTrue
<1>2. QED
  BY <1>1, PortalInvariant, PTL

(* What a tab shows and waits for has the form the code gives it: a tab in *)
(* flight awaits a submission of the relayer's table that it still polls,  *)
(* and the private key in memory is that of the last key drawn.            *)
THEOREM PortalTypeCorrect == PortalSpec => []PortalTypeOK
<1>1. PortalInv => PortalTypeOK
  <2> SUFFICES ASSUME PortalInv
               PROVE  PortalTypeOK
    OBVIOUS
  <2>1. ASSUME NEW t \in Tabs
        PROVE  /\ tab[t].sub \in 0..Len(subs)
               /\ flights[t] \subseteq DOMAIN subs
               /\ tab[t].priv => tab[t].key = tries[t].keys
               /\ tab[t].step \in {"SIGNUP_FLIGHT", "BALLOT_FLIGHT"} =>
                      tab[t].sub \in flights[t]
    <3>1. /\ tab[t] \in Tab /\ subs \in Seq(Sub)
          /\ TabTrue(t, tab[t], tries[t], flights[t], subs)
      BY TabBefore
    <3>2. tab[t].sub \in 0..Len(subs)
      BY <3>1 DEF TabTrue, OwnSub, Tab
    <3>3. QED
      BY <3>1, <3>2 DEF TabTrue, OwnSub
  <2>2. QED
    BY <2>1 DEF PortalInv, PagesOK, Tab, PortalTypeOK
<1>2. QED
  BY <1>1, PortalInvariant, PTL
=============================================================================
