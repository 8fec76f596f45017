----------------------------- MODULE MCOffChain -----------------------------
(***************************************************************************)
(* Instances of OffChain for TLC: a small one for each of its parts.       *)
(***************************************************************************)
EXTENDS OffChain

CONSTANTS v1, c1, c2, k1, t1, x1, x2, b1, b2, e1, e2, a1, a2,
          n1, n2, q1, q2, r1

\* Desk: a citizen who calls from two clients at once.
OneOwner == [c \in Calls |-> v1]

\* Catalogue: one candidate, who may be withdrawn, and a second one, who may come
\* to share the place of the first.
OwnKeys == [c \in Candidates |-> c]
OneRow == [c \in {x1} |-> [order |-> 1, status |-> "ACTIVE", born |-> 1]]
Forms == {[op |-> "UPSERT", id |-> x2, order |-> 1, status |-> "ACTIVE"],
          [op |-> "STATUS", id |-> x1, order |-> 1, status |-> "INACTIVE"]}

\* Roll: each nullifier has a permit over a key of its own, and one a second permit,
\* over the key of the other.
Over(n, q) == [nullifier |-> n, issuer |-> "AUTHORITY", key |-> q]
SharedKey == {Over(n1, q1), Over(n2, q2), Over(n2, q1)}

\* Audit: the history of an election or the custody of actas.  With one row of a
\* kind looked at, a second signup may come after its phase unseen or repeat the
\* first, and a ballot is always too early.
Change(from, to) == [kind |-> "PHASE", election |-> e1, prev |-> from, next |-> to]
Record(kind, ref) == [kind |-> kind, election |-> e1, ref |-> ref]
History == {Change(0, 1), Change(1, 2), Record("SIGNUP", 1), Record("SIGNUP", 2),
            Record("BALLOT", 1)}

\* Custody: the console publishes an acta of an election, and the board another of
\* it and one of an election without a file.
Anchor(e, a) == [kind |-> "ACTA", election |-> e, ref |-> a]
Anchors == {Anchor(e1, a1), Anchor(e1, a2), Anchor(e2, a1)}
OneFile == {<<e1, a1>>}
OfTheBoard == {<<e1, a2>>, <<e2, a1>>}

SomeEvents == History \cup Anchors

\* A behaviour has a history, in which an event is unlawful or a time is missing, or
\* it has two anchors, of which a file is damaged or the indexer dies.
OneSubject ==
    \/ /\ Range(chain') \subseteq History /\ disk' = {}
       /\ used'.damages = 0 /\ used'.anomalies + used'.gaps <= 1
    \/ /\ Range(chain') \subseteq Anchors /\ Len(chain') <= 2
       /\ used'.gaps = 0 /\ used'.damages + used'.crashes <= 1

Spec == OffChainInit /\ [][OffChainNext /\ OneSubject]_offChainVars

\* Editors do the same as one another, and so do the clients of one citizen.
Interchangeable == Permutations({b1, b2}) \cup Permutations({c1, c2})

=============================================================================
