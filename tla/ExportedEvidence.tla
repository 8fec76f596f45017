--------------------------- MODULE ExportedEvidence ---------------------------
(***************************************************************************)
(* The evidence of the results as it leaves the system: the audit bundle   *)
(* the tally board materialises, the acts and the results the evidence API *)
(* serves, and the two commands of the audit CLI that put them together,   *)
(* export-audit-bundle and verify-audit-bundle.  The tables are those      *)
(* TallyPublication fills; the indexer adds the anchors it finds on the    *)
(* chain.  A command is a series of requests, each of which sees the       *)
(* tables as they are when it is answered, while the board publishes; a    *)
(* request that fails is fatal to the command or is passed over.           *)
(*                                                                         *)
(* The actas are those of the board, so a content that is there verifies.  *)
(***************************************************************************)
EXTENDS TallyPublication

CONSTANTS
  MaxReads,    \* bound: commands run
  MaxRefused   \* bound: requests that fail

ASSUME ExportAssumption == MaxReads \in Nat /\ MaxRefused \in Nat

VARIABLES
  anchorRows,  \* acta_anchors
  counted,     \* what persistAuditBundleAction has counted and not stored yet
  bundles,     \* audit_bundle_exports, in created_at order
  reader,      \* the command that runs, or the last one
  reads, refused

exportVars == <<anchorRows, counted, bundles, reader, reads, refused>>
bundleVars == <<anchorRows, counted, bundles>>

(* The requests of export-audit-bundle, in order, but for those for the    *)
(* batches and the jobs, which come between the last two.                  *)
RequestsResultsFirst == <<"RESULTS", "ACTS", "DETAILS", "WINDOW">>
Requests == <<"ACTS", "DETAILS", "RESULTS", "WINDOW">>
(* Of the nine queries of the bundle's endpoint.                           *)
Queries == {"EXPORTS", "PAYLOADS", "ACTAS"}

(* What a command has read: the acts listed, those whose content it has,   *)
(* those verified, how many results, whether the window is open, whether   *)
(* the bundle is materialised, and how many results have a summary.        *)
Nothing == [acts |-> {}, signed |-> {}, valid |-> {}, results |-> 0,
            window |-> FALSE, materialized |-> FALSE, detailed |-> 0]
IdleReader == [op |-> "NONE", at |-> 0, todo |-> {}, act |-> {},
               asked |-> {}, got |-> Nothing, dropped |-> FALSE, ended |-> "NO"]

ExportInit ==
  /\ anchorRows = {} /\ counted = <<>> /\ bundles = <<>>
  /\ reader = IdleReader
  /\ reads = 0 /\ refused = 0

-----------------------------------------------------------------------------
(* The tables.  The acta of a count is anchored before that of its results *)
(* and indexed no later.                                                   *)
IndexAnchor(a) ==
  /\ a \in anchored \ anchorRows
  /\ a.kind = "ACTA_RESULTADOS" => ActaEscrutinio(a.job) \in anchorRows
  /\ anchorRows' = anchorRows \cup {a}
  /\ UNCHANGED <<counted, bundles, reader, reads, refused>>

(* persistAuditBundleAction, the end of a publication and of every later   *)
(* click on the page: counts, then one more row.                           *)
CountEvidence ==
  /\ counted = <<>> /\ Pages # {} /\ phase = AUDIT_WINDOW
  /\ Len(bundles) < MaxReads + 1
  /\ counted' = <<[results |-> Len(payloads), actas |-> Cardinality(contents),
                   anchors |-> Cardinality(anchorRows)]>>
  /\ UNCHANGED <<anchorRows, bundles, reader, reads, refused>>

InsertBundle ==
  /\ counted # <<>>
  /\ bundles' = bundles \o counted
  /\ counted' = <<>>
  /\ UNCHANGED <<anchorRows, reader, reads, refused>>

-----------------------------------------------------------------------------
(* The verify endpoint's verdict on an acta.                               *)
SignatureVerifies(a) == a \in contents
VerificationStatus(a) ==
  CASE ~SignatureVerifies(a) -> "INCOMPLETE_METADATA"
    [] SignatureVerifies(a) /\ a \notin anchorRows -> "ANCHOR_MISSING"
    [] SignatureVerifies(a) /\ a \in anchorRows -> "VALID"

Idling == reader.op = "NONE" \/ reader.ended # "NO"
Running(op) == reader.op = op /\ reader.ended = "NO"
Asking(request) == Running("EXPORT") /\ Requests[reader.at] = request

StartCommand(op) ==
  /\ Idling /\ reads < MaxReads
  /\ reader' = [IdleReader EXCEPT !.op = op, !.at = 1, !.asked = Queries]
  /\ reads' = reads + 1
  /\ UNCHANGED <<bundleVars, refused>>

(* The reader, with got read, turns to the next request; the file is       *)
(* written, or the report printed, after the last.                         *)
NextRequest(got) ==
  IF reader.at = Len(Requests)
  THEN [reader EXCEPT !.got = got, !.ended = "DONE"]
  ELSE [reader EXCEPT !.got = got, !.at = @ + 1]

Receive(got) ==
  /\ reader' = NextRequest(got)
  /\ UNCHANGED <<bundleVars, reads, refused>>

Refuse(next) ==
  /\ refused < MaxRefused /\ refused' = refused + 1
  /\ reader' = next
  /\ UNCHANGED <<bundleVars, reads>>

(* A request the command cannot do without.                                *)
CommandFails ==
  /\ Asking("ACTS") \/ Asking("DETAILS") \/ (Running("VERIFY") /\ reader.asked # {})
  /\ Refuse([reader EXCEPT !.ended = "FAILED"])

ListActs ==
  /\ Asking("ACTS")
  /\ reader' = [NextRequest([reader.got EXCEPT !.acts = anchorRows])
                  EXCEPT !.todo = anchorRows]
  /\ UNCHANGED <<bundleVars, reads, refused>>

(* Metadata and verification of an act, at once; then its content, which   *)
(* is left out when it cannot be had.                                      *)
FetchAct(a) ==
  /\ Asking("DETAILS") /\ a \in reader.todo /\ reader.act = {}
  /\ reader' = [reader EXCEPT !.act = {a},
                  !.got.valid = @ \cup {b \in {a} : VerificationStatus(b) = "VALID"}]
  /\ UNCHANGED <<bundleVars, reads, refused>>

FetchContent(a) ==
  LET done == [reader EXCEPT !.todo = @ \ {a}, !.act = {}]
  IN  /\ Asking("DETAILS") /\ reader.act = {a}
      /\ \/ /\ reader' = [done EXCEPT !.got.signed = @ \cup ({a} \cap contents)]
            /\ UNCHANGED <<bundleVars, reads, refused>>
         \/ Refuse([done EXCEPT !.dropped = TRUE])

DetailsDone == Asking("DETAILS") /\ reader.todo = {} /\ Receive(reader.got)

(* Results and audit window are optional, one request each, and passed     *)
(* over when they fail.                                                    *)
FetchResults ==
  Asking("RESULTS") /\ Receive([reader.got EXCEPT !.results = Len(payloads)])

FetchWindow ==
  Asking("WINDOW") /\ Receive([reader.got EXCEPT !.window = auditWindow])

PassOver ==
  /\ Asking("RESULTS") \/ Asking("WINDOW")
  /\ Refuse([NextRequest(reader.got) EXCEPT !.dropped = TRUE])

-----------------------------------------------------------------------------
(* verify-audit-bundle: the bundle's endpoint runs its queries at once, in *)
(* whatever order; then the results, which may be passed over; then each   *)
(* acta is verified.                                                       *)
QueryBundle(q) ==
  /\ Running("VERIFY") /\ q \in reader.asked
  /\ LET got == reader.got
         read == CASE q = "EXPORTS" -> [got EXCEPT !.materialized = bundles # <<>>]
                   [] q = "PAYLOADS" -> [got EXCEPT !.results = Len(payloads)]
                   [] q = "ACTAS" -> [got EXCEPT !.acts = contents]
     IN  reader' = [reader EXCEPT !.asked = @ \ {q}, !.got = read]
  /\ UNCHANGED <<bundleVars, reads, refused>>

FetchDetailedResult ==
  /\ Running("VERIFY") /\ reader.asked = {} /\ reader.at = 1
  /\ LET next == [reader EXCEPT !.at = 2, !.todo = reader.got.acts]
     IN  \/ /\ reader' = [next EXCEPT !.got.detailed = Len(payloads)]
            /\ UNCHANGED <<bundleVars, reads, refused>>
         \/ Refuse([next EXCEPT !.dropped = TRUE])

VerifyBundleActa(a) ==
  /\ Running("VERIFY") /\ reader.at = 2 /\ a \in reader.todo
  /\ \/ /\ reader' = [reader EXCEPT !.todo = @ \ {a},
                        !.got.valid = @ \cup {b \in {a} : VerificationStatus(b) = "VALID"}]
        /\ UNCHANGED <<bundleVars, reads, refused>>
     \/ Refuse([reader EXCEPT !.todo = @ \ {a}, !.dropped = TRUE])

ReportBundle ==
  /\ Running("VERIFY") /\ reader.at = 2 /\ reader.todo = {}
  /\ reader' = [reader EXCEPT !.ended = "DONE"]
  /\ UNCHANGED <<bundleVars, reads, refused>>

-----------------------------------------------------------------------------
ReaderStep ==
  \/ StartCommand("EXPORT") \/ StartCommand("VERIFY") \/ CommandFails
  \/ ListActs \/ DetailsDone \/ FetchResults \/ FetchWindow \/ PassOver
  \/ \E a \in Actas : FetchAct(a) \/ FetchContent(a) \/ VerifyBundleActa(a)
  \/ \E q \in Queries : QueryBundle(q)
  \/ FetchDetailedResult \/ ReportBundle

ExportStep ==
  \/ \E a \in Actas : IndexAnchor(a)
  \/ CountEvidence \/ InsertBundle \/ ReaderStep

ExportNext ==
  \/ Next /\ UNCHANGED exportVars
  \/ ExportStep /\ UNCHANGED vars

ExportSpec == Init /\ ExportInit /\ [][ExportNext]_<<vars, exportVars>>

-----------------------------------------------------------------------------
(* What leaves the system hangs together although it is read in pieces     *)
(* while the board publishes.  A stored bundle counts a result, unless the *)
(* console moved the phase instead of the board.  An export that lists the *)
(* acta of results lists the acta of its count and, if no request was      *)
(* passed over, holds a result; it holds the content of every acta it      *)
(* calls verified.  A report on a materialised bundle is made over a       *)
(* published result.                                                       *)
BundlesBacked ==
  LET got == reader.got
      complete == reader.ended = "DONE" /\ ~reader.dropped
  IN  /\ \A i \in DOMAIN bundles : bundles[i].results > 0 \/ byConsole
      /\ reader.op = "EXPORT" /\ complete =>
           /\ \A j \in Jobs : ActaResultados(j) \in got.acts =>
                ActaEscrutinio(j) \in got.acts /\ got.results > 0
           /\ got.valid \subseteq got.signed
      /\ reader.op = "VERIFY" /\ complete /\ got.materialized =>
           got.detailed > 0 \/ byConsole

=============================================================================
