---------------------------- MODULE DecisionLedger ----------------------------
(***************************************************************************)
(* The decision API and its audit (app/decision.py, app/decision_audit.py  *)
(* and its routes in app/api.py).  A decision is recorded before it is     *)
(* answered; the client reports later whether the invoice was paid.  Rows  *)
(* are only ever inserted, except when a client is erased.                 *)
(*                                                                         *)
(* The writing routes run one after the other on the event loop, over one  *)
(* SQLite connection.  The operator's command line erases a client from a  *)
(* process of its own.  A statement that fails, or a COMMIT that cannot    *)
(* get its lock while another process reads, raises, and nobody rolls      *)
(* back: what was inserted stays in the open transaction of the            *)
(* connection, and the next COMMIT makes it durable.                       *)
(***************************************************************************)
EXTENDS Naturals, FiniteSets

CONSTANTS
  Clients,      \* client ids, one per bearer token
  Invoices,     \* invoice ids, chosen by the callers
  Calls,        \* POSTs to /decide
  ReportIds,    \* report_id values a caller may supply
  NoReportId,   \* the caller supplies none
  MaxReports,   \* bound: reports posted
  MaxFaults     \* bound: failures and crashes

VARIABLES
  durable,      \* the database: its decisions and its outcome rows
  view,         \* the same as the connection sees it, open transaction included
  job,          \* the request on the event loop
  answered,     \* decisions given out with a 200
  refused,      \* decisions refused with "decision not recorded"
  erasing,      \* clients somebody asked to erase
  torn,         \* those whose erase broke between its two DELETEs, or came between the
                \* check and the insert of a report, and was not repeated since
  posted, faults

dlvars == <<durable, view, job, answered, refused, erasing, torn, posted, faults>>

Reported == {"paid", "not_paid"}
Decisions == [client : Clients, invoice : Invoices, call : Calls]

\* The idempotency key of a report: the caller's, or one made of the invoice and the outcome.
\* A caller's own key may look like such a one.
ReportKey(i, o, id) == IF id = NoReportId THEN <<"auto", i, o>> ELSE id

Reports ==
  {[client |-> c, invoice |-> i, outcome |-> o, key |-> ReportKey(i, o, id)] :
     c \in Clients, i \in Invoices, o \in Reported, id \in ReportIds \cup {NoReportId}}

\* The row of a report: reported_at is the server's clock, which the posts follow.
Row(r) ==
  [client |-> r.client, invoice |-> r.invoice, outcome |-> r.outcome, key |-> r.key,
   reported_at |-> posted]

Idle == [at |-> "idle"]

DecisionTypeOK ==
  /\ \A db \in {durable, view} :
       /\ db.audit \subseteq Decisions
       /\ \A o \in db.outcomes : \E r \in Reports, n \in Nat : o = [Row(r) EXCEPT !.reported_at = n]
  /\ job.at \in {"idle", "recorded", "known", "stored"}
  /\ answered \cup refused \subseteq Decisions /\ torn \subseteq erasing /\ erasing \subseteq Clients

DLInit ==
  /\ durable = [audit |-> {}, outcomes |-> {}] /\ view = durable
  /\ job = Idle /\ answered = {} /\ refused = {} /\ erasing = {} /\ torn = {} /\ posted = 0 /\ faults = 0

-------------------------------------------------------------------------------
\* The statement and its COMMIT succeed.
Write(db) == view' = db /\ durable' = db /\ UNCHANGED faults

\* One of them raises: the statement did nothing, or its COMMIT failed.
WriteFails(db) ==
  /\ faults < MaxFaults /\ faults' = faults + 1
  /\ view' \in {view, db} /\ UNCHANGED durable

WithDecision(d) == [view EXCEPT !.audit = @ \cup {d}]

HasReport(r) == \E o \in view.outcomes : o.client = r.client /\ o.key = r.key

\* A plain INSERT.
WithReportAgain(r) == [view EXCEPT !.outcomes = @ \cup {Row(r)}]

\* INSERT OR IGNORE: a key the client has used before is not stored again.
WithReport(r) == IF HasReport(r) THEN view ELSE [view EXCEPT !.outcomes = @ \cup {Row(r)}]

\* Anybody's decision on that invoice will do.
HasAnyDecision(c, i) == \E d \in view.audit : d.invoice = i

HasDecision(c, i) == \E d \in view.audit : d.client = c /\ d.invoice = i

Without(db, c) ==
  [audit    |-> {d \in db.audit : d.client # c},
   outcomes |-> {o \in db.outcomes : o.client # c}]

\* Only the latest report about an invoice counts; nobody reports "unknown".
Latest(db, c, i) ==
  LET about == {o \in db.outcomes : o.client = c /\ o.invoice = i}
  IN  IF about = {} THEN "unknown"
      ELSE (CHOOSE o \in about : \A p \in about : p.reported_at <= o.reported_at).outcome

\* outcome_counts of one client.
Decided(db, c) == Cardinality({d.invoice : d \in {e \in db.audit : e.client = c}})
Count(db, c, o) == Cardinality({i \in Invoices : Latest(db, c, i) = o})
Unreported(db, c) ==
  LET reported == Count(db, c, "paid") + Count(db, c, "not_paid")
  IN  IF Decided(db, c) > reported THEN Decided(db, c) - reported ELSE 0

-------------------------------------------------------------------------------
DecideOn(d) ==
  /\ job = Idle /\ d \notin answered \cup refused \cup view.audit
  /\ \/ Write(WithDecision(d)) /\ job' = [at |-> "recorded", decision |-> d]
        /\ UNCHANGED refused
     \/ WriteFails(WithDecision(d)) /\ refused' = refused \cup {d} /\ UNCHANGED job
  /\ UNCHANGED <<answered, erasing, torn, posted>>

AnswerDecision ==
  /\ job.at = "recorded" /\ job' = Idle
  /\ answered' = answered \cup {job.decision}
  /\ UNCHANGED <<durable, view, refused, erasing, torn, posted, faults>>

\* A report on an invoice without a decision of this client is a 404.
Report(r) ==
  /\ job = Idle /\ posted < MaxReports /\ posted' = posted + 1
  /\ HasDecision(r.client, r.invoice)
  /\ job' = [at |-> "known", report |-> r]
  /\ UNCHANGED <<durable, view, answered, refused, erasing, torn, faults>>

RecordOutcome ==
  /\ job.at = "known"
  /\ \/ Write(WithReport(job.report))
        /\ job' = [at |-> "stored", report |-> job.report, stored |-> ~HasReport(job.report)]
     \/ WriteFails(WithReport(job.report)) /\ job' = Idle
  /\ UNCHANGED <<answered, refused, erasing, torn, posted>>

\* The answer says whether the row was stored, and the outcome that counts now.
AnswerReport ==
  /\ job.at = "stored" /\ job' = Idle
  /\ UNCHANGED <<durable, view, answered, refused, erasing, torn, posted, faults>>

\* erase_client, by the offboarding route: two DELETEs and one COMMIT.
EraseClient(c) ==
  /\ job = Idle /\ erasing' = erasing \cup {c}
  /\ \/ Write(Without(view, c)) /\ torn' = torn \ {c}
     \/ WriteFails(Without(view, c)) /\ UNCHANGED torn
     \/ WriteFails([view EXCEPT !.audit = Without(view, c).audit]) /\ torn' = torn \cup {c}
  /\ UNCHANGED <<job, answered, refused, posted>>

\* erase_client, by the command line: an open transaction of the server locks it out.
EraseFromOutside(c) ==
  /\ view = durable
  /\ Write(Without(view, c)) /\ erasing' = erasing \cup {c}
  /\ torn' = IF job.at = "known" /\ job.report.client = c THEN torn \cup {c} ELSE torn \ {c}
  /\ UNCHANGED <<job, answered, refused, posted>>

\* The process dies; what was not committed is gone.
ServerDies ==
  /\ faults < MaxFaults /\ faults' = faults + 1
  /\ view' = durable /\ job' = Idle
  /\ UNCHANGED <<durable, answered, refused, erasing, torn, posted>>

DLNext ==
  \/ \E d \in Decisions : DecideOn(d)
  \/ AnswerDecision
  \/ \E r \in Reports : Report(r)
  \/ RecordOutcome \/ AnswerReport
  \/ \E c \in Clients : EraseClient(c) \/ EraseFromOutside(c)
  \/ ServerDies

DLSpec == DLInit /\ [][DLNext]_dlvars

-------------------------------------------------------------------------------
\* Every decided invoice of a client is paid, not paid or unknown, once: a report never
\* counts an invoice nobody decided on, nor one invoice twice, whatever is repeated, lost or
\* left in an open transaction (decision_audit.py:133-147).  Only an erase that broke
\* between its two DELETEs, or came from outside between the check and the insert, leaves
\* a report without its decision.
CountsAddUp ==
  \A c \in Clients \ torn :
    Count(durable, c, "paid") + Count(durable, c, "not_paid") + Unreported(durable, c)
      = Decided(durable, c)

Contract == INSTANCE DecisionContract WITH recorded <- durable.audit, reports <- durable.outcomes

\* A decision is answered only when it is on record to stay, no record is lost or altered,
\* and no report is stored twice, across failures and crashes (decision.py:281-305,
\* decision_audit.py:20-29).
KeepsDecisionContract == Contract!Spec

\* What a 503 with "decision not recorded" says (decision.py:304).
RefusedIsUnrecorded == refused \cap durable.audit = {}
===============================================================================
