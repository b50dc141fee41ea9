------------------------------- MODULE Erasure -------------------------------
(* Erasure of a person and the retention purge (scripts/gdpr_erase.py,        *)
(* scripts/retention_purge.py over app/store.py), run from shells beside the  *)
(* server.  Each reads ids in one statement and deletes in a later            *)
(* transaction, while a handler of the server may be between recording the    *)
(* failure of an invoice and writing its messages.  The roster is a file      *)
(* that is read whole and rewritten in place.  The claim of an event names no *)
(* invoice, so that no script reaches it: it is left out.                     *)
EXTENDS Naturals, FiniteSets

CONSTANTS
  Shells,        \* processes that run a script
  Persons,       \* people; each is known by two ids and an e-mail address
  BillsOf,       \* person -> the invoices of theirs
  Retention,     \* days a closed row is kept
  MaxAge,        \* bound of the clock
  Torn,          \* a roster file that does not parse
  Never,         \* no day; an id or an address that is not given
  MaxGdOps       \* bound: scripts started, events handled, deaths

VARIABLES
  held,          \* invoice -> its failures row
  children,      \* invoices with rows in messages, transitions or approvals
  markers,       \* invoice -> day of its early_paid marker, or Never
  handling,      \* the server's handler: its step and invoice
  roster,        \* people in the roster file, or Torn
  shell,         \* process -> its script
  today,
  \* kept for the properties only
  erasedIds,     \* ids whose rows were deleted on request
  redacted,      \* people whose record was taken out of the roster
  rewritten,     \* invoices the server wrote after the erasure of their ids had read
  cutOff,        \* invoices deleted under a handler
  lostOpen,      \* open rows a purge deleted although nobody had written them since it looked
  overlapped,    \* two scripts have rewritten the roster at once
  gdOps

data == <<held, children, markers, handling>>
ghosts == <<erasedIds, redacted, rewritten, cutOff, lostOpen, overlapped>>
gdvars == <<data, roster, shell, today, ghosts, gdOps>>

Local(u) == <<u, "local">>
InStripe(u) == <<u, "stripe">>
AllBills == UNION {BillsOf[u] : u \in Persons}
Debtor(i) == CHOOSE u \in Persons : i \in BillsOf[u]
NoRow == [state |-> "none", ids |-> {}, updated |-> 0]
NotHandling == [at |-> "idle"]
Prompt == [at |-> "prompt"]

GDInit ==
  /\ held \in {[i \in AllBills |-> NoRow],
               [i \in AllBills |-> [state |-> "closed", ids |-> {InStripe(Debtor(i))}, updated |-> 0]]}
  /\ children = {i \in AllBills : held[i] # NoRow}
  /\ markers \in {[i \in AllBills |-> Never], [i \in AllBills |-> 0]}
  /\ handling = NotHandling /\ roster = Persons /\ shell = [p \in Shells |-> Prompt] /\ today = 0
  /\ erasedIds = {} /\ redacted = {} /\ rewritten = {} /\ cutOff = {} /\ lostOpen = {}
  /\ overlapped = FALSE /\ gdOps = 0

Spends == gdOps < MaxGdOps /\ gdOps' = gdOps + 1

-----------------------------------------------------------------------------
\* What the server writes about an invoice is news to every script that has read.
News(i) ==
  /\ rewritten' = rewritten \cup {i}
  /\ shell' = [p \in Shells |->
       IF shell[p].at = "delete" THEN [shell[p] EXCEPT !.news = @ \cup {i}] ELSE shell[p]]
  /\ UNCHANGED <<roster, today, erasedIds, redacted, cutOff, lostOpen, overlapped>>

\* record_failure: a new row is open, a closed one stays closed; the Stripe id
\* is added when the event carries it.
RecordsFailure(i, resolved) ==
  /\ handling = NotHandling /\ Spends
  /\ held' = [held EXCEPT ![i] =
       [state |-> IF @.state = "none" THEN "open" ELSE @.state,
        ids |-> @.ids \cup (IF @.state = "none" THEN {Local(Debtor(i))} ELSE {})
                      \cup (IF resolved THEN {InStripe(Debtor(i))} ELSE {}),
        updated |-> today]]
  /\ handling' = [at |-> "recorded", bill |-> i]
  /\ UNCHANGED <<children, markers>> /\ News(i)

\* record_message writes whether or not the failure is still there.
RecordsMessage ==
  /\ handling.at = "recorded"
  /\ children' = children \cup {handling.bill}
  /\ handling' = [handling EXCEPT !.at = "messaged"]
  /\ UNCHANGED <<held, markers, gdOps>> /\ News(handling.bill)

\* transition raises UnknownInvoice when the row is gone.
Close ==
  /\ handling.at = "messaged" /\ handling' = NotHandling
  /\ UNCHANGED <<markers, gdOps>>
  /\ LET i == handling.bill
     IN \/ held[i].state = "open" /\ News(i) /\ children' = children \cup {i}
           /\ held' = [held EXCEPT ![i] = [state |-> "closed", ids |-> @.ids, updated |-> today]]
        \/ UNCHANGED <<held, children, roster, shell, today, ghosts>>

\* mark_early_paid: a payment for which there is no row.
MarkEarlyPaid(i) ==
  /\ held[i] = NoRow /\ markers[i] = Never /\ Spends
  /\ markers' = [markers EXCEPT ![i] = today]
  /\ UNCHANGED <<held, children, handling>> /\ News(i)

-----------------------------------------------------------------------------
\* A file that does not parse reads as an empty roster.
Roster == IF roster = Torn THEN {} ELSE roster

\* An erasure that matches the local column only.
InvoicesOfLocal(id) == {i \in AllBills : id \in held[i].ids /\ id = Local(Debtor(i))}

\* _invoice_ids_for_customer matches either column.
InvoicesOf(id) == {i \in AllBills : id \in held[i].ids}

\* resolve_targets: an e-mail address leads to an id only through the roster; the
\* request is on the audit log before anything is deleted.
Request(p, id, email) ==
  /\ shell[p] = Prompt /\ Spends
  /\ LET found == {u \in Roster : id = Local(u) \/ email = u}
         ids == ({id} \ {Never}) \cup {Local(u) : u \in found}
     IN shell' = [shell EXCEPT ![p] =
          [at |-> "ids", ids |-> ids,
           people |-> found \cup ({email} \ {Never}) \cup {u \in Persons : Local(u) \in ids}]]
  /\ UNCHANGED <<data, roster, today, ghosts>>

\* erase_customer reads the ids of one customer.
ReadIds(p) ==
  /\ shell[p].at = "ids" /\ shell[p].ids # {}
  /\ \E id \in shell[p].ids :
       shell' = [shell EXCEPT ![p] =
         [at |-> "delete", purge |-> FALSE, bills |-> InvoicesOf(id), news |-> {},
          id |-> id, ids |-> @.ids \ {id}, people |-> @.people]]
  /\ UNCHANGED <<data, roster, today, ghosts, gdOps>>

\* A purge that goes by age alone.
ExpiredAnyState == {i \in AllBills : held[i] # NoRow /\ held[i].updated + Retention < today}

\* purge_expired reads the closed rows that are old enough.
Expired == {i \in AllBills : held[i].state = "closed" /\ held[i].updated + Retention < today}

StartPurge(p) ==
  /\ shell[p] = Prompt /\ Spends
  /\ shell' = [shell EXCEPT ![p] =
       [at |-> "delete", purge |-> TRUE, bills |-> Expired, news |-> {}]]
  /\ UNCHANGED <<data, roster, today, ghosts>>

\* _delete_invoices: the rows that name the invoice, in one transaction.
Delete(p) ==
  /\ shell[p].at = "delete"
  /\ LET gone == shell[p].bills
     IN /\ held' = [i \in AllBills |-> IF i \in gone THEN NoRow ELSE held[i]]
        /\ children' = children \ gone
        /\ markers' = [i \in AllBills |-> IF i \in gone THEN Never ELSE markers[i]]
        /\ cutOff' = cutOff \cup (IF handling = NotHandling THEN {} ELSE gone \cap {handling.bill})
        /\ lostOpen' = IF shell[p].purge
             THEN lostOpen \cup {i \in gone \ shell[p].news : held[i].state = "open"}
             ELSE lostOpen
  /\ shell' = [shell EXCEPT ![p] =
       IF shell[p].purge THEN [at |-> "markers"]
       ELSE [at |-> "ids", ids |-> @.ids, people |-> @.people]]
  /\ IF shell[p].purge THEN UNCHANGED <<erasedIds, rewritten>>
     ELSE /\ erasedIds' = erasedIds \cup {shell[p].id}
          /\ rewritten' =
               {i \in rewritten : shell[p].id \notin held[i].ids} \cup shell[p].news
  /\ UNCHANGED <<handling, roster, today, redacted, overlapped, gdOps>>

\* purge_expired goes on with the old markers of invoices that are not open.
DropMarkers(p) ==
  /\ shell[p].at = "markers"
  /\ markers' = [i \in AllBills |->
       IF markers[i] # Never /\ markers[i] + Retention < today /\ held[i].state # "open"
       THEN Never ELSE markers[i]]
  /\ shell' = [shell EXCEPT ![p] = Prompt]
  /\ UNCHANGED <<held, children, handling, roster, today, ghosts, gdOps>>

\* redact_customers_file: read when every id is done, written when there is
\* something to take out.
ReadRoster(p) ==
  /\ shell[p].at = "ids" /\ shell[p].ids = {}
  /\ shell' = [shell EXCEPT ![p] =
       IF Roster \cap @.people = {} THEN Prompt
       ELSE [at |-> "write", kept |-> Roster \ @.people, people |-> Roster \cap @.people]]
  /\ overlapped' = (overlapped \/ \E q \in Shells : shell[q].at = "write")
  /\ UNCHANGED <<data, roster, today, erasedIds, redacted, rewritten, cutOff, lostOpen, gdOps>>

WriteRoster(p) ==
  /\ shell[p].at = "write"
  /\ roster' = shell[p].kept /\ redacted' = redacted \cup shell[p].people
  /\ shell' = [shell EXCEPT ![p] = Prompt]
  /\ UNCHANGED <<data, today, erasedIds, rewritten, cutOff, lostOpen, overlapped, gdOps>>

\* A script is killed; in the middle of write_text it leaves a torn file.
Killed(p) ==
  /\ shell[p] # Prompt /\ Spends
  /\ shell' = [shell EXCEPT ![p] = Prompt]
  /\ IF shell[p].at = "write" THEN roster' \in {roster, Torn} ELSE roster' = roster
  /\ UNCHANGED <<data, today, ghosts>>

GDDayPasses ==
  /\ today < MaxAge /\ today' = today + 1
  /\ UNCHANGED <<data, roster, shell, ghosts, gdOps>>

GDNext ==
  \/ \E i \in AllBills :
       MarkEarlyPaid(i) \/ \E resolved \in BOOLEAN : RecordsFailure(i, resolved)
  \/ RecordsMessage \/ Close \/ GDDayPasses
  \/ \E p \in Shells :
       \/ \E u \in Persons : Request(p, Local(u), Never) \/ Request(p, InStripe(u), Never)
                             \/ Request(p, Never, u)
       \/ ReadIds(p) \/ Delete(p) \/ ReadRoster(p) \/ WriteRoster(p)
       \/ StartPurge(p) \/ DropMarkers(p) \/ Killed(p)

GDSpec == GDInit /\ [][GDNext]_gdvars

-----------------------------------------------------------------------------
\* A row that carries an erased id is one the server wrote after the erasure had
\* looked (store.py:1157-1162 matches either id column).
ErasedIsGone ==
  \A i \in AllBills : held[i].ids \cap erasedIds # {} => i \in rewritten

\* Messages whose failure row is gone, which no later erasure finds, are only
\* left by a handler that was at work when the row was deleted.
OrphansAreCut == \A i \in children : held[i] = NoRow => i \in cutOff

\* The ledger is erased before the roster, so that a request by e-mail address
\* that died can be made again: whoever is out of the roster is erased under the
\* id it listed, and whoever was taken out stays out.  Two scripts that rewrite
\* the file at once lose this: one brings back what the other took out, or heals
\* a torn file in which a third found nobody (gdpr_erase.py:78-89).
RosterComesLast ==
  roster # Torn /\ ~overlapped =>
    /\ \A u \in Persons \ roster : Local(u) \in erasedIds
    /\ roster \cap redacted = {}

\* Nothing that is erased or purged was still wanted, and nothing erased is left,
\* but for what the server wrote in between.
ErasureHolds == ErasedIsGone /\ OrphansAreCut /\ RosterComesLast /\ lostOpen = {}
=============================================================================
