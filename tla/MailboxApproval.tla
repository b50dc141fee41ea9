---------------------------- MODULE MailboxApproval ----------------------------
(***************************************************************************)
(* Approval in the approver's own mailbox (app/mailbox_approval.py, for    *)
(* Gmail and IMAP alike): the program puts a draft in the Drafts folder, a *)
(* person sends or deletes it in their mail program, and the sweep finds   *)
(* out which.  A sent message is recognised by the header of its draft or, *)
(* if the mail program dropped that, by recipient, subject and time.       *)
(*                                                                         *)
(* Four kinds of actors share one ledger and one mailbox: the event loop,  *)
(* which opens requests and closes invoices; the sweeping threads (the     *)
(* background sweep and POST /approvals/sweep); the person; and the        *)
(* mailbox, whose search finds a message some time after it was sent.      *)
(*                                                                         *)
(* A tick of the clock is of the size of PAYPILOT_GMAIL_GRACE_MINUTES.      *)
(* Message rows that record a refusal are read by no guard and left out.   *)
(***************************************************************************)
EXTENDS Ledger, FiniteSets

CONSTANTS
  Requests,     \* bound: the ids the approvals table may hand out
  Invoices,
  Customers,
  CustomerOf,   \* the person each invoice belongs to
  SubjectOf,    \* the subject line of its message, fixed by the failure code
  Sweepers,     \* threads that run the sweep
  NoInvoice, NoRequest,
  MaxTouches,   \* PAYPILOT_MAX_TOUCHES
  Cooldown,     \* PAYPILOT_SEND_COOLDOWN_HOURS, in clock ticks
  TTL,          \* PAYPILOT_APPROVAL_TTL_HOURS, in clock ticks
  Grace,        \* PAYPILOT_GMAIL_GRACE_MINUTES, in clock ticks
  Evidence,     \* which of header and subject a mail program may leave intact
  MaxClock,     \* bound: clock ticks
  MaxFaults     \* bound: processes killed, and failing calls of store or mailbox

ASSUME MailboxSets ==
  /\ IsFiniteSet(Requests) /\ NoRequest \notin Requests /\ NoInvoice \notin Invoices
  /\ IsFiniteSet(Sweepers)
  /\ CustomerOf \in [Invoices -> Customers] /\ DOMAIN SubjectOf = Invoices
  /\ Evidence \subseteq SUBSET {"header", "subject"}
ASSUME MailboxNumbers ==
  /\ MaxTouches \in Nat \ {0} /\ Cooldown \in Nat /\ TTL \in Nat \ {0}
  /\ Grace \in Nat \ {0}
  /\ MaxClock \in Nat \ {0} /\ MaxFaults \in Nat

VARIABLES
  failures,     \* the state of each invoice's row
  messages,     \* per invoice, its rows with status sent: how many, and the latest
  approvals,    \* the approvals table
  pc, inv, req, \* the event loop: its next call, the invoice and the request it is about
  spc,          \* per sweeper, its next call
  todo,         \* the pending requests it has yet to look at
  cur,          \* the one it looks at
  at,           \* the time it took as now
  ripe,         \* the grace period of that request is over
  blind,        \* requests a pass read before their draft's id was stored
  \* the mailbox
  drafts,       \* requests whose draft is in the Drafts folder
  sentAt,       \* per request, when its draft was sent (0: never)
  kept,         \* what the mail program left intact of it
  searchable,   \* sent messages the search finds
  \* the world
  clock,
  faults        \* failing calls and killed processes so far

ledger   == <<failures, messages, approvals>>
loop     == <<pc, inv, req>>
sweepers == <<spc, todo, cur, at, ripe, blind>>
mailbox  == <<drafts, sentAt, kept, searchable>>
world    == <<clock, faults>>
vars     == <<ledger, loop, sweepers, mailbox, world>>

\* A free id of the table.  Time starts at 1: 0 is a time not written.
Free == [invoice |-> NoInvoice, status |-> "none", created |-> 0, expires |-> 0,
         external |-> FALSE, gone |-> 0]

Init ==
  /\ failures = [i \in Invoices |-> "failed"]
  /\ messages = [i \in Invoices |-> [sent |-> 0, last |-> 0]]
  /\ approvals = [a \in Requests |-> Free]
  /\ pc = "idle" /\ inv = NoInvoice /\ req = NoRequest
  /\ spc = [s \in Sweepers |-> "idle"] /\ todo = [s \in Sweepers |-> {}]
  /\ cur = [s \in Sweepers |-> NoRequest] /\ at = [s \in Sweepers |-> 0]
  /\ ripe = [s \in Sweepers |-> FALSE] /\ blind = {}
  /\ drafts = {} /\ sentAt = [a \in Requests |-> 0]
  /\ kept = [a \in Requests |-> {}] /\ searchable = {}
  /\ clock = 1 /\ faults = 0

-------------------------------------------------------------------------------
\* The approvals table.

With(status) == {a \in Requests : approvals[a].status = status}

InvoiceOf(a) == approvals[a].invoice

\* Mutant: whatever the row says is overwritten.
ResolveAnyway(a, to) == approvals' = [approvals EXCEPT ![a].status = to]

\* Mutant: the rows to close are looked for among the approved ones.
ResolveApproved(a, to) ==
  approvals' = IF approvals[a].status = "approved"
                 THEN [approvals EXCEPT ![a].status = to] ELSE approvals

\* resolve_approval.  Only the admin route, left out here, approves a request of
\* these channels.
Resolve(a, to) ==
  approvals' = IF approvals[a].status = "pending"
                 THEN [approvals EXCEPT ![a].status = to] ELSE approvals

\* expire_approvals
ExpireOverdue ==
  approvals' = [a \in Requests |->
    IF approvals[a].status = "pending" /\ approvals[a].expires <= clock
      THEN [approvals[a] EXCEPT !.status = "expired"] ELSE approvals[a]]

-------------------------------------------------------------------------------
\* The event loop: one webhook at a time.

Goto(label) == pc' = label /\ UNCHANGED <<inv, req>>

Done == pc' = "idle" /\ inv' = NoInvoice /\ req' = NoRequest

IsOpen(i) == failures[i] \in OpenStates

CoolingDown(i) ==
  \E j \in Invoices : /\ CustomerOf[j] = CustomerOf[i] /\ messages[j].sent > 0
                      /\ clock < messages[j].last + Cooldown

\* The questions of deliver_recovery and of request_approval.
Objection(i) ==
  \/ ~IsOpen(i)
  \/ messages[i].sent >= MaxTouches
  \/ CoolingDown(i)
  \/ \E a \in With("skipped") : InvoiceOf(a) = i

\* A failed attempt arrives; its row is there already.  The questions are one
\* step: an invoice that passes them one after the other passes all of them when
\* the first is asked, since rows close, mails count and skips stay.
PaymentFailed(i) ==
  /\ pc = "idle" /\ ~Objection(i)
  /\ pc' = "expire" /\ inv' = i /\ UNCHANGED req
  /\ UNCHANGED <<ledger, sweepers, mailbox, world>>

Paid(i) ==
  /\ pc = "idle" /\ IsOpen(i)
  /\ failures' = [failures EXCEPT ![i] = "recovered"]
  /\ UNCHANGED <<messages, approvals, loop, sweepers, mailbox, world>>

\* request_approval expires what is overdue, and no draft is touched.
ExpireQuietly ==
  /\ pc = "expire"
  /\ ExpireOverdue
  /\ Goto("create")
  /\ UNCHANGED <<failures, messages, sweepers, mailbox, world>>

Waiting(i) == \E a \in With("pending") : InvoiceOf(a) = i

\* open_draft: the row first, unless one is pending.
Create ==
  /\ pc = "create"
  /\ IF Waiting(inv)
       THEN Done /\ UNCHANGED approvals
       ELSE \E a \in With("none") :
              /\ approvals' = [approvals EXCEPT ![a] =
                   [Free EXCEPT !.invoice = inv, !.status = "pending",
                                !.created = clock, !.expires = clock + TTL]]
              /\ pc' = "draft" /\ req' = a /\ UNCHANGED inv
  /\ UNCHANGED <<failures, messages, sweepers, mailbox, world>>

CreateDraft ==
  /\ pc = "draft"
  /\ drafts' = drafts \cup {req}
  /\ Goto("store_id")
  /\ UNCHANGED <<ledger, sweepers, sentAt, kept, searchable, world>>

\* The mailbox does not answer: the draft may be there all the same.
CreateDraftFails ==
  /\ pc = "draft" /\ faults < MaxFaults
  /\ drafts' \in {drafts, drafts \cup {req}}
  /\ faults' = faults + 1
  /\ Goto("fail")
  /\ UNCHANGED <<ledger, sweepers, sentAt, kept, searchable, clock>>

MarkFailed ==
  /\ pc = "fail"
  /\ Resolve(req, "failed")
  /\ Done
  /\ UNCHANGED <<failures, messages, sweepers, mailbox, world>>

\* set_approval_external_id: whatever the row's status is by now.  The notices
\* that follow change nothing.
StoreId ==
  /\ pc = "store_id"
  /\ approvals' = [approvals EXCEPT ![req].external = TRUE]
  /\ Done
  /\ UNCHANGED <<failures, messages, sweepers, mailbox, world>>

Ask ==
  ExpireQuietly \/ Create \/ CreateDraft \/ CreateDraftFails \/ MarkFailed \/ StoreId

-------------------------------------------------------------------------------
\* The sweep: expire_approvals, then reconcile.

StepTo(s, label) == spc' = [spc EXCEPT ![s] = label]

Begin(s) ==
  /\ spc[s] = "idle"
  /\ ExpireOverdue
  /\ StepTo(s, "list")
  /\ UNCHANGED <<failures, messages, loop, todo, cur, at, ripe, blind, mailbox, world>>

\* now, and list_approvals.
List(s) ==
  /\ spc[s] = "list"
  /\ todo' = [todo EXCEPT ![s] = With("pending")]
  /\ at' = [at EXCEPT ![s] = clock]
  /\ StepTo(s, "row")
  /\ UNCHANGED <<ledger, loop, cur, ripe, blind, mailbox, world>>

\* What a row makes reconcile do first.
FirstCall(row, now) ==
  CASE row.expires <= now -> IF row.external THEN "delete" ELSE "expire"
    [] row.expires > now  -> IF row.external THEN "exists" ELSE "gone"

\* get_approval: what the row says now, but for its status.
FetchRow(s) ==
  /\ spc[s] = "row"
  /\ \E a \in todo[s] :
       /\ cur' = [cur EXCEPT ![s] = a]
       /\ todo' = [todo EXCEPT ![s] = @ \ {a}]
       /\ StepTo(s, FirstCall(approvals[a], at[s]))
       /\ blind' = IF approvals[a].external THEN blind ELSE blind \cup {a}
  /\ UNCHANGED <<ledger, loop, at, ripe, mailbox, world>>

PassOver(s) ==
  /\ spc[s] = "row" /\ todo[s] = {}
  /\ StepTo(s, "idle")
  /\ UNCHANGED <<ledger, loop, todo, cur, at, ripe, blind, mailbox, world>>

DeleteStale(s) ==
  /\ spc[s] = "delete"
  /\ drafts' = drafts \ {cur[s]}
  /\ StepTo(s, "expire")
  /\ UNCHANGED <<ledger, loop, todo, cur, at, ripe, blind, sentAt, kept, searchable, world>>

DraftExists(s) ==
  /\ spc[s] = "exists"
  /\ StepTo(s, IF cur[s] \in drafts THEN "present" ELSE "gone")
  /\ UNCHANGED <<ledger, loop, todo, cur, at, ripe, blind, mailbox, world>>

\* mark_approval_gone, FALSE
MarkPresent(s) ==
  /\ spc[s] = "present"
  /\ approvals' = [approvals EXCEPT ![cur[s]].gone = 0]
  /\ StepTo(s, "row")
  /\ UNCHANGED <<failures, messages, loop, todo, cur, at, ripe, blind, mailbox, world>>

GoneSince(a) == IF approvals[a].gone = 0 THEN clock ELSE approvals[a].gone

\* Mutant: a vanished draft is a refusal at once.
MarkGoneNoGrace(s) ==
  /\ spc[s] = "gone"
  /\ approvals' = [approvals EXCEPT ![cur[s]].gone = GoneSince(cur[s])]
  /\ ripe' = [ripe EXCEPT ![s] = TRUE]
  /\ StepTo(s, "search")
  /\ UNCHANGED <<failures, messages, loop, todo, cur, at, blind, mailbox, world>>

\* mark_approval_gone, TRUE: the first sighting is kept.
MarkGone(s) ==
  /\ spc[s] = "gone"
  /\ approvals' = [approvals EXCEPT ![cur[s]].gone = GoneSince(cur[s])]
  /\ ripe' = [ripe EXCEPT ![s] = GoneSince(cur[s]) + Grace <= at[s]]
  /\ StepTo(s, "search")
  /\ UNCHANGED <<failures, messages, loop, todo, cur, at, blind, mailbox, world>>

\* sent_since: to the same person, from about when the request was opened.
SentSince(a) ==
  {b \in searchable : /\ CustomerOf[InvoiceOf(b)] = CustomerOf[InvoiceOf(a)]
                      /\ sentAt[b] >= approvals[a].created}

\* Mutant: any message to the person will do.
MatchesAny(a) == SentSince(a) # {}

\* By the header, or else by the subject, whatever the header says.
Matches(a) ==
  \E b \in SentSince(a) :
    \/ b = a /\ "header" \in kept[b]
    \/ "subject" \in kept[b] /\ SubjectOf[InvoiceOf(b)] = SubjectOf[InvoiceOf(a)]

Search(s) ==
  /\ spc[s] = "search"
  /\ StepTo(s, IF Matches(cur[s]) THEN "state" ELSE IF ripe[s] THEN "skip" ELSE "row")
  /\ UNCHANGED <<ledger, loop, todo, cur, at, ripe, blind, mailbox, world>>

\* Mutant: the request is closed before its mail is counted.
ReadFailureCloseFirst(s) ==
  /\ spc[s] = "state"
  /\ Resolve(cur[s], "sent")
  /\ StepTo(s, IF IsOpen(InvoiceOf(cur[s])) THEN "record" ELSE "row")
  /\ UNCHANGED <<failures, messages, loop, todo, cur, at, ripe, blind, mailbox, world>>

\* get_failure: a closed invoice gets no record of the mail.
ReadFailure(s) ==
  /\ spc[s] = "state"
  /\ StepTo(s, IF IsOpen(InvoiceOf(cur[s])) THEN "record" ELSE "close")
  /\ UNCHANGED <<ledger, loop, todo, cur, at, ripe, blind, mailbox, world>>

OneMoreSent(rows) == [sent |-> rows.sent + 1, last |-> clock]

RecordSent(s) ==
  /\ spc[s] = "record"
  /\ messages' = [messages EXCEPT ![InvoiceOf(cur[s])] = OneMoreSent(@)]
  /\ StepTo(s, "move")
  /\ UNCHANGED <<failures, approvals, loop, todo, cur, at, ripe, blind, mailbox, world>>

\* transition to messaged.  An invoice closed meanwhile raises InvalidTransition,
\* which ends the pass: the request stays pending for the next.
MoveInvoice(s) ==
  /\ spc[s] = "move"
  /\ IF CanTransition(failures[InvoiceOf(cur[s])], "messaged")
       THEN /\ failures' = [failures EXCEPT ![InvoiceOf(cur[s])] = "messaged"]
            /\ StepTo(s, "close")
       ELSE StepTo(s, "idle") /\ UNCHANGED failures
  /\ UNCHANGED <<messages, approvals, loop, todo, cur, at, ripe, blind, mailbox, world>>

\* Mutant: the step's own name is written as the status.
OutcomeByLabel(label) == label

Outcome(label) == CASE label = "close"  -> "sent"
                    [] label = "skip"   -> "skipped"
                    [] label = "expire" -> "expired"

Settle(s) ==
  /\ spc[s] \in {"close", "skip", "expire"}
  /\ Resolve(cur[s], Outcome(spc[s]))
  /\ StepTo(s, "row")
  /\ UNCHANGED <<failures, messages, loop, todo, cur, at, ripe, blind, mailbox, world>>

Sweep(s) ==
  \/ Begin(s) \/ List(s) \/ FetchRow(s) \/ PassOver(s) \/ DeleteStale(s)
  \/ DraftExists(s) \/ MarkPresent(s) \/ MarkGone(s) \/ Search(s)
  \/ ReadFailure(s) \/ RecordSent(s) \/ MoveInvoice(s) \/ Settle(s)

-------------------------------------------------------------------------------
\* The person, and the mailbox.

SendDraft(a) ==
  /\ a \in drafts
  /\ drafts' = drafts \ {a}
  /\ sentAt' = [sentAt EXCEPT ![a] = clock]
  /\ \E e \in Evidence : kept' = [kept EXCEPT ![a] = e]
  /\ UNCHANGED <<ledger, loop, sweepers, searchable, world>>

DeleteDraft(a) ==
  /\ a \in drafts
  /\ drafts' = drafts \ {a}
  /\ UNCHANGED <<ledger, loop, sweepers, sentAt, kept, searchable, world>>

Hidden == {a \in Requests : sentAt[a] > 0 /\ a \notin searchable}

Appear(a) ==
  /\ a \in Hidden
  /\ searchable' = searchable \cup {a}
  /\ UNCHANGED <<ledger, loop, sweepers, drafts, sentAt, kept, world>>

-------------------------------------------------------------------------------
\* What goes wrong, and time.

\* A call to the mailbox raises: the row is left, the pass goes on.  A deletion
\* may have happened all the same.
MailboxError(s) ==
  /\ spc[s] \in {"delete", "exists", "search"} /\ faults < MaxFaults
  /\ faults' = faults + 1
  /\ drafts' \in {drafts, IF spc[s] = "delete" THEN drafts \ {cur[s]} ELSE drafts}
  /\ StepTo(s, "row")
  /\ UNCHANGED <<ledger, loop, todo, cur, at, ripe, blind, sentAt, kept, searchable,
                 clock>>

\* A call to the store raises: the pass is over.
PassError(s) ==
  /\ spc[s] \notin {"idle", "delete", "exists", "search"} /\ faults < MaxFaults
  /\ faults' = faults + 1
  /\ StepTo(s, "idle")
  /\ UNCHANGED <<ledger, loop, todo, cur, at, ripe, blind, mailbox, clock>>

\* So is the handler of the event loop.
LoopError ==
  /\ pc \notin {"idle", "draft"} /\ faults < MaxFaults
  /\ faults' = faults + 1
  /\ Done
  /\ UNCHANGED <<ledger, sweepers, mailbox, clock>>

Crash ==
  /\ faults < MaxFaults
  /\ faults' = faults + 1
  /\ Done /\ spc' = [s \in Sweepers |-> "idle"]
  /\ UNCHANGED <<ledger, todo, cur, at, ripe, blind, mailbox, clock>>

\* Assumed of the world: a sent message can be found before the grace period is
\* over, and a draft is opened within one (its call times out after 15 seconds).
Tick ==
  /\ clock < MaxClock
  /\ \A a \in Hidden : clock + 1 < sentAt[a] + Grace
  /\ pc \notin {"draft", "store_id", "fail"}
  /\ clock' = clock + 1
  /\ UNCHANGED <<ledger, loop, sweepers, mailbox, faults>>

-------------------------------------------------------------------------------
Next ==
  \/ \E i \in Invoices : PaymentFailed(i) \/ Paid(i)
  \/ Ask
  \/ \E s \in Sweepers : Sweep(s) \/ MailboxError(s) \/ PassError(s)
  \/ \E a \in Requests : SendDraft(a) \/ DeleteDraft(a) \/ Appear(a)
  \/ LoopError \/ Crash \/ Tick

Spec == Init /\ [][Next]_vars

-------------------------------------------------------------------------------
\* Properties.

Statuses == {"none", "pending", "sent", "skipped", "expired", "failed"}

\* Every variable stays in its type: the tables, the loop, the threads, the mailbox.
TypeOK ==
  /\ failures \in [Invoices -> RowStates]
  /\ messages \in [Invoices -> [sent : Nat, last : 0..MaxClock]]
  /\ approvals \in [Requests -> [invoice : Invoices \cup {NoInvoice}, status : Statuses,
                                 created : 0..MaxClock, expires : Nat,
                                 external : BOOLEAN, gone : 0..MaxClock]]
  /\ pc \in {"idle", "expire", "create", "draft", "store_id", "fail"}
  /\ inv \in Invoices \cup {NoInvoice} /\ req \in Requests \cup {NoRequest}
  /\ spc \in [Sweepers -> {"idle", "list", "row", "delete", "expire", "exists", "present",
                           "gone", "search", "state", "record", "move", "close", "skip"}]
  /\ todo \in [Sweepers -> SUBSET Requests] /\ cur \in [Sweepers -> Requests \cup {NoRequest}]
  /\ at \in [Sweepers -> 0..MaxClock] /\ ripe \in [Sweepers -> BOOLEAN]
  /\ blind \subseteq Requests
  /\ drafts \subseteq Requests /\ searchable \subseteq Requests
  /\ sentAt \in [Requests -> 0..MaxClock] /\ kept \in [Requests -> SUBSET {"header", "subject"}]
  /\ clock \in 1..MaxClock /\ faults \in 0..MaxFaults

\* The two things a mail program shows of a message, and the program fixes.
LetterOf == [i \in Invoices |-> <<CustomerOf[i], SubjectOf[i]>>]

\* Nothing the program reads tells a mail from one about i: it went to the same
\* person, with the same subject left intact, after a request about i was opened.
LooksLike(a, i) ==
  /\ LetterOf[InvoiceOf(a)] = LetterOf[i] /\ "subject" \in kept[a]
  /\ \E b \in Requests : InvoiceOf(b) = i /\ approvals[b].created <= sentAt[a]

MailsAbout(i) == {a \in Requests : sentAt[a] > 0 /\ (InvoiceOf(a) = i \/ LooksLike(a, i))}

\* The state only advances to messaged on a real send: the ledger claims a mail
\* about an invoice only if one left, or one that looks the same in the mailbox.
MessagedMeansMailed ==
  \A i \in Invoices :
    failures[i] = "messaged" \/ messages[i].sent > 0 => MailsAbout(i) # {}

\* A skip is trustworthy: a request that counts as refused was not sent, unless a
\* pass read its row before the draft's id was stored, and took it for vanished.
SkipIsRefusal ==
  \A a \in With("skipped") \ blind : sentAt[a] = 0

\* A refused or failed request leaves nothing to send, unless a fault kept the
\* program from knowing its draft.
RefusedLeavesNoDraft ==
  Cardinality({a \in With("skipped") \cup With("failed") : a \in drafts})
    <= faults

\* What counts as refused was not sent and cannot be sent any more.
RefusalsHold == SkipIsRefusal /\ RefusedLeavesNoDraft

\* A request is counted as one mail, once by each sweeper at most, and once more
\* for each pass that broke between the count and the closing of the request.
CountedPerRequest ==
  \A i \in Invoices :
    messages[i].sent <= Cardinality(Sweepers) *
      (Cardinality({a \in Requests : InvoiceOf(a) = i}) + faults)

\* The request is closed last: whichever call fails, a request that reads sent
\* has its mail counted, unless its invoice was closed.
SentIsCounted ==
  \A a \in With("sent") :
    messages[InvoiceOf(a)].sent > 0 \/ failures[InvoiceOf(a)] \in TerminalStates

\* The count that caps a sequence knows each mail sent from the mailbox, once.
CountIsHonest == CountedPerRequest /\ SentIsCounted

\* A pass works from the list it read: a request settled since, by the deadline
\* or by another pass, stays as it was settled.
SettledOnce ==
  [][\A a \in Requests :
       approvals[a].status \notin {"none", "pending"} =>
         approvals'[a].status = approvals[a].status]_approvals

\* Each step is one the contract of MailboxContract allows, or none at all: what a
\* pass works from may be stale, and what it writes down is written once and true.
Contract == INSTANCE MailboxContract WITH
  status <- [a \in Requests |-> approvals[a].status],
  about <- [a \in Requests |-> InvoiceOf(a)],
  known <- {a \in Requests : approvals[a].external},
  overlooked <- blind,
  sent <- {a \in Requests : sentAt[a] > 0},
  counted <- [i \in Invoices |-> messages[i].sent],
  closed <- {i \in Invoices : failures[i] \in TerminalStates},
  Letter <- LetterOf

KeepsMailboxContract == Contract!Spec

\* A stale draft must not be sendable.
StaleDraftGone == \A a \in With("expired") : a \notin drafts

===============================================================================
