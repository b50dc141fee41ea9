------------------------------- MODULE Approval -------------------------------
(***************************************************************************)
(* Human approval by email (app/approval.py, with the approval rows of     *)
(* app/store.py and the send of app/mailer.py), in one server process.     *)
(*                                                                         *)
(* The event loop runs one webhook or one decision at a time (both routes  *)
(* are async and do not await once the body is read), one store call after *)
(* the other.  Between two of its calls run: the threads of the sweep      *)
(* (POST /approvals/sweep and the background sweep), and the operator's    *)
(* command line, which suspends and resumes the tenant from a process of   *)
(* its own.  A store method is one step: in one process Database.lock makes *)
(* it so, and the operator's process uses single statements.               *)
(*                                                                         *)
(* Every invoice has its row already: RecoveryLoop shows how it came to be. *)
(* Message rows that record a refusal are read by no guard and left out,   *)
(* except the one that says a request expired.                             *)
(***************************************************************************)
EXTENDS Ledger, FiniteSets

CONSTANTS
  Requests,     \* bound: the ids the approvals table may hand out
  Invoices,
  Customers,
  CustomerOf,   \* the person each invoice belongs to
  Sweepers,     \* threads that run the sweep
  NoInvoice, NoRequest,
  MaxTouches,   \* PAYPILOT_MAX_TOUCHES
  Cooldown,     \* PAYPILOT_SEND_COOLDOWN_HOURS, in clock ticks
  TTL,          \* PAYPILOT_APPROVAL_TTL_HOURS, in clock ticks
  MaxClock,     \* bound: clock ticks
  MaxCrashes,   \* bound: processes killed
  MaxErrors,    \* bound: store errors and lost provider answers
  MaxPauses     \* bound: suspensions

ASSUME SetsAssumption ==
  /\ IsFiniteSet(Requests) /\ NoRequest \notin Requests /\ NoInvoice \notin Invoices
  /\ CustomerOf \in [Invoices -> Customers]
ASSUME NumbersAssumption ==
  /\ MaxTouches \in Nat \ {0} /\ Cooldown \in Nat /\ TTL \in Nat \ {0}
  /\ MaxClock \in Nat \ {0} /\ MaxCrashes \in Nat /\ MaxErrors \in Nat /\ MaxPauses \in Nat

VARIABLES
  failures,     \* the state of each invoice's row
  messages,     \* per invoice, its rows with status sent: how many, and the latest
  approvals,    \* the approvals table
  noted,        \* requests with an approval_expired message row
  tenant,       \* the status of the tenant's row
  unrecorded,   \* the mailer's memory of sends the ledger could not record
  pc, inv, req, \* the event loop: its next call, the invoice and the request it is about
  todo,         \* per sweeper, the expired requests it still has to note
  op,           \* the operator's command
  \* the world
  clock,        \* starts at 1: 0 stands for a timestamp not written
  mails,        \* per request, the mails that left for it
  pausedMails,  \* the mails that left in the current suspension
  spoilt,       \* requests whose send was not answered, or could not be marked sent
  crashes, errors, pauses

ledger == <<failures, messages, approvals, noted, tenant>>
loop   == <<pc, inv, req>>
faults == <<crashes, errors, pauses>>
world  == <<clock, mails, pausedMails, spoilt, faults>>
vars   == <<ledger, unrecorded, loop, todo, op, world>>

Free == [invoice |-> NoInvoice, status |-> "none", expires |-> 0, resolved |-> 0]

Init ==
  /\ failures = [i \in Invoices |-> "failed"]
  /\ messages = [i \in Invoices |-> [sent |-> 0, last |-> 0]]
  /\ approvals = [a \in Requests |-> Free]
  /\ noted = {} /\ tenant = "active" /\ unrecorded = {}
  /\ pc = "idle" /\ inv = NoInvoice /\ req = NoRequest
  /\ todo = [s \in Sweepers |-> {}]
  /\ op = "idle"
  /\ clock = 1 /\ mails = [a \in Requests |-> 0] /\ pausedMails = 0 /\ spoilt = {}
  /\ crashes = 0 /\ errors = 0 /\ pauses = 0

-------------------------------------------------------------------------------
\* The approvals table.

With(status) == {a \in Requests : approvals[a].status = status}

Overdue == {a \in With("pending") : approvals[a].expires <= clock}

\* Mutant: the deadline is left out of the claim.
LiveForever(a) == approvals[a].status = "pending"

Live(a) == approvals[a].status = "pending" /\ approvals[a].expires > clock

Claimed(a) == [approvals EXCEPT ![a].status = "approved", ![a].resolved = clock]

\* resolve_approval: the first resolved_at is kept.
Settled(row, to) ==
  [row EXCEPT !.status = to, !.resolved = IF @ = 0 THEN clock ELSE @]

Resolve(a, to, from) ==
  approvals' = IF approvals[a].status \in from
                 THEN [approvals EXCEPT ![a] = Settled(@, to)] ELSE approvals

Expire(S) ==
  approvals' = [a \in Requests |-> IF a \in S THEN Settled(approvals[a], "expired")
                                              ELSE approvals[a]]

-------------------------------------------------------------------------------
\* The event loop.

Goto(label) == pc' = label /\ UNCHANGED <<inv, req>>

Done == pc' = "idle" /\ inv' = NoInvoice /\ req' = NoRequest

IsOpen(i) == failures[i] \in OpenStates

CoolingDown(i) ==
  \E j \in Invoices : /\ CustomerOf[j] = CustomerOf[i] /\ messages[j].sent > 0
                      /\ clock < messages[j].last + Cooldown

\* Mutant: only a tenant that is gone counts as not active.
TenantNotGone == tenant \in {"active", "suspended"}

\* tenant_gate.
TenantActive == tenant = "active"

\* Mutant: a suspended tenant's failed attempts are processed.
PaymentFailedPaused(i) ==
  /\ pc = "idle"
  /\ pc' = "state" /\ inv' = i /\ UNCHANGED req
  /\ UNCHANGED <<ledger, unrecorded, todo, op, world>>

\* A failed attempt arrives, is claimed and recorded; a suspended tenant's is dropped.
PaymentFailed(i) ==
  /\ pc = "idle" /\ TenantActive
  /\ pc' = "state" /\ inv' = i /\ UNCHANGED req
  /\ UNCHANGED <<ledger, unrecorded, todo, op, world>>

\* A closing event, also for a suspended tenant.
Paid(i) ==
  /\ pc = "idle" /\ IsOpen(i)
  /\ failures' = [failures EXCEPT ![i] = "recovered"]
  /\ UNCHANGED <<messages, approvals, noted, tenant, unrecorded, loop, todo, op, world>>

\* Somebody answers a request: by the link in the mail, by an old link, by the
\* admin route.
Decide(a) ==
  /\ pc = "idle" /\ approvals[a].status # "none"
  /\ pc' = "tenant" /\ req' = a /\ inv' = approvals[a].invoice
  /\ UNCHANGED <<ledger, unrecorded, todo, op, world>>

\* The three questions of deliver_recovery, asked again by _recheck_before_sending.
Objection(question) ==
  CASE question = "state"    -> ~IsOpen(inv)
    [] question = "cap"      -> messages[inv].sent >= MaxTouches
    [] question = "cooldown" -> CoolingDown(inv)

AfterCheck ==
  CASE pc = "state"    -> "cap"
    [] pc = "cap"      -> "cooldown"
    [] pc = "cooldown" -> IF req = NoRequest THEN "skipped" ELSE "mailer"

Check ==
  /\ pc \in {"state", "cap", "cooldown"}
  /\ IF ~Objection(pc) THEN Goto(AfterCheck)
     ELSE IF req = NoRequest THEN Done ELSE Goto("block")
  /\ UNCHANGED <<ledger, unrecorded, todo, op, world>>

-------------------------------------------------------------------------------
\* request_approval.

\* Sending is off, the recipient is not cleared, or there is no approver to ask.
RefuseToAsk ==
  /\ pc = "skipped" \/ (pc = "create" /\ req = NoRequest)
  /\ Done
  /\ UNCHANGED <<ledger, unrecorded, todo, op, world>>

Skipped(i) == \E a \in With("skipped") : approvals[a].invoice = i

\* Mutant: the person who skipped is asked again.
CheckSkippedNever ==
  /\ pc = "skipped"
  /\ Goto("expire")
  /\ UNCHANGED <<ledger, unrecorded, todo, op, world>>

CheckSkipped ==
  /\ pc = "skipped"
  /\ IF Skipped(inv) THEN Done ELSE Goto("expire")
  /\ UNCHANGED <<ledger, unrecorded, todo, op, world>>

\* expire_approvals, from request_approval and from decide: what it returns is
\* dropped.
ExpireQuietly ==
  /\ pc = "expire"
  /\ Expire(Overdue)
  /\ IF req = NoRequest THEN Goto("create") ELSE Done
  /\ UNCHANGED <<failures, messages, noted, tenant, unrecorded, todo, op, world>>

\* The unique index: one pending request per invoice.
Waiting(i) == \E a \in With("pending") : approvals[a].invoice = i

Create ==
  /\ pc = "create"
  /\ IF Waiting(inv)
       THEN Done /\ UNCHANGED approvals
       ELSE \E a \in With("none") :
              /\ approvals' = [approvals EXCEPT ![a] =
                   [invoice |-> inv, status |-> "pending",
                    expires |-> clock + TTL, resolved |-> 0]]
              /\ pc' = "notify" /\ req' = a /\ UNCHANGED inv
  /\ UNCHANGED <<failures, messages, noted, tenant, unrecorded, todo, op, world>>

\* The approvers are mailed; if no mail is accepted the request is closed.
Notify ==
  /\ pc = "notify"
  /\ Done \/ Goto("give_up")
  /\ UNCHANGED <<ledger, unrecorded, todo, op, world>>

GiveUp ==
  /\ pc = "give_up"
  /\ Resolve(req, "failed", {"pending", "approved"})
  /\ Done
  /\ UNCHANGED <<failures, messages, noted, tenant, unrecorded, todo, op, world>>

-------------------------------------------------------------------------------
\* decide.

\* tenant_gate, then what the person asked for.  A status that cannot be read
\* ends the decision without a write.
Gate ==
  /\ pc = "tenant"
  /\ \/ Done
     \/ ~TenantActive /\ Goto("suspended")
     \/ TenantActive /\ (Goto("claim") \/ Goto("skip"))
  /\ UNCHANGED <<ledger, unrecorded, todo, op, world>>

\* Mutant: the reason is written where the status goes.
CloseSuspendedByReason ==
  /\ pc = "suspended"
  /\ Resolve(req, "suspension", {"pending"})
  /\ Done
  /\ UNCHANGED <<failures, messages, noted, tenant, unrecorded, todo, op, world>>

CloseSuspended ==
  /\ pc = "suspended"
  /\ Resolve(req, "expired", {"pending"})
  /\ Done
  /\ UNCHANGED <<failures, messages, noted, tenant, unrecorded, todo, op, world>>

Skip ==
  /\ pc = "skip"
  /\ Resolve(req, "skipped", {"pending"})
  /\ Done
  /\ UNCHANGED <<failures, messages, noted, tenant, unrecorded, todo, op, world>>

\* Mutants: the claim does not look at the status; nothing is checked again.
ClaimAgain ==
  /\ pc = "claim"
  /\ IF approvals[req].expires > clock
       THEN approvals' = Claimed(req) /\ Goto("state")
       ELSE Goto("fresh") /\ UNCHANGED approvals
  /\ UNCHANGED <<failures, messages, noted, tenant, unrecorded, todo, op, world>>

ClaimUnchecked ==
  /\ pc = "claim"
  /\ IF Live(req)
       THEN approvals' = Claimed(req) /\ Goto("mailer")
       ELSE Goto("fresh") /\ UNCHANGED approvals
  /\ UNCHANGED <<failures, messages, noted, tenant, unrecorded, todo, op, world>>

\* claim_approval: one UPDATE, the deadline in its WHERE.
Claim ==
  /\ pc = "claim"
  /\ IF Live(req)
       THEN approvals' = Claimed(req) /\ Goto("state")
       ELSE Goto("fresh") /\ UNCHANGED approvals
  /\ UNCHANGED <<failures, messages, noted, tenant, unrecorded, todo, op, world>>

\* Not claimed: still pending means overdue.
ReadFresh ==
  /\ pc = "fresh"
  /\ IF approvals[req].status = "pending" THEN Goto("expire") ELSE Done
  /\ UNCHANGED <<ledger, unrecorded, todo, op, world>>

Block ==
  /\ pc = "block"
  /\ Resolve(req, "blocked", {"approved"})
  /\ Done
  /\ UNCHANGED <<failures, messages, noted, tenant, unrecorded, todo, op, world>>

\* send_dunning_email: it asks for the tenant's status once more, and refuses
\* for reasons of configuration or text.
EnterMailer ==
  /\ pc = "mailer"
  /\ (TenantActive /\ Goto("send")) \/ Goto("fail")
  /\ UNCHANGED <<ledger, unrecorded, todo, op, world>>

\* The provider refuses, or today's send of this invoice is unrecorded.
Refused ==
  /\ pc = "send"
  /\ Goto("fail")
  /\ UNCHANGED <<ledger, unrecorded, todo, op, world>>

MailLeaves ==
  /\ mails' = [mails EXCEPT ![req] = @ + 1]
  /\ pausedMails' = IF tenant = "suspended" THEN pausedMails + 1 ELSE pausedMails

Post ==
  /\ pc = "send" /\ inv \notin unrecorded
  /\ MailLeaves
  /\ Goto("log")
  /\ UNCHANGED <<ledger, unrecorded, todo, op, clock, spoilt, faults>>

PostAnswerLost ==
  /\ pc = "send" /\ inv \notin unrecorded /\ errors < MaxErrors
  /\ MailLeaves
  /\ errors' = errors + 1 /\ spoilt' = spoilt \cup {req}
  /\ UNCHANGED <<ledger, unrecorded, loop, todo, op, clock, crashes, pauses>>

OneMoreSent(rows) == [sent |-> rows.sent + 1, last |-> clock]

RecordSent ==
  /\ pc = "log"
  /\ messages' = [messages EXCEPT ![inv] = OneMoreSent(@)]
  /\ Goto("mark")
  /\ UNCHANGED <<failures, approvals, noted, tenant, unrecorded, todo, op, world>>

RecordSentFails ==
  /\ pc = "log" /\ errors < MaxErrors
  /\ unrecorded' = unrecorded \cup {inv}
  /\ Goto("mark")
  /\ errors' = errors + 1
  /\ UNCHANGED <<ledger, todo, op, clock, mails, pausedMails, spoilt, crashes, pauses>>

\* The request first, then the invoice.
MarkSent ==
  /\ pc = "mark"
  /\ Resolve(req, "sent", {"approved"})
  /\ Goto("move")
  /\ UNCHANGED <<failures, messages, noted, tenant, unrecorded, todo, op, world>>

\* transition to messaged: nothing to write if it is there, and InvalidTransition
\* if it may not go there.
MoveInvoice ==
  /\ pc = "move"
  /\ IF CanTransition(failures[inv], "messaged")
       THEN failures' = [failures EXCEPT ![inv] = "messaged"] /\ Done
       ELSE Goto("except") /\ UNCHANGED failures
  /\ UNCHANGED <<messages, approvals, noted, tenant, unrecorded, todo, op, world>>

\* Mutant: the cleanup does not look at the status it overwrites.
MarkFailedAnyway ==
  /\ pc \in {"fail", "except"}
  /\ Resolve(req, "failed", {"approved", "sent"})
  /\ Done
  /\ UNCHANGED <<failures, messages, noted, tenant, unrecorded, todo, op, world>>

\* A send that did not happen, and the except clause around _decide_after_claim.
MarkFailed ==
  /\ pc \in {"fail", "except"}
  /\ Resolve(req, "failed", {"approved"})
  /\ Done
  /\ UNCHANGED <<failures, messages, noted, tenant, unrecorded, todo, op, world>>

Ask == RefuseToAsk \/ CheckSkipped \/ ExpireQuietly \/ Create \/ Notify \/ GiveUp

Answer ==
  \/ Gate \/ CloseSuspended \/ Skip \/ Claim \/ ReadFresh \/ Block
  \/ EnterMailer \/ Refused \/ Post \/ RecordSent \/ MarkSent \/ MoveInvoice \/ MarkFailed

-------------------------------------------------------------------------------
\* The sweep.

Sweep(s) ==
  /\ todo[s] = {}
  /\ Expire(Overdue)
  /\ todo' = [todo EXCEPT ![s] = Overdue]
  /\ UNCHANGED <<failures, messages, noted, tenant, unrecorded, loop, op, world>>

Note(s) ==
  /\ \E a \in todo[s] : /\ noted' = noted \cup {a}
                        /\ todo' = [todo EXCEPT ![s] = @ \ {a}]
  /\ UNCHANGED <<failures, messages, approvals, tenant, unrecorded, loop, op, world>>

-------------------------------------------------------------------------------
\* tenant_admin.suspend and resume, from the command line.

Suspend ==
  /\ op = "idle" /\ tenant = "active" /\ pauses < MaxPauses
  /\ tenant' = "suspended" /\ op' = "closing"
  /\ pauses' = pauses + 1 /\ pausedMails' = 0
  /\ UNCHANGED <<failures, messages, approvals, noted, unrecorded, loop, todo,
                 clock, mails, spoilt, crashes, errors>>

\* expire_all_pending_approvals
CloseAll ==
  /\ op = "closing"
  /\ Expire(With("pending"))
  /\ op' = "idle"
  /\ UNCHANGED <<failures, messages, noted, tenant, unrecorded, loop, todo, world>>

Resume ==
  /\ op = "idle" /\ tenant = "suspended"
  /\ tenant' = "active"
  /\ UNCHANGED <<failures, messages, approvals, noted, unrecorded, loop, todo, op, world>>

-------------------------------------------------------------------------------
\* What goes wrong.

\* Mutant: the try block ends with the send.
InTrySendOnly == pc \in {"mailer", "send", "fail"}

\* Where an exception reaches the except clause of decide.
InTry ==
  \/ pc \in {"block", "mailer", "send", "mark", "move", "fail"}
  \/ pc \in {"state", "cap", "cooldown"} /\ req # NoRequest

\* A store call raises before it commits.
StoreError ==
  /\ pc \notin {"idle", "notify", "log"} /\ errors < MaxErrors
  /\ errors' = errors + 1
  /\ IF InTry THEN Goto("except") ELSE Done
  /\ spoilt' = IF pc = "mark" THEN spoilt \cup {req} ELSE spoilt
  /\ UNCHANGED <<ledger, unrecorded, todo, op, clock, mails, pausedMails, crashes, pauses>>

\* The rest of this sweep is lost.
SweepError(s) ==
  /\ todo[s] # {} /\ errors < MaxErrors
  /\ todo' = [todo EXCEPT ![s] = {}]
  /\ errors' = errors + 1
  /\ UNCHANGED <<ledger, unrecorded, loop, op, clock, mails, pausedMails, spoilt,
                 crashes, pauses>>

\* The server dies, with its loop and its threads.
Crash ==
  /\ crashes < MaxCrashes
  /\ crashes' = crashes + 1
  /\ Done /\ todo' = [s \in Sweepers |-> {}]
  /\ UNCHANGED <<ledger, unrecorded, op, clock, mails, pausedMails, spoilt, errors, pauses>>

\* The command dies between its two writes.
OperatorDies ==
  /\ op = "closing" /\ crashes < MaxCrashes
  /\ op' = "idle" /\ crashes' = crashes + 1
  /\ UNCHANGED <<ledger, unrecorded, loop, todo, clock, mails, pausedMails, spoilt,
                 errors, pauses>>

Tick ==
  /\ clock < MaxClock
  /\ clock' = clock + 1
  /\ unrecorded' \in {unrecorded, {}}
  /\ UNCHANGED <<ledger, loop, todo, op, mails, pausedMails, spoilt, faults>>

-------------------------------------------------------------------------------
Next ==
  \/ \E i \in Invoices : PaymentFailed(i) \/ Paid(i)
  \/ \E a \in Requests : Decide(a)
  \/ Check \/ Ask \/ Answer
  \/ \E s \in Sweepers : Sweep(s) \/ Note(s) \/ SweepError(s)
  \/ Suspend \/ CloseAll \/ Resume
  \/ PostAnswerLost \/ RecordSentFails \/ StoreError \/ Crash \/ OperatorDies \/ Tick

Spec == Init /\ [][Next]_vars

-------------------------------------------------------------------------------
\* Properties.

Labels == {"idle", "state", "cap", "cooldown", "skipped", "expire", "create", "notify",
           "give_up", "tenant", "suspended", "skip", "claim", "fresh", "block", "mailer",
           "send", "log", "mark", "move", "fail", "except"}

Statuses == {"none", "pending", "approved", "sent", "skipped", "expired", "failed", "blocked"}

\* Every variable stays in its type: rows of the three tables, the loop, the
\* threads and the counters.
TypeOK ==
  /\ failures \in [Invoices -> RowStates]
  /\ messages \in [Invoices -> [sent : Nat, last : 0..MaxClock]]
  /\ approvals \in [Requests -> [invoice : Invoices \cup {NoInvoice}, status : Statuses,
                                 expires : Nat, resolved : 0..MaxClock]]
  /\ noted \subseteq Requests /\ tenant \in {"active", "suspended"}
  /\ unrecorded \subseteq Invoices
  /\ pc \in Labels /\ inv \in Invoices \cup {NoInvoice} /\ req \in Requests \cup {NoRequest}
  /\ todo \in [Sweepers -> SUBSET Requests]
  /\ op \in {"idle", "closing"}
  /\ clock \in 1..MaxClock /\ mails \in [Requests -> Nat] /\ pausedMails \in Nat
  /\ spoilt \subseteq Requests
  /\ crashes \in 0..MaxCrashes /\ errors \in 0..MaxErrors /\ pauses \in 0..MaxPauses

\* "From here every path must leave it in a terminal state": a request that
\* reads approved is in hand.  One process death strands one, and so does an
\* exception whose own cleanup fails, which takes two errors.
Stranded == {a \in With("approved") : ~(req = a /\ pc # "idle")}

NothingStranded == 2 * Cardinality(Stranded) <= 2 * crashes + errors

\* The mail has left: the request reads as sent once the decision is over, and
\* never as failed, unless the provider's answer was lost or the very write of
\* sent failed.
ReadsAsSent ==
  \A a \in Requests :
    mails[a] > 0 /\ approvals[a].status \notin {"sent", "approved"} => a \in spoilt

\* A mail leaves only on the word of a person given before the deadline.
DecidedInTime ==
  \A a \in Requests :
    mails[a] > 0 => approvals[a].resolved \in 1..(approvals[a].expires - 1)

\* A request ends, ends as what became of its mail, and a mail leaves in time.
RequestsAreHonest == NothingStranded /\ ReadsAsSent /\ DecidedInTime

\* Re-checked at the moment of sending: when an approved mail leaves, its invoice
\* is open, under the cap, and its customer out of the cooldown.
ClearWhenSent ==
  [][\A a \in Requests : mails'[a] # mails[a] =>
       LET i == approvals[a].invoice IN
       IsOpen(i) /\ messages[i].sent < MaxTouches /\ ~CoolingDown(i)]_mails

\* Skip is remembered: an invoice somebody skipped is not asked about again.
SkipIsRemembered ==
  [][\A a \in Requests :
       approvals[a].status = "none" /\ approvals'[a].status # "none" =>
         ~Skipped(approvals'[a].invoice)]_approvals

\* A suspended tenant's mail never leaves, but for the one already past the
\* mailer's gate and the retries of a lost answer.
PausedIsQuiet == tenant = "suspended" => pausedMails <= 1 + errors

\* Suspending closes what is pending: only the webhook in hand at that moment can
\* still open a request, unless the command died half way.
SuspensionCloses ==
  tenant = "suspended" /\ op = "idle" /\ crashes = 0 => Cardinality(With("pending")) <= 1

\* A suspension stops the mail and closes what waits.
SuspensionHolds == PausedIsQuiet /\ SuspensionCloses

\* An expired request is recorded as approval_expired.
ExpiryIsRecorded ==
  \A a \in With("expired") : a \in noted \/ \E s \in Sweepers : a \in todo[s]

\* How the contract sees the requests.
Contract == INSTANCE ApprovalContract WITH
  Cap    <- 1 + MaxErrors,
  status <- [a \in Requests |-> approvals[a].status]

\* Approval keeps its contract, whatever fails and whoever interferes (approval.py:150-427).
KeepsApprovalContract == Contract!Spec

===============================================================================
