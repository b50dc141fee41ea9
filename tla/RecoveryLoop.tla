----------------------------- MODULE RecoveryLoop -----------------------------
(***************************************************************************)
(* The closed loop of app/loop.py with unattended sending: Stripe delivers *)
(* events at least once and in any order, workers claim each delivery in   *)
(* the events table (app/api.py, _stripe_core), run the handler for its    *)
(* type one store call at a time, and answer.  A worker can be interrupted *)
(* between any two store calls: by another worker, by an exception (the    *)
(* claim is then released and Stripe is answered 5xx), or by the death of  *)
(* its process (nothing is released and Stripe is not answered).           *)
(*                                                                         *)
(* A store method that reads and then writes under Database.lock is two    *)
(* steps, "find"/"record" and "mark"/"write".  The lock lives in one       *)
(* process: SharedLock says whether the workers share it.                  *)
(*                                                                         *)
(* The messages table is kept as what the code asks of it: how many rows   *)
(* of an invoice are sent, how many bounced, and the latest sent_at.  Rows *)
(* that record a refusal are read by no guard and are left out.            *)
(***************************************************************************)
EXTENDS Ledger, Sequences, FiniteSets

CONSTANTS
  Workers,      \* concurrent executions of the webhook handler
  Events,       \* Stripe event ids
  Invoices,     \* invoice ids
  Customers,    \* the people behind the invoices
  Subs,         \* subscription ids
  NoInvoice,    \* an event that names no invoice
  NoSub,        \* an event or a row that names no subscription
  Body,         \* what each event says
  CustomerOf,   \* the person each invoice belongs to
  Amounts,      \* amounts in minor units
  MaxTouches,   \* PAYPILOT_MAX_TOUCHES
  Cooldown,     \* PAYPILOT_SEND_COOLDOWN_HOURS, in clock ticks
  SharedLock,   \* TRUE: the workers are in one process; FALSE: a process each
  MaxClock,     \* bound: clock ticks
  MaxCrashes,   \* bound: processes killed
  MaxErrors     \* bound: store errors, lost provider answers, failed writes

EventTypes == {"payment_failed", "paid", "deleted"}

ASSUME WorkersAssumption == IsFiniteSet(Workers) /\ Workers # {}
ASSUME NullAssumption == NoInvoice \notin Invoices /\ NoSub \notin Subs
ASSUME BodyAssumption ==
  /\ Events # {}
  /\ Body \in [Events -> [type     : EventTypes,
                          invoice  : Invoices \cup {NoInvoice},
                          sub      : Subs \cup {NoSub},
                          customer : Customers,
                          amount   : Amounts]]
ASSUME CustomerAssumption == CustomerOf \in [Invoices -> Customers]
ASSUME LimitsAssumption ==
  /\ MaxTouches \in Nat \ {0}
  /\ Cooldown \in Nat
  /\ SharedLock \in BOOLEAN
  /\ MaxClock \in Nat /\ MaxCrashes \in Nat /\ MaxErrors \in Nat
  /\ Amounts \subseteq Nat

VARIABLES
  \* the ledger: committed rows
  events,       \* claimed event ids
  earlyPaid,    \* invoices seen paid before they were seen failing
  failures,     \* one row per failed invoice
  transitions,  \* per invoice, the history of its moves
  messages,     \* per invoice, what the message rows add up to
  \* the mailer's memory of sends the ledger could not record
  unrecorded,
  \* the workers
  pc,           \* the next store call of each worker
  ev,           \* the event it is processing
  todo,         \* the invoices it still has to move
  row,          \* the invoice it is moving
  seen,         \* the state it read under the lock
  \* the world
  clock,
  acked,        \* events Stripe has been answered 2xx for
  applied,      \* events whose handler ran to its end
  unreleased,   \* events whose claim forget_event failed to delete
  mailed,       \* per invoice, the ticks at which an email left
  crashes,
  errors

ledger  == <<events, earlyPaid, failures, transitions, messages>>
workers == <<pc, ev, todo, row, seen>>
world   == <<clock, acked, applied, unreleased, mailed, crashes, errors>>
vars    == <<ledger, unrecorded, workers, world>>

NoRow == [state |-> "none", holdout |-> FALSE, sub |-> NoSub,
          amount |-> 0, recovered |-> 0]

Init ==
  /\ events = {} /\ earlyPaid = {}
  /\ failures = [i \in Invoices |-> NoRow]
  /\ transitions = [i \in Invoices |-> <<>>]
  /\ messages = [i \in Invoices |-> [sent |-> 0, bounced |-> 0, last |-> 0]]
  /\ unrecorded = {}
  /\ pc = [w \in Workers |-> "idle"]
  /\ ev = [w \in Workers |-> CHOOSE e \in Events : TRUE]
  /\ todo = [w \in Workers |-> {}]
  /\ row = [w \in Workers |-> NoInvoice]
  /\ seen = [w \in Workers |-> "none"]
  /\ clock = 0 /\ crashes = 0 /\ errors = 0
  /\ acked = {} /\ applied = {} /\ unreleased = {}
  /\ mailed = [i \in Invoices |-> <<>>]

-------------------------------------------------------------------------------
\* What the handlers read.

Event(w) == Body[ev[w]]
Invoice(w) == Event(w).invoice

IsOpen(i) == failures[i].state \in OpenStates

\* Mutant: a bounced mail stops counting as a touch.
SentOnlyCount(i) == messages[i].sent

SentMessageCount(i) == messages[i].sent + messages[i].bounced

\* The rows last_send_at looks at: sent or bounced, of the invoice or of its customer.
MailedAlike(i) ==
  {j \in Invoices : CustomerOf[j] = CustomerOf[i] /\ SentMessageCount(j) > 0}

\* Mutant: each invoice has its own window, a person has none.
CoolingDownByInvoice(i) ==
  i \in MailedAlike(i) /\ clock < messages[i].last + Cooldown

CoolingDown(i) == \E j \in MailedAlike(i) : clock < messages[j].last + Cooldown

Target(type) == CASE type = "payment_failed" -> "messaged"
                  [] type = "paid"           -> "recovered"
                  [] type = "deleted"        -> "churned"

\* Database.lock, held from the read to the commit of a read-then-write method.
LockFree(w) ==
  SharedLock => \A v \in Workers \ {w} : pc[v] \notin {"record", "write"}

Goto(w, label) == pc' = [pc EXCEPT ![w] = label]

\* The handler returns; what is left is the answer to Stripe.
Return(w) == Goto(w, "reply") /\ applied' = applied \cup {ev[w]}

\* The handler raises: _stripe_core has the claim to forget before it answers 5xx.
Raise(w) == Goto(w, "forget")

-------------------------------------------------------------------------------
\* One delivery: the durable claim, and the answer.

FirstCall(b) ==
  IF b.type = "deleted" THEN "open_by_sub"
  ELSE IF b.invoice = NoInvoice THEN "nothing"
  ELSE IF b.type = "payment_failed" THEN "early" ELSE "lookup"

\* Mutant: a plain insert, whose outcome nobody looks at.
DeliverUnchecked(w, e) ==
  /\ pc[w] = "idle"
  /\ events' = events \cup {e}
  /\ ev' = [ev EXCEPT ![w] = e]
  /\ Goto(w, FirstCall(Body[e]))
  /\ UNCHANGED <<earlyPaid, failures, transitions, messages, unrecorded,
                 todo, row, seen, world>>

Deliver(w, e) ==
  /\ pc[w] = "idle" /\ e \notin events
  /\ events' = events \cup {e}
  /\ ev' = [ev EXCEPT ![w] = e]
  /\ Goto(w, FirstCall(Body[e]))
  /\ UNCHANGED <<earlyPaid, failures, transitions, messages, unrecorded,
                 todo, row, seen, world>>

Replay(w, e) ==
  /\ pc[w] = "idle" /\ e \in events
  /\ acked' = acked \cup {e}
  /\ UNCHANGED <<ledger, unrecorded, workers, clock, applied, unreleased, mailed, crashes, errors>>

Unhandled(w) ==
  /\ pc[w] = "nothing"
  /\ Return(w)
  /\ UNCHANGED <<ledger, unrecorded, ev, todo, row, seen,
                 clock, acked, unreleased, mailed, crashes, errors>>

Reply(w) ==
  /\ pc[w] = "reply"
  /\ acked' = acked \cup {ev[w]}
  /\ Goto(w, "idle")
  /\ UNCHANGED <<ledger, unrecorded, ev, todo, row, seen,
                 clock, applied, unreleased, mailed, crashes, errors>>

-------------------------------------------------------------------------------
\* handle_payment_failed: open or update the row.

\* Mutant: nobody asks whether the invoice was already paid.
CheckEarlySkipped(w) ==
  /\ pc[w] = "early"
  /\ Goto(w, "find")
  /\ UNCHANGED <<ledger, unrecorded, ev, todo, row, seen, world>>

CheckEarly(w) ==
  /\ pc[w] = "early"
  /\ IF Invoice(w) \in earlyPaid
       THEN Return(w)
       ELSE Goto(w, "find") /\ UNCHANGED applied
  /\ UNCHANGED <<ledger, unrecorded, ev, todo, row, seen,
                 clock, acked, unreleased, mailed, crashes, errors>>

FindRow(w) ==
  /\ pc[w] = "find" /\ LockFree(w)
  /\ seen' = [seen EXCEPT ![w] = failures[Invoice(w)].state]
  /\ Goto(w, "record")
  /\ UNCHANGED <<ledger, unrecorded, ev, todo, row, world>>

\* COALESCE: an identifier the event does not carry keeps its old value.
Learn(sub, old) == IF sub = NoSub THEN old ELSE sub

\* The INSERT.  The arm is drawn from the configuration at each event, and
\* written only here.
Inserted(b, arm) ==
  [state |-> "failed", holdout |-> arm, sub |-> b.sub,
   amount |-> b.amount, recovered |-> 0]

\* Mutant: a late attempt rewrites the amount of a closed row.
UpdatedRepriced(was, old, b) ==
  [old EXCEPT !.sub = Learn(b.sub, @), !.amount = b.amount]

\* The two UPDATEs.  A terminal row keeps its amount.
Updated(was, old, b) ==
  [old EXCEPT !.sub = Learn(b.sub, @),
              !.amount = IF was \in TerminalStates THEN @ ELSE b.amount]

\* Mutants: the arm is drawn again at each attempt; a late attempt reopens the row.
RecordedRowRedrawn(was, old, b, arm) ==
  IF was = "none" THEN Inserted(b, arm)
                  ELSE [Updated(was, old, b) EXCEPT !.holdout = arm]

RecordedRowReopened(was, old, b, arm) ==
  IF was = "none" THEN Inserted(b, arm)
                  ELSE [Updated(was, old, b) EXCEPT !.state = "failed"]

RecordedRow(was, old, b, arm) ==
  IF was = "none" THEN Inserted(b, arm) ELSE Updated(was, old, b)

RecordFailure(w) ==
  LET i == Invoice(w) IN
  /\ pc[w] = "record"
  /\ seen[w] = "none" => failures[i].state = "none"
  /\ \E arm \in BOOLEAN :
       failures' = [failures EXCEPT ![i] = RecordedRow(seen[w], @, Event(w), arm)]
  /\ Goto(w, "gate")
  /\ UNCHANGED <<events, earlyPaid, transitions, messages, unrecorded,
                 ev, todo, row, seen, world>>

\* Two processes both saw no row: the second INSERT breaks the primary key.
RecordConflict(w) ==
  /\ pc[w] = "record" /\ seen[w] = "none" /\ failures[Invoice(w)].state # "none"
  /\ Raise(w)
  /\ UNCHANGED <<ledger, unrecorded, ev, todo, row, seen, world>>

\* record_failure writes, one way or the other.
StoreFailure(w) ==
  /\ pc[w] = "record"
  /\ IF seen[w] = "none" /\ failures[Invoice(w)].state # "none"
       THEN RecordConflict(w) ELSE RecordFailure(w)

-------------------------------------------------------------------------------
\* deliver_recovery: the checks, in the order the code makes them.

\* Mutant: the closed invoice is not looked for before the mail.
GateArmOnly(w) ==
  /\ pc[w] = "gate"
  /\ IF failures[Invoice(w)].holdout
       THEN Return(w)
       ELSE Goto(w, "cap") /\ UNCHANGED applied
  /\ UNCHANGED <<ledger, unrecorded, ev, todo, row, seen,
                 clock, acked, unreleased, mailed, crashes, errors>>

\* The control arm is read back from the row, and a closed invoice is left
\* alone.  The arm never changes once written, so both reads are one step.
Gate(w) ==
  /\ pc[w] = "gate"
  /\ IF failures[Invoice(w)].holdout \/ ~IsOpen(Invoice(w))
       THEN Return(w)
       ELSE Goto(w, "cap") /\ UNCHANGED applied
  /\ UNCHANGED <<ledger, unrecorded, ev, todo, row, seen,
                 clock, acked, unreleased, mailed, crashes, errors>>

\* Mutant: off by one.
CheckCapLate(w) ==
  /\ pc[w] = "cap"
  /\ IF SentMessageCount(Invoice(w)) > MaxTouches
       THEN Return(w)
       ELSE Goto(w, "cooldown") /\ UNCHANGED applied
  /\ UNCHANGED <<ledger, unrecorded, ev, todo, row, seen,
                 clock, acked, unreleased, mailed, crashes, errors>>

CheckCap(w) ==
  /\ pc[w] = "cap"
  /\ IF SentMessageCount(Invoice(w)) >= MaxTouches
       THEN Return(w)
       ELSE Goto(w, "cooldown") /\ UNCHANGED applied
  /\ UNCHANGED <<ledger, unrecorded, ev, todo, row, seen,
                 clock, acked, unreleased, mailed, crashes, errors>>

CheckCooldown(w) ==
  /\ pc[w] = "cooldown"
  /\ IF CoolingDown(Invoice(w))
       THEN Return(w)
       ELSE Goto(w, "send") /\ UNCHANGED applied
  /\ UNCHANGED <<ledger, unrecorded, ev, todo, row, seen,
                 clock, acked, unreleased, mailed, crashes, errors>>

\* Mutant: a refused send moves the invoice to messaged all the same.
RefuseButMark(w) ==
  /\ pc[w] = "send"
  /\ todo' = [todo EXCEPT ![w] = {Invoice(w)}]
  /\ Goto(w, "mark")
  /\ UNCHANGED <<ledger, unrecorded, ev, row, seen, world>>

\* Sending is off, the recipient is missing or not cleared, the guard refuses
\* the text, today's send is unrecorded, or the provider refuses: no state moves.
Refuse(w) ==
  /\ pc[w] = "send"
  /\ Return(w)
  /\ UNCHANGED <<ledger, unrecorded, ev, todo, row, seen,
                 clock, acked, unreleased, mailed, crashes, errors>>

\* _unrecorded_today.  A process reads the file of these sends once, so it may
\* miss what another process adds later.
SentToday(w) == SharedLock /\ Invoice(w) \in unrecorded

MailLeaves(i) == mailed' = [mailed EXCEPT ![i] = Append(@, clock)]

Post(w) ==
  /\ pc[w] = "send" /\ ~SentToday(w)
  /\ MailLeaves(Invoice(w))
  /\ Goto(w, "log")
  /\ UNCHANGED <<ledger, unrecorded, ev, todo, row, seen,
                 clock, acked, applied, unreleased, crashes, errors>>

\* The provider took the mail and its answer was lost: _post_to_resend tries
\* again, or gives up and the send is recorded as failed (Refuse).
PostAnswerLost(w) ==
  /\ pc[w] = "send" /\ ~SentToday(w) /\ errors < MaxErrors
  /\ MailLeaves(Invoice(w))
  /\ errors' = errors + 1
  /\ UNCHANGED <<ledger, unrecorded, workers, clock, acked, applied, unreleased, crashes>>

\* record_message with status sent.
OneMoreSent(rows) == [rows EXCEPT !.sent = @ + 1, !.last = clock]

RecordSent(w) ==
  /\ pc[w] = "log"
  /\ messages' = [messages EXCEPT ![Invoice(w)] = OneMoreSent(@)]
  /\ todo' = [todo EXCEPT ![w] = {Invoice(w)}]
  /\ Goto(w, "mark")
  /\ UNCHANGED <<events, earlyPaid, failures, transitions, unrecorded,
                 ev, row, seen, world>>

\* _record_delivered gives up after three writes: still a send, remembered
\* outside the ledger until the UTC day turns.
RecordSentFails(w) ==
  /\ pc[w] = "log" /\ errors < MaxErrors
  /\ unrecorded' = unrecorded \cup {Invoice(w)}
  /\ todo' = [todo EXCEPT ![w] = {Invoice(w)}]
  /\ Goto(w, "mark")
  /\ errors' = errors + 1
  /\ UNCHANGED <<ledger, ev, row, seen, clock, acked, applied, unreleased, mailed, crashes>>

-------------------------------------------------------------------------------
\* handle_recovery and handle_churn: which invoices to close.

\* Mutant: a payment without a row is not remembered.
LookUpForgetful(w) ==
  /\ pc[w] = "lookup"
  /\ IF failures[Invoice(w)].state = "none"
       THEN Return(w) /\ UNCHANGED todo
       ELSE /\ Goto(w, "mark") /\ todo' = [todo EXCEPT ![w] = {Invoice(w)}]
            /\ UNCHANGED applied
  /\ UNCHANGED <<ledger, unrecorded, ev, row, seen,
                 clock, acked, unreleased, mailed, crashes, errors>>

LookUp(w) ==
  /\ pc[w] = "lookup"
  /\ IF failures[Invoice(w)].state = "none"
       THEN Goto(w, "mark_early") /\ UNCHANGED todo
       ELSE Goto(w, "mark") /\ todo' = [todo EXCEPT ![w] = {Invoice(w)}]
  /\ UNCHANGED <<ledger, unrecorded, ev, row, seen, world>>

MarkEarlyPaid(w) ==
  /\ pc[w] = "mark_early"
  /\ earlyPaid' = earlyPaid \cup {Invoice(w)}
  /\ Return(w)
  /\ UNCHANGED <<events, failures, transitions, messages, unrecorded,
                 ev, todo, row, seen, clock, acked, unreleased, mailed, crashes, errors>>

OpenOfSub(s) == {i \in Invoices : IsOpen(i) /\ failures[i].sub = s}

OpenOfCustomer(c) == {i \in Invoices : IsOpen(i) /\ CustomerOf[i] = c}

OpenBySub(w) ==
  LET s == Event(w).sub
      found == IF s = NoSub THEN {} ELSE OpenOfSub(s) IN
  /\ pc[w] = "open_by_sub"
  /\ IF found = {}
       THEN Goto(w, "open_by_customer") /\ UNCHANGED todo
       ELSE Goto(w, "mark") /\ todo' = [todo EXCEPT ![w] = found]
  /\ UNCHANGED <<ledger, unrecorded, ev, row, seen, world>>

OpenByCustomer(w) ==
  LET found == OpenOfCustomer(Event(w).customer) IN
  /\ pc[w] = "open_by_customer"
  /\ IF found = {}
       THEN Return(w) /\ UNCHANGED todo
       ELSE /\ Goto(w, "mark") /\ todo' = [todo EXCEPT ![w] = found]
            /\ UNCHANGED applied
  /\ UNCHANGED <<ledger, unrecorded, ev, row, seen,
                 clock, acked, unreleased, mailed, crashes, errors>>

-------------------------------------------------------------------------------
\* Store.transition, once per invoice in todo.

ReadState(w) ==
  /\ pc[w] = "mark" /\ LockFree(w)
  /\ \E i \in todo[w] : /\ row' = [row EXCEPT ![w] = i]
                        /\ seen' = [seen EXCEPT ![w] = failures[i].state]
  /\ Goto(w, "write")
  /\ UNCHANGED <<ledger, unrecorded, ev, todo, world>>

Moved(old, to, b) ==
  [old EXCEPT !.state = to,
              !.recovered = IF to = "recovered" THEN b.amount ELSE @]

\* The next invoice, or the end of the handler.
Advance(w) ==
  /\ todo' = [todo EXCEPT ![w] = @ \ {row[w]}]
  /\ IF todo[w] \subseteq {row[w]}
       THEN Return(w)
       ELSE Goto(w, "mark") /\ UNCHANGED applied

WriteState(w) ==
  LET i == row[w]
      to == Target(Event(w).type) IN
  /\ pc[w] = "write" /\ CanTransition(seen[w], to) /\ seen[w] # to
  /\ failures' = [failures EXCEPT ![i] = Moved(@, to, Event(w))]
  /\ transitions' = [transitions EXCEPT ![i] = Append(@, <<seen[w], to>>)]
  /\ Advance(w)
  /\ UNCHANGED <<events, earlyPaid, messages, unrecorded, ev, row, seen,
                 clock, acked, unreleased, mailed, crashes, errors>>

AlreadyThere(w) ==
  /\ pc[w] = "write" /\ seen[w] = Target(Event(w).type)
  /\ Advance(w)
  /\ UNCHANGED <<ledger, unrecorded, ev, row, seen,
                 clock, acked, unreleased, mailed, crashes, errors>>

\* Mutant: churn then pay answers 5xx.
IllegalMoveRaises(w) ==
  LET to == Target(Event(w).type) IN
  /\ pc[w] = "write" /\ ~CanTransition(seen[w], to) /\ seen[w] # to
  /\ Raise(w)
  /\ UNCHANGED <<ledger, unrecorded, ev, todo, row, seen, world>>

\* InvalidTransition: handle_recovery acknowledges it, the others let it out.
IllegalMove(w) ==
  LET to == Target(Event(w).type) IN
  /\ pc[w] = "write" /\ ~CanTransition(seen[w], to) /\ seen[w] # to
  /\ IF Event(w).type = "paid"
       THEN Return(w)
       ELSE Raise(w) /\ UNCHANGED applied
  /\ UNCHANGED <<ledger, unrecorded, ev, todo, row, seen,
                 clock, acked, unreleased, mailed, crashes, errors>>

-------------------------------------------------------------------------------
\* After an exception: the release of the claim, a store call like any other.

Forget(w) ==
  /\ pc[w] = "forget"
  /\ events' = events \ {ev[w]}
  /\ Goto(w, "idle")
  /\ UNCHANGED <<earlyPaid, failures, transitions, messages, unrecorded,
                 ev, todo, row, seen, world>>

\* It raises in turn: Stripe is still answered 5xx, and the claim stays.
ForgetFails(w) ==
  /\ pc[w] = "forget" /\ errors < MaxErrors
  /\ unreleased' = unreleased \cup {ev[w]}
  /\ errors' = errors + 1
  /\ Goto(w, "idle")
  /\ UNCHANGED <<ledger, unrecorded, ev, todo, row, seen,
                 clock, acked, applied, mailed, crashes>>

-------------------------------------------------------------------------------
\* What happens to a worker, and around it.

\* A store call of the handler raises before it commits.  The record of an
\* accepted send is the one call that never raises (RecordSentFails).
StoreError(w) ==
  /\ pc[w] \notin {"idle", "nothing", "reply", "log", "forget"} /\ errors < MaxErrors
  /\ errors' = errors + 1
  /\ Raise(w)
  /\ UNCHANGED <<ledger, unrecorded, ev, todo, row, seen,
                 clock, acked, applied, unreleased, mailed, crashes>>

\* A process dies, with every worker in it.  Only committed rows survive.
Crash(w) ==
  LET dead == IF SharedLock THEN Workers ELSE {w} IN
  /\ crashes < MaxCrashes /\ pc[w] # "idle"
  /\ crashes' = crashes + 1
  /\ pc' = [v \in Workers |-> IF v \in dead THEN "idle" ELSE pc[v]]
  /\ UNCHANGED <<ledger, unrecorded, ev, todo, row, seen,
                 clock, acked, applied, unreleased, mailed, errors>>

\* update_message: a sent row turns bounced and keeps its sent_at.
TurnedBounced(rows) == [rows EXCEPT !.sent = @ - 1, !.bounced = @ + 1]

\* Mutant: any webhook about the message bounces it, once more each time.
BounceUnchecked(i) ==
  /\ messages' = [messages EXCEPT ![i] = TurnedBounced(@)]
  /\ UNCHANGED <<events, earlyPaid, failures, transitions, unrecorded, workers, world>>

\* mark_bounced, for a message the ledger holds as sent.
Bounce(i) ==
  /\ messages[i].sent > 0
  /\ messages' = [messages EXCEPT ![i] = TurnedBounced(@)]
  /\ UNCHANGED <<events, earlyPaid, failures, transitions, unrecorded, workers, world>>

\* Time passes; the UTC day may turn, and the mailer's memory is of one day.
Tick ==
  /\ clock < MaxClock
  /\ clock' = clock + 1
  /\ unrecorded' \in {unrecorded, {}}
  /\ UNCHANGED <<ledger, workers, acked, applied, unreleased, mailed, crashes, errors>>

-------------------------------------------------------------------------------
\* A step of the handler a worker is running.
Step(w) ==
  \/ Unhandled(w) \/ Reply(w)
  \/ CheckEarly(w) \/ FindRow(w) \/ StoreFailure(w)
  \/ Gate(w) \/ CheckCap(w) \/ CheckCooldown(w)
  \/ Refuse(w) \/ Post(w) \/ RecordSent(w)
  \/ LookUp(w) \/ MarkEarlyPaid(w) \/ OpenBySub(w) \/ OpenByCustomer(w)
  \/ ReadState(w) \/ WriteState(w) \/ AlreadyThere(w) \/ IllegalMove(w)
  \/ Forget(w)

Fault(w) ==
  \/ PostAnswerLost(w) \/ RecordSentFails(w) \/ StoreError(w)
  \/ ForgetFails(w) \/ Crash(w)

Receive(e) == \E w \in Workers : Deliver(w, e) \/ Replay(w, e)

Next ==
  \/ \E w \in Workers : Step(w) \/ Fault(w)
  \/ \E e \in Events : Receive(e)
  \/ \E i \in Invoices : Bounce(i)
  \/ Tick

Spec == Init /\ [][Next]_vars

\* Handlers finish, and Stripe retries an event it has no 2xx for.
FairSpec ==
  /\ Spec
  /\ \A w \in Workers : WF_vars(Step(w))
  /\ \A e \in Events : SF_vars(e \notin acked /\ Receive(e))

-------------------------------------------------------------------------------
\* Properties.

Labels == {"idle", "nothing", "reply", "early", "find", "record", "gate", "cap",
           "cooldown", "send", "log", "lookup", "mark_early", "open_by_sub",
           "open_by_customer", "mark", "write", "forget"}

\* Every variable stays in its type: rows, history, claims, workers and counters.
TypeOK ==
  /\ events \subseteq Events /\ earlyPaid \subseteq Invoices
  /\ failures \in [Invoices -> [state : RowStates \cup {"none"}, holdout : BOOLEAN,
                                sub : Subs \cup {NoSub}, amount : Nat, recovered : Nat]]
  /\ transitions \in [Invoices -> Seq(RowStates \X RowStates)]
  /\ messages \in [Invoices -> [sent : Nat, bounced : Nat, last : Nat]]
  /\ unrecorded \subseteq Invoices
  /\ pc \in [Workers -> Labels]
  /\ ev \in [Workers -> Events]
  /\ todo \in [Workers -> SUBSET Invoices]
  /\ row \in [Workers -> Invoices \cup {NoInvoice}]
  /\ seen \in [Workers -> RowStates \cup {"none"}]
  /\ clock \in 0..MaxClock /\ crashes \in 0..MaxCrashes /\ errors \in 0..MaxErrors
  /\ acked \subseteq Events /\ applied \subseteq Events /\ unreleased \subseteq Events
  /\ mailed \in [Invoices -> Seq(0..MaxClock)]

\* mark_event_seen inserts first, so one event is never in two handlers at
\* once, however often Stripe redelivers it and whichever process dies.
OneHandlerPerEvent ==
  \A v, w \in Workers :
    pc[v] # "idle" /\ pc[w] # "idle" /\ ev[v] = ev[w] => v = w

\* The sequence cap of deliver_recovery: with one handler at a time an invoice
\* never has more than MaxTouches sent or bounced rows, and each further
\* concurrent handler that passed the check before can add at most one.
TouchCap ==
  \A i \in Invoices : SentMessageCount(i) <= MaxTouches + Cardinality(Workers) - 1

\* Mails the ledger cannot know of: a crash between the provider's 2xx and the
\* row, a lost answer, a row that could not be written.
Slack == crashes * Cardinality(Workers) + errors

\* The same cap for the mails that really left: it is exceeded by one per lost
\* record at most, whatever the interleaving.
MailCap ==
  \A i \in Invoices :
    Len(mailed[i]) <= MaxTouches + Cardinality(Workers) - 1 + Slack

\* Both caps of a sequence, that of the ledger and that of the mailbox.
CapsKept == TouchCap /\ MailCap

MailsTo(c, ticks) ==
  UNION {{<<i, k>> : k \in {k \in DOMAIN mailed[i] : mailed[i][k] \in ticks}} :
           i \in {i \in Invoices : CustomerOf[i] = c}}

\* The suppression window of _cooldown_remaining: a person is not mailed twice
\* within Cooldown, about any of their invoices, beyond what concurrent
\* handlers and lost records add.
CooldownKept ==
  \A c \in Customers, t \in 0..MaxClock :
    Cardinality(MailsTo(c, {u \in t..MaxClock : u < t + Cooldown}))
      <= Cardinality(Workers) + Slack

\* A row is messaged only if a mail left, and the control arm never gets one:
\* the claim of deliver_recovery that the ledger does not flatter.
ArmsAreHonest ==
  \A i \in Invoices :
    /\ failures[i].state = "messaged" => mailed[i] # <<>>
    /\ failures[i].holdout => mailed[i] = <<>>

\* An invoice paid before its failure arrived never opens: the marker and the
\* row exclude each other, in whichever order the two events are handled.
EarlyPaidNeverOpens ==
  \A i \in earlyPaid : failures[i].state = "none"

\* The transitions table is a legal path from failed to the state of the row.
HistoryIsPath ==
  \A i \in Invoices :
    LET h == transitions[i] IN
    /\ h = <<>> => failures[i].state \in {"none", "failed"}
    /\ h # <<>> => h[1][1] = "failed" /\ h[Len(h)][2] = failures[i].state
    /\ \A k \in 1..Len(h) : CanTransition(h[k][1], h[k][2])
    /\ \A k \in 1..(Len(h) - 1) : h[k][2] = h[k + 1][1]

\* What the ledger says of an invoice is what happened to it: its arm and its
\* mails, its payment, and the path it took.
RowsAreHonest == ArmsAreHonest /\ EarlyPaidNeverOpens /\ HistoryIsPath

\* A closed row is closed for good, and keeps its amounts: neither a late
\* retry, nor a second closing event, nor a racing handler rewrites it.
TerminalIsFinal ==
  [][\A i \in Invoices : failures[i].state \in TerminalStates =>
       /\ failures'[i].state = failures[i].state
       /\ failures'[i].amount = failures[i].amount
       /\ failures'[i].recovered = failures[i].recovered]_failures

\* No mail leaves for an invoice the ledger knows is paid, cancelled or in the
\* control arm, at the moment it leaves.
NoMailToSettled ==
  [][\A i \in Invoices : mailed'[i] # mailed[i] =>
       IsOpen(i) /\ ~failures[i].holdout /\ i \notin earlyPaid]_mailed

\* forget_event's promise: Stripe is never told 2xx for an event whose handler
\* neither ran to its end nor is running.
NoEventSwallowed ==
  \A e \in acked : e \in applied \/ \E w \in Workers : pc[w] # "idle" /\ ev[w] = e

\* handle_churn's promise: cancelling one subscription does not churn an
\* invoice known to belong to another.
ChurnStaysInSubscription ==
  [][\A i \in Invoices :
       failures'[i].state = "churned" /\ failures[i].state # "churned" =>
         \E w \in Workers : /\ pc[w] = "write" /\ row[w] = i
                            /\ failures[i].sub \in {NoSub, Event(w).sub}]_failures

\* Every event Stripe sends is acknowledged in the end, and handled, whatever
\* store calls of its handlers fail; the one exception is an event whose claim
\* forget_event could not delete, which is then answered replayed
\* (api.py:1769-1771).
EveryEventLands == \A e \in Events : <>(e \in acked /\ e \in applied \cup unreleased)

\* A payment Stripe reports settles its invoice for good: the row is closed, or
\* will never open.  Only a claim that could not be released keeps it open.
PaymentsSettle ==
  \A e \in Events :
    Body[e].type = "paid" /\ Body[e].invoice \in Invoices =>
      <>[](\/ Body[e].invoice \in earlyPaid
           \/ failures[Body[e].invoice].state \in TerminalStates
           \/ e \in unreleased)

\* How the contract sees the rows and the mails of the loop.
Contract == INSTANCE DunningContract WITH
  Cap      <- MaxTouches + MaxCrashes + MaxErrors,
  status   <- [i \in Invoices |-> IF i \in earlyPaid THEN "early" ELSE failures[i].state],
  control  <- {i \in Invoices : failures[i].holdout},
  contacts <- [i \in Invoices |-> Len(mailed[i])]

\* The loop keeps the contract of DunningContract, whatever is redelivered, reordered or lost
\* (loop.py:102-470).
KeepsContract == Contract!Spec

===============================================================================
