----------------------------- MODULE MailboxProofs -----------------------------
(***************************************************************************)
(* Theorems about approval in the approver's mailbox (MailboxApproval), for *)
(* any number of requests, invoices, people and sweeps, any grace period    *)
(* and any number of faults.                                                *)
(***************************************************************************)
EXTENDS MailboxApproval, FiniteSetTheorems, TLAPS

-------------------------------------------------------------------------------
(* What the calls of the approvals table do to its rows. *)

Row == [invoice : Invoices \cup {NoInvoice}, status : Statuses,
        created : 0..MaxClock, expires : Nat, external : BOOLEAN, gone : 0..MaxClock]

RowsOK == approvals \in [Requests -> Row]

(* Nothing of the row of a changes but, perhaps, the fields a statement names. *)
KeepsTimes(a) ==
  /\ approvals'[a].invoice = approvals[a].invoice
  /\ approvals'[a].created = approvals[a].created
  /\ approvals'[a].expires = approvals[a].expires
OnlyStatus(a) ==
  /\ KeepsTimes(a)
  /\ approvals'[a].external = approvals[a].external
  /\ approvals'[a].gone = approvals[a].gone

(* resolve_approval changes the status of a pending row and nothing else. *)
LEMMA ResolveRow ==
  ASSUME RowsOK, NEW x, NEW to \in Statuses, Resolve(x, to)
  PROVE  /\ RowsOK'
         /\ \A a \in Requests :
              /\ OnlyStatus(a)
              /\ approvals'[a].status = IF a = x /\ approvals[a].status = "pending"
                                          THEN to ELSE approvals[a].status
<1>1. CASE approvals[x].status = "pending" /\ x \in Requests
  <2>1. approvals' = [approvals EXCEPT ![x] = [approvals[x] EXCEPT !.status = to]]
    BY <1>1 DEF Resolve, RowsOK
  <2>2. [approvals[x] EXCEPT !.status = to] \in Row
    BY <1>1 DEF RowsOK, Row
  <2>3. QED
    BY <1>1, <2>1, <2>2 DEF RowsOK, Row, OnlyStatus, KeepsTimes
<1>2. CASE ~(approvals[x].status = "pending" /\ x \in Requests)
  <2>1. approvals' = approvals
    BY <1>2 DEF Resolve, RowsOK
  <2>2. QED
    BY <1>2, <2>1 DEF RowsOK, OnlyStatus, KeepsTimes
<1>3. QED
  BY <1>1, <1>2

(* expire_approvals changes the status of overdue pending rows and nothing else. *)
LEMMA ExpireRows ==
  ASSUME RowsOK, ExpireOverdue
  PROVE  /\ RowsOK'
         /\ \A a \in Requests :
              /\ OnlyStatus(a)
              /\ approvals'[a].status =
                   IF approvals[a].status = "pending" /\ approvals[a].expires <= clock
                     THEN "expired" ELSE approvals[a].status
<1>1. ASSUME NEW a \in Requests
      PROVE  /\ approvals'[a] \in Row /\ OnlyStatus(a)
             /\ approvals'[a].status =
                  IF approvals[a].status = "pending" /\ approvals[a].expires <= clock
                    THEN "expired" ELSE approvals[a].status
  <2>1. CASE approvals[a].status = "pending" /\ approvals[a].expires <= clock
    <3>1. approvals'[a] = [approvals[a] EXCEPT !.status = "expired"]
      BY <2>1 DEF ExpireOverdue
    <3>2. QED
      BY <2>1, <3>1 DEF RowsOK, Row, Statuses, OnlyStatus, KeepsTimes
  <2>2. CASE ~(approvals[a].status = "pending" /\ approvals[a].expires <= clock)
    <3>1. approvals'[a] = approvals[a]
      BY <2>2 DEF ExpireOverdue
    <3>2. QED
      BY <2>2, <3>1 DEF RowsOK, OnlyStatus, KeepsTimes
  <2>3. QED
    BY <2>1, <2>2
<1>2. QED
  BY <1>1 DEF RowsOK, ExpireOverdue

(* mark_approval_gone writes the time of the first sighting and nothing else. *)
LEMMA GoneRow ==
  ASSUME RowsOK, NEW x, NEW t \in 0..MaxClock,
         approvals' = [approvals EXCEPT ![x].gone = t]
  PROVE  /\ RowsOK'
         /\ \A a \in Requests :
              /\ KeepsTimes(a)
              /\ approvals'[a].status = approvals[a].status
              /\ approvals'[a].external = approvals[a].external
              /\ a # x => approvals'[a].gone = approvals[a].gone
<1>1. CASE x \in Requests
  <2>1. approvals' = [approvals EXCEPT ![x] = [approvals[x] EXCEPT !.gone = t]]
    BY <1>1 DEF RowsOK
  <2>2. [approvals[x] EXCEPT !.gone = t] \in Row
    BY <1>1 DEF RowsOK, Row
  <2>3. QED
    BY <1>1, <2>1, <2>2 DEF RowsOK, Row, KeepsTimes
<1>2. CASE x \notin Requests
  <2>1. approvals' = approvals
    BY <1>2 DEF RowsOK
  <2>2. QED
    BY <1>2, <2>1 DEF RowsOK, KeepsTimes
<1>3. QED
  BY <1>1, <1>2

(* set_approval_external_id writes the draft's id and nothing else. *)
LEMMA StoredRow ==
  ASSUME RowsOK, NEW x, approvals' = [approvals EXCEPT ![x].external = TRUE]
  PROVE  /\ RowsOK'
         /\ \A a \in Requests :
              /\ KeepsTimes(a)
              /\ approvals'[a].status = approvals[a].status
              /\ approvals'[a].gone = approvals[a].gone
              /\ approvals'[a].external = IF a = x THEN TRUE ELSE approvals[a].external
<1>1. CASE x \in Requests
  <2>1. approvals' = [approvals EXCEPT ![x] = [approvals[x] EXCEPT !.external = TRUE]]
    BY <1>1 DEF RowsOK
  <2>2. [approvals[x] EXCEPT !.external = TRUE] \in Row
    BY <1>1 DEF RowsOK, Row
  <2>3. QED
    BY <1>1, <2>1, <2>2 DEF RowsOK, Row, KeepsTimes
<1>2. CASE x \notin Requests
  <2>1. approvals' = approvals
    BY <1>2 DEF RowsOK
  <2>2. QED
    BY <1>2, <2>1 DEF RowsOK, KeepsTimes
<1>3. QED
  BY <1>1, <1>2

(* open_draft inserts a pending row under a free id and touches no other. *)
LEMMA NewRow ==
  ASSUME RowsOK, clock \in 1..MaxClock, inv \in Invoices \cup {NoInvoice},
         NEW x \in Requests,
         approvals' = [approvals EXCEPT ![x] =
            [Free EXCEPT !.invoice = inv, !.status = "pending",
                         !.created = clock, !.expires = clock + TTL]]
  PROVE  /\ RowsOK'
         /\ \A a \in Requests \ {x} : approvals'[a] = approvals[a]
         /\ approvals'[x].invoice = inv /\ approvals'[x].status = "pending"
         /\ approvals'[x].created = clock /\ ~approvals'[x].external
         /\ approvals'[x].gone = 0
<1> DEFINE r1 == [Free EXCEPT !.invoice = inv]
           r2 == [r1 EXCEPT !.status = "pending"]
           r3 == [r2 EXCEPT !.created = clock]
           r4 == [r3 EXCEPT !.expires = clock + TTL]
<1>0. /\ Free \in [invoice : {NoInvoice}, status : Statuses, created : {0}, expires : {0},
                     external : {FALSE}, gone : {0}]
      /\ 0 \in 0..MaxClock
  BY MailboxNumbers DEF Free, Statuses
<1>1. /\ r1 \in Row /\ r1.invoice = inv /\ ~r1.external /\ r1.gone = 0
  <2>1. Free \in Row
    BY MailboxNumbers DEF Free, Row, Statuses
  <2>2. r1 \in Row
    BY <2>1 DEF Row
  <2>3. r1.invoice = inv /\ r1.gone = 0
    BY <1>0
  <2>4. r1.external = FALSE
    BY <1>0
  <2>5. QED
    BY <2>2, <2>3, <2>4
<1>2. approvals' = [approvals EXCEPT ![x] = r4]
  OBVIOUS
<1> HIDE DEF r1
<1>3. /\ r2 \in Row /\ r2.invoice = inv /\ r2.status = "pending"
      /\ ~r2.external /\ r2.gone = 0
  BY <1>1 DEF Row, Statuses
<1> HIDE DEF r2
<1>4. /\ r3 \in Row /\ r3.invoice = inv /\ r3.status = "pending"
      /\ r3.created = clock /\ ~r3.external /\ r3.gone = 0
  BY <1>3 DEF Row
<1> HIDE DEF r3
<1>5. clock + TTL \in Nat
  BY MailboxNumbers
<1>6. /\ r4 \in Row /\ r4.invoice = inv /\ r4.status = "pending"
      /\ r4.created = clock /\ ~r4.external /\ r4.gone = 0
  BY <1>4, <1>5 DEF Row
<1> HIDE DEF r4
<1>7. QED
  BY <1>2, <1>6 DEF RowsOK

-------------------------------------------------------------------------------
(* Type correctness. *)

(* What a step of the sweep knows about its calls. *)
SweepCalls ==
  {"idle", "list", "row", "delete", "expire", "exists", "present",
   "gone", "search", "state", "record", "move", "close", "skip"}

LEMMA TypeOfRows == TypeOK => RowsOK
BY DEF TypeOK, RowsOK, Row

LEMMA StepToType ==
  ASSUME TypeOK, NEW s \in Sweepers, NEW label \in SweepCalls, StepTo(s, label)
  PROVE  /\ spc' \in [Sweepers -> SweepCalls] /\ spc'[s] = label
         /\ \A t \in Sweepers \ {s} : spc'[t] = spc[t]
BY DEF TypeOK, StepTo, SweepCalls

(* The variables a sweep leaves to the others. *)
SweepTypes ==
  /\ spc \in [Sweepers -> SweepCalls]
  /\ todo \in [Sweepers -> SUBSET Requests] /\ cur \in [Sweepers -> Requests \cup {NoRequest}]
  /\ at \in [Sweepers -> 0..MaxClock] /\ ripe \in [Sweepers -> BOOLEAN]
  /\ blind \subseteq Requests
TableTypes ==
  /\ failures \in [Invoices -> RowStates]
  /\ messages \in [Invoices -> [sent : Nat, last : 0..MaxClock]]
  /\ RowsOK
LoopTypes ==
  /\ pc \in {"idle", "expire", "create", "draft", "store_id", "fail"}
  /\ inv \in Invoices \cup {NoInvoice} /\ req \in Requests \cup {NoRequest}
MailboxTypes ==
  /\ drafts \subseteq Requests /\ searchable \subseteq Requests
  /\ sentAt \in [Requests -> 0..MaxClock] /\ kept \in [Requests -> SUBSET {"header", "subject"}]
WorldTypes == clock \in 1..MaxClock /\ faults \in 0..MaxFaults

LEMMA TypeParts ==
  /\ TypeOK <=> TableTypes /\ LoopTypes /\ SweepTypes /\ MailboxTypes /\ WorldTypes
  /\ TypeOK' <=> /\ TableTypes' /\ LoopTypes' /\ SweepTypes'
                 /\ MailboxTypes' /\ WorldTypes'
BY DEF TypeOK, TableTypes, LoopTypes, SweepTypes, MailboxTypes, WorldTypes, RowsOK, Row,
       SweepCalls

(* The request in hand is one while its draft is opened, so that TypeOK is kept. *)
HandInv == pc \in {"draft", "store_id", "fail"} => req \in Requests

TypeInv == TypeOK /\ HandInv

LEMMA InitType == Init => TypeInv
<1> SUFFICES ASSUME Init PROVE TypeOK
  BY DEF Init, TypeInv, HandInv
<1>1. TableTypes
  <2>1. Free \in Row
    BY MailboxNumbers DEF Free, Row, Statuses
  <2>2. RowsOK
    BY <2>1 DEF Init, RowsOK
  <2>3. QED
    BY <2>2, MailboxNumbers DEF Init, TableTypes, RowStates, OpenStates
<1>2. LoopTypes /\ SweepTypes
  BY MailboxNumbers DEF Init, LoopTypes, SweepTypes, SweepCalls
<1>3. MailboxTypes /\ WorldTypes
  BY MailboxNumbers DEF Init, MailboxTypes, WorldTypes
<1>4. QED
  BY <1>1, <1>2, <1>3, TypeParts

(* The steps of the event loop. *)
LoopStep ==
  (\E i \in Invoices : PaymentFailed(i) \/ Paid(i)) \/ Ask \/ LoopError

LEMMA LoopType ==
  ASSUME TypeInv, LoopStep
  PROVE  TypeInv'
<1> SUFFICES TypeOK'
  <2>1. HandInv'
    BY DEF LoopStep, PaymentFailed, Paid, Ask, ExpireQuietly, Create, CreateDraft,
           CreateDraftFails, MarkFailed, StoreId, LoopError, Goto, Done, loop, TypeInv,
           HandInv, With
  <2>2. QED
    BY <2>1 DEF TypeInv
<1> USE DEF TypeInv
<1> USE TypeParts, TypeOfRows
<1>1. CASE \E i \in Invoices : PaymentFailed(i) \/ Paid(i)
  <2>1. TableTypes' /\ LoopTypes'
    BY <1>1 DEF PaymentFailed, Paid, ledger, loop, world, TableTypes, LoopTypes, RowsOK,
                RowStates, OpenStates, TerminalStates, IsOpen
  <2>2. SweepTypes' /\ MailboxTypes' /\ WorldTypes'
    BY <1>1 DEF PaymentFailed, Paid, sweepers, mailbox, world, SweepTypes, MailboxTypes,
                WorldTypes
  <2>3. QED
    BY <2>1, <2>2
<1>2. CASE ExpireQuietly
  <2>1. RowsOK'
    BY <1>2, ExpireRows DEF ExpireQuietly
  <2>2. TableTypes' /\ LoopTypes'
    BY <1>2, <2>1 DEF ExpireQuietly, Goto, TableTypes, LoopTypes
  <2>3. SweepTypes' /\ MailboxTypes' /\ WorldTypes'
    BY <1>2 DEF ExpireQuietly, sweepers, mailbox, world, SweepTypes, MailboxTypes, WorldTypes
  <2>4. QED
    BY <2>2, <2>3
<1>3. CASE Create
  <2>1. RowsOK' /\ LoopTypes'
    <3>1. CASE Waiting(inv)
      BY <1>3, <3>1 DEF Create, Done, LoopTypes, RowsOK
    <3>2. CASE ~Waiting(inv)
      <4>1. PICK a \in With("none") :
              /\ approvals' = [approvals EXCEPT ![a] =
                   [Free EXCEPT !.invoice = inv, !.status = "pending",
                                !.created = clock, !.expires = clock + TTL]]
              /\ pc' = "draft" /\ req' = a /\ UNCHANGED inv
        BY <1>3, <3>2 DEF Create
      <4>2. a \in Requests
        BY DEF With
      <4>3. clock \in 1..MaxClock /\ inv \in Invoices \cup {NoInvoice}
        BY DEF WorldTypes, LoopTypes
      <4>4. RowsOK'
        BY <4>1, <4>2, <4>3, NewRow
      <4>5. QED
        BY <4>1, <4>2, <4>4 DEF LoopTypes
    <3>3. QED
      BY <3>1, <3>2
  <2>2. TableTypes'
    BY <1>3, <2>1 DEF Create, TableTypes
  <2>3. SweepTypes' /\ MailboxTypes' /\ WorldTypes'
    BY <1>3 DEF Create, sweepers, mailbox, world, SweepTypes, MailboxTypes, WorldTypes
  <2>4. QED
    BY <2>1, <2>2, <2>3
<1>4. CASE CreateDraft \/ CreateDraftFails
  <2>1. TableTypes' /\ LoopTypes' /\ SweepTypes'
    BY <1>4 DEF CreateDraft, CreateDraftFails, Goto, ledger, sweepers, TableTypes, LoopTypes,
                SweepTypes, RowsOK
  <2>2. drafts' \subseteq Requests
    BY <1>4 DEF CreateDraft, CreateDraftFails, MailboxTypes, HandInv
  <2>3. MailboxTypes' /\ WorldTypes'
    BY <1>4, <2>2, MailboxNumbers DEF CreateDraft, CreateDraftFails, mailbox, world, MailboxTypes, WorldTypes
  <2>4. QED
    BY <2>1, <2>3
<1>5. CASE MarkFailed
  <2>1. RowsOK'
    BY <1>5, ResolveRow DEF MarkFailed, Statuses
  <2>2. TableTypes' /\ LoopTypes'
    BY <1>5, <2>1 DEF MarkFailed, Done, TableTypes, LoopTypes
  <2>3. SweepTypes' /\ MailboxTypes' /\ WorldTypes'
    BY <1>5 DEF MarkFailed, sweepers, mailbox, world, SweepTypes, MailboxTypes, WorldTypes
  <2>4. QED
    BY <2>2, <2>3
<1>6. CASE StoreId
  <2>1. RowsOK'
    BY <1>6, StoredRow DEF StoreId
  <2>2. TableTypes' /\ LoopTypes'
    BY <1>6, <2>1 DEF StoreId, Done, TableTypes, LoopTypes
  <2>3. SweepTypes' /\ MailboxTypes' /\ WorldTypes'
    BY <1>6 DEF StoreId, sweepers, mailbox, world, SweepTypes, MailboxTypes, WorldTypes
  <2>4. QED
    BY <2>2, <2>3
<1>7. CASE LoopError
  <2>1. TableTypes' /\ LoopTypes' /\ SweepTypes'
    BY <1>7 DEF LoopError, Done, ledger, sweepers, TableTypes, LoopTypes, SweepTypes, RowsOK
  <2>2. MailboxTypes' /\ WorldTypes'
    BY <1>7, MailboxNumbers DEF LoopError, mailbox, MailboxTypes, WorldTypes
  <2>3. QED
    BY <2>1, <2>2
<1>8. QED
  BY <1>1, <1>2, <1>3, <1>4, <1>5, <1>6, <1>7 DEF LoopStep, Ask

LEMMA SweepType ==
  ASSUME TypeInv, NEW s \in Sweepers, Sweep(s) \/ MailboxError(s) \/ PassError(s)
  PROVE  TypeInv'
<1> SUFFICES TypeOK'
  <2>1. UNCHANGED loop
    BY DEF Sweep, Begin, List, FetchRow, PassOver, DeleteStale, DraftExists, MarkPresent,
           MarkGone, Search, ReadFailure, RecordSent, MoveInvoice, Settle, MailboxError,
           PassError
  <2>2. QED
    BY <2>1 DEF TypeInv, HandInv, loop
<1> USE TypeParts, TypeOfRows DEF TypeInv
<1>1. CASE Begin(s)
  <2>1. RowsOK'
    BY <1>1, ExpireRows DEF Begin
  <2>2. SweepTypes'
    BY <1>1, StepToType DEF Begin, SweepTypes, SweepCalls
  <2>3. QED
    BY <1>1, <2>1, <2>2 DEF Begin, loop, mailbox, world, TableTypes, LoopTypes,
                            MailboxTypes, WorldTypes
<1>2. CASE List(s)
  <2>1. With("pending") \in SUBSET Requests /\ clock \in 0..MaxClock
    BY DEF With, WorldTypes
  <2>2. spc' \in [Sweepers -> SweepCalls]
    BY <1>2, StepToType DEF List, SweepCalls
  <2>3. SweepTypes'
    BY <1>2, <2>1, <2>2 DEF List, SweepTypes
  <2>4. QED
    BY <1>2, <2>3 DEF List, ledger, loop, mailbox, world, TableTypes, LoopTypes,
                      MailboxTypes, WorldTypes, RowsOK
<1>3. CASE FetchRow(s)
  <2>1. PICK a \in todo[s] :
          /\ cur' = [cur EXCEPT ![s] = a]
          /\ todo' = [todo EXCEPT ![s] = @ \ {a}]
          /\ StepTo(s, FirstCall(approvals[a], at[s]))
          /\ blind' = IF approvals[a].external THEN blind ELSE blind \cup {a}
    BY <1>3 DEF FetchRow
  <2>2. a \in Requests
    BY DEF SweepTypes
  <2>3. FirstCall(approvals[a], at[s]) \in SweepCalls
    BY <2>2, MailboxNumbers DEF FirstCall, SweepCalls, SweepTypes, RowsOK, Row
  <2>4. spc' \in [Sweepers -> SweepCalls]
    BY <2>1, <2>3, StepToType
  <2>5. SweepTypes'
    BY <1>3, <2>1, <2>2, <2>4 DEF FetchRow, SweepTypes
  <2>6. QED
    BY <1>3, <2>5 DEF FetchRow, ledger, loop, mailbox, world, TableTypes, LoopTypes,
                      MailboxTypes, WorldTypes, RowsOK
<1>4. CASE PassOver(s) \/ DraftExists(s) \/ Search(s) \/ ReadFailure(s)
  <2>1. spc' \in [Sweepers -> SweepCalls]
    BY <1>4, StepToType DEF PassOver, DraftExists, Search, ReadFailure, SweepCalls
  <2>2. SweepTypes'
    BY <1>4, <2>1 DEF PassOver, DraftExists, Search, ReadFailure, SweepTypes
  <2>3. QED
    BY <1>4, <2>2 DEF PassOver, DraftExists, Search, ReadFailure, ledger, loop, mailbox,
                      world, TableTypes, LoopTypes, MailboxTypes, WorldTypes, RowsOK
<1>5. CASE DeleteStale(s) \/ MailboxError(s)
  <2>1. spc' \in [Sweepers -> SweepCalls]
    BY <1>5, StepToType DEF DeleteStale, MailboxError, SweepCalls
  <2>2. SweepTypes'
    BY <1>5, <2>1 DEF DeleteStale, MailboxError, SweepTypes
  <2>3. MailboxTypes' /\ WorldTypes'
    BY <1>5, MailboxNumbers DEF DeleteStale, MailboxError, MailboxTypes, WorldTypes, world
  <2>4. QED
    BY <1>5, <2>2, <2>3 DEF DeleteStale, MailboxError, ledger, loop, TableTypes, LoopTypes, RowsOK
<1>6. CASE MarkPresent(s) \/ MarkGone(s)
  <2>1. GoneSince(cur[s]) \in 0..MaxClock \/ cur[s] \notin Requests
    BY DEF GoneSince, RowsOK, Row, WorldTypes
  <2>2. RowsOK'
    <3>1. CASE cur[s] \in Requests
      BY <1>6, <2>1, <3>1, MailboxNumbers, GoneRow DEF MarkPresent, MarkGone
    <3>2. CASE cur[s] \notin Requests
      <4>1. approvals' = approvals
        BY <1>6, <3>2 DEF MarkPresent, MarkGone, RowsOK
      <4>2. QED
        BY <4>1 DEF RowsOK
    <3>3. QED
      BY <3>1, <3>2
  <2>3. spc' \in [Sweepers -> SweepCalls]
    BY <1>6, StepToType DEF MarkPresent, MarkGone, SweepCalls
  <2>4. SweepTypes'
    <3>1. CASE MarkPresent(s)
      BY <3>1, <2>3 DEF MarkPresent, SweepTypes
    <3>2. CASE MarkGone(s)
      <4> DEFINE over == GoneSince(cur[s]) + Grace <= at[s]
      <4>1. ripe' = [ripe EXCEPT ![s] = over] /\ over \in BOOLEAN
        BY <3>2 DEF MarkGone
      <4> HIDE DEF over
      <4>2. ripe' \in [Sweepers -> BOOLEAN]
        BY <4>1 DEF SweepTypes
      <4>3. QED
        BY <3>2, <2>3, <4>2 DEF MarkGone, SweepTypes
    <3>3. QED
      BY <1>6, <3>1, <3>2
  <2>5. QED
    BY <1>6, <2>2, <2>4 DEF MarkPresent, MarkGone, loop, mailbox, world, TableTypes,
                            LoopTypes, MailboxTypes, WorldTypes
<1>7. CASE RecordSent(s)
  <2>1. messages' \in [Invoices -> [sent : Nat, last : 0..MaxClock]]
    <3>1. messages' = [messages EXCEPT ![InvoiceOf(cur[s])] =
                         OneMoreSent(messages[InvoiceOf(cur[s])])]
      BY <1>7 DEF RecordSent
    <3>2. CASE InvoiceOf(cur[s]) \in Invoices
      <4>1. messages[InvoiceOf(cur[s])].sent + 1 \in Nat /\ clock \in 0..MaxClock
        BY <3>2 DEF TableTypes, WorldTypes
      <4>2. OneMoreSent(messages[InvoiceOf(cur[s])]) \in [sent : Nat, last : 0..MaxClock]
        BY <4>1 DEF OneMoreSent
      <4>3. QED
        BY <3>1, <3>2, <4>2 DEF TableTypes
    <3>3. CASE InvoiceOf(cur[s]) \notin Invoices
      <4>1. messages' = messages
        BY <3>1, <3>3 DEF TableTypes
      <4>2. QED
        BY <4>1 DEF TableTypes
    <3>4. QED
      BY <3>2, <3>3
  <2>2. spc' \in [Sweepers -> SweepCalls]
    BY <1>7, StepToType DEF RecordSent, SweepCalls
  <2>3. SweepTypes'
    BY <1>7, <2>2 DEF RecordSent, SweepTypes
  <2>4. QED
    BY <1>7, <2>1, <2>3 DEF RecordSent, loop, mailbox, world, TableTypes, LoopTypes,
                            MailboxTypes, WorldTypes, RowsOK
<1>8. CASE MoveInvoice(s)
  <2>1. failures' \in [Invoices -> RowStates]
    BY <1>8 DEF MoveInvoice, TableTypes, RowStates, OpenStates
  <2>2. spc' \in [Sweepers -> SweepCalls]
    BY <1>8, StepToType DEF MoveInvoice, SweepCalls
  <2>3. SweepTypes'
    BY <1>8, <2>2 DEF MoveInvoice, SweepTypes
  <2>4. QED
    BY <1>8, <2>1, <2>3 DEF MoveInvoice, loop, mailbox, world, TableTypes, LoopTypes,
                            MailboxTypes, WorldTypes, RowsOK
<1>9. CASE Settle(s)
  <2>1. Outcome(spc[s]) \in Statuses
    BY <1>9 DEF Settle, Outcome, Statuses
  <2>2. RowsOK'
    BY <1>9, <2>1, ResolveRow DEF Settle
  <2>3. spc' \in [Sweepers -> SweepCalls]
    BY <1>9, StepToType DEF Settle, SweepCalls
  <2>4. SweepTypes'
    BY <1>9, <2>3 DEF Settle, SweepTypes
  <2>5. QED
    BY <1>9, <2>2, <2>4 DEF Settle, loop, mailbox, world, TableTypes, LoopTypes,
                            MailboxTypes, WorldTypes
<1>10. CASE PassError(s)
  <2>1. spc' \in [Sweepers -> SweepCalls]
    BY <1>10, StepToType DEF PassError, SweepCalls
  <2>2. SweepTypes' /\ WorldTypes'
    BY <1>10, <2>1, MailboxNumbers DEF PassError, SweepTypes, WorldTypes
  <2>3. QED
    BY <1>10, <2>2 DEF PassError, ledger, loop, mailbox, TableTypes, LoopTypes,
                       MailboxTypes, RowsOK
<1>11. QED
  BY <1>1, <1>2, <1>3, <1>4, <1>5, <1>6, <1>7, <1>8, <1>9, <1>10 DEF Sweep

(* The steps of the person, the mailbox, the clock, and a crash. *)
WorldStep ==
  (\E a \in Requests : SendDraft(a) \/ DeleteDraft(a) \/ Appear(a)) \/ Crash \/ Tick

LEMMA WorldType ==
  ASSUME TypeInv, WorldStep
  PROVE  TypeInv'
<1> USE TypeParts, TypeOfRows DEF TypeInv
<1>1. ASSUME NEW a \in Requests, SendDraft(a) \/ DeleteDraft(a) \/ Appear(a)
      PROVE  TypeInv'
  <2>1. MailboxTypes'
    <3>1. CASE SendDraft(a)
      <4>1. PICK e \in Evidence : kept' = [kept EXCEPT ![a] = e]
        BY <3>1 DEF SendDraft
      <4>2. e \in SUBSET {"header", "subject"}
        BY MailboxSets
      <4>3. kept' \in [Requests -> SUBSET {"header", "subject"}]
        BY <4>1, <4>2 DEF MailboxTypes
      <4>4. QED
        BY <3>1, <4>3 DEF SendDraft, MailboxTypes, WorldTypes
    <3>2. CASE DeleteDraft(a) \/ Appear(a)
      BY <3>2 DEF DeleteDraft, Appear, MailboxTypes
    <3>3. QED
      BY <1>1, <3>1, <3>2
  <2>2. QED
    BY <1>1, <2>1 DEF SendDraft, DeleteDraft, Appear, ledger, loop, sweepers, world, RowsOK,
                      TableTypes, LoopTypes, SweepTypes, WorldTypes, HandInv
<1>2. CASE Crash
  <2>1. SweepTypes' /\ WorldTypes' /\ LoopTypes' /\ HandInv'
    BY <1>2, MailboxNumbers DEF Crash, Done, SweepTypes, SweepCalls, WorldTypes, LoopTypes, HandInv
  <2>2. QED
    BY <1>2, <2>1 DEF Crash, ledger, mailbox, TableTypes, MailboxTypes, RowsOK
<1>3. CASE Tick
  <2>1. WorldTypes'
    BY <1>3, MailboxNumbers DEF Tick, WorldTypes
  <2>2. QED
    BY <1>3, <2>1 DEF Tick, ledger, loop, sweepers, mailbox, TableTypes, LoopTypes, SweepTypes,
                      MailboxTypes, RowsOK, HandInv
<1>4. QED
  BY <1>1, <1>2, <1>3 DEF WorldStep

(* Every step is the loop's, a sweep's or the world's. *)
LEMMA NextByActor ==
  ASSUME Next
  PROVE  \/ LoopStep
         \/ \E s \in Sweepers : Sweep(s) \/ MailboxError(s) \/ PassError(s)
         \/ WorldStep
BY DEF Next, LoopStep, WorldStep

LEMMA NextType == TypeInv /\ [Next]_vars => TypeInv'
<1> SUFFICES ASSUME TypeInv, [Next]_vars PROVE TypeInv'
  OBVIOUS
<1>1. CASE Next
  BY <1>1, NextByActor, LoopType, SweepType, WorldType
<1>2. CASE UNCHANGED vars
  <2>1. /\ TableTypes' /\ LoopTypes' /\ SweepTypes' /\ MailboxTypes' /\ WorldTypes'
        /\ HandInv'
    BY <1>2, TypeParts DEF vars, ledger, loop, sweepers, mailbox, world, TableTypes, LoopTypes,
         SweepTypes, MailboxTypes, WorldTypes, RowsOK, TypeInv, HandInv
  <2>2. QED
    BY <2>1, TypeParts DEF TypeInv
<1>3. QED
  BY <1>1, <1>2

(* Every variable of MailboxApproval stays in its type: the tables of the store, *)
(* the calls of open_draft and of reconcile, and the mailbox.                    *)
THEOREM MailboxTypeCorrect == Spec => []TypeOK
<1>1. Spec => []TypeInv
  BY InitType, NextType, PTL DEF Spec
<1>2. TypeInv => TypeOK
  BY DEF TypeInv
<1>3. QED
  BY <1>1, <1>2, PTL

-------------------------------------------------------------------------------
(* How one step moves the rows, the mails and the sweeps. *)

SweepStep(s) == Sweep(s) \/ MailboxError(s) \/ PassError(s)

(* A row that is there keeps its invoice and its dates; its draft's id stays once *)
(* stored; its status changes only while it is pending.                           *)
RowKept(a) ==
  /\ KeepsTimes(a) /\ approvals'[a].status # "none"
  /\ approvals[a].external => approvals'[a].external
  /\ approvals'[a].external => approvals[a].external \/ (StoreId /\ a = req)
  /\ approvals[a].status # "pending" => approvals'[a].status = approvals[a].status

LEMMA RowsMove ==
  ASSUME TypeInv, [Next]_vars
  PROVE  \A a \in Requests : approvals[a].status # "none" => RowKept(a)
<1> USE TypeOfRows DEF TypeInv
<1>1. CASE UNCHANGED approvals
  BY <1>1 DEF RowKept, KeepsTimes
<1>2. CASE ExpireOverdue
  BY <1>2, ExpireRows DEF RowKept, OnlyStatus
<1>3. CASE Create
  <2>1. CASE Waiting(inv)
    BY <1>3, <2>1 DEF Create, RowKept, KeepsTimes
  <2>2. CASE ~Waiting(inv)
    <3>1. PICK x \in With("none") :
            approvals' = [approvals EXCEPT ![x] =
               [Free EXCEPT !.invoice = inv, !.status = "pending",
                            !.created = clock, !.expires = clock + TTL]]
      BY <1>3, <2>2 DEF Create
    <3>2. x \in Requests /\ approvals[x].status = "none"
      BY DEF With
    <3>3. \A a \in Requests \ {x} : approvals'[a] = approvals[a]
      BY <3>1, <3>2 DEF RowsOK
    <3>4. QED
      BY <3>2, <3>3 DEF RowKept, KeepsTimes
  <2>3. QED
    BY <2>1, <2>2
<1>4. CASE MarkFailed
  BY <1>4, ResolveRow DEF MarkFailed, Statuses, RowKept, OnlyStatus
<1>5. CASE StoreId
  BY <1>5, StoredRow DEF StoreId, RowKept
<1>6. ASSUME NEW s \in Sweepers, MarkPresent(s) \/ MarkGone(s)
      PROVE  \A a \in Requests : approvals[a].status # "none" => RowKept(a)
  <2>1. CASE cur[s] \in Requests
    <3>1. GoneSince(cur[s]) \in 0..MaxClock /\ 0 \in 0..MaxClock
      BY <2>1, MailboxNumbers, TypeParts DEF GoneSince, RowsOK, Row, WorldTypes
    <3>2. PICK t \in 0..MaxClock : approvals' = [approvals EXCEPT ![cur[s]].gone = t]
      BY <1>6, <3>1 DEF MarkPresent, MarkGone
    <3>3. QED
      BY <3>2, GoneRow DEF RowKept
  <2>2. CASE cur[s] \notin Requests
    <3>1. approvals' = approvals
      BY <1>6, <2>2 DEF MarkPresent, MarkGone, RowsOK
    <3>2. QED
      BY <3>1 DEF RowKept, KeepsTimes
  <2>3. QED
    BY <2>1, <2>2
<1>7. ASSUME NEW s \in Sweepers, Settle(s)
      PROVE  \A a \in Requests : approvals[a].status # "none" => RowKept(a)
  <2>1. Outcome(spc[s]) \in Statuses \ {"none"}
    BY <1>7 DEF Settle, Outcome, Statuses
  <2>2. QED
    BY <1>7, <2>1, ResolveRow DEF Settle, RowKept, OnlyStatus
<1>8. CASE LoopStep
  <2>1. UNCHANGED approvals \/ ExpireOverdue \/ Create \/ MarkFailed \/ StoreId
    BY <1>8 DEF LoopStep, Ask, PaymentFailed, Paid, LoopError, ExpireQuietly, CreateDraft,
                CreateDraftFails, ledger
  <2>2. QED
    BY <2>1, <1>1, <1>2, <1>3, <1>4, <1>5
<1>9. ASSUME NEW s \in Sweepers, SweepStep(s)
      PROVE  \A a \in Requests : approvals[a].status # "none" => RowKept(a)
  <2>1. \/ UNCHANGED approvals \/ ExpireOverdue \/ MarkPresent(s) \/ MarkGone(s)
        \/ Settle(s)
    BY <1>9 DEF SweepStep, Sweep, Begin, List, FetchRow, PassOver, DeleteStale, DraftExists,
                Search, ReadFailure, RecordSent, MoveInvoice, MailboxError, PassError, ledger
  <2>2. QED
    BY <2>1, <1>1, <1>2, <1>6, <1>7
<1>10. CASE WorldStep \/ UNCHANGED vars
  <2>1. UNCHANGED approvals
    BY <1>10 DEF WorldStep, SendDraft, DeleteDraft, Appear, Crash, Tick, vars, ledger
  <2>2. QED
    BY <2>1, <1>1
<1>11. QED
  BY <1>8, <1>9, <1>10, NextByActor DEF SweepStep

(* A pass works from the list it read, and open_draft from the row it made: a    *)
(* request that is settled stays as it was settled, whoever else works on it     *)
(* (resolve_approval and expire_approvals ask for a pending row).                *)
THEOREM SettledForGood == Spec => SettledOnce
<1>1. ASSUME TypeInv, [Next]_vars
      PROVE  [\A a \in Requests :
                approvals[a].status \notin {"none", "pending"} =>
                  approvals'[a].status = approvals[a].status]_approvals
  BY <1>1, RowsMove DEF RowKept
<1>2. Spec => []TypeInv
  BY InitType, NextType, PTL DEF Spec
<1>3. QED
  BY <1>1, <1>2, PTL DEF Spec, SettledOnce

(* A mail leaves when its draft does, and only the loop makes drafts. *)
MailMove(a) ==
  /\ a \in drafts' => a \in drafts \/ (pc = "draft" /\ a = req)
  /\ \/ sentAt'[a] = sentAt[a] /\ kept'[a] = kept[a]
     \/ /\ a \in drafts /\ a \notin drafts' /\ sentAt'[a] = clock /\ kept'[a] \in Evidence
        /\ UNCHANGED <<ledger, loop, sweepers, clock>>
  /\ a \in searchable => a \in searchable'
  /\ a \in searchable' => a \in searchable \/ sentAt[a] > 0

LEMMA MailsMove ==
  ASSUME TypeInv, [Next]_vars
  PROVE  \A a \in Requests : MailMove(a)
<1> SUFFICES ASSUME NEW a \in Requests PROVE MailMove(a)
  OBVIOUS
<1> USE TypeParts DEF TypeInv
<1>1. CASE LoopStep
  <2>1. UNCHANGED <<sentAt, kept, searchable>>
    BY <1>1 DEF LoopStep, Ask, PaymentFailed, Paid, LoopError, ExpireQuietly, Create, CreateDraft,
                CreateDraftFails, MarkFailed, StoreId, mailbox
  <2>2. a \in drafts' => a \in drafts \/ (pc = "draft" /\ a = req)
    BY <1>1 DEF LoopStep, Ask, PaymentFailed, Paid, LoopError, ExpireQuietly, Create, CreateDraft,
                CreateDraftFails, MarkFailed, StoreId, mailbox
  <2>3. QED
    BY <2>1, <2>2 DEF MailMove
<1>2. ASSUME NEW s \in Sweepers, SweepStep(s)
      PROVE  MailMove(a)
  <2>1. UNCHANGED <<sentAt, kept, searchable>>
    BY <1>2 DEF SweepStep, Sweep, Begin, List, FetchRow, PassOver, DeleteStale, DraftExists,
                MarkPresent, MarkGone, Search, ReadFailure, RecordSent, MoveInvoice, Settle,
                MailboxError, PassError, mailbox
  <2>2. drafts' \subseteq drafts
    BY <1>2 DEF SweepStep, Sweep, Begin, List, FetchRow, PassOver, DeleteStale, DraftExists,
                MarkPresent, MarkGone, Search, ReadFailure, RecordSent, MoveInvoice, Settle,
                MailboxError, PassError, mailbox
  <2>3. QED
    BY <2>1, <2>2 DEF MailMove
<1>3. ASSUME NEW b \in Requests, SendDraft(b)
      PROVE  MailMove(a)
  <2>1. PICK e \in Evidence : kept' = [kept EXCEPT ![b] = e]
    BY <1>3 DEF SendDraft
  <2>2. CASE a = b
    BY <1>3, <2>1, <2>2 DEF SendDraft, MailMove, MailboxTypes, world
  <2>3. CASE a # b
    BY <1>3, <2>1, <2>3 DEF SendDraft, MailMove, MailboxTypes
  <2>4. QED
    BY <2>2, <2>3
<1>4. ASSUME NEW b \in Requests, DeleteDraft(b) \/ Appear(b)
      PROVE  MailMove(a)
  BY <1>4 DEF DeleteDraft, Appear, Hidden, MailMove
<1>5. CASE Crash \/ Tick \/ UNCHANGED vars
  BY <1>5 DEF Crash, Tick, vars, mailbox, MailMove
<1>6. QED
  BY <1>1, <1>2, <1>3, <1>4, <1>5, NextByActor DEF SweepStep, WorldStep

(* Time passes in a step of its own. *)
LEMMA TimeMoves ==
  ASSUME [Next]_vars
  PROVE  \/ clock' = clock
         \/ Tick
BY NextByActor DEF LoopStep, Sweep, WorldStep, Ask, PaymentFailed, Paid, LoopError, ExpireQuietly,
   Create, CreateDraft, CreateDraftFails, MarkFailed, StoreId, Begin, List, FetchRow, PassOver,
   DeleteStale, DraftExists, MarkPresent, MarkGone, Search, ReadFailure, RecordSent, MoveInvoice,
   Settle, MailboxError, PassError, SendDraft, DeleteDraft, Appear, Crash, vars, world

(* A sweep in a pass; a sweep with a request at hand. *)
Passing(s) == spc[s] \notin {"idle", "list"}
Working(s) == spc[s] \notin {"idle", "list", "row"}

(* What a step of any actor does to one sweep. *)
SweepKept(s) ==
  /\ spc'[s] = spc[s] /\ todo'[s] = todo[s] /\ cur'[s] = cur[s]
  /\ at'[s] = at[s] /\ ripe'[s] = ripe[s]
SameRequest(s) == todo'[s] = todo[s] /\ cur'[s] = cur[s] /\ at'[s] = at[s]

(* The calls after which a sweep has the same request at hand. *)
WorkCall(s) ==
  \/ DeleteStale(s) \/ DraftExists(s) \/ MarkGone(s) \/ Search(s) \/ ReadFailure(s)
  \/ RecordSent(s) \/ MoveInvoice(s)

(* Those after which it goes on to the next one, and those that begin or end a pass. *)
NextCall(s) == MarkPresent(s) \/ Search(s) \/ Settle(s) \/ MailboxError(s)
StopCall(s) == Begin(s) \/ PassOver(s) \/ PassError(s) \/ MoveInvoice(s) \/ Crash

SweepMove(s) ==
  \/ SweepKept(s)
  \/ spc'[s] \in {"idle", "list"} /\ SameRequest(s) /\ StopCall(s)
  \/ List(s)
  \/ FetchRow(s)
  \/ Working(s) /\ spc'[s] = "row" /\ SameRequest(s) /\ NextCall(s)
  \/ /\ Working(s) /\ spc'[s] \notin {"idle", "list", "row"} /\ SameRequest(s)
     /\ WorkCall(s)

LEMMA SweepsMove ==
  ASSUME TypeInv, [Next]_vars
  PROVE  \A s \in Sweepers : SweepMove(s)
<1> SUFFICES ASSUME NEW s \in Sweepers PROVE SweepMove(s)
  OBVIOUS
<1> USE TypeParts DEF TypeInv
<1>1. CASE LoopStep
  BY <1>1 DEF LoopStep, Ask, PaymentFailed, Paid, LoopError, ExpireQuietly, Create, CreateDraft,
              CreateDraftFails, MarkFailed, StoreId, sweepers, SweepMove, SweepKept
<1>2. CASE WorldStep \/ UNCHANGED vars
  BY <1>2 DEF WorldStep, SendDraft, DeleteDraft, Appear, Crash, Tick, vars, sweepers, SweepMove,
              SweepKept, SameRequest, StopCall
<1>3. ASSUME NEW t \in Sweepers, SweepStep(t), t # s
      PROVE  SweepKept(s)
  <2>1. CASE Begin(t) \/ PassOver(t) \/ DeleteStale(t) \/ DraftExists(t) \/ MarkPresent(t)
    BY <1>3, <2>1 DEF Begin, PassOver, DeleteStale, DraftExists, MarkPresent, StepTo, SweepTypes,
                      SweepKept
  <2>2. CASE List(t) \/ FetchRow(t) \/ MarkGone(t)
    BY <1>3, <2>2 DEF List, FetchRow, MarkGone, StepTo, SweepTypes, SweepKept
  <2>3. CASE Search(t) \/ ReadFailure(t) \/ RecordSent(t) \/ MoveInvoice(t) \/ Settle(t)
    BY <1>3, <2>3 DEF Search, ReadFailure, RecordSent, MoveInvoice, Settle, StepTo, SweepTypes,
                      SweepKept
  <2>4. CASE MailboxError(t) \/ PassError(t)
    BY <1>3, <2>4 DEF MailboxError, PassError, StepTo, SweepTypes, SweepKept
  <2>5. QED
    BY <1>3, <2>1, <2>2, <2>3, <2>4 DEF SweepStep, Sweep
<1>4. CASE SweepStep(s)
  <2>1. CASE Begin(s) \/ PassOver(s) \/ PassError(s)
    BY <2>1 DEF Begin, PassOver, PassError, StepTo, SweepTypes, SweepMove, SameRequest,
                StopCall
  <2>2. CASE List(s) \/ FetchRow(s)
    BY <2>2 DEF SweepMove
  <2>3. CASE DeleteStale(s) \/ DraftExists(s) \/ MarkGone(s)
    BY <2>3 DEF DeleteStale, DraftExists, MarkGone, StepTo, SweepTypes, SweepMove, SameRequest, Working,
                WorkCall
  <2>4. CASE MarkPresent(s) \/ Search(s) \/ Settle(s) \/ MailboxError(s)
    BY <2>4 DEF MarkPresent, Search, Settle, MailboxError, StepTo, SweepTypes, SweepMove,
                SameRequest, Working, WorkCall, NextCall, StopCall
  <2>5. CASE ReadFailure(s) \/ RecordSent(s) \/ MoveInvoice(s)
    BY <2>5 DEF ReadFailure, RecordSent, MoveInvoice, StepTo, SweepTypes, SweepMove,
                SameRequest, Working, WorkCall, NextCall, StopCall
  <2>6. QED
    BY <1>4, <2>1, <2>2, <2>3, <2>4, <2>5 DEF SweepStep, Sweep
<1>5. QED
  BY <1>1, <1>2, <1>3, <1>4, NextByActor DEF SweepStep, SweepMove

(* Who moves the loop, and from which call. *)
LEMMA LoopMoves ==
  ASSUME [Next]_vars
  PROVE  \/ UNCHANGED loop \/ Create \/ CreateDraft \/ CreateDraftFails
         \/ \E i \in Invoices : PaymentFailed(i)
         \/ ExpireQuietly \/ MarkFailed \/ StoreId \/ LoopError \/ Crash
BY NextByActor DEF LoopStep, Ask, Paid, WorldStep, Sweep, Begin, List, FetchRow, PassOver,
   DeleteStale, DraftExists, MarkPresent, MarkGone, Search, ReadFailure, RecordSent, MoveInvoice,
   Settle, MailboxError, PassError, SendDraft, DeleteDraft, Appear, Tick, vars

(* What a pass has fetched. *)
LEMMA Fetched ==
  ASSUME TypeInv, NEW s \in Sweepers, FetchRow(s)
  PROVE  \E a \in todo[s] :
           /\ a \in Requests /\ spc[s] = "row"
           /\ cur'[s] = a /\ todo'[s] = todo[s] \ {a} /\ at'[s] = at[s]
           /\ spc'[s] = IF approvals[a].expires <= at[s]
                          THEN IF approvals[a].external THEN "delete" ELSE "expire"
                          ELSE IF approvals[a].external THEN "exists" ELSE "gone"
           /\ blind' = IF approvals[a].external THEN blind ELSE blind \cup {a}
           /\ UNCHANGED <<ledger, loop, mailbox, world>>
<1> USE TypeParts, TypeOfRows DEF TypeInv
<1>1. PICK a \in todo[s] :
        /\ cur' = [cur EXCEPT ![s] = a]
        /\ todo' = [todo EXCEPT ![s] = @ \ {a}]
        /\ StepTo(s, FirstCall(approvals[a], at[s]))
        /\ blind' = IF approvals[a].external THEN blind ELSE blind \cup {a}
  BY DEF FetchRow
<1>2. a \in Requests
  BY DEF SweepTypes
<1>3. FirstCall(approvals[a], at[s]) =
        IF approvals[a].expires <= at[s]
          THEN IF approvals[a].external THEN "delete" ELSE "expire"
          ELSE IF approvals[a].external THEN "exists" ELSE "gone"
  BY <1>2, MailboxNumbers DEF FirstCall, SweepTypes, RowsOK, Row
<1>4. QED
  BY <1>1, <1>2, <1>3 DEF FetchRow, StepTo, SweepTypes

LEMMA Listed ==
  ASSUME TypeInv, NEW s \in Sweepers, List(s)
  PROVE  /\ spc[s] = "list" /\ spc'[s] = "row" /\ todo'[s] = With("pending") /\ at'[s] = clock
         /\ UNCHANGED <<ledger, loop, cur, ripe, blind, mailbox, world>>
BY TypeParts DEF List, StepTo, SweepTypes, TypeInv

-------------------------------------------------------------------------------
(* What holds of a request in each of its stages. *)

(* An id that is free has no draft and no mail. *)
FreeInv ==
  \A a \in Requests :
    approvals[a].status = "none" =>
      /\ InvoiceOf(a) = NoInvoice /\ ~approvals[a].external /\ approvals[a].gone = 0
      /\ a \notin drafts /\ sentAt[a] = 0

(* A request belongs to an invoice and was opened in the past. *)
OwnedInv ==
  \A a \in Requests :
    approvals[a].status # "none" =>
      InvoiceOf(a) \in Invoices /\ approvals[a].created \in 1..clock

(* The loop has an invoice in hand, and while it opens a draft, the row of it. *)
OpeningInv ==
  /\ pc # "idle" => inv \in Invoices
  /\ pc \in {"draft", "store_id", "fail"} =>
       approvals[req].status # "none" /\ ~approvals[req].external

(* A pass goes through requests, and looks at each once. *)
PassInv ==
  \A s \in Sweepers :
    /\ Passing(s) => \A a \in todo[s] : approvals[a].status # "none"
    /\ Working(s) => /\ cur[s] \in Requests /\ cur[s] \notin todo[s]
                     /\ approvals[cur[s]].status # "none"
    /\ at[s] <= clock

RequestInv == TypeInv /\ FreeInv /\ OwnedInv /\ OpeningInv /\ PassInv

(* A free id stays free, or becomes the request the loop opens. *)
Opened(a) ==
  /\ pc = "create" /\ pc' = "draft" /\ req' = a /\ inv' = inv
  /\ approvals'[a].invoice = inv /\ approvals'[a].status = "pending"
  /\ approvals'[a].created = clock /\ ~approvals'[a].external /\ approvals'[a].gone = 0
  /\ \A b \in Requests \ {a} : approvals'[b] = approvals[b]
  /\ UNCHANGED <<failures, messages, sweepers, mailbox, world>>
StaysFree(a) ==
  /\ approvals'[a].status = "none" /\ approvals'[a].invoice = approvals[a].invoice
  /\ approvals'[a].external = approvals[a].external /\ approvals'[a].gone = approvals[a].gone

LEMMA FreeMoves ==
  ASSUME RequestInv, [Next]_vars
  PROVE  \A a \in Requests : approvals[a].status = "none" => Opened(a) \/ StaysFree(a)
<1> SUFFICES ASSUME NEW a \in Requests, approvals[a].status = "none"
             PROVE  Opened(a) \/ StaysFree(a)
  OBVIOUS
<1> USE TypeOfRows DEF TypeInv, RequestInv
<1>1. CASE UNCHANGED approvals
  BY <1>1 DEF StaysFree
<1>2. CASE ExpireOverdue
  BY <1>2, ExpireRows DEF StaysFree, OnlyStatus, KeepsTimes
<1>3. CASE Create
  <2>1. CASE Waiting(inv)
    BY <1>3, <2>1 DEF Create, StaysFree
  <2>2. CASE ~Waiting(inv)
    <3>1. PICK x \in With("none") :
            /\ approvals' = [approvals EXCEPT ![x] =
                 [Free EXCEPT !.invoice = inv, !.status = "pending",
                              !.created = clock, !.expires = clock + TTL]]
            /\ pc' = "draft" /\ req' = x /\ UNCHANGED inv
      BY <1>3, <2>2 DEF Create
    <3>2. x \in Requests
      BY DEF With
    <3>3. clock \in 1..MaxClock /\ inv \in Invoices \cup {NoInvoice}
      BY TypeParts DEF WorldTypes, LoopTypes
    <3>4. /\ \A b \in Requests \ {x} : approvals'[b] = approvals[b]
          /\ approvals'[x].invoice = inv /\ approvals'[x].status = "pending"
          /\ approvals'[x].created = clock /\ ~approvals'[x].external
          /\ approvals'[x].gone = 0
      BY <3>1, <3>2, <3>3, NewRow
    <3>5. QED
      BY <1>3, <3>1, <3>4 DEF Create, Opened, StaysFree
  <2>3. QED
    BY <2>1, <2>2
<1>4. CASE MarkFailed
  BY <1>4, ResolveRow DEF MarkFailed, Statuses, StaysFree, OnlyStatus, KeepsTimes
<1>5. CASE StoreId
  <2>1. req # a
    BY <1>5 DEF StoreId, OpeningInv
  <2>2. /\ KeepsTimes(a) /\ approvals'[a].status = approvals[a].status
        /\ approvals'[a].gone = approvals[a].gone
        /\ approvals'[a].external = IF a = req THEN TRUE ELSE approvals[a].external
    BY <1>5, StoredRow DEF StoreId
  <2>3. QED
    BY <2>1, <2>2 DEF StaysFree, KeepsTimes
<1>6. ASSUME NEW s \in Sweepers, MarkPresent(s) \/ MarkGone(s)
      PROVE  StaysFree(a)
  <2>1. cur[s] \in Requests /\ cur[s] # a
    BY <1>6 DEF PassInv, Working, MarkPresent, MarkGone
  <2>2. GoneSince(cur[s]) \in 0..MaxClock /\ 0 \in 0..MaxClock
    BY <2>1, MailboxNumbers, TypeParts DEF GoneSince, RowsOK, Row, WorldTypes
  <2>3. PICK t \in 0..MaxClock : approvals' = [approvals EXCEPT ![cur[s]].gone = t]
    BY <1>6, <2>2 DEF MarkPresent, MarkGone
  <2>4. QED
    BY <2>1, <2>3, GoneRow DEF StaysFree, KeepsTimes
<1>7. ASSUME NEW s \in Sweepers, Settle(s)
      PROVE  StaysFree(a)
  <2>1. Outcome(spc[s]) \in Statuses
    BY <1>7 DEF Settle, Outcome, Statuses
  <2>2. QED
    BY <1>7, <2>1, ResolveRow DEF Settle, StaysFree, OnlyStatus, KeepsTimes
<1>8. CASE LoopStep
  <2>1. UNCHANGED approvals \/ ExpireOverdue \/ Create \/ MarkFailed \/ StoreId
    BY <1>8 DEF LoopStep, Ask, PaymentFailed, Paid, LoopError, ExpireQuietly, CreateDraft,
                CreateDraftFails, ledger
  <2>2. QED
    BY <2>1, <1>1, <1>2, <1>3, <1>4, <1>5
<1>9. ASSUME NEW s \in Sweepers, SweepStep(s)
      PROVE  Opened(a) \/ StaysFree(a)
  <2>1. \/ UNCHANGED approvals \/ ExpireOverdue \/ MarkPresent(s) \/ MarkGone(s)
        \/ Settle(s)
    BY <1>9 DEF SweepStep, Sweep, Begin, List, FetchRow, PassOver, DeleteStale, DraftExists,
                Search, ReadFailure, RecordSent, MoveInvoice, MailboxError, PassError, ledger
  <2>2. QED
    BY <2>1, <1>1, <1>2, <1>6, <1>7
<1>10. CASE WorldStep \/ UNCHANGED vars
  <2>1. UNCHANGED approvals
    BY <1>10 DEF WorldStep, SendDraft, DeleteDraft, Appear, Crash, Tick, vars, ledger
  <2>2. QED
    BY <2>1, <1>1
<1>11. QED
  BY <1>8, <1>9, <1>10, NextByActor DEF SweepStep

LEMMA RequestStep ==
  ASSUME RequestInv, [Next]_vars
  PROVE  RequestInv'
<1> USE DEF RequestInv
<1>1. TypeInv'
  BY NextType
<1>2. clock' >= clock /\ clock \in Nat /\ clock' \in Nat
  BY <1>1, TimeMoves, TypeParts DEF Tick, WorldTypes, TypeInv
<1>3. FreeInv'
  <2>1. ASSUME NEW a \in Requests, approvals'[a].status = "none"
        PROVE  /\ approvals'[a].invoice = NoInvoice /\ ~approvals'[a].external
               /\ approvals'[a].gone = 0 /\ a \notin drafts' /\ sentAt'[a] = 0
    <3>1. approvals[a].status = "none"
      BY <2>1, RowsMove DEF RowKept
    <3>2. StaysFree(a)
      BY <2>1, <3>1, FreeMoves DEF Opened
    <3>3. a \notin drafts' /\ sentAt'[a] = 0
      BY <3>1, MailsMove DEF MailMove, FreeInv, OpeningInv
    <3>4. QED
      BY <3>1, <3>2, <3>3 DEF FreeInv, StaysFree, InvoiceOf
  <2>2. QED
    BY <2>1 DEF FreeInv, InvoiceOf
<1>4. OwnedInv'
  <2>1. ASSUME NEW a \in Requests, approvals'[a].status # "none"
        PROVE  approvals'[a].invoice \in Invoices /\ approvals'[a].created \in 1..clock'
    <3>1. CASE approvals[a].status # "none"
      BY <1>2, <3>1, RowsMove DEF RowKept, KeepsTimes, OwnedInv, InvoiceOf
    <3>2. CASE approvals[a].status = "none"
      <4>1. Opened(a)
        BY <2>1, <3>2, FreeMoves DEF StaysFree
      <4>2. inv \in Invoices /\ clock \in 1..clock'
        BY <1>2, <4>1, TypeParts DEF Opened, OpeningInv, TypeInv, WorldTypes, world
      <4>3. QED
        BY <4>1, <4>2 DEF Opened
    <3>3. QED
      BY <3>1, <3>2
  <2>2. QED
    BY <2>1 DEF OwnedInv, InvoiceOf
<1>5. OpeningInv'
  <2>1. (pc # "idle" => inv \in Invoices)'
    <3>1. CASE UNCHANGED loop
      BY <3>1 DEF OpeningInv, loop
    <3>2. CASE LoopStep \/ Crash
      BY <3>2 DEF LoopStep, Ask, PaymentFailed, Paid, LoopError, ExpireQuietly, Create, CreateDraft,
                  CreateDraftFails, MarkFailed, StoreId, Goto, Done, Crash, OpeningInv, loop
    <3>3. UNCHANGED loop \/ LoopStep \/ Crash
      BY LoopMoves DEF LoopStep, Ask
    <3>4. QED
      BY <3>1, <3>2, <3>3
  <2>2. (pc \in {"draft", "store_id", "fail"} =>
           approvals[req].status # "none" /\ ~approvals[req].external)'
    <3>1. CASE UNCHANGED loop
      BY <3>1, RowsMove DEF OpeningInv, RowKept, TypeInv, HandInv, loop, StoreId, Done
    <3>2. CASE Create
      <4>1. CASE Waiting(inv)
        BY <3>2, <4>1 DEF Create, Done
      <4>2. CASE ~Waiting(inv)
        <5>1. PICK x \in With("none") :
                /\ approvals' = [approvals EXCEPT ![x] =
                     [Free EXCEPT !.invoice = inv, !.status = "pending",
                                  !.created = clock, !.expires = clock + TTL]]
                /\ pc' = "draft" /\ req' = x /\ UNCHANGED inv
          BY <3>2, <4>2 DEF Create
        <5>2. x \in Requests /\ clock \in 1..MaxClock /\ inv \in Invoices \cup {NoInvoice}
          BY TypeParts DEF With, WorldTypes, LoopTypes, TypeInv
        <5>3. approvals'[x].status = "pending" /\ ~approvals'[x].external
          BY <5>1, <5>2, NewRow, TypeOfRows DEF TypeInv
        <5>4. QED
          BY <5>1, <5>3
      <4>3. QED
        BY <4>1, <4>2
    <3>3. CASE CreateDraft \/ CreateDraftFails
      BY <3>3 DEF CreateDraft, CreateDraftFails, Goto, OpeningInv, ledger
    <3>4. CASE \/ \E i \in Invoices : PaymentFailed(i)
               \/ ExpireQuietly \/ MarkFailed \/ StoreId \/ LoopError \/ Crash
      BY <3>4 DEF PaymentFailed, ExpireQuietly, MarkFailed, StoreId, LoopError, Crash, Goto, Done
    <3>5. \/ UNCHANGED loop \/ Create \/ CreateDraft \/ CreateDraftFails
          \/ \E i \in Invoices : PaymentFailed(i)
          \/ ExpireQuietly \/ MarkFailed \/ StoreId \/ LoopError \/ Crash
      BY LoopMoves
    <3>6. QED
      BY <3>1, <3>2, <3>3, <3>4, <3>5
  <2>3. QED
    BY <2>1, <2>2 DEF OpeningInv
<1>6. PassInv'
  <2>1. SUFFICES ASSUME NEW s \in Sweepers
                 PROVE  /\ (Passing(s) => \A a \in todo[s] : approvals[a].status # "none")'
                        /\ (Working(s) => /\ cur[s] \in Requests /\ cur[s] \notin todo[s]
                                          /\ approvals[cur[s]].status # "none")'
                        /\ at'[s] <= clock'
    BY DEF PassInv
  <2>2. todo[s] \subseteq Requests /\ at[s] \in Nat /\ at[s] <= clock
    BY TypeParts, MailboxNumbers DEF TypeInv, SweepTypes, PassInv
  <2>3. \A a \in Requests : approvals[a].status # "none" => approvals'[a].status # "none"
    BY RowsMove DEF RowKept
  <2>4. CASE SweepKept(s)
    BY <2>2, <2>3, <2>4, <1>2 DEF SweepKept, PassInv, Passing, Working
  <2>5. CASE spc'[s] \in {"idle", "list"} /\ SameRequest(s)
    BY <2>2, <2>5, <1>2 DEF SameRequest, Passing, Working
  <2>6. CASE List(s)
    BY <2>6, <1>2, Listed DEF Passing, Working, With, ledger, world
  <2>7. CASE FetchRow(s)
    <3>1. PICK a \in todo[s] :
             /\ a \in Requests /\ spc[s] = "row"
             /\ cur'[s] = a /\ todo'[s] = todo[s] \ {a} /\ at'[s] = at[s]
             /\ UNCHANGED ledger
      BY <2>7, Fetched
    <3>2. \A b \in todo[s] : approvals[b].status # "none"
      BY <3>1 DEF PassInv, Passing
    <3>3. QED
      BY <3>1, <3>2, <2>2, <1>2 DEF ledger
  <2>8. CASE Working(s) /\ spc'[s] = "row" /\ SameRequest(s)
    BY <2>8, <2>2, <2>3, <1>2 DEF SameRequest, PassInv, Passing, Working
  <2>9. CASE Working(s) /\ spc'[s] \notin {"idle", "list", "row"} /\ SameRequest(s)
    BY <2>9, <2>2, <2>3, <1>2 DEF SameRequest, PassInv, Passing, Working
  <2>10. QED
    BY <2>4, <2>5, <2>6, <2>7, <2>8, <2>9, SweepsMove DEF SweepMove
<1>7. QED
  BY <1>1, <1>3, <1>4, <1>5, <1>6

LEMMA InitRequest == Init => RequestInv
<1> SUFFICES ASSUME Init PROVE RequestInv
  OBVIOUS
<1>1. TypeInv
  BY InitType
<1>2. FreeInv /\ OwnedInv
  BY DEF Init, FreeInv, OwnedInv, Free, InvoiceOf
<1>3. OpeningInv /\ PassInv
  BY DEF Init, OpeningInv, PassInv, Passing, Working
<1>4. QED
  BY <1>1, <1>2, <1>3 DEF RequestInv

LEMMA RequestInvHolds == Spec => []RequestInv
<1>1. RequestInv /\ [Next]_vars => RequestInv'
  BY RequestStep
<1>2. QED
  BY <1>1, InitRequest, PTL DEF Spec

-------------------------------------------------------------------------------
(* Mails: when they left, and when the search finds them. *)

MailInv ==
  \A a \in Requests :
    /\ sentAt[a] > 0 =>
         /\ approvals[a].created <= sentAt[a] /\ sentAt[a] <= clock
         /\ kept[a] \in Evidence
         /\ a \notin searchable => clock < sentAt[a] + Grace
    /\ a \in searchable => sentAt[a] > 0

(* A row is written once: the time it was opened stays. *)
LEMMA CreatedStays ==
  ASSUME RequestInv, [Next]_vars
  PROVE  \A a \in Requests :
           approvals[a].status # "none" =>
             /\ approvals'[a].status # "none"
             /\ approvals'[a].created = approvals[a].created
             /\ approvals'[a].invoice = approvals[a].invoice
BY RowsMove DEF RequestInv, RowKept, KeepsTimes

LEMMA MailStep ==
  ASSUME RequestInv, MailInv, [Next]_vars
  PROVE  MailInv'
<1> SUFFICES ASSUME NEW a \in Requests
             PROVE  /\ (sentAt[a] > 0 =>
                          /\ approvals[a].created <= sentAt[a] /\ sentAt[a] <= clock
                          /\ kept[a] \in Evidence
                          /\ a \notin searchable => clock < sentAt[a] + Grace)'
                    /\ (a \in searchable => sentAt[a] > 0)'
  BY DEF MailInv
<1>1. /\ sentAt[a] \in Nat /\ clock \in Nat /\ clock > 0 /\ approvals[a].created \in Nat
      /\ sentAt'[a] \in Nat /\ Grace \in Nat /\ Grace > 0
  <2>1. TypeInv'
    BY RequestStep DEF RequestInv
  <2>2. QED
    BY <2>1, TypeParts, MailboxNumbers
    DEF RequestInv, TypeInv, MailboxTypes, WorldTypes, TableTypes, RowsOK, Row
<1>2. MailMove(a)
  BY MailsMove DEF RequestInv
<1>3. CASE sentAt'[a] = sentAt[a] /\ kept'[a] = kept[a]
  <2>1. (a \in searchable => sentAt[a] > 0)'
    BY <1>1, <1>2, <1>3 DEF MailMove, MailInv
  <2>2. ASSUME sentAt[a] > 0
        PROVE  /\ approvals'[a].created <= sentAt[a] /\ sentAt[a] <= clock'
               /\ kept'[a] \in Evidence
               /\ a \notin searchable' => clock' < sentAt[a] + Grace
    <3>1. approvals[a].status # "none"
      BY <2>2, <1>1 DEF RequestInv, FreeInv
    <3>2. approvals'[a].created = approvals[a].created
      BY <3>1, CreatedStays
    <3>3. CASE clock' = clock
      BY <1>2, <1>3, <2>2, <3>2, <3>3 DEF MailMove, MailInv
    <3>4. CASE Tick
      <4>1. clock' = clock + 1 /\ (a \notin searchable => clock + 1 < sentAt[a] + Grace)
        BY <2>2, <3>4 DEF Tick, Hidden
      <4>2. QED
        BY <1>1, <1>2, <1>3, <2>2, <3>2, <4>1 DEF MailMove, MailInv
    <3>5. QED
      BY <3>3, <3>4, TimeMoves
  <2>3. QED
    BY <1>3, <2>1, <2>2
<1>4. CASE /\ a \in drafts /\ a \notin drafts' /\ sentAt'[a] = clock /\ kept'[a] \in Evidence
           /\ UNCHANGED <<ledger, loop, sweepers, clock>>
  <2>1. approvals[a].status # "none"
    BY <1>4 DEF RequestInv, FreeInv
  <2>2. approvals'[a].created <= clock
    BY <1>4, <1>1, <2>1 DEF RequestInv, OwnedInv, ledger
  <2>3. QED
    BY <1>1, <1>4, <2>2
<1>5. QED
  BY <1>2, <1>3, <1>4 DEF MailMove

LEMMA InitMail == Init => MailInv
BY DEF Init, MailInv

-------------------------------------------------------------------------------
(* A skip is trustworthy. *)

(* What the world is assumed to do: a mail program leaves intact the header of a *)
(* message or its subject.                                                       *)
SomethingIsKept == {} \notin Evidence

(* A message that was sent and can be searched for is recognised. *)
LEMMA OwnMessageMatches ==
  ASSUME SomethingIsKept, RequestInv, MailInv, NEW a \in Requests, a \in searchable
  PROVE  Matches(a)
<1>1. sentAt[a] > 0 /\ approvals[a].created <= sentAt[a] /\ kept[a] \in Evidence
  BY DEF MailInv
<1>2. a \in SentSince(a)
  <2>1. approvals[a].created \in Nat /\ sentAt[a] \in Nat
    BY TypeParts, MailboxNumbers
    DEF RequestInv, TypeInv, MailboxTypes, TableTypes, RowsOK, Row
  <2>2. QED
    BY <1>1, <2>1 DEF SentSince
<1>3. "header" \in kept[a] \/ "subject" \in kept[a]
  BY <1>1, MailboxSets DEF SomethingIsKept
<1>4. QED
  BY <1>2, <1>3 DEF Matches

(* The draft of a request whose id is stored never comes back, so that one seen   *)
(* to be gone was sent or deleted by then.                                        *)
VanishedInv ==
  \A a \in Requests \ blind :
    /\ approvals[a].gone # 0 => /\ approvals[a].external /\ a \notin drafts
                                /\ sentAt[a] <= approvals[a].gone
    /\ approvals[a].status = "skipped" => /\ approvals[a].external /\ a \notin drafts
                                          /\ sentAt[a] = 0

(* What a pass knows at each call of a request whose id it read. *)
SeenInv ==
  \A s \in Sweepers : Working(s) /\ cur[s] \notin blind =>
    /\ approvals[cur[s]].external
    /\ spc[s] \in {"gone", "search", "skip"} => cur[s] \notin drafts
    /\ spc[s] = "search" /\ ripe[s] => sentAt[cur[s]] + Grace <= clock
    /\ spc[s] = "skip" => sentAt[cur[s]] = 0

SkipInv == VanishedInv /\ SeenInv

LEMMA BlindGrows ==
  ASSUME TypeInv, [Next]_vars
  PROVE  blind \subseteq blind'
<1>1. CASE \E s \in Sweepers : FetchRow(s)
  BY <1>1, Fetched
<1>2. CASE ~\E s \in Sweepers : FetchRow(s)
  BY <1>2, NextByActor DEF LoopStep, Sweep, WorldStep, Ask, PaymentFailed, Paid, LoopError,
     ExpireQuietly, Create, CreateDraft, CreateDraftFails, MarkFailed, StoreId, Begin, List,
     PassOver, DeleteStale, DraftExists, MarkPresent, MarkGone, Search, ReadFailure, RecordSent,
     MoveInvoice, Settle, MailboxError, PassError, SendDraft, DeleteDraft, Appear, Crash, Tick,
     vars, sweepers
<1>3. QED
  BY <1>1, <1>2

(* How the fields of a row move that say what became of its draft. *)
GoneMove(a) ==
  \/ approvals'[a].gone \in {approvals[a].gone, 0}
  \/ \E s \in Sweepers : /\ MarkGone(s) /\ cur[s] = a
                         /\ approvals[a].gone = 0 /\ approvals'[a].gone = clock
StatusMove(a) ==
  \/ approvals'[a].status \in {approvals[a].status, "expired"}
  \/ MarkFailed /\ a = req /\ approvals'[a].status = "failed"
  \/ \E s \in Sweepers : Settle(s) /\ cur[s] = a /\ approvals'[a].status = Outcome(spc[s])

LEMMA FieldsMove ==
  ASSUME RequestInv, [Next]_vars, NEW a \in Requests, approvals[a].status # "none"
  PROVE  GoneMove(a) /\ StatusMove(a)
<1> USE TypeOfRows DEF TypeInv, RequestInv
<1>1. CASE UNCHANGED approvals
  BY <1>1 DEF GoneMove, StatusMove
<1>2. CASE ExpireOverdue
  BY <1>2, ExpireRows DEF GoneMove, StatusMove, OnlyStatus
<1>3. CASE Create
  <2>1. CASE Waiting(inv)
    BY <1>3, <2>1 DEF Create, GoneMove, StatusMove
  <2>2. CASE ~Waiting(inv)
    <3>1. PICK x \in With("none") :
            approvals' = [approvals EXCEPT ![x] =
               [Free EXCEPT !.invoice = inv, !.status = "pending",
                            !.created = clock, !.expires = clock + TTL]]
      BY <1>3, <2>2 DEF Create
    <3>2. approvals'[a] = approvals[a]
      BY <3>1 DEF RowsOK, With
    <3>3. QED
      BY <3>2 DEF GoneMove, StatusMove
  <2>3. QED
    BY <2>1, <2>2
<1>4. CASE MarkFailed
  BY <1>4, ResolveRow DEF MarkFailed, Statuses, GoneMove, StatusMove, OnlyStatus
<1>5. CASE StoreId
  <2>1. approvals'[a].status = approvals[a].status /\ approvals'[a].gone = approvals[a].gone
    BY <1>5, StoredRow DEF StoreId
  <2>2. QED
    BY <2>1 DEF GoneMove, StatusMove
<1>6. ASSUME NEW s \in Sweepers, MarkPresent(s)
      PROVE  GoneMove(a) /\ StatusMove(a)
  <2>1. CASE a = cur[s]
    <3>1. approvals'[a] = [approvals[a] EXCEPT !.gone = 0]
      BY <1>6, <2>1 DEF MarkPresent, RowsOK
    <3>2. approvals'[a].status = approvals[a].status /\ approvals'[a].gone = 0
      BY <3>1 DEF RowsOK, Row
    <3>3. QED
      BY <3>2 DEF GoneMove, StatusMove
  <2>2. CASE a # cur[s]
    <3>1. approvals'[a] = approvals[a]
      BY <1>6, <2>2 DEF MarkPresent, RowsOK
    <3>2. QED
      BY <3>1 DEF GoneMove, StatusMove
  <2>3. QED
    BY <2>1, <2>2
<1>7. ASSUME NEW s \in Sweepers, MarkGone(s)
      PROVE  GoneMove(a) /\ StatusMove(a)
  <2>1. CASE a = cur[s]
    <3>1. approvals'[a] = [approvals[a] EXCEPT !.gone = GoneSince(a)]
      BY <1>7, <2>1 DEF MarkGone, RowsOK
    <3>2. approvals'[a].status = approvals[a].status /\ approvals'[a].gone = GoneSince(a)
      BY <3>1 DEF RowsOK, Row
    <3>3. QED
      BY <1>7, <2>1, <3>2 DEF GoneMove, StatusMove, GoneSince
  <2>2. CASE a # cur[s]
    <3>1. approvals'[a] = approvals[a]
      BY <1>7, <2>2 DEF MarkGone, RowsOK
    <3>2. QED
      BY <3>1 DEF GoneMove, StatusMove
  <2>3. QED
    BY <2>1, <2>2
<1>8. ASSUME NEW s \in Sweepers, Settle(s)
      PROVE  GoneMove(a) /\ StatusMove(a)
  <2>1. Outcome(spc[s]) \in Statuses /\ Resolve(cur[s], Outcome(spc[s]))
    BY <1>8 DEF Settle, Outcome, Statuses
  <2>2. /\ OnlyStatus(a)
        /\ approvals'[a].status = IF a = cur[s] /\ approvals[a].status = "pending"
                                    THEN Outcome(spc[s]) ELSE approvals[a].status
    BY <2>1, ResolveRow
  <2>3. QED
    BY <1>8, <2>2 DEF GoneMove, StatusMove, OnlyStatus
<1>9. CASE LoopStep
  <2>1. UNCHANGED approvals \/ ExpireOverdue \/ Create \/ MarkFailed \/ StoreId
    BY <1>9 DEF LoopStep, Ask, PaymentFailed, Paid, LoopError, ExpireQuietly, CreateDraft,
                CreateDraftFails, ledger
  <2>2. QED
    BY <2>1, <1>1, <1>2, <1>3, <1>4, <1>5
<1>10. ASSUME NEW s \in Sweepers, SweepStep(s)
       PROVE  GoneMove(a) /\ StatusMove(a)
  <2>1. \/ UNCHANGED approvals \/ ExpireOverdue \/ MarkPresent(s) \/ MarkGone(s)
        \/ Settle(s)
    BY <1>10 DEF SweepStep, Sweep, Begin, List, FetchRow, PassOver, DeleteStale, DraftExists,
                 Search, ReadFailure, RecordSent, MoveInvoice, MailboxError, PassError, ledger
  <2>2. QED
    BY <2>1, <1>1, <1>2, <1>6, <1>7, <1>8
<1>11. CASE WorldStep \/ UNCHANGED vars
  <2>1. UNCHANGED approvals
    BY <1>11 DEF WorldStep, SendDraft, DeleteDraft, Appear, Crash, Tick, vars, ledger
  <2>2. QED
    BY <2>1, <1>1
<1>12. QED
  BY <1>9, <1>10, <1>11, NextByActor DEF SweepStep

(* A stored draft that is gone stays gone, and so does the time it was sent. *)
LEMMA GoneStays ==
  ASSUME RequestInv, [Next]_vars, NEW a \in Requests, approvals[a].external, a \notin drafts
  PROVE  a \notin drafts' /\ sentAt'[a] = sentAt[a] /\ approvals'[a].external
<1>1. approvals[a].status # "none"
  BY DEF RequestInv, FreeInv
<1>2. ~(pc = "draft" /\ a = req)
  BY DEF RequestInv, OpeningInv
<1>3. MailMove(a) /\ RowKept(a)
  BY <1>1, MailsMove, RowsMove DEF RequestInv
<1>4. QED
  BY <1>2, <1>3 DEF MailMove, RowKept

LEMMA VanishedStep ==
  ASSUME RequestInv, MailInv, SkipInv, [Next]_vars
  PROVE  VanishedInv'
<1> SUFFICES ASSUME NEW a \in Requests, a \notin blind'
             PROVE  /\ (approvals[a].gone # 0 => /\ approvals[a].external /\ a \notin drafts
                                                 /\ sentAt[a] <= approvals[a].gone)'
                    /\ (approvals[a].status = "skipped" =>
                          approvals[a].external /\ a \notin drafts /\ sentAt[a] = 0)'
  BY DEF VanishedInv
<1>1. a \notin blind
  BY BlindGrows DEF RequestInv
<1>2. CASE approvals[a].status = "none"
  BY <1>2, FreeMoves DEF RequestInv, FreeInv, Opened, StaysFree
<1>3. CASE approvals[a].status # "none"
  <2>1. GoneMove(a) /\ StatusMove(a)
    BY <1>3, FieldsMove
  <2>2. ASSUME approvals'[a].gone # 0
        PROVE  /\ approvals'[a].external /\ a \notin drafts'
               /\ sentAt'[a] <= approvals'[a].gone
    <3>1. CASE approvals[a].gone # 0
      <4>1. /\ approvals[a].external /\ a \notin drafts /\ sentAt[a] <= approvals[a].gone
        BY <1>1, <3>1 DEF SkipInv, VanishedInv
      <4>2. approvals'[a].gone = approvals[a].gone
        BY <2>1, <2>2, <3>1 DEF GoneMove
      <4>3. QED
        BY <4>1, <4>2, GoneStays
    <3>2. CASE approvals[a].gone = 0
      <4>1. PICK s \in Sweepers : MarkGone(s) /\ cur[s] = a /\ approvals'[a].gone = clock
        BY <2>1, <2>2, <3>2 DEF GoneMove
      <4>2. approvals[a].external /\ a \notin drafts
        BY <1>1, <4>1 DEF SkipInv, SeenInv, Working, MarkGone
      <4>3. sentAt[a] <= clock
        BY TypeParts DEF MailInv, RequestInv, TypeInv, MailboxTypes, WorldTypes
      <4>4. QED
        BY <4>1, <4>2, <4>3, GoneStays
    <3>3. QED
      BY <3>1, <3>2
  <2>3. ASSUME approvals'[a].status = "skipped"
        PROVE  approvals'[a].external /\ a \notin drafts' /\ sentAt'[a] = 0
    <3>1. approvals[a].external /\ a \notin drafts /\ sentAt[a] = 0
      <4>1. CASE approvals[a].status = "skipped"
        BY <1>1, <4>1 DEF SkipInv, VanishedInv
      <4>2. CASE approvals[a].status # "skipped"
        <5>1. PICK s \in Sweepers : Settle(s) /\ cur[s] = a /\ Outcome(spc[s]) = "skipped"
          BY <2>1, <2>3, <4>2 DEF StatusMove
        <5>2. spc[s] = "skip"
          BY <5>1 DEF Settle, Outcome
        <5>3. QED
          BY <1>1, <5>1, <5>2 DEF SkipInv, SeenInv, Working
      <4>3. QED
        BY <4>1, <4>2
    <3>2. QED
      BY <3>1, GoneStays
  <2>4. QED
    BY <2>2, <2>3
<1>4. QED
  BY <1>2, <1>3

LEMMA SeenStep ==
  ASSUME SomethingIsKept, RequestInv, MailInv, SkipInv, [Next]_vars
  PROVE  SeenInv'
<1> SUFFICES ASSUME NEW s \in Sweepers, spc'[s] \notin {"idle", "list", "row"},
                    cur'[s] \notin blind'
             PROVE  /\ approvals'[cur'[s]].external
                    /\ spc'[s] \in {"gone", "search", "skip"} => cur'[s] \notin drafts'
                    /\ spc'[s] = "search" /\ ripe'[s] => sentAt'[cur'[s]] + Grace <= clock'
                    /\ spc'[s] = "skip" => sentAt'[cur'[s]] = 0
  BY DEF SeenInv, Working
<1>1. cur'[s] \notin blind
  BY BlindGrows DEF RequestInv
<1>2. /\ clock' \in Nat /\ clock \in Nat /\ clock' >= clock /\ Grace \in Nat /\ Grace > 0
      /\ at[s] <= clock /\ at[s] \in Nat
  <2>1. TypeInv'
    BY RequestStep DEF RequestInv
  <2>2. clock' >= clock
    BY <2>1, TimeMoves, TypeParts DEF Tick, WorldTypes, TypeInv, RequestInv
  <2>3. QED
    BY <2>1, <2>2, TypeParts, MailboxNumbers
    DEF RequestInv, TypeInv, WorldTypes, SweepTypes, PassInv
<1>3. CASE SweepKept(s)
  <2>1. /\ cur[s] \in Requests /\ cur[s] \notin blind /\ approvals[cur[s]].external
        /\ Working(s)
    BY <1>1, <1>3 DEF SweepKept, Working, RequestInv, PassInv, SkipInv, SeenInv
  <2>2. approvals[cur[s]].status # "none"
    BY <2>1 DEF RequestInv, PassInv
  <2>3. approvals'[cur[s]].external
    BY <2>1, <2>2, RowsMove DEF RowKept, RequestInv
  <2>4. CASE spc[s] \in {"gone", "search", "skip"}
    <3>1. cur[s] \notin drafts
      BY <2>1, <2>4 DEF SkipInv, SeenInv
    <3>2. cur[s] \notin drafts' /\ sentAt'[cur[s]] = sentAt[cur[s]]
      BY <2>1, <3>1, GoneStays
    <3>3. sentAt[cur[s]] \in Nat
      BY <2>1, TypeParts, MailboxNumbers DEF RequestInv, TypeInv, MailboxTypes
    <3>4. QED
      BY <1>2, <1>3, <2>1, <2>3, <3>2, <3>3 DEF SweepKept, SkipInv, SeenInv
  <2>5. CASE spc[s] \notin {"gone", "search", "skip"}
    BY <1>3, <2>3, <2>5 DEF SweepKept
  <2>6. QED
    BY <2>4, <2>5
<1>4. CASE FetchRow(s)
  BY <1>1, <1>4, Fetched DEF RequestInv, ledger
<1>5. CASE Working(s) /\ SameRequest(s) /\ WorkCall(s)
  <2>1. /\ cur[s] \in Requests /\ cur[s] \notin blind /\ approvals[cur[s]].external
        /\ approvals[cur[s]].status # "none" /\ cur'[s] = cur[s]
    BY <1>1, <1>5 DEF SameRequest, RequestInv, PassInv, SkipInv, SeenInv
  <2>2. approvals'[cur[s]].external
    BY <2>1, RowsMove DEF RowKept, RequestInv
  <2>3. sentAt[cur[s]] \in Nat
    BY <2>1, TypeParts, MailboxNumbers DEF RequestInv, TypeInv, MailboxTypes
  <2>4. CASE DeleteStale(s) \/ ReadFailure(s) \/ RecordSent(s) \/ MoveInvoice(s)
    <3>1. spc'[s] \in {"expire", "record", "close", "move", "idle"}
      BY <2>4, TypeParts DEF DeleteStale, ReadFailure, RecordSent, MoveInvoice, StepTo, SweepTypes,
                  RequestInv, TypeInv
    <3>2. QED
      BY <2>1, <2>2, <3>1
  <2>5. CASE DraftExists(s)
    <3>1. /\ spc'[s] \in {"present", "gone"} /\ drafts' = drafts
          /\ spc'[s] = "gone" => cur[s] \notin drafts
      BY <2>5, TypeParts DEF DraftExists, StepTo, SweepTypes, RequestInv, TypeInv, mailbox
    <3>2. QED
      BY <2>1, <2>2, <3>1
  <2>6. CASE MarkGone(s)
    <3>1. cur[s] \notin drafts
      BY <2>1, <2>6, <1>5 DEF SkipInv, SeenInv, MarkGone
    <3>2. /\ spc'[s] = "search" /\ sentAt' = sentAt /\ drafts' = drafts /\ clock' = clock
          /\ ripe'[s] => GoneSince(cur[s]) + Grace <= at[s]
      BY <2>6, TypeParts DEF MarkGone, StepTo, SweepTypes, RequestInv, TypeInv, mailbox, world
    <3>3. GoneSince(cur[s]) \in Nat /\ sentAt[cur[s]] <= GoneSince(cur[s])
      <4>1. CASE approvals[cur[s]].gone = 0
        BY <1>2, <2>1, <2>3, <4>1 DEF GoneSince, MailInv
      <4>2. CASE approvals[cur[s]].gone # 0
        <5>1. approvals[cur[s]].gone \in Nat
          BY <2>1, TypeParts, MailboxNumbers DEF RequestInv, TypeInv, TableTypes, RowsOK, Row
        <5>2. QED
          BY <2>1, <4>2, <5>1 DEF GoneSince, SkipInv, VanishedInv
      <4>3. QED
        BY <4>1, <4>2
    <3>4. ripe'[s] => sentAt[cur[s]] + Grace <= clock
      BY <1>2, <2>3, <3>2, <3>3
    <3>5. QED
      BY <2>1, <2>2, <3>1, <3>2, <3>4
  <2>7. CASE Search(s)
    <3>1. /\ spc'[s] = IF Matches(cur[s]) THEN "state" ELSE IF ripe[s] THEN "skip" ELSE "row"
          /\ sentAt' = sentAt /\ drafts' = drafts /\ spc[s] = "search"
      BY <2>7, TypeParts DEF Search, StepTo, SweepTypes, RequestInv, TypeInv, mailbox
    <3>2. CASE spc'[s] = "skip"
      <4>1. ~Matches(cur[s]) /\ ripe[s]
        BY <3>1, <3>2
      <4>2. cur[s] \notin drafts /\ sentAt[cur[s]] + Grace <= clock
        BY <1>5, <2>1, <3>1, <4>1 DEF SkipInv, SeenInv
      <4>3. cur[s] \notin searchable
        BY <2>1, <4>1, OwnMessageMatches
      <4>4. sentAt[cur[s]] = 0
        BY <1>2, <2>1, <2>3, <4>2, <4>3 DEF MailInv
      <4>5. QED
        BY <2>1, <2>2, <3>1, <3>2, <4>2, <4>4
    <3>3. CASE spc'[s] # "skip"
      BY <2>1, <2>2, <3>1, <3>3
    <3>4. QED
      BY <3>2, <3>3
  <2>8. QED
    BY <1>5, <2>4, <2>5, <2>6, <2>7 DEF WorkCall
<1>6. QED
  BY <1>3, <1>4, <1>5, SweepsMove, Listed DEF SweepMove, RequestInv

(* A request that counts as refused was not sent, unless a pass read its row      *)
(* before its draft's id was stored: the program takes a draft for refused only    *)
(* when the grace period is over and the search, which finds a message by then,    *)
(* found none (reconcile of mailbox_approval.py).                                  *)
THEOREM SkipsAreRefusals == ASSUME SomethingIsKept PROVE Spec => []SkipIsRefusal
<1>1. Init => RequestInv /\ MailInv /\ SkipInv
  <2>1. Init => SkipInv
    BY DEF Init, SkipInv, VanishedInv, SeenInv, Free, Working
  <2>2. QED
    BY <2>1, InitRequest, InitMail
<1>2. RequestInv /\ MailInv /\ SkipInv /\ [Next]_vars => (RequestInv /\ MailInv /\ SkipInv)'
  BY RequestStep, MailStep, VanishedStep, SeenStep DEF SkipInv
<1>3. RequestInv /\ MailInv /\ SkipInv => SkipIsRefusal
  BY DEF SkipInv, VanishedInv, SkipIsRefusal, With
<1>4. QED
  BY <1>1, <1>2, <1>3, PTL DEF Spec

-------------------------------------------------------------------------------
(* What is refused cannot be sent any more. *)

(* The loop is opening the draft of a. *)
Opening(a) == pc \in {"draft", "store_id"} /\ req = a

(* Requests whose draft's id is not stored and will not be. *)
Lost == {a \in Requests : /\ approvals[a].status # "none"
                          /\ ~approvals[a].external /\ ~Opening(a)}

(* No time passes while a draft is opened, and none is seen to be gone before it *)
(* was asked for.                                                                *)
OpenedNowInv ==
  \A a \in Requests :
    /\ Opening(a) => approvals[a].created = clock
    /\ approvals[a].gone # 0 => approvals[a].created <= approvals[a].gone

(* Unless its draft's id was lost, a skipped request has no draft, and a failed  *)
(* one has lost it.                                                              *)
ClosedInv ==
  \A a \in Requests \ Lost :
    /\ approvals[a].status = "skipped" => approvals[a].external /\ a \notin drafts
    /\ approvals[a].status # "failed"

(* A pass that skips a request saw that its draft is gone: one that read the row  *)
(* before the id was stored is too early for the grace period to be over.        *)
TooEarly(s) ==
  /\ at[s] <= approvals[cur[s]].created /\ spc[s] # "skip"
  /\ spc[s] = "search" => ~ripe[s]
EarlyInv ==
  \A s \in Sweepers :
    /\ spc[s] = "exists" => approvals[cur[s]].external
    /\ spc[s] \in {"gone", "search", "skip"} /\ cur[s] \notin Lost =>
         \/ approvals[cur[s]].external /\ cur[s] \notin drafts
         \/ TooEarly(s)

(* Each id was lost by a fault. *)
FaultInv == Cardinality(Lost) <= faults

LostInv == OpenedNowInv /\ ClosedInv /\ EarlyInv /\ FaultInv

LEMMA LostFinite == IsFiniteSet(Lost) /\ IsFiniteSet(Lost')
<1>1. IsFiniteSet(Requests) /\ Lost \subseteq Requests /\ Lost' \subseteq Requests
  BY MailboxSets DEF Lost
<1>2. QED
  BY <1>1, FS_Subset

(* An id is lost in a fault of the loop, at most one at a time, and never found. *)
LEMMA LostMoves ==
  ASSUME RequestInv, [Next]_vars
  PROVE  /\ Lost \subseteq Lost'
         /\ \/ Lost' = Lost
            \/ Lost' = Lost \cup {req} /\ faults' = faults + 1 /\ req \notin Lost
<1> USE DEF RequestInv
<1>1. ASSUME NEW a \in Lost PROVE a \in Lost'
  <2>1. a \in Requests /\ approvals[a].status # "none" /\ ~approvals[a].external /\ ~Opening(a)
    BY DEF Lost
  <2>2. RowKept(a)
    BY <2>1, RowsMove
  <2>3. ~(StoreId /\ a = req)
    BY <2>1 DEF StoreId, Opening
  <2>4. ~Opening(a)'
    <3>1. CASE Create
      <4>1. CASE Waiting(inv)
        BY <3>1, <4>1 DEF Create, Done, Opening
      <4>2. CASE ~Waiting(inv)
        BY <3>1, <4>2, <2>1 DEF Create, Opening, With
      <4>3. QED
        BY <4>1, <4>2
    <3>2. CASE ~Create
      BY <3>2, <2>1, LoopMoves DEF CreateDraft, CreateDraftFails, PaymentFailed, ExpireQuietly,
         MarkFailed, StoreId, LoopError, Crash, Goto, Done, Opening, loop
    <3>3. QED
      BY <3>1, <3>2
  <2>5. QED
    BY <2>1, <2>2, <2>3, <2>4 DEF RowKept, Lost
<1>2. ASSUME NEW a \in Lost', a \notin Lost
      PROVE  a = req /\ (CreateDraftFails \/ LoopError \/ Crash)
  <2>1. /\ a \in Requests /\ approvals'[a].status # "none" /\ ~approvals'[a].external
        /\ ~Opening(a)'
    BY DEF Lost
  <2>2. CASE approvals[a].status = "none"
    <3>1. Opened(a)
      BY <2>1, <2>2, FreeMoves DEF StaysFree
    <3>2. QED
      BY <2>1, <3>1 DEF Opened, Opening
  <2>3. CASE approvals[a].status # "none"
    <3>1. ~approvals[a].external
      BY <2>1, <2>3, RowsMove DEF RowKept
    <3>2. Opening(a)
      BY <1>2, <2>1, <2>3, <3>1 DEF Lost
    <3>3. ~StoreId
      <4>1. CASE StoreId
        <5>1. approvals'[a].external = IF a = req THEN TRUE ELSE approvals[a].external
          BY <2>1, <4>1, StoredRow, TypeOfRows DEF StoreId, TypeInv
        <5>2. QED
          BY <2>1, <3>2, <5>1 DEF Opening
      <4>2. QED
        BY <4>1
    <3>4. QED
      BY <2>1, <3>2, <3>3, LoopMoves DEF Create, CreateDraft, PaymentFailed, ExpireQuietly,
         MarkFailed, Goto, Opening, loop
  <2>4. QED
    BY <2>2, <2>3
<1>3. CASE Lost' \subseteq Lost
  BY <1>1, <1>3
<1>4. CASE ~(Lost' \subseteq Lost)
  <2>1. PICK a \in Lost' : a \notin Lost
    BY <1>4
  <2>2. a = req /\ (CreateDraftFails \/ LoopError \/ Crash)
    BY <1>2, <2>1
  <2>3. faults' = faults + 1
    BY <2>2 DEF CreateDraftFails, LoopError, Crash
  <2>4. Lost' = Lost \cup {req}
    BY <1>1, <1>2, <2>1, <2>2
  <2>5. QED
    BY <1>1, <2>1, <2>2, <2>3, <2>4
<1>5. QED
  BY <1>3, <1>4

(* Faults are counted one at a time. *)
LEMMA FaultsMove ==
  ASSUME [Next]_vars
  PROVE  faults' = faults \/ faults' = faults + 1
BY NextByActor DEF LoopStep, Sweep, WorldStep, Ask, PaymentFailed, Paid, LoopError,
   ExpireQuietly, Create, CreateDraft, CreateDraftFails, MarkFailed, StoreId, Begin, List,
   FetchRow, PassOver, DeleteStale, DraftExists, MarkPresent, MarkGone, Search, ReadFailure,
   RecordSent, MoveInvoice, Settle, MailboxError, PassError, SendDraft, DeleteDraft, Appear,
   Crash, Tick, vars, world

LEMMA FaultStep ==
  ASSUME RequestInv, FaultInv, [Next]_vars
  PROVE  FaultInv'
<1>1. faults \in Nat /\ faults' \in Nat /\ faults' >= faults
  <2>1. faults \in Nat
    BY TypeParts, MailboxNumbers DEF RequestInv, TypeInv, WorldTypes
  <2>2. QED
    BY <2>1, FaultsMove
<1>2. CASE Lost' = Lost
  <2>1. Cardinality(Lost) \in Nat
    BY LostFinite, FS_CardinalityType
  <2>2. Cardinality(Lost') <= faults
    BY <1>2 DEF FaultInv
  <2>3. QED
    BY <1>1, <1>2, <2>1, <2>2 DEF FaultInv
<1>3. CASE Lost' = Lost \cup {req} /\ faults' = faults + 1 /\ req \notin Lost
  <2>1. Cardinality(Lost') = Cardinality(Lost) + 1 /\ Cardinality(Lost) \in Nat
    BY <1>3, LostFinite, FS_AddElement, FS_CardinalityType
  <2>2. QED
    BY <1>1, <1>3, <2>1 DEF FaultInv
<1>4. QED
  BY <1>2, <1>3, LostMoves

LEMMA OpenedNowStep ==
  ASSUME RequestInv, OpenedNowInv, [Next]_vars
  PROVE  OpenedNowInv'
<1> SUFFICES ASSUME NEW a \in Requests
             PROVE  /\ (Opening(a) => approvals[a].created = clock)'
                    /\ (approvals[a].gone # 0 => approvals[a].created <= approvals[a].gone)'
  BY DEF OpenedNowInv
<1> USE DEF RequestInv
<1>1. CASE approvals[a].status = "none"
  <2>1. CASE Opened(a)
    BY <2>1 DEF Opened, world
  <2>2. CASE StaysFree(a)
    <3>1. approvals'[a].gone = 0
      BY <1>1, <2>2 DEF StaysFree, FreeInv
    <3>2. ~Opening(a)'
      <4>1. OpeningInv'
        BY RequestStep
      <4>2. QED
        BY <2>2, <4>1 DEF StaysFree, OpeningInv, Opening
    <3>3. QED
      BY <3>1, <3>2
  <2>3. QED
    BY <1>1, <2>1, <2>2, FreeMoves
<1>2. CASE approvals[a].status # "none"
  <2>1. RowKept(a) /\ GoneMove(a)
    BY <1>2, RowsMove, FieldsMove
  <2>2. Opening(a)' => Opening(a)
    <3>1. CASE Create
      BY <3>1, <1>2 DEF Create, Done, Opening, With
    <3>2. CASE ~Create
      BY <3>2, LoopMoves DEF CreateDraft, CreateDraftFails, PaymentFailed, ExpireQuietly,
         MarkFailed, StoreId, LoopError, Crash, Goto, Done, Opening, loop
    <3>3. QED
      BY <3>1, <3>2
  <2>3. Opening(a)' => approvals'[a].created = clock'
    BY <2>1, <2>2, TimeMoves DEF Tick, Opening, OpenedNowInv, RowKept, KeepsTimes
  <2>4. approvals'[a].gone # 0 => approvals'[a].created <= approvals'[a].gone
    BY <1>2, <2>1 DEF RowKept, KeepsTimes, GoneMove, OpenedNowInv, OwnedInv
  <2>5. QED
    BY <2>3, <2>4
<1>3. QED
  BY <1>1, <1>2

LEMMA ClosedStep ==
  ASSUME RequestInv, LostInv, [Next]_vars
  PROVE  ClosedInv'
<1> SUFFICES ASSUME NEW a \in Requests, a \notin Lost'
             PROVE  /\ (approvals[a].status = "skipped" =>
                          approvals[a].external /\ a \notin drafts)'
                    /\ approvals'[a].status # "failed"
  BY DEF ClosedInv
<1>1. a \notin Lost
  BY LostMoves
<1>2. CASE approvals[a].status = "none"
  BY <1>2, FreeMoves DEF Opened, StaysFree
<1>3. CASE approvals[a].status # "none"
  <2>1. StatusMove(a)
    BY <1>3, FieldsMove
  <2>2. approvals'[a].status # "failed"
    <3>1. CASE MarkFailed /\ a = req
      <4>1. a \in Lost
        BY <1>3, <3>1 DEF MarkFailed, RequestInv, OpeningInv, Lost, Opening
      <4>2. QED
        BY <1>1, <4>1
    <3>2. CASE ~(MarkFailed /\ a = req)
      BY <1>1, <2>1, <3>2 DEF StatusMove, Settle, Outcome, LostInv, ClosedInv
    <3>3. QED
      BY <3>1, <3>2
  <2>3. ASSUME approvals'[a].status = "skipped"
        PROVE  approvals'[a].external /\ a \notin drafts'
    <3>1. approvals[a].external /\ a \notin drafts
      <4>1. CASE approvals[a].status = "skipped"
        BY <1>1, <4>1 DEF LostInv, ClosedInv
      <4>2. CASE approvals[a].status # "skipped"
        <5>1. PICK s \in Sweepers : Settle(s) /\ cur[s] = a /\ Outcome(spc[s]) = "skipped"
          BY <2>1, <2>3, <4>2 DEF StatusMove
        <5>2. spc[s] = "skip"
          BY <5>1 DEF Settle, Outcome
        <5>3. QED
          BY <1>1, <5>1, <5>2 DEF LostInv, EarlyInv, TooEarly
      <4>3. QED
        BY <4>1, <4>2
    <3>2. QED
      BY <3>1, GoneStays
  <2>4. QED
    BY <2>2, <2>3
<1>4. QED
  BY <1>2, <1>3

LEMMA EarlyStep ==
  ASSUME RequestInv, LostInv, [Next]_vars
  PROVE  EarlyInv'
<1> SUFFICES ASSUME NEW s \in Sweepers
             PROVE  /\ (spc[s] = "exists" => approvals[cur[s]].external)'
                    /\ (spc[s] \in {"gone", "search", "skip"} /\ cur[s] \notin Lost =>
                          \/ approvals[cur[s]].external /\ cur[s] \notin drafts
                          \/ TooEarly(s))'
  BY DEF EarlyInv
<1> USE DEF RequestInv
<1>1. /\ clock \in Nat /\ at[s] \in Nat /\ at[s] <= clock /\ Grace \in Nat /\ Grace > 0
      /\ \A a \in Requests : approvals[a].created \in Nat /\ approvals[a].gone \in Nat
  BY TypeParts, MailboxNumbers DEF TypeInv, WorldTypes, SweepTypes, PassInv, TableTypes, RowsOK,
     Row
<1>2. CASE spc'[s] \in {"idle", "list", "row"}
  BY <1>2
<1>3. CASE FetchRow(s)
  <2>1. PICK a \in todo[s] :
           /\ a \in Requests /\ spc[s] = "row" /\ cur'[s] = a /\ at'[s] = at[s]
           /\ spc'[s] = IF approvals[a].expires <= at[s]
                          THEN IF approvals[a].external THEN "delete" ELSE "expire"
                          ELSE IF approvals[a].external THEN "exists" ELSE "gone"
           /\ UNCHANGED ledger
    BY <1>3, Fetched
  <2>2. approvals' = approvals
    BY <2>1 DEF ledger
  <2>3. ASSUME spc'[s] = "gone", a \notin Lost'
        PROVE  at[s] <= approvals[a].created
    <3>1. a \notin Lost /\ ~approvals[a].external /\ approvals[a].status # "none"
      BY <2>1, <2>3, LostMoves DEF PassInv, Passing
    <3>2. Opening(a)
      BY <2>1, <3>1 DEF Lost
    <3>3. QED
      BY <1>1, <2>1, <3>2 DEF LostInv, OpenedNowInv
  <2>4. QED
    BY <2>1, <2>2, <2>3 DEF TooEarly
<1>4. ASSUME Working(s), cur'[s] = cur[s], at'[s] = at[s]
      PROVE  /\ cur[s] \in Requests /\ approvals[cur[s]].status # "none"
             /\ approvals'[cur[s]].created = approvals[cur[s]].created
             /\ approvals[cur[s]].external => approvals'[cur[s]].external
             /\ approvals[cur[s]].external /\ cur[s] \notin drafts => cur[s] \notin drafts'
             /\ cur[s] \notin Lost' => cur[s] \notin Lost
  <2>1. cur[s] \in Requests /\ approvals[cur[s]].status # "none"
    BY <1>4 DEF PassInv
  <2>2. RowKept(cur[s])
    BY <2>1, RowsMove
  <2>3. QED
    BY <2>1, <2>2, GoneStays, LostMoves DEF RowKept, KeepsTimes
<1>5. CASE SweepKept(s) /\ Working(s)
  BY <1>4, <1>5 DEF SweepKept, LostInv, EarlyInv, TooEarly
<1>6. CASE Working(s) /\ SameRequest(s) /\ WorkCall(s)
  <2>1. cur'[s] = cur[s] /\ at'[s] = at[s]
    BY <1>6 DEF SameRequest
  <2>2. CASE DeleteStale(s) \/ ReadFailure(s) \/ RecordSent(s) \/ MoveInvoice(s)
    <3>1. spc'[s] \in {"expire", "record", "close", "move", "idle"}
      BY <2>2, TypeParts DEF DeleteStale, ReadFailure, RecordSent, MoveInvoice, StepTo, SweepTypes,
                  TypeInv
    <3>2. QED
      BY <3>1
  <2>3. CASE DraftExists(s)
    <3>1. /\ spc[s] = "exists" /\ spc'[s] \in {"present", "gone"}
          /\ spc'[s] = "gone" => cur[s] \notin drafts
      BY <2>3, TypeParts DEF DraftExists, StepTo, SweepTypes, TypeInv
    <3>2. QED
      BY <1>4, <1>6, <2>1, <3>1 DEF LostInv, EarlyInv
  <2>4. CASE MarkGone(s)
    <3>1. /\ spc[s] = "gone" /\ spc'[s] = "search"
          /\ ripe'[s] => GoneSince(cur[s]) + Grace <= at[s]
      BY <2>4, TypeParts DEF MarkGone, StepTo, SweepTypes, TypeInv
    <3>2. /\ GoneSince(cur[s]) \in Nat
          /\ approvals[cur[s]].created <= GoneSince(cur[s])
      BY <1>1, <1>4, <1>6, <2>1 DEF GoneSince, OwnedInv, LostInv, OpenedNowInv
    <3>3. at[s] <= approvals[cur[s]].created => ~ripe'[s]
      BY <1>1, <1>4, <1>6, <2>1, <3>1, <3>2
    <3>4. QED
      BY <1>4, <1>6, <2>1, <3>1, <3>3 DEF LostInv, EarlyInv, TooEarly
  <2>5. CASE Search(s)
    <3>1. /\ spc[s] = "search"
          /\ spc'[s] = IF Matches(cur[s]) THEN "state" ELSE IF ripe[s] THEN "skip" ELSE "row"
      BY <2>5, TypeParts DEF Search, StepTo, SweepTypes, TypeInv
    <3>2. QED
      BY <1>4, <1>6, <2>1, <3>1 DEF LostInv, EarlyInv, TooEarly
  <2>6. QED
    BY <1>6, <2>2, <2>3, <2>4, <2>5 DEF WorkCall
<1>7. CASE SweepKept(s) /\ ~Working(s)
  BY <1>7 DEF SweepKept, Working
<1>8. QED
  BY <1>2, <1>3, <1>5, <1>6, <1>7, SweepsMove, Listed DEF SweepMove

LEMMA InitLost == Init => LostInv
<1> SUFFICES ASSUME Init PROVE LostInv
  OBVIOUS
<1>1. OpenedNowInv /\ ClosedInv /\ EarlyInv
  BY DEF Init, OpenedNowInv, ClosedInv, EarlyInv, Opening, Free
<1>2. FaultInv
  <2>1. Lost = {}
    BY DEF Init, Lost, Free
  <2>2. QED
    BY <2>1, FS_EmptySet DEF Init, FaultInv
<1>3. QED
  BY <1>1, <1>2 DEF LostInv

(* No more refused or failed requests have a draft left than there were faults:   *)
(* the draft of a request is known once its id is stored, and a request is        *)
(* skipped only when its draft is gone; the id is lost when a call fails or the   *)
(* process dies between the creation of the draft and set_approval_external_id.   *)
THEOREM RefusedHaveNoDraft == Spec => []RefusedLeavesNoDraft
<1>1. RequestInv /\ LostInv /\ [Next]_vars => LostInv'
  BY OpenedNowStep, ClosedStep, EarlyStep, FaultStep DEF LostInv
<1>2. RequestInv /\ LostInv => RefusedLeavesNoDraft
  <2> SUFFICES ASSUME RequestInv, LostInv PROVE RefusedLeavesNoDraft
    OBVIOUS
  <2> DEFINE R == {a \in With("skipped") \cup With("failed") : a \in drafts}
  <2>1. R \subseteq Lost
    BY DEF LostInv, ClosedInv, With
  <2>2. Cardinality(R) <= Cardinality(Lost) /\ Cardinality(R) \in Nat /\ Cardinality(Lost) \in Nat
    BY <2>1, LostFinite, FS_Subset, FS_CardinalityType
  <2>3. faults \in Nat
    BY TypeParts, MailboxNumbers DEF RequestInv, TypeInv, WorldTypes
  <2> HIDE DEF R
  <2>4. Cardinality(R) <= faults
    BY <2>2, <2>3 DEF LostInv, FaultInv
  <2>5. QED
    BY <2>4 DEF R, RefusedLeavesNoDraft
<1>3. Init => RequestInv /\ LostInv
  BY InitRequest, InitLost
<1>4. Spec => [](RequestInv /\ LostInv)
  BY <1>1, <1>3, RequestStep, PTL DEF Spec
<1>5. QED
  BY <1>2, <1>4, PTL

(* What counts as refused was not sent and cannot be sent any more. *)
THEOREM RefusalsKept == ASSUME SomethingIsKept PROVE Spec => []RefusalsHold
<1>1. Spec => []SkipIsRefusal
  BY SkipsAreRefusals
<1>2. Spec => []RefusedLeavesNoDraft
  BY RefusedHaveNoDraft
<1>3. SkipIsRefusal /\ RefusedLeavesNoDraft => RefusalsHold
  BY DEF RefusalsHold
<1>4. QED
  BY <1>1, <1>2, <1>3, PTL

-------------------------------------------------------------------------------
(* The count that caps a sequence. *)

(* An invoice's count grows by a RecordSent alone, and a closed one stays closed. *)
LEMMA LedgerMoves ==
  ASSUME RequestInv, [Next]_vars, NEW i \in Invoices
  PROVE  /\ messages[i].sent \in Nat
         /\ \/ messages'[i].sent = messages[i].sent
            \/ \E s \in Sweepers : /\ RecordSent(s) /\ InvoiceOf(cur[s]) = i
                                   /\ messages'[i].sent = messages[i].sent + 1
         /\ failures[i] \in TerminalStates => failures'[i] \in TerminalStates
         /\ \/ failures'[i] = "messaged" => failures[i] = "messaged"
            \/ \E s \in Sweepers : MoveInvoice(s) /\ InvoiceOf(cur[s]) = i
<1> USE TypeParts DEF RequestInv, TypeInv
<1>1. failures[i] \in RowStates /\ messages[i] \in [sent : Nat, last : 0..MaxClock]
  BY DEF TableTypes
<1>2. ASSUME UNCHANGED <<failures, messages>>
      PROVE  /\ messages'[i].sent = messages[i].sent /\ failures'[i] = failures[i]
  BY <1>2
<1>3. ASSUME NEW s \in Sweepers, RecordSent(s)
      PROVE  /\ failures'[i] = failures[i]
             /\ \/ messages'[i].sent = messages[i].sent
                \/ InvoiceOf(cur[s]) = i /\ messages'[i].sent = messages[i].sent + 1
  <2>1. CASE InvoiceOf(cur[s]) = i
    <3>1. messages'[i] = OneMoreSent(messages[i])
      BY <1>3, <2>1 DEF RecordSent, TableTypes
    <3>2. QED
      BY <1>3, <2>1, <3>1 DEF RecordSent, OneMoreSent
  <2>2. CASE InvoiceOf(cur[s]) # i
    BY <1>3, <2>2 DEF RecordSent, TableTypes
  <2>3. QED
    BY <2>1, <2>2
<1>4. ASSUME NEW s \in Sweepers, MoveInvoice(s)
      PROVE  /\ messages'[i] = messages[i]
             /\ failures[i] \in TerminalStates => failures'[i] \in TerminalStates
             /\ \/ failures'[i] = failures[i]
                \/ InvoiceOf(cur[s]) = i
  <2>1. CASE InvoiceOf(cur[s]) = i
    <3>1. CASE CanTransition(failures[i], "messaged")
      <4>1. failures[i] \notin TerminalStates
        BY <3>1 DEF CanTransition, AllowedTransitions, TerminalStates
      <4>2. QED
        BY <1>4, <2>1, <4>1 DEF MoveInvoice
    <3>2. CASE ~CanTransition(failures[i], "messaged")
      BY <1>4, <2>1, <3>2 DEF MoveInvoice
    <3>3. QED
      BY <3>1, <3>2
  <2>2. CASE InvoiceOf(cur[s]) # i
    BY <1>4, <2>2 DEF MoveInvoice, TableTypes
  <2>3. QED
    BY <2>1, <2>2
<1>5. ASSUME NEW j \in Invoices, Paid(j)
      PROVE  /\ messages'[i] = messages[i]
             /\ failures'[i] \in {failures[i], "recovered"}
  BY <1>5 DEF Paid, TableTypes
<1>6. \/ UNCHANGED <<failures, messages>> \/ \E j \in Invoices : Paid(j)
      \/ \E s \in Sweepers : RecordSent(s) \/ MoveInvoice(s)
  BY NextByActor DEF LoopStep, Sweep, WorldStep, Ask, PaymentFailed, LoopError,
     ExpireQuietly, Create, CreateDraft, CreateDraftFails, MarkFailed, StoreId, Begin, List,
     FetchRow, PassOver, DeleteStale, DraftExists, MarkPresent, MarkGone, Search, ReadFailure,
     Settle, MailboxError, PassError, SendDraft, DeleteDraft, Appear, Crash, Tick, vars, ledger
<1>7. CASE UNCHANGED <<failures, messages>>
  BY <1>1, <1>2, <1>7
<1>8. CASE \E j \in Invoices : Paid(j)
  BY <1>1, <1>5, <1>8 DEF TerminalStates
<1>9. CASE \E s \in Sweepers : RecordSent(s)
  BY <1>1, <1>3, <1>9
<1>10. CASE \E s \in Sweepers : MoveInvoice(s)
  BY <1>1, <1>4, <1>10
<1>11. QED
  BY <1>6, <1>7, <1>8, <1>9, <1>10

(* A pass about to close a request as sent has counted its mail, or found its     *)
(* invoice closed.                                                                *)
CountedInv ==
  \A s \in Sweepers :
    /\ spc[s] = "move" => messages[InvoiceOf(cur[s])].sent > 0
    /\ spc[s] = "close" => \/ messages[InvoiceOf(cur[s])].sent > 0
                           \/ failures[InvoiceOf(cur[s])] \in TerminalStates

ClosingInv == SentIsCounted /\ CountedInv

LEMMA CountedStays ==
  ASSUME RequestInv, [Next]_vars, NEW a \in Requests, approvals[a].status # "none"
  PROVE  /\ InvoiceOf(a) \in Invoices /\ InvoiceOf(a)' = InvoiceOf(a)
         /\ messages[InvoiceOf(a)].sent > 0 => messages'[InvoiceOf(a)].sent > 0
         /\ failures[InvoiceOf(a)] \in TerminalStates => failures'[InvoiceOf(a)] \in TerminalStates
<1>1. InvoiceOf(a) \in Invoices /\ InvoiceOf(a)' = InvoiceOf(a)
  BY CreatedStays DEF RequestInv, OwnedInv, InvoiceOf
<1>2. QED
  BY <1>1, LedgerMoves

LEMMA ClosingStep ==
  ASSUME RequestInv, ClosingInv, [Next]_vars
  PROVE  ClosingInv'
<1> USE DEF RequestInv
<1>1. SentIsCounted'
  <2> SUFFICES ASSUME NEW a \in Requests, approvals'[a].status = "sent"
               PROVE  \/ messages'[InvoiceOf(a)'].sent > 0
                      \/ failures'[InvoiceOf(a)'] \in TerminalStates
    BY DEF SentIsCounted, With
  <2>1. CASE approvals[a].status = "none"
    BY <2>1, FreeMoves DEF Opened, StaysFree
  <2>2. CASE approvals[a].status # "none"
    <3>1. \/ messages[InvoiceOf(a)].sent > 0
          \/ failures[InvoiceOf(a)] \in TerminalStates
      <4>1. CASE approvals[a].status = "sent"
        BY <4>1 DEF ClosingInv, SentIsCounted, With
      <4>2. CASE approvals[a].status # "sent"
        <5>1. PICK s \in Sweepers : Settle(s) /\ cur[s] = a /\ Outcome(spc[s]) = "sent"
          BY <2>2, <4>2, FieldsMove DEF StatusMove
        <5>2. spc[s] = "close"
          BY <5>1 DEF Settle, Outcome
        <5>3. QED
          BY <5>1, <5>2 DEF ClosingInv, CountedInv
      <4>3. QED
        BY <4>1, <4>2
    <3>2. QED
      BY <2>2, <3>1, CountedStays
  <2>3. QED
    BY <2>1, <2>2
<1>2. CountedInv'
  <2> SUFFICES ASSUME NEW s \in Sweepers, spc'[s] \in {"move", "close"}
               PROVE  /\ spc'[s] = "move" => messages'[InvoiceOf(cur[s])'].sent > 0
                      /\ spc'[s] = "close" =>
                           \/ messages'[InvoiceOf(cur[s])'].sent > 0
                           \/ failures'[InvoiceOf(cur[s])'] \in TerminalStates
    BY DEF CountedInv
  <2>1. Working(s) /\ cur'[s] = cur[s] /\ (SweepKept(s) \/ WorkCall(s))
    BY SweepsMove, Listed, Fetched DEF SweepMove, SweepKept, SameRequest, Working
  <2>2. cur[s] \in Requests /\ approvals[cur[s]].status # "none"
    BY <2>1 DEF PassInv
  <2>3. InvoiceOf(cur[s])' = InvoiceOf(cur[s]) /\ InvoiceOf(cur[s]) \in Invoices
    BY <2>1, <2>2, CountedStays DEF InvoiceOf
  <2>4. CASE SweepKept(s)
    BY <2>2, <2>3, <2>4, CountedStays DEF SweepKept, ClosingInv, CountedInv
  <2>5. CASE RecordSent(s)
    <3>1. spc'[s] = "move"
      BY <2>5, TypeParts DEF RecordSent, StepTo, SweepTypes, TypeInv
    <3>2. messages'[InvoiceOf(cur[s])] = OneMoreSent(messages[InvoiceOf(cur[s])])
      BY <2>3, <2>5, TypeParts DEF RecordSent, TableTypes, TypeInv
    <3>3. messages'[InvoiceOf(cur[s])].sent > 0
      BY <2>3, <3>2, LedgerMoves DEF OneMoreSent
    <3>4. QED
      BY <2>3, <3>1, <3>3
  <2>6. CASE MoveInvoice(s)
    <3>1. spc[s] = "move" /\ spc'[s] \in {"close", "idle"} /\ messages' = messages
      BY <2>6, TypeParts DEF MoveInvoice, StepTo, SweepTypes, TypeInv
    <3>2. QED
      BY <2>3, <3>1 DEF ClosingInv, CountedInv
  <2>7. CASE ReadFailure(s)
    <3>1. /\ spc'[s] = IF IsOpen(InvoiceOf(cur[s])) THEN "record" ELSE "close"
          /\ failures' = failures
      BY <2>7, TypeParts DEF ReadFailure, StepTo, SweepTypes, TypeInv, ledger
    <3>2. ~IsOpen(InvoiceOf(cur[s])) => failures[InvoiceOf(cur[s])] \in TerminalStates
      BY <2>3, TypeParts DEF IsOpen, TypeInv, TableTypes, RowStates
    <3>3. QED
      BY <2>3, <3>1, <3>2
  <2>8. CASE DeleteStale(s) \/ DraftExists(s) \/ MarkGone(s) \/ Search(s)
    <3>1. spc'[s] \notin {"move", "close"}
      BY <2>8, TypeParts DEF DeleteStale, DraftExists, MarkGone, Search, StepTo, SweepTypes, TypeInv
    <3>2. QED
      BY <3>1
  <2>9. QED
    BY <2>1, <2>4, <2>5, <2>6, <2>7, <2>8 DEF WorkCall
<1>3. QED
  BY <1>1, <1>2 DEF ClosingInv

(* A sweep may still count a request: it is about to, or the invoice is open and  *)
(* the sweep has the request before it, in this pass or, as it is pending, in one *)
(* to come.                                                                       *)
MayCount(s, a) ==
  \/ spc[s] = "record" /\ cur[s] = a
  \/ /\ IsOpen(InvoiceOf(a))
     /\ \/ approvals[a].status = "pending" /\ ~(spc[s] \in {"move", "close"} /\ cur[s] = a)
        \/ Passing(s) /\ a \in todo[s]
        \/ spc[s] \in {"exists", "gone", "search", "state"} /\ cur[s] = a

RequestsOf(i) == {a \in Requests : InvoiceOf(a) = i}

Countable(i) == {p \in Sweepers \X RequestsOf(i) : MayCount(p[1], p[2])}

(* What was counted and what may still be are bounded together. *)
CountInv ==
  \A i \in Invoices :
    messages[i].sent + Cardinality(Countable(i))
      <= Cardinality(Sweepers) * (Cardinality(RequestsOf(i)) + faults)

(* Only a fault between the count and the closing of a request lets a sweep count *)
(* it again.                                                                      *)
LEMMA MayCountMoves ==
  ASSUME RequestInv, [Next]_vars, NEW s \in Sweepers, NEW a \in Requests,
         approvals[a].status # "none", MayCount(s, a)'
  PROVE  /\ MayCount(s, a) \/ (a = cur[s] /\ faults' = faults + 1)
         /\ RecordSent(s) => a # cur[s]
<1> USE DEF RequestInv
<1>1. InvoiceOf(a) \in Invoices /\ InvoiceOf(a)' = InvoiceOf(a)
  BY CountedStays
<1>2. IsOpen(InvoiceOf(a))' => IsOpen(InvoiceOf(a))
  <2>1. failures[InvoiceOf(a)] \in RowStates
    BY <1>1, TypeParts DEF TypeInv, TableTypes
  <2>2. QED
    BY <1>1, <2>1, LedgerMoves DEF IsOpen, RowStates, OpenStates, TerminalStates
<1>3. approvals'[a].status = "pending" => approvals[a].status = "pending"
  BY RowsMove DEF RowKept
<1>4. CASE SweepKept(s)
  <2>1. MayCount(s, a)
    BY <1>2, <1>3, <1>4 DEF SweepKept, MayCount, Passing
  <2>2. ~RecordSent(s)
    BY <1>4, TypeParts DEF SweepKept, RecordSent, StepTo, TypeInv, SweepTypes
  <2>3. QED
    BY <2>1, <2>2
<1>5. CASE spc'[s] \in {"idle", "list"} /\ SameRequest(s) /\ StopCall(s)
  <2>1. IsOpen(InvoiceOf(a)) /\ approvals[a].status = "pending"
    BY <1>2, <1>3, <1>5 DEF MayCount, Passing
  <2>2. CASE ~(spc[s] \in {"move", "close"} /\ cur[s] = a)
    <3>1. ~RecordSent(s)
      BY <1>5, TypeParts DEF RecordSent, StepTo, TypeInv, SweepTypes
    <3>2. QED
      BY <2>1, <2>2, <3>1 DEF MayCount
  <2>3. CASE spc[s] \in {"move", "close"} /\ cur[s] = a
    <3>1. ~MoveInvoice(s)
      <4>1. CASE MoveInvoice(s)
        <5>1. ~CanTransition(failures[InvoiceOf(a)], "messaged")
          BY <1>5, <2>3, <4>1, TypeParts DEF MoveInvoice, StepTo, TypeInv, SweepTypes
        <5>2. QED
          BY <2>1, <5>1 DEF IsOpen, OpenStates, CanTransition, AllowedTransitions
      <4>2. QED
        BY <4>1
    <3>2. PassError(s) \/ Crash
      BY <1>5, <2>3, <3>1 DEF StopCall, Begin, PassOver
    <3>3. QED
      BY <2>3, <3>2 DEF PassError, Crash, RecordSent
  <2>4. QED
    BY <2>2, <2>3
<1>6. CASE List(s)
  BY <1>2, <1>3, <1>6, Listed DEF MayCount, With, RecordSent, ledger
<1>7. CASE FetchRow(s)
  <2>1. PICK b \in todo[s] :
           /\ b \in Requests /\ spc[s] = "row" /\ cur'[s] = b /\ todo'[s] = todo[s] \ {b}
           /\ spc'[s] \in {"delete", "expire", "exists", "gone"}
    BY <1>7, Fetched
  <2>2. QED
    BY <1>2, <1>3, <2>1 DEF MayCount, Passing, RecordSent
<1>8. CASE Working(s) /\ spc'[s] = "row" /\ SameRequest(s) /\ NextCall(s)
  <2>1. spc[s] \notin {"move", "record"}
    BY <1>8 DEF NextCall, MarkPresent, Search, Settle, MailboxError
  <2>2. CASE approvals'[a].status = "pending"
    <3>1. ~(spc[s] = "close" /\ cur[s] = a)
      <4>1. CASE spc[s] = "close" /\ cur[s] = a
        <5>1. Resolve(a, "sent")
          BY <1>8, <4>1 DEF NextCall, MarkPresent, Search, Settle, MailboxError, Outcome
        <5>2. approvals'[a].status = IF approvals[a].status = "pending"
                                       THEN "sent" ELSE approvals[a].status
          BY <5>1, ResolveRow, TypeOfRows DEF TypeInv, Statuses
        <5>3. QED
          BY <2>2, <5>2
      <4>2. QED
        BY <4>1
    <3>2. QED
      BY <1>2, <1>3, <1>8, <2>1, <2>2, <3>1 DEF MayCount, RecordSent
  <2>3. CASE approvals'[a].status # "pending"
    BY <1>2, <1>8, <2>1, <2>3 DEF MayCount, SameRequest, Passing, Working, RecordSent
  <2>4. QED
    BY <2>2, <2>3
<1>9. CASE /\ Working(s) /\ spc'[s] \notin {"idle", "list", "row"} /\ SameRequest(s)
           /\ WorkCall(s)
  <2>1. cur[s] \notin todo[s] /\ cur'[s] = cur[s] /\ todo'[s] = todo[s] /\ Passing(s)
    BY <1>9 DEF PassInv, SameRequest, Working, Passing
  <2>2. CASE DeleteStale(s) \/ DraftExists(s) \/ MarkGone(s) \/ Search(s)
    <3>1. /\ spc[s] \in {"delete", "exists", "gone", "search"}
          /\ spc'[s] \in {"expire", "present", "gone", "search", "state", "skip", "row"}
          /\ spc'[s] \in {"gone", "search", "state"} =>
               spc[s] \in {"exists", "gone", "search"}
      BY <2>2, TypeParts DEF DeleteStale, DraftExists, MarkGone, Search, StepTo, TypeInv, SweepTypes
    <3>2. QED
      BY <1>2, <1>3, <2>1, <3>1 DEF MayCount, RecordSent
  <2>3. CASE ReadFailure(s)
    <3>1. /\ spc[s] = "state"
          /\ spc'[s] = IF IsOpen(InvoiceOf(cur[s])) THEN "record" ELSE "close"
      BY <2>3, TypeParts DEF ReadFailure, StepTo, TypeInv, SweepTypes
    <3>2. QED
      BY <1>2, <1>3, <2>1, <3>1 DEF MayCount, RecordSent
  <2>4. CASE RecordSent(s) \/ MoveInvoice(s)
    <3>1. spc[s] \in {"record", "move"} /\ spc'[s] \in {"move", "close", "idle"}
      BY <2>4, TypeParts DEF RecordSent, MoveInvoice, StepTo, TypeInv, SweepTypes
    <3>2. spc'[s] \in {"move", "close"}
      BY <1>9, <3>1
    <3>3. a # cur[s]
      BY <2>1, <3>2 DEF MayCount
    <3>4. QED
      BY <1>2, <1>3, <2>1, <3>2, <3>3 DEF MayCount
  <2>5. QED
    BY <1>9, <2>2, <2>3, <2>4 DEF WorkCall
<1>10. QED
  BY <1>4, <1>5, <1>6, <1>7, <1>8, <1>9, SweepsMove DEF SweepMove

LEMMA CountFinite ==
  ASSUME NEW i
  PROVE  /\ IsFiniteSet(Sweepers) /\ Cardinality(Sweepers) \in Nat
         /\ IsFiniteSet(RequestsOf(i)) /\ Cardinality(RequestsOf(i)) \in Nat
         /\ IsFiniteSet(RequestsOf(i)') /\ Cardinality(RequestsOf(i)') \in Nat
         /\ IsFiniteSet(Countable(i)) /\ Cardinality(Countable(i)) \in Nat
         /\ IsFiniteSet(Countable(i)') /\ Cardinality(Countable(i)') \in Nat
<1>1. IsFiniteSet(Sweepers) /\ IsFiniteSet(Requests)
  BY MailboxSets
<1>2. IsFiniteSet(RequestsOf(i)) /\ IsFiniteSet(RequestsOf(i)')
  BY <1>1, FS_Subset DEF RequestsOf
<1>3. IsFiniteSet(Sweepers \X RequestsOf(i)) /\ IsFiniteSet(Sweepers \X RequestsOf(i)')
  BY <1>1, <1>2, FS_Product
<1>4. /\ Countable(i) \subseteq Sweepers \X RequestsOf(i)
      /\ Countable(i)' \subseteq Sweepers \X RequestsOf(i)'
  BY DEF Countable
<1>5. IsFiniteSet(Countable(i)) /\ IsFiniteSet(Countable(i)')
  BY <1>3, <1>4, FS_Subset
<1>6. QED
  BY <1>1, <1>2, <1>5, FS_CardinalityType

(* The bound grows by the number of sweeps with each request and each fault. *)
LEMMA BoundGrows ==
  ASSUME NEW k \in Nat, NEW n \in Nat, NEW f \in Nat
  PROVE  k * ((n + 1) + f) = k * (n + f) + k /\ k * (n + (f + 1)) = k * (n + f) + k
         /\ k * (n + f) \in Nat
OBVIOUS


(* One fault lets each sweep count the request before it once more. *)
Retried == {<<s, cur[s]>> : s \in Sweepers}

LEMMA RetriedFinite == IsFiniteSet(Retried) /\ Cardinality(Retried) <= Cardinality(Sweepers)
<1> DEFINE f == [s \in Sweepers |-> <<s, cur[s]>>]
<1>1. f \in Surjection(Sweepers, Retried)
  BY DEF Retried, Surjection
<1>2. QED
  BY <1>1, FS_Surjection, MailboxSets

(* Where the requests that may be counted come from. *)
LEMMA CountableMoves ==
  ASSUME RequestInv, [Next]_vars, NEW i \in Invoices
  PROVE  /\ \A a \in RequestsOf(i)' : a \in RequestsOf(i) \/ Opened(a)
         /\ \A a \in RequestsOf(i) : a \in RequestsOf(i)'
         /\ \A p \in Countable(i)' :
              \/ p \in Countable(i)
              \/ p \in Retried /\ faults' = faults + 1
              \/ p[2] \in RequestsOf(i)' \ RequestsOf(i)
         /\ \A s \in Sweepers : RecordSent(s) => <<s, cur[s]>> \notin Countable(i)'
<1> USE DEF RequestInv
<1>1. \A a \in RequestsOf(i)' : a \in Requests /\ (a \in RequestsOf(i) \/ Opened(a))
  <2> SUFFICES ASSUME NEW a \in Requests, InvoiceOf(a)' = i
               PROVE  a \in RequestsOf(i) \/ Opened(a)
    BY DEF RequestsOf
  <2>1. CASE approvals[a].status = "none"
    BY <2>1, FreeMoves, MailboxSets DEF StaysFree, FreeInv, InvoiceOf
  <2>2. CASE approvals[a].status # "none"
    BY <2>2, CreatedStays DEF RequestsOf, InvoiceOf
  <2>3. QED
    BY <2>1, <2>2
<1>2. \A a \in RequestsOf(i) : approvals[a].status # "none" /\ a \in RequestsOf(i)'
  <2> SUFFICES ASSUME NEW a \in Requests, InvoiceOf(a) = i
               PROVE  approvals[a].status # "none" /\ InvoiceOf(a)' = i
    BY DEF RequestsOf
  <2>1. approvals[a].status # "none"
    BY MailboxSets DEF FreeInv
  <2>2. QED
    BY <2>1, CreatedStays DEF InvoiceOf
<1>3. ASSUME NEW p \in Countable(i)'
      PROVE  \/ p \in Countable(i)
             \/ p \in Retried /\ faults' = faults + 1
             \/ p[2] \in RequestsOf(i)' \ RequestsOf(i)
  <2>1. PICK s \in Sweepers, a \in RequestsOf(i)' : p = <<s, a>> /\ MayCount(s, a)'
    BY <1>3 DEF Countable
  <2>2. CASE a \in RequestsOf(i)
    <3>1. a \in Requests /\ approvals[a].status # "none"
      BY <1>2, <2>2 DEF RequestsOf
    <3>2. MayCount(s, a) \/ (a = cur[s] /\ faults' = faults + 1)
      BY <2>1, <3>1, MayCountMoves
    <3>3. CASE MayCount(s, a)
      BY <2>1, <2>2, <3>3 DEF Countable
    <3>4. CASE a = cur[s] /\ faults' = faults + 1
      BY <2>1, <3>4 DEF Retried
    <3>5. QED
      BY <3>2, <3>3, <3>4
  <2>3. CASE a \notin RequestsOf(i)
    BY <2>1, <2>3
  <2>4. QED
    BY <2>2, <2>3
<1>4. ASSUME NEW s \in Sweepers, RecordSent(s), <<s, cur[s]>> \in Countable(i)'
      PROVE  FALSE
  <2>1. cur[s] \in Requests /\ approvals[cur[s]].status # "none"
    BY <1>4 DEF PassInv, Working, RecordSent
  <2>2. PICK t \in Sweepers, a \in RequestsOf(i)' : <<s, cur[s]>> = <<t, a>> /\ MayCount(t, a)'
    BY <1>4 DEF Countable
  <2>3. t = s /\ a = cur[s]
    BY <2>2
  <2>4. RecordSent(t) /\ a \in Requests /\ approvals[a].status # "none"
    BY <1>4, <2>1, <2>3
  <2>5. a # cur[t]
    BY <2>2, <2>4, MayCountMoves
  <2>6. QED
    BY <2>3, <2>5
<1>5. QED
  BY <1>1, <1>2, <1>3, <1>4

LEMMA CountStep ==
  ASSUME RequestInv, CountInv, [Next]_vars
  PROVE  CountInv'
<1> SUFFICES ASSUME NEW i \in Invoices
             PROVE  messages'[i].sent + Cardinality(Countable(i)')
                      <= Cardinality(Sweepers) * (Cardinality(RequestsOf(i)') + faults')
  BY DEF CountInv
<1> USE DEF RequestInv
<1> DEFINE k  == Cardinality(Sweepers)
           R  == RequestsOf(i)
           R1 == RequestsOf(i)'
           C  == Countable(i)
           C1 == Countable(i)'
<1>1. /\ messages[i].sent \in Nat /\ faults \in Nat /\ k \in Nat
      /\ IsFiniteSet(R) /\ IsFiniteSet(R1) /\ IsFiniteSet(C) /\ IsFiniteSet(C1)
      /\ Cardinality(R) \in Nat /\ Cardinality(R1) \in Nat
      /\ Cardinality(C) \in Nat /\ Cardinality(C1) \in Nat
  BY LedgerMoves, CountFinite, TypeParts, MailboxNumbers DEF TypeInv, WorldTypes
<1>2. messages[i].sent + Cardinality(C) <= k * (Cardinality(R) + faults)
  BY DEF CountInv
<1>3. /\ \A a \in R1 : a \in R \/ Opened(a)
      /\ R \subseteq R1
      /\ \A p \in C1 : p \in C \/ (p \in Retried /\ faults' = faults + 1) \/ p[2] \in R1 \ R
      /\ \A s \in Sweepers : RecordSent(s) => <<s, cur[s]>> \notin C1
      /\ C1 \subseteq Sweepers \X R1
  BY CountableMoves DEF Countable
<1>4. \/ messages'[i].sent = messages[i].sent
      \/ \E s \in Sweepers : /\ RecordSent(s) /\ InvoiceOf(cur[s]) = i
                             /\ messages'[i].sent = messages[i].sent + 1
  BY LedgerMoves
<1>5. CASE \E s \in Sweepers : /\ RecordSent(s) /\ InvoiceOf(cur[s]) = i
                               /\ messages'[i].sent = messages[i].sent + 1
  <2>1. PICK s \in Sweepers : /\ RecordSent(s) /\ InvoiceOf(cur[s]) = i
                              /\ messages'[i].sent = messages[i].sent + 1
    BY <1>5
  <2>2. cur[s] \in Requests /\ approvals'= approvals /\ faults' = faults
    BY <2>1 DEF PassInv, Working, RecordSent, world
  <2>3. R1 = R
    BY <2>2 DEF RequestsOf, InvoiceOf
  <2>4. <<s, cur[s]>> \in C
    BY <2>1, <2>2 DEF Countable, MayCount, RequestsOf, RecordSent
  <2>5. C1 \subseteq C \ {<<s, cur[s]>>}
    BY <1>1, <1>3, <2>1, <2>2, <2>3
  <2>6. IsFiniteSet(C \ {<<s, cur[s]>>}) /\ Cardinality(C \ {<<s, cur[s]>>}) = Cardinality(C) - 1
    BY <1>1, <2>4, FS_RemoveElement
  <2>7. Cardinality(C1) <= Cardinality(C) - 1
    BY <2>5, <2>6, FS_Subset
  <2> HIDE DEF k, R, R1, C, C1
  <2>8. k * (Cardinality(R) + faults) \in Nat
    BY <1>1, BoundGrows
  <2>9. messages'[i].sent + Cardinality(C1) <= k * (Cardinality(R) + faults)
    BY <1>1, <1>2, <2>1, <2>7, <2>8
  <2>10. QED
    BY <2>2, <2>3, <2>9 DEF k, R1, C1
<1>6. CASE messages'[i].sent = messages[i].sent
  <2>1. CASE R1 = R /\ faults' # faults + 1
    <3>1. C1 \subseteq C
      BY <1>3, <2>1
    <3>2. Cardinality(C1) <= Cardinality(C)
      BY <1>1, <3>1, FS_Subset
    <3>3. faults' = faults \/ faults' = faults + 1
      BY FaultsMove
    <3> HIDE DEF k, R, R1, C, C1
    <3>4. k * (Cardinality(R) + faults) \in Nat
      BY <1>1, BoundGrows
    <3>5. messages'[i].sent + Cardinality(C1) <= k * (Cardinality(R) + faults)
      BY <1>1, <1>2, <1>6, <3>2, <3>4
    <3>6. QED
      BY <2>1, <3>3, <3>5 DEF k, R1, C1
  <2>2. CASE R1 = R /\ faults' = faults + 1
    <3>1. C1 \subseteq C \cup Retried
      BY <1>3, <2>2
    <3>2. /\ IsFiniteSet(C \cup Retried)
          /\ Cardinality(C \cup Retried) = Cardinality(C) + Cardinality(Retried)
                                             - Cardinality(C \cap Retried)
      BY <1>1, RetriedFinite, FS_Union
    <3>3. Cardinality(C1) <= Cardinality(C \cup Retried) /\ Cardinality(C \cup Retried) \in Nat
      BY <3>1, <3>2, FS_Subset, FS_CardinalityType
    <3>4. /\ Cardinality(Retried) \in Nat /\ Cardinality(C \cap Retried) \in Nat
          /\ Cardinality(Retried) <= k
      <4>1. IsFiniteSet(C \cap Retried)
        BY <1>1, FS_Subset
      <4>2. QED
        BY <4>1, RetriedFinite, FS_CardinalityType
    <3> HIDE DEF k, R, R1, C, C1
    <3>5. /\ k * (Cardinality(R) + faults) \in Nat
          /\ k * (Cardinality(R) + (faults + 1)) = k * (Cardinality(R) + faults) + k
      BY <1>1, BoundGrows
    <3>6. Cardinality(C1) <= Cardinality(C) + k
      BY <1>1, <3>2, <3>3, <3>4
    <3>7. messages'[i].sent + Cardinality(C1) <= k * (Cardinality(R) + (faults + 1))
      BY <1>1, <1>2, <1>6, <3>5, <3>6
    <3>8. QED
      BY <2>2, <3>7 DEF k, R1, C1
  <2>3. CASE R1 # R
    <3>1. PICK a \in R1 : a \notin R /\ Opened(a)
      BY <1>3, <2>3
    <3>2. R1 = R \cup {a} /\ faults' = faults
      <4>1. \A b \in R1 : b \in R \/ b = a
        <5> SUFFICES ASSUME NEW b \in R1, b \notin R, b # a PROVE FALSE
          OBVIOUS
        <5>1. Opened(b)
          BY <1>3
        <5>2. req' = a /\ req' = b
          BY <3>1, <5>1 DEF Opened
        <5>3. QED
          BY <5>2
      <4>2. faults' = faults
        BY <3>1 DEF Opened, world
      <4>3. QED
        BY <1>3, <3>1, <4>1, <4>2
    <3>3. C1 \subseteq C \cup (Sweepers \X {a})
      BY <1>1, <1>3, <3>2
    <3>4. /\ IsFiniteSet(Sweepers \X {a}) /\ Cardinality(Sweepers \X {a}) = k
      <4>1. IsFiniteSet({a}) /\ Cardinality({a}) = 1
        BY FS_Singleton
      <4>2. Cardinality(Sweepers \X {a}) = k * 1 /\ IsFiniteSet(Sweepers \X {a})
        BY <4>1, MailboxSets, FS_Product
      <4>3. QED
        BY <1>1, <4>2
    <3>5. /\ IsFiniteSet(C \cup (Sweepers \X {a}))
          /\ Cardinality(C \cup (Sweepers \X {a})) =
               Cardinality(C) + Cardinality(Sweepers \X {a})
                 - Cardinality(C \cap (Sweepers \X {a}))
      BY <1>1, <3>4, FS_Union
    <3>6. Cardinality(C1) <= Cardinality(C \cup (Sweepers \X {a}))
      BY <3>3, <3>5, FS_Subset
    <3>7. Cardinality(C \cap (Sweepers \X {a})) \in Nat
      <4>1. IsFiniteSet(C \cap (Sweepers \X {a}))
        BY <1>1, FS_Subset
      <4>2. QED
        BY <4>1, FS_CardinalityType
    <3>8. Cardinality(R1) = Cardinality(R) + 1
      BY <1>1, <3>1, <3>2, FS_AddElement
    <3> HIDE DEF k, R, R1, C, C1
    <3>9. /\ k * (Cardinality(R) + faults) \in Nat
          /\ k * ((Cardinality(R) + 1) + faults) = k * (Cardinality(R) + faults) + k
      BY <1>1, BoundGrows
    <3>10. Cardinality(C1) <= Cardinality(C) + k
      BY <1>1, <3>4, <3>5, <3>6, <3>7
    <3>11. messages'[i].sent + Cardinality(C1) <= k * ((Cardinality(R) + 1) + faults)
      BY <1>1, <1>2, <1>6, <3>9, <3>10
    <3>12. QED
      BY <3>2, <3>8, <3>11 DEF k, R1, C1
  <2>4. QED
    BY <2>1, <2>2, <2>3
<1>7. QED
  BY <1>4, <1>5, <1>6

(* Nothing is counted at the start, and no request is there to be counted. *)
LEMMA InitCount == Init => CountInv /\ ClosingInv
<1> SUFFICES ASSUME Init PROVE CountInv /\ ClosingInv
  OBVIOUS
<1>1. ClosingInv
  BY DEF Init, ClosingInv, SentIsCounted, CountedInv, With, Free
<1>2. ASSUME NEW i \in Invoices
      PROVE  messages[i].sent + Cardinality(Countable(i))
               <= Cardinality(Sweepers) * (Cardinality(RequestsOf(i)) + faults)
  <2>1. Countable(i) = {}
    BY MailboxSets DEF Init, Countable, RequestsOf, InvoiceOf, Free
  <2>2. Cardinality(Countable(i)) = 0
    BY <2>1, FS_EmptySet
  <2>3. messages[i].sent = 0 /\ faults = 0
    BY DEF Init
  <2>4. Cardinality(Sweepers) * (Cardinality(RequestsOf(i)) + 0) \in Nat
    BY CountFinite, BoundGrows
  <2>5. QED
    BY <2>2, <2>3, <2>4
<1>3. QED
  BY <1>1, <1>2 DEF CountInv

(* The count that caps a sequence knows each mail sent from the mailbox, at most  *)
(* once for each sweep and each pass that broke between add_message and           *)
(* resolve_approval; and a request that reads sent has its mail counted, or its   *)
(* invoice was closed (record_sent of mailbox_approval.py, where the request is   *)
(* closed last).                                                                  *)
THEOREM CountsAreHonest == Spec => []CountIsHonest
<1>1. RequestInv /\ CountInv /\ ClosingInv /\ [Next]_vars => (CountInv /\ ClosingInv)'
  BY CountStep, ClosingStep
<1>2. RequestInv /\ CountInv /\ ClosingInv => CountIsHonest
  <2> SUFFICES ASSUME RequestInv, CountInv, NEW i \in Invoices
               PROVE  messages[i].sent <= Cardinality(Sweepers) *
                        (Cardinality({a \in Requests : InvoiceOf(a) = i}) + faults)
    BY DEF CountIsHonest, CountedPerRequest, ClosingInv
  <2> USE DEF RequestInv
  <2> DEFINE k == Cardinality(Sweepers)
             n == Cardinality(RequestsOf(i))
             c == Cardinality(Countable(i))
  <2>1. k \in Nat /\ n \in Nat /\ c \in Nat
    BY CountFinite
  <2>2. messages[i].sent \in Nat /\ faults \in Nat
    BY TypeParts, MailboxNumbers DEF TypeInv, TableTypes, WorldTypes
  <2>3. messages[i].sent + c <= k * (n + faults)
    BY DEF CountInv
  <2> HIDE DEF k, n, c
  <2>4. messages[i].sent <= k * (n + faults)
    BY <2>1, <2>2, <2>3, BoundGrows
  <2>5. QED
    BY <2>4 DEF k, n, RequestsOf
<1>3. QED
  BY <1>1, <1>2, InitRequest, InitCount, RequestStep, PTL DEF Spec

-------------------------------------------------------------------------------
(* A mail on record was sent. *)

(* Only a payment closes an invoice, and only the loop makes drafts. *)
LEMMA ClosedOnlyPaid ==
  ASSUME RequestInv, [Next]_vars, NEW i \in Invoices, failures[i] \notin TerminalStates
  PROVE  failures'[i] \notin TerminalStates \/ \E j \in Invoices : Paid(j)
<1>1. CASE \E s \in Sweepers : MoveInvoice(s)
  BY <1>1, TypeParts DEF MoveInvoice, TerminalStates, RequestInv, TypeInv, TableTypes
<1>2. CASE ~\E s \in Sweepers : MoveInvoice(s)
  BY <1>2, NextByActor DEF LoopStep, Sweep, WorldStep, Ask, PaymentFailed, LoopError,
     ExpireQuietly, Create, CreateDraft, CreateDraftFails, MarkFailed, StoreId, Begin, List,
     FetchRow, PassOver, DeleteStale, DraftExists, MarkPresent, MarkGone, Search, ReadFailure,
     RecordSent, Settle, MailboxError, PassError, SendDraft, DeleteDraft, Appear, Crash, Tick,
     vars, ledger
<1>3. QED
  BY <1>1, <1>2

LEMMA DraftsGrow ==
  ASSUME [Next]_vars
  PROVE  drafts' \subseteq drafts \/ CreateDraft \/ CreateDraftFails
BY NextByActor DEF LoopStep, Sweep, WorldStep, Ask, PaymentFailed, Paid, LoopError,
   ExpireQuietly, Create, MarkFailed, StoreId, Begin, List, FetchRow, PassOver, DeleteStale,
   DraftExists, MarkPresent, MarkGone, Search, ReadFailure, RecordSent, MoveInvoice, Settle,
   MailboxError, PassError, SendDraft, DeleteDraft, Appear, Crash, Tick, vars, mailbox

(* The loop asks about an open invoice, and the draft it makes is the request's first. *)
AskingInv ==
  /\ pc \in {"expire", "create"} => failures[inv] \notin TerminalStates
  /\ pc = "draft" => req \in Requests /\ req \notin drafts /\ sentAt[req] = 0

LEMMA AskingStep ==
  ASSUME RequestInv, AskingInv, [Next]_vars
  PROVE  AskingInv'
<1> USE DEF RequestInv
<1>1. (pc \in {"expire", "create"} => failures[inv] \notin TerminalStates)'
  <2> SUFFICES ASSUME pc' \in {"expire", "create"} PROVE failures'[inv'] \notin TerminalStates
    OBVIOUS
  <2>1. CASE UNCHANGED loop
    <3>1. pc \in {"expire", "create"} /\ inv' = inv /\ inv \in Invoices
      BY <2>1 DEF loop, OpeningInv
    <3>2. ~\E i \in Invoices : Paid(i)
      BY <3>1 DEF Paid
    <3>3. QED
      BY <3>1, <3>2, ClosedOnlyPaid DEF AskingInv
  <2>2. CASE \E i \in Invoices : PaymentFailed(i)
    BY <2>2 DEF PaymentFailed, Objection, IsOpen, OpenStates, TerminalStates, ledger
  <2>3. CASE ExpireQuietly
    BY <2>3 DEF ExpireQuietly, Goto, AskingInv
  <2>4. CASE Create \/ CreateDraft \/ CreateDraftFails \/ MarkFailed \/ StoreId \/ LoopError \/ Crash
    BY <2>4 DEF Create, CreateDraft, CreateDraftFails, MarkFailed, StoreId, LoopError, Crash, Goto,
                Done
  <2>5. QED
    BY <2>1, <2>2, <2>3, <2>4, LoopMoves
<1>2. (pc = "draft" => req \in Requests /\ req \notin drafts /\ sentAt[req] = 0)'
  <2> SUFFICES ASSUME pc' = "draft"
               PROVE  req' \in Requests /\ req' \notin drafts' /\ sentAt'[req'] = 0
    OBVIOUS
  <2>1. CASE UNCHANGED loop
    <3>1. pc = "draft" /\ req' = req /\ ~CreateDraft /\ ~CreateDraftFails
      BY <2>1 DEF loop, CreateDraft, CreateDraftFails, Goto
    <3>2. drafts' \subseteq drafts
      BY <3>1, DraftsGrow
    <3>3. QED
      BY <3>1, <3>2, MailsMove DEF AskingInv, MailMove
  <2>2. CASE Create
    <3>1. PICK x \in With("none") : req' = x
      BY <2>2 DEF Create, Done
    <3>2. x \in Requests /\ x \notin drafts /\ sentAt[x] = 0
      BY <3>1 DEF With, FreeInv
    <3>3. QED
      BY <2>2, <3>1, <3>2 DEF Create, mailbox
  <2>3. CASE \/ CreateDraft \/ CreateDraftFails \/ (\E i \in Invoices : PaymentFailed(i))
            \/ ExpireQuietly \/ MarkFailed \/ StoreId \/ LoopError \/ Crash
    BY <2>3 DEF PaymentFailed, ExpireQuietly, CreateDraft, CreateDraftFails, MarkFailed, StoreId,
                LoopError, Crash, Goto, Done
  <2>4. QED
    BY <2>1, <2>2, <2>3, LoopMoves
<1>3. QED
  BY <1>1, <1>2 DEF AskingInv

(* A draft is sent once: what was sent, and what was left intact of it, stays.    *)
OnceInv == \A a \in drafts : sentAt[a] = 0

LEMMA OnceStep ==
  ASSUME RequestInv, AskingInv, OnceInv, [Next]_vars
  PROVE  OnceInv'
<1> SUFFICES ASSUME NEW a \in Requests, a \in drafts' PROVE sentAt'[a] = 0
  BY RequestStep, TypeParts DEF OnceInv, RequestInv, TypeInv, MailboxTypes
<1>1. sentAt[a] = 0
  BY MailsMove DEF MailMove, RequestInv, AskingInv, OnceInv
<1>2. QED
  BY <1>1, MailsMove DEF MailMove, RequestInv

LEMMA SentStays ==
  ASSUME RequestInv, OnceInv, [Next]_vars, NEW a \in Requests, sentAt[a] > 0
  PROVE  sentAt'[a] = sentAt[a] /\ kept'[a] = kept[a]
BY MailsMove DEF MailMove, RequestInv, OnceInv

(* A pass that is about to record a mail, or to close its request as sent, has    *)
(* found one about the invoice, or one that looks like it.                        *)
FoundInv ==
  \A s \in Sweepers :
    spc[s] \in {"state", "record", "move", "close"} => MailsAbout(InvoiceOf(cur[s])) # {}

LEMMA LooksStay ==
  ASSUME RequestInv, OnceInv, [Next]_vars, NEW i \in Invoices, NEW a \in Requests,
         sentAt[a] > 0, LooksLike(a, i)
  PROVE  LooksLike(a, i)'
<1> USE DEF RequestInv
<1>1. PICK b \in Requests : InvoiceOf(b) = i /\ approvals[b].created <= sentAt[a]
  BY DEF LooksLike
<1>2. approvals[a].status # "none" /\ approvals[b].status # "none"
  BY <1>1, MailboxSets DEF FreeInv
<1>3. InvoiceOf(a)' = InvoiceOf(a) /\ InvoiceOf(b)' = i
  BY <1>1, <1>2, CreatedStays DEF InvoiceOf
<1>4. approvals'[b].created = approvals[b].created
  BY <1>2, CreatedStays
<1>5. sentAt'[a] = sentAt[a] /\ kept'[a] = kept[a]
  BY SentStays
<1>6. InvoiceOf(b)' = i /\ approvals'[b].created <= sentAt'[a]
  BY <1>1, <1>3, <1>4, <1>5
<1>7. LetterOf[InvoiceOf(a)]' = LetterOf[i] /\ "subject" \in kept'[a]
  BY <1>3, <1>5 DEF LooksLike, LetterOf
<1>8. QED
  BY <1>6, <1>7 DEF LooksLike, LetterOf, InvoiceOf

LEMMA MailsAboutStay ==
  ASSUME RequestInv, OnceInv, [Next]_vars, NEW i \in Invoices, MailsAbout(i) # {}
  PROVE  MailsAbout(i)' # {}
<1> USE DEF RequestInv
<1>1. PICK a \in Requests : sentAt[a] > 0 /\ (InvoiceOf(a) = i \/ LooksLike(a, i))
  BY DEF MailsAbout
<1>2. sentAt'[a] > 0
  BY <1>1, SentStays
<1>3. CASE InvoiceOf(a) = i
  <2>1. approvals[a].status # "none"
    BY <1>3, MailboxSets DEF FreeInv
  <2>2. InvoiceOf(a)' = i
    BY <1>3, <2>1, CreatedStays DEF InvoiceOf
  <2>3. QED
    BY <1>2, <2>2 DEF MailsAbout
<1>4. CASE LooksLike(a, i)
  <2>1. LooksLike(a, i)'
    BY <1>1, <1>4, LooksStay
  <2>2. QED
    BY <1>2, <2>1 DEF MailsAbout
<1>5. QED
  BY <1>1, <1>3, <1>4

(* What the search takes for the mail of a request is that mail, or looks like it. *)
LEMMA MatchIsAboutIt ==
  ASSUME RequestInv, MailInv, NEW a \in Requests, approvals[a].status # "none", Matches(a)
  PROVE  MailsAbout(InvoiceOf(a)) # {}
<1> USE DEF RequestInv
<1>1. PICK b \in SentSince(a) :
        b = a \/ ("subject" \in kept[b] /\ SubjectOf[InvoiceOf(b)] = SubjectOf[InvoiceOf(a)])
  BY DEF Matches
<1>2. /\ b \in searchable /\ b \in Requests
      /\ CustomerOf[InvoiceOf(b)] = CustomerOf[InvoiceOf(a)]
      /\ sentAt[b] >= approvals[a].created
  BY TypeParts DEF SentSince, TypeInv, WorldTypes, TypeOK
<1>3. sentAt[b] > 0
  BY <1>2 DEF MailInv
<1>4. approvals[b].status # "none"
  BY <1>2, <1>3 DEF FreeInv
<1>5. CASE b = a
  BY <1>2, <1>3, <1>5 DEF MailsAbout
<1>6. CASE "subject" \in kept[b] /\ SubjectOf[InvoiceOf(b)] = SubjectOf[InvoiceOf(a)]
  <2>1. InvoiceOf(a) \in Invoices /\ InvoiceOf(b) \in Invoices
    BY <1>2, <1>4 DEF OwnedInv
  <2>2. LetterOf[InvoiceOf(b)] = LetterOf[InvoiceOf(a)]
    BY <1>2, <1>6, <2>1 DEF LetterOf
  <2>3. approvals[a].created <= sentAt[b]
    <3>1. approvals[a].created \in Nat /\ sentAt[b] \in Nat
      BY <1>2, TypeParts, MailboxNumbers DEF TypeInv, MailboxTypes, TableTypes, RowsOK, Row
    <3>2. QED
      BY <1>2, <3>1
  <2>4. LooksLike(b, InvoiceOf(a))
    BY <1>6, <2>2, <2>3 DEF LooksLike
  <2>5. QED
    BY <1>2, <1>3, <2>4 DEF MailsAbout
<1>7. QED
  BY <1>1, <1>5, <1>6

LEMMA FoundStep ==
  ASSUME RequestInv, MailInv, OnceInv, FoundInv, [Next]_vars
  PROVE  FoundInv'
<1> USE DEF RequestInv
<1> SUFFICES ASSUME NEW s \in Sweepers, spc'[s] \in {"state", "record", "move", "close"}
             PROVE  MailsAbout(InvoiceOf(cur[s]))' # {}
  BY DEF FoundInv
<1>1. Working(s) /\ cur'[s] = cur[s] /\ (SweepKept(s) \/ WorkCall(s))
  BY SweepsMove, Listed, Fetched DEF SweepMove, SweepKept, SameRequest, Working
<1>2. cur[s] \in Requests /\ approvals[cur[s]].status # "none"
  BY <1>1 DEF PassInv
<1>3. InvoiceOf(cur[s])' = InvoiceOf(cur[s]) /\ InvoiceOf(cur[s]) \in Invoices
  BY <1>1, <1>2, CountedStays DEF InvoiceOf
<1>4. MailsAbout(InvoiceOf(cur[s])) # {}
  <2>1. CASE spc[s] \in {"state", "record", "move", "close"}
    BY <2>1 DEF FoundInv
  <2>2. CASE spc[s] \notin {"state", "record", "move", "close"}
    <3>1. Search(s)
      <4>1. ~SweepKept(s)
        BY <2>2 DEF SweepKept
      <4>2. CASE DeleteStale(s) \/ DraftExists(s) \/ MarkGone(s)
        BY <2>2, <4>2, TypeParts
           DEF DeleteStale, DraftExists, MarkGone, StepTo, SweepTypes, TypeInv
      <4>3. QED
        BY <1>1, <2>2, <4>1, <4>2 DEF WorkCall, ReadFailure, RecordSent, MoveInvoice
    <3>2. Matches(cur[s])
      BY <2>2, <3>1, TypeParts DEF Search, StepTo, SweepTypes, TypeInv
    <3>3. QED
      BY <1>2, <3>2, MatchIsAboutIt
  <2>3. QED
    BY <2>1, <2>2
<1>5. PICK i \in Invoices : i = InvoiceOf(cur[s])
  BY <1>3
<1>6. MailsAbout(i)' # {}
  BY <1>4, <1>5, MailsAboutStay
<1>7. InvoiceOf(cur[s])' = i
  BY <1>3, <1>5
<1>8. QED
  BY <1>6, <1>7 DEF MailsAbout, LooksLike

LEMMA MessagedStep ==
  ASSUME RequestInv, OnceInv, FoundInv, MessagedMeansMailed, [Next]_vars
  PROVE  MessagedMeansMailed'
<1> USE DEF RequestInv
<1> SUFFICES ASSUME NEW i \in Invoices, failures'[i] = "messaged" \/ messages'[i].sent > 0
             PROVE  MailsAbout(i)' # {}
  BY DEF MessagedMeansMailed
<1>1. MailsAbout(i) # {}
  <2>1. CASE failures[i] = "messaged" \/ messages[i].sent > 0
    BY <2>1 DEF MessagedMeansMailed
  <2>2. CASE ~(failures[i] = "messaged" \/ messages[i].sent > 0)
    <3>1. PICK s \in Sweepers : (RecordSent(s) \/ MoveInvoice(s)) /\ InvoiceOf(cur[s]) = i
      BY <2>2, LedgerMoves
    <3>2. spc[s] \in {"record", "move"}
      BY <3>1 DEF RecordSent, MoveInvoice
    <3>3. QED
      BY <3>1, <3>2 DEF FoundInv
  <2>3. QED
    BY <2>1, <2>2
<1>2. QED
  BY <1>1, MailsAboutStay

(* The ledger says that a mail about an invoice was sent only if one was, or one  *)
(* to the same person that shows the same subject and was sent since a request    *)
(* about the invoice was opened: the pass records a mail only after the search    *)
(* found one by its header or its subject (reconcile of mailbox_approval.py), and *)
(* the subject is fixed by the failure code.                                      *)
THEOREM MessagedIsMailed == Spec => []MessagedMeansMailed
<1> DEFINE Inv == RequestInv /\ MailInv /\ AskingInv /\ OnceInv /\ FoundInv /\ MessagedMeansMailed
<1>1. Init => Inv
  <2>1. Init => AskingInv /\ OnceInv /\ FoundInv /\ MessagedMeansMailed
    BY DEF Init, AskingInv, OnceInv, FoundInv, MessagedMeansMailed
  <2>2. QED
    BY <2>1, InitRequest, InitMail
<1>2. Inv /\ [Next]_vars => Inv'
  BY RequestStep, MailStep, AskingStep, OnceStep, FoundStep, MessagedStep
<1>3. QED
  BY <1>1, <1>2, PTL DEF Spec

-------------------------------------------------------------------------------
(* The mailbox keeps its contract. *)

(* What the contract sees of a state. *)
ContractVars == <<Contract!rows, blind, Contract!mails, Contract!books>>

Keeps == Contract!Next \/ UNCHANGED ContractVars

LEMMA AskKeeps ==
  ASSUME RequestInv, AskingInv, Create
  PROVE  Keeps
<1> USE DEF RequestInv
<1>1. CASE Waiting(inv)
  BY <1>1 DEF Create, Keeps, ContractVars, Contract!rows, Contract!mails, Contract!books, InvoiceOf,
              mailbox, sweepers
<1>2. CASE ~Waiting(inv)
  <2>1. PICK x \in With("none") :
          approvals' = [approvals EXCEPT ![x] =
             [Free EXCEPT !.invoice = inv, !.status = "pending",
                          !.created = clock, !.expires = clock + TTL]]
    BY <1>2 DEF Create
  <2>2. PICK i \in Invoices : i = inv
    BY DEF OpeningInv, Create
  <2>3. /\ x \in Requests /\ approvals[x].status = "none" /\ ~approvals[x].external
        /\ x \notin drafts /\ sentAt[x] = 0 /\ clock \in 1..MaxClock
    BY TypeParts DEF With, FreeInv, TypeInv, WorldTypes
  <2>4. /\ \A b \in Requests \ {x} : approvals'[b] = approvals[b]
        /\ approvals'[x].status = "pending" /\ approvals'[x].invoice = i
        /\ ~approvals'[x].external
    BY <2>1, <2>2, <2>3, NewRow, TypeOfRows DEF TypeInv
  <2>5. failures[i] \notin TerminalStates
    BY <2>2 DEF AskingInv, Create
  <2>6. \A b \in Requests : InvoiceOf(b) = i => approvals[b].status # "pending"
    BY <1>2, <2>2 DEF Waiting, With
  <2>7. UNCHANGED <<failures, messages, blind, drafts, sentAt>>
    BY DEF Create, sweepers, mailbox
  <2>8. /\ [b \in Requests |-> approvals'[b].status]
              = [[b \in Requests |-> approvals[b].status] EXCEPT ![x] = "pending"]
        /\ [b \in Requests |-> approvals'[b].invoice]
              = [[b \in Requests |-> approvals[b].invoice] EXCEPT ![x] = i]
    BY <2>3, <2>4
  <2>9. {b \in Requests : approvals'[b].external} = {b \in Requests : approvals[b].external}
    BY <2>3, <2>4
  <2>10. Contract!Ask(x, i)
    BY <2>3, <2>5, <2>6, <2>7, <2>8, <2>9 DEF Contract!Ask, Contract!mails, Contract!books, InvoiceOf
  <2>11. QED
    BY <2>3, <2>10 DEF Keeps, Contract!Next
<1>3. QED
  BY <1>1, <1>2

LEMMA ExpireKeeps ==
  ASSUME RequestInv, ExpireOverdue, UNCHANGED <<failures, messages, sweepers, mailbox>>
         \/ UNCHANGED <<failures, messages, blind, mailbox>>
  PROVE  Keeps
<1> DEFINE S == {a \in Requests : approvals[a].status = "pending" /\ approvals[a].expires <= clock}
<1>1. \A a \in Requests : /\ OnlyStatus(a)
                         /\ approvals'[a].status = IF a \in S THEN "expired" ELSE approvals[a].status
  BY ExpireRows, TypeOfRows DEF RequestInv, TypeInv
<1>2. UNCHANGED <<failures, messages, blind, drafts, sentAt>>
  BY DEF sweepers, mailbox
<1>3. PICK T \in SUBSET Requests : T = S
  OBVIOUS
<1>4. Contract!Expire(T)
  BY <1>1, <1>2, <1>3
  DEF Contract!Expire, Contract!mails, Contract!books, OnlyStatus, KeepsTimes, InvoiceOf
<1>5. QED
  BY <1>4 DEF Keeps, Contract!Next

LEMMA DraftKeeps ==
  ASSUME RequestInv, AskingInv, CreateDraft \/ CreateDraftFails
  PROVE  Keeps
<1>1. /\ req \in Requests /\ req \notin drafts /\ sentAt[req] = 0
      /\ approvals[req].status # "none" /\ ~approvals[req].external
  BY DEF AskingInv, RequestInv, OpeningInv, CreateDraft, CreateDraftFails
<1>2. /\ drafts' = drafts \/ drafts' = drafts \cup {req}
      /\ UNCHANGED <<failures, messages, approvals, blind, sentAt>>
  BY DEF CreateDraft, CreateDraftFails, ledger, sweepers
<1>3. CASE drafts' = drafts
  BY <1>2, <1>3 DEF Keeps, ContractVars, Contract!rows, Contract!mails, Contract!books, InvoiceOf
<1>4. CASE drafts' = drafts \cup {req}
  <2>1. Contract!Draft(req)
    BY <1>1, <1>2, <1>4 DEF Contract!Draft, Contract!rows, Contract!books, InvoiceOf
  <2>2. QED
    BY <1>1, <2>1 DEF Keeps, Contract!Next
<1>5. QED
  BY <1>2, <1>3, <1>4

LEMMA FailKeeps ==
  ASSUME RequestInv, MarkFailed
  PROVE  Keeps
<1>1. /\ req \in Requests /\ ~approvals[req].external
  BY TypeParts DEF RequestInv, TypeInv, HandInv, OpeningInv, MarkFailed
<1>2. \A a \in Requests :
        /\ OnlyStatus(a)
        /\ approvals'[a].status = IF a = req /\ approvals[a].status = "pending"
                                    THEN "failed" ELSE approvals[a].status
  BY ResolveRow, TypeOfRows DEF MarkFailed, Statuses, RequestInv, TypeInv
<1>3. UNCHANGED <<failures, messages, blind, drafts, sentAt>>
  BY DEF MarkFailed, sweepers, mailbox
<1>4. CASE approvals[req].status = "pending"
  <2>1. Contract!Answer(req, "failed")
    BY <1>1, <1>2, <1>3, <1>4
    DEF Contract!Answer, Contract!mails, Contract!books, OnlyStatus, KeepsTimes, InvoiceOf
  <2>2. QED
    BY <1>1, <2>1 DEF Keeps, Contract!Next
<1>5. CASE approvals[req].status # "pending"
  BY <1>2, <1>3, <1>5 DEF Keeps, ContractVars, Contract!rows, Contract!mails, Contract!books, OnlyStatus, KeepsTimes, InvoiceOf
<1>6. QED
  BY <1>4, <1>5

LEMMA StoreKeeps ==
  ASSUME RequestInv, StoreId
  PROVE  Keeps
<1>1. PICK x \in Requests : x = req
  BY TypeParts DEF RequestInv, TypeInv, HandInv, StoreId
<1>2. approvals[x].status # "none"
  BY <1>1 DEF RequestInv, OpeningInv, StoreId
<1>3. \A a \in Requests :
        /\ KeepsTimes(a) /\ approvals'[a].status = approvals[a].status
        /\ approvals'[a].external = IF a = x THEN TRUE ELSE approvals[a].external
  <2>1. \A a \in Requests :
          /\ KeepsTimes(a) /\ approvals'[a].status = approvals[a].status
          /\ approvals'[a].external = IF a = req THEN TRUE ELSE approvals[a].external
    BY StoredRow, TypeOfRows DEF StoreId, RequestInv, TypeInv
  <2>2. QED
    BY <1>1, <2>1
<1>4. UNCHANGED <<failures, messages, blind, drafts, sentAt>>
  BY DEF StoreId, sweepers, mailbox
<1>5. {a \in Requests : approvals'[a].external}
        = {a \in Requests : approvals[a].external} \cup {x}
  BY <1>3
<1>6. Contract!Know(x)
  BY <1>2, <1>3, <1>4, <1>5 DEF Contract!Know, Contract!mails, Contract!books, KeepsTimes, InvoiceOf
<1>7. QED
  BY <1>6 DEF Keeps, Contract!Next

LEMMA FetchKeeps ==
  ASSUME RequestInv, NEW s \in Sweepers, FetchRow(s)
  PROVE  Keeps
<1>1. PICK a \in todo[s] :
        /\ a \in Requests /\ spc[s] = "row"
        /\ blind' = IF approvals[a].external THEN blind ELSE blind \cup {a}
        /\ UNCHANGED <<ledger, mailbox>>
  BY Fetched DEF RequestInv
<1>2. approvals[a].status # "none"
  BY <1>1 DEF RequestInv, PassInv, Passing
<1>3. UNCHANGED <<failures, messages, approvals, drafts, sentAt>>
  BY <1>1 DEF ledger, mailbox
<1>4. CASE approvals[a].external
  BY <1>1, <1>3, <1>4 DEF Keeps, ContractVars, Contract!rows, Contract!mails, Contract!books, InvoiceOf
<1>5. CASE ~approvals[a].external
  <2>1. Contract!Overlook(a)
    BY <1>1, <1>2, <1>3, <1>5
    DEF Contract!Overlook, Contract!rows, Contract!mails, Contract!books, InvoiceOf
  <2>2. QED
    BY <1>1, <2>1 DEF Keeps, Contract!Next
<1>6. QED
  BY <1>4, <1>5

LEMMA DiscardKeeps ==
  ASSUME NEW a, drafts' \in {drafts, drafts \ {a}}, drafts \subseteq Requests,
         UNCHANGED <<failures, messages, approvals, blind, sentAt>>
  PROVE  Keeps
<1>1. CASE drafts' = drafts
  BY <1>1 DEF Keeps, ContractVars, Contract!rows, Contract!mails, Contract!books, InvoiceOf
<1>2. CASE drafts' = drafts \ {a} /\ a \in drafts
  <2>1. Contract!Discard(a)
    BY <1>2 DEF Contract!Discard, Contract!rows, Contract!books, InvoiceOf
  <2>2. QED
    BY <1>2, <2>1 DEF Keeps, Contract!Next
<1>3. QED
  BY <1>1, <1>2

LEMMA SendKeeps ==
  ASSUME RequestInv, NEW a \in Requests, SendDraft(a)
  PROVE  Keeps
<1>1. clock > 0 /\ sentAt \in [Requests -> 0..MaxClock]
  BY TypeParts, MailboxNumbers DEF RequestInv, TypeInv, WorldTypes, MailboxTypes
<1>2. {b \in Requests : sentAt'[b] > 0} = {b \in Requests : sentAt[b] > 0} \cup {a}
  BY <1>1 DEF SendDraft
<1>3. UNCHANGED <<failures, messages, approvals, blind>>
  BY DEF SendDraft, ledger, sweepers
<1>4. Contract!Send(a)
  BY <1>2, <1>3 DEF Contract!Send, Contract!rows, Contract!books, InvoiceOf, SendDraft
<1>5. QED
  BY <1>4 DEF Keeps, Contract!Next

LEMMA CountKeeps ==
  ASSUME RequestInv, FoundInv, NEW s \in Sweepers, RecordSent(s)
  PROVE  Keeps
<1>1. PICK i \in Invoices : i = InvoiceOf(cur[s])
  BY DEF RequestInv, PassInv, OwnedInv, Working, RecordSent
<1>2. PICK b \in Requests : sentAt[b] > 0 /\ (InvoiceOf(b) = i \/ LetterOf[InvoiceOf(b)] = LetterOf[i])
  BY <1>1 DEF FoundInv, RecordSent, MailsAbout, LooksLike
<1>3. UNCHANGED <<failures, approvals, blind, drafts, sentAt>>
  BY DEF RecordSent, mailbox
<1>4. messages \in [Invoices -> [sent : Nat, last : 0..MaxClock]]
  BY TypeParts DEF RequestInv, TypeInv, TableTypes
<1>5. messages' = [messages EXCEPT ![i] = [sent |-> messages[i].sent + 1, last |-> clock]]
  BY <1>1 DEF RecordSent, OneMoreSent
<1>6. [j \in Invoices |-> messages'[j].sent]
        = [[j \in Invoices |-> messages[j].sent] EXCEPT ![i] = @ + 1]
  BY <1>4, <1>5
<1>7. Contract!SentAbout(i)
  BY <1>2 DEF Contract!SentAbout
<1>8. Contract!Count(i)
  BY <1>3, <1>6, <1>7 DEF Contract!Count, Contract!rows, Contract!mails, InvoiceOf
<1>9. QED
  BY <1>8 DEF Keeps, Contract!Next

LEMMA MoveKeeps ==
  ASSUME RequestInv, NEW s \in Sweepers, MoveInvoice(s)
  PROVE  Keeps
<1>1. UNCHANGED <<messages, approvals, blind, drafts, sentAt>>
  BY DEF MoveInvoice, mailbox
<1>2. failures \in [Invoices -> RowStates]
  BY TypeParts DEF RequestInv, TypeInv, TableTypes
<1>3. \A i \in Invoices : failures'[i] \in TerminalStates <=> failures[i] \in TerminalStates
  BY <1>2 DEF MoveInvoice, CanTransition, AllowedTransitions, TerminalStates
<1>4. QED
  BY <1>1, <1>3 DEF Keeps, ContractVars, Contract!rows, Contract!mails, Contract!books, InvoiceOf

LEMMA PaidKeeps ==
  ASSUME RequestInv, NEW i \in Invoices, Paid(i)
  PROVE  Keeps
<1>1. UNCHANGED <<messages, approvals, blind, drafts, sentAt>>
  BY DEF Paid, sweepers, mailbox
<1>2. failures \in [Invoices -> RowStates]
  BY TypeParts DEF RequestInv, TypeInv, TableTypes
<1>3. {j \in Invoices : failures'[j] \in TerminalStates}
        = {j \in Invoices : failures[j] \in TerminalStates} \cup {i}
  BY <1>2 DEF Paid, TerminalStates
<1>4. Contract!Close(i)
  BY <1>1, <1>3 DEF Contract!Close, Contract!rows, Contract!mails, InvoiceOf
<1>5. QED
  BY <1>4 DEF Keeps, Contract!Next

LEMMA AnswerKeeps ==
  ASSUME RequestInv, FoundInv, ClosingInv, SkipInv', NEW s \in Sweepers, Settle(s)
  PROVE  Keeps
<1>0. PICK a \in Requests, to \in {"sent", "skipped", "expired"} :
          a = cur[s] /\ to = Outcome(spc[s])
  BY DEF RequestInv, PassInv, Working, Settle, Outcome
<1>1. approvals[a].status # "none" /\ InvoiceOf(a) \in Invoices
  BY <1>0 DEF RequestInv, PassInv, OwnedInv, Working, Settle
<1>2. \A b \in Requests :
        /\ OnlyStatus(b)
        /\ approvals'[b].status = IF b = a /\ approvals[b].status = "pending"
                                    THEN to ELSE approvals[b].status
  BY <1>0, ResolveRow, TypeOfRows DEF Settle, Outcome, Statuses, RequestInv, TypeInv
<1>3. UNCHANGED <<failures, messages, blind, drafts, sentAt>>
  BY DEF Settle, mailbox
<1>4. CASE approvals[a].status = "pending"
  <2>1. /\ spc[s] \in {"close", "skip", "expire"}
        /\ to = IF spc[s] = "close" THEN "sent" ELSE IF spc[s] = "skip" THEN "skipped" ELSE "expired"
    BY <1>0 DEF Settle, Outcome
  <2>2. ASSUME to = "sent"
        PROVE  /\ \E b \in Requests :
                    /\ sentAt[b] > 0
                    /\ InvoiceOf(b) = InvoiceOf(a) \/ LetterOf[InvoiceOf(b)] = LetterOf[InvoiceOf(a)]
               /\ messages[InvoiceOf(a)].sent > 0 \/ failures[InvoiceOf(a)] \in TerminalStates
    BY <1>0, <2>1, <2>2 DEF FoundInv, ClosingInv, CountedInv, MailsAbout, LooksLike
  <2>3. ASSUME to = "skipped"
        PROVE  ~(sentAt[a] > 0) \/ a \in blind
    <3>1. approvals'[a].status = "skipped"
      BY <1>1, <1>2, <1>4, <2>3
    <3>2. QED
      BY <1>1, <1>3, <3>1 DEF SkipInv, VanishedInv
  <2>5. Contract!Answer(a, to)
    BY <1>1, <1>2, <1>3, <1>4, <2>2, <2>3
    DEF Contract!Answer, Contract!SentAbout, Contract!mails, Contract!books, OnlyStatus,
        KeepsTimes, InvoiceOf
  <2>6. QED
    BY <2>5 DEF Keeps, Contract!Next
<1>5. CASE approvals[a].status # "pending"
  BY <1>2, <1>3, <1>5 DEF Keeps, ContractVars, Contract!rows, Contract!mails, Contract!books, OnlyStatus, KeepsTimes, InvoiceOf
<1>6. QED
  BY <1>4, <1>5

LEMMA MarkKeeps ==
  ASSUME RequestInv, NEW s \in Sweepers, MarkPresent(s) \/ MarkGone(s)
  PROVE  Keeps
<1>1. cur[s] \in Requests
  BY DEF RequestInv, PassInv, Working, MarkPresent, MarkGone
<1>2. GoneSince(cur[s]) \in 0..MaxClock /\ 0 \in 0..MaxClock
  BY <1>1, MailboxNumbers, TypeParts, TypeOfRows
  DEF GoneSince, RowsOK, Row, WorldTypes, RequestInv, TypeInv
<1>3. PICK t \in 0..MaxClock : approvals' = [approvals EXCEPT ![cur[s]].gone = t]
  BY <1>2 DEF MarkPresent, MarkGone
<1>4. \A a \in Requests : /\ approvals'[a].status = approvals[a].status
                          /\ approvals'[a].invoice = approvals[a].invoice
                          /\ approvals'[a].external = approvals[a].external
  BY <1>1, <1>3, GoneRow, TypeOfRows DEF KeepsTimes, RequestInv, TypeInv
<1>5. UNCHANGED <<failures, messages, blind, drafts, sentAt>>
  BY DEF MarkPresent, MarkGone, mailbox
<1>6. QED
  BY <1>4, <1>5 DEF Keeps, ContractVars, Contract!rows, Contract!mails, Contract!books, InvoiceOf

(* One step of the program, the person or the mailbox is a step of the contract. *)
LEMMA KeepsStep ==
  ASSUME RequestInv, AskingInv, FoundInv, ClosingInv, SkipInv', [Next]_vars
  PROVE  Keeps
<1>1. ASSUME UNCHANGED <<failures, messages, approvals, blind, drafts, sentAt>>
      PROVE  Keeps
  BY <1>1 DEF Keeps, ContractVars, Contract!rows, Contract!mails, Contract!books, InvoiceOf
<1>2. drafts \subseteq Requests
  BY TypeParts DEF RequestInv, TypeInv, MailboxTypes
<1>3. CASE LoopStep
  <2>1. CASE \E i \in Invoices : Paid(i)
    BY <2>1, PaidKeeps
  <2>2. CASE (\E i \in Invoices : PaymentFailed(i)) \/ LoopError
    BY <2>2, <1>1 DEF PaymentFailed, LoopError, ledger, sweepers, mailbox
  <2>3. CASE ExpireQuietly
    BY <2>3, ExpireKeeps DEF ExpireQuietly
  <2>4. QED
    BY <1>3, <2>1, <2>2, <2>3, AskKeeps, DraftKeeps, FailKeeps, StoreKeeps DEF LoopStep, Ask
<1>4. ASSUME NEW s \in Sweepers, SweepStep(s)
      PROVE  Keeps
  <2>1. CASE Begin(s)
    BY <2>1, ExpireKeeps DEF Begin
  <2>2. CASE List(s) \/ PassOver(s) \/ DraftExists(s) \/ Search(s) \/ ReadFailure(s) \/ PassError(s)
    BY <2>2, <1>1 DEF List, PassOver, DraftExists, Search, ReadFailure, PassError, ledger, mailbox
  <2>3. CASE DeleteStale(s)
    BY <2>3, <1>2, DiscardKeeps DEF DeleteStale, ledger
  <2>4. CASE MailboxError(s)
    <3>1. PICK a \in Requests : drafts' \in {drafts, drafts \ {a}}
      BY <2>4 DEF MailboxError, RequestInv, PassInv, Working
    <3>2. QED
      BY <2>4, <3>1, <1>2, DiscardKeeps DEF MailboxError, ledger
  <2>5. QED
    BY <1>4, <2>1, <2>2, <2>3, <2>4, FetchKeeps, MarkKeeps, CountKeeps, MoveKeeps, AnswerKeeps
    DEF SweepStep, Sweep
<1>5. CASE WorldStep
  <2>1. CASE \E a \in Requests : SendDraft(a)
    BY <2>1, SendKeeps
  <2>2. CASE \E a \in Requests : DeleteDraft(a)
    BY <2>2, <1>2, DiscardKeeps DEF DeleteDraft, ledger, sweepers
  <2>3. CASE (\E a \in Requests : Appear(a)) \/ Crash \/ Tick
    BY <2>3, <1>1 DEF Appear, Crash, Tick, ledger, sweepers, mailbox
  <2>4. QED
    BY <1>5, <2>1, <2>2, <2>3 DEF WorldStep
<1>6. CASE UNCHANGED vars
  BY <1>1, <1>6 DEF vars, ledger, sweepers, mailbox
<1>7. QED
  BY <1>3, <1>4, <1>5, <1>6, NextByActor DEF SweepStep

(* Whatever a pass works from, a restarted or second sweep included, each request *)
(* keeps the contract of MailboxContract: it is answered once; it reads sent only *)
(* if a mail about its invoice, or one that looks the same, left and is on        *)
(* record, and skipped only if its own did not leave; its draft is made once, for *)
(* an open invoice.  Given that a mail program leaves header or subject.          *)
THEOREM MailboxKeepsContract ==
  ASSUME SomethingIsKept
  PROVE  Spec => KeepsMailboxContract
<1> DEFINE Inv == RequestInv /\ MailInv /\ SkipInv /\ CountInv /\ ClosingInv /\ AskingInv /\ OnceInv
          /\ FoundInv
<1>1. Init => Inv
  <2>1. Init => SkipInv /\ FoundInv /\ AskingInv /\ OnceInv
    BY DEF Init, SkipInv, VanishedInv, SeenInv, FoundInv, AskingInv, OnceInv, Free, Working
  <2>2. QED
    BY <2>1, InitRequest, InitMail, InitCount
<1>2. Inv /\ [Next]_vars => Inv'
  BY RequestStep, MailStep, VanishedStep, SeenStep, CountStep, ClosingStep, FoundStep, AskingStep,
     OnceStep
  DEF SkipInv
<1>3. Init => Contract!Init
  <2> SUFFICES ASSUME Init PROVE Contract!Init
    OBVIOUS
  <2>1. QED
    BY DEF Init, Contract!Init, Free, InvoiceOf, TerminalStates
<1>4. Inv /\ Inv' /\ [Next]_vars => [Contract!Next]_ContractVars
  BY KeepsStep DEF Keeps
<1>5. QED
  BY <1>1, <1>2, <1>3, <1>4, PTL DEF Spec, KeepsMailboxContract, Contract!Spec, ContractVars

===============================================================================
