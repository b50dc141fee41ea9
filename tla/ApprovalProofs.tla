---------------------------- MODULE ApprovalProofs ----------------------------
(***************************************************************************)
(* Theorems about Approval, for any number of requests, invoices, sweeping *)
(* threads and faults: every property its passing run checks.  The event   *)
(* loop is alone with a claimed request; the proofs say what it may still  *)
(* rely on at each of its calls while sweeps, the operator, the clock and  *)
(* failures run in between.                                                *)
(***************************************************************************)
EXTENDS Approval, FiniteSetTheorems, TLAPS

\* The calls that are about a request the loop has in hand.
AboutRequest == {"notify", "give_up", "tenant", "suspended", "skip", "claim", "fresh",
                 "block", "mailer", "send", "log", "mark", "move", "fail", "except"}

\* What the loop has in hand fits the call it is about to make.
HandInv ==
  /\ pc = "idle" => req = NoRequest
  /\ pc # "idle" => inv \in Invoices
  /\ pc \in {"skipped", "create"} => req = NoRequest
  /\ pc \in AboutRequest => req # NoRequest
  /\ req # NoRequest => approvals[req].invoice = inv /\ approvals[req].status # "none"
  /\ \A a \in Requests : approvals[a].status # "none" => approvals[a].invoice \in Invoices

TypeInv == TypeOK /\ HandInv

Row == [invoice : Invoices \cup {NoInvoice}, status : Statuses,
        expires : Nat, resolved : 0..MaxClock]

-------------------------------------------------------------------------------
\* What the three writes of the approvals table do to each row.

LEMMA RowsTyped ==
  ASSUME TypeOK
  PROVE  /\ approvals \in [Requests -> Row]
         /\ \A a \in Requests : approvals[a] \in Row
         /\ clock \in 1..MaxClock /\ clock \in Nat
BY NumbersAssumption DEF TypeOK, Row

LEMMA SettledEffect ==
  ASSUME TypeOK, NEW row \in Row, NEW to \in Statuses
  PROVE  /\ Settled(row, to) \in Row
         /\ Settled(row, to).invoice = row.invoice
         /\ Settled(row, to).expires = row.expires
         /\ Settled(row, to).status = to
         /\ Settled(row, to).resolved = IF row.resolved = 0 THEN clock ELSE row.resolved
<1>1. clock \in 0..MaxClock /\ clock \in Nat /\ MaxClock \in Nat
  BY RowsTyped, NumbersAssumption
<1> QED BY <1>1 DEF Settled, Row, Statuses

\* Whether the row of a was settled, to which status, and that nothing else of it moved.
SettledRow(a, to) ==
  /\ approvals'[a].invoice = approvals[a].invoice
  /\ approvals'[a].expires = approvals[a].expires
  /\ approvals'[a].status = to
  /\ approvals'[a].resolved = IF approvals[a].resolved = 0 THEN clock ELSE approvals[a].resolved

LEMMA ResolveEffect ==
  ASSUME TypeOK, NEW a \in Requests, NEW to \in Statuses, NEW from, Resolve(a, to, from)
  PROVE  /\ approvals' \in [Requests -> Row]
         /\ \A b \in Requests \ {a} : approvals'[b] = approvals[b]
         /\ approvals[a].status \in from => SettledRow(a, to)
         /\ approvals[a].status \notin from => approvals' = approvals
<1>1. Settled(approvals[a], to) \in Row /\ approvals \in [Requests -> Row]
  BY RowsTyped, SettledEffect
<1>2. CASE approvals[a].status \in from
  <2>1. approvals' = [approvals EXCEPT ![a] = Settled(approvals[a], to)]
    BY <1>2 DEF Resolve
  <2>2. approvals'[a] = Settled(approvals[a], to)
    BY <1>1, <2>1
  <2>3. SettledRow(a, to)
    BY <2>2, RowsTyped, SettledEffect DEF SettledRow
  <2> QED BY <1>1, <1>2, <2>1, <2>3
<1>3. CASE approvals[a].status \notin from
  BY <1>1, <1>3 DEF Resolve
<1> QED BY <1>2, <1>3

LEMMA ExpireEffect ==
  ASSUME TypeOK, NEW S, Expire(S)
  PROVE  /\ approvals' \in [Requests -> Row]
         /\ \A a \in Requests : a \notin S => approvals'[a] = approvals[a]
         /\ \A a \in Requests : a \in S => SettledRow(a, "expired")
<1>1. "expired" \in Statuses
  BY DEF Statuses
<1>2. \A a \in Requests : Settled(approvals[a], "expired") \in Row
  BY <1>1, RowsTyped, SettledEffect
<1>3. \A a \in Requests : a \in S => approvals'[a] = Settled(approvals[a], "expired")
  BY DEF Expire
<1>4. \A a \in Requests : a \in S => SettledRow(a, "expired")
  BY <1>1, <1>3, RowsTyped, SettledEffect DEF SettledRow
<1> QED BY <1>2, <1>4, RowsTyped DEF Expire

LEMMA ClaimEffect ==
  ASSUME TypeOK, NEW a \in Requests, approvals' = Claimed(a)
  PROVE  /\ approvals' \in [Requests -> Row]
         /\ \A b \in Requests \ {a} : approvals'[b] = approvals[b]
         /\ approvals'[a].invoice = approvals[a].invoice
         /\ approvals'[a].expires = approvals[a].expires
         /\ approvals'[a].status = "approved"
         /\ approvals'[a].resolved = clock
<1>1. clock \in 0..MaxClock /\ clock \in Nat /\ MaxClock \in Nat
  BY RowsTyped, NumbersAssumption
<1>2. approvals \in [Requests -> Row]
  BY RowsTyped
<1> QED BY <1>1, <1>2 DEF Claimed, Row, Statuses

LEMMA NewRow ==
  ASSUME TypeOK, inv \in Invoices
  PROVE  [invoice |-> inv, status |-> "pending", expires |-> clock + TTL, resolved |-> 0] \in Row
<1>1. clock + TTL \in Nat
  BY RowsTyped, NumbersAssumption
<1>2. 0 \in 0..MaxClock /\ "pending" \in Statuses
  BY NumbersAssumption DEF Statuses
<1> QED BY <1>1, <1>2 DEF Row
-------------------------------------------------------------------------------
\* The type invariant.

LEMMA TypeInit == Init => TypeInv
<1> SUFFICES ASSUME Init PROVE TypeInv
  OBVIOUS
<1>1. Free \in Row
  BY NumbersAssumption DEF Free, Row, Statuses
<1>2. TypeOK
  BY <1>1, NumbersAssumption DEF Init, TypeOK, Row, RowStates, OpenStates, Labels
<1>3. HandInv
  BY DEF Init, HandInv, AboutRequest, Free
<1> QED BY <1>2, <1>3 DEF TypeInv

\* No row appears, disappears or changes hands.
RowsStay ==
  \A a \in Requests :
    /\ approvals'[a].invoice = approvals[a].invoice
    /\ approvals'[a].status = "none" <=> approvals[a].status = "none"

LEMMA ResolveStays ==
  ASSUME TypeOK, NEW a \in Requests, NEW to \in Statuses \ {"none"}, NEW from,
         "none" \notin from, Resolve(a, to, from)
  PROVE  approvals' \in [Requests -> Row] /\ RowsStay
BY ResolveEffect DEF RowsStay, SettledRow

LEMMA ExpireStays ==
  ASSUME TypeOK, NEW S, S \subseteq With("pending"), Expire(S)
  PROVE  approvals' \in [Requests -> Row] /\ RowsStay
BY ExpireEffect DEF RowsStay, SettledRow, With

LEMMA StillStays == ASSUME UNCHANGED approvals PROVE RowsStay
BY DEF RowsStay

\* What a step of the loop, or one beside it, keeps of HandInv.
LEMMA GotoHand ==
  ASSUME TypeInv, RowsStay, pc # "idle", NEW l, Goto(l), l # "idle",
         l \in {"skipped", "create"} => req = NoRequest,
         l \in AboutRequest => req # NoRequest
  PROVE  HandInv'
BY DEF TypeInv, TypeOK, HandInv, Goto, RowsStay

LEMMA DoneHand == ASSUME TypeInv, RowsStay, Done PROVE HandInv'
BY DEF Done, HandInv, AboutRequest, RowsStay, TypeInv

LEMMA StandHand == ASSUME TypeInv, RowsStay, UNCHANGED loop PROVE HandInv'
BY DEF TypeInv, TypeOK, HandInv, RowsStay, loop

\* The loop has a request in hand at every call about one.
LEMMA InHand ==
  ASSUME TypeInv, pc \in AboutRequest
  PROVE  req \in Requests /\ req # NoRequest /\ inv \in Invoices /\ pc # "idle"
BY SetsAssumption DEF TypeInv, TypeOK, HandInv, AboutRequest

LEMMA TypeStep == TypeInv /\ [Next]_vars => TypeInv'
<1> SUFFICES ASSUME TypeInv, [Next]_vars PROVE TypeInv'
  OBVIOUS
<1> USE DEF TypeInv
<1>0. TypeOK /\ HandInv
  OBVIOUS
<1>failed. ASSUME NEW i \in Invoices, PaymentFailed(i) PROVE TypeInv'
  BY <1>failed, <1>0 DEF PaymentFailed, TypeOK, HandInv, ledger, world, faults, AboutRequest, Labels
<1>paid. ASSUME NEW i \in Invoices, Paid(i) PROVE TypeInv'
  <2>1. HandInv'
    BY <1>paid, StandHand, StillStays DEF Paid
  <2> QED BY <1>paid, <2>1
      DEF Paid, TypeOK, loop, world, faults, RowStates, TerminalStates
<1>decide. ASSUME NEW a \in Requests, Decide(a) PROVE TypeInv'
  <2>1. approvals[a].invoice \in Invoices /\ a # NoRequest
    BY <1>decide, SetsAssumption DEF Decide, HandInv
  <2>2. TypeOK'
    BY <1>decide, <2>1 DEF Decide, TypeOK, ledger, world, faults, Labels
  <2>3. HandInv'
    BY <1>decide, <2>1 DEF Decide, HandInv, ledger, AboutRequest
  <2> QED BY <2>2, <2>3
<1>check. ASSUME Check PROVE TypeInv'
  <2>1. HandInv'
    BY <1>check, GotoHand, DoneHand, StillStays
    DEF Check, AfterCheck, ledger, AboutRequest
  <2> QED BY <1>check, <2>1
      DEF Check, AfterCheck, Goto, Done, TypeOK, ledger, world, faults, Labels
<1>refuse. ASSUME RefuseToAsk PROVE TypeInv'
  BY <1>refuse, DoneHand, StillStays DEF RefuseToAsk, Done, TypeOK, ledger, world, faults, Labels
<1>skipped. ASSUME CheckSkipped PROVE TypeInv'
  <2>1. HandInv'
    BY <1>skipped, GotoHand, DoneHand, StillStays DEF CheckSkipped, ledger, AboutRequest
  <2> QED BY <1>skipped, <2>1
      DEF CheckSkipped, Goto, Done, TypeOK, ledger, world, faults, Labels
<1>expire. ASSUME ExpireQuietly PROVE TypeInv'
  <2>1. approvals' \in [Requests -> Row] /\ RowsStay
    BY <1>expire, ExpireStays DEF ExpireQuietly, Overdue
  <2>2. HandInv'
    BY <1>expire, <2>1, GotoHand, DoneHand DEF ExpireQuietly, AboutRequest
  <2> QED BY <1>expire, <2>1, <2>2
      DEF ExpireQuietly, Goto, Done, TypeOK, Row, world, faults, Labels
<1>create. ASSUME Create PROVE TypeInv'
  <2>1. CASE Done /\ UNCHANGED approvals
    BY <1>create, <2>1, DoneHand, StillStays DEF Create, Done, TypeOK, world, faults, Labels
  <2>2. ASSUME NEW a \in With("none"),
               approvals' = [approvals EXCEPT ![a] =
                 [invoice |-> inv, status |-> "pending",
                  expires |-> clock + TTL, resolved |-> 0]],
               pc' = "notify", req' = a, UNCHANGED inv
        PROVE  TypeInv'
    <3>1. a \in Requests /\ a # NoRequest /\ inv \in Invoices
      BY <1>create, SetsAssumption DEF With, Create, HandInv
    <3>2. approvals' \in [Requests -> Row]
      BY <2>2, <3>1, NewRow, RowsTyped
    <3>3. TypeOK'
      BY <1>create, <2>2, <3>1, <3>2 DEF Create, TypeOK, Row, world, faults, Labels
    <3>4. approvals'[a].invoice = inv /\ approvals'[a].status = "pending"
      BY <2>2, <3>1, RowsTyped
    <3>5. \A b \in Requests \ {a} : approvals'[b] = approvals[b]
      BY <2>2, <3>1, RowsTyped
    <3>6. HandInv'
      BY <2>2, <3>1, <3>4, <3>5 DEF HandInv, AboutRequest
    <3> QED BY <3>3, <3>6
  <2> QED BY <1>create, <2>1, <2>2 DEF Create
<1>notify. ASSUME Notify PROVE TypeInv'
  <2>1. HandInv'
    BY <1>notify, InHand, GotoHand, DoneHand, StillStays DEF Notify, ledger, AboutRequest
  <2> QED BY <1>notify, <2>1
      DEF Notify, Goto, Done, TypeOK, ledger, world, faults, Labels
<1>resolve. ASSUME NEW to \in Statuses \ {"none"}, NEW from, "none" \notin from,
                   NEW l \in Labels, l # "idle", l \notin {"skipped", "create"},
                   pc \in AboutRequest, Resolve(req, to, from), Done \/ Goto(l),
                   UNCHANGED <<failures, messages, noted, tenant, unrecorded, todo, op, world>>
            PROVE  TypeInv'
  <2>1. req \in Requests /\ req # NoRequest /\ pc # "idle"
    BY <1>resolve, InHand
  <2>2. approvals' \in [Requests -> Row] /\ RowsStay
    BY <1>resolve, <2>1, ResolveStays
  <2>3. HandInv'
    BY <1>resolve, <2>1, <2>2, GotoHand, DoneHand
  <2>4. TypeOK'
    BY <1>resolve, <2>2 DEF Goto, Done, TypeOK, Row, world, faults, Labels
  <2> QED BY <2>3, <2>4
<1>settle. ASSUME GiveUp \/ CloseSuspended \/ Skip \/ Block \/ MarkFailed \/ MarkSent
           PROVE  TypeInv'
  <2>1. pc \in AboutRequest
    BY <1>settle DEF GiveUp, CloseSuspended, Skip, Block, MarkFailed, MarkSent, AboutRequest
  <2>2. "move" \in Labels
    BY DEF Labels
  <2>3. CASE GiveUp
    BY <2>1, <2>2, <2>3, <1>resolve DEF GiveUp, Statuses
  <2>4. CASE CloseSuspended
    BY <2>1, <2>2, <2>4, <1>resolve DEF CloseSuspended, Statuses
  <2>5. CASE Skip
    BY <2>1, <2>2, <2>5, <1>resolve DEF Skip, Statuses
  <2>6. CASE Block
    BY <2>1, <2>2, <2>6, <1>resolve DEF Block, Statuses
  <2>7. CASE MarkFailed
    BY <2>1, <2>2, <2>7, <1>resolve DEF MarkFailed, Statuses
  <2>8. CASE MarkSent
    BY <2>1, <2>2, <2>8, <1>resolve DEF MarkSent, Statuses
  <2> QED BY <1>settle, <2>3, <2>4, <2>5, <2>6, <2>7, <2>8
<1>gate. ASSUME Gate PROVE TypeInv'
  <2>1. HandInv'
    BY <1>gate, InHand, GotoHand, DoneHand, StillStays DEF Gate, ledger, AboutRequest
  <2> QED BY <1>gate, <2>1 DEF Gate, Goto, Done, TypeOK, ledger, world, faults, Labels
<1>claim. ASSUME Claim PROVE TypeInv'
  <2>1. req \in Requests /\ req # NoRequest /\ pc # "idle"
    BY <1>claim, InHand DEF Claim, AboutRequest
  <2>2. approvals' \in [Requests -> Row] /\ RowsStay
    BY <1>claim, <2>1, ClaimEffect, StillStays, RowsTyped DEF Claim, Live, RowsStay
  <2>3. HandInv'
    BY <1>claim, <2>1, <2>2, GotoHand DEF Claim
  <2> QED BY <1>claim, <2>2, <2>3 DEF Claim, Goto, TypeOK, Row, world, faults, Labels
<1>fresh. ASSUME ReadFresh PROVE TypeInv'
  <2>1. HandInv'
    BY <1>fresh, InHand, GotoHand, DoneHand, StillStays DEF ReadFresh, ledger, AboutRequest
  <2> QED BY <1>fresh, <2>1 DEF ReadFresh, Goto, Done, TypeOK, ledger, world, faults, Labels
<1>mailer. ASSUME EnterMailer \/ Refused PROVE TypeInv'
  <2>1. HandInv'
    BY <1>mailer, InHand, GotoHand, StillStays DEF EnterMailer, Refused, ledger, AboutRequest
  <2> QED BY <1>mailer, <2>1
      DEF EnterMailer, Refused, Goto, TypeOK, ledger, world, faults, Labels
<1>leaves. ASSUME MailLeaves, pc = "send"
           PROVE  mails' \in [Requests -> Nat] /\ pausedMails' \in Nat
  <2>1. req \in Requests
    BY <1>leaves, InHand DEF AboutRequest
  <2>2. mails[req] + 1 \in Nat /\ pausedMails + 1 \in Nat
    BY <2>1 DEF TypeOK
  <2> QED BY <1>leaves, <2>2 DEF MailLeaves, TypeOK
<1>post. ASSUME Post PROVE TypeInv'
  <2>1. HandInv'
    BY <1>post, InHand, GotoHand, StillStays DEF Post, ledger, AboutRequest
  <2> QED BY <1>post, <1>leaves, <2>1 DEF Post, Goto, TypeOK, ledger, faults, Labels
<1>posterr. ASSUME PostAnswerLost PROVE TypeInv'
  <2>1. HandInv'
    BY <1>posterr, StandHand, StillStays DEF PostAnswerLost, ledger
  <2>2. req \in Requests /\ errors' \in 0..MaxErrors
    BY <1>posterr, InHand, NumbersAssumption DEF PostAnswerLost, TypeOK, AboutRequest
  <2> QED BY <1>posterr, <1>leaves, <2>1, <2>2
      DEF PostAnswerLost, TypeOK, ledger, loop
<1>record. ASSUME RecordSent PROVE TypeInv'
  <2>1. HandInv'
    BY <1>record, InHand, GotoHand, StillStays DEF RecordSent, AboutRequest
  <2>2. inv \in Invoices
    BY <1>record, InHand DEF RecordSent, AboutRequest
  <2>3. OneMoreSent(messages[inv]) \in [sent : Nat, last : 0..MaxClock]
    <3>1. messages[inv].sent + 1 \in Nat /\ clock \in 0..MaxClock
      BY <2>2, NumbersAssumption DEF TypeOK
    <3> QED BY <3>1 DEF OneMoreSent
  <2> QED BY <1>record, <2>1, <2>2, <2>3
      DEF RecordSent, Goto, TypeOK, world, faults, Labels
<1>recorderr. ASSUME RecordSentFails PROVE TypeInv'
  <2>1. HandInv'
    BY <1>recorderr, InHand, GotoHand, StillStays DEF RecordSentFails, ledger, AboutRequest
  <2>2. inv \in Invoices /\ errors' \in 0..MaxErrors
    BY <1>recorderr, InHand, NumbersAssumption DEF RecordSentFails, TypeOK, AboutRequest
  <2> QED BY <1>recorderr, <2>1, <2>2 DEF RecordSentFails, Goto, TypeOK, ledger, Labels
<1>move. ASSUME MoveInvoice PROVE TypeInv'
  <2>1. HandInv'
    BY <1>move, InHand, GotoHand, DoneHand, StillStays DEF MoveInvoice, AboutRequest
  <2>2. "messaged" \in RowStates
    BY DEF RowStates, OpenStates
  <2> QED BY <1>move, <2>1, <2>2
      DEF MoveInvoice, Goto, Done, TypeOK, world, faults, Labels
<1>sweep. ASSUME NEW s \in Sweepers, Sweep(s) PROVE TypeInv'
  <2>1. approvals' \in [Requests -> Row] /\ RowsStay
    BY <1>sweep, ExpireStays DEF Sweep, Overdue
  <2>2. HandInv'
    BY <1>sweep, <2>1, StandHand DEF Sweep
  <2>3. Overdue \subseteq Requests
    BY DEF Overdue, With
  <2> QED BY <1>sweep, <2>1, <2>2, <2>3 DEF Sweep, TypeOK, Row, loop, world, faults
<1>note. ASSUME NEW s \in Sweepers, Note(s) \/ SweepError(s) PROVE TypeInv'
  <2>1. HandInv'
    BY <1>note, StandHand, StillStays DEF Note, SweepError, ledger
  <2>2. CASE Note(s)
    BY <2>1, <2>2 DEF Note, TypeOK, loop, world, faults
  <2>3. CASE SweepError(s)
    BY <2>1, <2>3, NumbersAssumption DEF SweepError, TypeOK, ledger, loop
  <2> QED BY <1>note, <2>2, <2>3
<1>operator. ASSUME Suspend \/ CloseAll \/ Resume PROVE TypeInv'
  <2>1. approvals' \in [Requests -> Row] /\ RowsStay
    BY <1>operator, ExpireStays, StillStays, RowsTyped DEF Suspend, CloseAll, Resume
  <2>2. HandInv'
    BY <1>operator, <2>1, StandHand DEF Suspend, CloseAll, Resume
  <2> QED BY <1>operator, <2>1, <2>2, NumbersAssumption
      DEF Suspend, CloseAll, Resume, TypeOK, Row, loop, world, faults
<1>error. ASSUME StoreError PROVE TypeInv'
  <2>1. InTry => req # NoRequest
    BY InHand DEF InTry, AboutRequest
  <2>2. HandInv'
    BY <1>error, <2>1, GotoHand, DoneHand, StillStays DEF StoreError, ledger, AboutRequest
  <2>3. pc = "mark" => req \in Requests
    BY InHand DEF AboutRequest
  <2> QED BY <1>error, <2>2, <2>3, NumbersAssumption
      DEF StoreError, Goto, Done, TypeOK, ledger, Labels
<1>crash. ASSUME Crash \/ OperatorDies PROVE TypeInv'
  <2>1. HandInv'
    BY <1>crash, StandHand, DoneHand, StillStays DEF Crash, OperatorDies, ledger
  <2> QED BY <1>crash, <2>1, NumbersAssumption
      DEF Crash, OperatorDies, Done, TypeOK, ledger, loop, Labels
<1>tick. ASSUME Tick PROVE TypeInv'
  <2>1. HandInv'
    BY <1>tick, StandHand, StillStays DEF Tick, ledger
  <2> QED BY <1>tick, <2>1, NumbersAssumption DEF Tick, TypeOK, ledger, loop, faults
<1>still. ASSUME UNCHANGED vars PROVE TypeInv'
  BY <1>still DEF vars, ledger, loop, world, faults, TypeOK, HandInv
<1> QED
  BY <1>failed, <1>paid, <1>decide, <1>check, <1>refuse, <1>skipped, <1>expire, <1>create,
     <1>notify, <1>settle, <1>gate, <1>claim, <1>fresh, <1>mailer, <1>post, <1>posterr,
     <1>record, <1>recorderr, <1>move, <1>sweep, <1>note, <1>operator, <1>error, <1>crash,
     <1>tick, <1>still
  DEF Next, Ask, Answer

\* The rows, the loop, the threads and the counters keep their types.
THEOREM ApprovalTypeCorrect == Spec => []TypeOK
<1>1. TypeInv => TypeOK
  BY DEF TypeInv
<1> QED BY <1>1, TypeInit, TypeStep, PTL DEF Spec
-------------------------------------------------------------------------------
\* One step, row by row.

\* The only ways a row changes, and the calls that change it.
RowMove(a) ==
  \/ approvals'[a] = approvals[a]
  \/ /\ approvals[a].status = "none" /\ approvals'[a].status = "pending"
     /\ approvals'[a].resolved = 0
     /\ pc = "create" /\ approvals'[a].invoice = inv
  \/ /\ approvals[a].status = "pending"
     /\ approvals'[a].status \in {"skipped", "expired", "failed"}
  \/ /\ pc = "claim" /\ a = req
     /\ approvals[a].status = "pending" /\ approvals'[a].status = "approved"
     /\ approvals'[a].resolved = clock /\ approvals'[a].expires = approvals[a].expires
     /\ clock < approvals[a].expires
  \/ /\ a = req
     /\ <<pc, approvals'[a].status>> \in
          {<<"mark", "sent">>, <<"block", "blocked">>, <<"give_up", "failed">>,
           <<"fail", "failed">>, <<"except", "failed">>}
     /\ approvals[a].status = "approved" /\ SettledRow(a, approvals'[a].status)

\* What the threads, the operator and the clock may do beside the loop.
Beside ==
  /\ UNCHANGED <<loop, messages, mails, spoilt>>
  /\ UNCHANGED failures \/ pc = "idle"
  /\ \A a \in Requests : approvals'[a] # approvals[a] =>
       approvals[a].status = "pending" /\ SettledRow(a, "expired")
  /\ errors' >= errors /\ crashes' >= crashes /\ clock' >= clock

LoopNext ==
  \/ \E i \in Invoices : PaymentFailed(i)
  \/ \E a \in Requests : Decide(a)
  \/ Check \/ Ask \/ Answer
  \/ PostAnswerLost \/ RecordSentFails \/ StoreError \/ Crash

LEMMA LoopOrBeside == TypeInv /\ [Next]_vars => LoopNext \/ Beside
<1> SUFFICES ASSUME TypeInv, [Next]_vars PROVE LoopNext \/ Beside
  OBVIOUS
<1> USE DEF TypeInv
<1>1. /\ errors \in Nat /\ crashes \in Nat /\ clock \in Nat /\ clock >= clock
      /\ errors >= errors /\ crashes >= crashes
      /\ errors + 1 >= errors /\ crashes + 1 >= crashes /\ clock + 1 >= clock
  BY NumbersAssumption DEF TypeOK
<1>expired. ASSUME NEW S, S \subseteq With("pending"), Expire(S)
            PROVE  \A a \in Requests : approvals'[a] # approvals[a] =>
                     approvals[a].status = "pending" /\ SettledRow(a, "expired")
  BY <1>expired, ExpireEffect DEF With
<1>paid. ASSUME NEW i \in Invoices, Paid(i) PROVE Beside
  BY <1>paid, <1>1 DEF Paid, Beside, world, faults
<1>sweep. ASSUME NEW s \in Sweepers, Sweep(s) PROVE Beside
  BY <1>sweep, <1>1, <1>expired DEF Sweep, Overdue, Beside, world, faults
<1>note. ASSUME NEW s \in Sweepers, Note(s) \/ SweepError(s) PROVE Beside
  BY <1>note, <1>1 DEF Note, SweepError, Beside, ledger, world, faults
<1>suspend. ASSUME Suspend \/ Resume PROVE Beside
  BY <1>suspend, <1>1 DEF Suspend, Resume, Beside, world, faults
<1>close. ASSUME CloseAll PROVE Beside
  BY <1>close, <1>1, <1>expired DEF CloseAll, Beside, world, faults
<1>dies. ASSUME OperatorDies \/ Tick PROVE Beside
  BY <1>dies, <1>1 DEF OperatorDies, Tick, Beside, ledger, faults
<1>still. ASSUME UNCHANGED vars PROVE Beside
  BY <1>still, <1>1 DEF vars, ledger, world, faults, Beside
<1> QED
  BY <1>paid, <1>sweep, <1>note, <1>suspend, <1>close, <1>dies, <1>still DEF Next, LoopNext

LEMMA ResolveMove ==
  ASSUME TypeInv, NEW to \in Statuses, NEW from, pc \in AboutRequest, Resolve(req, to, from),
         "none" \notin from,
         from \subseteq {"pending", "approved"},
         "pending" \in from => to \in {"skipped", "expired", "failed"},
         "approved" \in from =>
            <<pc, to>> \in {<<"mark", "sent">>, <<"block", "blocked">>, <<"give_up", "failed">>,
                           <<"fail", "failed">>, <<"except", "failed">>},
         NEW a \in Requests
  PROVE  RowMove(a)
<1>1. req \in Requests
  BY InHand
<1>2. CASE a # req
  BY <1>1, <1>2, ResolveEffect DEF TypeInv, RowMove
<1>3. CASE a = req /\ approvals[a].status \notin from
  BY <1>1, <1>3, ResolveEffect DEF TypeInv, RowMove
<1>4. CASE a = req /\ approvals[a].status \in from
  <2>1. SettledRow(a, to)
    BY <1>1, <1>4, ResolveEffect DEF TypeInv
  <2>2. approvals'[a].status = to
    BY <2>1 DEF SettledRow
  <2> QED BY <1>4, <2>1, <2>2 DEF RowMove
<1> QED BY <1>2, <1>3, <1>4

LEMMA RowsMove ==
  ASSUME TypeInv, LoopNext \/ Beside, NEW a \in Requests
  PROVE  RowMove(a)
<1>beside. CASE Beside
  BY <1>beside DEF Beside, RowMove, SettledRow
<1>same. ASSUME UNCHANGED approvals PROVE RowMove(a)
  BY <1>same DEF RowMove
<1>expire. CASE ExpireQuietly
  BY <1>expire, ExpireEffect DEF ExpireQuietly, Overdue, With, TypeInv, RowMove, SettledRow
<1>create. CASE Create
  BY <1>create, RowsTyped DEF Create, With, TypeInv, RowMove
<1>claim. CASE Claim
  <2>1. req \in Requests
    BY <1>claim, InHand DEF Claim, AboutRequest
  <2> QED BY <1>claim, <2>1, ClaimEffect, RowsTyped DEF Claim, Live, TypeInv, RowMove, Row
<1>skip. CASE Skip
  BY <1>skip, ResolveMove DEF Skip, AboutRequest, Statuses
<1>close. CASE CloseSuspended
  BY <1>close, ResolveMove DEF CloseSuspended, AboutRequest, Statuses
<1>giveup. CASE GiveUp
  BY <1>giveup, ResolveMove DEF GiveUp, AboutRequest, Statuses
<1>block. CASE Block
  BY <1>block, ResolveMove DEF Block, AboutRequest, Statuses
<1>mark. CASE MarkSent
  BY <1>mark, ResolveMove DEF MarkSent, AboutRequest, Statuses
<1>fail. CASE MarkFailed
  BY <1>fail, ResolveMove DEF MarkFailed, AboutRequest, Statuses
<1> QED
  BY <1>beside, <1>same, <1>expire, <1>create, <1>claim, <1>skip, <1>close, <1>giveup,
     <1>block, <1>mark, <1>fail
  DEF LoopNext, PaymentFailed, Decide, Check, Ask, RefuseToAsk, CheckSkipped, Notify, Answer,
      Gate, ReadFresh, EnterMailer, Refused, Post, RecordSent, MoveInvoice, PostAnswerLost,
      RecordSentFails, StoreError, Crash, ledger
-------------------------------------------------------------------------------
\* What a decision has established by each of its calls.

Deciding(labels) == pc \in labels /\ req # NoRequest

\* The calls between the claim and the send.
Checking == {"state", "cap", "cooldown", "block", "mailer"}

\* Mail and rows: none left for a request nobody approved; an approved one was
\* approved before its deadline.
RowInv ==
  \A a \in Requests :
    /\ approvals[a].status \in {"none", "pending"} =>
         mails[a] = 0 /\ approvals[a].resolved = 0
    /\ approvals[a].status = "approved" \/ mails[a] > 0 =>
         approvals[a].resolved \in 1..(approvals[a].expires - 1)

\* The request in hand, from the claim to the last write.
SendInv ==
  /\ Deciding(Checking) => approvals[req].status = "approved" /\ mails[req] = 0
  /\ pc = "send" => approvals[req].status = "approved" /\ mails[req] <= errors
  /\ pc \in {"log", "mark"} => approvals[req].status = "approved" /\ mails[req] > 0
  /\ pc = "move" => approvals[req].status = "sent"
  /\ pc = "fail" => approvals[req].status = "approved"
  /\ pc \in {"notify", "give_up"} => mails[req] = 0

\* A cleanup that writes "failed" over a mail has lost an answer or a write.
SpoiltInv ==
  /\ ReadsAsSent
  /\ pc \in {"send", "fail"} => mails[req] = 0 \/ req \in spoilt
  /\ pc = "except" => approvals[req].status = "sent" \/ mails[req] = 0 \/ req \in spoilt

DecisionInv == RowInv /\ SendInv /\ SpoiltInv

\* Rows that move while no mail leaves.
LEMMA RowsKeep ==
  ASSUME TypeInv, DecisionInv, LoopNext \/ Beside, UNCHANGED mails
  PROVE  RowInv'
<1> SUFFICES ASSUME NEW a \in Requests
             PROVE  /\ approvals'[a].status \in {"none", "pending"} =>
                         mails'[a] = 0 /\ approvals'[a].resolved = 0
                    /\ approvals'[a].status = "approved" \/ mails'[a] > 0 =>
                         approvals'[a].resolved \in 1..(approvals'[a].expires - 1)
  BY DEF RowInv
<1>1. RowMove(a)
  BY RowsMove
<1>2. approvals[a] \in Row /\ mails[a] \in Nat /\ mails'[a] = mails[a]
      /\ clock \in Nat /\ clock >= 1
  BY RowsTyped, NumbersAssumption DEF TypeInv, TypeOK
<1>3. approvals[a].expires \in Nat /\ approvals[a].resolved \in Nat
  BY <1>2, NumbersAssumption DEF Row
<1> QED BY <1>1, <1>2, <1>3 DEF DecisionInv, RowInv, RowMove, SettledRow

LEMMA SpoiltKeeps ==
  ASSUME TypeInv, DecisionInv, LoopNext \/ Beside, UNCHANGED mails, spoilt \subseteq spoilt'
  PROVE  ReadsAsSent'
<1> SUFFICES ASSUME NEW a \in Requests, mails[a] > 0,
                    approvals'[a].status \notin {"sent", "approved"}
             PROVE  a \in spoilt
  BY DEF ReadsAsSent
<1>1. RowMove(a) /\ mails[a] # 0
  BY RowsMove DEF TypeInv, TypeOK
<1>2. CASE approvals[a].status = "approved"
  <2>1. a = req /\ pc \in {"block", "give_up", "fail", "except"}
    BY <1>1, <1>2 DEF RowMove
  <2>2. req # NoRequest
    BY <2>1, InHand DEF AboutRequest
  <2> QED BY <1>1, <1>2, <2>1, <2>2 DEF DecisionInv, SendInv, SpoiltInv, Deciding, Checking
<1>3. CASE approvals[a].status # "approved"
  <2>1. approvals'[a] = approvals[a]
    BY <1>1, <1>3 DEF RowMove, DecisionInv, RowInv
  <2> QED BY <1>3, <2>1 DEF DecisionInv, SpoiltInv, ReadsAsSent
<1> QED BY <1>2, <1>3

\* A step after which the loop is at none of the calls SendInv speaks of.
Elsewhere == {"idle", "skipped", "expire", "create", "tenant", "suspended", "skip", "claim",
              "fresh"}

LEMMA DecisionStep == TypeInv /\ TypeInv' /\ DecisionInv /\ [Next]_vars => DecisionInv'
<1> SUFFICES ASSUME TypeInv, TypeInv', DecisionInv, LoopNext \/ Beside PROVE DecisionInv'
  BY LoopOrBeside
<1>rows. ASSUME UNCHANGED mails PROVE RowInv'
  BY <1>rows, RowsKeep
<1>spoilt. ASSUME UNCHANGED mails, spoilt \subseteq spoilt' PROVE ReadsAsSent'
  BY <1>spoilt, SpoiltKeeps
<1>hand. ASSUME pc \in AboutRequest PROVE req \in Requests /\ req # NoRequest
  BY <1>hand, InHand
<1>away. ASSUME UNCHANGED <<mails, spoilt>>,
                pc' \in Elsewhere \/ (pc' = "state" /\ req' = NoRequest)
         PROVE  DecisionInv'
  BY <1>away, <1>rows, <1>spoilt
  DEF DecisionInv, SendInv, SpoiltInv, Deciding, Checking, Elsewhere, AboutRequest
<1>beside. CASE Beside
  <2>1. mails' = mails /\ spoilt' = spoilt /\ pc' = pc /\ req' = req /\ errors' >= errors
    BY <1>beside DEF Beside, loop
  <2>2. RowInv' /\ ReadsAsSent'
    BY <2>1, <1>rows, <1>spoilt
  <2>3. pc \in AboutRequest \/ Deciding(Checking) =>
          req \in Requests
    BY InHand, SetsAssumption DEF TypeInv, TypeOK, Deciding
  <2>4. req \in Requests /\ approvals[req].status # "pending" => approvals'[req] = approvals[req]
    BY <1>beside DEF Beside
  <2>5. errors \in Int /\ errors' \in Int /\ \A a \in Requests : mails[a] \in Nat
    BY NumbersAssumption DEF TypeInv, TypeOK
  <2>6. SendInv'
    BY <2>1, <2>3, <2>4, <2>5 DEF DecisionInv, SendInv, AboutRequest, Deciding, Checking
  <2>7. SpoiltInv'
    BY <2>1, <2>2, <2>3, <2>4 DEF DecisionInv, SpoiltInv, AboutRequest
  <2> QED BY <2>2, <2>6, <2>7 DEF DecisionInv
<1>failed. ASSUME NEW i \in Invoices, PaymentFailed(i) PROVE DecisionInv'
  <2>1. req' = NoRequest
    BY <1>failed DEF PaymentFailed, TypeInv, HandInv
  <2> QED BY <1>failed, <2>1, <1>away
      DEF PaymentFailed, world
<1>decide. ASSUME NEW a \in Requests, Decide(a) PROVE DecisionInv'
  BY <1>decide, <1>away DEF Decide, world, Elsewhere
<1>check. CASE Check
  <2>1. mails' = mails /\ spoilt' = spoilt /\ approvals' = approvals /\ (req' = req \/ Done)
    BY <1>check DEF Check, Goto, world, ledger
  <2>2. RowInv' /\ ReadsAsSent'
    BY <2>1, <1>rows, <1>spoilt
  <2>3. pc' \in Checking \cup {"idle", "skipped"} /\ pc \in Checking
    BY <1>check DEF Check, AfterCheck, Goto, Done, Checking
  <2> QED BY <2>1, <2>2, <2>3
      DEF DecisionInv, SendInv, SpoiltInv, Deciding, Checking, Done
<1>quiet. ASSUME RefuseToAsk \/ CheckSkipped \/ Gate \/ ReadFresh PROVE DecisionInv'
  BY <1>quiet, <1>away
  DEF RefuseToAsk, CheckSkipped, Gate, ReadFresh, Goto, Done, world, Elsewhere
<1>expire. CASE ExpireQuietly
  BY <1>expire, <1>away DEF ExpireQuietly, Goto, Done, world, Elsewhere
<1>create. CASE Create
  <2>1. mails' = mails /\ spoilt' = spoilt
    BY <1>create DEF Create, world
  <2>2. CASE Done
    BY <2>1, <2>2, <1>away DEF Done, Elsewhere
  <2>3. ASSUME NEW a \in With("none"), pc' = "notify", req' = a PROVE DecisionInv'
    <3>1. a \in Requests /\ mails[a] = 0
      BY <2>3 DEF With, DecisionInv, RowInv
    <3> QED BY <2>1, <2>3, <3>1, <1>rows, <1>spoilt
        DEF DecisionInv, SendInv, SpoiltInv, Deciding, Checking
  <2> QED BY <1>create, <2>2, <2>3 DEF Create
<1>notify. CASE Notify
  BY <1>notify, <1>away, <1>rows, <1>spoilt
  DEF Notify, Goto, Done, world, Elsewhere, DecisionInv, SendInv, SpoiltInv, Deciding, Checking
<1>ends. ASSUME GiveUp \/ CloseSuspended \/ Skip \/ Block \/ MarkFailed PROVE DecisionInv'
  BY <1>ends, <1>away
  DEF GiveUp, CloseSuspended, Skip, Block, MarkFailed, Done, world, Elsewhere
<1>claim. CASE Claim
  <2>1. req \in Requests
    BY <1>claim, <1>hand DEF Claim, AboutRequest
  <2>2. mails' = mails /\ spoilt' = spoilt /\ req' = req
    BY <1>claim DEF Claim, Goto, world
  <2>3. CASE Live(req) /\ approvals' = Claimed(req) /\ pc' = "state"
    <3>1. approvals'[req].status = "approved" /\ mails[req] = 0
      BY <2>1, <2>3, ClaimEffect DEF Live, TypeInv, DecisionInv, RowInv
    <3> QED BY <2>2, <2>3, <3>1, <1>rows, <1>spoilt
        DEF DecisionInv, SendInv, SpoiltInv, Deciding, Checking
  <2>4. CASE pc' = "fresh"
    BY <2>2, <2>4, <1>away DEF Elsewhere
  <2> QED BY <1>claim, <2>3, <2>4 DEF Claim, Goto
<1>mailer. ASSUME EnterMailer \/ Refused PROVE DecisionInv'
  <2>1. /\ mails' = mails /\ spoilt' = spoilt /\ approvals' = approvals /\ req' = req
        /\ errors' = errors
    BY <1>mailer DEF EnterMailer, Refused, Goto, world, ledger, faults
  <2>2. req # NoRequest /\ errors \in Nat
    BY <1>mailer, <1>hand, NumbersAssumption
    DEF EnterMailer, Refused, AboutRequest, TypeInv, TypeOK
  <2>3. pc \in {"mailer", "send"} /\ pc' \in {"send", "fail"} /\ (pc' = "send" => pc = "mailer")
    BY <1>mailer DEF EnterMailer, Refused, Goto
  <2> QED BY <2>1, <2>2, <2>3, <1>rows, <1>spoilt
      DEF DecisionInv, SendInv, SpoiltInv, Deciding, Checking
<1>leaves. ASSUME pc = "send", MailLeaves, UNCHANGED <<approvals, req>>, spoilt \subseteq spoilt'
           PROVE  /\ RowInv' /\ ReadsAsSent' /\ req \in Requests
                  /\ mails'[req] = mails[req] + 1 /\ mails[req] \in Nat
                  /\ approvals[req].status = "approved"
  <2>1. req \in Requests /\ mails \in [Requests -> Nat]
    BY <1>leaves, <1>hand DEF AboutRequest, TypeInv, TypeOK
  <2>2. mails'[req] = mails[req] + 1 /\ \A a \in Requests \ {req} : mails'[a] = mails[a]
    BY <1>leaves, <2>1 DEF MailLeaves
  <2>3. approvals[req].status = "approved"
    BY <1>leaves DEF DecisionInv, SendInv
  <2>4. RowInv'
    BY <1>leaves, <2>1, <2>2, <2>3 DEF DecisionInv, RowInv
  <2>5. ReadsAsSent'
    BY <1>leaves, <2>1, <2>2, <2>3 DEF DecisionInv, SpoiltInv, ReadsAsSent
  <2> QED BY <2>1, <2>2, <2>3, <2>4, <2>5
<1>post. CASE Post
  <2>1. pc = "send" /\ MailLeaves /\ UNCHANGED <<approvals, req, spoilt>> /\ pc' = "log"
    BY <1>post DEF Post, Goto, ledger
  <2> QED BY <2>1, <1>leaves DEF DecisionInv, SendInv, SpoiltInv, Deciding, Checking
<1>posterr. CASE PostAnswerLost
  <2>1. /\ pc = "send" /\ MailLeaves /\ UNCHANGED <<approvals, req>> /\ pc' = "send"
        /\ spoilt' = spoilt \cup {req} /\ errors' = errors + 1
    BY <1>posterr DEF PostAnswerLost, ledger, loop
  <2>2. mails[req] <= errors /\ errors \in Nat
    BY <2>1, NumbersAssumption DEF DecisionInv, SendInv, TypeInv, TypeOK
  <2> QED BY <2>1, <2>2, <1>leaves DEF DecisionInv, SendInv, SpoiltInv, Deciding, Checking
<1>record. ASSUME RecordSent \/ RecordSentFails PROVE DecisionInv'
  <2>1. /\ UNCHANGED <<mails, spoilt, approvals, req>> /\ pc = "log" /\ pc' = "mark"
    BY <1>record DEF RecordSent, RecordSentFails, Goto, world, ledger
  <2> QED BY <2>1, <1>rows, <1>spoilt DEF DecisionInv, SendInv, SpoiltInv, Deciding, Checking
<1>mark. CASE MarkSent
  <2>1. /\ UNCHANGED <<mails, spoilt, req>> /\ pc = "mark" /\ pc' = "move"
        /\ Resolve(req, "sent", {"approved"})
    BY <1>mark DEF MarkSent, Goto, world
  <2>2. req \in Requests /\ approvals[req].status = "approved" /\ "sent" \in Statuses
    BY <2>1, <1>hand DEF AboutRequest, DecisionInv, SendInv, Statuses
  <2>3. approvals'[req].status = "sent"
    BY <2>1, <2>2, ResolveEffect DEF TypeInv, SettledRow
  <2> QED BY <2>1, <2>3, <1>rows, <1>spoilt
      DEF DecisionInv, SendInv, SpoiltInv, Deciding, Checking
<1>move. CASE MoveInvoice
  <2>1. UNCHANGED <<mails, spoilt, approvals>> /\ pc = "move"
    BY <1>move DEF MoveInvoice, world
  <2>2. pc' = "idle" \/ (pc' = "except" /\ req' = req)
    BY <1>move DEF MoveInvoice, Goto, Done
  <2> QED BY <2>1, <2>2, <1>rows, <1>spoilt
      DEF DecisionInv, SendInv, SpoiltInv, Deciding, Checking
<1>error. CASE StoreError
  <2>1. /\ UNCHANGED <<mails, approvals>> /\ spoilt \subseteq spoilt'
        /\ pc = "mark" => req \in spoilt'
    BY <1>error DEF StoreError, ledger
  <2>2. CASE InTry /\ pc' = "except" /\ req' = req
    <3>1. pc \in {"mark", "send", "fail", "except", "move"} \/ Deciding(Checking)
      BY <2>2, <1>hand DEF InTry, Deciding, Checking, AboutRequest
    <3>2. approvals'[req].status = "sent" \/ mails'[req] = 0 \/ req \in spoilt'
      BY <2>1, <3>1 DEF DecisionInv, SendInv, SpoiltInv
    <3> QED BY <2>1, <2>2, <3>2, <1>rows, <1>spoilt
        DEF DecisionInv, SendInv, SpoiltInv, Deciding, Checking
  <2>3. CASE pc' = "idle"
    BY <2>1, <2>3, <1>rows, <1>spoilt DEF DecisionInv, SendInv, SpoiltInv, Deciding, Checking
  <2> QED BY <1>error, <2>2, <2>3 DEF StoreError, Goto, Done
<1>crash. CASE Crash
  BY <1>crash, <1>away DEF Crash, Done, Elsewhere
<1> QED
  BY <1>beside, <1>failed, <1>decide, <1>check, <1>quiet, <1>expire, <1>create, <1>notify,
     <1>ends, <1>claim, <1>mailer, <1>post, <1>posterr, <1>record, <1>mark, <1>move,
     <1>error, <1>crash
  DEF LoopNext, Ask, Answer

LEMMA DecisionInit == Init => DecisionInv
<1> SUFFICES ASSUME Init PROVE DecisionInv
  OBVIOUS
<1>1. RowInv
  BY DEF Init, RowInv, Free
<1>2. SendInv
  BY DEF Init, SendInv, Deciding, Checking
<1>3. SpoiltInv
  BY DEF Init, SpoiltInv, ReadsAsSent
<1> QED BY <1>1, <1>2, <1>3 DEF DecisionInv

LEMMA DecisionInvariant == Spec => [](TypeInv /\ DecisionInv)
<1>1. Init => TypeInv /\ DecisionInv
  BY TypeInit, DecisionInit
<1>2. TypeInv /\ DecisionInv /\ [Next]_vars => (TypeInv /\ DecisionInv)'
  BY TypeStep, DecisionStep
<1> QED BY <1>1, <1>2, PTL DEF Spec

\* A mail leaves only on the word of a person given before the deadline, however
\* the sweep and a suspension race the answer.
THEOREM ApprovedBeforeSent == Spec => []DecidedInTime
<1>1. TypeInv /\ DecisionInv => DecidedInTime
  BY DEF DecisionInv, RowInv, DecidedInTime
<1> QED BY <1>1, DecisionInvariant, PTL

\* A request whose mail has left ends as sent, unless an answer or the write of
\* sent was lost.
THEOREM MailedReadsAsSent == Spec => []ReadsAsSent
<1>1. TypeInv /\ DecisionInv => ReadsAsSent
  BY DEF DecisionInv, SpoiltInv
<1> QED BY <1>1, DecisionInvariant, PTL
-------------------------------------------------------------------------------
\* The contract.

Status == [a \in Requests |-> approvals[a].status]

\* Mail leaves in two actions of the loop only, one at a time.
LEMMA MailsMove ==
  ASSUME TypeInv, LoopNext \/ Beside
  PROVE  \/ UNCHANGED mails
         \/ /\ pc = "send" /\ MailLeaves /\ UNCHANGED approvals /\ req' = req
            /\ errors' = errors \/ errors < MaxErrors
BY DEF LoopNext, PaymentFailed, Decide, Check, Ask, RefuseToAsk, CheckSkipped, ExpireQuietly,
   Create, Notify, GiveUp, Answer, Gate, CloseSuspended, Skip, Claim, ReadFresh, Block,
   EnterMailer, Refused, Post, RecordSent, MarkSent, MoveInvoice, MarkFailed, PostAnswerLost,
   RecordSentFails, StoreError, Crash, Beside, Goto, world, ledger, faults, loop

\* A step that moves one row is a step of the contract.
LEMMA OneRowStep ==
  ASSUME TypeInv, DecisionInv, UNCHANGED mails, NEW a \in Requests, RowMove(a),
         \A b \in Requests \ {a} : approvals'[b] = approvals[b]
  PROVE  Contract!Next \/ UNCHANGED <<Status, mails>>
<1> DEFINE to == approvals'[a].status
<1>1. Status' = [Status EXCEPT ![a] = to] /\ Status[a] = approvals[a].status
  BY DEF Status
<1>2. CASE to = approvals[a].status
  <2>1. Status' = Status
    BY <1>2 DEF Status
  <2> QED BY <2>1
<1>3. CASE to # approvals[a].status
  <2>1. CASE approvals[a].status = "none" /\ to = "pending"
    <3>1. Contract!Open(a)
      BY <1>1, <2>1 DEF Contract!Open, Contract!Become, Status
    <3> QED BY <3>1 DEF Contract!Next
  <2>2. CASE approvals[a].status = "pending" /\ to = "approved"
    <3>1. Contract!Approve(a)
      BY <1>1, <2>2 DEF Contract!Approve, Contract!Become, Status
    <3> QED BY <3>1 DEF Contract!Next
  <2>3. CASE approvals[a].status = "pending" /\ to \in {"skipped", "expired", "failed"}
    <3>1. Status' = [b \in Requests |-> IF b \in {a} THEN to ELSE Status[b]]
      BY <1>1 DEF Status
    <3>2. Contract!Drop({a})
      BY <1>1, <2>3, <3>1 DEF Contract!Drop, Status
    <3>3. {a} \in SUBSET Requests
      OBVIOUS
    <3> QED BY <3>2, <3>3 DEF Contract!Next
  <2>4. CASE approvals[a].status = "approved" /\ a = req
             /\ <<pc, to>> \in {<<"mark", "sent">>, <<"block", "blocked">>,
                                <<"give_up", "failed">>, <<"fail", "failed">>,
                                <<"except", "failed">>}
    <3>1. (to = "sent" => mails[a] > 0) /\ (to = "blocked" => mails[a] = 0)
      BY <2>4, InHand DEF AboutRequest, DecisionInv, SendInv, Deciding, Checking
    <3>2. Contract!Finish(a)
      BY <1>1, <2>4, <3>1 DEF Contract!Finish, Contract!Become, Status
    <3> QED BY <3>2 DEF Contract!Next
  <2> QED BY <1>3, <2>1, <2>2, <2>3, <2>4 DEF RowMove
<1> QED BY <1>2, <1>3

\* So is one that expires some pending rows, however many.
LEMMA ExpiringStep ==
  ASSUME TypeInv, UNCHANGED mails,
         \A a \in Requests : approvals'[a] # approvals[a] =>
           approvals[a].status = "pending" /\ SettledRow(a, "expired")
  PROVE  Contract!Next
<1>1. PICK S \in SUBSET Requests : S = {a \in Requests : approvals'[a] # approvals[a]}
  OBVIOUS
<1>2. Status' = [a \in Requests |-> IF a \in S THEN "expired" ELSE Status[a]]
  BY <1>1 DEF Status, SettledRow
<1>3. \E to \in {"skipped", "expired", "failed"} :
        Status' = [a \in Requests |-> IF a \in S THEN to ELSE Status[a]]
  BY <1>2
<1>4. \A a \in S : Status[a] = "pending"
  BY <1>1 DEF Status
<1>5. Contract!Drop(S)
  BY <1>3, <1>4 DEF Contract!Drop, Status
<1> QED BY <1>5 DEF Contract!Next

LEMMA ContractStep ==
  ASSUME TypeInv, DecisionInv, LoopNext \/ Beside
  PROVE  Contract!Next \/ UNCHANGED <<Status, mails>>
<1>mail. ASSUME pc = "send", MailLeaves, UNCHANGED approvals,
                errors' = errors \/ errors < MaxErrors
         PROVE  Contract!Next
  <2>1. req \in Requests /\ approvals[req].status = "approved" /\ mails[req] <= errors
    BY <1>mail, InHand DEF AboutRequest, DecisionInv, SendInv
  <2>2. errors \in 0..MaxErrors /\ mails[req] \in Nat
    BY <2>1 DEF TypeInv, TypeOK
  <2>3. mails[req] < 1 + MaxErrors
    BY <2>1, <2>2, NumbersAssumption
  <2>4. Contract!Send(req)
    BY <1>mail, <2>1, <2>3 DEF Contract!Send, MailLeaves, Status
  <2> QED BY <2>1, <2>4 DEF Contract!Next
<1>quiet. CASE UNCHANGED mails
  <2>1. CASE UNCHANGED approvals
    BY <1>quiet, <2>1 DEF Status
  <2>2. ASSUME NEW a \in Requests, \A b \in Requests \ {a} : approvals'[b] = approvals[b]
        PROVE  Contract!Next \/ UNCHANGED <<Status, mails>>
    BY <1>quiet, <2>2, RowsMove, OneRowStep
  <2>3. CASE Beside
    BY <1>quiet, <2>3, ExpiringStep DEF Beside
  <2>4. CASE ExpireQuietly
    BY <1>quiet, <2>4, ExpireEffect, ExpiringStep
    DEF ExpireQuietly, Overdue, With, TypeInv
  <2>5. CASE Create
    BY <2>1, <2>2, <2>5, RowsTyped DEF Create, With, TypeInv
  <2>6. CASE Claim
    <3>1. req \in Requests
      BY <2>6, InHand DEF Claim, AboutRequest
    <3> QED BY <2>1, <2>2, <2>6, <3>1, ClaimEffect DEF Claim, TypeInv
  <2>7. ASSUME NEW to \in Statuses, NEW from, pc \in AboutRequest, Resolve(req, to, from)
        PROVE  Contract!Next \/ UNCHANGED <<Status, mails>>
    BY <2>2, <2>7, InHand, ResolveEffect DEF TypeInv
  <2>8. CASE GiveUp \/ CloseSuspended \/ Skip
    BY <2>7, <2>8 DEF GiveUp, CloseSuspended, Skip, AboutRequest, Statuses
  <2>9. CASE Block \/ MarkSent \/ MarkFailed
    BY <2>7, <2>9 DEF Block, MarkSent, MarkFailed, AboutRequest, Statuses
  <2> QED
    BY <2>1, <2>3, <2>4, <2>5, <2>6, <2>8, <2>9
    DEF LoopNext, PaymentFailed, Decide, Check, Ask, RefuseToAsk, CheckSkipped, Notify, Answer,
        Gate, ReadFresh, EnterMailer, Refused, Post, RecordSent, MoveInvoice, PostAnswerLost,
        RecordSentFails, StoreError, Crash, ledger
<1> QED BY <1>mail, <1>quiet, MailsMove

\* One yes is worth one mail, but for lost answers; nobody's silence is worth any;
\* a decided request stays decided.
THEOREM ApprovalKeepsContract == Spec => KeepsApprovalContract
<1>1. Init => Contract!Init
  <2> SUFFICES ASSUME Init PROVE Contract!Init
    OBVIOUS
  <2> QED BY DEF Init, Free, Contract!Init
<1>2. TypeInv /\ DecisionInv /\ [Next]_vars =>
        [Contract!Next]_<<[a \in Requests |-> approvals[a].status], mails>>
  BY LoopOrBeside, ContractStep DEF Status
<1> QED BY <1>1, <1>2, DecisionInvariant, PTL DEF Spec, KeepsApprovalContract, Contract!Spec
-------------------------------------------------------------------------------
\* What was checked before a send or a new request still holds when it happens.

ClearInv ==
  /\ pc \in {"cap", "cooldown", "mailer", "send"} => IsOpen(inv)
  /\ pc \in {"cooldown", "mailer", "send"} => messages[inv].sent < MaxTouches
  /\ pc \in {"mailer", "send"} => ~CoolingDown(inv)
  /\ req = NoRequest /\ pc \in {"expire", "create"} => ~Skipped(inv)

\* A cooldown that is over stays over while no mail is recorded.
LEMMA CooldownOver ==
  ASSUME TypeInv, NEW i \in Invoices, ~CoolingDown(i), UNCHANGED messages,
         clock' \in Nat, clock' >= clock
  PROVE  ~CoolingDown(i)'
<1>1. \A j \in Invoices : messages[j].last + Cooldown \in Nat
  BY NumbersAssumption DEF TypeInv, TypeOK
<1>2. clock \in Nat
  BY NumbersAssumption DEF TypeInv, TypeOK
<1> QED BY <1>1, <1>2 DEF CoolingDown

\* Nobody skips an invoice while the loop asks about it.
LEMMA SkippedStays ==
  ASSUME TypeInv, NEW i, ~Skipped(i), RowsStay,
         \A a \in Requests : approvals'[a] # approvals[a] => approvals'[a].status = "expired"
  PROVE  ~Skipped(i)'
BY DEF Skipped, With, RowsStay

LEMMA ClearStep == TypeInv /\ TypeInv' /\ ClearInv /\ [Next]_vars => ClearInv'
<1> SUFFICES ASSUME TypeInv, TypeInv', ClearInv, LoopNext \/ Beside PROVE ClearInv'
  BY LoopOrBeside
<1> DEFINE Resting == {"idle", "state", "skipped", "notify", "give_up", "tenant", "suspended",
                       "skip", "claim", "fresh", "block", "log", "mark", "move", "fail",
                       "except"}
<1>rest. ASSUME pc' \in Resting PROVE ClearInv'
  BY <1>rest DEF ClearInv
<1>clock. clock \in Nat /\ clock' \in Nat /\ clock >= clock
  BY NumbersAssumption DEF TypeInv, TypeOK
<1>beside. CASE Beside
  <2>1. /\ UNCHANGED <<pc, inv, req, messages>> /\ (UNCHANGED failures \/ pc = "idle")
        /\ clock' >= clock
    BY <1>beside DEF Beside, loop
  <2>2. \A a \in Requests : approvals'[a] # approvals[a] =>
          approvals[a].status = "pending" /\ SettledRow(a, "expired")
    BY <1>beside DEF Beside
  <2>3. CASE pc = "idle"
    BY <2>1, <2>3, <1>rest
  <2>4. CASE pc # "idle"
    <3>1. inv \in Invoices
      BY <2>4 DEF TypeInv, HandInv
    <3>2. ~CoolingDown(inv) => ~CoolingDown(inv)'
      BY <2>1, <3>1, <1>clock, CooldownOver
    <3>3. ~Skipped(inv) => ~Skipped(inv)'
      BY <2>1, <2>2, SkippedStays DEF SettledRow, RowsStay
    <3> QED BY <2>1, <2>4, <3>2, <3>3 DEF ClearInv, IsOpen
  <2> QED BY <2>3, <2>4
<1>check. CASE Check
  <2>1. UNCHANGED <<failures, messages, approvals, clock>> /\ (UNCHANGED inv \/ pc' = "idle")
    BY <1>check DEF Check, Goto, Done, ledger, world
  <2>2. CASE pc' \in Resting
    BY <2>2, <1>rest
  <2>3. CASE pc' \notin Resting
    <3>1. ~Objection(pc) /\ pc' = AfterCheck /\ pc \in {"state", "cap", "cooldown"}
      BY <1>check, <2>3 DEF Check, Goto, Done
    <3>2. \/ pc = "state" /\ pc' = "cap" /\ IsOpen(inv)
          \/ pc = "cap" /\ pc' = "cooldown" /\ ~(messages[inv].sent >= MaxTouches)
          \/ pc = "cooldown" /\ pc' = "mailer" /\ ~CoolingDown(inv)
      BY <3>1, <2>3 DEF AfterCheck, Objection
    <3>3. inv \in Invoices /\ UNCHANGED inv
      BY <2>1, <2>3, <3>1 DEF TypeInv, HandInv
    <3>4. messages[inv].sent \in Nat /\ MaxTouches \in Nat
      BY <3>3, NumbersAssumption DEF TypeInv, TypeOK
    <3>5. ~CoolingDown(inv) => ~CoolingDown(inv)'
      BY <2>1, <3>3, <1>clock, CooldownOver
    <3> QED BY <2>1, <3>2, <3>3, <3>4, <3>5 DEF ClearInv, IsOpen
  <2> QED BY <2>2, <2>3
<1>skipped. CASE CheckSkipped
  <2>1. CASE pc' = "expire"
    BY <1>skipped, <2>1 DEF CheckSkipped, Goto, Done, ClearInv, Skipped, With, ledger
  <2> QED BY <1>skipped, <2>1, <1>rest DEF CheckSkipped, Goto, Done
<1>expire. CASE ExpireQuietly
  <2>1. CASE pc' = "idle"
    BY <2>1, <1>rest
  <2>2. CASE req = NoRequest /\ Goto("create")
    <3>1. ~Skipped(inv) /\ inv' = inv
      BY <1>expire, <2>2 DEF ExpireQuietly, ClearInv, Goto
    <3>2. ~Skipped(inv)'
      BY <1>expire, <3>1, ExpireStays, ExpireEffect, SkippedStays
      DEF ExpireQuietly, Overdue, TypeInv, SettledRow
    <3> QED BY <2>2, <3>1, <3>2 DEF ClearInv, Goto
  <2> QED BY <1>expire, <2>1, <2>2 DEF ExpireQuietly, Done
<1>fresh. CASE ReadFresh
  <2>1. CASE pc' = "expire"
    BY <1>fresh, <2>1, InHand DEF ReadFresh, Goto, Done, ClearInv, AboutRequest
  <2> QED BY <1>fresh, <2>1, <1>rest DEF ReadFresh, Goto, Done
<1>mailer. CASE EnterMailer
  <2>1. CASE pc' = "send"
    <3>1. UNCHANGED <<failures, messages, clock, inv>> /\ pc = "mailer"
      BY <1>mailer DEF EnterMailer, Goto, ledger, world
    <3>2. inv \in Invoices
      BY <3>1, InHand DEF AboutRequest
    <3>3. ~CoolingDown(inv)'
      BY <3>1, <3>2, <1>clock, CooldownOver DEF ClearInv
    <3> QED BY <2>1, <3>1, <3>3 DEF ClearInv, IsOpen
  <2> QED BY <1>mailer, <2>1, <1>rest DEF EnterMailer, Goto
<1>posterr. CASE PostAnswerLost
  <2>1. UNCHANGED <<failures, messages, clock, inv, pc>> /\ pc = "send"
    BY <1>posterr DEF PostAnswerLost, ledger, loop
  <2>2. inv \in Invoices
    BY <2>1, InHand DEF AboutRequest
  <2>3. ~CoolingDown(inv)'
    BY <2>1, <2>2, <1>clock, CooldownOver DEF ClearInv
  <2> QED BY <2>1, <2>3 DEF ClearInv, IsOpen
<1>away. ASSUME \/ \E i \in Invoices : PaymentFailed(i)
                \/ \E a \in Requests : Decide(a)
                \/ RefuseToAsk \/ Create \/ Notify \/ GiveUp
                \/ Gate \/ CloseSuspended \/ Skip \/ Claim \/ Block
                \/ Refused \/ Post \/ RecordSent \/ MarkSent \/ MoveInvoice \/ MarkFailed
                \/ RecordSentFails \/ StoreError \/ Crash
         PROVE  pc' \in Resting
  BY <1>away
  DEF PaymentFailed, Decide, RefuseToAsk, Create, Notify, GiveUp, Gate, CloseSuspended, Skip,
      Claim, Block, Refused, Post, RecordSent, MarkSent, MoveInvoice, MarkFailed,
      RecordSentFails, StoreError, Crash, Goto, Done
<1> HIDE DEF Resting
<1> QED
  BY <1>beside, <1>check, <1>skipped, <1>expire, <1>fresh, <1>mailer, <1>posterr, <1>away,
     <1>rest
  DEF LoopNext, Ask, Answer

LEMMA ClearInvariant == Spec => [](TypeInv /\ ClearInv)
<1>1. Init => TypeInv /\ ClearInv
  BY TypeInit DEF Init, ClearInv
<1>2. TypeInv /\ ClearInv /\ [Next]_vars => (TypeInv /\ ClearInv)'
  BY TypeStep, ClearStep
<1> QED BY <1>1, <1>2, PTL DEF Spec

\* Every mail leaves about an open invoice, under the cap, to a person out of the
\* cooldown, at the moment it leaves and not only when it was checked.
THEOREM SentIsClear == Spec => ClearWhenSent
<1>1. TypeInv /\ ClearInv /\ [Next]_vars =>
        [\A a \in Requests : mails'[a] # mails[a] =>
           LET i == approvals[a].invoice IN
           IsOpen(i) /\ messages[i].sent < MaxTouches /\ ~CoolingDown(i)]_mails
  <2> SUFFICES ASSUME TypeInv, ClearInv, [Next]_vars,
                      NEW a \in Requests, mails'[a] # mails[a]
               PROVE  LET i == approvals[a].invoice IN
                      IsOpen(i) /\ messages[i].sent < MaxTouches /\ ~CoolingDown(i)
    OBVIOUS
  <2>1. pc = "send" /\ MailLeaves
    BY LoopOrBeside, MailsMove
  <2>2. a = req
    BY <2>1 DEF MailLeaves, TypeInv, TypeOK
  <2>3. approvals[a].invoice = inv
    BY <2>1, <2>2, InHand DEF TypeInv, HandInv, AboutRequest
  <2> QED BY <2>1, <2>3 DEF ClearInv
<1> QED BY <1>1, ClearInvariant, PTL DEF Spec, ClearWhenSent

\* An invoice somebody skipped is never asked about again.
THEOREM SkippedForGood == Spec => SkipIsRemembered
<1>1. TypeInv /\ ClearInv /\ [Next]_vars =>
        [\A a \in Requests :
           approvals[a].status = "none" /\ approvals'[a].status # "none" =>
             ~Skipped(approvals'[a].invoice)]_approvals
  <2> SUFFICES ASSUME TypeInv, ClearInv, [Next]_vars, NEW a \in Requests,
                      approvals[a].status = "none", approvals'[a].status # "none"
               PROVE  ~Skipped(approvals'[a].invoice)
    OBVIOUS
  <2>1. pc = "create" /\ approvals'[a].invoice = inv
    BY LoopOrBeside, RowsMove DEF RowMove
  <2>2. req = NoRequest
    BY <2>1 DEF TypeInv, HandInv
  <2> QED BY <2>1, <2>2 DEF ClearInv
<1> QED BY <1>1, ClearInvariant, PTL DEF Spec, SkipIsRemembered
-------------------------------------------------------------------------------
\* Suspension.

\* A mail past the mailer's gate is counted before it leaves.
QuietInv ==
  tenant = "suspended" => pausedMails + (IF pc = "send" THEN 1 ELSE 0) <= 1 + errors

\* The webhook in hand, if it has not asked yet, is the only one that still may.
ClosedInv ==
  tenant = "suspended" /\ op = "idle" /\ crashes = 0 =>
    /\ \A a, b \in With("pending") : a = b
    /\ req = NoRequest /\ pc # "idle" => With("pending") = {}

\* Who writes the tenant's status.
LEMMA TenantMove ==
  ASSUME TypeInv, [Next]_vars
  PROVE  Suspend \/ CloseAll \/ Resume \/ OperatorDies
           \/ (UNCHANGED <<tenant, op>> /\ crashes' >= crashes)
<1>1. crashes \in Nat /\ crashes >= crashes /\ crashes + 1 >= crashes
  BY NumbersAssumption DEF TypeInv, TypeOK
<1> QED
  BY <1>1
  DEF Next, PaymentFailed, Paid, Decide, Check, Ask, RefuseToAsk, CheckSkipped, ExpireQuietly,
      Create, Notify, GiveUp, Answer, Gate, CloseSuspended, Skip, Claim, ReadFresh, Block,
      EnterMailer, Refused, Post, RecordSent, MarkSent, MoveInvoice, MarkFailed, Sweep, Note,
      SweepError, PostAnswerLost, RecordSentFails, StoreError, Crash, Tick, vars, world,
      ledger, faults

\* What reaches the send, and what leaves it.
LEMMA SendMove ==
  ASSUME TypeInv, [Next]_vars
  PROVE  \/ Suspend
         \/ /\ pausedMails' = pausedMails /\ errors' >= errors
            /\ pc' = "send" => pc = "send" \/ TenantActive
         \/ pc = "send" /\ MailLeaves /\ pc' = "log" /\ errors' = errors
         \/ pc = "send" /\ MailLeaves /\ errors' = errors + 1
<1>1. errors \in Nat /\ errors >= errors /\ errors + 1 >= errors
  BY NumbersAssumption DEF TypeInv, TypeOK
<1> QED
  BY <1>1
  DEF Next, PaymentFailed, Paid, Decide, Check, AfterCheck, Ask, RefuseToAsk, CheckSkipped,
      ExpireQuietly, Create, Notify, GiveUp, Answer, Gate, CloseSuspended, Skip, Claim,
      ReadFresh, Block, EnterMailer, Refused, Post, RecordSent, MarkSent, MoveInvoice,
      MarkFailed, Sweep, Note, SweepError, PostAnswerLost, RecordSentFails, StoreError, Crash,
      OperatorDies, CloseAll, Resume, Tick, vars, world, ledger, faults, loop, Goto, Done

LEMMA QuietStep == TypeInv /\ TypeInv' /\ QuietInv /\ [Next]_vars => QuietInv'
<1> SUFFICES ASSUME TypeInv, TypeInv', QuietInv, [Next]_vars, tenant' = "suspended"
             PROVE  pausedMails' + (IF pc' = "send" THEN 1 ELSE 0) <= 1 + errors'
  BY DEF QuietInv
<1>1. pausedMails \in Nat /\ errors \in Nat /\ errors' \in Nat
  BY NumbersAssumption DEF TypeInv, TypeOK
<1>2. CASE Suspend
  BY <1>1, <1>2 DEF Suspend
<1>3. CASE ~Suspend
  <2>1. tenant = "suspended"
    BY <1>3, TenantMove DEF CloseAll, Resume, OperatorDies, ledger
  <2>2. pausedMails + (IF pc = "send" THEN 1 ELSE 0) <= 1 + errors
    BY <2>1 DEF QuietInv
  <2>3. ~TenantActive
    BY <2>1 DEF TenantActive
  <2> QED BY <1>1, <1>3, <2>1, <2>2, <2>3, SendMove DEF MailLeaves
<1> QED BY <1>2, <1>3

LEMMA ClosedStep == TypeInv /\ TypeInv' /\ ClosedInv /\ [Next]_vars => ClosedInv'
<1> SUFFICES ASSUME TypeInv, TypeInv', ClosedInv, [Next]_vars,
                    tenant' = "suspended", op' = "idle", crashes' = 0
             PROVE  /\ \A a, b \in With("pending")' : a = b
                    /\ req' = NoRequest /\ pc' # "idle" => With("pending")' = {}
  BY DEF ClosedInv
<1>1. crashes \in Nat
  BY NumbersAssumption DEF TypeInv, TypeOK
<1>2. CASE CloseAll
  <2>1. \A a \in Requests : approvals'[a].status # "pending"
    BY <1>2, ExpireEffect, RowsTyped DEF CloseAll, With, SettledRow, TypeInv
  <2> QED BY <2>1 DEF With
<1>3. CASE ~CloseAll
  <2>1. tenant = "suspended" /\ op = "idle" /\ crashes = 0
    BY <1>1, <1>3, TenantMove DEF Suspend, Resume, OperatorDies
  <2>2. /\ \A a, b \in With("pending") : a = b
        /\ req = NoRequest /\ pc # "idle" => With("pending") = {}
    BY <2>1 DEF ClosedInv
  <2>3. CASE Create
    <3>1. req = NoRequest /\ pc # "idle"
      BY <2>3 DEF Create, TypeInv, HandInv
    <3>2. \A a \in Requests : approvals[a].status # "pending"
      BY <2>2, <3>1 DEF With
    <3>3. CASE Done /\ UNCHANGED approvals
      BY <3>2, <3>3 DEF With, Done
    <3>4. ASSUME NEW a \in With("none"), req' = a,
                 \A b \in Requests \ {a} : approvals'[b] = approvals[b]
          PROVE  /\ \A c, d \in With("pending")' : c = d
                 /\ req' = NoRequest /\ pc' # "idle" => With("pending")' = {}
      BY <3>2, <3>4, SetsAssumption DEF With
    <3>5. ASSUME NEW a \in With("none"), req' = a,
                 approvals' = [approvals EXCEPT ![a] =
                   [invoice |-> inv, status |-> "pending",
                    expires |-> clock + TTL, resolved |-> 0]]
          PROVE  \A b \in Requests \ {a} : approvals'[b] = approvals[b]
      BY <3>5, RowsTyped DEF TypeInv, With
    <3> QED BY <2>3, <3>3, <3>4, <3>5 DEF Create
  <2>4. CASE ~Create
    <3>1. \A a \in Requests : approvals'[a].status = "pending" => approvals[a].status = "pending"
      <4> SUFFICES ASSUME NEW a \in Requests, approvals'[a].status = "pending",
                          approvals[a].status # "pending"
                   PROVE  FALSE
        OBVIOUS
      <4>1. RowMove(a)
        BY LoopOrBeside, RowsMove
      <4>2. pc = "create" /\ approvals[a].status = "none" /\ approvals' # approvals
        BY <4>1 DEF RowMove, SettledRow
      <4>3. LoopNext
        BY <4>2, LoopOrBeside DEF Beside, SettledRow
      <4> QED BY <2>4, <4>2, <4>3
          DEF LoopNext, PaymentFailed, Decide, Check, Ask, RefuseToAsk, CheckSkipped,
              ExpireQuietly, Notify, GiveUp, Answer, Gate, CloseSuspended, Skip, Claim,
              ReadFresh, Block, EnterMailer, Refused, Post, RecordSent, MarkSent, MoveInvoice,
              MarkFailed, PostAnswerLost, RecordSentFails, StoreError, Crash, ledger
    <3>2. With("pending")' \subseteq With("pending")
      BY <3>1 DEF With
    <3>3. req' = NoRequest /\ pc' # "idle" => req = NoRequest /\ pc # "idle"
      <4>1. ~ \E i \in Invoices : PaymentFailed(i)
        BY <2>1 DEF PaymentFailed, TenantActive
      <4>2. CASE \E a \in Requests : Decide(a)
        BY <4>2, SetsAssumption DEF Decide
      <4>3. CASE Beside
        BY <4>3 DEF Beside, loop
      <4>4. CASE LoopNext /\ ~ \E a \in Requests : Decide(a)
        BY <2>4, <4>1, <4>4
        DEF LoopNext, Check, Ask, RefuseToAsk, CheckSkipped,
            ExpireQuietly, Notify, GiveUp, Answer, Gate, CloseSuspended, Skip, Claim,
            ReadFresh, Block, EnterMailer, Refused, Post, RecordSent, MarkSent, MoveInvoice,
            MarkFailed, PostAnswerLost, RecordSentFails, StoreError, Crash, Goto, Done, loop
      <4> QED BY <4>2, <4>3, <4>4, LoopOrBeside
    <3> QED BY <2>2, <3>2, <3>3
  <2> QED BY <2>3, <2>4
<1> QED BY <1>2, <1>3

LEMMA SuspensionInvariant == Spec => [](TypeInv /\ QuietInv /\ ClosedInv)
<1>1. Init => TypeInv /\ QuietInv /\ ClosedInv
  BY TypeInit DEF Init, QuietInv, ClosedInv
<1>2. TypeInv /\ QuietInv /\ ClosedInv /\ [Next]_vars => (TypeInv /\ QuietInv /\ ClosedInv)'
  BY TypeStep, QuietStep, ClosedStep
<1> QED BY <1>1, <1>2, PTL DEF Spec

\* A suspended tenant's mail never leaves, but for one already past the mailer's
\* gate and the retries of a lost answer.
THEOREM SuspendedIsQuiet == Spec => []PausedIsQuiet
<1>1. TypeInv /\ QuietInv /\ ClosedInv => PausedIsQuiet
  <2> SUFFICES ASSUME TypeInv, QuietInv, tenant = "suspended" PROVE pausedMails <= 1 + errors
    BY DEF PausedIsQuiet
  <2>1. pausedMails \in Nat /\ errors \in Nat
    BY NumbersAssumption DEF TypeInv, TypeOK
  <2> QED BY <2>1 DEF QuietInv
<1> QED BY <1>1, SuspensionInvariant, PTL

\* After a complete suspension at most one request is pending.
THEOREM SuspensionClosesRequests == Spec => []SuspensionCloses
<1>1. TypeInv /\ QuietInv /\ ClosedInv => SuspensionCloses
  <2> SUFFICES ASSUME ClosedInv, tenant = "suspended", op = "idle", crashes = 0
               PROVE  Cardinality(With("pending")) <= 1
    BY DEF SuspensionCloses
  <2>1. CASE With("pending") = {}
    BY <2>1, FS_EmptySet
  <2>2. ASSUME NEW a \in With("pending") PROVE Cardinality(With("pending")) <= 1
    <3>1. With("pending") = {a}
      BY <2>2 DEF ClosedInv
    <3> QED BY <3>1, FS_Singleton
  <2> QED BY <2>1, <2>2
<1> QED BY <1>1, SuspensionInvariant, PTL
-------------------------------------------------------------------------------
\* Stranded requests.

\* Where the claim of the request in hand is still going to be settled.
Holding == Deciding(Checking) \/ pc \in {"send", "log", "mark", "move", "fail", "except"}

Lost == {a \in With("approved") : ~(req = a /\ Holding)}

\* An error already spent, in the cleanup of which a second one strands a request.
Owed == IF pc = "except" /\ approvals[req].status = "approved" THEN 1 ELSE 0

LostInv == 2 * Cardinality(Lost) + Owed <= 2 * crashes + errors

LEMMA LostFinite == IsFiniteSet(Lost) /\ Cardinality(Lost) \in Nat
<1>1. Lost \in SUBSET Requests
  BY DEF Lost, With
<1> QED BY <1>1, SetsAssumption, FS_Subset, FS_CardinalityType

LEMMA LostShrinks ==
  ASSUME TypeInv, TypeInv', LostInv, Lost' \subseteq Lost, crashes' >= crashes,
         errors' >= errors + Owed' - Owed
  PROVE  LostInv'
<1>1. Cardinality(Lost') <= Cardinality(Lost) /\ Cardinality(Lost') \in Nat
  BY LostFinite, FS_Subset, FS_CardinalityType
<1>2. /\ crashes \in Nat /\ errors \in Nat /\ crashes' \in Nat /\ errors' \in Nat
      /\ Owed \in Nat /\ Owed' \in Nat /\ Cardinality(Lost) \in Nat
  BY LostFinite, NumbersAssumption DEF TypeInv, TypeOK, Owed
<1>3. Cardinality(Lost)' = Cardinality(Lost')
  OBVIOUS
<1>4. 2 * Cardinality(Lost) + Owed <= 2 * crashes + errors
  BY DEF LostInv
<1>5. \A m, n, d, e, c, b, x, y \in Nat :
        n <= m /\ 2 * m + d <= 2 * c + b /\ x >= c /\ y >= b + e - d
          => 2 * n + e <= 2 * x + y
  OBVIOUS
<1>6. 2 * Cardinality(Lost') + Owed' <= 2 * crashes' + errors'
  BY <1>1, <1>2, <1>4, <1>5
<1> QED BY <1>3, <1>6 DEF LostInv

\* One more is lost: to a crash, or to the second of two errors.
LEMMA LostOneMore ==
  ASSUME TypeInv, TypeInv', LostInv, Lost' \subseteq Lost \cup {req}, Owed' = 0,
         2 * crashes' + errors' >= 2 * crashes + errors + 2 - Owed
  PROVE  LostInv'
<1>0. Cardinality(Lost) \in Nat /\ Cardinality(Lost) <= Cardinality(Lost) + 1
  BY LostFinite
<1>1. /\ Cardinality(Lost \cup {req}) <= Cardinality(Lost) + 1
      /\ IsFiniteSet(Lost \cup {req})
      /\ Cardinality(Lost \cup {req}) \in Nat
  <2>1. /\ IsFiniteSet(Lost \cup {req})
        /\ Cardinality(Lost \cup {req}) \in {Cardinality(Lost), Cardinality(Lost) + 1}
    BY LostFinite, FS_AddElement
  <2> QED BY <1>0, <2>1
<1>2. Cardinality(Lost') <= Cardinality(Lost \cup {req}) /\ Cardinality(Lost') \in Nat
  BY <1>1, FS_Subset, FS_CardinalityType
<1>3. /\ crashes \in Nat /\ errors \in Nat /\ crashes' \in Nat /\ errors' \in Nat
      /\ Owed \in Nat
  BY NumbersAssumption DEF TypeInv, TypeOK, Owed
<1>4. 2 * Cardinality(Lost) + Owed <= 2 * crashes + errors
  BY DEF LostInv
<1>5. Cardinality(Lost)' = Cardinality(Lost')
  OBVIOUS
<1>6. \A m, n, o, c, b, x, y \in Int :
        n <= m + 1 /\ 2 * m + o <= 2 * c + b /\ 2 * x + y >= 2 * c + b + 2 - o
          => 2 * n <= 2 * x + y
  OBVIOUS
<1>7. PICK m \in Int, n \in Int, o \in Int :
        m = Cardinality(Lost) /\ n = Cardinality(Lost') /\ o = Owed
  BY <1>0, <1>2, <1>3
<1>8. crashes \in Int /\ errors \in Int /\ crashes' \in Int /\ errors' \in Int
  BY <1>3
<1>9. n <= m + 1
  BY <1>0, <1>1, <1>2, <1>7
<1>10. 2 * m + o <= 2 * crashes + errors /\ 2 * crashes' + errors' >= 2 * crashes + errors + 2 - o
  BY <1>4, <1>7
<1>11. 2 * n <= 2 * crashes' + errors'
  BY <1>6, <1>8, <1>9, <1>10, Zenon
<1>12. 2 * n + 0 = 2 * n
  OBVIOUS
<1> QED BY <1>5, <1>7, <1>11, <1>12 DEF LostInv

LEMMA LostStep == TypeInv /\ TypeInv' /\ DecisionInv /\ LostInv /\ [Next]_vars => LostInv'
<1> SUFFICES ASSUME TypeInv, TypeInv', DecisionInv, LostInv, LoopNext \/ Beside PROVE LostInv'
  BY LoopOrBeside
<1>0. crashes \in Nat /\ errors \in Nat /\ crashes' \in Nat /\ errors' \in Nat
  BY NumbersAssumption DEF TypeInv, TypeOK
\* Rows become approved by the claim only, and stop being so in the loop's hand.
<1>row. ASSUME NEW a \in Requests
        PROVE  approvals'[a].status = "approved" =>
                 approvals[a].status = "approved" \/ (pc = "claim" /\ a = req)
  BY RowsMove DEF RowMove, SettledRow
<1>shrinks. ASSUME Lost' \subseteq Lost, Owed' = 0, errors' >= errors, crashes' >= crashes
            PROVE  LostInv'
  <2>1. errors' >= errors + Owed' - Owed
    BY <1>0, <1>shrinks DEF Owed
  <2> QED BY <1>shrinks, <2>1, LostShrinks
<1>beside. CASE Beside
  <2>1. UNCHANGED <<pc, req>> /\ errors' >= errors /\ crashes' >= crashes
    BY <1>beside DEF Beside, loop
  <2>2. \A a \in Requests :
          approvals'[a].status = "approved" <=> approvals[a].status = "approved"
    BY <1>beside DEF Beside, SettledRow
  <2>3. Lost' = Lost
    BY <2>1, <2>2 DEF Lost, With, Holding, Deciding
  <2>4. Owed' = Owed
    <3>1. pc = "except" => req \in Requests
      BY InHand DEF AboutRequest
    <3> QED BY <2>1, <2>2, <3>1 DEF Owed
  <2>5. errors' >= errors + Owed' - Owed
    BY <1>0, <2>1, <2>4 DEF Owed
  <2> QED BY <2>1, <2>3, <2>5, LostShrinks
\* The loop moves on with the claim still in its hand, or with none.
<1>kept. ASSUME pc # "claim", req' = req, Holding => Holding', pc' # "except",
                errors' >= errors, crashes' >= crashes
         PROVE  LostInv'
  <2>1. Lost' \subseteq Lost
    BY <1>kept, <1>row DEF Lost, With
  <2> QED BY <1>kept, <2>1, <1>shrinks DEF Owed
\* The loop lets go of a request that is not approved, or that it did not claim.
<1>letgo. ASSUME pc # "claim", pc' # "except", errors' >= errors, crashes' >= crashes,
                 Holding => req \notin Requests \/ approvals'[req].status # "approved"
          PROVE  LostInv'
  <2>1. Lost' \subseteq Lost
    BY <1>letgo, <1>row DEF Lost, With
  <2> QED BY <1>letgo, <2>1, <1>shrinks DEF Owed
<1>frame. ASSUME UNCHANGED errors \/ errors' = errors + 1, UNCHANGED crashes
          PROVE  errors' >= errors /\ crashes' >= crashes
  BY <1>frame, <1>0
<1>failed. ASSUME NEW i \in Invoices, PaymentFailed(i) PROVE LostInv'
  BY <1>failed, <1>frame, <1>letgo
  DEF PaymentFailed, world, faults, Holding, Deciding, Checking
<1>decide. ASSUME NEW a \in Requests, Decide(a) PROVE LostInv'
  BY <1>decide, <1>frame, <1>letgo DEF Decide, world, faults, Holding, Deciding, Checking
<1>check. CASE Check
  <2>1. UNCHANGED <<errors, crashes>> /\ pc # "claim" /\ pc' # "except"
    BY <1>check DEF Check, AfterCheck, Goto, Done, world, faults
  <2>2. CASE req = NoRequest
    BY <1>check, <2>1, <2>2, <1>frame, <1>letgo, SetsAssumption
  <2>3. CASE req # NoRequest
    <3>1. req' = req /\ pc' \in Checking
      BY <1>check, <2>3 DEF Check, AfterCheck, Goto, Checking
    <3> QED BY <2>1, <2>3, <3>1, <1>frame, <1>kept DEF Holding, Deciding
  <2> QED BY <2>2, <2>3
<1>quiet. ASSUME \/ RefuseToAsk \/ CheckSkipped \/ ExpireQuietly \/ Create \/ Notify \/ GiveUp
                 \/ Gate \/ CloseSuspended \/ Skip \/ ReadFresh
          PROVE  LostInv'
  <2>1. ~Holding /\ pc # "claim"
    BY <1>quiet
    DEF RefuseToAsk, CheckSkipped, ExpireQuietly, Create, Notify, GiveUp, Gate, CloseSuspended,
        Skip, ReadFresh, Holding, Deciding, Checking
  <2>2. UNCHANGED <<errors, crashes>> /\ pc' # "except"
    BY <1>quiet
    DEF RefuseToAsk, CheckSkipped, ExpireQuietly, Create, Notify, GiveUp, Gate, CloseSuspended,
        Skip, ReadFresh, Goto, Done, world, faults
  <2> QED BY <2>1, <2>2, <1>frame, <1>letgo
<1>claim. CASE Claim
  <2>1. req \in Requests /\ req # NoRequest
    BY <1>claim, InHand DEF Claim, AboutRequest
  <2>2. UNCHANGED <<errors, crashes, req>> /\ pc = "claim" /\ pc' \in {"state", "fresh"}
    BY <1>claim DEF Claim, Goto, world, faults
  <2>3. ~Holding
    BY <2>2 DEF Holding, Deciding, Checking
  <2>4. Lost' \subseteq Lost
    <3>1. CASE approvals' = approvals
      BY <2>3, <3>1 DEF Lost, With
    <3>2. CASE approvals' # approvals
      <4>1. pc' = "state"
        BY <1>claim, <3>2 DEF Claim, Goto
      <4>2. Holding'
        BY <2>1, <2>2, <4>1 DEF Holding, Deciding, Checking
      <4> QED BY <2>2, <2>3, <4>2, <1>row DEF Lost, With
    <3> QED BY <3>1, <3>2
  <2> QED BY <2>2, <2>4, <1>frame, <1>shrinks DEF Owed
<1>onward. ASSUME EnterMailer \/ Refused \/ Post \/ PostAnswerLost \/ RecordSent
                  \/ RecordSentFails \/ MarkSent
           PROVE  LostInv'
  <2>1. /\ req' = req /\ pc # "claim" /\ pc' \in {"send", "fail", "log", "mark", "move"}
        /\ UNCHANGED crashes /\ (UNCHANGED errors \/ errors' = errors + 1)
    BY <1>onward
    DEF EnterMailer, Refused, Post, PostAnswerLost, RecordSent, RecordSentFails, MarkSent,
        Goto, loop, world, faults
  <2> QED BY <2>1, <1>frame, <1>kept DEF Holding
<1>ends. ASSUME Block \/ MarkFailed PROVE LostInv'
  <2>1. /\ UNCHANGED <<errors, crashes>> /\ pc' = "idle" /\ pc # "claim" /\ pc \in AboutRequest
        /\ \E to \in {"blocked", "failed"} : Resolve(req, to, {"approved"})
    BY <1>ends DEF Block, MarkFailed, Done, world, faults, AboutRequest
  <2>2. req \in Requests
    BY <2>1, InHand
  <2>3. approvals'[req].status # "approved"
    <3>1. PICK to \in {"blocked", "failed"} : Resolve(req, to, {"approved"})
      BY <2>1
    <3> QED BY <2>2, <3>1, ResolveEffect DEF SettledRow, Statuses, TypeInv
  <2> QED BY <2>1, <2>3, <1>frame, <1>letgo
<1>move. CASE MoveInvoice
  <2>1. UNCHANGED <<errors, crashes, approvals>> /\ pc = "move"
    BY <1>move DEF MoveInvoice, world, faults
  <2>2. approvals[req].status = "sent"
    BY <2>1 DEF DecisionInv, SendInv
  <2>3. (pc' = "except" /\ req' = req) \/ pc' = "idle"
    BY <1>move DEF MoveInvoice, Goto, Done
  <2>4. Lost' \subseteq Lost
    BY <2>1, <2>2 DEF Lost, With
  <2> QED BY <2>1, <2>2, <2>3, <2>4, <1>frame, <1>shrinks DEF Owed
<1>error. CASE StoreError
  <2>1. UNCHANGED <<approvals, crashes>> /\ errors' = errors + 1
    BY <1>error DEF StoreError, ledger
  <2>2. CASE InTry
    <3>1. pc' = "except" /\ req' = req /\ pc # "except" /\ pc # "claim"
      BY <1>error, <2>2 DEF StoreError, InTry, Goto
    <3>2. Lost' \subseteq Lost
      BY <2>1, <3>1 DEF Lost, With, Holding
    <3>3. errors' >= errors + Owed' - Owed
      BY <1>0, <2>1, <3>1 DEF Owed
    <3> QED BY <1>frame, <2>1, <3>2, <3>3, LostShrinks
  <2>3. CASE ~InTry /\ pc = "except" /\ approvals[req].status = "approved"
    <3>1. pc' = "idle" /\ Owed = 1 /\ Owed' = 0
      BY <1>error, <2>3 DEF StoreError, Done, Owed
    <3>2. Lost' \subseteq Lost \cup {req}
      BY <2>1 DEF Lost, With
    <3>3. 2 * crashes' + errors' >= 2 * crashes + errors + 2 - Owed
      BY <1>0, <2>1, <3>1
    <3> QED BY <3>1, <3>2, <3>3, LostOneMore
  <2>4. CASE ~InTry /\ ~(pc = "except" /\ approvals[req].status = "approved")
    <3>1. pc' = "idle" /\ pc # "log"
      BY <1>error, <2>4 DEF StoreError, Done
    <3>2. Holding => approvals[req].status # "approved"
      BY <2>4, <3>1, InHand
      DEF InTry, Holding, Deciding, Checking, AboutRequest
    <3>3. Lost' \subseteq Lost
      BY <2>1, <3>2 DEF Lost, With
    <3> QED BY <2>1, <3>1, <3>3, <1>frame, <1>shrinks DEF Owed
  <2> QED BY <2>2, <2>3, <2>4
<1>crash. CASE Crash
  <2>1. UNCHANGED <<approvals, errors>> /\ crashes' = crashes + 1 /\ pc' = "idle"
    BY <1>crash DEF Crash, Done, ledger
  <2>2. Lost' \subseteq Lost \cup {req} /\ Owed' = 0 /\ Owed >= 0
    BY <2>1 DEF Lost, With, Owed
  <2>3. 2 * crashes' + errors' >= 2 * crashes + errors + 2 - Owed
    BY <1>0, <2>1, <2>2 DEF Owed
  <2> QED BY <2>2, <2>3, LostOneMore
<1> QED
  BY <1>beside, <1>failed, <1>decide, <1>check, <1>quiet, <1>claim, <1>onward, <1>ends,
     <1>move, <1>error, <1>crash
  DEF LoopNext, Ask, Answer

\* Every path from a claim leaves the request in a terminal state: only the death
\* of the process strands one, or two errors in a row.
THEOREM ClaimsAreSettled == Spec => []NothingStranded
<1>1. Init => LostInv
  <2> SUFFICES ASSUME Init PROVE LostInv
    OBVIOUS
  <2>1. Lost = {} /\ Owed = 0 /\ crashes = 0 /\ errors = 0
    BY DEF Init, Lost, With, Free, Owed
  <2> QED BY <2>1, FS_EmptySet DEF LostInv
<1>2. TypeInv /\ DecisionInv /\ LostInv /\ [Next]_vars => (TypeInv /\ DecisionInv /\ LostInv)'
  BY TypeStep, DecisionStep, LostStep
<1>3. TypeInv /\ LostInv => NothingStranded
  <2> SUFFICES ASSUME TypeInv, LostInv
               PROVE  2 * Cardinality(Stranded) <= 2 * crashes + errors
    BY DEF NothingStranded
  <2>1. Stranded \in SUBSET Lost
    BY DEF Stranded, Lost, Holding, Deciding, Checking
  <2>2. Cardinality(Stranded) <= Cardinality(Lost) /\ Cardinality(Stranded) \in Nat
    BY <2>1, LostFinite, FS_Subset, FS_CardinalityType
  <2>3. crashes \in Nat /\ errors \in Nat /\ Owed \in Nat
    BY NumbersAssumption DEF TypeInv, TypeOK, Owed
  <2> QED BY <2>2, <2>3, LostFinite DEF LostInv
<1> QED BY <1>1, <1>2, <1>3, TypeInit, DecisionInit, PTL DEF Spec

\* The three promises about a request, together.
THEOREM RequestsHold == Spec => []RequestsAreHonest
<1>1. NothingStranded /\ ReadsAsSent /\ DecidedInTime => RequestsAreHonest
  BY DEF RequestsAreHonest
<1> QED BY <1>1, ClaimsAreSettled, MailedReadsAsSent, ApprovedBeforeSent, PTL

\* The two promises of a suspension, together.
THEOREM SuspensionKept == Spec => []SuspensionHolds
<1>1. PausedIsQuiet /\ SuspensionCloses => SuspensionHolds
  BY DEF SuspensionHolds
<1> QED BY <1>1, SuspendedIsQuiet, SuspensionClosesRequests, PTL
-------------------------------------------------------------------------------
\* Who records an expiry.

\* A step that expires a request and drops what it expired.
ExpiresSilently == (ExpireQuietly \/ CloseSuspended \/ CloseAll) /\ approvals' # approvals

\* A step that ends a sweep before it recorded what it had expired.
CutsASweepShort == \E s \in Sweepers : todo[s] # {} /\ (SweepError(s) \/ Crash)

\* What the loop leaves alone, and that no write of its own is an expiry but the two
\* silent ones.
LEMMA LoopExpiresSilently ==
  ASSUME TypeInv, LoopNext, ~ExpiresSilently
  PROVE  /\ noted' = noted /\ (todo' = todo \/ Crash)
         /\ \A a \in With("expired")' : a \in With("expired")
<1>1. noted' = noted
  BY DEF LoopNext, PaymentFailed, Decide, Check, Ask, Answer, RefuseToAsk, CheckSkipped, ExpireQuietly,
     Create, Notify, GiveUp, Gate, CloseSuspended, Skip, Claim, ReadFresh, Block, EnterMailer,
     Refused, Post, RecordSent, MarkSent, MoveInvoice, MarkFailed, PostAnswerLost,
     RecordSentFails, StoreError, Crash, ledger
<1>2. todo' = todo \/ Crash
  BY DEF LoopNext, PaymentFailed, Decide, Check, Ask, Answer, RefuseToAsk, CheckSkipped, ExpireQuietly,
     Create, Notify, GiveUp, Gate, CloseSuspended, Skip, Claim, ReadFresh, Block, EnterMailer,
     Refused, Post, RecordSent, MarkSent, MoveInvoice, MarkFailed, PostAnswerLost,
     RecordSentFails, StoreError
<1>3. ASSUME NEW a \in Requests, approvals'[a].status = "expired"
      PROVE  approvals[a].status = "expired"
  <2>same. CASE UNCHANGED approvals
    BY <1>3, <2>same
  <2>create. CASE Create
    <3>1. approvals \in [Requests -> Row]
      BY RowsTyped DEF TypeInv
    <3> QED BY <1>3, <2>create, <3>1 DEF Create, With
  <2>claim. CASE Claim
    BY <1>3, <2>claim, InHand, ClaimEffect, RowsTyped DEF Claim, AboutRequest, TypeInv
  <2>settle. CASE Skip \/ GiveUp \/ Block \/ MarkSent \/ MarkFailed
    <3>1. PICK to \in {"skipped", "failed", "blocked", "sent"}, from \in SUBSET Statuses :
            Resolve(req, to, from) /\ req \in Requests
      BY <2>settle, InHand
      DEF Skip, GiveUp, Block, MarkSent, MarkFailed, AboutRequest, Statuses
    <3>2. to \in Statuses
      BY DEF Statuses
    <3> QED BY <1>3, <3>1, <3>2, ResolveEffect DEF SettledRow, TypeInv
  <2> QED
    BY <2>same, <2>create, <2>claim, <2>settle
    DEF LoopNext, PaymentFailed, Decide, Check, Ask, Answer, RefuseToAsk, CheckSkipped,
        Notify, Gate, ReadFresh, EnterMailer, Refused, Post, RecordSent, MoveInvoice,
        PostAnswerLost, RecordSentFails, StoreError, Crash, ledger, ExpiresSilently
<1> QED BY <1>1, <1>2, <1>3 DEF With

LEMMA RecordedStep ==
  ASSUME TypeInv, ExpiryIsRecorded, [Next]_vars, ~ExpiresSilently, ~CutsASweepShort
  PROVE  ExpiryIsRecorded'
<1> SUFFICES ASSUME NEW a \in With("expired")'
             PROVE  a \in noted' \/ \E s \in Sweepers : a \in todo'[s]
  BY DEF ExpiryIsRecorded
<1> USE DEF TypeInv
<1>a. a \in Requests
  BY DEF With
<1>1. todo \in [Sweepers -> SUBSET Requests]
  BY DEF TypeOK
<1>loop. CASE LoopNext
  <2>1. a \in With("expired") /\ noted' = noted /\ (todo' = todo \/ Crash)
    BY <1>loop, LoopExpiresSilently
  <2>2. a \in noted \/ \E s \in Sweepers : a \in todo[s]
    BY <2>1 DEF ExpiryIsRecorded
  <2> QED BY <2>1, <2>2 DEF CutsASweepShort
<1>sweep. ASSUME NEW s \in Sweepers, Sweep(s) PROVE a \in noted' \/ \E t \in Sweepers : a \in todo'[t]
  <2>1. todo[s] = {} /\ noted' = noted /\ todo'[s] = Overdue
        /\ \A t \in Sweepers \ {s} : todo'[t] = todo[t]
    BY <1>sweep, <1>1 DEF Sweep
  <2>2. a \in Overdue \/ a \in With("expired")
    BY <1>sweep, <1>a, ExpireEffect DEF Sweep, With
  <2> QED BY <2>1, <2>2, <1>sweep DEF ExpiryIsRecorded
<1>note. ASSUME NEW s \in Sweepers, Note(s) PROVE a \in noted' \/ \E t \in Sweepers : a \in todo'[t]
  <2>1. PICK b \in todo[s] : noted' = noted \cup {b} /\ todo' = [todo EXCEPT ![s] = @ \ {b}]
    BY <1>note DEF Note
  <2>2. a \in With("expired")
    BY <1>note DEF Note, With
  <2> QED BY <2>1, <2>2, <1>1 DEF ExpiryIsRecorded
<1>error. ASSUME NEW s \in Sweepers, SweepError(s) PROVE FALSE
  BY <1>error DEF SweepError, CutsASweepShort
<1>rest. CASE Suspend \/ Resume \/ OperatorDies \/ Tick \/ UNCHANGED vars \/ \E i \in Invoices : Paid(i)
  <2>1. UNCHANGED <<approvals, noted, todo>>
    BY <1>rest DEF Suspend, Resume, OperatorDies, Tick, Paid, vars, ledger
  <2> QED BY <2>1 DEF ExpiryIsRecorded, With
<1>close. CASE CloseAll
  <2>1. UNCHANGED <<approvals, noted, todo>>
    BY <1>close DEF CloseAll, ExpiresSilently
  <2> QED BY <2>1 DEF ExpiryIsRecorded, With
<1> QED
  BY <1>loop, <1>sweep, <1>note, <1>error, <1>rest, <1>close DEF Next, LoopNext

\* What expires is recorded as approval_expired, unless request_approval, decide or suspend
\* expired it and dropped what they were told (approval.py:191, 354, 373,
\* tenant_admin.py:104-110), or a sweep was cut short between its UPDATE and its message
\* rows (approval.py:432-435).  ApprovalContract does not promise it: approval_unrecorded
\* shows the first.
THEOREM SweepsRecordExpiries ==
  Init /\ [][Next /\ ~ExpiresSilently /\ ~CutsASweepShort]_vars => []ExpiryIsRecorded
<1> DEFINE RecordingNext == Next /\ ~ExpiresSilently /\ ~CutsASweepShort
<1>1. Init => TypeInv /\ ExpiryIsRecorded
  <2>1. Init => ExpiryIsRecorded
    BY DEF Init, ExpiryIsRecorded, With, Free
  <2> QED BY <2>1, TypeInit
<1>2. TypeInv /\ ExpiryIsRecorded /\ [RecordingNext]_vars => (TypeInv /\ ExpiryIsRecorded)'
  <2> SUFFICES ASSUME TypeInv, ExpiryIsRecorded, [RecordingNext]_vars
               PROVE  TypeInv' /\ ExpiryIsRecorded'
    OBVIOUS
  <2>1. [Next]_vars
    OBVIOUS
  <2>2. CASE RecordingNext
    BY <2>1, <2>2, TypeStep, RecordedStep
  <2>3. CASE UNCHANGED vars
    <3>1. UNCHANGED <<approvals, noted, todo>>
      BY <2>3 DEF vars, ledger
    <3> QED BY <2>1, <3>1, TypeStep DEF ExpiryIsRecorded, With
  <2> QED BY <2>2, <2>3
<1> QED BY <1>1, <1>2, PTL
===============================================================================
