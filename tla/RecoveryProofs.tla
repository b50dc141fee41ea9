----------------------------- MODULE RecoveryProofs -----------------------------
(***************************************************************************)
(* Theorems about RecoveryLoop, for any number of workers, events, invoices *)
(* and faults.  Each safety property is a consequence of an inductive       *)
(* invariant that says what a worker in the middle of a handler may still   *)
(* rely on.                                                                 *)
(***************************************************************************)
EXTENDS RecoveryLoop, FiniteSetTheorems, SequenceTheorems, TLAPS

\* The handlers that run only for an event which names an invoice.
NamesInvoice == {"early", "find", "record", "gate", "cap", "cooldown", "send", "log",
                 "lookup", "mark_early"}

\* A worker at one of those calls has an invoice to make it about.
InvoiceNamed ==
  \A w \in Workers : pc[w] \in NamesInvoice => Invoice(w) \in Invoices

TypeInv == TypeOK /\ InvoiceNamed

\* What a body read out of Body is.
LEMMA BodyFields ==
  ASSUME NEW e \in Events
  PROVE  /\ Body[e].type \in EventTypes
         /\ Body[e].invoice \in Invoices \cup {NoInvoice}
         /\ Body[e].sub \in Subs \cup {NoSub}
         /\ Body[e].amount \in Nat
BY BodyAssumption, LimitsAssumption

\* What the three updates of a counter give.
Counts == [sent : Nat, bounced : Nat, last : Nat]

LEMMA OneMoreSentType ==
  ASSUME NEW m \in Counts, clock \in Nat
  PROVE  OneMoreSent(m) \in Counts
<1>1. m.sent + 1 \in Nat
  BY DEF Counts
<1> QED BY <1>1 DEF Counts, OneMoreSent

LEMMA TurnedBouncedType ==
  ASSUME NEW m \in Counts, m.sent > 0
  PROVE  TurnedBounced(m) \in Counts
<1>1. m.sent - 1 \in Nat /\ m.bounced + 1 \in Nat
  BY DEF Counts
<1> QED BY <1>1 DEF Counts, TurnedBounced

LEMMA TypeInit == Init => TypeInv
<1> SUFFICES ASSUME Init PROVE TypeInv OBVIOUS
<1>1. (CHOOSE e \in Events : TRUE) \in Events
  BY BodyAssumption
<1>2. TypeOK
  BY <1>1, LimitsAssumption DEF Init, TypeOK, NoRow, Labels
<1>3. InvoiceNamed
  BY DEF Init, InvoiceNamed, NamesInvoice
<1> QED BY <1>2, <1>3 DEF TypeInv

\* What a move of one program counter keeps.
LEMMA GotoKeeps ==
  ASSUME TypeInv, NEW w \in Workers, NEW l \in Labels, Goto(w, l), ev' = ev,
         l \in NamesInvoice => Invoice(w) \in Invoices
  PROVE  pc' \in [Workers -> Labels] /\ InvoiceNamed'
BY DEF TypeInv, TypeOK, Goto, InvoiceNamed, Invoice, Event

LEMMA ReturnKeeps ==
  ASSUME TypeInv, NEW w \in Workers, Return(w), ev' = ev
  PROVE  pc' \in [Workers -> Labels] /\ InvoiceNamed' /\ applied' \subseteq Events
<1>1. Goto(w, "reply") /\ "reply" \in Labels /\ "reply" \notin NamesInvoice
  BY DEF Return, Labels, NamesInvoice
<1>2. pc' \in [Workers -> Labels] /\ InvoiceNamed'
  BY <1>1, GotoKeeps
<1> QED BY <1>2 DEF Return, TypeInv, TypeOK

LEMMA RaiseKeeps ==
  ASSUME TypeInv, NEW w \in Workers, Raise(w), ev' = ev
  PROVE  pc' \in [Workers -> Labels] /\ InvoiceNamed'
<1>1. Goto(w, "forget") /\ "forget" \in Labels /\ "forget" \notin NamesInvoice
  BY DEF Raise, Labels, NamesInvoice
<1> QED BY <1>1, GotoKeeps

\* The same for an action that reads the ledger and moves on, from one call to
\* the next or to the answer.
LEMMA ReadKeeps ==
  ASSUME TypeInv, NEW w \in Workers, NEW l \in Labels, pc[w] \in NamesInvoice,
         Return(w) \/ (Goto(w, l) /\ UNCHANGED applied), ev' = ev
  PROVE  pc' \in [Workers -> Labels] /\ InvoiceNamed' /\ applied' \subseteq Events
<1>1. CASE Return(w)
  BY <1>1, ReturnKeeps
<1>2. CASE Goto(w, l) /\ UNCHANGED applied
  <2>1. Invoice(w) \in Invoices
    BY DEF TypeInv, InvoiceNamed
  <2>2. pc' \in [Workers -> Labels] /\ InvoiceNamed'
    BY <1>2, <2>1, GotoKeeps
  <2> QED BY <1>2, <2>2 DEF TypeInv, TypeOK
<1> QED BY <1>1, <1>2

LEMMA FirstCallNamed ==
  ASSUME NEW e \in Events
  PROVE  /\ FirstCall(Body[e]) \in Labels
         /\ FirstCall(Body[e]) \in NamesInvoice => Body[e].invoice \in Invoices
<1>1. CASE Body[e].type = "deleted"
  BY <1>1 DEF FirstCall, Labels, NamesInvoice
<1>2. CASE Body[e].type # "deleted" /\ Body[e].invoice = NoInvoice
  BY <1>2 DEF FirstCall, Labels, NamesInvoice
<1>3. CASE Body[e].type # "deleted" /\ Body[e].invoice # NoInvoice
  <2>1. Body[e].invoice \in Invoices
    BY <1>3, BodyFields
  <2>2. FirstCall(Body[e]) \in {"early", "lookup"}
    BY <1>3, BodyFields DEF FirstCall, EventTypes
  <2> QED BY <2>1, <2>2 DEF Labels
<1> QED BY <1>1, <1>2, <1>3

LEMMA TypeStep == TypeInv /\ [Next]_vars => TypeInv'
<1> SUFFICES ASSUME TypeInv, [Next]_vars PROVE TypeInv' OBVIOUS
<1> USE DEF TypeInv
<1>named. ASSUME NEW w \in Workers, pc[w] \in NamesInvoice PROVE Invoice(w) \in Invoices
  BY <1>named DEF InvoiceNamed
<1>deliver. ASSUME NEW w \in Workers, NEW e \in Events, Deliver(w, e) PROVE TypeInv'
  <2>1. TypeOK'
    BY <1>deliver, FirstCallNamed DEF Deliver, Goto, TypeOK, world
  <2>2. InvoiceNamed'
    BY <1>deliver, FirstCallNamed DEF Deliver, Goto, TypeOK, InvoiceNamed, Invoice, Event
  <2> QED BY <2>1, <2>2
<1>replay. ASSUME NEW w \in Workers, NEW e \in Events, Replay(w, e) PROVE TypeInv'
  BY <1>replay DEF Replay, TypeOK, InvoiceNamed, Invoice, Event, ledger, workers
<1>unhandled. ASSUME NEW w \in Workers, Unhandled(w) PROVE TypeInv'
  BY <1>unhandled, ReturnKeeps DEF Unhandled, TypeOK, ledger
<1>reply. ASSUME NEW w \in Workers, Reply(w) PROVE TypeInv'
  <2>1. "idle" \in Labels /\ "idle" \notin NamesInvoice
    BY DEF Labels, NamesInvoice
  <2> QED BY <1>reply, <2>1, GotoKeeps DEF Reply, TypeOK, ledger
<1>early. ASSUME NEW w \in Workers, CheckEarly(w) PROVE TypeInv'
  <2>1. pc[w] \in NamesInvoice /\ "find" \in Labels
    BY <1>early DEF CheckEarly, Labels, NamesInvoice
  <2>2. Return(w) \/ (Goto(w, "find") /\ UNCHANGED applied)
    BY <1>early DEF CheckEarly
  <2> QED BY <1>early, <2>1, <2>2, ReadKeeps DEF CheckEarly, TypeOK, ledger
<1>find. ASSUME NEW w \in Workers, FindRow(w) PROVE TypeInv'
  <2>1. pc[w] \in NamesInvoice /\ "record" \in Labels
    BY <1>find DEF FindRow, Labels, NamesInvoice
  <2>2. Invoice(w) \in Invoices
    BY <2>1, <1>named
  <2>3. seen' \in [Workers -> RowStates \cup {"none"}]
    BY <1>find, <2>2 DEF FindRow, TypeOK
  <2>4. pc' \in [Workers -> Labels] /\ InvoiceNamed'
    BY <1>find, <2>1, <2>2, GotoKeeps DEF FindRow
  <2> QED BY <1>find, <2>3, <2>4 DEF FindRow, TypeOK, ledger, world
<1>record. ASSUME NEW w \in Workers, RecordFailure(w) PROVE TypeInv'
  <2> DEFINE i == Invoice(w)
  <2>1. PICK arm \in BOOLEAN :
          failures' = [failures EXCEPT ![i] = RecordedRow(seen[w], failures[i], Event(w), arm)]
    BY <1>record DEF RecordFailure
  <2>2. i \in Invoices /\ "gate" \in Labels
    BY <1>record, <1>named DEF RecordFailure, NamesInvoice, Labels
  <2>3. RecordedRow(seen[w], failures[i], Event(w), arm) \in
          [state : RowStates \cup {"none"}, holdout : BOOLEAN,
           sub : Subs \cup {NoSub}, amount : Nat, recovered : Nat]
    <3> DEFINE b == Event(w)
    <3>1. b.sub \in Subs \cup {NoSub} /\ b.amount \in Nat
      BY BodyFields DEF Event, TypeOK
    <3>2. Inserted(b, arm) \in
            [state : RowStates \cup {"none"}, holdout : BOOLEAN,
             sub : Subs \cup {NoSub}, amount : Nat, recovered : Nat]
      BY <3>1 DEF Inserted, RowStates, OpenStates
    <3>3. Updated(seen[w], failures[i], b) \in
            [state : RowStates \cup {"none"}, holdout : BOOLEAN,
             sub : Subs \cup {NoSub}, amount : Nat, recovered : Nat]
      <4> DEFINE amount == IF seen[w] \in TerminalStates THEN failures[i].amount ELSE b.amount
      <4>1. failures[i] \in [state : RowStates \cup {"none"}, holdout : BOOLEAN,
                             sub : Subs \cup {NoSub}, amount : Nat, recovered : Nat]
        BY <2>2 DEF TypeOK
      <4>2. Learn(b.sub, failures[i].sub) \in Subs \cup {NoSub} /\ amount \in Nat
        BY <3>1, <4>1 DEF Learn
      <4> QED BY <4>1, <4>2 DEF Updated
    <3> QED BY <3>2, <3>3 DEF RecordedRow
  <2>4. failures' \in [Invoices -> [state : RowStates \cup {"none"}, holdout : BOOLEAN,
                                    sub : Subs \cup {NoSub}, amount : Nat, recovered : Nat]]
    BY <2>1, <2>2, <2>3 DEF TypeOK
  <2>5. pc' \in [Workers -> Labels] /\ InvoiceNamed'
    BY <1>record, <2>2, GotoKeeps DEF RecordFailure
  <2> QED BY <1>record, <2>4, <2>5 DEF RecordFailure, TypeOK, world
<1>conflict. ASSUME NEW w \in Workers, RecordConflict(w) PROVE TypeInv'
  BY <1>conflict, RaiseKeeps DEF RecordConflict, TypeOK, ledger, world
<1>gate. ASSUME NEW w \in Workers, Gate(w) PROVE TypeInv'
  <2>1. pc[w] \in NamesInvoice /\ "cap" \in Labels
    BY <1>gate DEF Gate, Labels, NamesInvoice
  <2>2. Return(w) \/ (Goto(w, "cap") /\ UNCHANGED applied)
    BY <1>gate DEF Gate
  <2> QED BY <1>gate, <2>1, <2>2, ReadKeeps DEF Gate, TypeOK, ledger
<1>cap. ASSUME NEW w \in Workers, CheckCap(w) PROVE TypeInv'
  <2>1. pc[w] \in NamesInvoice /\ "cooldown" \in Labels
    BY <1>cap DEF CheckCap, Labels, NamesInvoice
  <2>2. Return(w) \/ (Goto(w, "cooldown") /\ UNCHANGED applied)
    BY <1>cap DEF CheckCap
  <2> QED BY <1>cap, <2>1, <2>2, ReadKeeps DEF CheckCap, TypeOK, ledger
<1>cool. ASSUME NEW w \in Workers, CheckCooldown(w) PROVE TypeInv'
  <2>1. pc[w] \in NamesInvoice /\ "send" \in Labels
    BY <1>cool DEF CheckCooldown, Labels, NamesInvoice
  <2>2. Return(w) \/ (Goto(w, "send") /\ UNCHANGED applied)
    BY <1>cool DEF CheckCooldown
  <2> QED BY <1>cool, <2>1, <2>2, ReadKeeps DEF CheckCooldown, TypeOK, ledger
<1>refuse. ASSUME NEW w \in Workers, Refuse(w) PROVE TypeInv'
  BY <1>refuse, ReturnKeeps DEF Refuse, TypeOK, ledger
<1>mail. ASSUME NEW w \in Workers, pc[w] = "send", MailLeaves(Invoice(w))
         PROVE  mailed' \in [Invoices -> Seq(0..MaxClock)]
  <2> DEFINE i == Invoice(w)
  <2>1. i \in Invoices /\ mailed[i] \in Seq(0..MaxClock) /\ clock \in 0..MaxClock
    BY <1>mail, <1>named DEF NamesInvoice, TypeOK
  <2>2. Append(mailed[i], clock) \in Seq(0..MaxClock)
    BY <2>1, AppendProperties
  <2> QED BY <1>mail, <2>1, <2>2 DEF MailLeaves, TypeOK
<1>post. ASSUME NEW w \in Workers, Post(w) PROVE TypeInv'
  <2>1. Invoice(w) \in Invoices /\ "log" \in Labels
    BY <1>post, <1>named DEF Post, NamesInvoice, Labels
  <2>2. pc' \in [Workers -> Labels] /\ InvoiceNamed'
    BY <1>post, <2>1, GotoKeeps DEF Post
  <2>3. mailed' \in [Invoices -> Seq(0..MaxClock)]
    BY <1>post, <1>mail DEF Post
  <2> QED BY <1>post, <2>2, <2>3 DEF Post, TypeOK, ledger
<1>lost. ASSUME NEW w \in Workers, PostAnswerLost(w) PROVE TypeInv'
  <2>1. mailed' \in [Invoices -> Seq(0..MaxClock)]
    BY <1>lost, <1>mail DEF PostAnswerLost
  <2>2. TypeOK'
    BY <1>lost, <2>1, LimitsAssumption DEF PostAnswerLost, TypeOK, ledger, workers
  <2>3. InvoiceNamed'
    BY <1>lost DEF PostAnswerLost, InvoiceNamed, Invoice, Event, workers
  <2> QED BY <2>2, <2>3
<1>sent. ASSUME NEW w \in Workers, RecordSent(w) PROVE TypeInv'
  <2>1. Invoice(w) \in Invoices /\ "mark" \in Labels
    BY <1>sent, <1>named DEF RecordSent, NamesInvoice, Labels
  <2>2. messages' \in [Invoices -> [sent : Nat, bounced : Nat, last : Nat]]
    <3>1. messages \in [Invoices -> Counts] /\ clock \in Nat
      BY LimitsAssumption DEF TypeOK, Counts
    <3>2. messages' \in [Invoices -> Counts]
      BY <1>sent, <2>1, <3>1, OneMoreSentType DEF RecordSent
    <3> QED BY <3>2 DEF Counts
  <2>3. todo' \in [Workers -> SUBSET Invoices]
    BY <1>sent, <2>1 DEF RecordSent, TypeOK
  <2>4. pc' \in [Workers -> Labels] /\ InvoiceNamed'
    BY <1>sent, <2>1, GotoKeeps DEF RecordSent
  <2> QED BY <1>sent, <2>2, <2>3, <2>4 DEF RecordSent, TypeOK, world
<1>unsent. ASSUME NEW w \in Workers, RecordSentFails(w) PROVE TypeInv'
  <2>1. Invoice(w) \in Invoices /\ "mark" \in Labels
    BY <1>unsent, <1>named DEF RecordSentFails, NamesInvoice, Labels
  <2>2. unrecorded' \subseteq Invoices /\ todo' \in [Workers -> SUBSET Invoices]
    BY <1>unsent, <2>1 DEF RecordSentFails, TypeOK
  <2>3. pc' \in [Workers -> Labels] /\ InvoiceNamed'
    BY <1>unsent, <2>1, GotoKeeps DEF RecordSentFails
  <2>4. errors' \in 0..MaxErrors
    BY <1>unsent, LimitsAssumption DEF RecordSentFails, TypeOK
  <2> QED BY <1>unsent, <2>2, <2>3, <2>4 DEF RecordSentFails, TypeOK, ledger
<1>lookup. ASSUME NEW w \in Workers, LookUp(w) PROVE TypeInv'
  <2>1. Invoice(w) \in Invoices /\ "mark" \in Labels /\ "mark_early" \in Labels
    BY <1>lookup, <1>named DEF LookUp, NamesInvoice, Labels
  <2>2. todo' \in [Workers -> SUBSET Invoices]
    <3>1. CASE todo' = todo
      BY <3>1 DEF TypeOK
    <3>2. CASE todo' = [todo EXCEPT ![w] = {Invoice(w)}]
      BY <2>1, <3>2 DEF TypeOK
    <3> QED BY <1>lookup, <3>1, <3>2 DEF LookUp
  <2>3. Goto(w, "mark") \/ Goto(w, "mark_early")
    BY <1>lookup DEF LookUp
  <2>4. pc' \in [Workers -> Labels] /\ InvoiceNamed'
    BY <1>lookup, <2>1, <2>3, GotoKeeps DEF LookUp
  <2> QED BY <1>lookup, <2>2, <2>4 DEF LookUp, TypeOK, ledger, world
<1>mark_early. ASSUME NEW w \in Workers, MarkEarlyPaid(w) PROVE TypeInv'
  <2>1. Invoice(w) \in Invoices
    BY <1>mark_early, <1>named DEF MarkEarlyPaid, NamesInvoice
  <2> QED BY <1>mark_early, <2>1, ReturnKeeps DEF MarkEarlyPaid, TypeOK
<1>by_sub. ASSUME NEW w \in Workers, OpenBySub(w) PROVE TypeInv'
  <2>1. OpenOfSub(Event(w).sub) \in SUBSET Invoices
    BY DEF OpenOfSub
  <2>2. todo' \in [Workers -> SUBSET Invoices]
    BY <1>by_sub, <2>1 DEF OpenBySub, TypeOK
  <2>3. Goto(w, "open_by_customer") \/ Goto(w, "mark")
    BY <1>by_sub DEF OpenBySub
  <2>4. {"open_by_customer", "mark"} \subseteq Labels \ NamesInvoice
    BY DEF Labels, NamesInvoice
  <2>5. pc' \in [Workers -> Labels] /\ InvoiceNamed'
    BY <1>by_sub, <2>3, <2>4, GotoKeeps DEF OpenBySub
  <2> QED BY <1>by_sub, <2>2, <2>5 DEF OpenBySub, TypeOK, ledger, world
<1>by_customer. ASSUME NEW w \in Workers, OpenByCustomer(w) PROVE TypeInv'
  <2>1. OpenOfCustomer(Event(w).customer) \in SUBSET Invoices
    BY DEF OpenOfCustomer
  <2>2. todo' \in [Workers -> SUBSET Invoices]
    BY <1>by_customer, <2>1 DEF OpenByCustomer, TypeOK
  <2>3. Return(w) \/ (Goto(w, "mark") /\ UNCHANGED applied)
    BY <1>by_customer DEF OpenByCustomer
  <2>4. "mark" \in Labels \ NamesInvoice
    BY DEF Labels, NamesInvoice
  <2>5. pc' \in [Workers -> Labels] /\ InvoiceNamed' /\ applied' \subseteq Events
    BY <1>by_customer, <2>3, <2>4, GotoKeeps, ReturnKeeps DEF OpenByCustomer, TypeOK
  <2> QED BY <1>by_customer, <2>2, <2>5 DEF OpenByCustomer, TypeOK, ledger
<1>read. ASSUME NEW w \in Workers, ReadState(w) PROVE TypeInv'
  <2>1. PICK i \in todo[w] : /\ row' = [row EXCEPT ![w] = i]
                             /\ seen' = [seen EXCEPT ![w] = failures[i].state]
    BY <1>read DEF ReadState
  <2>2. i \in Invoices
    BY DEF TypeOK
  <2>3. row' \in [Workers -> Invoices \cup {NoInvoice}]
        /\ seen' \in [Workers -> RowStates \cup {"none"}]
    BY <2>1, <2>2 DEF TypeOK
  <2>4. "write" \in Labels \ NamesInvoice
    BY DEF Labels, NamesInvoice
  <2>5. pc' \in [Workers -> Labels] /\ InvoiceNamed'
    BY <1>read, <2>4, GotoKeeps DEF ReadState
  <2> QED BY <1>read, <2>3, <2>5 DEF ReadState, TypeOK, ledger, world
<1>advance. ASSUME NEW w \in Workers, Advance(w), UNCHANGED ev
            PROVE  /\ pc' \in [Workers -> Labels] /\ todo' \in [Workers -> SUBSET Invoices]
                   /\ applied' \subseteq Events /\ InvoiceNamed'
  <2>1. "mark" \in Labels \ NamesInvoice
    BY DEF Labels, NamesInvoice
  <2>2. todo' \in [Workers -> SUBSET Invoices]
    BY <1>advance DEF Advance, TypeOK
  <2>3. Return(w) \/ (Goto(w, "mark") /\ UNCHANGED applied)
    BY <1>advance DEF Advance
  <2> QED BY <1>advance, <2>1, <2>2, <2>3, GotoKeeps, ReturnKeeps DEF TypeOK
<1>write. ASSUME NEW w \in Workers, WriteState(w) PROVE TypeInv'
  <2> DEFINE to == Target(Event(w).type)
  <2>1. to \in RowStates /\ seen[w] \in RowStates
    <3>1. <<seen[w], to>> \in AllowedTransitions
      BY <1>write DEF WriteState, CanTransition
    <3> QED BY <3>1 DEF AllowedTransitions, RowStates, OpenStates, TerminalStates
  <2>2. Event(w).amount \in Nat
    BY BodyFields DEF Event, TypeOK
  <2>3. failures' \in [Invoices -> [state : RowStates \cup {"none"}, holdout : BOOLEAN,
                                    sub : Subs \cup {NoSub}, amount : Nat, recovered : Nat]]
    <3> DEFINE RowType == [state : RowStates \cup {"none"}, holdout : BOOLEAN,
                           sub : Subs \cup {NoSub}, amount : Nat, recovered : Nat]
    <3>1. \A i \in Invoices : Moved(failures[i], to, Event(w)) \in RowType
      <4> SUFFICES ASSUME NEW i \in Invoices
                   PROVE  Moved(failures[i], to, Event(w)) \in RowType
        OBVIOUS
      <4> DEFINE recovered == IF to = "recovered" THEN Event(w).amount ELSE failures[i].recovered
      <4>1. failures[i] \in RowType /\ recovered \in Nat
        BY <2>2 DEF TypeOK
      <4> QED BY <2>1, <4>1 DEF Moved
    <3> QED BY <1>write, <3>1 DEF WriteState, TypeOK
  <2>4. transitions' \in [Invoices -> Seq(RowStates \X RowStates)]
    <3>1. \A i \in Invoices : Append(transitions[i], <<seen[w], to>>) \in Seq(RowStates \X RowStates)
      BY <2>1 DEF TypeOK
    <3> QED BY <1>write, <3>1 DEF WriteState, TypeOK
  <2> QED BY <1>write, <1>advance, <2>3, <2>4 DEF WriteState, TypeOK
<1>there. ASSUME NEW w \in Workers, AlreadyThere(w) PROVE TypeInv'
  BY <1>there, <1>advance DEF AlreadyThere, TypeOK, ledger
<1>illegal. ASSUME NEW w \in Workers, IllegalMove(w) PROVE TypeInv'
  BY <1>illegal, ReturnKeeps, RaiseKeeps DEF IllegalMove, TypeOK, ledger
<1>error. ASSUME NEW w \in Workers, StoreError(w) PROVE TypeInv'
  <2>1. errors' \in 0..MaxErrors
    BY <1>error, LimitsAssumption DEF StoreError, TypeOK
  <2> QED BY <1>error, <2>1, RaiseKeeps DEF StoreError, TypeOK, ledger
<1>idle. ASSUME NEW w \in Workers, Goto(w, "idle"), UNCHANGED ev
         PROVE  pc' \in [Workers -> Labels] /\ InvoiceNamed'
  <2>1. "idle" \in Labels /\ "idle" \notin NamesInvoice
    BY DEF Labels, NamesInvoice
  <2> QED BY <1>idle, <2>1, GotoKeeps
<1>forget. ASSUME NEW w \in Workers, Forget(w) PROVE TypeInv'
  BY <1>forget, <1>idle DEF Forget, TypeOK, world
<1>stays. ASSUME NEW w \in Workers, ForgetFails(w) PROVE TypeInv'
  <2>1. errors' \in 0..MaxErrors /\ unreleased' \subseteq Events
    BY <1>stays, LimitsAssumption DEF ForgetFails, TypeOK
  <2> QED BY <1>stays, <1>idle, <2>1 DEF ForgetFails, TypeOK, ledger
<1>crash. ASSUME NEW w \in Workers, Crash(w) PROVE TypeInv'
  <2>1. pc' \in [Workers -> Labels] /\ InvoiceNamed'
    BY <1>crash DEF Crash, TypeOK, InvoiceNamed, Invoice, Event, Labels, NamesInvoice
  <2>2. crashes' \in 0..MaxCrashes
    BY <1>crash, LimitsAssumption DEF Crash, TypeOK
  <2> QED BY <1>crash, <2>1, <2>2 DEF Crash, TypeOK, ledger
<1>bounce. ASSUME NEW i \in Invoices, Bounce(i) PROVE TypeInv'
  <2>1. messages' \in [Invoices -> [sent : Nat, bounced : Nat, last : Nat]]
    <3>1. messages \in [Invoices -> Counts] /\ messages[i].sent > 0
      BY <1>bounce DEF Bounce, TypeOK, Counts
    <3>2. messages' \in [Invoices -> Counts]
      BY <1>bounce, <3>1, TurnedBouncedType DEF Bounce
    <3> QED BY <3>2 DEF Counts
  <2> QED BY <1>bounce, <2>1 DEF Bounce, TypeOK, InvoiceNamed, Invoice, Event, workers, world
<1>tick. ASSUME Tick PROVE TypeInv'
  BY <1>tick, LimitsAssumption DEF Tick, TypeOK, InvoiceNamed, Invoice, Event, ledger, workers
<1>stutter. ASSUME UNCHANGED vars PROVE TypeInv'
  BY <1>stutter DEF vars, ledger, workers, world, TypeOK, InvoiceNamed, Invoice, Event
<1> QED
  BY <1>deliver, <1>replay, <1>unhandled, <1>reply, <1>early, <1>find, <1>record, <1>conflict,
     <1>gate, <1>cap, <1>cool, <1>refuse, <1>post, <1>lost, <1>sent, <1>unsent, <1>lookup,
     <1>mark_early, <1>by_sub, <1>by_customer, <1>read, <1>write, <1>there, <1>illegal,
     <1>error, <1>forget, <1>stays, <1>crash, <1>bounce, <1>tick, <1>stutter
  DEF Next, Step, StoreFailure, Fault, Receive

\* Every variable of the loop keeps its type, whatever the handlers, Stripe and
\* the faults do.
THEOREM TypeCorrect == Spec => []TypeOK
<1>1. TypeInv => TypeOK
  BY DEF TypeInv
<1> QED BY <1>1, TypeInit, TypeStep, PTL DEF Spec

-------------------------------------------------------------------------------
\* The steps that matter to the invariants below are few.  All the others leave
\* the rows, the history, the message rows and the claims alone, start nothing
\* and take no lock.

Holding == {"record", "write"}
Flight == {"cooldown", "send", "log"}

Plain ==
  /\ UNCHANGED <<events, failures, transitions, messages, ev, row, seen>>
  /\ \A v \in Workers : /\ pc'[v] # "idle" => pc[v] # "idle"
                        /\ pc'[v] \in Holding => pc[v] = pc'[v]
                        /\ pc'[v] \in Flight => pc[v] \in Flight

LEMMA PlainMove ==
  ASSUME TypeInv, NEW w \in Workers, NEW l, Goto(w, l), pc[w] # "idle",
         l \notin Holding, l \in Flight => pc[w] \in Flight,
         UNCHANGED <<events, failures, transitions, messages, ev, row, seen>>
  PROVE  Plain
BY DEF Plain, Goto, TypeInv, TypeOK

LEMMA Frame ==
  ASSUME TypeInv, [Next]_vars
  PROVE  \/ Plain
         \/ \E w \in Workers : Forget(w)
         \/ \E w \in Workers, e \in Events : Deliver(w, e)
         \/ \E w \in Workers : \/ FindRow(w) \/ RecordFailure(w) \/ CheckCap(w)
                               \/ RecordSent(w) \/ ReadState(w) \/ WriteState(w)
         \/ \E i \in Invoices : Bounce(i)
<1>replay. ASSUME NEW w \in Workers, NEW e \in Events, Replay(w, e) PROVE Plain
  BY <1>replay DEF Replay, Plain, ledger, workers
<1>unhandled. ASSUME NEW w \in Workers, Unhandled(w) PROVE Plain
  BY <1>unhandled, PlainMove DEF Unhandled, Return, ledger, Holding, Flight
<1>reply. ASSUME NEW w \in Workers, Reply(w) PROVE Plain
  BY <1>reply, PlainMove DEF Reply, ledger, Holding, Flight
<1>early. ASSUME NEW w \in Workers, CheckEarly(w) PROVE Plain
  BY <1>early, PlainMove DEF CheckEarly, Return, ledger, Holding, Flight
<1>conflict. ASSUME NEW w \in Workers, RecordConflict(w) PROVE Plain
  BY <1>conflict, PlainMove DEF RecordConflict, Raise, ledger, Holding, Flight
<1>gate. ASSUME NEW w \in Workers, Gate(w) PROVE Plain
  BY <1>gate, PlainMove DEF Gate, Return, ledger, Holding, Flight
<1>cool. ASSUME NEW w \in Workers, CheckCooldown(w) PROVE Plain
  BY <1>cool, PlainMove DEF CheckCooldown, Return, ledger, Holding, Flight
<1>refuse. ASSUME NEW w \in Workers, Refuse(w) PROVE Plain
  BY <1>refuse, PlainMove DEF Refuse, Return, ledger, Holding, Flight
<1>post. ASSUME NEW w \in Workers, Post(w) PROVE Plain
  BY <1>post, PlainMove DEF Post, ledger, Holding, Flight
<1>lost. ASSUME NEW w \in Workers, PostAnswerLost(w) PROVE Plain
  BY <1>lost DEF PostAnswerLost, Plain, ledger, workers
<1>unsent. ASSUME NEW w \in Workers, RecordSentFails(w) PROVE Plain
  BY <1>unsent, PlainMove DEF RecordSentFails, ledger, Holding, Flight
<1>lookup. ASSUME NEW w \in Workers, LookUp(w) PROVE Plain
  <2>1. Goto(w, "mark") \/ Goto(w, "mark_early")
    BY <1>lookup DEF LookUp
  <2> QED BY <1>lookup, <2>1, PlainMove DEF LookUp, ledger, Holding, Flight
<1>mark_early. ASSUME NEW w \in Workers, MarkEarlyPaid(w) PROVE Plain
  BY <1>mark_early, PlainMove DEF MarkEarlyPaid, Return, Holding, Flight
<1>by_sub. ASSUME NEW w \in Workers, OpenBySub(w) PROVE Plain
  <2>1. Goto(w, "mark") \/ Goto(w, "open_by_customer")
    BY <1>by_sub DEF OpenBySub
  <2> QED BY <1>by_sub, <2>1, PlainMove DEF OpenBySub, ledger, Holding, Flight
<1>by_customer. ASSUME NEW w \in Workers, OpenByCustomer(w) PROVE Plain
  <2>1. Goto(w, "mark") \/ Goto(w, "reply")
    BY <1>by_customer DEF OpenByCustomer, Return
  <2> QED BY <1>by_customer, <2>1, PlainMove DEF OpenByCustomer, ledger, Holding, Flight
<1>there. ASSUME NEW w \in Workers, AlreadyThere(w) PROVE Plain
  <2>1. Goto(w, "mark") \/ Goto(w, "reply")
    BY <1>there DEF AlreadyThere, Advance, Return
  <2> QED BY <1>there, <2>1, PlainMove DEF AlreadyThere, ledger, Holding, Flight
<1>illegal. ASSUME NEW w \in Workers, IllegalMove(w) PROVE Plain
  <2>1. Goto(w, "reply") \/ Goto(w, "forget")
    BY <1>illegal DEF IllegalMove, Return, Raise
  <2> QED BY <1>illegal, <2>1, PlainMove DEF IllegalMove, ledger, Holding, Flight
<1>error. ASSUME NEW w \in Workers, StoreError(w) PROVE Plain
  BY <1>error, PlainMove DEF StoreError, Raise, ledger, Holding, Flight
<1>stays. ASSUME NEW w \in Workers, ForgetFails(w) PROVE Plain
  BY <1>stays, PlainMove DEF ForgetFails, ledger, Holding, Flight
<1>crash. ASSUME NEW w \in Workers, Crash(w) PROVE Plain
  BY <1>crash DEF Crash, Plain, ledger, Holding, Flight
<1>tick. ASSUME Tick PROVE Plain
  BY <1>tick DEF Tick, Plain, ledger, workers
<1>stutter. ASSUME UNCHANGED vars PROVE Plain
  BY <1>stutter DEF vars, ledger, workers, Plain
<1> QED
  BY <1>replay, <1>unhandled, <1>reply, <1>early, <1>conflict, <1>gate, <1>cool, <1>refuse,
     <1>post, <1>lost, <1>unsent, <1>lookup, <1>mark_early, <1>by_sub, <1>by_customer,
     <1>there, <1>illegal, <1>error, <1>stays, <1>crash, <1>tick, <1>stutter
  DEF Next, Step, StoreFailure, Fault, Receive

-------------------------------------------------------------------------------
\* One handler per event: a running handler owns the claim of its event.

ClaimInv ==
  /\ OneHandlerPerEvent
  /\ \A w \in Workers : pc[w] # "idle" => ev[w] \in events

LEMMA ClaimStep == TypeInv /\ ClaimInv /\ [Next]_vars => ClaimInv'
<1> SUFFICES ASSUME TypeInv, ClaimInv, [Next]_vars PROVE ClaimInv' OBVIOUS
<1> USE DEF ClaimInv, OneHandlerPerEvent
<1>1. CASE Plain
  BY <1>1 DEF Plain
<1>2. ASSUME NEW w \in Workers, Forget(w) PROVE ClaimInv'
  BY <1>2 DEF Forget, Goto, TypeInv, TypeOK
<1>3. ASSUME NEW w \in Workers, NEW e \in Events, Deliver(w, e) PROVE ClaimInv'
  <2>1. \A v \in Workers \ {w} : pc'[v] = pc[v] /\ ev'[v] = ev[v]
    BY <1>3 DEF Deliver, Goto, TypeInv, TypeOK
  <2>2. ev'[w] = e /\ events' = events \cup {e} /\ e \notin events
    BY <1>3 DEF Deliver, TypeInv, TypeOK
  <2> QED BY <2>1, <2>2
<1>4. ASSUME NEW w \in Workers,
             FindRow(w) \/ RecordFailure(w) \/ CheckCap(w) \/ RecordSent(w)
               \/ ReadState(w) \/ WriteState(w)
      PROVE  ClaimInv'
  <2>1. UNCHANGED <<events, ev>> /\ pc[w] # "idle"
    BY <1>4 DEF FindRow, RecordFailure, CheckCap, RecordSent, ReadState, WriteState, ledger
  <2>2. PICK l : Goto(w, l)
    BY <1>4 DEF FindRow, RecordFailure, CheckCap, RecordSent, ReadState, WriteState, Advance,
       Return
  <2>3. \A v \in Workers \ {w} : pc'[v] = pc[v]
    BY <2>2 DEF Goto, TypeInv, TypeOK
  <2> QED BY <2>1, <2>3
<1>5. ASSUME NEW i \in Invoices, Bounce(i) PROVE ClaimInv'
  BY <1>5 DEF Bounce, workers
<1> QED BY <1>1, <1>2, <1>3, <1>4, <1>5, Frame

\* However often Stripe redelivers an event, and whichever process dies, two
\* handlers never run for it at once.
THEOREM OneHandler == Spec => []OneHandlerPerEvent
<1>1. Init => ClaimInv
  BY DEF Init, ClaimInv, OneHandlerPerEvent
<1>2. ClaimInv => OneHandlerPerEvent
  BY DEF ClaimInv
<1> QED BY <1>1, <1>2, TypeInit, TypeStep, ClaimStep, PTL DEF Spec

-------------------------------------------------------------------------------
\* The touch cap.  A handler past the cap check is a mail to come, so what the
\* check bounds is the recorded mails and the mails to come together.

InFlight(i) == {w \in Workers : pc[w] \in Flight /\ Invoice(w) = i}

TouchInv ==
  \A i \in Invoices :
    SentMessageCount(i) + Cardinality(InFlight(i)) <= MaxTouches + Cardinality(Workers) - 1

LEMMA InFlightFinite ==
  \A i : /\ IsFiniteSet(InFlight(i)) /\ Cardinality(InFlight(i)) \in Nat
         /\ Cardinality(InFlight(i)) <= Cardinality(Workers)
<1> SUFFICES ASSUME NEW i
             PROVE  /\ IsFiniteSet(InFlight(i)) /\ Cardinality(InFlight(i)) \in Nat
                    /\ Cardinality(InFlight(i)) <= Cardinality(Workers)
  OBVIOUS
<1>1. InFlight(i) \subseteq Workers
  BY DEF InFlight
<1> QED BY <1>1, WorkersAssumption, FS_Subset, FS_CardinalityType

LEMMA WorkersCount == Cardinality(Workers) \in Nat /\ Cardinality(Workers) > 0
BY WorkersAssumption, FS_CardinalityType, FS_EmptySet

LEMMA SentCountNat ==
  ASSUME TypeOK, NEW i \in Invoices
  PROVE  SentMessageCount(i) \in Nat
<1>1. messages[i] \in Counts
  BY DEF TypeOK, Counts
<1> QED BY <1>1 DEF SentMessageCount, Counts

\* The invariant only improves when no mail is recorded and none is started.
LEMMA TouchMonotone ==
  ASSUME TypeInv, TypeInv', TouchInv,
         \A i \in Invoices : SentMessageCount(i)' = SentMessageCount(i)
                               /\ InFlight(i)' \subseteq InFlight(i)
  PROVE  TouchInv'
<1> SUFFICES ASSUME NEW i \in Invoices
             PROVE  SentMessageCount(i)' + Cardinality(InFlight(i)')
                      <= MaxTouches + Cardinality(Workers) - 1
  BY DEF TouchInv
<1>1. Cardinality(InFlight(i)') \in Nat
      /\ Cardinality(InFlight(i)') <= Cardinality(InFlight(i))
  BY InFlightFinite, FS_Subset, FS_CardinalityType
<1>2. SentMessageCount(i) \in Nat
  BY SentCountNat DEF TypeInv
<1>3. SentMessageCount(i) + Cardinality(InFlight(i)) <= MaxTouches + Cardinality(Workers) - 1
  BY DEF TouchInv
<1> QED BY <1>1, <1>2, <1>3, InFlightFinite, WorkersCount, LimitsAssumption

LEMMA TouchStep == TypeInv /\ TypeInv' /\ TouchInv /\ [Next]_vars => TouchInv'
<1> SUFFICES ASSUME TypeInv, TypeInv', TouchInv, [Next]_vars PROVE TouchInv' OBVIOUS
<1>1. CASE Plain
  <2>1. \A i \in Invoices : SentMessageCount(i)' = SentMessageCount(i)
                              /\ InFlight(i)' \subseteq InFlight(i)
    BY <1>1 DEF Plain, SentMessageCount, InFlight, Invoice, Event
  <2> QED BY <2>1, TouchMonotone
<1>2. ASSUME NEW w \in Workers, Forget(w) PROVE TouchInv'
  <2>1. \A i \in Invoices : SentMessageCount(i)' = SentMessageCount(i)
                              /\ InFlight(i)' \subseteq InFlight(i)
    BY <1>2 DEF Forget, Goto, TypeInv, TypeOK, SentMessageCount, InFlight, Flight,
       Invoice, Event
  <2> QED BY <2>1, TouchMonotone
<1>3. ASSUME NEW w \in Workers, NEW e \in Events, Deliver(w, e) PROVE TouchInv'
  <2>1. FirstCall(Body[e]) \notin Flight
    BY DEF FirstCall, Flight
  <2>2. \A i \in Invoices : SentMessageCount(i)' = SentMessageCount(i)
                              /\ InFlight(i)' \subseteq InFlight(i)
    BY <1>3, <2>1 DEF Deliver, Goto, TypeInv, TypeOK, SentMessageCount, InFlight, Invoice, Event
  <2> QED BY <2>2, TouchMonotone
<1>4. ASSUME NEW w \in Workers,
             FindRow(w) \/ RecordFailure(w) \/ ReadState(w) \/ WriteState(w)
      PROVE  TouchInv'
  <2>1. UNCHANGED <<messages, ev>>
    BY <1>4 DEF FindRow, RecordFailure, ReadState, WriteState, ledger
  <2>2. PICK l \in {"record", "gate", "write", "mark", "reply"} : Goto(w, l)
    BY <1>4 DEF FindRow, RecordFailure, ReadState, WriteState, Advance, Return
  <2>3. \A i \in Invoices : SentMessageCount(i)' = SentMessageCount(i)
                              /\ InFlight(i)' \subseteq InFlight(i)
    BY <2>1, <2>2 DEF Goto, TypeInv, TypeOK, SentMessageCount, InFlight, Flight, Invoice, Event
  <2> QED BY <2>3, TouchMonotone
<1>5. ASSUME NEW w \in Workers, CheckCap(w) PROVE TouchInv'
  <2>1. CASE SentMessageCount(Invoice(w)) >= MaxTouches
    <3>1. \A i \in Invoices : SentMessageCount(i)' = SentMessageCount(i)
                                /\ InFlight(i)' \subseteq InFlight(i)
      BY <1>5, <2>1 DEF CheckCap, Return, Goto, TypeInv, TypeOK, ledger, SentMessageCount,
         InFlight, Flight, Invoice, Event
    <3> QED BY <3>1, TouchMonotone
  <2>2. CASE ~(SentMessageCount(Invoice(w)) >= MaxTouches)
    <3> SUFFICES ASSUME NEW i \in Invoices
                 PROVE  SentMessageCount(i)' + Cardinality(InFlight(i)')
                          <= MaxTouches + Cardinality(Workers) - 1
      BY DEF TouchInv
    <3>1. SentMessageCount(i)' = SentMessageCount(i) /\ SentMessageCount(i) \in Nat
      <4>1. messages' = messages
        BY <1>5 DEF CheckCap, ledger
      <4>2. SentMessageCount(i) \in Nat
        BY SentCountNat DEF TypeInv
      <4> QED BY <4>1, <4>2 DEF SentMessageCount
    <3>2. CASE i = Invoice(w)
      <4>1. Cardinality(InFlight(i)') <= Cardinality(Workers)
            /\ Cardinality(InFlight(i)') \in Nat
        <5>1. InFlight(i)' \subseteq Workers
          BY DEF InFlight
        <5> QED BY <5>1, WorkersAssumption, FS_Subset, FS_CardinalityType
      <4>2. SentMessageCount(i) <= MaxTouches - 1
        BY <2>2, <3>1, <3>2, LimitsAssumption
      <4> QED BY <3>1, <4>1, <4>2, WorkersCount, LimitsAssumption
    <3>3. CASE i # Invoice(w)
      <4>1. InFlight(i)' = InFlight(i)
        BY <1>5, <3>3 DEF CheckCap, Return, Goto, TypeInv, TypeOK, InFlight, Flight, Invoice, Event
      <4> QED BY <3>1, <4>1 DEF TouchInv
    <3> QED BY <3>2, <3>3
  <2> QED BY <2>1, <2>2
<1>6. ASSUME NEW w \in Workers, RecordSent(w) PROVE TouchInv'
  <2> SUFFICES ASSUME NEW i \in Invoices
               PROVE  SentMessageCount(i)' + Cardinality(InFlight(i)')
                        <= MaxTouches + Cardinality(Workers) - 1
    BY DEF TouchInv
  <2>1. CASE i = Invoice(w)
    <3>1. SentMessageCount(i)' = SentMessageCount(i) + 1 /\ SentMessageCount(i) \in Nat
      <4>1. messages \in [Invoices -> Counts]
        BY DEF TypeInv, TypeOK, Counts
      <4>2. messages'[i] = OneMoreSent(messages[i])
        BY <1>6, <2>1, <4>1 DEF RecordSent
      <4>3. messages[i] \in Counts
        BY <4>1
      <4> QED BY <4>2, <4>3 DEF OneMoreSent, SentMessageCount, Counts
    <3>2. InFlight(i)' = InFlight(i) \ {w} /\ w \in InFlight(i)
      BY <1>6, <2>1 DEF RecordSent, Goto, TypeInv, TypeOK, InFlight, Flight, Invoice, Event
    <3>3. Cardinality(InFlight(i)') = Cardinality(InFlight(i)) - 1
      BY <3>2, InFlightFinite, FS_RemoveElement
    <3> QED BY <3>1, <3>3, InFlightFinite, WorkersCount, LimitsAssumption DEF TouchInv
  <2>2. CASE i # Invoice(w)
    <3>1. SentMessageCount(i)' = SentMessageCount(i)
      BY <1>6, <2>2 DEF RecordSent, SentMessageCount, TypeInv, TypeOK
    <3>2. InFlight(i)' = InFlight(i)
      BY <1>6, <2>2 DEF RecordSent, Goto, TypeInv, TypeOK, InFlight, Flight, Invoice, Event
    <3> QED BY <3>1, <3>2 DEF TouchInv
  <2> QED BY <2>1, <2>2
<1>7. ASSUME NEW j \in Invoices, Bounce(j) PROVE TouchInv'
  <2>1. \A i \in Invoices : SentMessageCount(i)' = SentMessageCount(i)
    BY <1>7 DEF Bounce, TurnedBounced, SentMessageCount, TypeInv, TypeOK
  <2>2. \A i \in Invoices : InFlight(i)' \subseteq InFlight(i)
    BY <1>7 DEF Bounce, workers, InFlight, Invoice, Event
  <2> QED BY <2>1, <2>2, TouchMonotone
<1> QED BY <1>1, <1>2, <1>3, <1>4, <1>5, <1>6, <1>7, Frame

LEMMA TouchInit == Init => TouchInv
<1> SUFFICES ASSUME Init, NEW i \in Invoices
             PROVE  SentMessageCount(i) + Cardinality(InFlight(i))
                      <= MaxTouches + Cardinality(Workers) - 1
  BY DEF TouchInv
<1>1. SentMessageCount(i) = 0
  BY DEF Init, SentMessageCount
<1>2. InFlight(i) = {}
  BY DEF Init, InFlight, Flight
<1> QED BY <1>1, <1>2, FS_EmptySet, WorkersCount, LimitsAssumption

\* The sequence cap: MaxTouches mails are recorded for an invoice, and one more
\* for each further handler that was past the check at the same time.
THEOREM TouchCapHolds == Spec => []TouchCap
<1>1. TypeInv /\ TouchInv => TouchCap
  <2> SUFFICES ASSUME TypeInv, TouchInv, NEW i \in Invoices
               PROVE  SentMessageCount(i) <= MaxTouches + Cardinality(Workers) - 1
    BY DEF TouchCap
  <2>1. SentMessageCount(i) \in Nat
    BY SentCountNat DEF TypeInv
  <2> QED BY <2>1, InFlightFinite, WorkersCount, LimitsAssumption DEF TouchInv
<1> QED BY <1>1, TouchInit, TypeInit, TypeStep, TouchStep, PTL DEF Spec

-------------------------------------------------------------------------------
\* Closed rows.  Under one Database.lock, or with one worker, what a worker read
\* under the lock is still true when it writes.

Serial == SharedLock \/ \A v, w \in Workers : v = w

LockInv ==
  /\ \A v, w \in Workers : pc[v] \in Holding /\ pc[w] \in Holding => v = w
  /\ \A w \in Workers :
       /\ pc[w] = "record" => seen[w] = failures[Invoice(w)].state
       /\ pc[w] = "write" => row[w] \in Invoices /\ seen[w] = failures[row[w]].state

LEMMA LockStep ==
  ASSUME Serial, TypeInv, LockInv, [Next]_vars
  PROVE  LockInv'
<1> USE DEF Holding
<1>1. CASE Plain
  BY <1>1 DEF Plain, LockInv, Invoice, Event
<1>2. ASSUME NEW w \in Workers, Forget(w) PROVE LockInv'
  <2>1. UNCHANGED <<failures, ev, row, seen>>
    BY <1>2 DEF Forget
  <2>2. pc'[w] = "idle" /\ \A v \in Workers \ {w} : pc'[v] = pc[v]
    BY <1>2 DEF Forget, Goto, TypeInv, TypeOK
  <2> QED BY <2>1, <2>2 DEF LockInv, Invoice, Event
<1>3. ASSUME NEW w \in Workers, NEW e \in Events, Deliver(w, e) PROVE LockInv'
  <2>1. UNCHANGED <<failures, row, seen>>
    BY <1>3 DEF Deliver
  <2>2. \A v \in Workers \ {w} : pc'[v] = pc[v] /\ ev'[v] = ev[v]
    BY <1>3 DEF Deliver, Goto, TypeInv, TypeOK
  <2>3. pc'[w] \notin Holding
    BY <1>3 DEF Deliver, Goto, TypeInv, TypeOK, FirstCall
  <2> QED BY <2>1, <2>2, <2>3 DEF LockInv, Invoice, Event
<1>4. ASSUME NEW w \in Workers, FindRow(w) PROVE LockInv'
  <2>1. \A v \in Workers \ {w} : pc[v] \notin Holding
    BY <1>4 DEF FindRow, LockFree, Serial
  <2>2. UNCHANGED <<failures, ev, row>> /\ pc'[w] = "record"
        /\ seen'[w] = failures[Invoice(w)].state
    BY <1>4 DEF FindRow, Goto, TypeInv, TypeOK, ledger
  <2>3. \A v \in Workers \ {w} : pc'[v] = pc[v]
    BY <1>4 DEF FindRow, Goto, TypeInv, TypeOK
  <2> QED BY <2>1, <2>2, <2>3 DEF LockInv, Invoice, Event
<1>5. ASSUME NEW w \in Workers, ReadState(w) PROVE LockInv'
  <2>1. \A v \in Workers \ {w} : pc[v] \notin Holding
    BY <1>5 DEF ReadState, LockFree, Serial
  <2>2. PICK i \in todo[w] : /\ row' = [row EXCEPT ![w] = i]
                             /\ seen' = [seen EXCEPT ![w] = failures[i].state]
    BY <1>5 DEF ReadState
  <2>3. i \in Invoices
    BY DEF TypeInv, TypeOK
  <2>4. UNCHANGED <<failures, ev>> /\ pc'[w] = "write"
        /\ row'[w] = i /\ seen'[w] = failures[i].state
    BY <1>5, <2>2 DEF ReadState, Goto, TypeInv, TypeOK, ledger
  <2>5. \A v \in Workers \ {w} : pc'[v] = pc[v]
    BY <1>5 DEF ReadState, Goto, TypeInv, TypeOK
  <2> QED BY <2>1, <2>3, <2>4, <2>5 DEF LockInv, Invoice, Event
\* A write ends the lock: nobody holds it in the next state.
<1>6. ASSUME NEW w \in Workers, RecordFailure(w) \/ WriteState(w) PROVE LockInv'
  <2>1. pc[w] \in Holding
    BY <1>6 DEF RecordFailure, WriteState
  <2>2. PICK l \in {"gate", "mark", "reply"} : Goto(w, l)
    BY <1>6 DEF RecordFailure, WriteState, Advance, Return
  <2>3. \A v \in Workers : pc'[v] \notin Holding
    BY <2>1, <2>2 DEF LockInv, Goto, TypeInv, TypeOK
  <2> QED BY <2>3 DEF LockInv
<1>7. ASSUME NEW w \in Workers, CheckCap(w) \/ RecordSent(w) PROVE LockInv'
  <2>1. UNCHANGED <<failures, ev, row, seen>>
    BY <1>7 DEF CheckCap, RecordSent, ledger
  <2>2. PICK l \in {"cooldown", "mark", "reply"} : Goto(w, l)
    BY <1>7 DEF CheckCap, RecordSent, Return
  <2>3. \A v \in Workers : pc'[v] \in Holding => pc'[v] = pc[v]
    BY <2>2 DEF Goto, TypeInv, TypeOK
  <2> QED BY <2>1, <2>3 DEF LockInv, Invoice, Event
<1>8. ASSUME NEW i \in Invoices, Bounce(i) PROVE LockInv'
  BY <1>8 DEF Bounce, workers, LockInv, Invoice, Event
<1> QED BY <1>1, <1>2, <1>3, <1>4, <1>5, <1>6, <1>7, <1>8, Frame

LEMMA LockInit == Init => LockInv
BY DEF Init, LockInv, Holding

\* Which rows a step rewrites.
LEMMA RowsChange ==
  ASSUME TypeInv, [Next]_vars, failures' # failures
  PROVE  \E w \in Workers : RecordFailure(w) \/ WriteState(w)
<1>1. ASSUME NEW w \in Workers, NEW e \in Events, Deliver(w, e) PROVE failures' = failures
  BY <1>1 DEF Deliver
<1>2. ASSUME NEW w \in Workers, FindRow(w) \/ CheckCap(w) \/ RecordSent(w) \/ ReadState(w)
      PROVE  failures' = failures
  BY <1>2 DEF FindRow, CheckCap, RecordSent, ReadState, ledger
<1>3. ASSUME NEW i \in Invoices, Bounce(i) PROVE failures' = failures
  BY <1>3 DEF Bounce
<1> QED BY <1>1, <1>2, <1>3, Frame DEF Plain, Forget

\* What record_failure does to each row.
LEMMA RecordRow ==
  ASSUME TypeInv, LockInv, NEW w \in Workers, RecordFailure(w), NEW i \in Invoices
  PROVE  \/ failures[i].state = "none" /\ failures'[i].state = "failed" /\ i = Invoice(w)
         \/ /\ failures'[i].state = failures[i].state
            /\ failures'[i].holdout = failures[i].holdout
            /\ failures'[i].recovered = failures[i].recovered
            /\ failures[i].state \in TerminalStates => failures'[i].amount = failures[i].amount
<1>1. PICK arm \in BOOLEAN :
        failures' = [failures EXCEPT ![Invoice(w)] =
                       RecordedRow(seen[w], failures[Invoice(w)], Event(w), arm)]
  BY DEF RecordFailure
<1>2. CASE i # Invoice(w)
  BY <1>1, <1>2 DEF TypeInv, TypeOK
<1>3. CASE i = Invoice(w)
  <2>1. seen[w] = failures[i].state
    BY <1>3 DEF RecordFailure, LockInv
  <2>2. failures'[i] = RecordedRow(failures[i].state, failures[i], Event(w), arm)
    BY <1>1, <1>3, <2>1 DEF TypeInv, TypeOK
  <2>3. CASE failures[i].state = "none"
    BY <1>3, <2>2, <2>3 DEF RecordedRow, Inserted
  <2>4. CASE failures[i].state # "none"
    <3>1. failures'[i] = Updated(failures[i].state, failures[i], Event(w))
      BY <2>2, <2>4 DEF RecordedRow
    <3>2. failures[i] \in [state : RowStates \cup {"none"}, holdout : BOOLEAN,
                           sub : Subs \cup {NoSub}, amount : Nat, recovered : Nat]
      BY DEF TypeInv, TypeOK
    <3> QED BY <3>1, <3>2 DEF Updated
  <2> QED BY <2>3, <2>4
<1> QED BY <1>2, <1>3

\* What transition does to each row.
LEMMA WriteRow ==
  ASSUME TypeInv, LockInv, NEW w \in Workers, WriteState(w), NEW i \in Invoices
  PROVE  \/ failures'[i] = failures[i] /\ i # row[w]
         \/ /\ i = row[w] /\ failures'[i].holdout = failures[i].holdout
            /\ <<failures[i].state, failures'[i].state>> \in AllowedTransitions
            /\ failures'[i].state = Target(Event(w).type) /\ seen[w] = failures[i].state
<1> DEFINE to == Target(Event(w).type)
<1>1. CASE i # row[w]
  BY <1>1 DEF WriteState, TypeInv, TypeOK
<1>2. CASE i = row[w]
  <2>1. failures'[i] = Moved(failures[i], to, Event(w))
    BY <1>2 DEF WriteState, TypeInv, TypeOK
  <2>2. failures[i] \in [state : RowStates \cup {"none"}, holdout : BOOLEAN,
                         sub : Subs \cup {NoSub}, amount : Nat, recovered : Nat]
    BY DEF TypeInv, TypeOK
  <2>3. failures'[i].state = to /\ failures'[i].holdout = failures[i].holdout
    BY <2>1, <2>2 DEF Moved
  <2>4. <<seen[w], to>> \in AllowedTransitions /\ seen[w] = failures[i].state
    BY <1>2 DEF WriteState, CanTransition, LockInv
  <2> QED BY <1>2, <2>3, <2>4
<1> QED BY <1>1, <1>2

\* No move leaves a closed state, and none leaves or reaches "none".
LEMMA MovesAreOpen ==
  \A from, to : <<from, to>> \in AllowedTransitions =>
    from \in OpenStates /\ to \in RowStates
BY DEF AllowedTransitions, OpenStates, RowStates, TerminalStates

LEMMA OpenIsNotClosed == OpenStates \cap TerminalStates = {} /\ "none" \notin RowStates
BY DEF OpenStates, TerminalStates, RowStates

\* A closed row is closed for good, amounts included, as long as the writers
\* share Database.lock (or there is only one).
THEOREM TerminalHolds == Serial => (Spec => TerminalIsFinal)
<1> SUFFICES ASSUME Serial PROVE Spec => TerminalIsFinal
  OBVIOUS
<1>1. ASSUME TypeInv, LockInv, [Next]_vars
      PROVE  [\A i \in Invoices : failures[i].state \in TerminalStates =>
                /\ failures'[i].state = failures[i].state
                /\ failures'[i].amount = failures[i].amount
                /\ failures'[i].recovered = failures[i].recovered]_failures
  <2> SUFFICES ASSUME failures' # failures, NEW i \in Invoices,
                      failures[i].state \in TerminalStates
               PROVE  /\ failures'[i].state = failures[i].state
                      /\ failures'[i].amount = failures[i].amount
                      /\ failures'[i].recovered = failures[i].recovered
    OBVIOUS
  <2>1. PICK w \in Workers : RecordFailure(w) \/ WriteState(w)
    BY <1>1, RowsChange
  <2>2. failures[i].state # "none"
    BY OpenIsNotClosed DEF RowStates
  <2>3. CASE RecordFailure(w)
    BY <1>1, <2>2, <2>3, RecordRow
  <2>4. CASE WriteState(w)
    BY <1>1, <2>4, WriteRow, MovesAreOpen, OpenIsNotClosed
  <2> QED BY <2>1, <2>3, <2>4
<1>2. TypeInv /\ LockInv /\ [Next]_vars => LockInv'
  BY LockStep
<1> QED BY <1>1, <1>2, TypeInit, TypeStep, LockInit, PTL DEF Spec, TerminalIsFinal

-------------------------------------------------------------------------------
\* The history of a row.

LEMMA HistoryInit == Init => HistoryIsPath
BY DEF Init, HistoryIsPath, NoRow

LEMMA HistoryStep ==
  ASSUME TypeInv, LockInv, HistoryIsPath, [Next]_vars
  PROVE  HistoryIsPath'
<1>1. CASE UNCHANGED <<failures, transitions>>
  BY <1>1 DEF HistoryIsPath
<1>2. ASSUME NEW w \in Workers, RecordFailure(w) PROVE HistoryIsPath'
  <2> SUFFICES ASSUME NEW i \in Invoices
               PROVE  \/ failures'[i].state = failures[i].state
                      \/ transitions[i] = <<>> /\ failures'[i].state = "failed"
    BY <1>2 DEF HistoryIsPath, RecordFailure
  <2>1. CASE failures'[i].state = failures[i].state
    BY <2>1
  <2>2. CASE failures[i].state = "none" /\ failures'[i].state = "failed"
    <3> DEFINE h == transitions[i]
    <3>1. h \in Seq(RowStates \X RowStates)
      BY DEF TypeInv, TypeOK
    <3>2. ASSUME h # <<>> PROVE FALSE
      <4>1. Len(h) \in 1..Len(h)
        BY <3>1, <3>2
      <4>2. h[Len(h)][2] \in RowStates
        BY <3>1, <4>1
      <4> QED BY <2>2, <3>2, <4>2, OpenIsNotClosed DEF HistoryIsPath
    <3> QED BY <2>2, <3>2
  <2> QED BY <1>2, <2>1, <2>2, RecordRow
<1>3. ASSUME NEW w \in Workers, WriteState(w) PROVE HistoryIsPath'
  <2> DEFINE j == row[w]
             move == <<seen[w], Target(Event(w).type)>>
  <2>1. \A i \in Invoices \ {j} : transitions'[i] = transitions[i] /\ failures'[i] = failures[i]
    BY <1>3, WriteRow DEF WriteState, TypeInv, TypeOK
  <2>2. j \in Invoices
    BY <1>3 DEF WriteState, LockInv
  <2>3. /\ move \in AllowedTransitions /\ move[1] = failures[j].state
        /\ move[2] = failures'[j].state
    BY <1>3, <2>2, WriteRow
  <2> DEFINE h == transitions[j]
             g == Append(h, move)
  <2>4. transitions'[j] = g
    BY <1>3, <2>2 DEF WriteState, TypeInv, TypeOK
  <2>5. h \in Seq(RowStates \X RowStates) /\ move \in RowStates \X RowStates
    <3>1. seen[w] \in RowStates /\ Target(Event(w).type) \in RowStates
      BY <2>3, MovesAreOpen DEF RowStates
    <3> QED BY <3>1, <2>2 DEF TypeInv, TypeOK
  <2>6. /\ Len(h) \in Nat /\ Len(g) = Len(h) + 1 /\ g # <<>> /\ g[Len(g)] = move
        /\ \A k \in 1..Len(h) : g[k] = h[k]
    <3> HIDE DEF h, move
    <3>1. Len(h) \in Nat
      BY <2>5, LenProperties
    <3>2. /\ Append(h, move) # <<>> /\ Len(Append(h, move)) = Len(h) + 1
          /\ \A k \in 1..Len(h) : Append(h, move)[k] = h[k]
          /\ Append(h, move)[Len(h) + 1] = move
      BY <2>5, AppendProperties
    <3>3. g = Append(h, move)
      OBVIOUS
    <3> HIDE DEF g
    <3> QED BY <3>1, <3>2, <3>3
  <2>7. g[1][1] = "failed"
    <3>1. CASE h = <<>>
      <4>1. failures[j].state = "failed"
        BY <3>1, <2>2, <2>3, MovesAreOpen, OpenIsNotClosed DEF HistoryIsPath, RowStates
      <4>2. Len(h) = 0
        BY <3>1
      <4> QED BY <2>3, <2>6, <4>1, <4>2
    <3>2. CASE h # <<>>
      BY <3>2, <2>2, <2>5, <2>6 DEF HistoryIsPath
    <3> QED BY <3>1, <3>2
  <2>8. \A k \in 1..Len(g) : CanTransition(g[k][1], g[k][2])
    <3> SUFFICES ASSUME NEW k \in 1..Len(g) PROVE CanTransition(g[k][1], g[k][2])
      OBVIOUS
    <3>1. CASE k \in 1..Len(h)
      BY <3>1, <2>2, <2>6 DEF HistoryIsPath
    <3>2. CASE k = Len(g)
      <4>1. <<move[1], move[2]>> = move
        OBVIOUS
      <4> QED BY <2>3, <2>6, <3>2, <4>1 DEF CanTransition
    <3> QED BY <2>6, <3>1, <3>2
  <2>9. \A k \in 1..(Len(g) - 1) : g[k][2] = g[k + 1][1]
    <3> SUFFICES ASSUME NEW k \in 1..(Len(g) - 1) PROVE g[k][2] = g[k + 1][1]
      OBVIOUS
    <3>1. CASE k \in 1..(Len(h) - 1)
      <4>1. k \in 1..Len(h) /\ k + 1 \in 1..Len(h)
        BY <3>1, <2>6
      <4> QED BY <3>1, <4>1, <2>2, <2>6 DEF HistoryIsPath
    <3>2. CASE k = Len(h)
      <4>1. k \in 1..Len(h) /\ k + 1 = Len(g) /\ h # <<>>
        BY <3>2, <2>5, <2>6
      <4>2. h[k][2] = failures[j].state
        BY <3>2, <4>1, <2>2 DEF HistoryIsPath
      <4> QED BY <4>1, <4>2, <2>3, <2>6
    <3> QED BY <2>6, <3>1, <3>2
  <2>10. g[Len(g)][2] = failures'[j].state
    BY <2>3, <2>6
  <2> SUFFICES ASSUME NEW i \in Invoices
               PROVE  LET hh == transitions'[i] IN
                      /\ hh = <<>> => failures'[i].state \in {"none", "failed"}
                      /\ hh # <<>> => hh[1][1] = "failed" /\ hh[Len(hh)][2] = failures'[i].state
                      /\ \A k \in 1..Len(hh) : CanTransition(hh[k][1], hh[k][2])
                      /\ \A k \in 1..(Len(hh) - 1) : hh[k][2] = hh[k + 1][1]
    BY DEF HistoryIsPath
  <2>11. CASE i = j
    <3> HIDE DEF g
    <3> QED BY <2>11, <2>4, <2>6, <2>7, <2>8, <2>9, <2>10
  <2>12. CASE i # j
    BY <2>12, <2>1 DEF HistoryIsPath
  <2> QED BY <2>11, <2>12
<1>4. ASSUME NEW w \in Workers, NEW e \in Events, Deliver(w, e)
      PROVE  UNCHANGED <<failures, transitions>>
  BY <1>4 DEF Deliver
<1>5. ASSUME NEW w \in Workers, FindRow(w) \/ CheckCap(w) \/ RecordSent(w) \/ ReadState(w)
      PROVE  UNCHANGED <<failures, transitions>>
  BY <1>5 DEF FindRow, CheckCap, RecordSent, ReadState, ledger
<1>6. ASSUME NEW i \in Invoices, Bounce(i) PROVE UNCHANGED <<failures, transitions>>
  BY <1>6 DEF Bounce
<1> QED BY <1>1, <1>2, <1>3, <1>4, <1>5, <1>6, Frame DEF Plain, Forget

\* The transitions table tells the whole life of every row, under the same lock.
THEOREM HistoryHolds == Serial => (Spec => []HistoryIsPath)
<1> SUFFICES ASSUME Serial PROVE Spec => []HistoryIsPath
  OBVIOUS
<1>1. TypeInv /\ LockInv /\ [Next]_vars => LockInv'
  BY LockStep
<1>2. TypeInv /\ LockInv /\ HistoryIsPath /\ [Next]_vars => HistoryIsPath'
  BY HistoryStep
<1> QED BY <1>1, <1>2, TypeInit, TypeStep, LockInit, HistoryInit, PTL DEF Spec

-------------------------------------------------------------------------------
\* One worker, which is how the repository deploys the loop.  Between a check
\* and the call it protects nothing else runs, so the check still holds.

Alone == \A v, w \in Workers : v = w

SoloInv ==
  /\ EarlyPaidNeverOpens
  /\ \A w \in Workers :
       LET i == Invoice(w) IN
       /\ pc[w] \in {"find", "record"} => i \notin earlyPaid
       /\ pc[w] = "mark_early" => failures[i].state = "none"
       /\ pc[w] \in {"cap", "cooldown", "send"} => IsOpen(i) /\ ~failures[i].holdout

Watched == {"find", "record", "mark_early", "cap", "cooldown", "send"}

LEMMA SoloMove ==
  ASSUME TypeInv, SoloInv, NEW w \in Workers, NEW l, Goto(w, l),
         l \in Watched => pc[w] \in {"cap", "cooldown"} /\ l \in {"cooldown", "send"},
         UNCHANGED <<failures, earlyPaid, ev>>
  PROVE  SoloInv'
<1>1. \A v \in Workers \ {w} : pc'[v] = pc[v]
  BY DEF Goto, TypeInv, TypeOK
<1>2. pc'[w] = l
  BY DEF Goto, TypeInv, TypeOK
<1> QED BY <1>1, <1>2 DEF SoloInv, EarlyPaidNeverOpens, IsOpen, Invoice, Event, Watched

LEMMA SoloStep ==
  ASSUME Alone, TypeInv, LockInv, SoloInv, [Next]_vars
  PROVE  SoloInv'
<1>deliver. ASSUME NEW w \in Workers, NEW e \in Events, Deliver(w, e) PROVE SoloInv'
  <2>1. FirstCall(Body[e]) \notin Watched
    BY DEF FirstCall, Watched
  <2>2. pc'[w] \notin Watched /\ \A v \in Workers : v = w
    BY <1>deliver, <2>1 DEF Deliver, Goto, TypeInv, TypeOK, Alone
  <2> QED BY <1>deliver, <2>2 DEF Deliver, SoloInv, EarlyPaidNeverOpens, Watched
<1>replay. ASSUME NEW w \in Workers, NEW e \in Events, Replay(w, e) PROVE SoloInv'
  BY <1>replay DEF Replay, ledger, workers, SoloInv, EarlyPaidNeverOpens, IsOpen, Invoice, Event
<1>unhandled. ASSUME NEW w \in Workers, Unhandled(w) PROVE SoloInv'
  BY <1>unhandled, SoloMove DEF Unhandled, Return, ledger, Watched
<1>reply. ASSUME NEW w \in Workers, Reply(w) PROVE SoloInv'
  BY <1>reply, SoloMove DEF Reply, ledger, Watched
<1>early. ASSUME NEW w \in Workers, CheckEarly(w) PROVE SoloInv'
  <2>1. CASE Invoice(w) \in earlyPaid
    BY <1>early, <2>1, SoloMove DEF CheckEarly, Return, ledger, Watched
  <2>2. CASE Invoice(w) \notin earlyPaid
    <3>1. pc'[w] = "find" /\ \A v \in Workers : v = w
      BY <1>early, <2>2 DEF CheckEarly, Goto, TypeInv, TypeOK, Alone
    <3> QED BY <1>early, <2>2, <3>1
            DEF CheckEarly, ledger, SoloInv, EarlyPaidNeverOpens, Invoice, Event
  <2> QED BY <2>1, <2>2
<1>find. ASSUME NEW w \in Workers, FindRow(w) PROVE SoloInv'
  <2>1. pc[w] = "find" /\ pc'[w] = "record" /\ \A v \in Workers : v = w
    BY <1>find DEF FindRow, Goto, TypeInv, TypeOK, Alone
  <2> QED BY <1>find, <2>1 DEF FindRow, ledger, SoloInv, EarlyPaidNeverOpens, Invoice, Event
<1>record. ASSUME NEW w \in Workers, RecordFailure(w) PROVE SoloInv'
  <2>1. pc'[w] = "gate" /\ \A v \in Workers : v = w
    BY <1>record DEF RecordFailure, Goto, TypeInv, TypeOK, Alone
  <2>2. Invoice(w) \notin earlyPaid /\ earlyPaid' = earlyPaid /\ earlyPaid \subseteq Invoices
    BY <1>record DEF RecordFailure, SoloInv, TypeInv, TypeOK
  <2>3. \A i \in earlyPaid : failures'[i].state = "none"
    BY <1>record, <2>2, RecordRow DEF SoloInv, EarlyPaidNeverOpens
  <2> QED BY <2>1, <2>2, <2>3 DEF SoloInv, EarlyPaidNeverOpens
<1>conflict. ASSUME NEW w \in Workers, RecordConflict(w) PROVE SoloInv'
  BY <1>conflict, SoloMove DEF RecordConflict, Raise, ledger, Watched
<1>gate. ASSUME NEW w \in Workers, Gate(w) PROVE SoloInv'
  <2>1. CASE failures[Invoice(w)].holdout \/ ~IsOpen(Invoice(w))
    BY <1>gate, <2>1, SoloMove DEF Gate, Return, ledger, Watched
  <2>2. CASE ~failures[Invoice(w)].holdout /\ IsOpen(Invoice(w))
    <3>1. pc'[w] = "cap" /\ \A v \in Workers : v = w
      BY <1>gate, <2>2 DEF Gate, Goto, TypeInv, TypeOK, Alone
    <3> QED BY <1>gate, <2>2, <3>1
            DEF Gate, ledger, SoloInv, EarlyPaidNeverOpens, IsOpen, Invoice, Event
  <2> QED BY <2>1, <2>2
<1>cap. ASSUME NEW w \in Workers, CheckCap(w) PROVE SoloInv'
  BY <1>cap, SoloMove DEF CheckCap, Return, ledger, Watched
<1>cool. ASSUME NEW w \in Workers, CheckCooldown(w) PROVE SoloInv'
  BY <1>cool, SoloMove DEF CheckCooldown, Return, ledger, Watched
<1>refuse. ASSUME NEW w \in Workers, Refuse(w) PROVE SoloInv'
  BY <1>refuse, SoloMove DEF Refuse, Return, ledger, Watched
<1>post. ASSUME NEW w \in Workers, Post(w) PROVE SoloInv'
  BY <1>post, SoloMove DEF Post, ledger, Watched
<1>lost. ASSUME NEW w \in Workers, PostAnswerLost(w) PROVE SoloInv'
  BY <1>lost DEF PostAnswerLost, ledger, workers, SoloInv, EarlyPaidNeverOpens, IsOpen,
     Invoice, Event
<1>sent. ASSUME NEW w \in Workers, RecordSent(w) PROVE SoloInv'
  BY <1>sent, SoloMove DEF RecordSent, Watched
<1>unsent. ASSUME NEW w \in Workers, RecordSentFails(w) PROVE SoloInv'
  BY <1>unsent, SoloMove DEF RecordSentFails, ledger, Watched
<1>lookup. ASSUME NEW w \in Workers, LookUp(w) PROVE SoloInv'
  <2>1. CASE failures[Invoice(w)].state = "none"
    <3>1. pc'[w] = "mark_early" /\ \A v \in Workers : v = w
      BY <1>lookup, <2>1 DEF LookUp, Goto, TypeInv, TypeOK, Alone
    <3> QED BY <1>lookup, <2>1, <3>1
            DEF LookUp, ledger, SoloInv, EarlyPaidNeverOpens, Invoice, Event
  <2>2. CASE failures[Invoice(w)].state # "none"
    BY <1>lookup, <2>2, SoloMove DEF LookUp, ledger, Watched
  <2> QED BY <2>1, <2>2
<1>mark_early. ASSUME NEW w \in Workers, MarkEarlyPaid(w) PROVE SoloInv'
  <2>1. pc'[w] = "reply" /\ \A v \in Workers : v = w
    BY <1>mark_early DEF MarkEarlyPaid, Return, Goto, TypeInv, TypeOK, Alone
  <2>2. failures[Invoice(w)].state = "none"
    BY <1>mark_early DEF MarkEarlyPaid, SoloInv
  <2> QED BY <1>mark_early, <2>1, <2>2 DEF MarkEarlyPaid, SoloInv, EarlyPaidNeverOpens
<1>by_sub. ASSUME NEW w \in Workers, OpenBySub(w) PROVE SoloInv'
  <2>1. Goto(w, "mark") \/ Goto(w, "open_by_customer")
    BY <1>by_sub DEF OpenBySub
  <2> QED BY <1>by_sub, <2>1, SoloMove DEF OpenBySub, ledger, Watched
<1>by_customer. ASSUME NEW w \in Workers, OpenByCustomer(w) PROVE SoloInv'
  <2>1. Goto(w, "mark") \/ Goto(w, "reply")
    BY <1>by_customer DEF OpenByCustomer, Return
  <2> QED BY <1>by_customer, <2>1, SoloMove DEF OpenByCustomer, ledger, Watched
<1>read. ASSUME NEW w \in Workers, ReadState(w) PROVE SoloInv'
  BY <1>read, SoloMove DEF ReadState, ledger, Watched
<1>write. ASSUME NEW w \in Workers, WriteState(w) PROVE SoloInv'
  <2>1. pc'[w] \in {"mark", "reply"} /\ \A v \in Workers : v = w
    BY <1>write DEF WriteState, Advance, Return, Goto, TypeInv, TypeOK, Alone
  <2>2. earlyPaid' = earlyPaid /\ earlyPaid \subseteq Invoices
    BY <1>write DEF WriteState, TypeInv, TypeOK
  <2>3. "none" \notin OpenStates
    BY DEF OpenStates
  <2>4. \A i \in earlyPaid : failures'[i].state = "none"
    BY <1>write, <2>2, <2>3, WriteRow, MovesAreOpen DEF SoloInv, EarlyPaidNeverOpens
  <2> QED BY <2>1, <2>2, <2>4 DEF SoloInv, EarlyPaidNeverOpens
<1>there. ASSUME NEW w \in Workers, AlreadyThere(w) PROVE SoloInv'
  <2>1. Goto(w, "mark") \/ Goto(w, "reply")
    BY <1>there DEF AlreadyThere, Advance, Return
  <2> QED BY <1>there, <2>1, SoloMove DEF AlreadyThere, ledger, Watched
<1>illegal. ASSUME NEW w \in Workers, IllegalMove(w) PROVE SoloInv'
  <2>1. Goto(w, "reply") \/ Goto(w, "forget")
    BY <1>illegal DEF IllegalMove, Return, Raise
  <2> QED BY <1>illegal, <2>1, SoloMove DEF IllegalMove, ledger, Watched
<1>error. ASSUME NEW w \in Workers, StoreError(w) PROVE SoloInv'
  BY <1>error, SoloMove DEF StoreError, Raise, ledger, Watched
<1>forget. ASSUME NEW w \in Workers, Forget(w) PROVE SoloInv'
  BY <1>forget, SoloMove DEF Forget, Watched
<1>stays. ASSUME NEW w \in Workers, ForgetFails(w) PROVE SoloInv'
  BY <1>stays, SoloMove DEF ForgetFails, ledger, Watched
<1>crash. ASSUME NEW w \in Workers, Crash(w) PROVE SoloInv'
  <2>1. \A v \in Workers : pc'[v] = "idle" \/ pc'[v] = pc[v]
    BY <1>crash DEF Crash
  <2> QED BY <1>crash, <2>1 DEF Crash, ledger, SoloInv, EarlyPaidNeverOpens, IsOpen, Invoice, Event
<1>bounce. ASSUME NEW i \in Invoices, Bounce(i) PROVE SoloInv'
  BY <1>bounce DEF Bounce, workers, SoloInv, EarlyPaidNeverOpens, IsOpen, Invoice, Event
<1>tick. ASSUME Tick PROVE SoloInv'
  BY <1>tick DEF Tick, ledger, workers, SoloInv, EarlyPaidNeverOpens, IsOpen, Invoice, Event
<1>stutter. ASSUME UNCHANGED vars PROVE SoloInv'
  BY <1>stutter DEF vars, ledger, workers, SoloInv, EarlyPaidNeverOpens, IsOpen, Invoice, Event
<1> QED
  BY <1>deliver, <1>replay, <1>unhandled, <1>reply, <1>early, <1>find, <1>record, <1>conflict,
     <1>gate, <1>cap, <1>cool, <1>refuse, <1>post, <1>lost, <1>sent, <1>unsent, <1>lookup,
     <1>mark_early, <1>by_sub, <1>by_customer, <1>read, <1>write, <1>there, <1>illegal,
     <1>error, <1>forget, <1>stays, <1>crash, <1>bounce, <1>tick, <1>stutter
  DEF Next, Step, StoreFailure, Fault, Receive

LEMMA SoloInit == Init => SoloInv
BY DEF Init, SoloInv, EarlyPaidNeverOpens

\* With one worker, a payment reported before its failure keeps the invoice
\* from ever opening, whatever crashes and errors come between the two.
THEOREM EarlyPaidHolds == Alone => (Spec => []EarlyPaidNeverOpens)
<1> SUFFICES ASSUME Alone PROVE Spec => []EarlyPaidNeverOpens
  OBVIOUS
<1>1. TypeInv /\ LockInv /\ [Next]_vars => LockInv'
  BY LockStep DEF Alone, Serial
<1>2. TypeInv /\ LockInv /\ SoloInv /\ [Next]_vars => SoloInv'
  BY SoloStep
<1>3. SoloInv => EarlyPaidNeverOpens
  BY DEF SoloInv
<1> QED BY <1>1, <1>2, <1>3, TypeInit, TypeStep, LockInit, SoloInit, PTL DEF Spec

\* Which steps let a mail leave.
LEMMA MailsLeave ==
  ASSUME [Next]_vars, mailed' # mailed
  PROVE  \E w \in Workers : pc[w] = "send" /\ MailLeaves(Invoice(w))
<1>1. ASSUME NEW w \in Workers, Step(w), mailed' # mailed PROVE Post(w)
  BY <1>1 DEF Step, Unhandled, Reply, CheckEarly, FindRow, StoreFailure, RecordFailure, RecordConflict, Gate,
     CheckCap, CheckCooldown, Refuse, RecordSent, LookUp, MarkEarlyPaid, OpenBySub,
     OpenByCustomer, ReadState, WriteState, AlreadyThere, IllegalMove, Forget, world
<1>2. ASSUME NEW w \in Workers, Fault(w), mailed' # mailed PROVE PostAnswerLost(w)
  BY <1>2 DEF Fault, RecordSentFails, StoreError, ForgetFails, Crash
<1>3. ASSUME NEW e \in Events, Receive(e) PROVE mailed' = mailed
  BY <1>3 DEF Receive, Deliver, Replay, world
<1>4. ASSUME NEW i \in Invoices, Bounce(i) PROVE mailed' = mailed
  BY <1>4 DEF Bounce, world
<1>5. Tick => mailed' = mailed
  BY DEF Tick
<1>6. UNCHANGED vars => mailed' = mailed
  BY DEF vars, world
<1> QED BY <1>1, <1>2, <1>3, <1>4, <1>5, <1>6 DEF Next, Post, PostAnswerLost

\* With one worker, no mail leaves for an invoice the ledger knows is closed, in
\* the control arm or already paid, at the moment it leaves.
THEOREM NoMailToSettledHolds == Alone => (Spec => NoMailToSettled)
<1> SUFFICES ASSUME Alone PROVE Spec => NoMailToSettled
  OBVIOUS
<1>1. TypeInv /\ LockInv /\ [Next]_vars => LockInv'
  BY LockStep DEF Alone, Serial
<1>2. TypeInv /\ LockInv /\ SoloInv /\ [Next]_vars => SoloInv'
  BY SoloStep
<1>3. ASSUME TypeInv, SoloInv, [Next]_vars
      PROVE  [\A i \in Invoices : mailed'[i] # mailed[i] =>
                IsOpen(i) /\ ~failures[i].holdout /\ i \notin earlyPaid]_mailed
  <2> SUFFICES ASSUME mailed' # mailed, NEW i \in Invoices, mailed'[i] # mailed[i]
               PROVE  IsOpen(i) /\ ~failures[i].holdout /\ i \notin earlyPaid
    OBVIOUS
  <2>1. PICK w \in Workers : pc[w] = "send" /\ MailLeaves(Invoice(w))
    BY <1>3, MailsLeave
  <2>2. i = Invoice(w)
    BY <1>3, <2>1 DEF MailLeaves, TypeInv, TypeOK
  <2>3. IsOpen(i) /\ ~failures[i].holdout
    BY <1>3, <2>1, <2>2 DEF SoloInv
  <2>4. i \notin earlyPaid
    BY <1>3, <2>3 DEF SoloInv, EarlyPaidNeverOpens, IsOpen, OpenStates
  <2> QED BY <2>3, <2>4
<1> QED BY <1>1, <1>2, <1>3, TypeInit, TypeStep, LockInit, SoloInit, PTL
    DEF Spec, NoMailToSettled

-------------------------------------------------------------------------------
\* Answers to Stripe.  While no process has died, a claimed event has been handled, is
\* being handled, or has a claim that could not be deleted, and 2xx is the answer of a
\* handler that ran to its end.

HandledInv ==
  /\ acked \subseteq applied \cup unreleased
  /\ \A e \in events : \/ e \in applied \cup unreleased
                       \/ \E w \in Workers : pc[w] # "idle" /\ ev[w] = e
  /\ \A w \in Workers : pc[w] = "reply" => ev[w] \in applied

LEMMA HandledMove ==
  ASSUME TypeInv, HandledInv, NEW w \in Workers, NEW l, Goto(w, l), pc[w] # "idle",
         l \notin {"idle", "reply"}, UNCHANGED <<events, ev, acked, applied, unreleased>>
  PROVE  HandledInv'
<1>1. \A v \in Workers : pc'[v] = IF v = w THEN l ELSE pc[v]
  BY DEF Goto, TypeInv, TypeOK
<1> QED BY <1>1 DEF HandledInv

LEMMA HandledReturn ==
  ASSUME TypeInv, HandledInv, NEW w \in Workers, Return(w), pc[w] # "idle",
         UNCHANGED <<events, ev, acked, unreleased>>
  PROVE  HandledInv'
<1>1. \A v \in Workers : pc'[v] = IF v = w THEN "reply" ELSE pc[v]
  BY DEF Return, Goto, TypeInv, TypeOK
<1>2. applied' = applied \cup {ev[w]}
  BY DEF Return
<1> QED BY <1>1, <1>2 DEF HandledInv

\* The claim a handler drops is its own, and with one worker nobody else has been
\* answered on the strength of it.
LEMMA HandledForget ==
  ASSUME Alone, TypeInv, HandledInv, NEW w \in Workers, Forget(w) \/ ForgetFails(w)
  PROVE  HandledInv'
<1>1. /\ pc'[w] = "idle" /\ UNCHANGED <<ev, acked, applied>>
      /\ \A v \in Workers : v = w
  BY DEF Forget, ForgetFails, Goto, world, TypeInv, TypeOK, Alone
<1>2. CASE Forget(w)
  <2>1. (\A e \in events' : e \in events /\ e # ev[w]) /\ unreleased' = unreleased
    BY <1>2 DEF Forget, world
  <2> QED BY <1>1, <2>1 DEF HandledInv
<1>3. CASE ForgetFails(w)
  <2>1. events' = events /\ unreleased' = unreleased \cup {ev[w]}
    BY <1>3 DEF ForgetFails, ledger
  <2> QED BY <1>1, <2>1 DEF HandledInv
<1> QED BY <1>2, <1>3

LEMMA HandledStep ==
  ASSUME Alone, TypeInv, HandledInv, [Next]_vars, ~ \E w \in Workers : Crash(w)
  PROVE  HandledInv'
<1>same. ASSUME UNCHANGED <<events, pc, ev, acked, applied, unreleased>> PROVE HandledInv'
  BY <1>same DEF HandledInv
<1>deliver. ASSUME NEW w \in Workers, NEW e \in Events, Deliver(w, e) PROVE HandledInv'
  <2>1. pc'[w] = FirstCall(Body[e]) /\ ev'[w] = e /\ \A v \in Workers : v = w
    BY <1>deliver DEF Deliver, Goto, TypeInv, TypeOK, Alone
  <2>2. pc'[w] \notin {"idle", "reply"}
    BY <2>1 DEF FirstCall
  <2>3. events' = events \cup {e} /\ UNCHANGED <<acked, applied, unreleased>> /\ pc[w] = "idle"
    BY <1>deliver DEF Deliver, world
  <2> QED BY <2>1, <2>2, <2>3 DEF HandledInv
<1>replay. ASSUME NEW w \in Workers, NEW e \in Events, Replay(w, e) PROVE HandledInv'
  <2>1. pc[w] = "idle" /\ e \in events /\ \A v \in Workers : v = w
    BY <1>replay DEF Replay, Alone
  <2>2. e \in applied \cup unreleased
    BY <2>1 DEF HandledInv
  <2>3. acked' = acked \cup {e} /\ UNCHANGED <<events, pc, ev, applied, unreleased>>
    BY <1>replay DEF Replay, ledger, workers
  <2> QED BY <2>2, <2>3 DEF HandledInv
<1>reply. ASSUME NEW w \in Workers, Reply(w) PROVE HandledInv'
  <2>1. pc'[w] = "idle" /\ acked' = acked \cup {ev[w]} /\ \A v \in Workers : v = w
    BY <1>reply DEF Reply, Goto, TypeInv, TypeOK, Alone
  <2>2. ev[w] \in applied
    BY <1>reply DEF Reply, HandledInv
  <2> QED BY <1>reply, <2>1, <2>2 DEF Reply, ledger, HandledInv
<1>move. ASSUME NEW w \in Workers,
                FindRow(w) \/ RecordFailure(w) \/ Post(w) \/ RecordSent(w) \/ RecordSentFails(w)
                  \/ LookUp(w) \/ OpenBySub(w) \/ ReadState(w)
         PROVE  HandledInv'
  <2>1. UNCHANGED <<events, ev, acked, applied, unreleased>> /\ pc[w] # "idle"
    BY <1>move DEF FindRow, RecordFailure, Post, RecordSent, RecordSentFails, LookUp,
       OpenBySub, ReadState, ledger, world
  <2>2. PICK l \in Labels \ {"idle", "reply"} : Goto(w, l)
    BY <1>move DEF FindRow, RecordFailure, Post, RecordSent, RecordSentFails, LookUp,
       OpenBySub, ReadState, Labels
  <2> QED BY <2>1, <2>2, HandledMove
<1>check. ASSUME NEW w \in Workers,
                 Unhandled(w) \/ CheckEarly(w) \/ Gate(w) \/ CheckCap(w) \/ CheckCooldown(w)
                   \/ Refuse(w) \/ MarkEarlyPaid(w) \/ OpenByCustomer(w)
          PROVE  HandledInv'
  <2>1. UNCHANGED <<events, ev, acked, unreleased>> /\ pc[w] # "idle"
    BY <1>check DEF Unhandled, CheckEarly, Gate, CheckCap, CheckCooldown, Refuse,
       MarkEarlyPaid, OpenByCustomer, ledger
  <2>2. CASE Return(w)
    BY <2>1, <2>2, HandledReturn
  <2>3. CASE ~Return(w)
    <3>1. UNCHANGED applied
      BY <1>check, <2>3 DEF Unhandled, CheckEarly, Gate, CheckCap, CheckCooldown, Refuse,
         MarkEarlyPaid, OpenByCustomer
    <3>2. PICK l \in Labels \ {"idle", "reply"} : Goto(w, l)
      BY <1>check, <2>3 DEF Unhandled, CheckEarly, Gate, CheckCap, CheckCooldown, Refuse,
         MarkEarlyPaid, OpenByCustomer, Labels
    <3> QED BY <2>1, <3>1, <3>2, HandledMove
  <2> QED BY <2>2, <2>3
<1>advance. ASSUME NEW w \in Workers, WriteState(w) \/ AlreadyThere(w) PROVE HandledInv'
  <2>1. UNCHANGED <<events, ev, acked, unreleased>> /\ pc[w] # "idle" /\ Advance(w)
    BY <1>advance DEF WriteState, AlreadyThere, ledger
  <2>2. CASE Return(w)
    BY <2>1, <2>2, HandledReturn
  <2>3. CASE Goto(w, "mark") /\ UNCHANGED applied
    BY <2>1, <2>3, HandledMove
  <2> QED BY <2>1, <2>2, <2>3 DEF Advance
<1>illegal. ASSUME NEW w \in Workers, IllegalMove(w) PROVE HandledInv'
  <2>1. UNCHANGED <<events, ev, acked, unreleased>> /\ pc[w] # "idle"
    BY <1>illegal DEF IllegalMove, ledger
  <2>2. CASE Return(w)
    BY <2>1, <2>2, HandledReturn
  <2>3. CASE Raise(w) /\ UNCHANGED applied
    BY <2>1, <2>3, HandledMove DEF Raise
  <2> QED BY <1>illegal, <2>2, <2>3 DEF IllegalMove
<1>raise. ASSUME NEW w \in Workers, RecordConflict(w) \/ StoreError(w) PROVE HandledInv'
  <2>1. /\ Raise(w) /\ pc[w] # "idle"
        /\ UNCHANGED <<events, ev, acked, applied, unreleased>>
    BY <1>raise DEF RecordConflict, StoreError, ledger, world
  <2> QED BY <2>1, HandledMove DEF Raise
<1>forget. ASSUME NEW w \in Workers, Forget(w) \/ ForgetFails(w) PROVE HandledInv'
  BY <1>forget, HandledForget
<1>lost. ASSUME NEW w \in Workers, PostAnswerLost(w) PROVE HandledInv'
  BY <1>lost, <1>same DEF PostAnswerLost, ledger, workers
<1>bounce. ASSUME NEW i \in Invoices, Bounce(i) PROVE HandledInv'
  BY <1>bounce, <1>same DEF Bounce, workers, world
<1>still. ASSUME Tick \/ UNCHANGED vars PROVE HandledInv'
  BY <1>still, <1>same DEF Tick, vars, ledger, workers, world
<1> QED
  BY <1>deliver, <1>replay, <1>reply, <1>move, <1>check, <1>advance, <1>illegal, <1>raise,
     <1>forget, <1>lost, <1>bounce, <1>still
  DEF Next, Step, StoreFailure, Fault, Receive

\* crashes counts the deaths, and no other step touches it.
LEMMA CrashesCount ==
  ASSUME TypeInv, [Next]_vars
  PROVE  \/ \E w \in Workers : Crash(w) /\ crashes' # 0
         \/ crashes' = crashes /\ ~ \E w \in Workers : Crash(w)
<1>type. crashes \in Nat
  BY DEF TypeInv, TypeOK
<1>1. ASSUME NEW w \in Workers, Crash(w) PROVE crashes' # 0 /\ crashes' # crashes
  BY <1>type, <1>1 DEF Crash
<1>2. ASSUME NEW w \in Workers, Step(w) PROVE crashes' = crashes
  BY <1>2 DEF Step, Unhandled, Reply, CheckEarly, FindRow, StoreFailure, RecordFailure,
     RecordConflict, Gate, CheckCap, CheckCooldown, Refuse, Post, RecordSent, LookUp,
     MarkEarlyPaid, OpenBySub, OpenByCustomer, ReadState, WriteState, AlreadyThere,
     IllegalMove, Forget, world
<1>3. ASSUME NEW w \in Workers, Fault(w), ~Crash(w) PROVE crashes' = crashes
  BY <1>3 DEF Fault, PostAnswerLost, RecordSentFails, StoreError, ForgetFails
<1>4. ASSUME NEW e \in Events, Receive(e) PROVE crashes' = crashes
  BY <1>4 DEF Receive, Deliver, Replay, world
<1>5. ASSUME NEW i \in Invoices, Bounce(i) PROVE crashes' = crashes
  BY <1>5 DEF Bounce, world
<1>6. Tick \/ UNCHANGED vars => crashes' = crashes
  BY DEF Tick, vars, world
<1> QED BY <1>1, <1>2, <1>3, <1>4, <1>5, <1>6 DEF Next

\* No release fails without an error of its own.
ReleaseInv == unreleased # {} => errors > 0

LEMMA ReleaseStep ==
  ASSUME TypeInv, ReleaseInv, [Next]_vars
  PROVE  ReleaseInv'
<1>type. errors \in Nat
  BY LimitsAssumption DEF TypeInv, TypeOK
<1>same. ASSUME UNCHANGED unreleased, errors' \in {errors, errors + 1} PROVE ReleaseInv'
  BY <1>type, <1>same DEF ReleaseInv
<1>1. ASSUME NEW w \in Workers, Step(w) PROVE unreleased' = unreleased /\ errors' = errors
  BY <1>1 DEF Step, Unhandled, Reply, CheckEarly, FindRow, StoreFailure, RecordFailure,
     RecordConflict, Gate, CheckCap, CheckCooldown, Refuse, Post, RecordSent, LookUp,
     MarkEarlyPaid, OpenBySub, OpenByCustomer, ReadState, WriteState, AlreadyThere,
     IllegalMove, Forget, world
<1>2. ASSUME NEW w \in Workers, Fault(w), ~ForgetFails(w)
      PROVE  unreleased' = unreleased /\ errors' \in {errors, errors + 1}
  BY <1>2 DEF Fault, PostAnswerLost, RecordSentFails, StoreError, Crash
<1>3. ASSUME NEW w \in Workers, ForgetFails(w) PROVE ReleaseInv'
  BY <1>type, <1>3 DEF ForgetFails, ReleaseInv
<1>4. ASSUME NEW e \in Events, Receive(e) PROVE unreleased' = unreleased /\ errors' = errors
  BY <1>4 DEF Receive, Deliver, Replay, world
<1>5. ASSUME NEW i \in Invoices, Bounce(i) PROVE unreleased' = unreleased /\ errors' = errors
  BY <1>5 DEF Bounce, world
<1>6. Tick \/ UNCHANGED vars => unreleased' = unreleased /\ errors' = errors
  BY DEF Tick, vars, world
<1> QED BY <1>type, <1>same, <1>1, <1>2, <1>3, <1>4, <1>5, <1>6 DEF Next

\* What forget_event's promise needs: no death, and no failure of forget_event itself.
SwallowedOnlyByFault ==
  /\ crashes = 0 =>
       \A e \in acked : \/ e \in applied \cup unreleased
                       \/ \E w \in Workers : pc[w] # "idle" /\ ev[w] = e
  /\ crashes = 0 /\ errors = 0 => NoEventSwallowed

\* With one worker, an event acknowledged and never handled needs the death of a process,
\* as in the run recovery_crash, or a release of its claim that failed in turn.  No order
\* of deliveries and redeliveries, no illegal move and no other store error leaves one.
THEOREM OnlyFaultsSwallow == Alone => (Spec => []SwallowedOnlyByFault)
<1> SUFFICES ASSUME Alone PROVE Spec => []SwallowedOnlyByFault
  OBVIOUS
<1> DEFINE Inv == (crashes = 0 => HandledInv) /\ ReleaseInv
<1>1. Init => Inv
  BY DEF Init, HandledInv, ReleaseInv
<1>2. TypeInv /\ Inv /\ [Next]_vars => Inv'
  <2>1. ASSUME TypeInv, Inv, [Next]_vars, crashes' = 0 PROVE HandledInv'
    <3>1. crashes = 0 /\ ~ \E w \in Workers : Crash(w)
      BY <2>1, CrashesCount
    <3> QED BY <2>1, <3>1, HandledStep
  <2> QED BY <2>1, ReleaseStep
<1>3. Inv => SwallowedOnlyByFault
  BY DEF HandledInv, ReleaseInv, SwallowedOnlyByFault, NoEventSwallowed
<1> HIDE DEF Inv
<1> QED BY <1>1, <1>2, <1>3, TypeInit, TypeStep, PTL DEF Spec

-------------------------------------------------------------------------------
(***************************************************************************)
(* The mails that really left, against what the ledger knows of them: the  *)
(* cap with its slack, the honesty of the arms, the refinement of          *)
(* DunningContract, the suppression window of a customer, and churn.       *)
(***************************************************************************)

\* The mails that left and whose row is still to be written.
Logging(i) == {w \in Workers : pc[w] = "log" /\ Invoice(w) = i}

\* A mail that left is in the ledger, about to be, or was lost to a fault.
MailInv ==
  \A i \in Invoices :
    Len(mailed[i]) <= SentMessageCount(i) + Cardinality(Logging(i)) + Slack

LEMMA LoggingFinite ==
  \A i : /\ IsFiniteSet(Logging(i)) /\ Cardinality(Logging(i)) \in Nat
         /\ Cardinality(Logging(i)) <= Cardinality(Workers)
<1> SUFFICES ASSUME NEW i
             PROVE  /\ IsFiniteSet(Logging(i)) /\ Cardinality(Logging(i)) \in Nat
                    /\ Cardinality(Logging(i)) <= Cardinality(Workers)
  OBVIOUS
<1>1. Logging(i) \subseteq Workers
  BY DEF Logging
<1> QED BY <1>1, WorkersAssumption, FS_Subset, FS_CardinalityType

\* The steps that neither send, record nor forget a mail.
NoMail ==
  /\ UNCHANGED mailed /\ crashes' = crashes /\ errors' >= errors
  /\ \A i \in Invoices : SentMessageCount(i)' = SentMessageCount(i)
  /\ \A w \in Workers : /\ pc'[w] = "log" <=> pc[w] = "log"
                        /\ pc[w] = "log" => ev'[w] = ev[w]

LEMMA NoMailMove ==
  ASSUME TypeInv, NEW w \in Workers, NEW l, Goto(w, l), l # "log", pc[w] # "log",
         UNCHANGED <<mailed, crashes, messages>>, errors' >= errors,
         \A v \in Workers \ {w} : ev'[v] = ev[v]
  PROVE  NoMail
<1>1. \A i \in Invoices : SentMessageCount(i)' = SentMessageCount(i)
  BY DEF SentMessageCount
<1>2. \A v \in Workers : pc'[v] = IF v = w THEN l ELSE pc[v]
  BY DEF Goto, TypeInv, TypeOK
<1> QED BY <1>1, <1>2 DEF NoMail

LEMMA MailFrame ==
  ASSUME TypeInv, [Next]_vars
  PROVE  \/ NoMail
         \/ \E w \in Workers : \/ Post(w) \/ PostAnswerLost(w) \/ RecordSent(w)
                               \/ RecordSentFails(w) \/ Crash(w)
<1> USE DEF TypeInv, TypeOK
<1>0. errors \in Nat
  BY LimitsAssumption
<1>deliver. ASSUME NEW w \in Workers, NEW e \in Events, Deliver(w, e) PROVE NoMail
  <2>1. FirstCall(Body[e]) # "log"
    BY DEF FirstCall
  <2>2. \A v \in Workers \ {w} : ev'[v] = ev[v]
    BY <1>deliver DEF Deliver
  <2>3. UNCHANGED <<mailed, crashes, errors, messages>> /\ pc[w] # "log" /\ errors' >= errors
    BY <1>0, <1>deliver DEF Deliver, world
  <2>4. Goto(w, FirstCall(Body[e]))
    BY <1>deliver DEF Deliver
  <2> QED BY <2>1, <2>2, <2>3, <2>4, NoMailMove
<1>replay. ASSUME NEW w \in Workers, NEW e \in Events, Replay(w, e) PROVE NoMail
  BY <1>0, <1>replay DEF Replay, ledger, workers, NoMail, SentMessageCount
<1>answer. ASSUME NEW w \in Workers, Unhandled(w) \/ Reply(w) \/ Refuse(w)
          PROVE  NoMail
  <2>1. UNCHANGED <<mailed, crashes, errors, messages, ev>> /\ pc[w] # "log"
    BY <1>answer DEF Unhandled, Reply, Refuse, ledger, world
  <2>2. PICK l \in {"reply", "idle"} : Goto(w, l)
    BY <1>answer DEF Unhandled, Reply, Refuse, Return, Raise
  <2> QED BY <1>0, <2>1, <2>2, NoMailMove
<1>find. ASSUME NEW w \in Workers, CheckEarly(w) \/ FindRow(w) \/ RecordFailure(w) \/ RecordConflict(w)
          PROVE  NoMail
  <2>1. UNCHANGED <<mailed, crashes, errors, messages, ev>> /\ pc[w] # "log"
    BY <1>find DEF CheckEarly, FindRow, RecordFailure, RecordConflict, ledger, world
  <2>2. PICK l \in {"reply", "forget", "find", "record", "gate"} : Goto(w, l)
    BY <1>find DEF CheckEarly, FindRow, RecordFailure, RecordConflict, Return, Raise
  <2> QED BY <1>0, <2>1, <2>2, NoMailMove
<1>gates. ASSUME NEW w \in Workers, Gate(w) \/ CheckCap(w) \/ CheckCooldown(w)
          PROVE  NoMail
  <2>1. UNCHANGED <<mailed, crashes, errors, messages, ev>> /\ pc[w] # "log"
    BY <1>gates DEF Gate, CheckCap, CheckCooldown, ledger, world
  <2>2. PICK l \in {"reply", "idle", "cap", "cooldown", "send"} : Goto(w, l)
    BY <1>gates DEF Gate, CheckCap, CheckCooldown, Return, Raise
  <2> QED BY <1>0, <2>1, <2>2, NoMailMove
<1>lookup. ASSUME NEW w \in Workers, LookUp(w) \/ MarkEarlyPaid(w) \/ OpenBySub(w) \/ OpenByCustomer(w)
          PROVE  NoMail
  <2>1. UNCHANGED <<mailed, crashes, errors, messages, ev>> /\ pc[w] # "log"
    BY <1>lookup DEF LookUp, MarkEarlyPaid, OpenBySub, OpenByCustomer, ledger, world
  <2>2. PICK l \in {"reply", "idle", "mark", "mark_early", "open_by_customer"} : Goto(w, l)
    BY <1>lookup DEF LookUp, MarkEarlyPaid, OpenBySub, OpenByCustomer, Advance, Return, Raise
  <2> QED BY <1>0, <2>1, <2>2, NoMailMove
<1>move. ASSUME NEW w \in Workers, ReadState(w) \/ WriteState(w) \/ AlreadyThere(w) \/ IllegalMove(w)
          PROVE  NoMail
  <2>1. UNCHANGED <<mailed, crashes, errors, messages, ev>> /\ pc[w] # "log"
    BY <1>move DEF ReadState, WriteState, AlreadyThere, IllegalMove, ledger, world
  <2>2. PICK l \in {"reply", "forget", "mark", "write"} : Goto(w, l)
    BY <1>move DEF ReadState, WriteState, AlreadyThere, IllegalMove, Advance, Return, Raise
  <2> QED BY <1>0, <2>1, <2>2, NoMailMove
<1>error. ASSUME NEW w \in Workers, StoreError(w) PROVE NoMail
  <2>1. errors' >= errors
    BY <1>0, <1>error DEF StoreError
  <2> QED BY <1>error, <2>1, NoMailMove DEF StoreError, Raise, ledger
<1>forget. ASSUME NEW w \in Workers, Forget(w) \/ ForgetFails(w) PROVE NoMail
  <2>1. /\ UNCHANGED <<mailed, crashes, messages, ev>> /\ pc[w] # "log" /\ Goto(w, "idle")
        /\ errors' \in {errors, errors + 1}
    BY <1>forget DEF Forget, ForgetFails, ledger, world
  <2> QED BY <1>0, <2>1, NoMailMove
<1>bounce. ASSUME NEW i \in Invoices, Bounce(i) PROVE NoMail
  <2>1. \A j \in Invoices : SentMessageCount(j)' = SentMessageCount(j)
    BY <1>bounce DEF Bounce, TurnedBounced, SentMessageCount
  <2> QED BY <1>0, <1>bounce, <2>1 DEF Bounce, workers, world, NoMail
<1>tick. ASSUME Tick PROVE NoMail
  BY <1>0, <1>tick DEF Tick, ledger, workers, NoMail, SentMessageCount
<1>stutter. ASSUME UNCHANGED vars PROVE NoMail
  BY <1>0, <1>stutter DEF vars, ledger, workers, world, NoMail, SentMessageCount
<1> QED
  BY <1>deliver, <1>replay, <1>answer, <1>find, <1>gates, <1>lookup, <1>move, <1>error, <1>forget,
     <1>bounce, <1>tick, <1>stutter
  DEF Next, Step, StoreFailure, Fault, Receive

\* Slack grows by one with each fault, and by the workers with each crash.
LEMMA SlackNat ==
  ASSUME TypeInv
  PROVE  Slack \in Nat
<1>1. crashes \in Nat /\ errors \in Nat
  BY LimitsAssumption DEF TypeInv, TypeOK
<1> QED BY <1>1, WorkersCount DEF Slack

LEMMA SlackOfFault ==
  ASSUME TypeInv, TypeInv', crashes' = crashes, errors' >= errors
  PROVE  Slack' - Slack = errors' - errors
<1> DEFINE lost == crashes * Cardinality(Workers)
<1>1. errors \in Nat /\ errors' \in Nat /\ crashes \in Nat
  BY LimitsAssumption DEF TypeInv, TypeOK
<1>2. lost \in Nat
  BY <1>1, WorkersCount
<1>3. Slack = lost + errors /\ Slack' = lost + errors'
  BY DEF Slack
<1> HIDE DEF lost
<1> QED BY <1>1, <1>2, <1>3

LEMMA SlackOfCrash ==
  ASSUME TypeInv, crashes' = crashes + 1, errors' = errors
  PROVE  Slack' = Slack + Cardinality(Workers)
<1> DEFINE n == Cardinality(Workers)
<1>1. errors \in Nat /\ crashes \in Nat
  BY LimitsAssumption DEF TypeInv, TypeOK
<1>2. n \in Nat
  BY WorkersCount
<1>3. Slack = crashes * n + errors /\ Slack' = (crashes + 1) * n + errors
  BY DEF Slack
<1> HIDE DEF n
<1>4. (crashes + 1) * n = crashes * n + n /\ crashes * n \in Nat
  BY <1>1, <1>2
<1>5. Slack' = Slack + n
  BY <1>1, <1>2, <1>3, <1>4
<1> QED BY <1>5 DEF n

LEMMA MailStep == TypeInv /\ TypeInv' /\ MailInv /\ [Next]_vars => MailInv'
<1> SUFFICES ASSUME TypeInv, TypeInv', MailInv, [Next]_vars, NEW i \in Invoices
             PROVE  Len(mailed'[i]) <= SentMessageCount(i)' + Cardinality(Logging(i)') + Slack'
  BY DEF MailInv
<1>now. /\ Len(mailed[i]) <= SentMessageCount(i) + Cardinality(Logging(i)) + Slack
        /\ Len(mailed[i]) \in Nat /\ SentMessageCount(i) \in Nat
        /\ Cardinality(Logging(i)) \in Nat /\ Slack \in Nat
  <2>1. mailed[i] \in Seq(0..MaxClock)
    BY DEF TypeInv, TypeOK
  <2> QED BY <2>1, LoggingFinite, SentCountNat, SlackNat, LenProperties DEF MailInv, TypeInv
<1>then. Len(mailed'[i]) \in Nat /\ SentMessageCount(i)' \in Nat
         /\ Cardinality(Logging(i)') \in Nat /\ Slack' \in Nat
  <2>1. Logging(i)' \subseteq Workers
    BY DEF Logging
  <2>2. Cardinality(Logging(i)') \in Nat
    BY <2>1, WorkersAssumption, FS_Subset, FS_CardinalityType
  <2>3. messages'[i] \in Counts
    BY DEF TypeInv, TypeOK, Counts
  <2>4. SentMessageCount(i)' \in Nat
    BY <2>3 DEF SentMessageCount, Counts
  <2>5. errors' \in Nat /\ crashes' \in Nat
    BY LimitsAssumption DEF TypeInv, TypeOK
  <2>6. Slack' \in Nat
    BY <2>5, WorkersCount DEF Slack
  <2> QED BY <2>2, <2>4, <2>6 DEF TypeInv, TypeOK
<1>1. CASE NoMail
  <2>1. Logging(i)' = Logging(i)
    BY <1>1 DEF NoMail, Logging, Invoice, Event
  <2>2. Slack' >= Slack
    <3>1. errors \in Nat /\ errors' \in Nat
      BY LimitsAssumption DEF TypeInv, TypeOK
    <3> QED BY <1>1, <3>1, <1>now, <1>then, SlackOfFault DEF NoMail
  <2> QED BY <1>1, <2>1, <2>2, <1>now, <1>then DEF NoMail
<1>2. ASSUME NEW w \in Workers, Post(w)
      PROVE  Len(mailed'[i]) <= SentMessageCount(i)' + Cardinality(Logging(i)') + Slack'
  <2>1. SentMessageCount(i)' = SentMessageCount(i) /\ Slack' = Slack
    BY <1>2 DEF Post, ledger, SentMessageCount, Slack
  <2>2. \A v \in Workers : pc'[v] = IF v = w THEN "log" ELSE pc[v]
    BY <1>2 DEF Post, Goto, TypeInv, TypeOK
  <2>3. CASE i = Invoice(w)
    <3>1. Len(mailed'[i]) = Len(mailed[i]) + 1
      <4>1. mailed'[i] = Append(mailed[i], clock)
        BY <1>2, <2>3 DEF Post, MailLeaves, TypeInv, TypeOK
      <4> QED BY <4>1, AppendProperties DEF TypeInv, TypeOK
    <3>2. Logging(i)' = Logging(i) \cup {w} /\ w \notin Logging(i)
      BY <1>2, <2>2, <2>3 DEF Post, Logging, Invoice, Event
    <3>3. Cardinality(Logging(i)') = Cardinality(Logging(i)) + 1
      BY <3>2, LoggingFinite, FS_AddElement
    <3> QED BY <2>1, <3>1, <3>3, <1>now
  <2>4. CASE i # Invoice(w)
    <3>1. mailed'[i] = mailed[i]
      BY <1>2, <2>4 DEF Post, MailLeaves, TypeInv, TypeOK
    <3>2. Logging(i)' = Logging(i)
      BY <1>2, <2>2, <2>4 DEF Post, Logging, Invoice, Event
    <3> QED BY <2>1, <3>1, <3>2, <1>now
  <2> QED BY <2>3, <2>4
<1>3. ASSUME NEW w \in Workers, PostAnswerLost(w)
      PROVE  Len(mailed'[i]) <= SentMessageCount(i)' + Cardinality(Logging(i)') + Slack'
  <2>1. SentMessageCount(i)' = SentMessageCount(i) /\ Logging(i)' = Logging(i)
    BY <1>3 DEF PostAnswerLost, ledger, workers, SentMessageCount, Logging, Invoice, Event
  <2>2. Slack' = Slack + 1
    <3>1. errors \in Nat /\ errors' = errors + 1 /\ crashes' = crashes
      BY <1>3, LimitsAssumption DEF PostAnswerLost, TypeInv, TypeOK
    <3>2. errors' >= errors /\ errors' - errors = 1
      BY <3>1
    <3>3. Slack' - Slack = errors' - errors
      BY <3>1, <3>2, SlackOfFault
    <3> QED BY <3>2, <3>3, <1>now, <1>then
  <2>3. Len(mailed'[i]) <= Len(mailed[i]) + 1
    <3>1. mailed'[i] = Append(mailed[i], clock) \/ mailed'[i] = mailed[i]
      BY <1>3 DEF PostAnswerLost, MailLeaves, TypeInv, TypeOK
    <3> QED BY <3>1, <1>now, AppendProperties DEF TypeInv, TypeOK
  <2> QED BY <2>1, <2>2, <2>3, <1>now, <1>then
<1>4. ASSUME NEW w \in Workers, RecordSent(w) \/ RecordSentFails(w)
      PROVE  Len(mailed'[i]) <= SentMessageCount(i)' + Cardinality(Logging(i)') + Slack'
  <2>1. mailed' = mailed /\ pc[w] = "log" /\ UNCHANGED ev /\ crashes' = crashes
    BY <1>4 DEF RecordSent, RecordSentFails, world
  <2>2. \A v \in Workers : pc'[v] = IF v = w THEN "mark" ELSE pc[v]
    BY <1>4 DEF RecordSent, RecordSentFails, Goto, TypeInv, TypeOK
  <2>3. CASE i = Invoice(w)
    <3>1. Logging(i)' = Logging(i) \ {w} /\ w \in Logging(i)
      BY <2>1, <2>2, <2>3 DEF Logging, Invoice, Event
    <3>2. Cardinality(Logging(i)') = Cardinality(Logging(i)) - 1
      BY <3>1, LoggingFinite, FS_RemoveElement
    <3>3. SentMessageCount(i)' + Slack' = SentMessageCount(i) + Slack + 1
      <4>1. CASE RecordSent(w)
        <5>1. messages'[i] = OneMoreSent(messages[i]) /\ messages[i] \in Counts
          BY <4>1, <2>3 DEF RecordSent, TypeInv, TypeOK, Counts
        <5>2. SentMessageCount(i)' = SentMessageCount(i) + 1
          BY <5>1 DEF OneMoreSent, SentMessageCount, Counts
        <5>3. Slack' = Slack
          BY <4>1 DEF RecordSent, world, Slack
        <5> QED BY <5>2, <5>3, <1>now
      <4>2. CASE RecordSentFails(w)
        <5>1. SentMessageCount(i)' = SentMessageCount(i)
          BY <4>2 DEF RecordSentFails, ledger, SentMessageCount
        <5>2. errors \in Nat /\ errors' = errors + 1
          BY <4>2, LimitsAssumption DEF RecordSentFails, TypeInv, TypeOK
        <5>3. errors' >= errors /\ errors' - errors = 1
          BY <5>2
        <5>4. Slack' - Slack = errors' - errors
          BY <5>3, <2>1, SlackOfFault
        <5>5. \A a, b \in Nat : b - a = 1 => b = a + 1
          OBVIOUS
        <5>6. Slack \in Nat /\ Slack' \in Nat /\ Slack' - Slack = 1
          <6>1. Slack' - Slack = 1
            BY <5>3, <5>4
          <6> QED BY <6>1, <1>now, <1>then
        <5>7. Slack' = Slack + 1
          BY <5>5, <5>6
        <5> QED BY <5>1, <5>7, <1>now
      <4> QED BY <1>4, <4>1, <4>2
    <3>4. Len(mailed'[i]) = Len(mailed[i])
      BY <2>1
    <3>5. SentMessageCount(i)' + Cardinality(Logging(i)') + Slack'
            = (SentMessageCount(i)' + Slack') + (Cardinality(Logging(i)) - 1)
      BY <3>2, <1>now, <1>then
    <3>6. (SentMessageCount(i)' + Slack') + (Cardinality(Logging(i)) - 1)
            = SentMessageCount(i) + Cardinality(Logging(i)) + Slack
      BY <3>3, <1>now
    <3> QED BY <3>4, <3>5, <3>6, <1>now
  <2>4. CASE i # Invoice(w)
    <3>1. Logging(i)' = Logging(i)
      BY <2>1, <2>2, <2>4 DEF Logging, Invoice, Event
    <3>2. SentMessageCount(i)' = SentMessageCount(i)
      BY <1>4, <2>4 DEF RecordSent, RecordSentFails, ledger, SentMessageCount, TypeInv, TypeOK
    <3>3. Slack' >= Slack
      <4>1. errors \in Nat /\ (errors' = errors \/ errors' = errors + 1)
        BY <1>4, LimitsAssumption DEF RecordSent, RecordSentFails, world, TypeInv, TypeOK
      <4> QED BY <4>1, <2>1, <1>now, <1>then, SlackOfFault
    <3> QED BY <2>1, <3>1, <3>2, <3>3, <1>now, <1>then
  <2> QED BY <2>3, <2>4
<1>5. ASSUME NEW w \in Workers, Crash(w)
      PROVE  Len(mailed'[i]) <= SentMessageCount(i)' + Cardinality(Logging(i)') + Slack'
  <2>1. mailed' = mailed /\ SentMessageCount(i)' = SentMessageCount(i)
    BY <1>5 DEF Crash, ledger, SentMessageCount
  <2>2. Slack' = Slack + Cardinality(Workers)
    BY <1>5, SlackOfCrash DEF Crash
  <2> QED BY <2>1, <2>2, <1>now, <1>then, LoggingFinite, WorkersCount
<1> QED BY <1>1, <1>2, <1>3, <1>4, <1>5, MailFrame

LEMMA MailInit == Init => MailInv
<1> SUFFICES ASSUME Init, NEW i \in Invoices
             PROVE  Len(mailed[i]) <= SentMessageCount(i) + Cardinality(Logging(i)) + Slack
  BY DEF MailInv
<1>1. mailed[i] = <<>> /\ SentMessageCount(i) = 0 /\ crashes = 0 /\ errors = 0
  BY DEF Init, SentMessageCount
<1>2. Slack = 0
  BY <1>1, WorkersCount DEF Slack
<1> QED BY <1>1, <1>2, LoggingFinite

LEMMA MailedLength ==
  ASSUME TypeInv, NEW i \in Invoices
  PROVE  mailed[i] \in Seq(0..MaxClock) /\ Len(mailed[i]) \in Nat
<1>1. mailed \in [Invoices -> Seq(0..MaxClock)]
  BY DEF TypeInv, TypeOK
<1>2. mailed[i] \in Seq(0..MaxClock)
  BY <1>1
<1> QED BY <1>2, LenProperties

\* What the two invariants say together.
LEMMA MailBound ==
  TypeInv /\ TouchInv /\ MailInv => MailCap
<1> SUFFICES ASSUME TypeInv, TouchInv, MailInv, NEW i \in Invoices
             PROVE  Len(mailed[i]) <= MaxTouches + Cardinality(Workers) - 1 + Slack
  BY DEF MailCap
<1>1. Logging(i) \subseteq InFlight(i)
  BY DEF Logging, InFlight, Flight
<1>2. Cardinality(Logging(i)) <= Cardinality(InFlight(i))
  BY <1>1, InFlightFinite, FS_Subset
<1>3. SentMessageCount(i) + Cardinality(InFlight(i)) <= MaxTouches + Cardinality(Workers) - 1
  BY DEF TouchInv
<1>4. Len(mailed[i]) <= SentMessageCount(i) + Cardinality(Logging(i)) + Slack
  BY DEF MailInv
<1>5. SentMessageCount(i) \in Nat
  BY SentCountNat DEF TypeInv
<1>6. Len(mailed[i]) \in Nat
  BY MailedLength
<1> QED
  BY <1>2, <1>3, <1>4, <1>5, <1>6, SlackNat, LoggingFinite, InFlightFinite, WorkersCount,
     LimitsAssumption

\* The cap on the mails that really left: MaxTouches, one for each further
\* handler past the check, and one for each record a fault lost.
THEOREM MailCapHolds == Spec => []MailCap
BY MailBound, MailInit, MailStep, TouchInit, TouchStep, TypeInit, TypeStep, PTL DEF Spec

-------------------------------------------------------------------------------
\* The arms.  A worker in deliver_recovery has a row; past the gate the row is
\* not in the control arm; on its way to messaged a mail has left.

Delivering == {"gate", "cap", "cooldown", "send", "log"}
Closing == {"lookup", "open_by_sub", "open_by_customer"}

ArmsOf(w) ==
  LET i == Invoice(w)
      dunning == Event(w).type = "payment_failed" IN
  /\ pc[w] \in Delivering => failures[i].state # "none"
  /\ pc[w] = "record" /\ seen[w] # "none" => failures[i].state # "none"
  /\ pc[w] \in {"cap", "cooldown", "send"} => ~failures[i].holdout
  /\ pc[w] = "log" => mailed[i] # <<>>
  /\ pc[w] \in Closing => ~dunning
  /\ pc[w] \in {"mark", "write"} /\ dunning => \A j \in todo[w] : mailed[j] # <<>>
  /\ pc[w] = "write" => row[w] \in todo[w]

ArmsInv ==
  /\ ArmsAreHonest
  /\ \A i \in Invoices : failures[i].state = "none" => mailed[i] = <<>>
  /\ \A w \in Workers : ArmsOf(w)

\* What both writers of rows keep: a row stays, in its arm.
LEMMA RecordKeepsArm ==
  ASSUME TypeInv, NEW w \in Workers, RecordFailure(w), NEW i \in Invoices
  PROVE  \/ failures[i].state = "none" /\ failures'[i].state = "failed"
         \/ /\ failures'[i].state = failures[i].state
            /\ failures'[i].holdout = failures[i].holdout
<1>1. PICK arm \in BOOLEAN :
        failures' = [failures EXCEPT ![Invoice(w)] =
                       RecordedRow(seen[w], failures[Invoice(w)], Event(w), arm)]
  BY DEF RecordFailure
<1>2. CASE i # Invoice(w)
  BY <1>1, <1>2 DEF TypeInv, TypeOK
<1>3. CASE i = Invoice(w)
  <2>1. failures'[i] = RecordedRow(seen[w], failures[i], Event(w), arm)
    BY <1>1, <1>3 DEF TypeInv, TypeOK
  <2>2. CASE seen[w] = "none"
    BY <1>3, <2>1, <2>2 DEF RecordedRow, Inserted, RecordFailure
  <2>3. CASE seen[w] # "none"
    <3>1. failures'[i] = Updated(seen[w], failures[i], Event(w))
      BY <2>1, <2>3 DEF RecordedRow
    <3>2. failures[i] \in [state : RowStates \cup {"none"}, holdout : BOOLEAN,
                           sub : Subs \cup {NoSub}, amount : Nat, recovered : Nat]
      BY DEF TypeInv, TypeOK
    <3> QED BY <3>1, <3>2 DEF Updated
  <2> QED BY <2>2, <2>3
<1> QED BY <1>2, <1>3

LEMMA WriteKeepsArm ==
  ASSUME TypeInv, NEW w \in Workers, WriteState(w), NEW i \in Invoices
  PROVE  \/ failures'[i] = failures[i]
         \/ /\ i = row[w] /\ failures'[i].holdout = failures[i].holdout
            /\ failures'[i].state = Target(Event(w).type) /\ failures'[i].state # "none"
<1> DEFINE to == Target(Event(w).type)
<1>1. CASE i # row[w]
  BY <1>1 DEF WriteState, TypeInv, TypeOK
<1>2. CASE i = row[w]
  <2>1. failures'[i] = Moved(failures[i], to, Event(w))
    BY <1>2 DEF WriteState, TypeInv, TypeOK
  <2>2. failures[i] \in [state : RowStates \cup {"none"}, holdout : BOOLEAN,
                         sub : Subs \cup {NoSub}, amount : Nat, recovered : Nat]
    BY DEF TypeInv, TypeOK
  <2>3. failures'[i].state = to /\ failures'[i].holdout = failures[i].holdout
    BY <2>1, <2>2 DEF Moved
  <2>4. to \in RowStates
    BY MovesAreOpen DEF WriteState, CanTransition
  <2> QED BY <1>2, <2>3, <2>4, OpenIsNotClosed
<1> QED BY <1>1, <1>2

\* Rows stay, arms stay, and mails cannot be unsent.
Grows ==
  \A i \in Invoices :
    /\ failures[i].state # "none" =>
         failures'[i].state # "none" /\ failures'[i].holdout = failures[i].holdout
    /\ mailed[i] # <<>> => mailed'[i] # <<>>

LEMMA GrowsStep ==
  ASSUME TypeInv, [Next]_vars
  PROVE  Grows
<1> SUFFICES ASSUME NEW i \in Invoices
             PROVE  /\ failures[i].state # "none" =>
                         failures'[i].state # "none" /\ failures'[i].holdout = failures[i].holdout
                    /\ mailed[i] # <<>> => mailed'[i] # <<>>
  BY DEF Grows
<1>1. failures[i].state # "none" =>
        failures'[i].state # "none" /\ failures'[i].holdout = failures[i].holdout
  <2>1. CASE failures' = failures
    BY <2>1
  <2>2. CASE failures' # failures
    BY <2>2, RowsChange, RecordKeepsArm, WriteKeepsArm
  <2> QED BY <2>1, <2>2
<1>2. mailed[i] # <<>> => mailed'[i] # <<>>
  <2>1. CASE mailed' = mailed
    BY <2>1
  <2>2. CASE mailed' # mailed
    <3>1. PICK w \in Workers : pc[w] = "send" /\ MailLeaves(Invoice(w))
      BY <2>2, MailsLeave
    <3>2. mailed'[i] = mailed[i] \/ mailed'[i] = Append(mailed[i], clock)
      BY <3>1 DEF MailLeaves, TypeInv, TypeOK
    <3>3. clock \in 0..MaxClock /\ mailed[i] \in Seq(0..MaxClock)
      BY DEF TypeInv, TypeOK
    <3> QED BY <3>2, <3>3, AppendProperties
  <2> QED BY <2>1, <2>2
<1> QED BY <1>1, <1>2

\* A worker that does not move keeps what it relies on.
LEMMA ArmsElsewhere ==
  ASSUME TypeInv, Grows, NEW v \in Workers, ArmsOf(v),
         pc'[v] = pc[v], ev'[v] = ev[v], todo'[v] = todo[v], row'[v] = row[v], seen'[v] = seen[v]
  PROVE  ArmsOf(v)'
<1> DEFINE i == Invoice(v)
<1>1. Invoice(v)' = i /\ Event(v)' = Event(v)
  BY DEF Invoice, Event
<1>2. pc[v] \in Delivering \cup {"record"} => i \in Invoices
  BY DEF TypeInv, InvoiceNamed, NamesInvoice, Delivering
<1>3. pc[v] \in Delivering => /\ failures'[i].state # "none"
                              /\ ~failures[i].holdout => ~failures'[i].holdout
  BY <1>2 DEF ArmsOf, Grows
<1>4. todo[v] \subseteq Invoices
  BY DEF TypeInv, TypeOK
<1>5. pc[v] \in {"mark", "write"} /\ Event(v).type = "payment_failed" =>
        \A j \in todo[v] : mailed'[j] # <<>>
  BY <1>4 DEF ArmsOf, Grows
<1>6. pc[v] = "record" /\ seen[v] # "none" => failures'[i].state # "none"
  BY <1>2 DEF ArmsOf, Grows
<1>7. pc[v] = "log" => mailed'[i] # <<>>
  BY <1>2 DEF ArmsOf, Grows, Delivering
<1>8. pc[v] \in {"cap", "cooldown", "send"} => ~failures'[i].holdout
  BY <1>3 DEF ArmsOf, Delivering
<1> HIDE DEF i
<1> QED BY <1>1, <1>3, <1>5, <1>6, <1>7, <1>8 DEF ArmsOf

\* The other workers keep theirs when one of them moves.
LEMMA ArmsMove ==
  ASSUME TypeInv, ArmsInv, Grows, NEW w \in Workers, NEW l, Goto(w, l), ArmsOf(w)',
         \A v \in Workers \ {w} : /\ ev'[v] = ev[v] /\ todo'[v] = todo[v]
                                  /\ row'[v] = row[v] /\ seen'[v] = seen[v]
  PROVE  \A v \in Workers : ArmsOf(v)'
<1> SUFFICES ASSUME NEW v \in Workers PROVE ArmsOf(v)'
  OBVIOUS
<1>1. CASE v = w
  BY <1>1
<1>2. CASE v # w
  <2>1. pc'[v] = pc[v]
    BY <1>2 DEF Goto, TypeInv, TypeOK
  <2> QED BY <1>2, <2>1, ArmsElsewhere DEF ArmsInv
<1> QED BY <1>1, <1>2

\* Labels at which a worker relies on nothing.
Free == {"idle", "nothing", "reply", "early", "find", "mark_early", "forget"}

LEMMA ArmsFree ==
  ASSUME TypeInv, NEW w \in Workers, NEW l \in Free, Goto(w, l)
  PROVE  ArmsOf(w)'
<1>1. pc'[w] = l
  BY DEF Goto, TypeInv, TypeOK
<1> QED BY <1>1 DEF ArmsOf, Free, Delivering, Closing

\* On the way to messaged, or to a closed state.
LEMMA ArmsMark ==
  ASSUME TypeInv, NEW w \in Workers, Goto(w, "mark"), ev' = ev,
         Event(w).type = "payment_failed" => \A j \in todo'[w] : mailed'[j] # <<>>
  PROVE  ArmsOf(w)'
<1>1. pc'[w] = "mark"
  BY DEF Goto, TypeInv, TypeOK
<1>2. Event(w)' = Event(w)
  BY DEF Event
<1> QED BY <1>1, <1>2 DEF ArmsOf, Delivering, Closing

LEMMA ArmsWorkers ==
  ASSUME TypeInv, TypeInv', ArmsInv, Grows, [Next]_vars
  PROVE  \A v \in Workers : ArmsOf(v)'
<1>deliver. ASSUME NEW w \in Workers, NEW e \in Events, Deliver(w, e)
            PROVE  \A v \in Workers : ArmsOf(v)'
  <2>1. pc'[w] = FirstCall(Body[e]) /\ Event(w)' = Body[e]
    BY <1>deliver DEF Deliver, Goto, Event, TypeInv, TypeOK
  <2>2. ArmsOf(w)'
    BY <2>1 DEF ArmsOf, FirstCall, Delivering, Closing
  <2>3. \A v \in Workers \ {w} : /\ ev'[v] = ev[v] /\ todo'[v] = todo[v]
                                 /\ row'[v] = row[v] /\ seen'[v] = seen[v]
    BY <1>deliver DEF Deliver
  <2> QED BY <1>deliver, <2>2, <2>3, ArmsMove DEF Deliver
<1>same. ASSUME pc' = pc, ev' = ev, todo' = todo, row' = row, seen' = seen
         PROVE  \A v \in Workers : ArmsOf(v)'
  BY <1>same, ArmsElsewhere DEF ArmsInv
<1>replay. ASSUME NEW w \in Workers, NEW e \in Events, Replay(w, e)
           PROVE  \A v \in Workers : ArmsOf(v)'
  BY <1>replay, <1>same DEF Replay, workers
<1>lost. ASSUME NEW w \in Workers, PostAnswerLost(w) PROVE \A v \in Workers : ArmsOf(v)'
  BY <1>lost, <1>same DEF PostAnswerLost, workers
<1>bounce. ASSUME NEW i \in Invoices, Bounce(i) PROVE \A v \in Workers : ArmsOf(v)'
  BY <1>bounce, <1>same DEF Bounce, workers
<1>still. ASSUME Tick \/ UNCHANGED vars PROVE \A v \in Workers : ArmsOf(v)'
  BY <1>still, <1>same DEF Tick, vars, workers
<1>free. ASSUME NEW w \in Workers, NEW l \in Free, Goto(w, l), UNCHANGED <<ev, row>>,
                \A v \in Workers \ {w} : seen'[v] = seen[v] /\ todo'[v] = todo[v]
         PROVE  \A v \in Workers : ArmsOf(v)'
  BY <1>free, ArmsFree, ArmsMove
<1>mark. ASSUME NEW w \in Workers, Goto(w, "mark"), UNCHANGED <<ev, row, seen>>,
                Event(w).type = "payment_failed" => \A j \in todo'[w] : mailed'[j] # <<>>,
                \A v \in Workers \ {w} : todo'[v] = todo[v]
         PROVE  \A v \in Workers : ArmsOf(v)'
  BY <1>mark, ArmsMark, ArmsMove
<1>end. ASSUME NEW w \in Workers,
               Unhandled(w) \/ Reply(w) \/ RecordConflict(w) \/ Refuse(w) \/ MarkEarlyPaid(w)
                 \/ IllegalMove(w) \/ StoreError(w) \/ Forget(w) \/ ForgetFails(w)
        PROVE  \A v \in Workers : ArmsOf(v)'
  <2>1. PICK l \in Free : Goto(w, l)
    BY <1>end DEF Unhandled, Reply, RecordConflict, Refuse, MarkEarlyPaid, IllegalMove,
       StoreError, Forget, ForgetFails, Return, Raise, Free
  <2>2. UNCHANGED <<ev, row, seen, todo>>
    BY <1>end DEF Unhandled, Reply, RecordConflict, Refuse, MarkEarlyPaid, IllegalMove,
       StoreError, Forget, ForgetFails
  <2> QED BY <2>1, <2>2, <1>free
<1>early. ASSUME NEW w \in Workers, CheckEarly(w) PROVE \A v \in Workers : ArmsOf(v)'
  <2>1. Goto(w, "reply") \/ Goto(w, "find")
    BY <1>early DEF CheckEarly, Return
  <2> QED BY <1>early, <2>1, <1>free DEF CheckEarly, Free
<1>on. ASSUME NEW w \in Workers, NEW l, Goto(w, l), UNCHANGED <<ev, row, todo>>, ArmsOf(w)',
              \A v \in Workers \ {w} : seen'[v] = seen[v]
       PROVE  \A v \in Workers : ArmsOf(v)'
  BY <1>on, ArmsMove
<1>find. ASSUME NEW w \in Workers, FindRow(w) PROVE \A v \in Workers : ArmsOf(v)'
  <2>1. /\ pc'[w] = "record" /\ seen'[w] = failures[Invoice(w)].state
        /\ Invoice(w)' = Invoice(w) /\ failures' = failures
    BY <1>find DEF FindRow, Goto, ledger, Invoice, Event, TypeInv, TypeOK
  <2>2. ArmsOf(w)'
    BY <2>1 DEF ArmsOf, Delivering, Closing
  <2>3. \A v \in Workers \ {w} : seen'[v] = seen[v]
    BY <1>find DEF FindRow
  <2> QED BY <1>find, <2>2, <2>3, <1>on DEF FindRow
<1>record. ASSUME NEW w \in Workers, RecordFailure(w) PROVE \A v \in Workers : ArmsOf(v)'
  <2>1. pc'[w] = "gate" /\ Invoice(w)' = Invoice(w) /\ Invoice(w) \in Invoices
    BY <1>record DEF RecordFailure, Goto, Invoice, Event, TypeInv, TypeOK, InvoiceNamed,
       NamesInvoice
  <2>2. failures[Invoice(w)].state = "none" => seen[w] = "none"
    BY <1>record DEF RecordFailure, ArmsInv, ArmsOf
  <2>3. failures'[Invoice(w)].state # "none"
    <3>1. CASE failures[Invoice(w)].state # "none"
      BY <2>1, <3>1 DEF Grows
    <3>2. CASE failures[Invoice(w)].state = "none"
      <4>1. seen[w] = "none"
        BY <2>2, <3>2
      <4>2. PICK arm \in BOOLEAN :
              failures' = [failures EXCEPT ![Invoice(w)] =
                             RecordedRow(seen[w], failures[Invoice(w)], Event(w), arm)]
        BY <1>record DEF RecordFailure
      <4>3. failures'[Invoice(w)] = Inserted(Event(w), arm)
        BY <2>1, <4>1, <4>2 DEF RecordedRow, TypeInv, TypeOK
      <4> QED BY <4>3 DEF Inserted
    <3> QED BY <3>1, <3>2
  <2>4. ArmsOf(w)'
    BY <2>1, <2>3 DEF ArmsOf, Closing
  <2> QED BY <1>record, <2>4, <1>on DEF RecordFailure
<1>gate. ASSUME NEW w \in Workers, Gate(w) PROVE \A v \in Workers : ArmsOf(v)'
  <2>1. CASE failures[Invoice(w)].holdout \/ ~IsOpen(Invoice(w))
    BY <1>gate, <2>1, <1>free DEF Gate, Return, Free
  <2>2. CASE ~failures[Invoice(w)].holdout /\ IsOpen(Invoice(w))
    <3>1. pc'[w] = "cap" /\ Invoice(w)' = Invoice(w) /\ failures' = failures
      BY <1>gate, <2>2 DEF Gate, Goto, ledger, Invoice, Event, TypeInv, TypeOK
    <3>2. failures[Invoice(w)].state # "none"
      BY <1>gate DEF Gate, ArmsInv, ArmsOf, Delivering
    <3>3. ArmsOf(w)'
      BY <2>2, <3>1, <3>2 DEF ArmsOf, Closing
    <3> QED BY <1>gate, <2>2, <3>3, <1>on DEF Gate
  <2> QED BY <2>1, <2>2
<1>check. ASSUME NEW w \in Workers, CheckCap(w) \/ CheckCooldown(w)
          PROVE  \A v \in Workers : ArmsOf(v)'
  <2>1. UNCHANGED <<ev, row, seen, todo, failures>> /\ pc[w] \in {"cap", "cooldown"}
    BY <1>check DEF CheckCap, CheckCooldown, ledger
  <2>2. CASE Goto(w, "reply")
    BY <2>1, <2>2, <1>free DEF Free
  <2>3. ASSUME NEW l \in {"cooldown", "send"}, Goto(w, l) PROVE \A v \in Workers : ArmsOf(v)'
    <3>1. pc'[w] = l /\ Invoice(w)' = Invoice(w)
      BY <2>1, <2>3 DEF Goto, Invoice, Event, TypeInv, TypeOK
    <3>2. failures[Invoice(w)].state # "none" /\ ~failures[Invoice(w)].holdout
      BY <2>1 DEF ArmsInv, ArmsOf, Delivering
    <3>3. ArmsOf(w)'
      BY <2>1, <3>1, <3>2 DEF ArmsOf, Closing
    <3> QED BY <2>1, <2>3, <3>3, <1>on
  <2> QED BY <1>check, <2>2, <2>3 DEF CheckCap, CheckCooldown, Return
<1>post. ASSUME NEW w \in Workers, Post(w) PROVE \A v \in Workers : ArmsOf(v)'
  <2>1. /\ pc'[w] = "log" /\ Invoice(w)' = Invoice(w) /\ failures' = failures
        /\ Invoice(w) \in Invoices
    BY <1>post DEF Post, Goto, ledger, Invoice, Event, TypeInv, TypeOK, InvoiceNamed,
       NamesInvoice
  <2>2. mailed'[Invoice(w)] = Append(mailed[Invoice(w)], clock)
    BY <1>post, <2>1 DEF Post, MailLeaves, TypeInv, TypeOK
  <2>3. mailed'[Invoice(w)] # <<>>
    <3>1. mailed[Invoice(w)] \in Seq(0..MaxClock) /\ clock \in 0..MaxClock
      BY <2>1, MailedLength DEF TypeInv, TypeOK
    <3> QED BY <2>2, <3>1, AppendProperties
  <2>4. failures[Invoice(w)].state # "none"
    BY <1>post DEF Post, ArmsInv, ArmsOf, Delivering
  <2>5. ArmsOf(w)'
    BY <2>1, <2>3, <2>4 DEF ArmsOf, Closing
  <2> QED BY <1>post, <2>5, <1>on DEF Post
<1>logged. ASSUME NEW w \in Workers, RecordSent(w) \/ RecordSentFails(w)
           PROVE  \A v \in Workers : ArmsOf(v)'
  <2>1. mailed[Invoice(w)] # <<>> /\ mailed' = mailed
    BY <1>logged DEF RecordSent, RecordSentFails, ArmsInv, ArmsOf, world
  <2>2. todo'[w] = {Invoice(w)} /\ \A v \in Workers \ {w} : todo'[v] = todo[v]
    BY <1>logged DEF RecordSent, RecordSentFails, TypeInv, TypeOK
  <2>3. Goto(w, "mark") /\ UNCHANGED <<ev, row, seen>>
    BY <1>logged DEF RecordSent, RecordSentFails
  <2> QED BY <2>1, <2>2, <2>3, <1>mark
<1>closing. ASSUME NEW w \in Workers, LookUp(w) \/ OpenBySub(w) \/ OpenByCustomer(w)
            PROVE  \A v \in Workers : ArmsOf(v)'
  <2>1. Event(w).type # "payment_failed" /\ UNCHANGED <<ev, row, seen>>
    BY <1>closing DEF LookUp, OpenBySub, OpenByCustomer, ArmsInv, ArmsOf, Closing
  <2>2. \A v \in Workers \ {w} : todo'[v] = todo[v]
    <3>1. todo' = todo \/ \E S : todo' = [todo EXCEPT ![w] = S]
      BY <1>closing DEF LookUp, OpenBySub, OpenByCustomer
    <3> QED BY <3>1 DEF TypeInv, TypeOK
  <2>3. CASE Goto(w, "mark")
    BY <2>1, <2>2, <2>3, <1>mark
  <2>4. ASSUME NEW l \in {"reply", "mark_early"}, Goto(w, l) PROVE \A v \in Workers : ArmsOf(v)'
    BY <2>1, <2>2, <2>4, <1>free DEF Free
  <2>5. CASE Goto(w, "open_by_customer") /\ todo' = todo
    <3>1. pc'[w] = "open_by_customer" /\ Event(w)' = Event(w)
      BY <2>1, <2>5 DEF Goto, Event, TypeInv, TypeOK
    <3>2. ArmsOf(w)'
      BY <2>1, <3>1 DEF ArmsOf, Delivering
    <3> QED BY <2>1, <2>5, <3>2, <1>on
  <2> QED BY <1>closing, <2>3, <2>4, <2>5 DEF LookUp, OpenBySub, OpenByCustomer, Return
<1>read. ASSUME NEW w \in Workers, ReadState(w) PROVE \A v \in Workers : ArmsOf(v)'
  <2>1. PICK j \in todo[w] : row' = [row EXCEPT ![w] = j]
    BY <1>read DEF ReadState
  <2>2. /\ pc'[w] = "write" /\ row'[w] = j /\ todo' = todo /\ mailed' = mailed
        /\ Event(w)' = Event(w)
    BY <1>read, <2>1 DEF ReadState, Goto, Event, world, TypeInv, TypeOK
  <2>3. ArmsOf(w)'
    BY <1>read, <2>1, <2>2 DEF ReadState, ArmsInv, ArmsOf, Delivering, Closing
  <2>4. \A v \in Workers \ {w} : seen'[v] = seen[v] /\ row'[v] = row[v]
    BY <1>read, <2>1 DEF ReadState
  <2> QED BY <1>read, <2>3, <2>4, ArmsMove DEF ReadState
<1>advance. ASSUME NEW w \in Workers, pc[w] = "write", Advance(w),
                   UNCHANGED <<ev, row, seen, mailed>>
            PROVE  \A v \in Workers : ArmsOf(v)'
  <2>1. todo'[w] = todo[w] \ {row[w]} /\ \A v \in Workers \ {w} : todo'[v] = todo[v]
    BY <1>advance DEF Advance, TypeInv, TypeOK
  <2>2. Event(w).type = "payment_failed" => \A j \in todo'[w] : mailed'[j] # <<>>
    BY <1>advance, <2>1 DEF ArmsInv, ArmsOf
  <2>3. CASE Goto(w, "mark")
    BY <1>advance, <2>1, <2>2, <2>3, <1>mark
  <2>4. CASE Goto(w, "reply")
    BY <1>advance, <2>1, <2>4, <1>free DEF Free
  <2> QED BY <1>advance, <2>3, <2>4 DEF Advance, Return
<1>write. ASSUME NEW w \in Workers, WriteState(w) \/ AlreadyThere(w)
          PROVE  \A v \in Workers : ArmsOf(v)'
  BY <1>write, <1>advance DEF WriteState, AlreadyThere
<1>crash. ASSUME NEW w \in Workers, Crash(w) PROVE \A v \in Workers : ArmsOf(v)'
  <2> SUFFICES ASSUME NEW v \in Workers PROVE ArmsOf(v)'
    OBVIOUS
  <2>1. pc'[v] = "idle" \/ pc'[v] = pc[v]
    BY <1>crash DEF Crash
  <2>2. CASE pc'[v] = "idle"
    BY <2>2 DEF ArmsOf, Delivering, Closing
  <2>3. CASE pc'[v] = pc[v]
    BY <1>crash, <2>3, ArmsElsewhere DEF Crash, ArmsInv
  <2> QED BY <2>1, <2>2, <2>3
<1> QED
  BY <1>deliver, <1>replay, <1>lost, <1>bounce, <1>still, <1>end, <1>early, <1>find, <1>record, <1>gate, <1>check, <1>post,
     <1>logged, <1>closing, <1>read, <1>write, <1>crash
  DEF Next, Step, StoreFailure, Fault, Receive

\* The invoices: which of them are honest after a row is written or a mail sent.
LEMMA ArmsRows ==
  ASSUME TypeInv, ArmsInv, [Next]_vars, NEW i \in Invoices
  PROVE  /\ failures'[i].state = "messaged" => mailed'[i] # <<>>
         /\ failures'[i].holdout => mailed'[i] = <<>>
         /\ failures'[i].state = "none" => mailed'[i] = <<>>
<1>now. /\ failures[i].state = "messaged" => mailed[i] # <<>>
        /\ failures[i].holdout => mailed[i] = <<>>
        /\ failures[i].state = "none" => mailed[i] = <<>>
  BY DEF ArmsInv, ArmsAreHonest
<1>1. CASE failures' = failures /\ mailed' = mailed
  BY <1>1, <1>now
<1>2. CASE failures' # failures
  <2>1. PICK w \in Workers : RecordFailure(w) \/ WriteState(w)
    BY <1>2, RowsChange
  <2>2. mailed' = mailed
    BY <2>1 DEF RecordFailure, WriteState, world
  <2>3. CASE RecordFailure(w)
    BY <2>2, <2>3, <1>now, RecordKeepsArm
  <2>4. CASE WriteState(w)
    <3>1. CASE failures'[i] = failures[i]
      BY <3>1, <2>2, <1>now
    <3>2. CASE /\ i = row[w] /\ failures'[i].holdout = failures[i].holdout
               /\ failures'[i].state = Target(Event(w).type) /\ failures'[i].state # "none"
      <4>1. Event(w).type \in EventTypes
        BY BodyFields DEF Event, TypeInv, TypeOK
      <4>2. Target(Event(w).type) = "messaged" => Event(w).type = "payment_failed"
        BY <4>1 DEF Target, EventTypes
      <4>3. row[w] \in todo[w]
        BY <2>4 DEF WriteState, ArmsInv, ArmsOf
      <4>4. Event(w).type = "payment_failed" => mailed[i] # <<>>
        BY <2>4, <3>2, <4>3 DEF WriteState, ArmsInv, ArmsOf
      <4> QED BY <2>2, <3>2, <4>2, <4>4, <1>now
    <3> QED BY <2>4, <3>1, <3>2, WriteKeepsArm
  <2> QED BY <2>1, <2>3, <2>4
<1>3. CASE failures' = failures /\ mailed' # mailed
  <2>1. PICK w \in Workers : pc[w] = "send" /\ MailLeaves(Invoice(w))
    BY <1>3, MailsLeave
  <2>2. CASE i # Invoice(w)
    BY <1>3, <2>1, <2>2, <1>now DEF MailLeaves, TypeInv, TypeOK
  <2>3. CASE i = Invoice(w)
    <3>1. failures[i].state # "none" /\ ~failures[i].holdout
      BY <2>1, <2>3 DEF ArmsInv, ArmsOf, Delivering
    <3>2. mailed'[i] = Append(mailed[i], clock)
      BY <2>1, <2>3 DEF MailLeaves, TypeInv, TypeOK
    <3>3. mailed'[i] # <<>>
      <4>1. mailed[i] \in Seq(0..MaxClock) /\ clock \in 0..MaxClock
        BY DEF TypeInv, TypeOK
      <4> QED BY <3>2, <4>1, AppendProperties
    <3> QED BY <1>3, <3>1, <3>3
  <2> QED BY <2>2, <2>3
<1> QED BY <1>1, <1>2, <1>3

LEMMA ArmsStep == TypeInv /\ TypeInv' /\ ArmsInv /\ [Next]_vars => ArmsInv'
<1> SUFFICES ASSUME TypeInv, TypeInv', ArmsInv, [Next]_vars PROVE ArmsInv'
  OBVIOUS
<1>1. Grows
  BY GrowsStep
<1>2. \A v \in Workers : ArmsOf(v)'
  BY <1>1, ArmsWorkers
<1> QED BY <1>2, ArmsRows DEF ArmsInv, ArmsAreHonest

LEMMA ArmsInit == Init => ArmsInv
<1> SUFFICES ASSUME Init PROVE ArmsInv
  OBVIOUS
<1>1. \A w \in Workers : ArmsOf(w)
  BY DEF Init, ArmsOf, Delivering, Closing
<1>2. ArmsAreHonest
  BY DEF Init, ArmsAreHonest, NoRow
<1> QED BY <1>1, <1>2 DEF Init, ArmsInv

\* A row says messaged only if a mail left, and the control arm got none: for
\* any number of workers, whether or not they share a lock, whatever fails.
THEOREM ArmsHold == Spec => []ArmsAreHonest
<1>1. ArmsInv => ArmsAreHonest
  BY DEF ArmsInv
<1> QED BY <1>1, ArmsInit, ArmsStep, TypeInit, TypeStep, PTL DEF Spec

-------------------------------------------------------------------------------
\* The contract.  With one worker, what a handler checked is still so when it
\* acts, and each step of the loop is one of DunningContract's or none.

\* The states the loop reaches: nothing in it moves a row to clicked or exhausted.
\* An invoice without a row has no arm.
Reached == {"none", "failed", "messaged", "recovered", "churned"}

ReachedInv ==
  \A i \in Invoices : /\ failures[i].state \in Reached
                      /\ failures[i].state = "none" => ~failures[i].holdout

LEMMA ReachedStep == TypeInv /\ ReachedInv /\ [Next]_vars => ReachedInv'
<1> SUFFICES ASSUME TypeInv, ReachedInv, [Next]_vars, NEW i \in Invoices
             PROVE  /\ failures'[i].state \in Reached
                    /\ failures'[i].state = "none" => ~failures'[i].holdout
  BY DEF ReachedInv
<1>now. failures[i].state \in Reached /\ (failures[i].state = "none" => ~failures[i].holdout)
  BY DEF ReachedInv
<1>1. CASE failures' = failures
  BY <1>1, <1>now
<1>2. ASSUME NEW w \in Workers, RecordFailure(w)
      PROVE  /\ failures'[i].state \in Reached
             /\ failures'[i].state = "none" => ~failures'[i].holdout
  BY <1>2, <1>now, RecordKeepsArm DEF Reached
<1>3. ASSUME NEW w \in Workers, WriteState(w)
      PROVE  /\ failures'[i].state \in Reached
             /\ failures'[i].state = "none" => ~failures'[i].holdout
  <2>1. Event(w).type \in EventTypes
    BY BodyFields DEF Event, TypeInv, TypeOK
  <2>2. Target(Event(w).type) \in Reached
    BY <2>1 DEF Target, EventTypes, Reached
  <2> QED BY <1>3, <1>now, <2>2, WriteKeepsArm
<1> QED BY <1>1, <1>2, <1>3, RowsChange

\* The variables of the contract, as the loop's.
Status(i) == IF i \in earlyPaid THEN "early" ELSE failures[i].state

ContractVars ==
  << [i \in Invoices |-> Status(i)], {i \in Invoices : failures[i].holdout},
     [i \in Invoices |-> Len(mailed[i])] >>

\* The steps that no variable of the contract sees.
LEMMA ContractFrame ==
  ASSUME [Next]_vars
  PROVE  \/ UNCHANGED <<failures, earlyPaid, mailed>>
         \/ \E w \in Workers : \/ RecordFailure(w) \/ WriteState(w) \/ MarkEarlyPaid(w)
                               \/ Post(w) \/ PostAnswerLost(w)
<1>1. ASSUME NEW w \in Workers, NEW e \in Events, Deliver(w, e) \/ Replay(w, e)
      PROVE  UNCHANGED <<failures, earlyPaid, mailed>>
  BY <1>1 DEF Deliver, Replay, ledger, world
<1>2. ASSUME NEW w \in Workers,
             \/ Unhandled(w) \/ Reply(w) \/ CheckEarly(w) \/ FindRow(w) \/ RecordConflict(w)
             \/ Gate(w) \/ CheckCap(w) \/ CheckCooldown(w) \/ Refuse(w) \/ RecordSent(w)
      PROVE  UNCHANGED <<failures, earlyPaid, mailed>>
  BY <1>2 DEF Unhandled, Reply, CheckEarly, FindRow, RecordConflict, Gate, CheckCap,
     CheckCooldown, Refuse, RecordSent, ledger, world
<1>3. ASSUME NEW w \in Workers,
             \/ LookUp(w) \/ OpenBySub(w) \/ OpenByCustomer(w) \/ ReadState(w)
             \/ AlreadyThere(w) \/ IllegalMove(w) \/ RecordSentFails(w) \/ StoreError(w)
             \/ Forget(w) \/ ForgetFails(w) \/ Crash(w)
      PROVE  UNCHANGED <<failures, earlyPaid, mailed>>
  BY <1>3 DEF LookUp, OpenBySub, OpenByCustomer, ReadState, AlreadyThere, IllegalMove,
     RecordSentFails, StoreError, Forget, ForgetFails, Crash, ledger, world
<1>4. ASSUME NEW i \in Invoices, Bounce(i) PROVE UNCHANGED <<failures, earlyPaid, mailed>>
  BY <1>4 DEF Bounce, world
<1>5. Tick => UNCHANGED <<failures, earlyPaid, mailed>>
  BY DEF Tick, ledger
<1>6. UNCHANGED vars => UNCHANGED <<failures, earlyPaid, mailed>>
  BY DEF vars, ledger, world
<1> QED BY <1>1, <1>2, <1>3, <1>4, <1>5, <1>6 DEF Next, Step, StoreFailure, Fault, Receive

LEMMA ContractMoves ==
  ASSUME NEW k \in Invoices,
         \/ Contract!Open(k) \/ Contract!SettleEarly(k) \/ Contract!Contact(k)
         \/ Contract!MarkContacted(k) \/ Contract!Close(k)
  PROVE  Contract!Next
BY DEF Contract!Next

Honest == TypeInv /\ LockInv /\ SoloInv /\ TouchInv /\ MailInv /\ ArmsInv /\ ReachedInv

\* The cap, for a single worker.
LEMMA MailCapAlone ==
  ASSUME Alone, TypeInv', TouchInv', MailInv', NEW i \in Invoices
  PROVE  Len(mailed'[i]) <= MaxTouches + MaxCrashes + MaxErrors
<1>1. MailCap'
  BY MailBound, PTL
<1>2. Cardinality(Workers) = 1
  <2>1. PICK w : w \in Workers
    BY WorkersAssumption
  <2>2. Workers = {w}
    BY <2>1 DEF Alone
  <2> QED BY <2>2, FS_Singleton
<1>3. Len(mailed'[i]) <= MaxTouches + crashes' + errors'
  <2>1. crashes' \in Nat /\ errors' \in Nat
    BY LimitsAssumption DEF TypeInv, TypeOK
  <2> QED BY <1>1, <1>2, <2>1, LimitsAssumption DEF MailCap, Slack
<1>4. crashes' <= MaxCrashes /\ errors' <= MaxErrors /\ crashes' \in Nat /\ errors' \in Nat
  BY LimitsAssumption DEF TypeInv, TypeOK
<1>5. Len(mailed'[i]) \in Nat
  BY LenProperties DEF TypeInv, TypeOK
<1> QED BY <1>3, <1>4, <1>5, LimitsAssumption

LEMMA ContractStep ==
  ASSUME Alone, Honest, Honest', [Next]_vars
  PROVE  Contract!Next \/ UNCHANGED ContractVars
<1> DEFINE status == [i \in Invoices |-> Status(i)]
           control == {i \in Invoices : failures[i].holdout}
           contacts == [i \in Invoices |-> Len(mailed[i])]
<1> USE DEF Honest
<1>still. ASSUME UNCHANGED <<failures, earlyPaid, mailed>> PROVE UNCHANGED ContractVars
  BY <1>still DEF ContractVars, Status
<1>record. ASSUME NEW w \in Workers, RecordFailure(w) PROVE Contract!Next \/ UNCHANGED ContractVars
  <2>0. PICK i : i = Invoice(w)
    OBVIOUS
  <2> USE <2>0
  <2>1. i \in Invoices /\ i \notin earlyPaid /\ earlyPaid' = earlyPaid /\ mailed' = mailed
    BY <1>record DEF RecordFailure, TypeInv, InvoiceNamed, NamesInvoice, SoloInv, world
  <2>2. \A j \in Invoices \ {i} : failures'[j] = failures[j]
    BY <1>record, <2>1 DEF RecordFailure, TypeInv, TypeOK
  <2>3. CASE failures[i].state = "none" /\ failures'[i].state = "failed"
    <3>1. status' = [status EXCEPT ![i] = "failed"]
      BY <2>1, <2>2, <2>3 DEF Status
    <3>2. status[i] = "none" /\ contacts' = contacts
      BY <2>1, <2>3 DEF Status
    <3>3. control' \in {control, control \cup {i}}
      <4>1. failures[i].holdout = FALSE
        BY <2>1, <2>3 DEF ReachedInv
      <4> QED BY <2>1, <2>2, <4>1
    <3>4. Contract!Open(i)
      BY <3>1, <3>2, <3>3 DEF Contract!Open, Status
    <3> QED BY <2>1, <3>4, ContractMoves
  <2>4. CASE failures'[i].state = failures[i].state /\ failures'[i].holdout = failures[i].holdout
    <3>1. status' = status /\ control' = control /\ contacts' = contacts
      BY <2>1, <2>2, <2>4 DEF Status
    <3> QED BY <3>1 DEF ContractVars
  <2> QED BY <1>record, <2>1, <2>3, <2>4, RecordKeepsArm
<1>early. ASSUME NEW w \in Workers, MarkEarlyPaid(w) PROVE Contract!Next \/ UNCHANGED ContractVars
  <2>0. PICK i : i = Invoice(w)
    OBVIOUS
  <2> USE <2>0
  <2>1. /\ i \in Invoices /\ earlyPaid' = earlyPaid \cup {i}
        /\ failures' = failures /\ mailed' = mailed
    BY <1>early DEF MarkEarlyPaid, TypeInv, InvoiceNamed, NamesInvoice
  <2>2. CASE i \in earlyPaid
    BY <2>1, <2>2, <1>still
  <2>3. CASE i \notin earlyPaid
    <3>1. status[i] = "none"
      BY <1>early, <2>1, <2>3 DEF MarkEarlyPaid, SoloInv, Status
    <3>2. status' = [status EXCEPT ![i] = "early"]
      BY <2>1 DEF Status
    <3>3. control' = control /\ contacts' = contacts
      BY <2>1
    <3>4. Contract!SettleEarly(i)
      BY <3>1, <3>2, <3>3 DEF Contract!SettleEarly, Status
    <3> QED BY <2>1, <3>4, ContractMoves
  <2> QED BY <2>2, <2>3
<1>write. ASSUME NEW w \in Workers, WriteState(w) PROVE Contract!Next \/ UNCHANGED ContractVars
  <2> DEFINE to == Target(Event(w).type)
  <2>0. PICK i : i = row[w]
    OBVIOUS
  <2> USE <2>0
  <2>1. /\ i \in Invoices /\ seen[w] = failures[i].state /\ earlyPaid' = earlyPaid
        /\ mailed' = mailed
    BY <1>write DEF WriteState, LockInv
  <2>2. \A j \in Invoices \ {i} : failures'[j] = failures[j]
    BY <1>write, <2>1 DEF WriteState, TypeInv, TypeOK
  <2>3. failures'[i].state = to /\ failures'[i].holdout = failures[i].holdout
    <3>1. failures'[i] = Moved(failures[i], to, Event(w))
      BY <1>write, <2>1 DEF WriteState, TypeInv, TypeOK
    <3>2. failures[i] \in [state : RowStates \cup {"none"}, holdout : BOOLEAN,
                           sub : Subs \cup {NoSub}, amount : Nat, recovered : Nat]
      BY <2>1 DEF TypeInv, TypeOK
    <3> QED BY <3>1, <3>2 DEF Moved
  <2>4. failures[i].state \in {"failed", "messaged"} /\ failures[i].state # to
    BY <1>write, <2>1, MovesAreOpen
    DEF WriteState, CanTransition, ReachedInv, Reached, OpenStates
  <2>5. i \notin earlyPaid
    BY <2>1, <2>4 DEF SoloInv, EarlyPaidNeverOpens
  <2>6. status' = [status EXCEPT ![i] = to] /\ status[i] = failures[i].state
    BY <2>1, <2>2, <2>3, <2>5 DEF Status
  <2>7. control' = control /\ contacts' = contacts
    BY <2>1, <2>2, <2>3
  <2>8. CASE Event(w).type = "payment_failed"
    <3>1. to = "messaged"
      BY <2>8 DEF Target
    <3>2. status[i] = "failed"
      BY <2>4, <2>6, <3>1
    <3>3. mailed[i] # <<>>
      BY <1>write, <2>8 DEF WriteState, ArmsInv, ArmsOf
    <3>4. contacts[i] > 0
      <4>1. mailed[i] \in Seq(0..MaxClock)
        BY <2>1 DEF TypeInv, TypeOK
      <4> QED BY <2>1, <3>3, <4>1, EmptySeq, LenProperties
    <3>5. Contract!MarkContacted(i)
      BY <2>6, <2>7, <3>1, <3>2, <3>4 DEF Contract!MarkContacted, Status
    <3> QED BY <2>1, <3>5, ContractMoves
  <2>9. CASE Event(w).type # "payment_failed"
    <3>1. Event(w).type \in EventTypes
      BY BodyFields DEF Event, TypeInv, TypeOK
    <3>2. to \in {"recovered", "churned"}
      BY <2>9, <3>1 DEF Target, EventTypes
    <3>3. Contract!Close(i)
      BY <2>4, <2>6, <2>7, <3>2 DEF Contract!Close, Status
    <3> QED BY <2>1, <3>3, ContractMoves
  <2> QED BY <2>8, <2>9
<1>mail. ASSUME NEW w \in Workers, Post(w) \/ PostAnswerLost(w)
         PROVE  Contract!Next \/ UNCHANGED ContractVars
  <2>0. PICK i : i = Invoice(w)
    OBVIOUS
  <2> USE <2>0
  <2>1. /\ i \in Invoices /\ UNCHANGED <<failures, earlyPaid>> /\ pc[w] = "send"
        /\ MailLeaves(i)
    BY <1>mail DEF Post, PostAnswerLost, TypeInv, InvoiceNamed, NamesInvoice, ledger
  <2>2. IsOpen(i) /\ ~failures[i].holdout /\ i \notin earlyPaid
    BY <2>1 DEF SoloInv, EarlyPaidNeverOpens, IsOpen, OpenStates
  <2>3. status[i] \in {"failed", "messaged"} /\ i \notin control
    BY <2>1, <2>2 DEF Status, IsOpen, OpenStates, ReachedInv, Reached
  <2>4. Len(mailed'[i]) = Len(mailed[i]) + 1 /\ Len(mailed[i]) \in Nat
    <3>1. mailed'[i] = Append(mailed[i], clock)
      BY <2>1 DEF MailLeaves, TypeInv, TypeOK
    <3>2. mailed[i] \in Seq(0..MaxClock) /\ clock \in 0..MaxClock
      BY <2>1 DEF TypeInv, TypeOK
    <3> QED BY <3>1, <3>2, AppendProperties, LenProperties
  <2>5. contacts' = [contacts EXCEPT ![i] = @ + 1]
    <3>1. \A j \in Invoices \ {i} : mailed'[j] = mailed[j]
      BY <2>1 DEF MailLeaves, TypeInv, TypeOK
    <3> QED BY <2>1, <2>4, <3>1
  <2>6. Len(mailed'[i]) <= MaxTouches + MaxCrashes + MaxErrors
    BY <2>1, MailCapAlone
  <2>7. contacts[i] < MaxTouches + MaxCrashes + MaxErrors
    BY <2>1, <2>4, <2>6, LimitsAssumption
  <2>8. status' = status /\ control' = control
    BY <2>1 DEF Status
  <2>9. Contract!Contact(i)
    BY <2>3, <2>5, <2>7, <2>8 DEF Contract!Contact, Status
  <2> QED BY <2>1, <2>9, ContractMoves
<1> QED BY <1>still, <1>record, <1>early, <1>write, <1>mail, ContractFrame

\* With one worker, and whatever is lost to crashes and errors, the loop
\* implements the contract: it opens an invoice once, mails open invoices of the
\* treated arm only, at most so many times, and closes each once.
THEOREM LoopKeepsContract == Alone => (Spec => KeepsContract)
<1> SUFFICES ASSUME Alone PROVE Spec => KeepsContract
  OBVIOUS
<1>1. Init => Contract!Init
  <2> SUFFICES ASSUME Init PROVE Contract!Init
    OBVIOUS
  <2> QED BY DEF Init, NoRow, Contract!Init
<1>2. Init => ReachedInv
  BY DEF Init, NoRow, ReachedInv, Reached
<1>3. TypeInv /\ LockInv /\ [Next]_vars => LockInv'
  BY LockStep DEF Alone, Serial
<1>4. TypeInv /\ LockInv /\ SoloInv /\ [Next]_vars => SoloInv'
  BY SoloStep
<1>5. Init => Honest
  BY <1>2, TypeInit, LockInit, SoloInit, TouchInit, MailInit, ArmsInit DEF Honest
<1>6. Honest /\ [Next]_vars => Honest'
  BY <1>3, <1>4, TypeStep, TouchStep, MailStep, ArmsStep, ReachedStep DEF Honest
<1>7. Honest /\ Honest' /\ [Next]_vars =>
        [Contract!Next]_<<[i \in Invoices |-> IF i \in earlyPaid THEN "early"
                                             ELSE failures[i].state],
                          {i \in Invoices : failures[i].holdout},
                          [i \in Invoices |-> Len(mailed[i])]>>
  <2> SUFFICES ASSUME Honest, Honest', [Next]_vars
               PROVE  Contract!Next \/ UNCHANGED ContractVars
    BY DEF ContractVars, Status
  <2> QED BY ContractStep
<1> QED BY <1>1, <1>5, <1>6, <1>7, PTL DEF Spec, KeepsContract, Contract!Spec

\* The ledger's cap and the mailbox's, together.
THEOREM CapsHold == Spec => []CapsKept
<1>1. TouchCap /\ MailCap => CapsKept
  BY DEF CapsKept
<1> QED BY <1>1, TouchCapHolds, MailCapHolds, PTL

\* With one handler at a time the ledger says of an invoice what happened to it.
THEOREM RowsHold == Alone => (Spec => []RowsAreHonest)
<1> SUFFICES ASSUME Alone PROVE Spec => []RowsAreHonest
  OBVIOUS
<1>1. Serial
  BY DEF Alone, Serial
<1>2. Spec => []HistoryIsPath
  BY <1>1, HistoryHolds
<1>3. Spec => []EarlyPaidNeverOpens
  BY EarlyPaidHolds
<1>4. ArmsAreHonest /\ EarlyPaidNeverOpens /\ HistoryIsPath => RowsAreHonest
  BY DEF RowsAreHonest
<1> QED BY <1>2, <1>3, <1>4, ArmsHold, PTL

-------------------------------------------------------------------------------
\* The suppression window.  What a mail to a person leaves in the ledger keeps
\* every later check of the window from passing, so the mails of a window are of
\* handlers that had passed it before the first of them was recorded.

Window(t) == {u \in t..MaxClock : u < t + Cooldown}

\* The mails of a window, out of a mailbox.
MailsOf(box, c, t) ==
  {x \in Invoices \X Nat : /\ CustomerOf[x[1]] = c /\ x[2] \in DOMAIN box[x[1]]
                           /\ box[x[1]][x[2]] \in Window(t)}

LoggingTo(c) == {w \in Workers : pc[w] = "log" /\ CustomerOf[Invoice(w)] = c}
SendingTo(c) == {w \in Workers : pc[w] = "send" /\ CustomerOf[Invoice(w)] = c}

\* The ledger holds a mail that left in the window, or later.
Recorded(c, t) ==
  \E i \in Invoices :
    CustomerOf[i] = c /\ SentMessageCount(i) > 0 /\ messages[i].last >= t

\* The handlers that may still mail in the window.
Waiting(c, t) == IF clock < t + Cooldown THEN Cardinality(SendingTo(c)) ELSE 0

Balanced(c, t) ==
  LET n == Cardinality(MailsOf(mailed, c, t))
  IN /\ IsFiniteSet(MailsOf(mailed, c, t))
     /\ Recorded(c, t) => n + Waiting(c, t) <= Cardinality(Workers) + Slack
     /\ ~Recorded(c, t) => n <= Cardinality(LoggingTo(c)) + Slack

PastInv == \A i \in Invoices : \A k \in DOMAIN mailed[i] : mailed[i][k] <= clock

WindowInv == PastInv /\ \A c \in Customers, t \in 0..MaxClock : Balanced(c, t)

LEMMA BusySets ==
  ASSUME NEW c
  PROVE  LET log == LoggingTo(c)
             send == SendingTo(c)
         IN /\ IsFiniteSet(log) /\ IsFiniteSet(send)
            /\ Cardinality(log) \in Nat /\ Cardinality(send) \in Nat
            /\ Cardinality(log) + Cardinality(send) <= Cardinality(Workers)
<1> DEFINE log  == LoggingTo(c)
           send == SendingTo(c)
<1>1. log \subseteq Workers /\ send \subseteq Workers /\ log \cap send = {}
  BY DEF LoggingTo, SendingTo
<1> HIDE DEF log, send
<1>2. IsFiniteSet(log) /\ IsFiniteSet(send)
  BY <1>1, WorkersAssumption, FS_Subset
<1>3. Cardinality(log) \in Nat /\ Cardinality(send) \in Nat
  BY <1>2, FS_CardinalityType
<1>4. Cardinality(log \cup send) = Cardinality(log) + Cardinality(send) - Cardinality({})
  BY <1>1, <1>2, FS_Union
<1>5. log \cup send \subseteq Workers
  BY <1>1
<1>6. Cardinality(log \cup send) <= Cardinality(Workers)
  BY <1>5, WorkersAssumption, FS_Subset
<1>7. Cardinality({}) = 0
  BY FS_EmptySet
<1> QED BY <1>2, <1>3, <1>4, <1>6, <1>7 DEF log, send

LEMMA BusyThen ==
  ASSUME NEW c
  PROVE  /\ IsFiniteSet(LoggingTo(c)') /\ IsFiniteSet(SendingTo(c)')
         /\ Cardinality(LoggingTo(c)') \in Nat /\ Cardinality(SendingTo(c)') \in Nat
         /\ Cardinality(SendingTo(c)') <= Cardinality(Workers)
<1>1. LoggingTo(c)' \subseteq Workers /\ SendingTo(c)' \subseteq Workers
  BY DEF LoggingTo, SendingTo
<1> QED BY <1>1, WorkersAssumption, FS_Subset, FS_CardinalityType

\* What the arithmetic below is about.
LEMMA Numbers ==
  ASSUME TypeInv, TypeInv', NEW c, NEW t \in 0..MaxClock, Balanced(c, t)
  PROVE  /\ Cardinality(MailsOf(mailed, c, t)) \in Nat
         /\ Slack \in Nat /\ Slack' \in Nat /\ Cardinality(Workers) \in Nat
         /\ Waiting(c, t) \in Nat /\ Waiting(c, t) <= Cardinality(SendingTo(c))
         /\ clock \in Nat /\ clock' \in Nat /\ t \in Nat
<1>1. Cardinality(MailsOf(mailed, c, t)) \in Nat
  BY FS_CardinalityType DEF Balanced
<1>2. Slack' \in Nat
  <2>1. errors' \in Nat /\ crashes' \in Nat
    BY LimitsAssumption DEF TypeInv, TypeOK
  <2> QED BY <2>1, WorkersCount DEF Slack
<1>3. Waiting(c, t) \in Nat /\ Waiting(c, t) <= Cardinality(SendingTo(c))
  <2>1. Cardinality(SendingTo(c)) \in Nat
    BY BusySets
  <2> QED BY <2>1 DEF Waiting
<1>4. clock \in Nat /\ clock' \in Nat
  BY LimitsAssumption DEF TypeInv, TypeOK
<1> QED BY <1>1, <1>2, <1>3, <1>4, SlackNat, WorkersCount, LimitsAssumption

\* A mail about one invoice is in the windows that are open, of its customer.
LEMMA OneMoreMail ==
  ASSUME TypeInv, NEW i \in Invoices, MailLeaves(i), NEW c, NEW t \in 0..MaxClock,
         IsFiniteSet(MailsOf(mailed, c, t))
  PROVE  LET now  == MailsOf(mailed, c, t)
             next == MailsOf(mailed', c, t)
         IN /\ IsFiniteSet(next)
            /\ CustomerOf[i] = c /\ clock \in Window(t) =>
                 Cardinality(next) = Cardinality(now) + 1
            /\ ~(CustomerOf[i] = c /\ clock \in Window(t)) => next = now
<1>1. mailed \in [Invoices -> Seq(0..MaxClock)] /\ clock \in 0..MaxClock
  BY DEF TypeInv, TypeOK
<1>2. PICK s : s = mailed[i]
  OBVIOUS
<1>3. PICK n : n = Len(s) + 1
  OBVIOUS
<1>4. s \in Seq(0..MaxClock) /\ n \in Nat /\ DOMAIN s = 1..(n - 1)
  BY <1>1, <1>2, <1>3
<1>5. PICK box : box = mailed'
  OBVIOUS
<1>6. /\ \A j \in Invoices : j # i => box[j] = mailed[j]
      /\ box[i] = Append(s, clock)
  BY <1>1, <1>2, <1>5 DEF MailLeaves
<1>7. DOMAIN box[i] = 1..n /\ box[i][n] = clock /\ \A k \in 1..(n - 1) : box[i][k] = s[k]
  BY <1>1, <1>3, <1>4, <1>6
<1> DEFINE now  == MailsOf(mailed, c, t)
           next == MailsOf(box, c, t)
<1>8. <<i, n>> \notin now
  BY <1>2, <1>4 DEF MailsOf
<1>9. ASSUME NEW x \in Invoices \X Nat, x # <<i, n>>
      PROVE  x \in next <=> x \in now
  <2>1. CASE x[1] # i
    BY <1>6, <2>1 DEF MailsOf
  <2>2. CASE x[1] = i
    <3>1. x[2] # n
      BY <1>9, <2>2
    <3>2. x[2] \in DOMAIN box[i] <=> x[2] \in DOMAIN s
      BY <1>4, <1>7, <3>1
    <3>3. x[2] \in DOMAIN s => box[i][x[2]] = s[x[2]]
      BY <1>4, <1>7
    <3> QED BY <1>2, <2>2, <3>2, <3>3 DEF MailsOf
  <2> QED BY <2>1, <2>2
<1>10. <<i, n>> \in next <=> CustomerOf[i] = c /\ clock \in Window(t)
  <2>1. PICK x : x = <<i, n>>
    OBVIOUS
  <2>2. x \in Invoices \X Nat /\ x[1] = i /\ x[2] = n
    BY <1>4, <2>1
  <2>3. x[2] \in DOMAIN box[x[1]] /\ box[x[1]][x[2]] = clock
    BY <1>3, <1>4, <1>7, <2>2
  <2> QED BY <2>1, <2>2, <2>3 DEF MailsOf
<1>11. now \subseteq Invoices \X Nat /\ next \subseteq Invoices \X Nat
  BY DEF MailsOf
<1>12. CASE CustomerOf[i] = c /\ clock \in Window(t)
  <2>1. next = now \cup {<<i, n>>}
    BY <1>9, <1>10, <1>11, <1>12
  <2> HIDE DEF now, next
  <2>2. IsFiniteSet(next) /\ Cardinality(next) = Cardinality(now) + 1
    BY <1>8, <2>1, FS_AddElement DEF now
  <2> QED BY <1>5, <1>12, <2>2 DEF now, next
<1>13. CASE ~(CustomerOf[i] = c /\ clock \in Window(t))
  <2>1. next = now
    BY <1>8, <1>9, <1>10, <1>11, <1>13
  <2> QED BY <1>5, <1>13, <2>1
<1> QED BY <1>12, <1>13

\* A step that neither sends nor records a mail, and lets no handler past the
\* check of a window in which one is recorded.
LEMMA BalanceKept ==
  ASSUME TypeInv, TypeInv', NoMail, NEW c \in Customers, NEW t \in 0..MaxClock,
         Balanced(c, t), clock' >= clock,
         \A i \in Invoices : messages'[i].last = messages[i].last,
         Recorded(c, t) /\ clock' < t + Cooldown => SendingTo(c)' \subseteq SendingTo(c)
  PROVE  Balanced(c, t)'
<1> DEFINE n == Cardinality(MailsOf(mailed, c, t))
<1>1. MailsOf(mailed', c, t) = MailsOf(mailed, c, t)
  BY DEF NoMail
<1>2. Recorded(c, t)' <=> Recorded(c, t)
  BY DEF NoMail, Recorded
<1>3. LoggingTo(c)' = LoggingTo(c)
  BY DEF NoMail, LoggingTo, Invoice, Event
<1>4. Slack' >= Slack
  <2>1. errors \in Nat /\ errors' \in Nat
    BY LimitsAssumption DEF TypeInv, TypeOK
  <2> QED BY <2>1, SlackOfFault, Numbers DEF NoMail
<1>5. Recorded(c, t) => Waiting(c, t)' <= Waiting(c, t) /\ Waiting(c, t)' \in Nat
  <2> SUFFICES ASSUME Recorded(c, t)
               PROVE  Waiting(c, t)' <= Waiting(c, t) /\ Waiting(c, t)' \in Nat
    OBVIOUS
  <2>1. CASE clock' < t + Cooldown
    <3>1. clock < t + Cooldown
      BY <2>1, Numbers, LimitsAssumption
    <3>2. Cardinality(SendingTo(c)') <= Cardinality(SendingTo(c))
      BY <2>1, BusySets, FS_Subset
    <3> QED BY <2>1, <3>1, <3>2, BusyThen DEF Waiting
  <2>2. CASE ~(clock' < t + Cooldown)
    BY <2>2, Numbers DEF Waiting
  <2> QED BY <2>1, <2>2
<1>6. n \in Nat /\ IsFiniteSet(MailsOf(mailed, c, t))
  BY Numbers DEF Balanced
<1>7. Recorded(c, t) => n + Waiting(c, t)' <= Cardinality(Workers) + Slack'
  BY <1>4, <1>5, <1>6, Numbers DEF Balanced
<1>8. ~Recorded(c, t) => n <= Cardinality(LoggingTo(c)) + Slack'
  BY <1>4, <1>6, Numbers, BusySets DEF Balanced
<1> HIDE DEF n
<1> QED BY <1>1, <1>2, <1>3, <1>6, <1>7, <1>8 DEF Balanced, n

LEMMA WaitingThen ==
  ASSUME NEW c, NEW t
  PROVE  /\ Waiting(c, t)' \in Nat
         /\ Waiting(c, t)' = IF clock' < t + Cooldown THEN Cardinality(SendingTo(c)') ELSE 0
BY BusyThen DEF Waiting

LEMMA PostBalance ==
  ASSUME TypeInv, TypeInv', NEW w \in Workers, Post(w), NEW c \in Customers,
         NEW t \in 0..MaxClock, Balanced(c, t)
  PROVE  Balanced(c, t)'
<1> DEFINE n    == Cardinality(MailsOf(mailed, c, t))
           next == Cardinality(MailsOf(mailed', c, t))
           log  == Cardinality(LoggingTo(c))
           send == Cardinality(SendingTo(c))
<1>1. PICK i : i = Invoice(w)
  OBVIOUS
<1>2. /\ i \in Invoices /\ MailLeaves(i) /\ pc[w] = "send" /\ clock' = clock
      /\ UNCHANGED <<messages, ev, crashes, errors>>
  BY <1>1 DEF Post, TypeInv, InvoiceNamed, NamesInvoice, ledger
<1>3. \A v \in Workers : pc'[v] = IF v = w THEN "log" ELSE pc[v]
  BY DEF Post, Goto, TypeInv, TypeOK
<1>4. (Recorded(c, t)' <=> Recorded(c, t)) /\ Slack' = Slack
  BY <1>2 DEF Recorded, SentMessageCount, Slack
<1>5. IsFiniteSet(MailsOf(mailed', c, t))
  BY <1>2, OneMoreMail DEF Balanced
<1>6. CASE CustomerOf[i] # c
  <2>1. LoggingTo(c)' = LoggingTo(c) /\ SendingTo(c)' = SendingTo(c)
    BY <1>1, <1>2, <1>3, <1>6 DEF LoggingTo, SendingTo, Invoice, Event
  <2>2. MailsOf(mailed', c, t) = MailsOf(mailed, c, t)
    BY <1>2, <1>6, OneMoreMail DEF Balanced
  <2>3. Waiting(c, t)' = Waiting(c, t)
    BY <1>2, <2>1 DEF Waiting
  <2> QED BY <1>4, <2>1, <2>2, <2>3 DEF Balanced
<1>7. CASE CustomerOf[i] = c
  <2>1. /\ LoggingTo(c)' = LoggingTo(c) \cup {w} /\ w \notin LoggingTo(c)
        /\ SendingTo(c)' = SendingTo(c) \ {w} /\ w \in SendingTo(c)
    BY <1>1, <1>2, <1>3, <1>7 DEF LoggingTo, SendingTo, Invoice, Event
  <2>2. Cardinality(LoggingTo(c)') = log + 1 /\ Cardinality(SendingTo(c)') = send - 1
    <3>1. IsFiniteSet(LoggingTo(c)) /\ IsFiniteSet(SendingTo(c))
      BY BusySets
    <3>2. Cardinality(LoggingTo(c) \cup {w}) = log + 1
      BY <2>1, <3>1, FS_AddElement
    <3>3. Cardinality(SendingTo(c) \ {w}) = send - 1
      BY <2>1, <3>1, FS_RemoveElement
    <3> QED BY <2>1, <3>2, <3>3
  <2>3. next = n \/ (next = n + 1 /\ clock \in Window(t))
    BY <1>2, <1>7, OneMoreMail DEF Balanced
  <2>4. n \in Nat /\ log \in Nat /\ send \in Nat
    BY Numbers, BusySets
  <2>5. Recorded(c, t) => next + Waiting(c, t)' <= Cardinality(Workers) + Slack
    <3> SUFFICES ASSUME Recorded(c, t)
                 PROVE  next + Waiting(c, t)' <= Cardinality(Workers) + Slack
      OBVIOUS
    <3>1. n + Waiting(c, t) <= Cardinality(Workers) + Slack
      BY DEF Balanced
    <3>2. CASE clock < t + Cooldown
      <4>1. Waiting(c, t) = send /\ Waiting(c, t)' = send - 1
        BY <1>2, <2>2, <3>2, WaitingThen DEF Waiting
      <4> HIDE DEF n, next, send
      <4> QED BY <2>3, <2>4, <3>1, <4>1, Numbers
    <3>3. CASE ~(clock < t + Cooldown)
      <4>1. Waiting(c, t) = 0 /\ Waiting(c, t)' = 0
        BY <1>2, <3>3, WaitingThen DEF Waiting
      <4>2. next = n
        BY <2>3, <3>3 DEF Window
      <4> HIDE DEF n, next
      <4> QED BY <2>4, <3>1, <4>1, <4>2
    <3> QED BY <3>2, <3>3
  <2>6. ~Recorded(c, t) => next <= log + 1 + Slack
    <3> SUFFICES ASSUME ~Recorded(c, t) PROVE next <= log + 1 + Slack
      OBVIOUS
    <3>1. n <= log + Slack
      BY DEF Balanced
    <3> HIDE DEF n, next, log
    <3> QED BY <2>3, <2>4, <3>1, Numbers
  <2> QED BY <1>4, <1>5, <2>2, <2>5, <2>6 DEF Balanced
<1> QED BY <1>6, <1>7

LEMMA LostBalance ==
  ASSUME TypeInv, TypeInv', NEW w \in Workers, PostAnswerLost(w), NEW c \in Customers,
         NEW t \in 0..MaxClock, Balanced(c, t)
  PROVE  Balanced(c, t)'
<1> DEFINE n    == Cardinality(MailsOf(mailed, c, t))
           next == Cardinality(MailsOf(mailed', c, t))
           log  == Cardinality(LoggingTo(c))
<1>1. PICK i : i = Invoice(w)
  OBVIOUS
<1>2. /\ i \in Invoices /\ MailLeaves(i) /\ clock' = clock /\ crashes' = crashes
      /\ errors' = errors + 1 /\ UNCHANGED <<messages, ev, pc>>
  BY <1>1 DEF PostAnswerLost, TypeInv, InvoiceNamed, NamesInvoice, ledger, workers
<1>3. Recorded(c, t)' <=> Recorded(c, t)
  BY <1>2 DEF Recorded, SentMessageCount
<1>4. Slack' = Slack + 1
  <2>1. errors \in Nat
    BY LimitsAssumption DEF TypeInv, TypeOK
  <2>2. errors' >= errors /\ errors' - errors = 1
    BY <1>2, <2>1
  <2>3. Slack' - Slack = errors' - errors
    BY <1>2, <2>2, SlackOfFault
  <2> QED BY <2>2, <2>3, Numbers
<1>5. LoggingTo(c)' = LoggingTo(c) /\ Waiting(c, t)' = Waiting(c, t)
  BY <1>2 DEF LoggingTo, SendingTo, Waiting, Invoice, Event
<1>6. IsFiniteSet(MailsOf(mailed', c, t)) /\ (next = n \/ next = n + 1)
  BY <1>2, OneMoreMail DEF Balanced
<1>7. Recorded(c, t) => next + Waiting(c, t) <= Cardinality(Workers) + Slack'
  <2> SUFFICES ASSUME Recorded(c, t)
               PROVE  next + Waiting(c, t) <= Cardinality(Workers) + Slack'
    OBVIOUS
  <2>1. n + Waiting(c, t) <= Cardinality(Workers) + Slack /\ n \in Nat
    BY Numbers DEF Balanced
  <2> HIDE DEF n, next
  <2> QED BY <1>4, <1>6, <2>1, Numbers
<1>8. ~Recorded(c, t) => next <= log + Slack'
  <2> SUFFICES ASSUME ~Recorded(c, t) PROVE next <= log + Slack'
    OBVIOUS
  <2>1. n <= log + Slack /\ n \in Nat /\ log \in Nat
    BY Numbers, BusySets DEF Balanced
  <2> HIDE DEF n, next, log
  <2> QED BY <1>4, <1>6, <2>1, Numbers
<1> QED BY <1>3, <1>5, <1>6, <1>7, <1>8 DEF Balanced

LEMMA RecordBalance ==
  ASSUME TypeInv, TypeInv', PastInv, NEW w \in Workers, RecordSent(w), NEW c \in Customers,
         NEW t \in 0..MaxClock, Balanced(c, t)
  PROVE  Balanced(c, t)'
<1> DEFINE n    == Cardinality(MailsOf(mailed, c, t))
           log  == Cardinality(LoggingTo(c))
           send == Cardinality(SendingTo(c))
<1>1. PICK i : i = Invoice(w)
  OBVIOUS
<1>2. /\ i \in Invoices /\ pc[w] = "log" /\ clock' = clock /\ mailed' = mailed
      /\ messages' = [messages EXCEPT ![i] = OneMoreSent(@)]
      /\ UNCHANGED <<ev, crashes, errors>>
  BY <1>1 DEF RecordSent, TypeInv, InvoiceNamed, NamesInvoice, world
<1>3. \A v \in Workers : pc'[v] = IF v = w THEN "mark" ELSE pc[v]
  BY DEF RecordSent, Goto, TypeInv, TypeOK
<1>4. Slack' = Slack
  BY <1>2 DEF Slack
<1>5. SendingTo(c)' = SendingTo(c)
  BY <1>2, <1>3 DEF SendingTo, Invoice, Event
<1>6. Waiting(c, t)' = Waiting(c, t)
  BY <1>2, <1>5 DEF Waiting
<1>7. \A j \in Invoices : j # i => messages'[j] = messages[j]
  BY <1>2 DEF TypeInv, TypeOK
<1>8. messages'[i].last = clock /\ SentMessageCount(i)' > 0
  <2>1. messages[i] \in Counts /\ messages'[i] = OneMoreSent(messages[i])
    BY <1>2 DEF TypeInv, TypeOK, Counts
  <2>2. SentMessageCount(i)' = SentMessageCount(i) + 1 /\ messages'[i].last = clock
    BY <2>1 DEF OneMoreSent, SentMessageCount, Counts
  <2> QED BY <1>2, <2>2, SentCountNat DEF TypeInv
<1>9. n \in Nat /\ log \in Nat /\ send \in Nat /\ log + send <= Cardinality(Workers)
  BY Numbers, BusySets
<1>10. CASE CustomerOf[i] # c
  <2>1. LoggingTo(c)' = LoggingTo(c)
    BY <1>1, <1>2, <1>3, <1>10 DEF LoggingTo, Invoice, Event
  <2>2. Recorded(c, t)' <=> Recorded(c, t)
    BY <1>7, <1>10 DEF Recorded, SentMessageCount
  <2> QED BY <1>2, <1>4, <1>6, <2>1, <2>2 DEF Balanced
<1>11. CASE CustomerOf[i] = c /\ clock >= t
  <2>1. Recorded(c, t)'
    BY <1>2, <1>8, <1>11 DEF Recorded
  <2>2. n + Waiting(c, t) <= Cardinality(Workers) + Slack
    <3>1. CASE Recorded(c, t)
      BY <3>1 DEF Balanced
    <3>2. CASE ~Recorded(c, t)
      <4>1. n <= log + Slack
        BY <3>2 DEF Balanced
      <4>2. Waiting(c, t) <= send /\ Waiting(c, t) \in Nat
        BY Numbers
      <4> HIDE DEF n, log, send
      <4> QED BY <1>9, <4>1, <4>2, Numbers
    <3> QED BY <3>1, <3>2
  <2> QED BY <1>2, <1>4, <1>6, <2>1, <2>2 DEF Balanced
<1>12. CASE CustomerOf[i] = c /\ ~(clock >= t)
  <2>1. MailsOf(mailed, c, t) = {}
    <3> SUFFICES ASSUME NEW x \in MailsOf(mailed, c, t) PROVE FALSE
      OBVIOUS
    <3>1. x[1] \in Invoices /\ x[2] \in DOMAIN mailed[x[1]] /\ mailed[x[1]][x[2]] \in Window(t)
      BY DEF MailsOf
    <3>2. mailed[x[1]][x[2]] <= clock
      BY <3>1 DEF PastInv
    <3>3. mailed[x[1]][x[2]] \in Nat /\ mailed[x[1]][x[2]] >= t
      BY <3>1, Numbers, LimitsAssumption DEF Window
    <3> QED BY <1>12, <3>2, <3>3, Numbers
  <2>2. n = 0
    BY <2>1, FS_EmptySet
  <2>3. Waiting(c, t) <= Cardinality(Workers) + Slack
    <3>1. Waiting(c, t) <= send /\ Waiting(c, t) \in Nat
      BY Numbers
    <3> HIDE DEF send, log
    <3> QED BY <1>9, <3>1, Numbers
  <2>4. Cardinality(LoggingTo(c)') \in Nat
    BY BusyThen
  <2>5. n + Waiting(c, t)' <= Cardinality(Workers) + Slack'
    BY <1>4, <1>6, <2>2, <2>3, Numbers
  <2>6. n <= Cardinality(LoggingTo(c)') + Slack'
    BY <2>2, <2>4, Numbers
  <2> QED BY <1>2, <2>5, <2>6 DEF Balanced
<1> QED BY <1>10, <1>11, <1>12

LEMMA UnrecordedBalance ==
  ASSUME TypeInv, TypeInv', NEW w \in Workers, RecordSentFails(w), NEW c \in Customers,
         NEW t \in 0..MaxClock, Balanced(c, t)
  PROVE  Balanced(c, t)'
<1> DEFINE n   == Cardinality(MailsOf(mailed, c, t))
           log == Cardinality(LoggingTo(c))
<1>1. /\ pc[w] = "log" /\ clock' = clock /\ mailed' = mailed /\ errors' = errors + 1
      /\ UNCHANGED <<ev, crashes, messages>>
  BY DEF RecordSentFails, ledger
<1>2. \A v \in Workers : pc'[v] = IF v = w THEN "mark" ELSE pc[v]
  BY DEF RecordSentFails, Goto, TypeInv, TypeOK
<1>3. Slack' = Slack + 1
  <2>1. errors \in Nat
    BY LimitsAssumption DEF TypeInv, TypeOK
  <2>2. errors' >= errors /\ errors' - errors = 1
    BY <1>1, <2>1
  <2>3. Slack' - Slack = errors' - errors
    BY <1>1, <2>2, SlackOfFault
  <2> QED BY <2>2, <2>3, Numbers
<1>4. (Recorded(c, t)' <=> Recorded(c, t)) /\ SendingTo(c)' = SendingTo(c)
  BY <1>1, <1>2 DEF Recorded, SentMessageCount, SendingTo, Invoice, Event
<1>5. Waiting(c, t)' = Waiting(c, t)
  BY <1>1, <1>4 DEF Waiting
<1>6. Cardinality(LoggingTo(c)') + 1 >= log
  <2>1. LoggingTo(c) \subseteq LoggingTo(c)' \cup {w}
    BY <1>1, <1>2 DEF LoggingTo, Invoice, Event
  <2>2. IsFiniteSet(LoggingTo(c)')
    BY BusyThen
  <2>3. IsFiniteSet(LoggingTo(c)' \cup {w})
        /\ Cardinality(LoggingTo(c)' \cup {w}) <= Cardinality(LoggingTo(c)') + 1
    <3>1. PICK set : set = LoggingTo(c)'
      OBVIOUS
    <3>2. IsFiniteSet(set) /\ Cardinality(set) \in Nat
      BY <2>2, <3>1, BusyThen
    <3>3. IsFiniteSet(set \cup {w}) /\ Cardinality(set \cup {w}) <= Cardinality(set) + 1
      <4>1. CASE w \in set
        <5>1. set \cup {w} = set
          BY <4>1
        <5>2. Cardinality(set) <= Cardinality(set) + 1
          BY <3>2
        <5> QED BY <3>2, <5>1, <5>2
      <4>2. CASE w \notin set
        <5>1. IsFiniteSet(set \cup {w}) /\ Cardinality(set \cup {w}) = Cardinality(set) + 1
          BY <3>2, <4>2, FS_AddElement
        <5>2. Cardinality(set) + 1 <= Cardinality(set) + 1
          BY <3>2
        <5> QED BY <5>1, <5>2
      <4> QED BY <4>1, <4>2
    <3> QED BY <3>1, <3>3
  <2>4. log <= Cardinality(LoggingTo(c)' \cup {w})
    BY <2>1, <2>3, FS_Subset
  <2>5. Cardinality(LoggingTo(c)' \cup {w}) \in Nat
    BY <2>3, FS_CardinalityType
  <2> QED BY <2>3, <2>4, <2>5, BusySets, BusyThen
<1>7. n \in Nat /\ log \in Nat /\ Cardinality(LoggingTo(c)') \in Nat
  BY Numbers, BusySets, BusyThen
<1>8. Recorded(c, t) => n + Waiting(c, t) <= Cardinality(Workers) + Slack'
  <2> SUFFICES ASSUME Recorded(c, t)
               PROVE  n + Waiting(c, t) <= Cardinality(Workers) + Slack'
    OBVIOUS
  <2>1. n + Waiting(c, t) <= Cardinality(Workers) + Slack
    BY DEF Balanced
  <2> HIDE DEF n
  <2> QED BY <1>3, <1>7, <2>1, Numbers
<1>9. ~Recorded(c, t) => n <= Cardinality(LoggingTo(c)') + Slack'
  <2> SUFFICES ASSUME ~Recorded(c, t) PROVE n <= Cardinality(LoggingTo(c)') + Slack'
    OBVIOUS
  <2>1. n <= log + Slack
    BY DEF Balanced
  <2>2. PICK later : later = Cardinality(LoggingTo(c)')
    OBVIOUS
  <2> HIDE DEF n, log
  <2>3. n <= later + Slack'
    BY <1>3, <1>6, <1>7, <2>1, <2>2, Numbers
  <2> QED BY <2>2, <2>3
<1> QED BY <1>1, <1>4, <1>5, <1>8, <1>9 DEF Balanced

LEMMA CrashBalance ==
  ASSUME TypeInv, TypeInv', NEW w \in Workers, Crash(w), NEW c \in Customers,
         NEW t \in 0..MaxClock, Balanced(c, t)
  PROVE  Balanced(c, t)'
<1> DEFINE n   == Cardinality(MailsOf(mailed, c, t))
           log == Cardinality(LoggingTo(c))
<1>1. clock' = clock /\ mailed' = mailed /\ UNCHANGED <<ev, messages>>
  BY DEF Crash, ledger
<1>2. \A v \in Workers : pc'[v] \in {"idle", pc[v]}
  BY DEF Crash
<1>3. Slack' = Slack + Cardinality(Workers)
  BY SlackOfCrash DEF Crash
<1>4. Recorded(c, t)' <=> Recorded(c, t)
  BY <1>1 DEF Recorded, SentMessageCount
<1>5. Waiting(c, t)' <= Waiting(c, t) /\ Waiting(c, t)' \in Nat
  <2>1. SendingTo(c)' \subseteq SendingTo(c)
    BY <1>1, <1>2 DEF SendingTo, Invoice, Event
  <2>2. Cardinality(SendingTo(c)') <= Cardinality(SendingTo(c))
    BY <2>1, BusySets, FS_Subset
  <2> QED BY <1>1, <2>2, WaitingThen, BusySets DEF Waiting
<1>6. n \in Nat /\ log \in Nat /\ log <= Cardinality(Workers)
  BY Numbers, BusySets
<1>7. Recorded(c, t) => n + Waiting(c, t)' <= Cardinality(Workers) + Slack'
  <2> SUFFICES ASSUME Recorded(c, t)
               PROVE  n + Waiting(c, t)' <= Cardinality(Workers) + Slack'
    OBVIOUS
  <2>1. n + Waiting(c, t) <= Cardinality(Workers) + Slack
    BY DEF Balanced
  <2> HIDE DEF n
  <2> QED BY <1>3, <1>5, <1>6, <2>1, Numbers
<1>8. ~Recorded(c, t) => n <= Cardinality(LoggingTo(c)') + Slack'
  <2> SUFFICES ASSUME ~Recorded(c, t) PROVE n <= Cardinality(LoggingTo(c)') + Slack'
    OBVIOUS
  <2>1. n <= log + Slack
    BY DEF Balanced
  <2>2. n <= Slack'
    <3> HIDE DEF n, log
    <3> QED BY <1>3, <1>6, <2>1, Numbers
  <2>3. Cardinality(LoggingTo(c)') \in Nat
    BY BusyThen
  <2> QED BY <1>6, <2>2, <2>3, Numbers
<1> QED BY <1>1, <1>4, <1>7, <1>8 DEF Balanced

-------------------------------------------------------------------------------
\* Which steps are which.

\* No message row gets a later mail, and time may pass.
Recording == clock' >= clock /\ \A i \in Invoices : messages'[i].last = messages[i].last

\* Nobody gets to the point of sending.
NoneSends == \A v \in Workers : pc'[v] = "send" => pc[v] = "send" /\ ev'[v] = ev[v]

LEMMA NoneSendsMove ==
  ASSUME TypeInv, NEW w \in Workers, NEW l, Goto(w, l), l # "send",
         \A v \in Workers \ {w} : ev'[v] = ev[v], UNCHANGED <<messages, clock>>
  PROVE  Recording /\ NoneSends
<1>1. \A v \in Workers : pc'[v] = IF v = w THEN l ELSE pc[v]
  BY DEF Goto, TypeInv, TypeOK
<1>2. clock \in Nat
  BY LimitsAssumption DEF TypeInv, TypeOK
<1> QED BY <1>1, <1>2 DEF Recording, NoneSends

LEMMA WindowFrame ==
  ASSUME TypeInv, [Next]_vars
  PROVE  \/ Recording /\ NoneSends
         \/ \E w \in Workers : \/ CheckCooldown(w) \/ Post(w) \/ PostAnswerLost(w)
                               \/ RecordSent(w) \/ RecordSentFails(w) \/ Crash(w)
<1> USE DEF TypeInv, TypeOK
<1> DEFINE Idle == Recording /\ NoneSends
<1>0. clock \in Nat
  BY LimitsAssumption
<1>deliver. ASSUME NEW w \in Workers, NEW e \in Events, Deliver(w, e) PROVE Idle
  <2>1. FirstCall(Body[e]) # "send"
    BY DEF FirstCall
  <2>2. Goto(w, FirstCall(Body[e])) /\ UNCHANGED <<messages, clock>>
        /\ \A v \in Workers \ {w} : ev'[v] = ev[v]
    BY <1>deliver DEF Deliver, world
  <2> QED BY <2>1, <2>2, NoneSendsMove
<1>replay. ASSUME NEW w \in Workers, NEW e \in Events, Replay(w, e) PROVE Idle
  BY <1>0, <1>replay DEF Replay, ledger, workers, Recording, NoneSends
<1>moves. ASSUME NEW w \in Workers,
                 \/ Unhandled(w) \/ Reply(w) \/ Refuse(w) \/ CheckEarly(w) \/ FindRow(w)
                 \/ RecordFailure(w) \/ RecordConflict(w) \/ Gate(w) \/ CheckCap(w)
                 \/ LookUp(w) \/ MarkEarlyPaid(w) \/ OpenBySub(w) \/ OpenByCustomer(w)
                 \/ ReadState(w) \/ WriteState(w) \/ AlreadyThere(w) \/ IllegalMove(w)
                 \/ StoreError(w) \/ Forget(w) \/ ForgetFails(w)
          PROVE  Idle
  <2>1. UNCHANGED <<messages, clock, ev>>
    BY <1>moves DEF Unhandled, Reply, Refuse, CheckEarly, FindRow, RecordFailure,
       RecordConflict, Gate, CheckCap, LookUp, MarkEarlyPaid, OpenBySub, OpenByCustomer,
       ReadState, WriteState, AlreadyThere, IllegalMove, StoreError, Forget, ForgetFails,
       ledger, world
  <2>2. PICK l \in {"reply", "idle", "forget", "find", "record", "gate", "cap", "cooldown",
                    "mark", "mark_early", "open_by_customer", "write"} : Goto(w, l)
    BY <1>moves DEF Unhandled, Reply, Refuse, CheckEarly, FindRow, RecordFailure,
       RecordConflict, Gate, CheckCap, LookUp, MarkEarlyPaid, OpenBySub, OpenByCustomer,
       ReadState, WriteState, AlreadyThere, IllegalMove, StoreError, Forget, ForgetFails,
       Advance, Return, Raise
  <2> QED BY <2>1, <2>2, NoneSendsMove
<1>bounce. ASSUME NEW i \in Invoices, Bounce(i) PROVE Idle
  <2>1. \A j \in Invoices : messages'[j].last = messages[j].last
    BY <1>bounce DEF Bounce, TurnedBounced
  <2> QED BY <1>0, <1>bounce, <2>1 DEF Bounce, workers, world, Recording, NoneSends
<1>tick. ASSUME Tick PROVE Idle
  BY <1>0, <1>tick DEF Tick, ledger, workers, Recording, NoneSends
<1>stutter. ASSUME UNCHANGED vars PROVE Idle
  BY <1>0, <1>stutter DEF vars, ledger, workers, world, Recording, NoneSends
<1> HIDE DEF Idle
<1>end. \/ Idle
        \/ \E w \in Workers : \/ CheckCooldown(w) \/ Post(w) \/ PostAnswerLost(w)
                              \/ RecordSent(w) \/ RecordSentFails(w) \/ Crash(w)
  BY <1>deliver, <1>replay, <1>moves, <1>bounce, <1>tick, <1>stutter
  DEF Next, Step, StoreFailure, Fault, Receive
<1> QED BY <1>end DEF Idle

\* A handler that passes the check does so in no window in which a mail is recorded.
LEMMA PassesOutside ==
  ASSUME TypeInv, NEW w \in Workers, CheckCooldown(w), NEW c \in Customers,
         NEW t \in 0..MaxClock, Recorded(c, t), clock' < t + Cooldown
  PROVE  SendingTo(c)' \subseteq SendingTo(c)
<1>1. PICK i : i = Invoice(w)
  OBVIOUS
<1>2. i \in Invoices /\ pc[w] = "cooldown" /\ UNCHANGED <<ev, clock>>
  BY <1>1 DEF CheckCooldown, TypeInv, InvoiceNamed, NamesInvoice, world
<1>3. PICK l \in {"reply", "send"} : Goto(w, l) /\ (l = "send" => ~CoolingDown(i))
  BY <1>1 DEF CheckCooldown, Return
<1>4. \A v \in Workers : pc'[v] = IF v = w THEN l ELSE pc[v]
  BY <1>3 DEF Goto, TypeInv, TypeOK
<1>5. CASE CustomerOf[i] = c
  <2>1. PICK j \in Invoices : /\ CustomerOf[j] = c /\ SentMessageCount(j) > 0
                              /\ messages[j].last >= t
    BY DEF Recorded
  <2>2. clock < messages[j].last + Cooldown
    <3>1. messages[j].last \in Nat /\ clock \in Nat /\ t \in Nat
      BY LimitsAssumption DEF TypeInv, TypeOK
    <3> QED BY <1>2, <2>1, <3>1, LimitsAssumption
  <2>3. CoolingDown(i)
    BY <1>5, <2>1, <2>2 DEF CoolingDown, MailedAlike
  <2> QED BY <1>2, <1>3, <1>4, <2>3 DEF SendingTo, Invoice, Event
<1>6. CASE CustomerOf[i] # c
  BY <1>1, <1>2, <1>4, <1>6 DEF SendingTo, Invoice, Event
<1> QED BY <1>5, <1>6

LEMMA PastStep ==
  ASSUME TypeInv, PastInv, [Next]_vars
  PROVE  PastInv'
<1>0. clock \in Nat /\ mailed \in [Invoices -> Seq(0..MaxClock)] /\ clock \in 0..MaxClock
  BY LimitsAssumption DEF TypeInv, TypeOK
<1>1. CASE mailed' = mailed /\ clock' >= clock /\ clock' \in Nat
  <2> SUFFICES ASSUME NEW i \in Invoices, NEW k \in DOMAIN mailed[i]
               PROVE  mailed[i][k] <= clock'
    BY <1>1 DEF PastInv
  <2>1. mailed[i][k] \in Nat /\ mailed[i][k] <= clock
    BY <1>0, LimitsAssumption DEF PastInv
  <2> QED BY <1>0, <1>1, <2>1
<1>2. ASSUME NEW j \in Invoices, MailLeaves(j), clock' = clock PROVE PastInv'
  <2> SUFFICES ASSUME NEW i \in Invoices, NEW k \in DOMAIN mailed'[i]
               PROVE  mailed'[i][k] <= clock
    BY <1>2 DEF PastInv
  <2>1. CASE i # j
    BY <1>0, <1>2, <2>1 DEF MailLeaves, PastInv
  <2>2. CASE i = j
    <3>1. mailed'[i] = Append(mailed[i], clock)
      BY <1>0, <1>2, <2>2 DEF MailLeaves
    <3>2. PICK s : s = mailed[i]
      OBVIOUS
    <3>3. s \in Seq(0..MaxClock) /\ DOMAIN s = 1..Len(s) /\ Len(s) \in Nat
      BY <1>0, <3>2
    <3>4. k \in 1..(Len(s) + 1) /\ mailed'[i] = Append(s, clock)
      BY <1>0, <3>1, <3>2, <3>3
    <3>5. CASE k = Len(s) + 1
      <4>1. mailed'[i][k] = clock
        BY <3>3, <3>4, <3>5, <1>0
      <4> QED BY <1>0, <4>1
    <3>6. CASE k # Len(s) + 1
      <4>1. k \in DOMAIN s /\ mailed'[i][k] = s[k]
        BY <1>0, <3>3, <3>4, <3>6
      <4> QED BY <3>2, <4>1 DEF PastInv
    <3> QED BY <3>5, <3>6
  <2> QED BY <2>1, <2>2
<1>3. ASSUME NEW w \in Workers, Post(w) \/ PostAnswerLost(w) PROVE PastInv'
  <2>1. PICK i : i = Invoice(w)
    OBVIOUS
  <2>2. i \in Invoices /\ MailLeaves(i) /\ clock' = clock
    BY <1>3, <2>1 DEF Post, PostAnswerLost, TypeInv, InvoiceNamed, NamesInvoice
  <2> QED BY <1>2, <2>2
<1>4. ASSUME NEW w \in Workers,
             CheckCooldown(w) \/ RecordSent(w) \/ RecordSentFails(w) \/ Crash(w)
      PROVE  PastInv'
  <2>1. mailed' = mailed /\ clock' = clock
    BY <1>4 DEF CheckCooldown, RecordSent, RecordSentFails, Crash, world
  <2> QED BY <1>0, <1>1, <2>1
<1>5. CASE NoMail /\ Recording
  <2>1. clock' \in Nat
    BY <1>0, TypeStep, LimitsAssumption DEF TypeInv, TypeOK
  <2> QED BY <1>1, <1>5, <2>1 DEF NoMail, Recording
<1> QED BY <1>3, <1>4, <1>5, MailFrame, WindowFrame

LEMMA WindowStep == TypeInv /\ TypeInv' /\ WindowInv /\ [Next]_vars => WindowInv'
<1> SUFFICES ASSUME TypeInv, TypeInv', WindowInv, [Next]_vars PROVE WindowInv'
  OBVIOUS
<1>1. PastInv /\ PastInv'
  BY PastStep DEF WindowInv
<1> SUFFICES ASSUME NEW c \in Customers, NEW t \in 0..MaxClock PROVE Balanced(c, t)'
  BY <1>1 DEF WindowInv
<1>2. Balanced(c, t)
  BY DEF WindowInv
<1>3. ASSUME NEW w \in Workers,
             Post(w) \/ PostAnswerLost(w) \/ RecordSent(w) \/ RecordSentFails(w) \/ Crash(w)
      PROVE  Balanced(c, t)'
  BY <1>1, <1>2, <1>3, PostBalance, LostBalance, RecordBalance, UnrecordedBalance, CrashBalance
<1>4. ASSUME NoMail, NEW w \in Workers, CheckCooldown(w) PROVE Balanced(c, t)'
  <2>1. clock' >= clock /\ \A i \in Invoices : messages'[i].last = messages[i].last
    <3>1. clock \in Nat /\ clock' = clock /\ messages' = messages
      BY <1>4, LimitsAssumption DEF CheckCooldown, ledger, world, TypeInv, TypeOK
    <3> QED BY <3>1
  <2> QED BY <1>2, <1>4, <2>1, PassesOutside, BalanceKept
<1>5. ASSUME NoMail, Recording, NoneSends PROVE Balanced(c, t)'
  <2>1. SendingTo(c)' \subseteq SendingTo(c)
    BY <1>5 DEF NoneSends, SendingTo, Invoice, Event
  <2> QED BY <1>2, <1>5, <2>1, BalanceKept DEF Recording
<1> QED BY <1>3, <1>4, <1>5, MailFrame, WindowFrame

LEMMA WindowInit == Init => WindowInv
<1> SUFFICES ASSUME Init PROVE WindowInv
  OBVIOUS
<1>1. PastInv
  BY DEF Init, PastInv
<1> SUFFICES ASSUME NEW c \in Customers, NEW t \in 0..MaxClock PROVE Balanced(c, t)
  BY <1>1 DEF WindowInv
<1>2. MailsOf(mailed, c, t) = {}
  BY DEF Init, MailsOf
<1>3. ~Recorded(c, t)
  BY DEF Init, Recorded, SentMessageCount
<1>4. IsFiniteSet(MailsOf(mailed, c, t)) /\ Cardinality(MailsOf(mailed, c, t)) = 0
  BY <1>2, FS_EmptySet
<1>5. Slack \in Nat
  BY TypeInit, SlackNat
<1> QED BY <1>3, <1>4, <1>5, BusySets DEF Balanced

\* The window, as the property writes it.
LEMMA WindowMails ==
  ASSUME TypeInv, NEW c \in Customers, NEW t \in 0..MaxClock
  PROVE  MailsTo(c, Window(t)) = MailsOf(mailed, c, t)
<1>1. \A i \in Invoices : DOMAIN mailed[i] \subseteq Nat
  BY DEF TypeInv, TypeOK
<1>2. ASSUME NEW x PROVE x \in MailsTo(c, Window(t)) <=> x \in MailsOf(mailed, c, t)
  <2>1. x \in MailsTo(c, Window(t)) <=>
          \E i \in Invoices : CustomerOf[i] = c
             /\ \E k \in DOMAIN mailed[i] : mailed[i][k] \in Window(t) /\ x = <<i, k>>
    BY DEF MailsTo
  <2>2. x \in MailsOf(mailed, c, t) <=>
          \E i \in Invoices, k \in Nat : x = <<i, k>> /\ CustomerOf[i] = c
             /\ k \in DOMAIN mailed[i] /\ mailed[i][k] \in Window(t)
    BY DEF MailsOf
  <2> QED BY <1>1, <2>1, <2>2
<1> QED BY <1>2

LEMMA WindowBound ==
  ASSUME TypeInv, WindowInv
  PROVE  CooldownKept
<1> SUFFICES ASSUME NEW c \in Customers, NEW t \in 0..MaxClock
             PROVE  Cardinality(MailsTo(c, Window(t))) <= Cardinality(Workers) + Slack
  BY DEF CooldownKept, Window
<1> DEFINE n   == Cardinality(MailsOf(mailed, c, t))
           log == Cardinality(LoggingTo(c))
<1>1. Balanced(c, t)
  BY DEF WindowInv
<1>2. n \in Nat /\ Slack \in Nat /\ Cardinality(Workers) \in Nat
  BY <1>1, FS_CardinalityType, SlackNat, WorkersCount DEF Balanced
<1>3. Waiting(c, t) \in Nat
  BY BusySets DEF Waiting
<1>4. log \in Nat /\ log <= Cardinality(Workers)
  BY BusySets, <1>2
<1>5. n + Waiting(c, t) <= Cardinality(Workers) + Slack \/ n <= log + Slack
  BY <1>1 DEF Balanced
<1>6. n <= Cardinality(Workers) + Slack
  <2> HIDE DEF n, log
  <2> QED BY <1>2, <1>3, <1>4, <1>5
<1> QED BY <1>6, WindowMails

\* The suppression window of _cooldown_remaining (loop.py:225-253): however the events of one
\* person are spread over workers and processes, and about whichever invoices, the mails that
\* leave for a person in any window are no more than the workers, and one for each mail that
\* a fault kept out of the ledger.
THEOREM CooldownHolds == Spec => []CooldownKept
<1> QED BY TypeInit, TypeStep, WindowInit, WindowStep, WindowBound, PTL DEF Spec

-------------------------------------------------------------------------------
\* Churn.  handle_churn falls back from the subscription to the customer, which is
\* right as long as a customer has one subscription.

\* SubOf names it: an event about an invoice names that subscription or none, and a
\* cancellation names it.
OneSubscriptionEach(SubOf) ==
  /\ SubOf \in [Customers -> Subs]
  /\ \A e \in Events :
       LET b == Body[e] IN
       /\ b.type = "payment_failed" /\ b.invoice \in Invoices =>
            b.sub \in {NoSub, SubOf[CustomerOf[b.invoice]]}
       /\ b.type = "deleted" => b.sub = SubOf[b.customer]

SubRows(SubOf) == \A i \in Invoices : failures[i].sub \in {NoSub, SubOf[CustomerOf[i]]}

\* What a worker is about, and whom a churn closes.
SubWorker(SubOf, w) ==
  LET type == Event(w).type IN
  /\ pc[w] \in {"early", "find", "record"} \cup Delivering => type = "payment_failed"
  /\ pc[w] = "lookup" => type = "paid"
  /\ pc[w] \in {"mark", "write"} /\ type = "deleted" =>
       \A i \in todo[w] : SubOf[CustomerOf[i]] = Event(w).sub

SubInv(SubOf) == SubRows(SubOf) /\ \A w \in Workers : SubWorker(SubOf, w)

LEMMA SubRowsStep ==
  ASSUME NEW SubOf, OneSubscriptionEach(SubOf), TypeInv, SubInv(SubOf), [Next]_vars
  PROVE  SubRows(SubOf)'
<1> SUFFICES ASSUME NEW i \in Invoices PROVE failures'[i].sub \in {NoSub, SubOf[CustomerOf[i]]}
  BY DEF SubRows
<1>was. failures[i].sub \in {NoSub, SubOf[CustomerOf[i]]}
  BY DEF SubInv, SubRows
<1>type. failures[i] \in [state : RowStates \cup {"none"}, holdout : BOOLEAN,
                          sub : Subs \cup {NoSub}, amount : Nat, recovered : Nat]
  BY DEF TypeInv, TypeOK
<1>record. ASSUME NEW w \in Workers, RecordFailure(w)
           PROVE  failures'[i].sub \in {NoSub, SubOf[CustomerOf[i]]}
  <2>1. PICK arm \in BOOLEAN :
          failures' = [failures EXCEPT ![Invoice(w)] =
                         RecordedRow(seen[w], failures[Invoice(w)], Event(w), arm)]
    BY <1>record DEF RecordFailure
  <2>2. CASE i # Invoice(w)
    BY <2>1, <2>2, <1>was DEF TypeInv, TypeOK
  <2>3. CASE i = Invoice(w)
    <3>1. Event(w).type = "payment_failed"
      BY <1>record DEF RecordFailure, SubInv, SubWorker
    <3>2. Event(w).sub \in {NoSub, SubOf[CustomerOf[i]]}
      BY <2>3, <3>1 DEF OneSubscriptionEach, Event, Invoice, TypeInv, TypeOK
    <3>3. failures'[i] = RecordedRow(seen[w], failures[i], Event(w), arm)
      BY <2>1, <2>3 DEF TypeInv, TypeOK
    <3>4. failures'[i].sub \in {Event(w).sub, failures[i].sub}
      BY <3>3, <1>type DEF RecordedRow, Inserted, Updated, Learn
    <3> QED BY <3>2, <3>4, <1>was
  <2> QED BY <2>2, <2>3
<1>write. ASSUME NEW w \in Workers, WriteState(w)
          PROVE  failures'[i].sub \in {NoSub, SubOf[CustomerOf[i]]}
  <2>1. \/ failures'[i] = failures[i]
        \/ failures'[i] = Moved(failures[i], Target(Event(w).type), Event(w))
    BY <1>write DEF WriteState, TypeInv, TypeOK
  <2> QED BY <2>1, <1>was, <1>type DEF Moved
<1> QED BY <1>was, <1>record, <1>write, RowsChange

\* The part of a worker that does not move stays; the one that moves answers for itself.
LEMMA SubMove ==
  ASSUME NEW SubOf, TypeInv, SubInv(SubOf), NEW w \in Workers, NEW l, Goto(w, l),
         SubWorker(SubOf, w)', \A v \in Workers \ {w} : ev'[v] = ev[v] /\ todo'[v] = todo[v]
  PROVE  \A v \in Workers : SubWorker(SubOf, v)'
<1>1. \A v \in Workers \ {w} : pc'[v] = pc[v]
  BY DEF Goto, TypeInv, TypeOK
<1> QED BY <1>1 DEF SubInv, SubWorker, Event

\* Labels at which SubWorker asks nothing, and the moves within a handler.
SubFree == {"idle", "nothing", "reply", "mark_early", "open_by_sub", "open_by_customer",
            "forget"}

LEMMA SubFreeMove ==
  ASSUME NEW SubOf, TypeInv, SubInv(SubOf), NEW w \in Workers, NEW l \in SubFree, Goto(w, l),
         UNCHANGED ev, \A v \in Workers \ {w} : todo'[v] = todo[v]
  PROVE  \A v \in Workers : SubWorker(SubOf, v)'
<1>1. pc'[w] = l
  BY DEF Goto, TypeInv, TypeOK
<1>2. SubWorker(SubOf, w)'
  BY <1>1 DEF SubWorker, SubFree, Delivering
<1> QED BY <1>2, SubMove

LEMMA SubDunning ==
  ASSUME NEW SubOf, TypeInv, SubInv(SubOf), NEW w \in Workers,
         NEW l \in {"find", "record", "mark"} \cup Delivering, Goto(w, l),
         pc[w] \in {"early", "find", "record"} \cup Delivering,
         UNCHANGED ev, \A v \in Workers \ {w} : todo'[v] = todo[v]
  PROVE  \A v \in Workers : SubWorker(SubOf, v)'
<1>1. pc'[w] = l /\ Event(w)' = Event(w)
  BY DEF Goto, Event, TypeInv, TypeOK
<1>2. Event(w).type = "payment_failed"
  BY DEF SubInv, SubWorker
<1>3. SubWorker(SubOf, w)'
  BY <1>1, <1>2 DEF SubWorker, Delivering
<1> QED BY <1>3, SubMove

LEMMA SubMark ==
  ASSUME NEW SubOf, TypeInv, SubInv(SubOf), NEW w \in Workers, NEW l \in {"mark", "write"},
         Goto(w, l), UNCHANGED ev, \A v \in Workers \ {w} : todo'[v] = todo[v],
         Event(w).type = "deleted" => \A i \in todo'[w] : SubOf[CustomerOf[i]] = Event(w).sub
  PROVE  \A v \in Workers : SubWorker(SubOf, v)'
<1>1. pc'[w] = l /\ Event(w)' = Event(w)
  BY DEF Goto, Event, TypeInv, TypeOK
<1>2. SubWorker(SubOf, w)'
  BY <1>1 DEF SubWorker, Delivering
<1> QED BY <1>2, SubMove

LEMMA SubWorkersStep ==
  ASSUME NEW SubOf, OneSubscriptionEach(SubOf), TypeInv, ArmsInv, SubInv(SubOf), [Next]_vars
  PROVE  \A v \in Workers : SubWorker(SubOf, v)'
<1> DEFINE Kept == \A v \in Workers : SubWorker(SubOf, v)'
<1>same. ASSUME UNCHANGED <<pc, ev, todo>> PROVE Kept
  BY <1>same DEF SubInv, SubWorker, Event
<1>deliver. ASSUME NEW w \in Workers, NEW e \in Events, Deliver(w, e) PROVE Kept
  <2>1. pc'[w] = FirstCall(Body[e]) /\ Event(w)' = Body[e]
    BY <1>deliver DEF Deliver, Goto, Event, TypeInv, TypeOK
  <2>2. Body[e].type \in EventTypes
    BY BodyFields
  <2>3. SubWorker(SubOf, w)'
    BY <2>1, <2>2 DEF SubWorker, FirstCall, EventTypes, Delivering
  <2>4. \A v \in Workers \ {w} : ev'[v] = ev[v] /\ todo'[v] = todo[v]
    BY <1>deliver DEF Deliver
  <2> QED BY <1>deliver, <2>3, <2>4, SubMove DEF Deliver
<1>end. ASSUME NEW w \in Workers,
               Unhandled(w) \/ Reply(w) \/ RecordConflict(w) \/ Refuse(w) \/ MarkEarlyPaid(w)
                 \/ IllegalMove(w) \/ StoreError(w) \/ Forget(w) \/ ForgetFails(w)
        PROVE  Kept
  <2>1. PICK l \in SubFree : Goto(w, l)
    BY <1>end DEF Unhandled, Reply, RecordConflict, Refuse, MarkEarlyPaid, IllegalMove,
       StoreError, Forget, ForgetFails, Return, Raise, SubFree
  <2>2. UNCHANGED <<ev, todo>>
    BY <1>end DEF Unhandled, Reply, RecordConflict, Refuse, MarkEarlyPaid, IllegalMove,
       StoreError, Forget, ForgetFails
  <2> QED BY <2>1, <2>2, SubFreeMove
<1>dun. ASSUME NEW w \in Workers,
               CheckEarly(w) \/ FindRow(w) \/ RecordFailure(w) \/ Gate(w) \/ CheckCap(w)
                 \/ CheckCooldown(w) \/ Post(w) \/ RecordSent(w) \/ RecordSentFails(w)
        PROVE  Kept
  <2>1. UNCHANGED ev /\ pc[w] \in {"early", "find", "record"} \cup Delivering
    BY <1>dun DEF CheckEarly, FindRow, RecordFailure, Gate, CheckCap, CheckCooldown, Post,
       RecordSent, RecordSentFails, Delivering
  <2>2. todo' = todo \/ todo' = [todo EXCEPT ![w] = {Invoice(w)}]
    BY <1>dun DEF CheckEarly, FindRow, RecordFailure, Gate, CheckCap, CheckCooldown, Post,
       RecordSent, RecordSentFails, workers
  <2>3. \A v \in Workers \ {w} : todo'[v] = todo[v]
    BY <2>2 DEF TypeInv, TypeOK
  <2>4. CASE Goto(w, "reply")
    BY <2>1, <2>3, <2>4, SubFreeMove DEF SubFree
  <2>5. CASE ~Goto(w, "reply")
    <3>1. PICK l \in {"find", "record", "mark"} \cup Delivering : Goto(w, l)
      BY <1>dun, <2>5 DEF CheckEarly, FindRow, RecordFailure, Gate, CheckCap, CheckCooldown,
         Post, RecordSent, RecordSentFails, Return, Delivering
    <3> QED BY <2>1, <2>3, <3>1, SubDunning
  <2> QED BY <2>4, <2>5
<1>lookup. ASSUME NEW w \in Workers, LookUp(w) PROVE Kept
  <2>1. UNCHANGED ev /\ Event(w).type = "paid"
    BY <1>lookup DEF LookUp, SubInv, SubWorker
  <2>2. \A v \in Workers \ {w} : todo'[v] = todo[v]
    BY <1>lookup DEF LookUp, TypeInv, TypeOK
  <2>3. CASE Goto(w, "mark_early")
    BY <2>1, <2>2, <2>3, SubFreeMove DEF SubFree
  <2>4. CASE Goto(w, "mark")
    BY <2>1, <2>2, <2>4, SubMark
  <2> QED BY <1>lookup, <2>3, <2>4 DEF LookUp
<1>by_sub. ASSUME NEW w \in Workers, OpenBySub(w) PROVE Kept
  <2> DEFINE s == Event(w).sub
             found == IF s = NoSub THEN {} ELSE OpenOfSub(s)
  <2>1. CASE Goto(w, "open_by_customer") /\ UNCHANGED todo
    BY <1>by_sub, <2>1, SubFreeMove DEF OpenBySub, SubFree
  <2>2. CASE Goto(w, "mark") /\ todo' = [todo EXCEPT ![w] = found]
    <3>1. todo'[w] = found /\ \A v \in Workers \ {w} : todo'[v] = todo[v]
      BY <2>2 DEF TypeInv, TypeOK
    <3>2. \A i \in found : SubOf[CustomerOf[i]] = s
      BY DEF OpenOfSub, SubInv, SubRows
    <3> QED BY <1>by_sub, <2>2, <3>1, <3>2, SubMark DEF OpenBySub
  <2> QED BY <1>by_sub, <2>1, <2>2 DEF OpenBySub
<1>by_customer. ASSUME NEW w \in Workers, OpenByCustomer(w) PROVE Kept
  <2> DEFINE c == Event(w).customer
             found == OpenOfCustomer(c)
  <2>1. CASE Goto(w, "reply") /\ UNCHANGED todo
    BY <1>by_customer, <2>1, SubFreeMove DEF OpenByCustomer, SubFree
  <2>2. CASE Goto(w, "mark") /\ todo' = [todo EXCEPT ![w] = found]
    <3>1. todo'[w] = found /\ \A v \in Workers \ {w} : todo'[v] = todo[v]
      BY <2>2 DEF TypeInv, TypeOK
    <3>2. Event(w).type = "deleted" => Event(w).sub = SubOf[c]
      BY DEF Event, OneSubscriptionEach, TypeInv, TypeOK
    <3>3. \A i \in found : CustomerOf[i] = c
      BY DEF OpenOfCustomer
    <3> QED BY <1>by_customer, <2>2, <3>1, <3>2, <3>3, SubMark DEF OpenByCustomer
  <2> QED BY <1>by_customer, <2>1, <2>2 DEF OpenByCustomer, Return
<1>read. ASSUME NEW w \in Workers, ReadState(w) PROVE Kept
  BY <1>read, SubMark DEF ReadState, SubInv, SubWorker
<1>advance. ASSUME NEW w \in Workers, WriteState(w) \/ AlreadyThere(w) PROVE Kept
  <2>1. pc[w] = "write" /\ Advance(w) /\ UNCHANGED ev
    BY <1>advance DEF WriteState, AlreadyThere
  <2>2. todo'[w] = todo[w] \ {row[w]} /\ \A v \in Workers \ {w} : todo'[v] = todo[v]
    BY <2>1 DEF Advance, TypeInv, TypeOK
  <2>3. CASE Goto(w, "reply")
    BY <2>1, <2>2, <2>3, SubFreeMove DEF SubFree
  <2>4. CASE Goto(w, "mark")
    BY <2>1, <2>2, <2>4, SubMark DEF SubInv, SubWorker
  <2> QED BY <2>1, <2>3, <2>4 DEF Advance, Return
<1>crash. ASSUME NEW w \in Workers, Crash(w) PROVE Kept
  <2>1. \A v \in Workers : pc'[v] = "idle" \/ pc'[v] = pc[v]
    BY <1>crash DEF Crash
  <2> QED BY <1>crash, <2>1 DEF Crash, SubInv, SubWorker, Event, Delivering
<1>still. ASSUME \/ \E w \in Workers, e \in Events : Replay(w, e)
                 \/ \E w \in Workers : PostAnswerLost(w)
                 \/ \E i \in Invoices : Bounce(i)
                 \/ Tick \/ UNCHANGED vars
          PROVE  Kept
  BY <1>still, <1>same DEF Replay, PostAnswerLost, Bounce, Tick, vars, workers
<1> QED
  BY <1>deliver, <1>end, <1>dun, <1>lookup, <1>by_sub, <1>by_customer, <1>read, <1>advance,
     <1>crash, <1>still
  DEF Next, Step, StoreFailure, Fault, Receive

\* The finding of the run recovery_churn needs a customer with two subscriptions: where
\* each has one, cancelling it churns no invoice known to belong to another, for any
\* number of workers, with or without a shared lock, whatever fails.
THEOREM ChurnStaysWhereOne ==
  ASSUME NEW SubOf, OneSubscriptionEach(SubOf)
  PROVE  Spec => ChurnStaysInSubscription
<1>1. Init => SubInv(SubOf)
  BY DEF Init, SubInv, SubRows, SubWorker, NoRow, Delivering
<1>2. TypeInv /\ ArmsInv /\ SubInv(SubOf) /\ [Next]_vars => SubInv(SubOf)'
  BY SubRowsStep, SubWorkersStep DEF SubInv
<1>3. ASSUME TypeInv, ArmsInv, SubInv(SubOf), [Next]_vars
      PROVE  [\A i \in Invoices :
                failures'[i].state = "churned" /\ failures[i].state # "churned" =>
                  \E w \in Workers : /\ pc[w] = "write" /\ row[w] = i
                                     /\ failures[i].sub \in {NoSub, Event(w).sub}]_failures
  <2> SUFFICES ASSUME failures' # failures, NEW i \in Invoices,
                      failures'[i].state = "churned", failures[i].state # "churned"
               PROVE  \E w \in Workers : /\ pc[w] = "write" /\ row[w] = i
                                         /\ failures[i].sub \in {NoSub, Event(w).sub}
    OBVIOUS
  <2>1. PICK w \in Workers : RecordFailure(w) \/ WriteState(w)
    BY <1>3, RowsChange
  <2>2. ~RecordFailure(w)
    BY <1>3, RecordKeepsArm
  <2>3. WriteState(w) /\ i = row[w] /\ Target(Event(w).type) = "churned"
    BY <1>3, <2>1, <2>2, WriteKeepsArm
  <2>4. Event(w).type \in EventTypes
    BY <1>3, BodyFields DEF Event, TypeInv, TypeOK
  <2>5. Event(w).type = "deleted"
    BY <2>3, <2>4 DEF Target, EventTypes
  <2>6. pc[w] = "write" /\ row[w] \in todo[w]
    BY <1>3, <2>3 DEF WriteState, ArmsInv, ArmsOf
  <2>7. SubOf[CustomerOf[i]] = Event(w).sub
    BY <1>3, <2>3, <2>5, <2>6 DEF SubInv, SubWorker
  <2>8. failures[i].sub \in {NoSub, SubOf[CustomerOf[i]]}
    BY <1>3 DEF SubInv, SubRows
  <2> QED BY <2>3, <2>6, <2>7, <2>8
<1> QED BY <1>1, <1>2, <1>3, TypeInit, TypeStep, ArmsInit, ArmsStep, PTL
    DEF Spec, ChurnStaysInSubscription

===============================================================================
