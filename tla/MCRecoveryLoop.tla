---------------------------- MODULE MCRecoveryLoop ----------------------------
(* Instances of RecoveryLoop for TLC: one customer with two invoices on two *)
(* subscriptions, and the events Stripe may send about them.               *)
EXTENDS RecoveryLoop, TLC

CONSTANTS w1, w2, in_a, in_b, cus, sub_a, sub_b

\* Two failed attempts of in_a, one of in_b, in_a paid.
MCBody ==
  [fail_a   |-> [type |-> "payment_failed", invoice |-> in_a, sub |-> sub_a,
                 customer |-> cus, amount |-> 1],
   retry_a  |-> [type |-> "payment_failed", invoice |-> in_a, sub |-> NoSub,
                 customer |-> cus, amount |-> 2],
   paid_a   |-> [type |-> "paid", invoice |-> in_a, sub |-> NoSub,
                 customer |-> cus, amount |-> 2],
   fail_b   |-> [type |-> "payment_failed", invoice |-> in_b, sub |-> sub_b,
                 customer |-> cus, amount |-> 1],
   cancel_a |-> [type |-> "deleted", invoice |-> NoInvoice, sub |-> sub_a,
                 customer |-> cus, amount |-> 1],
   blank    |-> [type |-> "paid", invoice |-> NoInvoice, sub |-> NoSub,
                 customer |-> cus, amount |-> 1]]

MCEvents(names) == [e \in names |-> MCBody[e]]
LoopBody   == MCEvents({"fail_a", "retry_a", "fail_b", "paid_a", "cancel_a"})
CloseBody  == MCEvents({"fail_a", "paid_a", "cancel_a", "blank"})
PayBody    == MCEvents({"fail_a", "paid_a"})
ChurnBody  == MCEvents({"fail_a", "fail_b", "paid_a", "cancel_a"})

MCCustomerOf == [i \in Invoices |-> cus]

\* What the next steps and the safety properties depend on: of an idle worker
\* nothing, of a busy one the locals it has yet to read.
\* No guard reads acked, applied or unreleased.
Locals(w) ==
  CASE pc[w] = "idle"   -> <<>>
    [] pc[w] = "record" -> <<pc[w], ev[w], seen[w]>>
    [] pc[w] = "mark"   -> <<pc[w], ev[w], todo[w]>>
    [] pc[w] = "write"  -> <<pc[w], ev[w], todo[w], row[w], seen[w]>>
    [] OTHER            -> <<pc[w], ev[w]>>

View == <<ledger, unrecorded, [w \in Workers |-> Locals(w)],
          clock, mailed, crashes, errors>>

Symmetry == Permutations(Workers)
===============================================================================
