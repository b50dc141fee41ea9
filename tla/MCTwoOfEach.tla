------------------------------ MODULE MCTwoOfEach ------------------------------
(* What two of a thing do to each other, for TLC: two sweepers at one mailbox  *)
(* (MailboxApproval itself), two requests about two invoices of one person,    *)
(* and two processes over one ledger.  The three share no state: a behaviour   *)
(* is one of a single pair, chosen at the start.                               *)
EXTENDS MCMailbox

CONSTANTS r1, r2, bill_a, bill_b, w1, w2, NoSub

ASSUME PairAssumption == NoInvoice \notin {in_a, bill_a, bill_b} /\ NoRequest \notin {r1, r2}

VARIABLES
  pair,
  \* of RecoveryLoop
  lEvents, lEarlyPaid, lFailures, lTransitions, lMessages, lUnrecorded, lPc, lEv, lTodo,
  lRow, lSeen, lClock, lAcked, lApplied, lUnreleased, lMailed, lCrashes, lErrors,
  \* of MailboxApproval
  mFailures, mMessages, mApprovals, mPc, mInv, mReq, mSpc, mTodo, mCur, mAt, mRipe, mBlind,
  mDrafts, mSentAt, mKept, mSearchable, mClock, mFaults

lvars ==
  <<lEvents, lEarlyPaid, lFailures, lTransitions, lMessages, lUnrecorded, lPc, lEv, lTodo,
    lRow, lSeen, lClock, lAcked, lApplied, lUnreleased, lMailed, lCrashes, lErrors>>
mvars ==
  <<mFailures, mMessages, mApprovals, mPc, mInv, mReq, mSpc, mTodo, mCur, mAt, mRipe, mBlind,
    mDrafts, mSentAt, mKept, mSearchable, mClock, mFaults>>

\* Two processes, each with its own lock, and three failed attempts and the payment of one invoice.
Stripe(amount, type) ==
  [type |-> type, invoice |-> in_a, sub |-> NoSub, customer |-> "cus", amount |-> amount]
Processes == INSTANCE RecoveryLoop WITH
  Workers <- {w1, w2}, Events <- {"fail", "again", "paid"},
  Invoices <- {in_a}, Customers <- {"cus"}, Subs <- {}, NoInvoice <- NoInvoice,
  NoSub <- NoSub,
  Body <- [fail  |-> Stripe(1, "payment_failed"),
           again |-> Stripe(2, "payment_failed"), paid |-> Stripe(2, "paid")],
  CustomerOf <- [i \in {in_a} |-> "cus"], Amounts <- {1, 2}, MaxTouches <- 1,
  Cooldown <- 1, SharedLock <- FALSE, MaxClock <- 0, MaxCrashes <- 0, MaxErrors <- 1,
  events <- lEvents, earlyPaid <- lEarlyPaid, failures <- lFailures,
  transitions <- lTransitions, messages <- lMessages, unrecorded <- lUnrecorded,
  pc <- lPc, ev <- lEv, todo <- lTodo, row <- lRow, seen <- lSeen, clock <- lClock,
  acked <- lAcked, applied <- lApplied, unreleased <- lUnreleased, mailed <- lMailed, crashes <- lCrashes,
  errors <- lErrors

\* Two requests about two invoices of one person, which failed in different ways:
\* the subject of a mail is fixed by the failure code.
Bills == {bill_a, bill_b}
TwoBills == INSTANCE MailboxApproval WITH
  Requests <- {r1, r2}, Invoices <- Bills, Customers <- {"cus"},
  CustomerOf <- [i \in Bills |-> "cus"], SubjectOf <- [i \in Bills |-> i],
  Sweepers <- {"s"}, NoInvoice <- NoInvoice, NoRequest <- NoRequest, MaxTouches <- 1,
  Cooldown <- 1, TTL <- 1, Grace <- 1, Evidence <- {{"header"}, {"subject"}},
  MaxClock <- 1, MaxFaults <- 0,
  failures <- mFailures, messages <- mMessages, approvals <- mApprovals, pc <- mPc,
  inv <- mInv, req <- mReq, spc <- mSpc, todo <- mTodo, cur <- mCur, at <- mAt,
  ripe <- mRipe, blind <- mBlind, drafts <- mDrafts, sentAt <- mSentAt, kept <- mKept,
  searchable <- mSearchable, clock <- mClock, faults <- mFaults

\* The same, of two invoices that failed alike.
Twins == INSTANCE MailboxApproval WITH
  Requests <- {r1, r2}, Invoices <- Bills, Customers <- {"cus"},
  CustomerOf <- [i \in Bills |-> "cus"], SubjectOf <- [i \in Bills |-> "declined"],
  Sweepers <- {"s"}, NoInvoice <- NoInvoice, NoRequest <- NoRequest, MaxTouches <- 1,
  Cooldown <- 1, TTL <- 1, Grace <- 1, Evidence <- {{"header"}, {"subject"}},
  MaxClock <- 1, MaxFaults <- 0,
  failures <- mFailures, messages <- mMessages, approvals <- mApprovals, pc <- mPc,
  inv <- mInv, req <- mReq, spc <- mSpc, todo <- mTodo, cur <- mCur, at <- mAt,
  ripe <- mRipe, blind <- mBlind, drafts <- mDrafts, sentAt <- mSentAt, kept <- mKept,
  searchable <- mSearchable, clock <- mClock, faults <- mFaults

-----------------------------------------------------------------------------
PairInit ==
  /\ pair \in {"sweepers", "bills", "twins", "processes"}
  /\ Init /\ TwoBills!Init /\ Twins!Init /\ Processes!Init

PairNext ==
  /\ UNCHANGED pair
  /\ \/ pair = "sweepers"  /\ Next           /\ UNCHANGED <<mvars, lvars>>
     \/ pair = "bills"     /\ TwoBills!Next  /\ UNCHANGED <<vars, lvars>>
     \/ pair = "twins"     /\ Twins!Next     /\ UNCHANGED <<vars, lvars>>
     \/ pair = "processes" /\ Processes!Next /\ UNCHANGED <<vars, mvars>>

PairSpec == PairInit /\ [][PairNext]_<<pair, vars, mvars, lvars>>

PairView == <<pair, View, mvars, lvars>>
\* The members of every pair change places at once.
Swap == (s1 :> s2 @@ s2 :> s1) @@ (r1 :> r2 @@ r2 :> r1) @@ (w1 :> w2 @@ w2 :> w1)
          @@ (bill_a :> bill_b @@ bill_b :> bill_a)
PairSymmetry == {Swap, [v \in DOMAIN Swap |-> v]}

-----------------------------------------------------------------------------
\* Two processes that are sent the same Stripe event never both handle it: the
\* claim is an INSERT into the ledger they share, not a lock of either.
OneHandlerPerEvent == Processes!OneHandlerPerEvent

\* The ledger says that a mail about an invoice was sent only if one was: the
\* message found in the mailbox is not about another invoice, unless to the same
\* person, under the same subject, and sent since the request was opened.
EachBillItsOwn ==
  IF pair = "twins" THEN Twins!MessagedMeansMailed ELSE TwoBills!MessagedMeansMailed
===============================================================================
