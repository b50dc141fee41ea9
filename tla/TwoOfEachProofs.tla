---------------------------- MODULE TwoOfEachProofs ----------------------------
(* What the pairs of MCTwoOfEach show follows from the theorems about the     *)
(* components they are instances of.  Each pair is proved to be a behaviour   *)
(* of its component at these constants, whose assumptions hold there.         *)
EXTENDS MCTwoOfEach, MailboxProofs

\* The theorems of the two components, at the constants of Processes and of TwoBills.
Loop == INSTANCE RecoveryProofs WITH
  Workers <- {w1, w2}, Events <- {"fail", "again", "paid"},
  Invoices <- {in_a}, Customers <- {"cus"}, Subs <- {}, NoInvoice <- NoInvoice,
  NoSub <- NoSub,
  Body <- [fail  |-> Stripe(1, "payment_failed"),
           again |-> Stripe(2, "payment_failed"), paid |-> Stripe(2, "paid")],
  CustomerOf <- [i \in {in_a} |-> "cus"], Amounts <- {1, 2}, MaxTouches <- 1,
  Cooldown <- 1, SharedLock <- FALSE, MaxClock <- 0, MaxCrashes <- 0, MaxErrors <- 1,
  events <- lEvents, earlyPaid <- lEarlyPaid, failures <- lFailures,
  transitions <- lTransitions, messages <- lMessages, unrecorded <- lUnrecorded,
  pc <- lPc, ev <- lEv, todo <- lTodo, row <- lRow, seen <- lSeen, clock <- lClock,
  acked <- lAcked, applied <- lApplied, unreleased <- lUnreleased, mailed <- lMailed,
  crashes <- lCrashes, errors <- lErrors

Box == INSTANCE MailboxProofs WITH
  Requests <- {r1, r2}, Invoices <- Bills, Customers <- {"cus"},
  CustomerOf <- [i \in Bills |-> "cus"], SubjectOf <- [i \in Bills |-> i],
  Sweepers <- {"s"}, NoInvoice <- NoInvoice, NoRequest <- NoRequest, MaxTouches <- 1,
  Cooldown <- 1, TTL <- 1, Grace <- 1, Evidence <- {{"header"}, {"subject"}},
  MaxClock <- 1, MaxFaults <- 0,
  failures <- mFailures, messages <- mMessages, approvals <- mApprovals, pc <- mPc,
  inv <- mInv, req <- mReq, spc <- mSpc, todo <- mTodo, cur <- mCur, at <- mAt,
  ripe <- mRipe, blind <- mBlind, drafts <- mDrafts, sentAt <- mSentAt, kept <- mKept,
  searchable <- mSearchable, clock <- mClock, faults <- mFaults

TwinBox == INSTANCE MailboxProofs WITH
  Requests <- {r1, r2}, Invoices <- Bills, Customers <- {"cus"},
  CustomerOf <- [i \in Bills |-> "cus"], SubjectOf <- [i \in Bills |-> "declined"],
  Sweepers <- {"s"}, NoInvoice <- NoInvoice, NoRequest <- NoRequest, MaxTouches <- 1,
  Cooldown <- 1, TTL <- 1, Grace <- 1, Evidence <- {{"header"}, {"subject"}},
  MaxClock <- 1, MaxFaults <- 0,
  failures <- mFailures, messages <- mMessages, approvals <- mApprovals, pc <- mPc,
  inv <- mInv, req <- mReq, spc <- mSpc, todo <- mTodo, cur <- mCur, at <- mAt,
  ripe <- mRipe, blind <- mBlind, drafts <- mDrafts, sentAt <- mSentAt, kept <- mKept,
  searchable <- mSearchable, clock <- mClock, faults <- mFaults

-------------------------------------------------------------------------------
(* Two processes over one ledger. *)

LEMMA LoopAssumptions ==
  /\ Loop!WorkersAssumption /\ Loop!NullAssumption /\ Loop!BodyAssumption
  /\ Loop!CustomerAssumption /\ Loop!LimitsAssumption
<1>1. Loop!WorkersAssumption
  <2>1. IsFiniteSet({w1})
    BY FS_Singleton
  <2>2. IsFiniteSet({w1} \cup {w2})
    BY <2>1, FS_AddElement
  <2>3. {w1} \cup {w2} = {w1, w2}
    OBVIOUS
  <2>4. IsFiniteSet({w1, w2})
    BY <2>2, <2>3
  <2> QED BY <2>4 DEF Loop!WorkersAssumption, Loop!IsFiniteSet, IsFiniteSet
<1>2. Loop!NullAssumption
  BY PairAssumption DEF Loop!NullAssumption
<1>3. Loop!BodyAssumption
  BY DEF Loop!BodyAssumption, Stripe, Loop!EventTypes
<1>4. Loop!CustomerAssumption
  BY DEF Loop!CustomerAssumption
<1>5. Loop!LimitsAssumption
  BY DEF Loop!LimitsAssumption
<1> QED BY <1>1, <1>2, <1>3, <1>4, <1>5

LEMMA SameLoopInit == Processes!Init => Loop!Init
BY DEF Processes!Init, Loop!Init, Processes!NoRow, Loop!NoRow

\* The two names stand for one next-state relation, definition by definition.
LEMMA SameLoopNext == Processes!Next => Loop!Next
BY DEF Processes!ledger, Loop!ledger, Processes!workers, Loop!workers, Processes!world,
   Loop!world, Processes!Event, Loop!Event, Processes!Invoice, Loop!Invoice,
   Processes!IsOpen, Loop!IsOpen, Processes!SentMessageCount, Loop!SentMessageCount,
   Processes!MailedAlike, Loop!MailedAlike, Processes!CoolingDown, Loop!CoolingDown,
   Processes!Target, Loop!Target, Processes!LockFree, Loop!LockFree, Processes!Goto,
   Loop!Goto, Processes!Return, Loop!Return, Processes!Raise, Loop!Raise,
   Processes!Forget, Loop!Forget, Processes!ForgetFails, Loop!ForgetFails,
   Processes!FirstCall, Loop!FirstCall, Processes!Deliver, Loop!Deliver, Processes!Replay,
   Loop!Replay, Processes!Unhandled, Loop!Unhandled, Processes!Reply, Loop!Reply,
   Processes!CheckEarly, Loop!CheckEarly, Processes!FindRow, Loop!FindRow, Processes!Learn,
   Loop!Learn, Processes!Inserted, Loop!Inserted, Processes!Updated, Loop!Updated,
   Processes!RecordedRow, Loop!RecordedRow, Processes!RecordFailure, Loop!RecordFailure,
   Processes!RecordConflict, Loop!RecordConflict, Processes!StoreFailure, Loop!StoreFailure,
   Processes!Gate, Loop!Gate, Processes!CheckCap, Loop!CheckCap, Processes!CheckCooldown,
   Loop!CheckCooldown, Processes!Refuse, Loop!Refuse, Processes!SentToday, Loop!SentToday,
   Processes!MailLeaves, Loop!MailLeaves, Processes!Post, Loop!Post,
   Processes!PostAnswerLost, Loop!PostAnswerLost, Processes!OneMoreSent, Loop!OneMoreSent,
   Processes!RecordSent, Loop!RecordSent, Processes!RecordSentFails, Loop!RecordSentFails,
   Processes!LookUp, Loop!LookUp, Processes!MarkEarlyPaid, Loop!MarkEarlyPaid,
   Processes!OpenOfSub, Loop!OpenOfSub, Processes!OpenOfCustomer, Loop!OpenOfCustomer,
   Processes!OpenBySub, Loop!OpenBySub, Processes!OpenByCustomer, Loop!OpenByCustomer,
   Processes!ReadState, Loop!ReadState, Processes!Moved, Loop!Moved, Processes!Advance,
   Loop!Advance, Processes!WriteState, Loop!WriteState, Processes!AlreadyThere,
   Loop!AlreadyThere, Processes!IllegalMove, Loop!IllegalMove, Processes!StoreError,
   Loop!StoreError, Processes!Crash, Loop!Crash, Processes!TurnedBounced,
   Loop!TurnedBounced, Processes!Bounce, Loop!Bounce, Processes!Tick, Loop!Tick,
   Processes!Step, Loop!Step, Processes!Fault, Loop!Fault, Processes!Receive, Loop!Receive,
   Processes!Next, Loop!Next, Processes!OpenStates, Loop!OpenStates,
   Processes!TerminalStates, Loop!TerminalStates, Processes!CanTransition,
   Loop!CanTransition, Processes!AllowedTransitions, Loop!AllowedTransitions,
   Processes!RowStates, Loop!RowStates

\* A behaviour of the pairs is one of the two processes, whichever pair was chosen.
LEMMA PairIsProcesses == PairSpec => Loop!Spec
<1>1. PairInit => Loop!Init
  BY SameLoopInit DEF PairInit
<1>2. [PairNext]_<<pair, vars, mvars, lvars>> => [Loop!Next]_Loop!vars
  <2>1. UNCHANGED lvars => UNCHANGED Loop!vars
    BY DEF lvars, Loop!vars, Loop!ledger, Loop!workers, Loop!world
  <2> QED BY <2>1, SameLoopNext DEF PairNext
<1> QED BY <1>1, <1>2, PTL DEF PairSpec, Loop!Spec

\* Two processes over one ledger never both handle one Stripe event.
THEOREM PairHasOneHandler == PairSpec => []OneHandlerPerEvent
<1>1. Loop!Spec => []Loop!OneHandlerPerEvent
  BY Loop!OneHandler, LoopAssumptions, PTL
  DEF Loop!WorkersAssumption, Loop!NullAssumption, Loop!BodyAssumption, Loop!CustomerAssumption,
      Loop!LimitsAssumption
<1>2. Loop!OneHandlerPerEvent => OneHandlerPerEvent
  BY DEF OneHandlerPerEvent, Loop!OneHandlerPerEvent, Processes!OneHandlerPerEvent
<1> QED BY <1>1, <1>2, PairIsProcesses, PTL

-------------------------------------------------------------------------------
(* Two requests about two invoices of one person, whose mails have two subjects *)
(* or one.                                                                      *)

LEMMA PairStays == PairSpec => [](pair = "twins") \/ [](pair # "twins")
<1>1. pair = "twins" /\ [PairNext]_<<pair, vars, mvars, lvars>> => (pair = "twins")'
  BY DEF PairNext
<1>2. pair # "twins" /\ [PairNext]_<<pair, vars, mvars, lvars>> => (pair # "twins")'
  BY DEF PairNext
<1>3. pair = "twins" \/ pair # "twins"
  OBVIOUS
<1> QED BY <1>1, <1>2, <1>3, PTL DEF PairSpec

LEMMA BoxAssumptions == Box!MailboxSets /\ Box!MailboxNumbers
<1>1. Box!IsFiniteSet({r1, r2}) /\ Box!IsFiniteSet({"s"})
  <2>1. IsFiniteSet({r1}) /\ IsFiniteSet({"s"})
    BY FS_Singleton
  <2>2. IsFiniteSet({r1} \cup {r2})
    BY <2>1, FS_AddElement
  <2>3. {r1} \cup {r2} = {r1, r2}
    OBVIOUS
  <2> QED BY <2>1, <2>2, <2>3 DEF Box!IsFiniteSet, IsFiniteSet
<1>2. Box!MailboxSets
  BY <1>1, PairAssumption DEF Box!MailboxSets, Bills
<1>3. Box!MailboxNumbers
  BY DEF Box!MailboxNumbers
<1> QED BY <1>2, <1>3

LEMMA SameBoxInit == TwoBills!Init => Box!Init
BY DEF TwoBills!Init, Box!Init, TwoBills!Free, Box!Free

LEMMA SameBoxNext == TwoBills!Next => Box!Next
BY DEF TwoBills!ledger, Box!ledger, TwoBills!loop, Box!loop, TwoBills!sweepers,
   Box!sweepers, TwoBills!mailbox, Box!mailbox, TwoBills!world, Box!world, TwoBills!Free,
   Box!Free, TwoBills!With, Box!With, TwoBills!InvoiceOf, Box!InvoiceOf, TwoBills!Resolve,
   Box!Resolve, TwoBills!ExpireOverdue, Box!ExpireOverdue, TwoBills!Goto, Box!Goto,
   TwoBills!Done, Box!Done, TwoBills!IsOpen, Box!IsOpen, TwoBills!CoolingDown,
   Box!CoolingDown, TwoBills!Objection, Box!Objection, TwoBills!PaymentFailed,
   Box!PaymentFailed, TwoBills!Paid, Box!Paid, TwoBills!ExpireQuietly, Box!ExpireQuietly,
   TwoBills!Waiting, Box!Waiting, TwoBills!Create, Box!Create, TwoBills!CreateDraft,
   Box!CreateDraft, TwoBills!CreateDraftFails, Box!CreateDraftFails, TwoBills!MarkFailed,
   Box!MarkFailed, TwoBills!StoreId, Box!StoreId, TwoBills!Ask, Box!Ask, TwoBills!StepTo,
   Box!StepTo, TwoBills!Begin, Box!Begin, TwoBills!List, Box!List, TwoBills!FirstCall,
   Box!FirstCall, TwoBills!FetchRow, Box!FetchRow, TwoBills!PassOver, Box!PassOver,
   TwoBills!DeleteStale, Box!DeleteStale, TwoBills!DraftExists, Box!DraftExists,
   TwoBills!MarkPresent, Box!MarkPresent, TwoBills!GoneSince, Box!GoneSince,
   TwoBills!MarkGone, Box!MarkGone, TwoBills!SentSince, Box!SentSince, TwoBills!Matches,
   Box!Matches, TwoBills!Search, Box!Search, TwoBills!ReadFailure, Box!ReadFailure,
   TwoBills!OneMoreSent, Box!OneMoreSent, TwoBills!RecordSent, Box!RecordSent,
   TwoBills!MoveInvoice, Box!MoveInvoice, TwoBills!Outcome, Box!Outcome, TwoBills!Settle,
   Box!Settle, TwoBills!Sweep, Box!Sweep, TwoBills!SendDraft, Box!SendDraft,
   TwoBills!DeleteDraft, Box!DeleteDraft, TwoBills!Hidden, Box!Hidden, TwoBills!Appear,
   Box!Appear, TwoBills!MailboxError, Box!MailboxError, TwoBills!PassError, Box!PassError,
   TwoBills!LoopError, Box!LoopError, TwoBills!Crash, Box!Crash, TwoBills!Tick, Box!Tick,
   TwoBills!Next, Box!Next, TwoBills!OpenStates, Box!OpenStates, TwoBills!TerminalStates,
   Box!TerminalStates, TwoBills!CanTransition, Box!CanTransition,
   TwoBills!AllowedTransitions, Box!AllowedTransitions, TwoBills!RowStates, Box!RowStates

LEMMA PairIsBills == PairSpec /\ [](pair # "twins") => Box!Spec
<1>1. PairInit => Box!Init
  BY SameBoxInit DEF PairInit
<1>2. pair # "twins" /\ [PairNext]_<<pair, vars, mvars, lvars>> => [Box!Next]_Box!vars
  <2>1. UNCHANGED mvars => UNCHANGED Box!vars
    BY DEF mvars, Box!vars, Box!ledger, Box!loop, Box!sweepers, Box!mailbox, Box!world
  <2> QED BY <2>1, SameBoxNext DEF PairNext
<1> QED BY <1>1, <1>2, PTL DEF PairSpec, Box!Spec

LEMMA TwinAssumptions == TwinBox!MailboxSets /\ TwinBox!MailboxNumbers
<1>1. TwinBox!IsFiniteSet({r1, r2}) /\ TwinBox!IsFiniteSet({"s"})
  <2>1. IsFiniteSet({r1}) /\ IsFiniteSet({"s"})
    BY FS_Singleton
  <2>2. IsFiniteSet({r1} \cup {r2})
    BY <2>1, FS_AddElement
  <2>3. {r1} \cup {r2} = {r1, r2}
    OBVIOUS
  <2> QED BY <2>1, <2>2, <2>3 DEF TwinBox!IsFiniteSet, IsFiniteSet
<1>2. TwinBox!MailboxSets
  BY <1>1, PairAssumption DEF TwinBox!MailboxSets, Bills
<1>3. TwinBox!MailboxNumbers
  BY DEF TwinBox!MailboxNumbers
<1> QED BY <1>2, <1>3

LEMMA SameTwinInit == Twins!Init => TwinBox!Init
BY DEF Twins!Init, TwinBox!Init, Twins!Free, TwinBox!Free

LEMMA SameTwinNext == Twins!Next => TwinBox!Next
BY DEF Twins!ledger, TwinBox!ledger, Twins!loop, TwinBox!loop, Twins!sweepers,
   TwinBox!sweepers, Twins!mailbox, TwinBox!mailbox, Twins!world, TwinBox!world,
   Twins!Free, TwinBox!Free, Twins!With, TwinBox!With, Twins!InvoiceOf,
   TwinBox!InvoiceOf, Twins!Resolve, TwinBox!Resolve, Twins!ExpireOverdue,
   TwinBox!ExpireOverdue, Twins!Goto, TwinBox!Goto, Twins!Done, TwinBox!Done,
   Twins!IsOpen, TwinBox!IsOpen, Twins!CoolingDown, TwinBox!CoolingDown,
   Twins!Objection, TwinBox!Objection, Twins!PaymentFailed, TwinBox!PaymentFailed,
   Twins!Paid, TwinBox!Paid, Twins!ExpireQuietly, TwinBox!ExpireQuietly, Twins!Waiting,
   TwinBox!Waiting, Twins!Create, TwinBox!Create, Twins!CreateDraft,
   TwinBox!CreateDraft, Twins!CreateDraftFails, TwinBox!CreateDraftFails,
   Twins!MarkFailed, TwinBox!MarkFailed, Twins!StoreId, TwinBox!StoreId, Twins!Ask,
   TwinBox!Ask, Twins!StepTo, TwinBox!StepTo, Twins!Begin, TwinBox!Begin, Twins!List,
   TwinBox!List, Twins!FirstCall, TwinBox!FirstCall, Twins!FetchRow, TwinBox!FetchRow,
   Twins!PassOver, TwinBox!PassOver, Twins!DeleteStale, TwinBox!DeleteStale,
   Twins!DraftExists, TwinBox!DraftExists, Twins!MarkPresent, TwinBox!MarkPresent,
   Twins!GoneSince, TwinBox!GoneSince, Twins!MarkGone, TwinBox!MarkGone,
   Twins!SentSince, TwinBox!SentSince, Twins!Matches, TwinBox!Matches, Twins!Search,
   TwinBox!Search, Twins!ReadFailure, TwinBox!ReadFailure, Twins!OneMoreSent,
   TwinBox!OneMoreSent, Twins!RecordSent, TwinBox!RecordSent, Twins!MoveInvoice,
   TwinBox!MoveInvoice, Twins!Outcome, TwinBox!Outcome, Twins!Settle, TwinBox!Settle,
   Twins!Sweep, TwinBox!Sweep, Twins!SendDraft, TwinBox!SendDraft, Twins!DeleteDraft,
   TwinBox!DeleteDraft, Twins!Hidden, TwinBox!Hidden, Twins!Appear, TwinBox!Appear,
   Twins!MailboxError, TwinBox!MailboxError, Twins!PassError, TwinBox!PassError,
   Twins!LoopError, TwinBox!LoopError, Twins!Crash, TwinBox!Crash, Twins!Tick,
   TwinBox!Tick, Twins!Next, TwinBox!Next, Twins!OpenStates, TwinBox!OpenStates,
   Twins!TerminalStates, TwinBox!TerminalStates, Twins!CanTransition,
   TwinBox!CanTransition, Twins!AllowedTransitions, TwinBox!AllowedTransitions,
   Twins!RowStates, TwinBox!RowStates

LEMMA PairIsTwins == PairSpec /\ [](pair = "twins") => TwinBox!Spec
<1>1. PairInit => TwinBox!Init
  BY SameTwinInit DEF PairInit
<1>2. pair = "twins" /\ [PairNext]_<<pair, vars, mvars, lvars>> => [TwinBox!Next]_TwinBox!vars
  <2>1. UNCHANGED mvars => UNCHANGED TwinBox!vars
    BY DEF mvars, TwinBox!vars, TwinBox!ledger, TwinBox!loop, TwinBox!sweepers, TwinBox!mailbox,
           TwinBox!world
  <2> QED BY <2>1, SameTwinNext DEF PairNext
<1> QED BY <1>1, <1>2, PTL DEF PairSpec, TwinBox!Spec

\* Of two invoices of one person, each is called messaged only on the strength of its
\* own mail, or of one under the same subject sent since a request about it was opened:
\* whether the two failed alike or not.
THEOREM PairBillsItsOwn == PairSpec => []EachBillItsOwn
<1>1. Box!Spec => []Box!MessagedMeansMailed
  BY Box!MessagedIsMailed, BoxAssumptions, PTL DEF Box!MailboxSets, Box!MailboxNumbers
<1>2. TwinBox!Spec => []TwinBox!MessagedMeansMailed
  BY TwinBox!MessagedIsMailed, TwinAssumptions, PTL
  DEF TwinBox!MailboxSets, TwinBox!MailboxNumbers
<1>3. pair # "twins" /\ Box!MessagedMeansMailed => EachBillItsOwn
  BY DEF EachBillItsOwn, Box!MessagedMeansMailed, TwoBills!MessagedMeansMailed, Box!MailsAbout,
     TwoBills!MailsAbout, Box!LooksLike, TwoBills!LooksLike, Box!LetterOf, TwoBills!LetterOf,
     Box!InvoiceOf, TwoBills!InvoiceOf
<1>4. pair = "twins" /\ TwinBox!MessagedMeansMailed => EachBillItsOwn
  BY DEF EachBillItsOwn, TwinBox!MessagedMeansMailed, Twins!MessagedMeansMailed,
     TwinBox!MailsAbout, Twins!MailsAbout, TwinBox!LooksLike, Twins!LooksLike, TwinBox!LetterOf,
     Twins!LetterOf, TwinBox!InvoiceOf, Twins!InvoiceOf
<1> QED BY <1>1, <1>2, <1>3, <1>4, PairStays, PairIsBills, PairIsTwins, PTL

-------------------------------------------------------------------------------
(* Two sweepers at one mailbox: the component itself. *)

LEMMA PairIsSweepers == PairSpec => Spec
<1>1. PairInit => Init
  BY DEF PairInit
<1>2. [PairNext]_<<pair, vars, mvars, lvars>> => [Next]_vars
  BY DEF PairNext
<1> QED BY <1>1, <1>2, PTL DEF PairSpec, Spec

\* Whatever the pair, the mailbox keeps its types, its refusals, its count and its contract.
THEOREM PairKeepsMailbox ==
  ASSUME SomethingIsKept
  PROVE  PairSpec => [](TypeOK /\ RefusalsHold /\ CountIsHonest) /\ KeepsMailboxContract
<1>1. Spec => []TypeOK
  BY MailboxTypeCorrect
<1>2. Spec => []RefusalsHold
  BY RefusalsKept
<1>3. Spec => []CountIsHonest
  BY CountsAreHonest
<1>4. Spec => KeepsMailboxContract
  BY MailboxKeepsContract
<1> QED BY <1>1, <1>2, <1>3, <1>4, PairIsSweepers, PTL

===============================================================================
