----------------------------- MODULE ServiceProofs -----------------------------
(* Proofs about the services around the recovery loop: the return-code maps   *)
(* of the rails (ReturnCodes), the calls to banks (BankCalls), the consents   *)
(* to read an account (BankConsent), the report (RecoveryReport) and the      *)
(* drafting of texts (Drafting).  The components share no state.              *)
EXTENDS ReturnCodes, BankCalls, BankConsent, RecoveryReport, Drafting, FiniteSetTheorems, TLAPS

-------------------------------------------------------------------------------
(* ReturnCodes: for every table of every rail that the import accepts, over   *)
(* any codes and entries.                                                     *)

\* What was answered, by who asked.
AnswerOf(q) ==
  CASE q.who = "caller" -> IF Takes(rail, q.report) THEN Lookup(rail, file, q.code) ELSE Refusal
    [] q.who = "reader" -> IF Takes(rail, q.report) THEN Explained(Lookup(rail, file, q.code)) ELSE Refusal
    [] q.who = "feed"   -> FeedLookup(q.code)
    [] OTHER            -> Abstention

\* Nothing is answered before the import has accepted the table, and then as it says.
AnswerInv ==
  /\ rail \in Rails
  /\ serving = "up" => Valid(rail, file)
  /\ asked.who \in {"nobody", "caller", "reader", "feed", "feed without a code"}
  /\ asked.who # "nobody" => serving = "up"
  /\ asked.who \in {"feed", "feed without a code"} => asked.report = "not given"
  /\ ruling = AnswerOf(asked)

LEMMA InitAnswer == RCInit => AnswerInv
<1>1. AnswerOf(NotYet) = Abstention /\ NotYet.who = "nobody"
  BY DEF NotYet, AnswerOf
<1> QED BY <1>1 DEF RCInit, AnswerInv

LEMMA StepAnswer == AnswerInv /\ [RCNext]_rvars => AnswerInv'
<1> SUFFICES ASSUME AnswerInv, [RCNext]_rvars PROVE AnswerInv'
  OBVIOUS
<1>1. CASE LoadRail
  BY <1>1 DEF LoadRail, AnswerInv, AnswerOf, Takes, Lookup, FeedLookup
<1>2. ASSUME NEW c \in Codes, NEW rep \in BacsReports, AskRail(c, rep) PROVE AnswerInv'
  BY <1>2 DEF AskRail, AnswerInv, AnswerOf
<1>3. ASSUME NEW c \in Codes, NEW rep \in BacsReports, ExplainRail(c, rep) PROVE AnswerInv'
  BY <1>3 DEF ExplainRail, AnswerInv, AnswerOf
<1>4. ASSUME NEW c \in Codes, FeedReturns(c) PROVE AnswerInv'
  BY <1>4 DEF FeedReturns, FeedLookup, AnswerInv, AnswerOf
<1>5. CASE FeedReturnsNoCode
  BY <1>5 DEF FeedReturnsNoCode, AnswerInv, AnswerOf
<1>6. CASE UNCHANGED rvars
  BY <1>6 DEF rvars, AnswerInv, AnswerOf, FeedLookup
<1> QED BY <1>1, <1>2, <1>3, <1>4, <1>5, <1>6 DEF RCNext

LEMMA AnswersHold == RCSpec => []AnswerInv
  BY InitAnswer, StepAnswer, PTL DEF RCSpec

\* What an accepted table says of its default row, and of two rows of one number.
LEMMA Accepted ==
  ASSUME NEW r \in Rails, NEW t, Valid(r, t)
  PROVE  /\ OneDecisionPerRow(t)
         /\ t[Default].row # 1
         /\ r \in Abstaining => t[Default].row \in AbstainRows(r) /\ t[Default].reason
  BY DEF Valid, ValidAch, ValidSepa, ValidBacs, DefaultIsSafe, ReasonsMatch, Rails, Abstaining

LEMMA UnlistedAnswer ==
  ASSUME NEW r \in Rails, NEW t, Valid(r, t), NEW c, c \notin Listed(t)
  PROVE  /\ Lookup(r, t, c).row # 1
         /\ r \in Abstaining => Lookup(r, t, c).abstains /\ Lookup(r, t, c).reason
<1>1. PICK matched \in BOOLEAN : Lookup(r, t, c) = RowAnswer(r, t[Default], matched)
  BY DEF Lookup, Listed
<1>2. /\ Lookup(r, t, c).row = t[Default].row
      /\ Lookup(r, t, c).abstains = (t[Default].row \in AbstainRows(r))
      /\ Lookup(r, t, c).reason = t[Default].reason
  BY <1>1 DEF RowAnswer
<1>3. t[Default].row # 1 /\ (r \in Abstaining => t[Default].row \in AbstainRows(r) /\ t[Default].reason)
  BY Accepted
<1> QED BY <1>2, <1>3

LEMMA UnlistedHolds == AnswerInv => UnlistedNeverGoesAgain
<1> SUFFICES ASSUME AnswerInv, asked.who # "nobody", asked.code \notin Listed(file), ruling # Refusal
             PROVE  ruling.row # 1 /\ (rail \in Abstaining => ruling.abstains /\ ruling.reason)
  BY DEF UnlistedNeverGoesAgain
<1> DEFINE a == Lookup(rail, file, asked.code)
<1>1. a.row # 1 /\ (rail \in Abstaining => a.abstains /\ a.reason)
  BY UnlistedAnswer DEF AnswerInv
<1>2. Abstention.row # 1 /\ Abstention.abstains /\ Abstention.reason
  BY DEF Abstention
<1>3. Explained(a).row # 1 /\ (rail \in Abstaining => Explained(a).abstains /\ Explained(a).reason)
  BY <1>1 DEF Explained, Lookup, RowAnswer
<1>4. ruling \in {a, Explained(a), Abstention}
  BY DEF AnswerInv, AnswerOf, FeedLookup
<1> HIDE DEF a
<1> QED BY <1>1, <1>2, <1>3, <1>4

LEMMA ListHolds == AnswerInv => ListAgreesWithLookup
<1> SUFFICES ASSUME AnswerInv, asked.who = "caller", asked.code \in Listed(file), ruling # Refusal,
                    NEW d \in ListDecisions(rail, file), asked.code \in d.codes
             PROVE  d.row = ruling.row /\ d.decision = ruling.decision /\ d.abstains = ruling.abstains
  BY DEF ListAgreesWithLookup
<1> DEFINE same(n) == CHOOSE c \in Listed(file) : file[c].row = n
           line(n) == [row |-> n, decision |-> (file[same(n)]).decision,
                       codes |-> {c \in Listed(file) : file[c].row = n}, abstains |-> n \in AbstainRows(rail)]
<1>1. PICK n \in {file[c].row : c \in Listed(file)} : d = line(n)
  BY DEF ListDecisions
<1>2. file[asked.code].row = n
  BY <1>1
<1>3. same(n) \in Listed(file) /\ file[same(n)].row = n
  BY <1>1
<1>4. file[same(n)].decision = file[asked.code].decision
  BY <1>2, <1>3, Accepted DEF AnswerInv, OneDecisionPerRow, Listed
<1>5. ruling = RowAnswer(rail, file[asked.code], TRUE)
  BY DEF AnswerInv, AnswerOf, Lookup, Listed
<1> QED BY <1>1, <1>2, <1>4, <1>5 DEF RowAnswer

LEMMA ReportHolds == AnswerInv => OneReportDecides
<1> SUFFICES ASSUME AnswerInv PROVE OneReportDecides
  OBVIOUS
<1>1. Abstention.abstains /\ Refusal.abstains /\ Refusal.decision = "refused"
  BY DEF Abstention, Refusal
<1>2. rail = "bacs" /\ asked.report # "ARUDD" => ruling.abstains
  BY <1>1 DEF AnswerInv, AnswerOf, Takes, FeedLookup
<1>3. asked.who = "reader" /\ ruling.abstains => ruling.decision \in {"none", "refused"}
  BY <1>1 DEF AnswerInv, AnswerOf, Explained, Lookup, RowAnswer
<1> QED BY <1>2, <1>3 DEF OneReportDecides

\* For every table the import accepts: what it does not list never goes again, the list
\* says of a code what the lookup says, and one report decides on Bacs (rails.py:60-214).
THEOREM AnswersAgree == RCSpec => []ReturnCodesAgree
<1>1. AnswerInv => ReturnCodesAgree
  BY UnlistedHolds, ListHolds, ReportHolds DEF ReturnCodesAgree
<1> QED BY <1>1, AnswersHold, PTL

-------------------------------------------------------------------------------
(* BankCalls, for any callers, providers, attempts and bound.                 *)

CountTables ==
  /\ counts \in [Providers -> Nat] /\ streak \in [Providers -> Nat]
  /\ disturbed \in [Providers -> Nat] /\ DOMAIN caller = BankCallers

\* Every call has a provider and the counts it loaded.
CallsTyped ==
  \A c \in Calling : caller[c].provider \in Providers /\ caller[c].loaded \in [Providers -> Nat]

\* A clean call is the only one, and what it loaded is what the file holds.
AloneInv ==
  \A c \in clean \cap Calling : Calling = {c} /\ caller[c].loaded = counts

\* While nothing disturbed it, the file counts the failures of a provider, and knows
\* its alert.  What was disturbed hides a failure each, and one may be the first.
FileCounts ==
  \A p \in Providers :
    /\ disturbed[p] = 0 => counts[p] = streak[p] /\ (p \in alerted <=> streak[p] >= 2)
    /\ p \notin alerted => /\ streak[p] <= disturbed[p] + 1
                           /\ counts[p] = 0 => streak[p] <= disturbed[p]

CallsInv == CountTables /\ CallsTyped /\ AloneInv /\ FileCounts

LEMMA InitCalls == BInit => CallsInv
BY DEF BInit, NoCounts, CallsInv, CountTables, CallsTyped, AloneInv, FileCounts, Calling, NoCall

\* An attempt leaves a call its provider and what it loaded, and does not end it.
LEMMA CallGoesOn ==
  ASSUME NEW call, NEW o, call.at = "attempt"
  PROVE  /\ AfterAttempt(call, o).provider = call.provider
         /\ AfterAttempt(call, o).loaded = call.loaded
         /\ AfterAttempt(call, o).at # "idle"
<1>1. CASE TriesAgain(call, o)
  BY <1>1 DEF AfterAttempt
<1>2. CASE ~TriesAgain(call, o)
  <2> DEFINE verdict == IF o = "ok" THEN "succeeded" ELSE "failed"
             unknown == ~call.retry /\ o \in Unanswered
             replied == o \notin Unanswered
  <2>1. AfterAttempt(call, o) =
          [at |-> verdict, provider |-> call.provider, retry |-> call.retry,
           loaded |-> call.loaded, unknown |-> unknown, answered |-> replied]
    BY <1>2 DEF AfterAttempt
  <2>2. verdict # "idle"
    OBVIOUS
  <2> HIDE DEF verdict, unknown, replied
  <2>3. QED
    BY <2>1, <2>2
<1>3. QED
  BY <1>1, <1>2

\* What one record does to the count of a provider.
LEMMA Spoilt ==
  ASSUME CallsInv, NEW c \in Calling, NEW q \in Providers, NEW needed \in BOOLEAN,
         NEW written \in BOOLEAN, written => needed, ~Spoils(c, q, needed, written)
  PROVE  /\ q = caller[c].provider =>
              c \in clean /\ caller[c].loaded = counts /\ (needed => written)
         /\ q # caller[c].provider => ~written \/ caller[c].loaded = counts
BY DEF Spoils, CallsInv, AloneInv

LEMMA StepCalls == CallsInv /\ [BNext]_bvars => CallsInv'
<1> SUFFICES ASSUME CallsInv, [BNext]_bvars PROVE CallsInv'
  OBVIOUS
<1> USE DEF CallsInv
<1>1. ASSUME NEW c \in BankCallers, NEW p \in Providers, NEW retry \in BOOLEAN,
             NEW readable \in BOOLEAN, BeginCall(c, p, retry, readable)
      PROVE  CallsInv'
  <2> DEFINE held == IF readable THEN counts ELSE NoCounts
             call == [at |-> "attempt", provider |-> p, retry |-> retry, n |-> 1, loaded |-> held]
  <2>1. Calling' = Calling \cup {c} /\ caller'[c] = call /\ c \notin Calling
        /\ \A d \in Calling : caller'[d] = caller[d]
    BY <1>1 DEF BeginCall, Calling, NoCall, CountTables
  <2>2. CountTables' /\ UNCHANGED <<counts, streak, disturbed, alerted>>
    BY <1>1 DEF BeginCall, CountTables
  <2>3. held \in [Providers -> Nat]
    BY DEF CountTables, NoCounts
  <2>4. CallsTyped'
    <3> HIDE DEF held
    <3>1. QED
      BY <2>1, <2>2, <2>3 DEF CallsTyped
  <2>5. AloneInv'
    <3>1. clean' = IF readable /\ Calling = {} THEN {c} ELSE {}
      BY <1>1 DEF BeginCall
    <3>2. QED
      BY <2>1, <2>2, <3>1 DEF AloneInv
  <2>6. FileCounts'
    BY <2>2 DEF FileCounts
  <2>7. QED
    BY <2>2, <2>4, <2>5, <2>6
<1>2. ASSUME NEW c \in BankCallers, NEW o \in CallOutcomes, NEW acted \in BOOLEAN,
             Attempt(c, o, acted)
      PROVE  CallsInv'
  <2>1. /\ c \in Calling /\ c \in Calling' /\ DOMAIN caller' = BankCallers
        /\ caller'[c].provider = caller[c].provider /\ caller'[c].loaded = caller[c].loaded
        /\ \A d \in BankCallers \ {c} : caller'[d] = caller[d]
    <3>1. /\ caller[c].at = "attempt" /\ DOMAIN caller' = BankCallers
          /\ caller'[c] = AfterAttempt(caller[c], o)
          /\ \A d \in BankCallers \ {c} : caller'[d] = caller[d]
      BY <1>2 DEF Attempt, CountTables
    <3>2. QED
      BY <3>1, CallGoesOn DEF Calling, NoCall
  <2>2. Calling' = Calling
    BY <2>1 DEF Calling, CountTables
  <2>3. UNCHANGED <<counts, streak, disturbed, alerted, clean>>
    BY <1>2 DEF Attempt
  <2>4. CallsTyped'
    BY <2>1, <2>2 DEF CallsTyped, Calling
  <2>5. AloneInv'
    BY <2>1, <2>2, <2>3 DEF AloneInv, Calling
  <2>6. QED
    BY <2>1, <2>3, <2>4, <2>5 DEF CountTables, FileCounts
\* The rest end the call.
<1>3. ASSUME NEW c \in Calling, caller' = [caller EXCEPT ![c] = NoCall], clean' = clean,
             counts' \in [Providers -> Nat], streak' \in [Providers -> Nat],
             disturbed' \in [Providers -> Nat]
      PROVE  CountTables' /\ CallsTyped' /\ AloneInv'
  <2>1. Calling' = Calling \ {c} /\ \A d \in Calling' : caller'[d] = caller[d]
    BY <1>3 DEF Calling, CountTables
  <2>2. CountTables' /\ CallsTyped'
    BY <1>3, <2>1 DEF CountTables, CallsTyped
  <2>3. AloneInv'
    BY <1>3, <2>1 DEF AloneInv
  <2>4. QED
    BY <2>2, <2>3
<1>4. ASSUME NEW c \in BankCallers, NEW saved \in BOOLEAN, RecordFailure(c, saved)
      PROVE  CallsInv'
  <2> DEFINE p    == caller[c].provider
             mine == [caller[c].loaded EXCEPT ![p] = @ + 1]
  <2>1. c \in Calling /\ p \in Providers /\ caller[c].loaded \in [Providers -> Nat]
    BY <1>4 DEF RecordFailure, Calling, NoCall, CallsTyped
  <2>2. /\ counts' = (IF saved THEN mine ELSE counts)
        /\ alerted' = (IF mine[p] >= 2 THEN alerted \cup {p} ELSE alerted)
        /\ streak' = [streak EXCEPT ![p] = @ + 1]
        /\ disturbed' = [q \in Providers |->
             disturbed[q] + (IF Spoils(c, q, TRUE, saved) THEN 1 ELSE 0)]
        /\ caller' = [caller EXCEPT ![c] = NoCall] /\ clean' = clean
    BY <1>4 DEF RecordFailure, Failed, AlertOnConsecutive
  <2>3. mine \in [Providers -> Nat]
    BY <2>1
  <2> HIDE DEF mine
  <2>4. CountTables' /\ CallsTyped' /\ AloneInv'
    <3>1. counts' \in [Providers -> Nat]
      BY <2>2, <2>3 DEF CountTables
    <3>2. streak' \in [Providers -> Nat]
      BY <2>1, <2>2 DEF CountTables
    <3>3. disturbed' \in [Providers -> Nat]
      <4>1. \A q \in Providers : disturbed[q] \in Nat
        BY DEF CountTables
      <4>2. \A q \in Providers :
              disturbed[q] + (IF Spoils(c, q, TRUE, saved) THEN 1 ELSE 0) \in Nat
        BY <4>1 DEF Spoils
      <4>3. disturbed' = [q \in Providers |->
              disturbed[q] + (IF Spoils(c, q, TRUE, saved) THEN 1 ELSE 0)]
        BY <2>2
      <4> HIDE DEF Spoils
      <4>4. QED
        BY <4>2, <4>3
    <3>4. QED
      BY <1>3, <2>1, <2>2, <3>1, <3>2, <3>3
  <2>5. FileCounts'
    <3> SUFFICES ASSUME NEW q \in Providers
                 PROVE  /\ disturbed'[q] = 0 =>
                             counts'[q] = streak'[q] /\ (q \in alerted' <=> streak'[q] >= 2)
                        /\ q \notin alerted' => /\ streak'[q] <= disturbed'[q] + 1
                                                /\ counts'[q] = 0 => streak'[q] <= disturbed'[q]
      BY DEF FileCounts
    <3>1. /\ counts[q] \in Nat /\ streak[q] \in Nat /\ disturbed[q] \in Nat
          /\ disturbed[q] = 0 => counts[q] = streak[q] /\ (q \in alerted <=> streak[q] >= 2)
          /\ q \notin alerted => /\ streak[q] <= disturbed[q] + 1
                                 /\ counts[q] = 0 => streak[q] <= disturbed[q]
      BY DEF FileCounts, CountTables
    <3>2. CASE Spoils(c, q, TRUE, saved)
      <4>1. disturbed'[q] = disturbed[q] + 1
        BY <2>2, <3>2
      <4>2. CASE q = p
        <5>1. streak'[q] = streak[q] + 1 /\ mine[q] = caller[c].loaded[q] + 1
          BY <2>1, <2>2, <4>2 DEF CountTables, mine
        <5>2. caller[c].loaded[q] \in Nat
          BY <2>1
        <5>3. counts'[q] = IF saved THEN mine[q] ELSE counts[q]
          BY <2>2
        <5>4. alerted \subseteq alerted'
          BY <2>2
        <5>5. QED
          BY <3>1, <4>1, <5>1, <5>2, <5>3, <5>4
      <4>3. CASE q # p
        <5>1. streak'[q] = streak[q] /\ (q \in alerted' <=> q \in alerted)
          BY <2>1, <2>2, <4>3 DEF CountTables
        <5>2. QED
          BY <3>1, <4>1, <5>1
      <4>4. QED
        BY <4>2, <4>3
    <3>3. CASE ~Spoils(c, q, TRUE, saved)
      <4>1. disturbed'[q] = disturbed[q]
        BY <2>2, <3>1, <3>3
      <4>2. CASE q = p
        <5>1. caller[c].loaded = counts /\ saved
          BY <2>1, <3>3, <4>2, Spoilt
        <5>2. mine[q] = counts[q] + 1 /\ streak'[q] = streak[q] + 1 /\ counts'[q] = mine[q]
          BY <2>1, <2>2, <3>1, <4>2, <5>1 DEF CountTables, mine
        <5>3. q \in alerted' <=> (mine[q] >= 2 \/ q \in alerted)
          BY <2>2, <4>2
        <5>4. QED
          BY <3>1, <4>1, <5>2, <5>3
      <4>3. CASE q # p
        <5>1. ~saved \/ caller[c].loaded = counts
          BY <2>1, <3>3, <4>3, Spoilt
        <5>2. counts'[q] = counts[q]
          BY <2>1, <2>2, <4>3, <5>1 DEF mine
        <5>3. streak'[q] = streak[q] /\ (q \in alerted' <=> q \in alerted)
          BY <2>1, <2>2, <4>3 DEF CountTables
        <5>4. QED
          BY <3>1, <4>1, <5>2, <5>3
      <4>4. QED
        BY <4>2, <4>3
    <3>4. QED
      BY <3>2, <3>3
  <2>6. QED
    BY <2>4, <2>5
<1>5. ASSUME NEW c \in BankCallers, NEW saved \in BOOLEAN, RecordSuccess(c, saved)
      PROVE  CallsInv'
  <2> DEFINE p       == caller[c].provider
             dropped == caller[c].loaded[p] > 0
             written == saved /\ dropped
             mine    == [caller[c].loaded EXCEPT ![p] = 0]
  <2>1. c \in Calling /\ p \in Providers /\ caller[c].loaded \in [Providers -> Nat]
    BY <1>5 DEF RecordSuccess, Calling, NoCall, CallsTyped
  <2>2. /\ counts' = (IF written THEN mine ELSE counts)
        /\ alerted' = alerted \ {p}
        /\ streak' = [streak EXCEPT ![p] = 0]
        /\ disturbed' = [q \in Providers |->
             (IF q = p THEN 0 ELSE disturbed[q])
               + (IF Spoils(c, q, dropped, written) THEN 1 ELSE 0)]
        /\ caller' = [caller EXCEPT ![c] = NoCall] /\ clean' = clean
    BY <1>5 DEF RecordSuccess
  <2>3. mine \in [Providers -> Nat]
    BY <2>1
  <2>4. dropped \in BOOLEAN /\ written \in BOOLEAN /\ (written => dropped)
    OBVIOUS
  <2> HIDE DEF mine
  <2>5. CountTables' /\ CallsTyped' /\ AloneInv'
    <3>1. counts' \in [Providers -> Nat]
      BY <2>2, <2>3 DEF CountTables
    <3>2. streak' \in [Providers -> Nat]
      BY <2>1, <2>2 DEF CountTables
    <3>3. disturbed' \in [Providers -> Nat]
      <4>1. \A q \in Providers : disturbed[q] \in Nat
        BY DEF CountTables
      <4>2. QED
        BY <2>2, <4>1
    <3>4. QED
      BY <1>3, <2>1, <2>2, <3>1, <3>2, <3>3
  <2>6. FileCounts'
    <3> SUFFICES ASSUME NEW q \in Providers
                 PROVE  /\ disturbed'[q] = 0 =>
                             counts'[q] = streak'[q] /\ (q \in alerted' <=> streak'[q] >= 2)
                        /\ q \notin alerted' => /\ streak'[q] <= disturbed'[q] + 1
                                                /\ counts'[q] = 0 => streak'[q] <= disturbed'[q]
      BY DEF FileCounts
    <3>1. /\ counts[q] \in Nat /\ streak[q] \in Nat /\ disturbed[q] \in Nat
          /\ disturbed[q] = 0 => counts[q] = streak[q] /\ (q \in alerted <=> streak[q] >= 2)
          /\ q \notin alerted => /\ streak[q] <= disturbed[q] + 1
                                 /\ counts[q] = 0 => streak[q] <= disturbed[q]
      BY DEF FileCounts, CountTables
    <3>2. CASE q = p
      <4>1. streak'[q] = 0 /\ q \notin alerted'
        BY <2>1, <2>2, <3>2 DEF CountTables
      <4>2. disturbed'[q] = IF Spoils(c, q, dropped, written) THEN 1 ELSE 0
        BY <2>2, <3>2
      <4>3. ASSUME disturbed'[q] = 0
            PROVE  counts'[q] = 0
        <5>1. caller[c].loaded = counts /\ (dropped => written)
          <6>1. ~Spoils(c, q, dropped, written)
            BY <4>2, <4>3
          <6>2. q = caller[c].provider
            BY <3>2
          <6> HIDE DEF dropped, written
          <6>3. QED
            BY <2>1, <2>4, <6>1, <6>2, Spoilt
        <5>2. CASE dropped
          BY <2>1, <2>2, <3>2, <5>1, <5>2 DEF mine
        <5>3. CASE ~dropped
          <6>1. counts' = counts /\ counts[q] = 0
            BY <2>2, <3>1, <3>2, <5>1, <5>3
          <6>2. QED
            BY <6>1
        <5>4. QED
          BY <5>2, <5>3
      <4>4. QED
        BY <4>1, <4>2, <4>3
    <3>3. CASE q # p
      <4>1. streak'[q] = streak[q] /\ (q \in alerted' <=> q \in alerted)
        BY <2>1, <2>2, <3>3 DEF CountTables
      <4>2. CASE Spoils(c, q, dropped, written)
        <5>1. disturbed'[q] = disturbed[q] + 1
          BY <2>2, <3>3, <4>2
        <5>2. QED
          BY <3>1, <4>1, <5>1
      <4>3. CASE ~Spoils(c, q, dropped, written)
        <5>1. disturbed'[q] = disturbed[q]
          BY <2>2, <3>1, <3>3, <4>3
        <5>2. ~written \/ caller[c].loaded = counts
          BY <2>1, <2>4, <3>3, <4>3, Spoilt
        <5>3. counts'[q] = counts[q]
          BY <2>1, <2>2, <3>3, <5>2 DEF mine
        <5>4. QED
          BY <3>1, <4>1, <5>1, <5>3
      <4>4. QED
        BY <4>2, <4>3
    <3>4. QED
      BY <3>2, <3>3
  <2>7. QED
    BY <2>5, <2>6
<1>6. ASSUME NEW c \in BankCallers, CallerDies(c)
      PROVE  CallsInv'
  <2>1. c \in Calling
    BY <1>6 DEF CallerDies, Calling
  <2>2. CountTables' /\ CallsTyped' /\ AloneInv'
    BY <1>3, <1>6, <2>1 DEF CallerDies, CountTables
  <2>3. FileCounts'
    BY <1>6 DEF CallerDies, FileCounts
  <2>4. QED
    BY <2>2, <2>3
<1>7. CASE UNCHANGED bvars
  BY <1>7 DEF bvars, CountTables, CallsTyped, AloneInv, FileCounts, Calling
<1>8. QED
  BY <1>1, <1>2, <1>4, <1>5, <1>6, <1>7 DEF BNext

\* A provider is alerted on its second failure since its last success, in whatever
\* processes; but each record of a call that ran beside another, that could not read the
\* counts or could not save them may hide one failure (the failure tracker of http.py).
THEOREM AlertedOnTheSecond == BSpec => []AlertsOnTheSecond
<1>1. CallsInv => AlertsOnTheSecond
  BY DEF CallsInv, CountTables, FileCounts, AlertsOnTheSecond, AlertOnConsecutive
<1>2. QED
  BY <1>1, InitCalls, StepCalls, PTL DEF BSpec

\* A call for a single-use value has one attempt, and nothing landed before it.
SingleUseInv ==
  /\ DOMAIN caller = BankCallers /\ DOMAIN landed = BankCallers
  /\ \A c \in BankCallers :
       caller[c].at = "attempt" /\ ~caller[c].retry => caller[c].n = 1 /\ landed[c] = 0
  /\ SingleUseIsUsedOnce

LEMMA InitSingleUse == BInit => SingleUseInv
BY DEF BInit, SingleUseInv, SingleUseIsUsedOnce, NoCall

\* The one attempt of a single-use value is its verdict.
LEMMA OneAttempt ==
  ASSUME NEW call, NEW o, ~call.retry, call.n = 1
  PROVE  /\ AfterAttempt(call, o).at # "attempt"
         /\ ~AfterAttempt(call, o).unknown => AfterAttempt(call, o).answered
<1> DEFINE verdict == IF o = "ok" THEN "succeeded" ELSE "failed"
           unknown == ~call.retry /\ o \in Unanswered
           replied == o \notin Unanswered
<1>1. ~TriesAgain(call, o)
  BY DEF TriesAgain, Attempts
<1>2. AfterAttempt(call, o) =
        [at |-> verdict, provider |-> call.provider, retry |-> call.retry,
         loaded |-> call.loaded, unknown |-> unknown, answered |-> replied]
  BY <1>1 DEF AfterAttempt
<1>3. verdict # "attempt" /\ (~unknown => replied)
  OBVIOUS
<1> HIDE DEF verdict, unknown, replied
<1>4. QED
  BY <1>2, <1>3

\* No attempt makes a call one for a single-use value.
LEMMA RetryStays ==
  ASSUME NEW call, NEW o
  PROVE  AfterAttempt(call, o).retry = call.retry
<1> DEFINE verdict == IF o = "ok" THEN "succeeded" ELSE "failed"
           unknown == ~call.retry /\ o \in Unanswered
           replied == o \notin Unanswered
<1>1. CASE TriesAgain(call, o)
  BY <1>1 DEF AfterAttempt
<1>2. CASE ~TriesAgain(call, o)
  <2>1. AfterAttempt(call, o) =
          [at |-> verdict, provider |-> call.provider, retry |-> call.retry,
           loaded |-> call.loaded, unknown |-> unknown, answered |-> replied]
    BY <1>2 DEF AfterAttempt
  <2> HIDE DEF verdict, unknown, replied
  <2>2. QED
    BY <2>1
<1>3. QED
  BY <1>1, <1>2

LEMMA StepSingleUse == SingleUseInv /\ [BNext]_bvars => SingleUseInv'
<1> SUFFICES ASSUME SingleUseInv, [BNext]_bvars PROVE SingleUseInv'
  OBVIOUS
<1> USE DEF SingleUseInv, SingleUseIsUsedOnce
<1>1. ASSUME NEW c \in BankCallers, NEW p \in Providers, NEW retry \in BOOLEAN,
             NEW readable \in BOOLEAN, BeginCall(c, p, retry, readable)
      PROVE  SingleUseInv'
  <2> DEFINE call == [at |-> "attempt", provider |-> p, retry |-> retry, n |-> 1,
                      loaded |-> IF readable THEN counts ELSE NoCounts]
  <2>1. caller' = [caller EXCEPT ![c] = call] /\ landed' = [landed EXCEPT ![c] = 0]
    BY <1>1 DEF BeginCall
  <2>2. call.at = "attempt" /\ call.n = 1
    OBVIOUS
  <2> HIDE DEF call
  <2>3. QED
    BY <2>1, <2>2
<1>2. ASSUME NEW c \in BankCallers, NEW o \in CallOutcomes, NEW acted \in BOOLEAN,
             Attempt(c, o, acted)
      PROVE  SingleUseInv'
  <2>1. /\ caller[c].at = "attempt" /\ caller' = [caller EXCEPT ![c] = AfterAttempt(@, o)]
        /\ landed' = [landed EXCEPT ![c] = @ + (IF acted THEN 1 ELSE 0)]
    BY <1>2 DEF Attempt
  <2>2. \A d \in BankCallers \ {c} : caller'[d] = caller[d] /\ landed'[d] = landed[d]
    BY <2>1
  <2>3. caller'[c] = AfterAttempt(caller[c], o) /\ caller'[c].retry = caller[c].retry
    BY <2>1, RetryStays
  <2>4. CASE caller[c].retry
    BY <2>1, <2>2, <2>3, <2>4
  <2>5. CASE ~caller[c].retry
    <3>1. caller[c].n = 1 /\ landed'[c] <= 1
      BY <2>1, <2>5
    <3>2. caller'[c].at # "attempt" /\ (~caller'[c].unknown => caller'[c].answered)
      BY <2>3, <2>5, <3>1, OneAttempt
    <3>3. QED
      BY <2>1, <2>2, <3>1, <3>2
  <2>6. QED
    BY <2>4, <2>5
<1>3. ASSUME NEW c \in BankCallers, caller' = [caller EXCEPT ![c] = NoCall], landed' = landed
      PROVE  SingleUseInv'
  BY <1>3 DEF NoCall
<1>4. CASE UNCHANGED bvars
  BY <1>4 DEF bvars
<1>5. QED
  BY <1>1, <1>2, <1>3, <1>4 DEF BNext, RecordFailure, RecordSuccess, CallerDies

\* A call that consumes a single-use value, such as the code of a consent, reaches the bank
\* at most once, and is reported as failed for certain only if the bank answered
\* (http.py:22-31), whoever else calls and dies.
THEOREM SingleUseLandsOnce == BSpec => []SingleUseIsUsedOnce
<1>1. SingleUseInv => SingleUseIsUsedOnce
  BY DEF SingleUseInv
<1> QED BY <1>1, InitSingleUse, StepSingleUse, PTL DEF BSpec


-------------------------------------------------------------------------------
(* BankConsent, for any clients, consents, lifetimes and bound.               *)

\* A row belongs to a client, and dates its consent as the customer agreed or not at all.
RowHonest(i) ==
  /\ consents[i].client \in ConsentClients
  /\ consents[i].expires \in {NotStated, lapse[i]} /\ lapse[i] \in Nat
ConsentsInv ==
  /\ DOMAIN consents = ConsentIds /\ DOMAIN lapse = ConsentIds /\ day \in Nat
  /\ \A s \in states : s.client \in ConsentClients
  /\ \A i \in ConsentIds : consents[i] # NoConsent => RowHonest(i)

\* What was shown last is what the row says today.
ShownInv ==
  shown # NoView =>
    \E i \in ConsentIds :
      consents[i] # NoConsent /\ shown = Shown(i, consents[i].client, consents[i])

ConsentInv == ConsentsInv /\ ShownInv

LEMMA ConsentTyped == NoConsent.client = NotStated /\ NotStated \notin Nat /\ NotStated \notin ConsentClients
BY ConsentAssumption DEF NoConsent

LEMMA InitConsent == CInit => ConsentInv
BY DEF CInit, ConsentInv, ConsentsInv, ShownInv

LEMMA StepConsent == ConsentInv /\ [CNext]_cvars => ConsentInv'
<1> SUFFICES ASSUME ConsentInv, [CNext]_cvars PROVE ConsentInv'
  OBVIOUS
<1> USE DEF ConsentInv
\* Steps that leave the table alone.
<1>1. ASSUME NEW c \in ConsentClients, ConsentStarts(c) PROVE ConsentInv'
  BY <1>1 DEF ConsentStarts, ConsentsInv, ShownInv, RowHonest, Shown
<1>2. CASE DayPasses
  BY <1>2 DEF DayPasses, ConsentsInv, ShownInv, RowHonest
<1>3. ASSUME NEW i \in ConsentIds, NEW c \in ConsentClients, ConsentRead(i, c) PROVE ConsentInv'
  <2>1. ConsentsInv'
    BY <1>3 DEF ConsentRead, ConsentsInv, RowHonest
  <2>2. consents'[i] # NoConsent /\ consents'[i].client = c
    BY <1>3, ConsentTyped DEF ConsentRead
  <2>3. shown' = Shown(i, c, consents[i])'
    BY <1>3 DEF ConsentRead, Shown
  <2>4. QED
    BY <2>1, <2>2, <2>3 DEF ShownInv
\* Steps that change a row.
<1>4. ASSUME NEW s \in states, NEW i \in ConsentIds, NEW b \in BOOLEAN, ConsentCalledBack(s, i, b)
      PROVE  ConsentInv'
  <2> DEFINE expires == IF b THEN day + ConsentTtl ELSE NotStated
             row     == ConsentRow(s.client, expires, day + AccessTtl)
  <2>1. /\ consents' = [consents EXCEPT ![i] = row]
        /\ lapse' = [lapse EXCEPT ![i] = day + ConsentTtl]
        /\ shown' = Shown(i, s.client, consents'[i])
        /\ day' = day /\ states' = states
    BY <1>4 DEF ConsentCalledBack
  <2>2. s.client \in ConsentClients /\ consents'[i] = row /\ lapse'[i] = day + ConsentTtl
    BY <2>1 DEF ConsentsInv
  <2>3. row.client = s.client /\ row.expires = expires
    BY DEF ConsentRow
  <2>4. row # NoConsent
    BY <2>2, <2>3, ConsentTyped
  <2>5. RowHonest(i)'
    BY <2>2, <2>3, ConsentAssumption DEF RowHonest, ConsentsInv
  <2>6. ASSUME NEW j \in ConsentIds, j # i, consents'[j] # NoConsent
        PROVE  RowHonest(j)'
    BY <2>1, <2>6 DEF RowHonest, ConsentsInv
  <2>7. ConsentsInv'
    BY <2>1, <2>5, <2>6 DEF ConsentsInv
  <2>8. shown' = Shown(i, consents[i].client, consents[i])'
    BY <2>1, <2>2, <2>3 DEF Shown
  <2>9. QED
    BY <2>2, <2>4, <2>7, <2>8 DEF ShownInv
<1>5. ASSUME NEW i \in ConsentIds, NEW c \in ConsentClients, NEW b \in BOOLEAN,
             TokensRefreshed(i, c, b)
      PROVE  ConsentInv'
  <2> DEFINE expires == IF b THEN lapse[i] ELSE NotStated
             row     == ConsentRow(c, expires, day + AccessTtl)
  <2>1. /\ consents' = [consents EXCEPT ![i] = row] /\ shown' = NoView
        /\ lapse' = lapse /\ day' = day /\ states' = states /\ consents[i] # NoConsent
    BY <1>5 DEF TokensRefreshed
  <2>2. row.client = c /\ row.expires = expires
    BY DEF ConsentRow
  <2>3. RowHonest(i)'
    BY <2>1, <2>2 DEF RowHonest, ConsentsInv
  <2>4. ASSUME NEW j \in ConsentIds, j # i, consents'[j] # NoConsent
        PROVE  RowHonest(j)'
    BY <2>1, <2>4 DEF RowHonest, ConsentsInv
  <2>5. QED
    BY <2>1, <2>3, <2>4 DEF ConsentsInv, ShownInv
<1>6. ASSUME NEW i \in ConsentIds, NEW c \in ConsentClients, ProviderUnreachable(i, c)
      PROVE  ConsentInv'
  <2> DEFINE since == IF consents[i].unreachable = NotStated THEN day ELSE consents[i].unreachable
             row   == [consents[i] EXCEPT !.unreachable = since]
  <2>1. /\ consents' = [consents EXCEPT ![i] = row] /\ shown' = NoView
        /\ lapse' = lapse /\ day' = day /\ states' = states /\ consents[i] # NoConsent
    BY <1>6 DEF ProviderUnreachable
  <2>2. row.client = consents[i].client /\ row.expires = consents[i].expires
    OBVIOUS
  <2> HIDE DEF row
  <2>3. RowHonest(i)'
    BY <2>1, <2>2 DEF RowHonest, ConsentsInv
  <2>4. ASSUME NEW j \in ConsentIds, j # i, consents'[j] # NoConsent
        PROVE  RowHonest(j)'
    BY <2>1, <2>4 DEF RowHonest, ConsentsInv
  <2>5. QED
    BY <2>1, <2>3, <2>4 DEF ConsentsInv, ShownInv
<1>7. ASSUME NEW c \in ConsentClients, ConsentsErased(c) PROVE ConsentInv'
  BY <1>7 DEF ConsentsErased, ConsentsInv, ShownInv, RowHonest
<1>8. CASE UNCHANGED cvars
  BY <1>8 DEF cvars, ConsentsInv, ShownInv, RowHonest, Shown
<1>9. QED
  BY <1>1, <1>2, <1>3, <1>4, <1>5, <1>6, <1>7, <1>8 DEF CNext

\* A consent reads live only while the customer's agreement runs and the bank answers, and
\* expired only when the agreement has ended: an outage, a refresh and a date nobody
\* stated make it unknown (Consent.state of consent.py).
THEOREM ConsentStateIsHonest == CSpec => []StateIsHonest
<1>1. ConsentInv => StateIsHonest
  <2> SUFFICES ASSUME ConsentInv, shown # NoView PROVE StateIsHonest
    BY DEF StateIsHonest
  <2>1. PICK i \in ConsentIds :
          consents[i] # NoConsent /\ shown = Shown(i, consents[i].client, consents[i])
    BY DEF ConsentInv, ShownInv
  <2>2. /\ shown.of = i /\ shown.asked = consents[i].client
        /\ shown.state = StateOf(consents[i], day)
    BY <2>1 DEF Shown
  <2>3. consents[i].expires \in {NotStated, lapse[i]} /\ lapse[i] \in Nat /\ day \in Nat
    BY <2>1 DEF ConsentInv, ConsentsInv, RowHonest
  <2>4. shown.state = "live" => day < lapse[i] /\ consents[i].unreachable = NotStated
    BY <2>2, <2>3 DEF StateOf
  <2>5. shown.state = "expired" => day >= lapse[i]
    BY <2>2, <2>3 DEF StateOf
  <2>6. QED
    BY <2>2, <2>4, <2>5 DEF StateIsHonest
<1>2. QED
  BY <1>1, InitConsent, StepConsent, PTL DEF CSpec


-------------------------------------------------------------------------------
(* RecoveryReport, for any invoices, draws, holdout share and bound.          *)

Arms == {"treated", "holdout", "untouched"}
Closed == {"recovered", "churned"}

\* A row as the loop writes it, of the arm that was drawn.
RowDrawn(i, row) ==
  /\ row.state \in {"failed", "messaged", "recovered", "churned"} /\ row.sent \in Nat
  /\ row.holdout \in BOOLEAN /\ row.holdout = IsHoldout(i)
  /\ DOMAIN row = {"state", "holdout", "sent", "ever"}

\* What may have become of a row: nothing at all, once it is closed.
Became(was, now) ==
  /\ now # Unlisted /\ now.holdout = was.holdout /\ now.sent >= was.sent
  /\ was.state \in Closed => now.state = was.state /\ now.sent = was.sent

RowsInv ==
  /\ DOMAIN ledgerRows = Cohort /\ DOMAIN seenAtStart = Cohort
  /\ \A i \in Cohort :
       /\ ledgerRows[i] # Unlisted => RowDrawn(i, ledgerRows[i])
       /\ seenAtStart[i] # Unlisted =>
            RowDrawn(i, seenAtStart[i]) /\ Became(seenAtStart[i], ledgerRows[i])

\* The failures on the list, and what the arms say of those that were counted.
InReport == {i \in Cohort : seenAtStart[i] # Unlisted}

Tally(done, arms) ==
  /\ DOMAIN arms = Arms
  /\ \A a \in Arms : arms[a].count \in Nat /\ arms[a].recovered \in Nat
  /\ arms["treated"].count + arms["holdout"].count + arms["untouched"].count = Cardinality(done)
  /\ arms["holdout"].count = Cardinality(done \cap Of(seenAtStart, "holdout"))
  /\ arms["untouched"].count <= Cardinality(done \cap Of(seenAtStart, "untouched"))
  /\ \A a \in {"treated", "holdout"} :
       arms[a].recovered = Cardinality(done \cap In(seenAtStart, a, "recovered"))

WalkInv ==
  walk # NotWalking =>
    /\ walk = [at |-> "counting", rows |-> seenAtStart, left |-> walk.left, arms |-> walk.arms]
    /\ walk.left \subseteq InReport /\ Tally(InReport \ walk.left, walk.arms)

AnsweredInv ==
  report.at = "answered" /\ walk = NotWalking =>
    /\ report.failed = Cardinality(InReport) /\ report.lift = Lift(report.arms)
    /\ Tally(InReport, report.arms)

ReportInv == RowsInv /\ WalkInv /\ AnsweredInv

LEMMA CohortFinite == IsFiniteSet(Cohort) /\ \A S \in SUBSET Cohort : IsFiniteSet(S) /\ Cardinality(S) \in Nat
BY ReportAssumption, FS_Subset, FS_CardinalityType DEF Cohort

LEMMA InitReport == RRInit => ReportInv
<1> SUFFICES ASSUME RRInit PROVE ReportInv
  OBVIOUS
<1>1. RowsInv
  BY DEF RRInit, RowsInv
<1>2. WalkInv
  BY DEF RRInit, WalkInv
<1>3. AnsweredInv
  BY DEF RRInit, AnsweredInv, NoReportYet
<1>4. QED
  BY <1>1, <1>2, <1>3 DEF ReportInv

\* One more counted counts in the sets it belongs to.
LEMMA OneMore ==
  ASSUME NEW done \in SUBSET Cohort, NEW i \in Cohort, i \notin done, NEW S
  PROVE  /\ Cardinality(done \cap S) \in Nat
         /\ Cardinality((done \cup {i}) \cap S) =
              Cardinality(done \cap S) + (IF i \in S THEN 1 ELSE 0)
<1>1. IsFiniteSet(done \cap S) /\ Cardinality(done \cap S) \in Nat
  BY CohortFinite
<1>2. CASE i \in S
  <2>1. (done \cup {i}) \cap S = (done \cap S) \cup {i}
    BY <1>2
  <2>2. QED
    BY <1>1, <1>2, <2>1, FS_AddElement
<1>3. CASE i \notin S
  <2>1. (done \cup {i}) \cap S = done \cap S
    BY <1>3
  <2>2. QED
    BY <1>1, <1>3, <2>1
<1>4. QED
  BY <1>2, <1>3

\* The loop only moves rows on.
LEMMA LoopKeeps ==
  ASSUME ReportInv, NEW i \in Cohort, NEW row, LoopStep(i, row), RowDrawn(i, row),
         row # Unlisted, ledgerRows[i] = Unlisted \/ Became(ledgerRows[i], row)
  PROVE  ReportInv'
<1> USE DEF ReportInv
<1>1. /\ ledgerRows' = [ledgerRows EXCEPT ![i] = row]
      /\ walk' = walk /\ seenAtStart' = seenAtStart /\ report' = report
  BY DEF LoopStep
<1>2. InReport' = InReport /\ \A done, arms : Tally(done, arms)' <=> Tally(done, arms)
  BY <1>1 DEF InReport, Tally, Of, In
<1>3. RowsInv'
  <2> SUFFICES ASSUME NEW j \in Cohort
               PROVE  /\ ledgerRows'[j] # Unlisted => RowDrawn(j, ledgerRows'[j])
                      /\ seenAtStart[j] # Unlisted =>
                           RowDrawn(j, seenAtStart[j]) /\ Became(seenAtStart[j], ledgerRows'[j])
    BY <1>1 DEF RowsInv, RowDrawn
  <2>1. CASE j = i
    <3>1. ledgerRows'[j] = row
      BY <1>1, <2>1 DEF RowsInv
    <3>2. ASSUME seenAtStart[j] # Unlisted
          PROVE  RowDrawn(j, seenAtStart[j]) /\ Became(seenAtStart[j], row)
      <4>1. RowDrawn(j, seenAtStart[j]) /\ Became(seenAtStart[j], ledgerRows[j])
        BY <3>2 DEF RowsInv
      <4>2. ledgerRows[j] # Unlisted /\ Became(ledgerRows[j], row)
        BY <2>1, <4>1 DEF Became
      <4>3. ledgerRows[j].sent \in Nat /\ seenAtStart[j].sent \in Nat /\ row.sent \in Nat
        BY <4>1, <4>2 DEF RowsInv, RowDrawn
      <4>4. QED
        BY <4>1, <4>2, <4>3 DEF Became
    <3>3. QED
      BY <2>1, <3>1, <3>2
  <2>2. CASE j # i
    BY <1>1, <2>2 DEF RowsInv
  <2>3. QED
    BY <2>1, <2>2
<1>4. WalkInv' /\ AnsweredInv'
  BY <1>1, <1>2 DEF WalkInv, AnsweredInv
<1>5. QED
  BY <1>3, <1>4

\* A row that is counted goes to the arm it was listed in, unless it was open and has been
\* mailed since.
LEMMA ArmOfRow ==
  ASSUME RowsInv, NEW i \in InReport
  PROVE  LET was == seenAtStart[i]
             arm == Arm(was, ledgerRows[i].sent)
         IN /\ arm \in Arms
            /\ arm = "holdout" <=> i \in Of(seenAtStart, "holdout")
            /\ arm = "untouched" => i \in Of(seenAtStart, "untouched")
            /\ was.state = "recovered" => i \in Of(seenAtStart, arm)
<1> DEFINE was == seenAtStart[i]
           now == ledgerRows[i]
<1>1. i \in Cohort /\ was # Unlisted
  BY DEF InReport
<1>2. was.holdout \in BOOLEAN /\ was.sent \in Nat /\ now.sent \in Nat
  BY <1>1 DEF RowsInv, RowDrawn, Became
<1>3. now.sent >= was.sent /\ (was.state = "recovered" => now.sent = was.sent)
  BY <1>1 DEF RowsInv, Became, Closed
<1> HIDE DEF was, now
<1>4. Arm(was, now.sent) \in Arms
  BY DEF Arm, Arms
<1>5. Arm(was, now.sent) = "holdout" <=> Arm(was, was.sent) = "holdout"
  BY DEF Arm
<1>6. Arm(was, now.sent) = "untouched" => Arm(was, was.sent) = "untouched"
  BY <1>2, <1>3 DEF Arm
<1>7. was.state = "recovered" => Arm(was, now.sent) = Arm(was, was.sent)
  BY <1>3
<1>8. QED
  BY <1>1, <1>4, <1>5, <1>6, <1>7 DEF Of, was, now

LEMMA Counting == NotWalking.at # "counting"
BY DEF NotWalking

\* What counting a row does to the arms.
LEMMA CountedIn ==
  ASSUME NEW arms, NEW arm \in Arms, NEW state, DOMAIN arms = Arms,
         \A a \in Arms : arms[a].count \in Nat /\ arms[a].recovered \in Nat
  PROVE  LET after == CountIn(arms, arm, state)
         IN /\ DOMAIN after = Arms
            /\ \A a \in Arms \ {arm} : after[a] = arms[a]
            /\ after[arm].count = arms[arm].count + 1
            /\ after[arm].recovered = arms[arm].recovered + (IF state = "recovered" THEN 1 ELSE 0)
BY DEF CountIn

LEMMA CountRowKeeps ==
  ASSUME ReportInv, NEW i \in Cohort, CountRow(i)
  PROVE  ReportInv'
<1> USE DEF ReportInv
<1> DEFINE was   == seenAtStart[i]
           arm   == Arm(was, ledgerRows[i].sent)
           after == CountIn(walk.arms, arm, was.state)
           done  == InReport \ walk.left
<1>1. /\ walk.at = "counting" /\ i \in walk.left
      /\ ledgerRows' = ledgerRows /\ seenAtStart' = seenAtStart /\ report' = report
  BY DEF CountRow
<1>2. /\ walk # NotWalking /\ walk.rows = seenAtStart
      /\ walk.left \subseteq InReport /\ Tally(done, walk.arms)
  <2>1. walk # NotWalking
    BY <1>1, Counting
  <2>2. QED
    BY <2>1 DEF WalkInv
<1>3. walk' = [at |-> "counting", rows |-> seenAtStart, left |-> walk.left \ {i}, arms |-> after]
  BY <1>2 DEF CountRow
<1>4. InReport' = InReport /\ \A d, a : Tally(d, a)' <=> Tally(d, a)
  BY <1>1 DEF InReport, Tally, Of, In
<1>5. Tally(done \cup {i}, after)
  <2>1. /\ arm \in Arms
        /\ arm = "holdout" <=> i \in Of(seenAtStart, "holdout")
        /\ arm = "untouched" => i \in Of(seenAtStart, "untouched")
        /\ was.state = "recovered" => i \in Of(seenAtStart, arm)
    BY <1>1, <1>2, ArmOfRow
  <2>2. /\ DOMAIN after = Arms
        /\ \A a \in Arms \ {arm} : after[a] = walk.arms[a]
        /\ after[arm].count = walk.arms[arm].count + 1
        /\ after[arm].recovered =
             walk.arms[arm].recovered + (IF was.state = "recovered" THEN 1 ELSE 0)
    BY <1>2, <2>1, CountedIn DEF Tally
  <2>3. done \in SUBSET Cohort /\ i \notin done /\ i \in Cohort
    BY <1>1 DEF InReport
  <2> DEFINE H == Of(seenAtStart, "holdout")
             U == Of(seenAtStart, "untouched")
             R(a) == In(seenAtStart, a, "recovered")
  <2>4. Cardinality(done) \in Nat /\ Cardinality(done \cup {i}) = Cardinality(done) + 1
    BY <2>3, CohortFinite, FS_AddElement
  <2>5. /\ Cardinality(done \cap H) \in Nat
        /\ Cardinality((done \cup {i}) \cap H) = Cardinality(done \cap H) + (IF i \in H THEN 1 ELSE 0)
    BY <2>3, OneMore
  <2>6. /\ Cardinality(done \cap U) \in Nat
        /\ Cardinality((done \cup {i}) \cap U) = Cardinality(done \cap U) + (IF i \in U THEN 1 ELSE 0)
    BY <2>3, OneMore
  <2>7. ASSUME NEW a \in {"treated", "holdout"}
        PROVE  /\ Cardinality(done \cap R(a)) \in Nat
               /\ Cardinality((done \cup {i}) \cap R(a))
                    = Cardinality(done \cap R(a)) + (IF i \in R(a) THEN 1 ELSE 0)
    <3> HIDE DEF done, R
    <3>1. QED
      BY <2>3, OneMore
  <2>8. \A a \in {"treated", "holdout"} :
          i \in R(a) <=> (a = arm /\ was.state = "recovered")
    <3>1. \A a : i \in R(a) <=> (i \in Of(seenAtStart, a) /\ was.state = "recovered")
      BY DEF In
    <3>2. \A a : i \in Of(seenAtStart, a) /\ i \in Of(seenAtStart, arm) => a = arm
      BY DEF Of
    <3>3. QED
      BY <2>1, <3>1, <3>2
  <2>9. \A a \in Arms : /\ walk.arms[a].count \in Nat /\ walk.arms[a].recovered \in Nat
                        /\ after[a].count \in Nat /\ after[a].recovered \in Nat
    BY <1>2, <2>1, <2>2 DEF Tally
  <2> HIDE DEF after, arm, done, was, H, U, R
  <2>10. after["treated"].count + after["holdout"].count + after["untouched"].count
           = Cardinality(done \cup {i})
    BY <1>2, <2>1, <2>2, <2>4, <2>9 DEF Tally, Arms
  <2>11. after["holdout"].count = Cardinality((done \cup {i}) \cap H)
    <3>1. walk.arms["holdout"].count = Cardinality(done \cap H) /\ "holdout" \in Arms
      BY <1>2 DEF Tally, Arms, H
    <3>2. QED
      BY <2>1, <2>2, <2>5, <3>1 DEF H
  <2>12. after["untouched"].count <= Cardinality((done \cup {i}) \cap U)
    <3>1. walk.arms["untouched"].count <= Cardinality(done \cap U) /\ "untouched" \in Arms
      BY <1>2 DEF Tally, Arms, U
    <3>2. QED
      BY <2>1, <2>2, <2>6, <2>9, <3>1 DEF U
  <2>13. ASSUME NEW a \in {"treated", "holdout"}
         PROVE  after[a].recovered = Cardinality((done \cup {i}) \cap R(a))
    <3>1. walk.arms[a].recovered = Cardinality(done \cap R(a)) /\ a \in Arms
      BY <1>2 DEF Tally, Arms, R
    <3>2. QED
      BY <2>2, <2>7, <2>8, <2>9, <3>1
  <2>14. QED
    BY <2>2, <2>9, <2>10, <2>11, <2>12, <2>13 DEF Tally, H, U, R
<1>6. InReport \ (walk.left \ {i}) = done \cup {i}
  BY <1>1, <1>2
<1> HIDE DEF after, done
<1>7. WalkInv'
  <2>1. walk'.left = walk.left \ {i} /\ walk'.arms = after
    BY <1>3
  <2>2. QED
    BY <1>1, <1>2, <1>3, <1>4, <1>5, <1>6, <2>1 DEF WalkInv
<1>8. RowsInv'
  BY <1>1 DEF RowsInv
<1>9. AnsweredInv'
  <2>1. walk' # NotWalking
    BY <1>3 DEF NotWalking
  <2>2. QED
    BY <2>1 DEF AnsweredInv
<1>10. QED
  BY <1>7, <1>8, <1>9

LEMMA ListKeeps ==
  ASSUME ReportInv, ListFailures
  PROVE  ReportInv'
<1> USE DEF ReportInv
<1> DEFINE listed == {i \in Cohort : ledgerRows[i] # Unlisted}
<1>1. /\ walk' = [at |-> "counting", rows |-> ledgerRows, left |-> listed, arms |-> NoArms]
      /\ seenAtStart' = ledgerRows /\ ledgerRows' = ledgerRows /\ report' = report
  BY DEF ListFailures
<1>2. RowsInv'
  <2> SUFFICES ASSUME NEW i \in Cohort, ledgerRows[i] # Unlisted
               PROVE  RowDrawn(i, ledgerRows[i]) /\ Became(ledgerRows[i], ledgerRows[i])
    BY <1>1 DEF RowsInv
  <2>1. RowDrawn(i, ledgerRows[i])
    BY DEF RowsInv
  <2>2. QED
    BY <2>1 DEF RowDrawn, Became
<1>3. InReport' = listed
  BY <1>1 DEF InReport
<1>4. Tally({}, NoArms)'
  <2>1. \A S : {} \cap S = {}
    OBVIOUS
  <2>2. Cardinality({}) = 0
    BY FS_EmptySet
  <2>3. DOMAIN NoArms = Arms /\ \A a \in Arms : NoArms[a].count = 0 /\ NoArms[a].recovered = 0
    BY DEF NoArms, NoArm, Arms
  <2>4. {"treated", "holdout", "untouched"} = Arms
    BY DEF Arms
  <2>5. QED
    BY <2>1, <2>2, <2>3, <2>4 DEF Tally
<1> HIDE DEF listed
<1>5. WalkInv'
  <2>1. walk'.left = listed /\ walk'.arms = NoArms /\ listed \ listed = {}
    BY <1>1
  <2>2. QED
    BY <1>1, <1>3, <1>4, <2>1 DEF WalkInv
<1>6. AnsweredInv'
  BY <1>1 DEF AnsweredInv, NotWalking
<1>7. QED
  BY <1>2, <1>5, <1>6

LEMMA AnswerKeeps ==
  ASSUME ReportInv, AnswerRecoveryReport
  PROVE  ReportInv'
<1> USE DEF ReportInv
<1>1. /\ walk.at = "counting" /\ walk.left = {} /\ walk' = NotWalking
      /\ report' = [at |-> "answered", arms |-> walk.arms, lift |-> Lift(walk.arms),
                    messaged |-> CountEver("messaged"),
                    failed |-> Cardinality({i \in Cohort : walk.rows[i] # Unlisted})]
      /\ ledgerRows' = ledgerRows /\ seenAtStart' = seenAtStart
  BY DEF AnswerRecoveryReport
<1>2. walk.rows = seenAtStart /\ Tally(InReport, walk.arms)
  <2>1. walk # NotWalking
    BY <1>1, Counting
  <2>2. walk.rows = seenAtStart /\ Tally(InReport \ {}, walk.arms)
    BY <1>1, <2>1 DEF WalkInv
  <2>3. InReport \ {} = InReport
    OBVIOUS
  <2>4. QED
    BY <2>2, <2>3
<1>3. InReport' = InReport /\ \A d, a : Tally(d, a)' <=> Tally(d, a)
  BY <1>1 DEF InReport, Tally, Of, In
<1>4. RowsInv' /\ WalkInv'
  BY <1>1 DEF RowsInv, WalkInv
<1>5. AnsweredInv'
  <2>1. PICK arms : arms = walk.arms
    OBVIOUS
  <2>2. report'.arms = arms /\ report'.lift = Lift(arms) /\ report'.failed = Cardinality(InReport)
    BY <1>1, <1>2, <2>1 DEF InReport
  <2>3. Tally(InReport, arms)'
    BY <1>2, <1>3, <2>1
  <2>4. QED
    BY <1>3, <2>2, <2>3 DEF AnsweredInv
<1>6. QED
  BY <1>4, <1>5

LEMMA StepReport == ReportInv /\ [RRNext]_rrvars => ReportInv'
<1> SUFFICES ASSUME ReportInv, [RRNext]_rrvars PROVE ReportInv'
  OBVIOUS
<1> USE DEF ReportInv
<1>1. ASSUME NEW i \in Cohort, InvoiceFails(i) PROVE ReportInv'
  <2> DEFINE row == [state |-> "failed", holdout |-> IsHoldout(i), sent |-> 0, ever |-> {"failed"}]
  <2>1. ledgerRows[i] = Unlisted /\ LoopStep(i, row)
    BY <1>1 DEF InvoiceFails
  <2>2. row.state = "failed" /\ row.sent = 0 /\ DOMAIN row = {"state", "holdout", "sent", "ever"}
    OBVIOUS
  <2>3. row.holdout = IsHoldout(i) /\ IsHoldout(i) \in BOOLEAN
    BY DEF IsHoldout
  <2> HIDE DEF row
  <2>4. row # Unlisted
    BY <2>2 DEF Unlisted
  <2>5. RowDrawn(i, row)
    BY <2>2, <2>3 DEF RowDrawn
  <2>6. QED
    BY <2>1, <2>4, <2>5, LoopKeeps
<1>2. ASSUME NEW i \in Cohort, NEW row, LoopStep(i, row), ledgerRows[i].state \in {"failed", "messaged"},
             row.state \in {"messaged", "recovered", "churned"}, row.sent \in Nat,
             row.sent >= ledgerRows[i].sent, row.holdout = ledgerRows[i].holdout,
             DOMAIN row = DOMAIN ledgerRows[i]
      PROVE  ReportInv'
  <2>1. ledgerRows[i] # Unlisted /\ row # Unlisted
    BY <1>2 DEF Unlisted
  <2>2. RowDrawn(i, ledgerRows[i])
    BY <2>1 DEF RowsInv
  <2>3. RowDrawn(i, row)
    BY <1>2, <2>2 DEF RowDrawn
  <2>4. Became(ledgerRows[i], row)
    BY <1>2, <2>1 DEF Became, Closed
  <2>5. QED
    BY <1>2, <2>1, <2>3, <2>4, LoopKeeps
<1>3. ASSUME NEW i \in Cohort, ledgerRows[i].state \in {"failed", "messaged"}
      PROVE  ledgerRows[i].sent \in Nat /\ DOMAIN ledgerRows[i] = {"state", "holdout", "sent", "ever"}
  <2>1. ledgerRows[i] # Unlisted
    BY <1>3 DEF Unlisted
  <2>2. QED
    BY <2>1 DEF RowsInv, RowDrawn
<1>4. ASSUME NEW i \in Cohort, InvoiceMailed(i) PROVE ReportInv'
  <2> DEFINE r0  == ledgerRows[i]
             r1  == [r0 EXCEPT !.state = "messaged"]
             r2  == [r1 EXCEPT !.sent = r0.sent + 1]
             row == [r2 EXCEPT !.ever = r0.ever \cup {"messaged"}]
  <2>1. r0.state \in {"failed", "messaged"} /\ LoopStep(i, row)
    BY <1>4 DEF InvoiceMailed
  <2>2. r0.sent \in Nat /\ DOMAIN r0 = {"state", "holdout", "sent", "ever"}
    BY <1>3, <2>1
  <2> HIDE DEF r0
  <2>3. DOMAIN r1 = DOMAIN r0 /\ r1.state = "messaged" /\ r1.holdout = r0.holdout
    BY <2>2
  <2> HIDE DEF r1
  <2>4. /\ DOMAIN r2 = DOMAIN r0 /\ r2.state = "messaged" /\ r2.holdout = r0.holdout
        /\ r2.sent = r0.sent + 1
    BY <2>2, <2>3
  <2> HIDE DEF r2
  <2>5. /\ DOMAIN row = DOMAIN r0 /\ row.state = "messaged" /\ row.holdout = r0.holdout
        /\ row.sent = r0.sent + 1
    BY <2>2, <2>4
  <2> HIDE DEF row
  <2>6. row.sent \in Nat /\ row.sent >= r0.sent
    BY <2>2, <2>5
  <2>7. QED
    BY <1>2, <2>1, <2>5, <2>6 DEF r0
<1>5. ASSUME NEW i \in Cohort, NEW s \in {"recovered", "churned"}, InvoiceCloses(i, s)
      PROVE  ReportInv'
  <2> DEFINE r0  == ledgerRows[i]
             r1  == [r0 EXCEPT !.state = s]
             row == [r1 EXCEPT !.ever = r0.ever \cup {s}]
  <2>1. r0.state \in {"failed", "messaged"} /\ LoopStep(i, row)
    BY <1>5 DEF InvoiceCloses
  <2>2. r0.sent \in Nat /\ DOMAIN r0 = {"state", "holdout", "sent", "ever"}
    BY <1>3, <2>1
  <2> HIDE DEF r0
  <2>3. DOMAIN r1 = DOMAIN r0 /\ r1.state = s /\ r1.holdout = r0.holdout /\ r1.sent = r0.sent
    BY <2>2
  <2> HIDE DEF r1
  <2>4. DOMAIN row = DOMAIN r0 /\ row.state = s /\ row.holdout = r0.holdout /\ row.sent = r0.sent
    BY <2>2, <2>3
  <2> HIDE DEF row
  <2>5. row.sent \in Nat /\ row.sent >= r0.sent
    BY <2>2, <2>4
  <2>6. QED
    BY <1>2, <2>1, <2>4, <2>5 DEF r0
<1>6. CASE UNCHANGED rrvars
  <2>1. InReport' = InReport /\ \A d, a : Tally(d, a)' <=> Tally(d, a)
    BY <1>6 DEF rrvars, InReport, Tally, Of, In
  <2>2. RowsInv'
    BY <1>6 DEF rrvars, RowsInv
  <2>3. WalkInv' /\ AnsweredInv'
    BY <1>6, <2>1 DEF rrvars, WalkInv, AnsweredInv
  <2>4. QED
    BY <2>2, <2>3
<1>7. QED
  BY <1>1, <1>4, <1>5, <1>6, CountRowKeeps, ListKeeps, AnswerKeeps DEF RRNext

\* No lift is stated but between two arms that are large enough.
LEMMA LiftStated ==
  ASSUME NEW arms, \A a \in Arms : arms[a].count \in Nat, Lift(arms) = "stated"
  PROVE  \E b \in {"holdout", "untouched"} :
           arms[b].count >= MinArm /\ arms["treated"].count >= MinArm
<1> DEFINE b == Baseline(arms)
<1>1. b \in {"holdout", "untouched", "none"}
  BY DEF Baseline
<1>2. b # "none" /\ ~(arms["treated"].count < MinArm) /\ ~(arms[b].count < MinArm)
  BY DEF Lift
<1>3. MinArm \in Nat /\ arms["treated"].count \in Nat /\ arms[b].count \in Nat
  BY <1>1, <1>2, ReportAssumption DEF Arms
<1> HIDE DEF b
<1>4. QED
  BY <1>1, <1>2, <1>3

\* A report that reads while the loop writes still describes the cohort: the arms are a
\* partition of the failures it listed, the holdout is the one drawn, recoveries lie
\* between what was true when it began and what is true now, and no lift is stated
\* against an arm below the minimum (build_report and _attribution of report.py).
THEOREM ReportIsOfTheCohort == RRSpec => []ReportDescribesTheCohort
<1>1. ReportInv => ReportDescribesTheCohort
  <2> SUFFICES ASSUME RowsInv, Tally(InReport, report.arms), report.lift = Lift(report.arms),
                      report.failed = Cardinality(InReport)
               PROVE  ReportDescribesTheCohort
    BY DEF ReportInv, AnsweredInv, ReportDescribesTheCohort
  <2> DEFINE was  == seenAtStart
             arms == report.arms
  <2>1. arms["treated"].count + arms["holdout"].count + arms["untouched"].count = report.failed
    BY DEF Tally
  <2>2. \A a : InReport \cap Of(was, a) = Of(was, a) /\ InReport \cap In(was, a, "recovered") = In(was, a, "recovered")
    BY DEF InReport, Of, In
  <2>3. arms["holdout"].count = Cardinality({i \in Cohort : was[i] # Unlisted /\ IsHoldout(i)})
    <3>1. Of(was, "holdout") = {i \in Cohort : was[i] # Unlisted /\ IsHoldout(i)}
      <4>1. ASSUME NEW i \in Cohort, was[i] # Unlisted
            PROVE  Arm(was[i], was[i].sent) = "holdout" <=> IsHoldout(i)
        BY <4>1 DEF RowsInv, RowDrawn, Arm
      <4>2. QED
        BY <4>1 DEF Of
    <3>2. QED
      BY <2>2, <3>1 DEF Tally
  <2>4. ASSUME NEW a \in {"treated", "holdout"}
        PROVE  /\ Cardinality(In(was, a, "recovered")) <= arms[a].recovered
               /\ arms[a].recovered <= Cardinality(In(ledgerRows, a, "recovered"))
    <3>1. arms[a].recovered = Cardinality(In(was, a, "recovered"))
      BY <2>2 DEF Tally
    <3>2. In(was, a, "recovered") \subseteq In(ledgerRows, a, "recovered")
      <4> SUFFICES ASSUME NEW i \in Cohort, was[i] # Unlisted, was[i].state = "recovered",
                          Arm(was[i], was[i].sent) = a
                   PROVE  /\ ledgerRows[i] # Unlisted /\ ledgerRows[i].state = "recovered"
                          /\ Arm(ledgerRows[i], ledgerRows[i].sent) = a
        BY DEF In, Of
      <4>1. Became(was[i], ledgerRows[i])
        BY DEF RowsInv
      <4>2. /\ ledgerRows[i] # Unlisted /\ ledgerRows[i].state = "recovered"
            /\ ledgerRows[i].holdout = was[i].holdout /\ ledgerRows[i].sent = was[i].sent
        BY <4>1 DEF Became, Closed
      <4>3. QED
        BY <4>2 DEF Arm
    <3>3. In(ledgerRows, a, "recovered") \in SUBSET Cohort
      BY DEF In, Of
    <3>4. Cardinality(In(was, a, "recovered")) <= Cardinality(In(ledgerRows, a, "recovered"))
      BY <3>2, <3>3, CohortFinite, FS_Subset
    <3>5. Cardinality(In(was, a, "recovered")) \in Nat
      BY <3>2, <3>3, CohortFinite
    <3>6. QED
      BY <3>1, <3>4, <3>5
  <2>5. ASSUME report.lift = "stated"
        PROVE  \E b \in {"holdout", "untouched"} :
                 Cardinality(Of(was, b)) >= MinArm /\ arms["treated"].count >= MinArm
    <3>1. PICK b \in {"holdout", "untouched"} :
            arms[b].count >= MinArm /\ arms["treated"].count >= MinArm
      BY <2>5, LiftStated DEF Tally
    <3>2. arms[b].count <= Cardinality(Of(was, b))
      <4>1. arms["holdout"].count = Cardinality(Of(was, "holdout"))
            /\ arms["untouched"].count <= Cardinality(Of(was, "untouched"))
            /\ arms["holdout"].count \in Nat
        BY <2>2 DEF Tally, Arms
      <4>2. QED
        BY <3>1, <4>1
    <3>3. Cardinality(Of(was, b)) \in Nat /\ arms[b].count \in Nat /\ MinArm \in Nat
      <4>1. Of(was, b) \in SUBSET Cohort
        BY DEF Of
      <4>2. QED
        BY <4>1, CohortFinite, ReportAssumption DEF Tally, Arms
    <3>4. QED
      BY <3>1, <3>2, <3>3
  <2>6. QED
    BY <2>1, <2>3, <2>4, <2>5 DEF ReportDescribesTheCohort
<1>2. QED
  BY <1>1, InitReport, StepReport, PTL DEF RRSpec


-------------------------------------------------------------------------------
(* Drafting, for any customer and business and whatever the model writes.     *)

Pii == {"name", "email", "card", "phone"}

\* A diagnosis the program delivers: no link, secret or dangling placeholder; and a name
\* or an address in it is one that the masking knows again.
Delivered(text) ==
  /\ text \cap (Unsafe \cup Dangling) = {} /\ "email_rest" \notin text
  /\ "name" \in text => NameIsSafe(customer) /\ NameMarks(customer) \subseteq text
  /\ "email" \in text => WellFormed(customer)

DraftingInv ==
  /\ customer \in CustomerKinds
  /\ prompts \cap (Pii \cup Unsafe) = {}
  /\ "email_rest" \in prompts => customer.email = "named" /\ "email" \in diagnosis
  /\ stage = "guard_diagnosis" =>
       "email_rest" \notin prompts /\ answer \cap (Pii \cup {"email_rest"}) = {}
  /\ stage # "done" => message = {}
  /\ Delivered(diagnosis) /\ DeliveredIsClean

LEMMA PlanIsSafe ==
  ASSUME NEW c
  PROVE  SafePlan(c) \subseteq {"braces"} /\ ("braces" \in SafePlan(c) => c.plan = "braced")
BY DEF SafePlan, PlanMarks

LEMMA NameMarked ==
  ASSUME NEW c \in CustomerKinds, NameIsSafe(c)
  PROVE  "name" \in NameMarks(c) /\ NameMarks(c) \subseteq {"name", "phone", "braces"}
BY DEF NameIsSafe, NameMarks

\* What the guards let through, a name or an address only as the record has it.
LEMMA Rehydrated ==
  ASSUME NEW c \in CustomerKinds, NEW text, "name" \notin text, "email" \notin text
  PROVE  LET hydrated == Rehydrate(text, c)
         IN /\ "name" \in hydrated => NameIsSafe(c) /\ NameMarks(c) \subseteq hydrated
            /\ "email" \in hydrated => WellFormed(c)
            /\ "email_rest" \notin text => "email_rest" \notin hydrated
<1> DEFINE hydrated == Rehydrate(text, c)
<1>1. \A x \in hydrated : x \in text \/ \E ph \in text \cap Mapped(c) : x \in Restores(c, ph)
  BY DEF Rehydrate
<1>2. \A ph \in text \cap Mapped(c) : Restores(c, ph) \subseteq hydrated
  BY DEF Rehydrate
<1>3. Mapped(c) \subseteq {"name_ph", "email_ph"}
  BY DEF Mapped
<1>4. Restores(c, "name_ph") = IF NameIsSafe(c) THEN NameMarks(c) ELSE {}
  BY DEF Restores
<1>5. Restores(c, "email_ph") = IF WellFormed(c) THEN {"email"} ELSE {}
  BY DEF Restores, EmailMarks, WellFormed
<1> HIDE DEF hydrated
<1>6. ASSUME "name" \in hydrated
      PROVE  NameIsSafe(c) /\ NameMarks(c) \subseteq hydrated
  <2>1. PICK ph \in text \cap Mapped(c) : "name" \in Restores(c, ph)
    BY <1>1, <1>6
  <2>2. ph = "name_ph"
    BY <1>3, <1>5, <2>1
  <2>3. NameIsSafe(c)
    BY <1>4, <2>1, <2>2
  <2>4. QED
    BY <1>2, <1>4, <2>1, <2>2, <2>3
<1>7. ASSUME "email" \in hydrated
      PROVE  WellFormed(c)
  <2>1. PICK ph \in text \cap Mapped(c) : "email" \in Restores(c, ph)
    BY <1>1, <1>7
  <2>2. CASE ph = "name_ph"
    BY <1>4, <2>1, <2>2, NameMarked
  <2>3. CASE ph = "email_ph"
    BY <1>5, <2>1, <2>3
  <2>4. QED
    BY <1>3, <2>1, <2>2, <2>3
<1>8. ASSUME "email_rest" \in hydrated, "email_rest" \notin text
      PROVE  FALSE
  <2>1. PICK ph \in text \cap Mapped(c) : "email_rest" \in Restores(c, ph)
    BY <1>1, <1>8
  <2>2. ph # "name_ph"
    BY <1>4, <2>1, NameMarked
  <2>3. QED
    BY <1>3, <1>5, <2>1, <2>2
<1>9. QED
  BY <1>6, <1>7, <1>8 DEF hydrated

LEMMA Guarded ==
  ASSUME NEW c, NEW raw, ~GuardRehydrateRecheck(raw, c).failed
  PROVE  /\ GuardRehydrateRecheck(raw, c).text = Rehydrate(raw, c)
         /\ Rehydrate(raw, c) \cap (Unsafe \cup Placeholders) = {}
<1> DEFINE hydrated == Rehydrate(raw, c)
           failed   == Violates(raw) \/ hydrated \cap Placeholders # {} \/ Violates(hydrated)
<1>1. GuardRehydrateRecheck(raw, c) = [failed |-> failed, text |-> hydrated]
  BY DEF GuardRehydrateRecheck
<1>2. GuardRehydrateRecheck(raw, c).failed = failed /\ GuardRehydrateRecheck(raw, c).text = hydrated
  BY <1>1
<1>3. hydrated \cap Placeholders = {} /\ ~Violates(hydrated)
  BY <1>2
<1> HIDE DEF hydrated
<1>4. hydrated \cap Unsafe = {}
  BY <1>3 DEF Violates, ForeignUrls, Secrets, Unsafe
<1>5. QED
  BY <1>2, <1>3, <1>4 DEF hydrated

\* The committed copy is clean, but for braces of the record.
LEMMA TemplateIsSafe ==
  ASSUME NEW c \in CustomerKinds
  PROVE  /\ SafeTemplate(c) \subseteq {"name", "braces"}
         /\ "braces" \in SafeTemplate(c) => "braced" \in {c.name, c.plan}
         /\ "name" \in SafeTemplate(c) => NameIsSafe(c) /\ NameMarks(c) \subseteq SafeTemplate(c)
<1>1. SafeName(c) \subseteq {"name", "braces"} /\ ("braces" \in SafeName(c) => c.name = "braced")
  BY DEF SafeName, NameMarks
<1>2. "name" \in SafeName(c) => NameIsSafe(c) /\ NameMarks(c) \subseteq SafeName(c)
  BY DEF SafeName, NameIsSafe
<1>3. QED
  BY <1>1, <1>2, PlanIsSafe DEF SafeTemplate

LEMMA SignatureIsSafe ==
  ASSUME NEW b
  PROVE  Signature(b) \subseteq {"signed", "signed_as_recipient", "braces"}
BY DEF Signature

\* Braces in a signature are the business's own, or the customer's name's.
LEMMA BracesSigned ==
  ASSUME customer \in CustomerKinds, NEW b, "braces" \in Signature(b)
  PROVE  business = "braced" \/ customer.name = "braced"
BY DEF Signature, NameMarks, CustomerKinds

\* A diagnosis on its way into the second prompt.
LEMMA SecondPromptIsClean ==
  ASSUME customer \in CustomerKinds, Delivered(diagnosis)
  PROVE  /\ SecondPrompt \cap (Pii \cup Unsafe) = {}
         /\ "email_rest" \in SecondPrompt => customer.email = "named" /\ "email" \in diagnosis
<1> DEFINE masked == Remask(diagnosis, customer)
<1>1. "name" \notin masked
  <2>1. CASE "name" \in diagnosis
    <3>1. NameIsSafe(customer) /\ NameMarks(customer) \subseteq diagnosis
      BY <2>1 DEF Delivered
    <3>2. "name" \in NameMarks(customer)
      BY <3>1, NameMarked
    <3>3. QED
      BY <3>1, <3>2 DEF Remask
  <2>2. CASE "name" \notin diagnosis
    BY <2>2 DEF Remask
  <2>3. QED
    BY <2>1, <2>2
<1>2. "email" \notin masked
  BY DEF Remask, Delivered
<1>3. "link" \notin masked /\ "secret" \notin masked
  BY DEF Remask, Delivered, Unsafe
<1>0. "email_rest" \in masked => customer.email = "named" /\ "email" \in diagnosis
  BY DEF Remask, Delivered
<1> HIDE DEF masked
<1>4. SafeFreeText(masked) \cap (Pii \cup Unsafe) = {}
  BY <1>1, <1>2, <1>3 DEF SafeFreeText, Pii, Unsafe
<1>5. MaskedFields(customer) \subseteq {"name_ph", "email_ph", "braces"}
  BY PlanIsSafe DEF MaskedFields
<1> DEFINE harmless == {"name_ph", "email_ph", "signed", "signed_as_recipient", "braces"}
<1>6. \A x \in SecondPrompt : x \in harmless \/ x \in SafeFreeText(masked)
  BY <1>5, SignatureIsSafe DEF SecondPrompt, ForSecondPrompt, masked
<1>7. harmless \cap (Pii \cup Unsafe \cup {"email_rest"}) = {}
  BY DEF Pii, Unsafe
<1>8. "email_rest" \in SafeFreeText(masked) => "email_rest" \in masked
  BY DEF SafeFreeText
<1> HIDE DEF harmless
<1>9. QED
  BY <1>0, <1>4, <1>6, <1>7, <1>8

LEMMA InitDrafting == DInit => DraftingInv
BY DEF DInit, DraftingInv, Delivered, DeliveredIsClean

LEMMA StepDrafting == DraftingInv /\ [DNext]_dvars => DraftingInv'
<1> SUFFICES ASSUME DraftingInv, [DNext]_dvars PROVE DraftingInv'
  OBVIOUS
<1> USE DEF DraftingInv
<1>0. ASSUME customer' = customer, diagnosis' = diagnosis PROVE Delivered(diagnosis)'
  BY <1>0 DEF Delivered, NameIsSafe, NameMarks, WellFormed
<1>1. CASE RetrieveContext
  BY <1>1, <1>0 DEF RetrieveContext, DeliveredIsClean
<1>2. CASE AskDiagnosis
  <2>1. FirstPrompt \subseteq {"name_ph", "email_ph", "braces"}
    BY PlanIsSafe DEF FirstPrompt, MaskedFields
  <2>2. PICK text \in Answers(TemplateEngine(customer), FirstPrompt) : answer' = SafeFreeText(text)
    BY <1>2 DEF AskDiagnosis
  <2>3. text \subseteq {"name_ph", "email_ph", "braces"} \cup Invented
    BY <2>1, <2>2, PlanIsSafe DEF Answers, TemplateEngine
  <2>4. answer' \cap (Pii \cup {"email_rest"}) = {}
    BY <2>2, <2>3 DEF SafeFreeText, Invented, Unsafe, Pii
  <2>5. prompts' \cap (Pii \cup Unsafe) = {} /\ "email_rest" \notin prompts'
    BY <1>2, <2>1 DEF AskDiagnosis, Pii, Unsafe
  <2>6. UNCHANGED <<customer, business, diagnosis, message, fellBack>> /\ stage' # "done" /\ stage # "done"
    BY <1>2 DEF AskDiagnosis
  <2>7. QED
    BY <2>4, <2>5, <2>6, <1>0 DEF DeliveredIsClean
<1>3. CASE GuardDiagnosis
  <2> DEFINE g == GuardRehydrateRecheck(answer, customer)
  <2>1. /\ answer \cap (Pii \cup {"email_rest"}) = {} /\ "email_rest" \notin prompts
        /\ customer' = customer /\ prompts' = prompts /\ message' = {}
        /\ stage' = "ask_message" /\ diagnosis' = IF g.failed THEN SafeTemplate(customer) ELSE g.text
        /\ fellBack' = IF g.failed THEN {"diagnosis"} ELSE {}
    BY <1>3 DEF GuardDiagnosis
  <2>2. /\ Delivered(diagnosis)'
        /\ "braces" \in diagnosis' => g.failed /\ "braced" \in {customer.name, customer.plan}
    <3>1. CASE g.failed
      BY <2>1, <3>1, TemplateIsSafe
      DEF Delivered, Unsafe, Dangling, NameIsSafe, NameMarks, WellFormed
    <3>2. CASE ~g.failed
      <4>1. /\ diagnosis' = Rehydrate(answer, customer)
            /\ diagnosis' \cap (Unsafe \cup Placeholders) = {}
        BY <2>1, <3>2, Guarded
      <4>2. "name" \notin answer /\ "email" \notin answer /\ "email_rest" \notin answer
        BY <2>1 DEF Pii
      <4>3. /\ "name" \in diagnosis' => NameIsSafe(customer) /\ NameMarks(customer) \subseteq diagnosis'
            /\ "email" \in diagnosis' => WellFormed(customer)
            /\ "email_rest" \notin diagnosis'
        BY <4>1, <4>2, Rehydrated
      <4>4. QED
        BY <2>1, <4>1, <4>3 DEF Delivered, NameIsSafe, NameMarks, WellFormed, Placeholders
    <3>3. QED
      BY <3>1, <3>2
  <2>3. DeliveredIsClean'
    BY <2>1, <2>2 DEF DeliveredIsClean, Delivered
  <2>4. QED
    BY <2>1, <2>2, <2>3
<1>4. CASE AskMessage
  <2>1. /\ prompts' \cap (Pii \cup Unsafe) = {}
        /\ "email_rest" \in prompts' => customer.email = "named" /\ "email" \in diagnosis
    BY <1>4, SecondPromptIsClean DEF AskMessage
  <2>2. UNCHANGED <<customer, business, diagnosis, message, fellBack>> /\ stage' = "guard_message"
    BY <1>4 DEF AskMessage
  <2>3. stage # "done"
    BY <1>4 DEF AskMessage
  <2>4. QED
    BY <2>1, <2>2, <2>3, <1>0 DEF DeliveredIsClean
<1>5. CASE GuardMessage
  <2> DEFINE g == GuardRehydrateRecheck(answer, customer)
  <2>1. /\ UNCHANGED <<customer, business, prompts, diagnosis>> /\ stage' = "done"
        /\ message' = IF g.failed THEN SignedSafeTemplate(customer) ELSE g.text
        /\ fellBack' = IF g.failed THEN fellBack \cup {"message"} ELSE fellBack
    BY <1>5 DEF GuardMessage
  <2>2. /\ message' \cap (Unsafe \cup Dangling) = {}
        /\ "braces" \in message' => g.failed /\ "braced" \in {customer.name, customer.plan, business}
    <3>1. CASE g.failed
      <4>1. message' \subseteq {"name", "braces", "signed", "signed_as_recipient"}
        BY <2>1, <3>1, TemplateIsSafe, SignatureIsSafe DEF SignedSafeTemplate
      <4>2. "braces" \in message' => "braced" \in {customer.name, customer.plan, business}
        BY <2>1, <3>1, TemplateIsSafe, BracesSigned DEF SignedSafeTemplate
      <4>3. QED
        BY <3>1, <4>1, <4>2 DEF Unsafe, Dangling
    <3>2. CASE ~g.failed
      BY <2>1, <3>2, Guarded DEF Placeholders
    <3>3. QED
      BY <3>1, <3>2
  <2>3. DeliveredIsClean'
    BY <2>1, <2>2 DEF DeliveredIsClean
  <2>4. QED
    BY <2>1, <2>3, <1>0
<1>6. CASE UNCHANGED dvars
  BY <1>6, <1>0 DEF dvars, DeliveredIsClean
<1>7. QED
  BY <1>1, <1>2, <1>3, <1>4, <1>5, <1>6 DEF DNext

\* No prompt holds the customer's name or address, a card, a long number or a link of the
\* record, but for what is left of an address around the name in it; and no text leaves
\* the graph with an unsanctioned link, a secret or a placeholder, but for braces of the
\* record's own in the committed copy: whatever the model wrote and the record holds
\* (nodes.py, pii.py and safety.py).
THEOREM TextsStayClean == DSpec => []TextsAreClean
<1>1. DraftingInv => TextsAreClean
  BY DEF DraftingInv, TextsAreClean, PromptsCarryNoPii, Pii
<1>2. QED
  BY <1>1, InitDrafting, StepDrafting, PTL DEF DSpec
===============================================================================
