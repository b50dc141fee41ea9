------------------------------- MODULE Verdict -------------------------------
(* The rules of a failed payment (app/decision.py), as the nodes of the     *)
(* graph apply them (app/nodes.py assess_risk, choose_strategy,             *)
(* schedule_retry, _build_impact) and as a batch of events is rolled up by  *)
(* currency (app/graph.py run_recovery_batch).  Amounts are whole units and *)
(* the expected value of a recovery is left out: it is a float for display. *)
EXTENDS Integers, FiniteSets, Sequences

CONSTANTS
  Portfolio,   \* the events a batch may hold
  Rank,        \* currency -> its place in alphabetical order
  BatchSize,   \* events of one batch
  NoDate       \* no date

\* Amounts are counted in whole units, and no two currencies share a place.
ASSUME VerdictAssumption ==
  /\ \A e \in Portfolio : e.amount \in Nat /\ Rank[e.currency] \in Nat
  /\ \A e, f \in Portfolio : Rank[e.currency] = Rank[f.currency] => e.currency = f.currency

VARIABLES
  case,        \* the event the graph is running
  node,        \* the node it has reached
  risk,        \* attempt, prior failures, churn risk
  strategy,    \* action, days to the retry, whether it escalated
  schedule,    \* whose retry date it is, and the date
  results,     \* the impacts of the batch so far, in the order of the events
  buckets      \* by_currency: count, total at risk, high risks

vvars == <<case, node, risk, strategy, schedule, results, buckets>>

StrategyRules ==
  [card_expired             |-> [action |-> "request_card_update", days |-> 1],
   insufficient_funds       |-> [action |-> "wait_and_retry", days |-> 3],
   issuer_do_not_retry      |-> [action |-> "request_new_payment_method", days |-> 0],
   card_details_invalid     |-> [action |-> "request_card_update", days |-> 0],
   direct_debit_not_retried |-> [action |-> "request_manual_payment", days |-> 0],
   retries_exhausted        |-> [action |-> "request_new_payment_method", days |-> 0],
   generic_decline          |-> [action |-> "retry_and_verify", days |-> 2]]

DefaultStrategy == [action |-> "retry_and_verify", days |-> 2]

NoRetryCodes ==
  {"issuer_do_not_retry", "card_details_invalid", "direct_debit_not_retried",
   "retries_exhausted"}
NoRetryActions == {"request_new_payment_method", "request_manual_payment"}

\* The failures among the last six payments before the one that failed now.
PriorFailures(history) ==
  LET before == Len(history) - 1
  IN Cardinality({k \in 1..before : k > before - 6 /\ history[k] = "failed"})

ChurnRisk(attempt, prior) ==
  IF attempt >= 3 \/ attempt + prior >= 4 THEN "high"
  ELSE IF attempt = 2 \/ attempt + prior >= 2 THEN "medium" ELSE "low"

RuleOf(code) ==
  IF code \in DOMAIN StrategyRules THEN StrategyRules[code] ELSE DefaultStrategy

Tightened(days) == IF days - 1 > 1 THEN days - 1 ELSE 1

\* Escalation that tightens every rule, the ones without a retry too.
StrategyTightened(code, escalate) ==
  LET rule == RuleOf(code)
  IN [action |-> rule.action, escalated |-> escalate,
      days |-> IF escalate THEN Tightened(rule.days) ELSE rule.days]

\* strategy_for: a repeat failure pulls the retry in by a day, never below one;
\* a rule without a retry keeps none.
StrategyFor(code, escalate) ==
  LET rule == RuleOf(code)
  IN [action |-> rule.action, escalated |-> escalate,
      days |-> IF escalate /\ rule.days # 0 THEN Tightened(rule.days) ELSE rule.days]

NoRetry(s, code) ==
  s.days = 0 /\ (s.action \in NoRetryActions \/ code \in NoRetryCodes)

\* schedule_retry: the provider's own date, no date, or the cadence of the rule.
ScheduleOf(e, s) ==
  LET provider == IF e.stripe_at # NoDate THEN "stripe" ELSE "recharge"
      at == IF e.stripe_at # NoDate THEN e.stripe_at ELSE e.recharge_at
  IN IF NoRetry(s, e.code) THEN [source |-> "none", at |-> NoDate]
     ELSE IF at # NoDate THEN [source |-> provider, at |-> at]
     ELSE [source |-> "paypilot_suggestion", at |-> s.days]

Impact(e, r) == [currency |-> e.currency, amount |-> e.amount,
                 high |-> r.churn = "high"]

\* One result enters the bucket of its currency.
AddToBucket(bs, i) ==
  LET empty == [count |-> 0, total |-> 0, high |-> 0]
      b == IF i.currency \in DOMAIN bs THEN bs[i.currency] ELSE empty
      more == [count |-> b.count + 1, total |-> b.total + i.amount,
               high |-> b.high + (IF i.high THEN 1 ELSE 0)]
  IN [c \in DOMAIN bs \cup {i.currency} |-> IF c = i.currency THEN more ELSE bs[c]]

\* The currency with most accounts, then most money, then first by name.
Ahead(bs, c, d) ==
  \/ bs[c].count > bs[d].count
  \/ bs[c].count = bs[d].count /\ bs[c].total > bs[d].total
  \/ bs[c].count = bs[d].count /\ bs[c].total = bs[d].total /\ Rank[c] < Rank[d]

Primary(bs) ==
  IF DOMAIN bs = {} THEN "USD"
  ELSE CHOOSE c \in DOMAIN bs : \A d \in DOMAIN bs \ {c} : Ahead(bs, c, d)

NoRisk == [attempt |-> 0, prior |-> 0, churn |-> "low"]
NoStrategy == [action |-> "none", days |-> 0, escalated |-> FALSE]
NoSchedule == [source |-> "none", at |-> NoDate]

VInit ==
  /\ case \in Portfolio /\ node = "assess_risk"
  /\ risk = NoRisk /\ strategy = NoStrategy /\ schedule = NoSchedule
  /\ results = <<>> /\ buckets = <<>>

AssessRisk ==
  /\ node = "assess_risk"
  /\ LET attempt == IF case.attempt = 0 THEN 1 ELSE case.attempt
         prior == PriorFailures(case.history)
     IN risk' = [attempt |-> attempt, prior |-> prior,
                 churn |-> ChurnRisk(attempt, prior)]
  /\ node' = "choose_strategy"
  /\ UNCHANGED <<case, strategy, schedule, results, buckets>>

ChooseStrategy ==
  /\ node = "choose_strategy"
  /\ strategy' = StrategyFor(case.code, risk.churn = "high")
  /\ node' = "schedule_retry"
  /\ UNCHANGED <<case, risk, schedule, results, buckets>>

ScheduleRetry ==
  /\ node = "schedule_retry"
  /\ schedule' = ScheduleOf(case, strategy)
  /\ node' = "finalize"
  /\ UNCHANGED <<case, risk, strategy, results, buckets>>

\* finalize, and the roll-up of the result by its currency.
Finalize ==
  /\ node = "finalize"
  /\ results' = Append(results, Impact(case, risk))
  /\ buckets' = AddToBucket(buckets, Impact(case, risk))
  /\ node' = "done"
  /\ UNCHANGED <<case, risk, strategy, schedule>>

NextCase(e) ==
  /\ node = "done" /\ Len(results) < BatchSize
  /\ case' = e /\ node' = "assess_risk"
  /\ risk' = NoRisk /\ strategy' = NoStrategy /\ schedule' = NoSchedule
  /\ UNCHANGED <<results, buckets>>

VNext ==
  \/ AssessRisk \/ ChooseStrategy \/ ScheduleRetry \/ Finalize
  \/ \E e \in Portfolio : NextCase(e)

VSpec == VInit /\ [][VNext]_vvars

-----------------------------------------------------------------------------
\* A code that no retry can help gets no date, whatever the customer's history
\* escalates it to and whatever date the provider still reports: three tables
\* (rules, codes, actions) and the escalation have to agree on it.
NoRetryPromised ==
  node \in {"finalize", "done"} /\ case.code \in NoRetryCodes =>
    schedule = [source |-> "none", at |-> NoDate] /\ strategy.days = 0

\* The results in a currency, the ones at high risk, and the units of money in them.
OfCurrency(c) == {n \in DOMAIN results : results[n].currency = c}
HighIn(c) == {n \in OfCurrency(c) : results[n].high}
UnitsIn(c) == UNION {{n} \X (1..results[n].amount) : n \in OfCurrency(c)}

\* Each result of a batch is counted once, in its own currency, and the headline
\* currency is the one the counts choose in whatever order the events came.
RollUpCountsEachOnce ==
  /\ DOMAIN buckets = {results[n].currency : n \in DOMAIN results}
  /\ \A c \in DOMAIN buckets :
       /\ buckets[c].count = Cardinality(OfCurrency(c))
       /\ buckets[c].total = Cardinality(UnitsIn(c))
       /\ buckets[c].high = Cardinality(HighIn(c))
  /\ DOMAIN buckets # {} =>
       /\ Primary(buckets) \in DOMAIN buckets
       /\ \A d \in DOMAIN buckets \ {Primary(buckets)} : Ahead(buckets, Primary(buckets), d)

\* The portfolio's report promises no retry that cannot come, and adds up.
PortfolioIsHonest == NoRetryPromised /\ RollUpCountsEachOnce
=============================================================================
