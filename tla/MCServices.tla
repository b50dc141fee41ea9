------------------------------ MODULE MCServices ------------------------------
(* Instances of the services around the recovery loop for TLC.  They share no *)
(* state: a behaviour is one of a single service, chosen at the start, and    *)
(* the others stay where they began.                                          *)
EXTENDS Verdict, Drafting, InferenceBudget, ReturnCodes, SourceWebhooks,
        ApiEdge, DecisionLedger, BankCalls, BankConsent, TenantConfig, Migration,
        RecoveryReport, Erasure, Access

CONSTANTS Absent, i1, k1

VARIABLE service

-----------------------------------------------------------------------------
Case(code, attempt, history, stripe, recharge, currency, amount) ==
  [code |-> code, attempt |-> attempt, history |-> history, stripe_at |-> stripe,
   recharge_at |-> recharge, currency |-> currency, amount |-> amount]

ok == "ok"
bad == "failed"
MCHistories == {<<>>, <<bad, ok, bad>>, <<bad, bad, bad, bad, ok, ok, ok, ok, ok, bad>>}

\* Every code with every history; the provider's date and the currency vary with
\* the attempt and the code.
MCPortfolio ==
  {Case(c, n, h, IF n = 1 THEN 2 ELSE Absent, IF n = 3 THEN 5 ELSE Absent,
        IF c \in {"card_expired", "generic_decline"} THEN "EUR" ELSE "USD",
        IF c = "card_expired" THEN 2 ELSE 1) :
     c \in DOMAIN StrategyRules \cup {"other"}, n \in {0, 1, 3}, h \in MCHistories}
MCRank == [EUR |-> 1, USD |-> 2]

\* Rows of a return-code table, right and wrong in each way the checks know.
Entry(row, decision, reason, limit) ==
  [row |-> row, decision |-> decision, reason |-> reason, limit |-> limit]
MCEntries ==
  {Entry(1, "again", FALSE, "whole"), Entry(1, "again", FALSE, "part"),
   Entry(2, "not here", FALSE, "none"), Entry(2, "again", FALSE, "none"),
   Entry(6, "a person looks", TRUE, "none"), Entry(6, "a person looks", FALSE, "none")}
MCControl == [r \in Rails |-> "k1"]
MCNamed == [ach |-> {"k2"}, sepa |-> {"k1", "k2"}, bacs |-> {"k2"}]

\* Deliveries of the four billers: the same id from two tenants and two attempts,
\* one without an id, one that is not signed, and one of each kind of code.
StripeBody(advice, method, code, next) ==
  [advice |-> advice, method |-> method, code |-> code, next |-> next]
ChargebeeBody(state, dunning, gateway, code, next) ==
  [status |-> state, dunning |-> dunning, gateway |-> gateway, code |-> code, next |-> next]
RechargeBody(type, date) == [type |-> type, date |-> date]
LoopBody(failed, code, left) == [failed |-> failed, code |-> code, left |-> left]
From(tenant, source, id, tried, body, authentic) ==
  [tenant |-> tenant, source |-> source, id |-> id, tried |-> tried, body |-> body,
   authentic |-> authentic]
MCDeliveries ==
  {From("t1", "stripe", "x", 0, StripeBody(Absent, "card", "expired_card", 5), TRUE),
   From("t2", "stripe", "x", 0, StripeBody(Absent, "sepa_debit", "odd", Absent), TRUE),
   From("t1", "stripe", Absent, 0, StripeBody("do_not_try_again", "card", "card_declined", Absent), TRUE),
   From("t1", "recharge", "x", 1, RechargeBody("CARD_DECLINED", 5), TRUE),
   From("t1", "recharge", "x", 2, RechargeBody("DO_NOT_HONOR", Absent), TRUE),
   From("t2", "recharge", "x", 1, RechargeBody("INSUFFICIENT_FUNDS", 5), TRUE),
   From("t2", "recharge", "x", 1, RechargeBody("INSUFFICIENT_FUNDS", 5), FALSE),
   From("t1", "recharge", "y", 1, RechargeBody("THROTTLE", 5), TRUE),
   From("t1", "chargebee", "x", 0, ChargebeeBody("failure", "in_progress", "adyen", "odd", 5), TRUE),
   From("t2", "chargebee", "x", 0, ChargebeeBody("failure", "exhausted", "stripe", "expired_card", 5), TRUE),
   From("t2", "chargebee", "y", 0, ChargebeeBody("failure", "stopped", "stripe", "expired_card", Absent), TRUE),
   From("t2", "chargebee", "z", 0, ChargebeeBody("timeout", "stopped", "stripe", "expired_card", Absent), TRUE),
   From("t1", "loop", "x", 0, LoopBody(TRUE, "FRAUD_SUSPECTED", 0), TRUE),
   From("t2", "loop", "x", 0, LoopBody(TRUE, "insufficient_funds", 2), TRUE),
   From("t1", "loop", "y", 0, LoopBody(TRUE, "MERCHANT_RULE", 0), TRUE),
   From("t1", "loop", "y", 0, LoopBody(FALSE, "CARD_DECLINED", 0), TRUE)}

\* Two addresses and two keys, of which one pair joins to the same text as another.
MCAddresses == {<<"h">>, <<"h", "g">>}
MCRequestKeys == {<<"k">>, <<"g", "k">>}

\* A report id of a caller's own, and one that looks like a made-up one.
MCReportIds == {k1, <<"auto", i1, "paid">>}

\* What a tenant's admin and the platform's operator send.
MCEdits ==
  {"from_address" :> {"shop"}, "approval_mode" :> {"junk"} @@ "from_address" :> {"other"}}
MCGrants ==
  {[send_enabled |-> {"on"}, allowed_from_domains |-> {"shop"}],
   [send_enabled |-> {"off"}, allowed_from_domains |-> {}],
   [send_enabled |-> {"junk"}, llm_budget_usd |-> {"junk"}]}

\* One invoice of the holdout, two that are not.
MCBuckets == "a" :> 5 @@ "b" :> 50 @@ "c" :> 99

\* One person with an invoice, and one who is on the roster only.
MCBillsOf == "u1" :> {"b1"} @@ "u2" :> {}

-----------------------------------------------------------------------------
Services ==
  {"verdict", "drafting", "budget", "codes", "webhooks", "edge", "decision", "calls",
   "consent", "config", "migration", "report", "erasure", "access"}

\* The one that runs begins in each of its initial states, the others in one.
Begin(s, chosen) == service = s \/ chosen

MCInit ==
  /\ service \in Services
  /\ VInit  /\ Begin("verdict", case = Case("other", 0, <<>>, Absent, Absent, "USD", 1))
  /\ DInit  /\ Begin("drafting", business = "unset"
                         /\ customer = [name |-> "plain", email |-> "plain", plan |-> "plain"])
  /\ IBInit /\ Begin("budget", ceiling = NoCeiling)
  /\ RCInit /\ Begin("codes", rail = "ach" /\ file = <<>>)
  /\ WInit /\ EInit /\ DLInit /\ BInit /\ CInit /\ RRInit
  /\ TCInit /\ Begin("config", fernet = "fk1")
  /\ MGInit /\ Begin("migration", everUsed = {})
  /\ GDInit /\ Begin("erasure", held = [i \in AllBills |-> NoRow] /\ markers[CHOOSE i \in AllBills : TRUE] = Never)
  /\ ACInit /\ Begin("access", apiTokens = <<>> /\ \A t \in TenantIds : standing[t] = "active")

Others(s) ==
  /\ UNCHANGED service
  /\ s = "verdict"   \/ UNCHANGED vvars
  /\ s = "drafting"  \/ UNCHANGED dvars
  /\ s = "budget"    \/ UNCHANGED ivars
  /\ s = "codes"     \/ UNCHANGED rvars
  /\ s = "webhooks"  \/ UNCHANGED wvars
  /\ s = "edge"      \/ UNCHANGED evars
  /\ s = "decision"  \/ UNCHANGED dlvars
  /\ s = "calls"     \/ UNCHANGED bvars
  /\ s = "consent"   \/ UNCHANGED cvars
  /\ s = "config"    \/ UNCHANGED tcvars
  /\ s = "migration" \/ UNCHANGED mgvars
  /\ s = "report"    \/ UNCHANGED rrvars
  /\ s = "erasure"   \/ UNCHANGED gdvars
  /\ s = "access"    \/ UNCHANGED accvars

Only(s) == service = s /\ Others(s)

MCNext ==
  \/ Only("verdict")   /\ VNext
  \/ Only("drafting")  /\ DNext
  \/ Only("budget")    /\ IBNext
  \/ Only("codes")     /\ RCNext
  \/ Only("webhooks")  /\ WNext
  \/ Only("edge")      /\ ENext
  \/ Only("decision")  /\ DLNext
  \/ Only("calls")     /\ BNext
  \/ Only("consent")   /\ CNext
  \/ Only("config")    /\ TCNext
  \/ Only("migration") /\ MGNext
  \/ Only("report")    /\ RRNext
  \/ Only("erasure")   /\ GDNext
  \/ Only("access")    /\ ACNext

mcvars ==
  <<service, vvars, dvars, ivars, rvars, wvars, evars, dlvars, bvars, cvars, tcvars,
    mgvars, rrvars, gdvars, accvars>>

MCSpec == MCInit /\ [][MCNext]_mcvars
===============================================================================
