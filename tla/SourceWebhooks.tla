---------------------------- MODULE SourceWebhooks ----------------------------
(* Failed payments as four billers report them: what the maps make of a       *)
(* delivery (app/stripe_map.py, recharge_map.py, chargebee_map.py,            *)
(* loop_subscriptions_map.py) and what the webhook routes of app/api.py do    *)
(* with it.  The handlers run on the event loop, one after the other.  A      *)
(* published table is represented by one row of each kind it has.             *)
EXTENDS Naturals, Sequences, FiniteSets, SequencesExt

CONSTANTS
  Tenants,      \* tenants with webhook routes
  Deliveries,   \* the deliveries the billers send, each any number of times
  NotGiven,         \* an absent id, date or count
  CacheMax,     \* _IDEMPOTENCY_MAX
  MaxEvents     \* deliveries and restarts in a behaviour

VARIABLES
  status,       \* tenant -> "active", "suspended" or "offboarded"
  cache,        \* _idem_store, least recently used first
  seen,         \* stripe_events of the tenants' ledgers
  reply,        \* the last answer: to which delivery, what, worked out from which
  events

wvars == <<status, cache, seen, reply, events>>

-----------------------------------------------------------------------------
NotCustomer == "not_customer"
Unmapped == "unmapped"

\* Stripe: an advice code overrides the decline code, and a method outside the
\* two that are retried has no retry unless the invoice still shows one.
AdviceOverrides ==
  [do_not_try_again |-> "issuer_do_not_retry", confirm_card_data |-> "card_details_invalid"]
StripeCodeMap ==
  [expired_card |-> "card_expired", insufficient_funds |-> "insufficient_funds",
   card_declined |-> "generic_decline"]
RetriedMethods == {"card", "us_bank_account"}

ResolveFailureCode(e) ==
  IF e.advice \in DOMAIN AdviceOverrides THEN AdviceOverrides[e.advice]
  ELSE IF e.method # NotGiven /\ e.method \notin RetriedMethods /\ e.next = NotGiven
    THEN "direct_debit_not_retried"
  ELSE IF e.code \in DOMAIN StripeCodeMap THEN StripeCodeMap[e.code] ELSE "generic_decline"

\* Recharge: retried by its own recovery, or a hard decline.
PublishedErrorTypes ==
  [CARD_DECLINED |-> <<TRUE, FALSE>>, DO_NOT_HONOR |-> <<FALSE, TRUE>>,
   INSUFFICIENT_FUNDS |-> <<TRUE, FALSE>>, CLOSED_MAX_RETRIES_REACHED |-> <<TRUE, FALSE>>,
   THROTTLE |-> <<TRUE, FALSE>>]
RechargeSpecific ==
  [INSUFFICIENT_FUNDS |-> "insufficient_funds",
   CLOSED_MAX_RETRIES_REACHED |-> "retries_exhausted"]
RechargeNotCustomer == {"THROTTLE"}

ClassifyErrorType(type) ==
  IF type \notin DOMAIN PublishedErrorTypes THEN Unmapped
  ELSE IF type \in DOMAIN RechargeSpecific THEN RechargeSpecific[type]
  ELSE IF type \in RechargeNotCustomer THEN NotCustomer
  ELSE IF PublishedErrorTypes[type][2] \/ ~PublishedErrorTypes[type][1]
    THEN "issuer_do_not_retry" ELSE "generic_decline"

RechargeRetryDate(e) ==
  IF e.type \in DOMAIN PublishedErrorTypes /\ PublishedErrorTypes[e.type][1]
       /\ ClassifyErrorType(e.type) = "generic_decline"
  THEN e.date ELSE NotGiven

\* Chargebee: a published status, then its dunning, then the gateway's code when
\* the gateway is Stripe.
ChargebeeStatuses == [failure |-> "generic_decline", timeout |-> NotCustomer]

ClassifyChargebee(e) ==
  IF e.status \notin DOMAIN ChargebeeStatuses THEN Unmapped
  ELSE IF ChargebeeStatuses[e.status] = NotCustomer THEN NotCustomer
  ELSE IF e.dunning = "exhausted" THEN "retries_exhausted"
  ELSE IF e.gateway = "stripe" /\ e.code \in DOMAIN StripeCodeMap THEN StripeCodeMap[e.code]
  ELSE ChargebeeStatuses[e.status]

ChargebeeNextRetry(e) == IF e.dunning = "in_progress" THEN e.next ELSE NotGiven

\* Loop: Shopify's code by its reason, three codes by themselves, then the older
\* lower-case categories.
ShopifyReasons ==
  [CARD_DECLINED |-> "Card declined", FRAUD_SUSPECTED |-> "Fraud suspected",
   MERCHANT_RULE |-> "Fraud suspected", TRANSIENT_ERROR |-> "Transient error"]
ByReason == ("Card declined" :> "generic_decline") @@ ("Fraud suspected" :> "issuer_do_not_retry")
              @@ ("Transient error" :> NotCustomer)
CodeOverrides == [MERCHANT_RULE |-> NotCustomer]
LegacyDecisions == [insufficient_funds |-> "insufficient_funds", gateway_issue |-> NotCustomer]

ClassifyLoop(e) ==
  IF ~e.failed THEN Unmapped
  ELSE IF e.code \in DOMAIN CodeOverrides THEN CodeOverrides[e.code]
  ELSE IF e.code \in DOMAIN ShopifyReasons THEN ByReason[ShopifyReasons[e.code]]
  ELSE IF e.code \in DOMAIN LegacyDecisions THEN LegacyDecisions[e.code] ELSE Unmapped

Classify(d) ==
  CASE d.source = "stripe"    -> ResolveFailureCode(d.body)
    [] d.source = "recharge"  -> ClassifyErrorType(d.body.type)
    [] d.source = "chargebee" -> ClassifyChargebee(d.body)
    [] d.source = "loop"      -> ClassifyLoop(d.body)

\* The text is held while the biller still works on the invoice.  Whether
\* Stripe's goes out is the recovery loop's decision.
BillerRetries(d) ==
  CASE d.source = "recharge"  -> RechargeRetryDate(d.body) # NotGiven
    [] d.source = "chargebee" -> ChargebeeNextRetry(d.body) # NotGiven
    [] d.source = "loop"      -> d.body.left # 0
    [] OTHER -> FALSE

-----------------------------------------------------------------------------
\* A key that leaves the tenant out.
KeyOfAnyTenant(d) == <<d.source, "", d.id, IF d.source = "recharge" THEN d.tried ELSE 0>>

\* The idempotency key: source, tenant, id and, for Recharge, the attempt.
Key(d) == <<d.source, d.tenant, d.id, IF d.source = "recharge" THEN d.tried ELSE 0>>

Cached(k) == \E n \in DOMAIN cache : cache[n].key = k
PlaceOf(k) == CHOOSE n \in DOMAIN cache : cache[n].key = k
EntryOf(k) == cache[PlaceOf(k)]
But(k) == IF Cached(k) THEN RemoveAt(cache, PlaceOf(k)) ELSE cache

\* _idem_get moves what it finds to the recently used end.
Touch(k) == Append(But(k), EntryOf(k))

\* _idem_put keeps the CacheMax most recent.
Put(k, d) ==
  LET longer == Append(But(k), [key |-> k, of |-> d])
  IN IF Len(longer) > CacheMax THEN Tail(longer) ELSE longer

NoReply == [to |-> NotGiven, said |-> "nothing", of |-> NotGiven, mail |-> FALSE]
Says(d, what) == [to |-> d, said |-> what, of |-> d, mail |-> FALSE]

\* _tenant_row_ctx: the tenant the secret belongs to, when it is still there.
Known(d) == d.authentic /\ status[d.tenant] # "offboarded"

\* A failed signature and a tenant that is gone get one answer.
Reject(d) ==
  /\ ~Known(d)
  /\ reply' = Says(d, "invalid webhook")
  /\ UNCHANGED <<status, cache, seen>>

\* Nothing the customer can act on, or nothing the published tables know.
NotOurs(d) ==
  /\ Known(d) /\ d.source # "stripe"
  /\ Classify(d) \in {NotCustomer, Unmapped}
  /\ reply' = Says(d, "not handled")
  /\ UNCHANGED <<status, cache, seen>>

Actionable(d) == Known(d) /\ (d.source = "stripe" \/ Classify(d) \notin {NotCustomer, Unmapped})

Suspended(d) ==
  /\ Actionable(d) /\ status[d.tenant] = "suspended"
  /\ reply' = Says(d, "tenant suspended")
  /\ UNCHANGED <<status, cache, seen>>

Runs(d) == Actionable(d) /\ status[d.tenant] = "active"

Replay(d) ==
  /\ Runs(d) /\ d.id # NotGiven /\ Cached(Key(d))
  /\ reply' = [to |-> d, said |-> "cached", of |-> EntryOf(Key(d)).of,
               mail |-> ~BillerRetries(EntryOf(Key(d)).of)]
  /\ cache' = Touch(Key(d))
  /\ UNCHANGED <<status, seen>>

\* Stripe's id is also claimed in the ledger, which outlives the process.
Claimed(d) == d.source = "stripe" /\ d.id # NotGiven /\ <<d.tenant, d.id>> \in seen

ReplayClaimed(d) ==
  /\ Runs(d) /\ ~(d.id # NotGiven /\ Cached(Key(d))) /\ Claimed(d)
  /\ reply' = Says(d, "replayed")
  /\ UNCHANGED <<status, cache, seen>>

\* The graph runs, the text is held or not, and the answer is remembered.
Recover(d) ==
  /\ Runs(d) /\ ~(d.id # NotGiven /\ Cached(Key(d))) /\ ~Claimed(d)
  /\ reply' = [to |-> d, said |-> "ran", of |-> d, mail |-> ~BillerRetries(d)]
  /\ cache' = IF d.id = NotGiven THEN cache ELSE Put(Key(d), d)
  /\ seen' = IF d.source = "stripe" /\ d.id # NotGiven THEN seen \cup {<<d.tenant, d.id>>} ELSE seen
  /\ UNCHANGED status

Deliver(d) ==
  /\ events < MaxEvents /\ events' = events + 1
  /\ Reject(d) \/ NotOurs(d) \/ Suspended(d) \/ Replay(d) \/ ReplayClaimed(d) \/ Recover(d)

ChangeStatus(t, s) ==
  /\ events < MaxEvents /\ events' = events + 1
  /\ status[t] # "offboarded" /\ status[t] # s
  /\ status' = [status EXCEPT ![t] = s]
  /\ seen' = IF s = "offboarded" THEN {p \in seen : p[1] # t} ELSE seen
  /\ UNCHANGED <<cache, reply>>

\* The cache is in the memory of the process.
RestartServer ==
  /\ events < MaxEvents /\ events' = events + 1
  /\ cache # <<>> /\ cache' = <<>>
  /\ UNCHANGED <<status, seen, reply>>

WInit ==
  /\ status = [t \in Tenants |-> "active"]
  /\ cache = <<>> /\ seen = {} /\ reply = NoReply /\ events = 0

WNext ==
  \/ \E d \in Deliveries : Deliver(d)
  \/ \E t \in Tenants, s \in {"active", "suspended", "offboarded"} : ChangeStatus(t, s)
  \/ RestartServer

WSpec == WInit /\ [][WNext]_wvars

-----------------------------------------------------------------------------
\* What a delivery is answered with was worked out for a delivery of the same
\* tenant, the same biller and the same failure, and, for Recharge, the same
\* attempt, whatever was cached, evicted or sent to another tenant in between;
\* and a text is in it only if the customer can act and the biller has given up.
AnswersItsOwnFailure ==
  reply.said \in {"ran", "cached"} =>
    /\ reply.of.source = reply.to.source /\ reply.of.tenant = reply.to.tenant
    /\ reply.of.id = reply.to.id
    /\ reply.to.source = "recharge" => reply.of.tried = reply.to.tried
    /\ Classify(reply.of) \notin {NotCustomer, Unmapped}
    /\ reply.mail => ~BillerRetries(reply.of)
=============================================================================
