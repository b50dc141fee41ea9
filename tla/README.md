# PayPilot, specified

TLA+ models of PayPilot (`src/`): a service that hears from a biller that a payment
failed, decides what can be done about it, mails the customer, asks a person first if
it is told to, and closes the invoice when it is paid or cancelled; for several
tenants, with a decision audit, a bank connection and erasure on request. The models
are translated from the Python source; every definition's lines are in `PROJECT.json`
under `map`.

## 1. The system

| Component | State it keeps | Operations | Modelled in |
|---|---|---|---|
| Ledger (`app/store.py`) | `events`, `early_paid`, `failures`, `transitions`, `messages`, `approvals`, `tenants`, `api_tokens` in SQLite; one `Database.lock` per process | read-then-write methods under the lock, single statements, one commit each | `Ledger` and every module's table variables |
| Webhook (`app/api.py`, `_stripe_core`) | the durable claim of an event id | claim, run the handler, forget the claim if it raised, answer | `RecoveryLoop` |
| Recovery loop (`app/loop.py`) | none of its own | `handle_payment_failed`, `deliver_recovery`, `handle_recovery`, `handle_churn` | `RecoveryLoop`, `DunningContract` |
| Mailer (`app/mailer.py`) | the sends of the UTC day the ledger could not record | `send_dunning_email`, `_post_to_resend`, `_record_delivered`, `mark_bounced` | `RecoveryLoop`; from the decision on, `Approval` |
| Approval by email (`app/approval.py`) | the `approvals` table | `request_approval`, `decide`, `sweep` | `Approval`, `ApprovalContract` |
| Approval in the mailbox (`mailbox_approval.py`, `gmail_drafts.py`, `imap_drafts.py`) | drafts and sent messages; `external_id`, `gone_since` in `approvals` | `open_draft`, `reconcile` | `MailboxApproval`, `MailboxContract` |
| Tenants (`tenant_admin.py`, `admin_api.py`, `scripts/tenants.py`) | `tenants`, `api_tokens`, `tenant_config`, an export file | create, suspend, resume, offboard in two phases, export, erase | `TenantLifecycle`, `TenancyContract`; suspension also in `Approval` |
| Tenant configuration (`tenant_config.py`) | a row of behaviour and encrypted secrets | save, set the platform's fields, read for a run | `TenantConfig` |
| Principals and authorization (`principals.py`, `authz.py`, `access.py`) | tokens | resolve, check, grant, revoke, bootstrap | `Access` |
| Billers (`stripe_map.py`, `recharge_map.py`, `chargebee_map.py`, `loop_subscriptions_map.py`, routes of `api.py`) | the cache of answers | map a delivery, refuse, answer | `SourceWebhooks` |
| Demonstration routes (`api.py`) | limiter, idempotency cache | limit, run the graph, cache | `ApiEdge` |
| Decision graph (`decision.py`, `nodes.py`, `graph.py`) | none | risk, strategy, retry date, roll-up of a batch | `Verdict` |
| Drafting (`nodes.py`, `pii.py`, `safety.py`) | none | mask, prompt, guard, hydrate | `Drafting` |
| Usage meter (`meter.py`, `nodes.py`, `audit.py`) | the spend in memory, `llm_call` rows | check the ceiling, record, rebuild | `InferenceBudget` |
| Decision API and audit (`decision.py`, `decision_audit.py`) | an insert-only table | decide, report an outcome, count, erase a client | `DecisionLedger`, `DecisionContract` |
| Return codes (`rails.py`, `ach_`, `sepa_`, `bacs_return_map.py`) | tables read at import | check, look up, list, explain | `ReturnCodes` |
| Bank connection (`app/bank/`) | consents, a file of consecutive failures | consent flow, refresh, calls with attempts | `BankConsent`, `BankCalls` |
| Migration (`migrate_tenancy.py`) | the ledger file, a backup | probe, back up, rebuild | `Migration` |
| Report (`report.py`, `attribution.py`) | none | read the ledger, compare the arms | `RecoveryReport` |
| Erasure and retention (`scripts/gdpr_*.py`, `retention_purge.py`) | the ledger, the roster file | erase a person, purge by age | `Erasure` |
| PostgreSQL backend, clients, page generators, evaluations, infrastructure | | | not modelled (section 9) |

**How they interact.** Billers post events, at least once and in any order. One
webhook claims the event in the ledger, then runs its handler: a sequence of
store calls and at most one mail. With approval on, the handler ends by opening
a request; the answer comes hours later as another HTTP call, or, with a mailbox,
is found there by a sweep. `fly.toml:42-46` deploys one machine with one process;
`docs/loadtest-2026-08-08.md:131` runs four worker processes on one SQLite file.
The webhook and decision routes are `async` and do not await once the body is
read, so within a process they exclude each other. Everything else runs between
any two of their calls: the sweep (a background thread, and `POST /approvals/sweep`
in a thread of the pool), the sync routes of the administration, the report and the
demonstration (threads of the pool), and the operator's command lines
(`scripts/tenants.py`, `gdpr_erase.py`, `retention_purge.py`, `migrate_tenancy.py`),
each a process of its own on the same files.

**What is hard here.** Every handler is a chain of separately committed calls, so
a crash, an exception or another actor can come between any two; Stripe redelivers
and reorders; a provider's answer can be lost after the mail has left; checks (the
cap, the cooldown, the closed invoice, the deadline, the suspension, the tenant's
status, a token, a budget) are made some calls before what they protect; scripts read
ids in one transaction and delete in the next; a `COMMIT` that fails leaves its
`INSERT` in the shared connection; and a mailbox tells what a person did only
indirectly and late. `PROJECT.json` lists each of these at its line under
`hazards`, with the properties that watch it.

## 2. Modules

| Module | What it is |
|---|---|
| `Ledger` | the invoice state machine: open and terminal states, the table of legal moves |
| `RecoveryLoop` | webhook, loop, ledger and mailer, sending unattended (`PAYPILOT_APPROVAL_MODE=off`) |
| `DunningContract` | what the loop promises about one merchant's invoices; `RecoveryLoop` implements it |
| `Approval` | requests by email: opened, decided, sent, swept, suspended |
| `ApprovalContract` | what approval promises about one request; `Approval` implements it |
| `MailboxApproval` | requests as drafts in a mailbox |
| `MailboxContract` | what a draft in a mailbox promises about one request; `MailboxApproval` implements it |
| `TenantLifecycle` | one tenant from registration to erasure, with everything that writes for it |
| `TenancyContract` | what the life of a tenant promises; `TenantLifecycle` implements it |
| `DecisionLedger` | the decision API over its audit |
| `DecisionContract` | what an audit promises; `DecisionLedger` implements it |
| `TenantConfig`, `Access`, `SourceWebhooks`, `ApiEdge`, `Verdict`, `Drafting`, `InferenceBudget`, `ReturnCodes`, `BankCalls`, `BankConsent`, `Migration`, `RecoveryReport`, `Erasure` | one service each (below) |
| `RecoveryProofs` | theorems about `RecoveryLoop` and its contract (section 6) |
| `ApprovalProofs`, `MailboxProofs` | about `Approval` and its contract, about `MailboxApproval` and its |
| `TenantProofs` | about `TenantLifecycle` and its contract, and about `Erasure` |
| `AdminProofs` | about `TenantConfig`, `Migration`, `Access` |
| `ApiProofs` | about `DecisionLedger` and its contract, `InferenceBudget`, `SourceWebhooks`, `ApiEdge`, `Verdict` |
| `ServiceProofs` | about `ReturnCodes`, `BankCalls`, `BankConsent`, `RecoveryReport`, `Drafting` |
| `MCRecoveryLoop`, `MCApproval`, `MCMailbox`, `MCTenant` | instances for TLC: constants, views, symmetry |
| `MCTwoOfEach` | two sweepers at one mailbox, two requests of one person with different subjects or one, two processes on one ledger |
| `TwoOfEachProofs` | the theorems of `RecoveryProofs` and `MailboxProofs` brought to the instances of `MCTwoOfEach` |
| `MCServices` | the fourteen services side by side |

### RecoveryLoop: state and actions

Tables are variables of the same name: `events` (claimed ids), `earlyPaid`,
`failures` (state, arm, subscription, amounts), `transitions` (the history),
`messages` (how many rows of an invoice are sent, how many bounced, the latest
`sent_at`: all that the code asks of the table). `unrecorded` is the mailer's
memory. A worker is one execution of the webhook: `pc` names its next store call,
`ev` its event, `todo`, `row` and `seen` the locals of `transition`. `mailed`,
`acked` and `applied` record what happened outside the ledger, `unreleased` the events
whose claim `forget_event` could not delete: it is a commit like any other and may raise.

| Code | Actions |
|---|---|
| `mark_event_seen`, the answer | `Deliver`, `Replay`, `Reply` |
| the `except` branch, `forget_event` | `Raise` (in `IllegalMove`, `StoreError`, `RecordConflict`), then `Forget` or `ForgetFails` |
| `handle_payment_failed` | `CheckEarly`, `FindRow` and `RecordFailure` (`record_failure`), `RecordConflict` |
| `deliver_recovery` | `Gate`, `CheckCap`, `CheckCooldown`, `Refuse` |
| `send_dunning_email` | `Post`, `PostAnswerLost`, `RecordSent`, `RecordSentFails` |
| `handle_recovery`, `handle_churn` | `LookUp`, `MarkEarlyPaid`, `OpenBySub`, `OpenByCustomer`, `Unhandled` |
| `Store.transition` | `ReadState`, `WriteState`, `AlreadyThere`, `IllegalMove` |
| faults and time | `StoreError`, `Crash`, `Bounce`, `Tick` |

A method that reads and then writes under `Database.lock` is two actions, because
the lock belongs to a process and SQLite opens no transaction for a `SELECT`:
`SharedLock` says whether the workers are threads of one process or a process
each. The arm of an invoice is drawn from configuration that may change between
attempts, so `RecordFailure` chooses it anew each time and only the `INSERT` may
write it. Abstracted: signature check and rate limit, the in-process cache of
seen events (the durable claim decides), currency, attempt number and failure
code, rows that record a refusal, and the provider's three attempts, which are
`PostAnswerLost` any number of times within the bound. Nothing deletes rows here
(`Erasure` does). `mark_bounced` has no caller in the application yet; the tests call it.

### Approval: state and actions

`approvals` is the table (invoice, status, deadline, when it was resolved).
`pc`, `inv`, `req` are the event loop, which handles one webhook or one decision
at a time; `todo` holds what each sweeping thread has yet to record; `op` is the
operator's command. A store method is one action, because there is one process;
the operator's command uses single statements.

| Code | Actions |
|---|---|
| webhook up to `request_approval` | `PaymentFailed`, `Paid`, `Check` |
| `request_approval` | `RefuseToAsk`, `CheckSkipped`, `ExpireQuietly`, `Create`, `Notify`, `GiveUp` |
| `decide` | `Decide`, `Gate`, `CloseSuspended`, `Skip`, `Claim`, `ReadFresh`, `ExpireQuietly` |
| `_decide_after_claim`, mailer | `Check`, `Block`, `EnterMailer`, `Refused`, `Post`, `PostAnswerLost`, `RecordSent`, `RecordSentFails`, `MarkSent`, `MoveInvoice`, `MarkFailed` |
| `sweep` | `Sweep`, `Note` |
| `suspend`, `resume` | `Suspend`, `CloseAll`, `Resume` |
| faults and time | `StoreError` (to the `except` clause inside the `try`), `SweepError`, `Crash`, `OperatorDies`, `Tick` |

Abstracted: the token and the page, the hash of the body, the wording of the
notices, refusal rows other than `approval_expired`.

### MailboxApproval: state and actions

`approvals` adds whether the draft's id is stored and since when the draft is
missing. `drafts`, `sentAt`, `kept` and `searchable` are the mailbox: what can be
sent, what was sent when, whether the mail program left the header or the subject
of a message intact, and what the search finds already. `spc`, `todo`, `cur`,
`at`, `ripe` are the locals of `reconcile` in each sweeping thread.

| Code | Actions |
|---|---|
| `deliver_recovery`, `request_approval` | `PaymentFailed`, `ExpireQuietly` |
| `open_draft` | `Create`, `CreateDraft`, `CreateDraftFails`, `MarkFailed`, `StoreId` |
| `sweep`, `reconcile` | `Begin`, `List`, `FetchRow`, `PassOver`, `DeleteStale`, `DraftExists`, `MarkPresent`, `MarkGone`, `Search`, `ReadFailure`, `RecordSent`, `MoveInvoice`, `Settle` |
| the person, the mailbox | `SendDraft`, `DeleteDraft`, `Appear` |
| faults and time | `MailboxError`, `PassError`, `LoopError`, `Crash`, `Tick` |

Assumed of the world, in the guard of `Tick`: a sent message can be found before
the grace period (15 minutes) is over, and a draft is opened within one (its call
times out after 15 seconds). The questions asked before a request is opened are
one step here, because each of them can only go from yes to no while the others
are asked; `Approval` keeps them apart.

### TenantLifecycle: state and actions

`status`, `tokens`, `config`, `decisions`, `consents` are the rows the tenant has in
each store; the ledger is told apart by the delivery that wrote it (`events`, `rows`,
`pending`, and `notes`, the message row of a request), because the question is whose rows
outlive the erase. Callers are the event
loop (async routes, one at a time), pool threads (sync routes) and command lines; `pc`
names a caller's next store call. `reading` are calls to `/decide` that were let in
and whose body is still awaited: the one route that looks the tenant up before its
await. An approval that is decided or swept looks at the request, and at the tenant or not
at all, and then writes the ledger one statement at a time, with no second look. `lost`,
`late` and `taken` (what the export holds, or could not know of) record what the
properties speak of.

| Code | Actions |
|---|---|
| `create_tenant` | `Create`, `CreateRow`, `CreateConfig`, `GrantInsert` |
| `suspend`, `resume` | `Suspend`, `SuspendWrite`, `SuspendExpire`, `Resume`, `ResumeWrite` |
| `begin_offboarding`, export | `Begin`, `BeginWrite`, `BeginRevoke`, `BeginExpire`, `Export` |
| `finish_offboarding` | `Finish`, `FinishRead`, `FinishLedger`, `FinishConfig`, `FinishAudit`, `FinishConsents`, `FinishWrite` |
| the webhook route | `HookStart`, `HookConfig`, `HookLive`, `HookClaim`, `HookHandle`, `HookOpen`, `HookRaises`, `HookForget`, `HookRecheck`, `HookErase` |
| `approval.decide` (the link, the admin route) | `Act`, `ActClaim`, `Note`, `CloseRequest` |
| `approval.sweep`, `reconcile` | `SweepExpire`, `SweepRead`, `SweepSettle`, `SweepRecord`, `Note`, `CloseRequest` |
| `/decide`, bank consent | `Decide`, `DecideRecord`, `ConsentStart`, `ConsentCallback`, `ConsentPut`, `StateExpires` |
| configuration routes, tokens | `RequireLive`, `SaveConfig`, `GrantInsert`, `Revoke` |
| faults | `CallFails`, `Crash` |

`OneDoor` is the operator's discipline: one life-cycle command at a time. Without it a
`resume` that has read the status writes `active` over an `offboarding`
(`tenant_admin.py:113-119`), and every safety property below falls; `Access` has the same
pair of commands and counts what is served meanwhile.

### DecisionLedger: state and actions

`durable` is the database, `view` the same with the open transaction of the server's one
connection; a failing statement or `COMMIT` leaves its insert in `view`, and the next
`COMMIT` brings it into `durable`. An outcome row carries `reported_at`, which the server
stamps on each report (`posted`), so the rows are a set and the latest report is the one
with the latest stamp. `torn` remembers the clients whose erase broke between its two
`DELETE`s, or came from outside between the check and the insert of a report: of these
alone an outcome may stand without its decision. `DecideOn`, `AnswerDecision`, `Report`,
`RecordOutcome`, `AnswerReport`, `EraseClient` are the routes, `EraseFromOutside` the command
line, `ServerDies` rolls the open transaction back.

### The other services

| Module | State | Actions and what is abstracted |
|---|---|---|
| `Verdict` | the event in the graph, its risk, strategy, retry date; the results of a batch | one action per node (`AssessRisk`, `ChooseStrategy`, `ScheduleRetry`, `Finalize`), `NextCase`. The money of a batch is counted in units, each result worth one; the expected value, a float for display, is left out |
| `Drafting` | what was put in prompts, the raw answer, diagnosis and message | `RetrieveContext`, `AskDiagnosis`, `GuardDiagnosis`, `AskMessage`, `GuardMessage`. A text is the set of marks that matter about it (a name, an address and what is left around a name in it, a digit run, a link, a placeholder, braces of a field's own); the model may repeat any mark of its prompt and invent any that is not the customer's own data |
| `InferenceBudget` | the meter, what `load_from_audit` makes of the `llm_call` rows, each drafting thread | `AskModel`, `ModelAnswers`, `ModelFails`, `AuditCall`, `AuditCallFails`, `SetCeiling`, `Restart`. A priced call costs one unit |
| `ReturnCodes` | any table that may be on the disk, whether the import accepted it, the last question and answer | `LoadRail`, `AskRail`, `ExplainRail`, `FeedReturns`, `FeedReturnsNoCode` |
| `SourceWebhooks` | status of the tenants, the cache in its order, Stripe's durable ids, the last answer | `Deliver` (route, map and graph in one step: the route does not await after its body), `ChangeStatus`, `RestartServer`. A published code table is one row of each kind it has |
| `ApiEdge` | the limiter's two lists in their order, the cache, each pool thread | `BeginRequest`, `Limit`, `RunGraph`, `GraphRaises`, `FillAndAnswer`, `TickE`. An address and a supplied key are sequences of the parts between their colons, which `_idem_key` joins, so that two requests may share a key. The clock is read before the lock; `admitted` remembers the thread and the reading of each request let through |
| `BankCalls` | the counter file, which may be unreadable when a call begins, each call with the count it read | `BeginCall`, `Attempt`, `RecordFailure`, `RecordSuccess`, `CallerDies` |
| `BankConsent` | state tokens, the consent rows, when agreements lapse | `ConsentStarts`, `ConsentCalledBack`, `TokensRefreshed`, `ProviderUnreachable`, `ConsentRead`, `ConsentsErased`, `DayPasses`. Any code with any valid state is exchanged, as `fake.py` does; a callback that fails files nothing |
| `TenantConfig` | the row, the write lock, each writer's command and read | `Command`, `BeginWrite`, `CommitWrite`, `RollBackWrite`, `ChangeKey`. A value is what matters about it: one word, a set of domains, or junk that does not parse |
| `Migration` | the ledger file, its write lock, the backups, each process | `Starts`, `Begins`, `FindsCurrent`, `TakesBackup`, `Rebuilds`, `GivesUp` (refused or killed), and servers of either version that write. The copy of the columns is one step |
| `RecoveryReport` | the ledger, the report's place in it | `ListFailures`, `CountRow`, `AnswerRecoveryReport` against `InvoiceFails`, `InvoiceMailed`, `InvoiceCloses` |
| `Erasure` | the rows with the ids they carry, the roster file, each script | `Request`, `ReadIds`, `Delete`, `ReadRoster`, `WriteRoster`, `StartPurge`, `DropMarkers`, `Killed`. The claim of a Stripe event names no invoice and is out of every script's reach; against a handler (`RecordsFailure`, `RecordsMessage`, `Close`, `MarkEarlyPaid`) |
| `Access` | the tokens in order of minting, the standing of tenants, each request | `BootLooks`, `BootMints`, `Ask`, `ReadToken`, `ReadTenant`, `Check`, then one action per kind of act |

These share no state with each other that their properties depend on, so each is a
component of its own with variables of its own. `MCServices` puts them side by side:
a behaviour picks one service in its first state and runs that one to the end, so the
run is fourteen instances checked one after the other, none of them composed with
another. `MCTwoOfEach` does the same with four pairs. Where components do interact,
they are in one module: loop, mailer and ledger; approval, loop, sweep and
suspension; tenant, webhooks, approvals, decisions, consents and configuration; erasure and
the handler.

## 3. Runs

Every run is TLC to the end of its state space. Constants named `Max...` are bounds
(`MaxTouches`, `MaxAttempts` and `MaxTracked` are settings of the program).

| Run | Instance | What it shows |
|---|---|---|
| `recovery_deployed` | one worker; two invoices of one person; five events (two attempts and the payment of one, an attempt of the other, a cancellation); one touch; one tick; one crash, one error | the deployment of `fly.toml` under redelivery, reordering, death and failure keeps the cap, the cooldown, the arms, the history, and the contract |
| `recovery_liveness` | one worker, fair; four events, one of which names no invoice; two errors | every event is handled and answered in the end, and a payment closes its invoice in whatever order it arrives, unless the claim of the event could not be released |
| `approval_deployed` | two requests, two invoices of one person, one sweeper; deadline, cooldown and cap of one; three ticks; one crash, one error, one suspension | approval keeps its contract and its promises while answers are late or repeated, sweeps and the operator interfere, and one thing fails |
| `two_of_each` | a mailbox with one request and two sweepers, three ticks, one fault; a mailbox with two requests of one person, one sweeper, once with different subjects and once with the same; two server processes with a lock each, three attempts and the payment of one invoice, one error | what two of a thing do to each other: passes working from stale rows keep the contract of the mailbox, no message is taken for one about the other invoice but under the same subject, no event has two handlers |
| `tenant_deployed` | the event loop, a pool thread, a command line; one delivery with its approval, one decision, consent and token; one fault; one life-cycle command at a time; fair handlers | what a webhook in flight writes for a tenant that leaves goes again, the erase is complete before it is declared, the export misses only what was in flight or being decided |
| `services` | fourteen services, each with two callers or more where it has any, and one or two of each thing | every service by itself keeps its promise (section 4) |
| `recovery_crash` | one worker, one invoice, a crash | *fails*: finding 1 |
| `recovery_churn` | two subscriptions of one person | *fails*: finding 2 |
| `approval_unrecorded` | one request | *fails*: finding 3 |
| `mailbox_stale` | one request, one sweeper | *fails*: finding 4 |
| `tenant_erased` | as `tenant_deployed` | *fails*: finding 5 |
| `budget_restart` | two drafting threads, one restart or more | *fails*: finding 6 |

**Why the bounds are enough.** The races need two actors on one thing, or one actor on
two things of one person: that is what the instances have. A cap of one makes the second
mail, call or request the violation. One crash and one error are enough for each
single fault at each point, and two errors for a handler that raises and cannot give its
claim back; the invariants count faults, and the theorems (section 6)
lift the count, and the number of actors, to any number in every module.
Three ticks are before, at and after a deadline or a window of one tick. Tables and
deliveries have one row of each kind the code tells apart, right and wrong. Not reached
by the instances: two faults in one behaviour (except crash with error, and two errors in
`recovery_liveness`), concurrent handlers in `recovery_deployed` (the theorems about caps,
cooldown and arms are for any number of workers), a limit of the limiter above one, three requests
of one person, two sweepers with two requests, two deliveries for one tenant that leaves.

**Views and symmetry.** `MCRecoveryLoop!View` drops the locals a worker will write
before it reads them, and `acked` and `applied`, which no guard reads and no
property of that run mentions (`recovery_liveness` and `recovery_crash`, whose
properties do, use no view). `MCMailbox!View` drops the same kind of locals of a
sweeper; `TypeOK`, which speaks of them, can then be checked on a representative
only, and they are assigned from values of their own type. The members of a pair in
`two_of_each`, request ids (the code compares them for equality only) and the invoices
of one person are interchangeable in the runs that use symmetry, none of which
checks liveness. `CHECK_DEADLOCK FALSE` is said where the system does stop: in `services`
and `budget_restart` when a bound is spent or a question has been answered, in the
tenant runs when the tenant is gone and nothing is in flight.

## 4. Properties

*RecoveryLoop.* `OneHandlerPerEvent`: one event is never in two handlers, with two
processes either. `CapsKept` (`TouchCap`, `MailCap`), `CooldownKept`: how many rows,
mails, and mails within a window, with exactly the slack that concurrent handlers and
lost records give. `RowsAreHonest`: messaged only after a mail, the control arm never;
paid before failing, whichever event comes first; the history is legal.
`TerminalIsFinal`: a closed row keeps its amounts. `NoEventSwallowed`,
`EveryEventLands`, `PaymentsSettle`: what Stripe's retries achieve, for an event whose claim
was released when its handler raised. `KeepsContract`.

*Approval.* `RequestsAreHonest`: a request reads approved only while in hand, but for
faults; a mail that left reads as sent, never as failed; a person said yes before the
deadline. `ClearWhenSent`: the invoice was clear when the mail left. `SuspensionHolds`:
what a suspension stops, and what is already past it. `SkipIsRemembered`.
`KeepsApprovalContract`.

*MailboxApproval.* `RefusalsHold`, `CountIsHonest`, `EachBillItsOwn`: what the ledger
says of a mail against what happened in the mailbox. The failure code fixes the subject, so
two invoices of one person may share it; then a mail about one is taken for one about the
other, and `EachBillItsOwn` bounds that: the same person, the subject untouched, and sent
since a request about the invoice was opened. `KeepsMailboxContract`: one request at a
time waits about an open invoice and has one draft ever; it is answered once, whoever works
from an older reading of it; it reads sent only if a mail about its invoice, or one that looks so, left and is on
record, and skipped only if its own did not leave.

*TenantLifecycle.* `FinishErasesAll`: what is left of a tenant after its erase is the
work of a webhook in flight, of one that raised or died, or was written late with no
second look: the message row of an approval, a decision, a consent, a configuration. `RowsGoEventually`: the first kind goes. `ExportMissesOnlyInFlight`: what
the erase deletes and the export lacks. `KeepsTenancyContract`: declared gone only after
one attempt cleared every store, and never back.

*Decisions.* `KeepsDecisionContract`: answered only when on record to stay, nothing
recorded is lost or altered, no report stored twice, with failing statements, failing
commits and deaths. `CountsAddUp`: every decided invoice is paid, not paid or unknown,
once. `PortfolioIsHonest`: a code no retry can help gets no date; the roll-up counts each
result once. `ReturnCodesAgree`: for every table the import accepts.

*Edge and money.* `AnswersItsOwnFailure`: nothing cached is answered to another tenant,
biller or attempt. `WindowsHold`: the limiter, with one more request per thread that read
the clock early. `CeilingHolds`: the budget, with one more call per drafting thread.
`TextsAreClean`: no personal data into a prompt, but for what is left of an address around
the name in it; no unsanctioned link, secret or placeholder out, but for braces that a field
of the record brought into the committed copy.
`AlertsOnTheSecond`: the failure counter of a bank: exact as long as nothing disturbed the
count, and one failure late at most for each record of a call that ran beside another, could
not read the file or could not save it. `StateIsHonest`: a consent reads live
only while the agreement runs, expired only when it has ended.

*Operation.* `ConfigHolds`: no command is lost under a concurrent one, and what is in
force is never more than the operator's last word. `OneOwnerAndNoIdTwice`: the migrated
file has one owner, and no id is handed out twice. `ReportDescribesTheCohort`: a report
that reads while the loop writes. `ErasureHolds`: nothing erased is left and nothing wanted
is deleted, but for what the server wrote in between. `AccessHolds`: nobody gains a right
by what happens between the checks of a request and what it does.

Each property of a passing run has a mutant: a plausible bug in one definition,
defined just before it, under which TLC finds the property violated.

## 5. Fairness

`FairSpec` of `RecoveryLoop` assumes that a handler that can take its next step does
(weak fairness of each worker: a running thread is scheduled, and every call of a handler
returns or raises), and that Stripe goes on delivering an event it has no 2xx for until it
is answered (strong fairness, since the worker may be busy when a delivery comes).
`Spec` of `TenantLifecycle` assumes the first of these only: a handler that started goes on
to its end. Its liveness needs no retry by the biller and no second attempt by the
operator. Crashes, errors, bounces and time are not fair. `recovery_liveness` has no
crash: with one, finding 1 defeats the property. `RowsGoEventually` excludes the deliveries
whose handler raised or died, which nothing picks up again. The other runs are safety only.

## 6. What is proved

TLAPS checks these for any number of workers, requests, threads, callers, processes, events,
invoices, people and faults, and for any tables, edits and grants.

| Theorem | Says | Assumes |
|---|---|---|
| `TypeCorrect` | `TypeOK` of `RecoveryLoop` | |
| `CooldownHolds` | `CooldownKept` | |
| `OneHandler` | an event is in one handler at most | |
| `TouchCapHolds`, `MailCapHolds`, `CapsHold` | `TouchCap`, `MailCap`, together `CapsKept` | |
| `ArmsHold` | a messaged row was mailed, the control arm never | |
| `TerminalHolds`, `HistoryHolds` | `TerminalIsFinal`, the history is legal | `Serial`: one lock, or one worker |
| `EarlyPaidHolds`, `NoMailToSettledHolds` | paid before failing never opens; no mail to the settled | `Alone`: one worker |
| `RowsHold` | `RowsAreHonest` | `Alone` |
| `LoopKeepsContract` | `Spec => KeepsContract` | `Alone` |
| `OnlyFaultsSwallow` | `NoEventSwallowed`, but for a process that died or a claim that could not be released (finding 1) | `Alone` |
| `ChurnStaysWhereOne` | `ChurnStaysInSubscription` (finding 2) | one subscription for each customer |
| `ApprovalTypeCorrect` | `TypeOK` of `Approval` | |
| `ApprovedBeforeSent`, `MailedReadsAsSent`, `ClaimsAreSettled`, `RequestsHold` | the parts of `RequestsAreHonest`, and all of it | |
| `SentIsClear`, `SkippedForGood` | `ClearWhenSent`, `SkipIsRemembered` | |
| `SuspendedIsQuiet`, `SuspensionClosesRequests`, `SuspensionKept` | the parts of `SuspensionHolds`, and all of it | |
| `ApprovalKeepsContract` | `Spec => KeepsApprovalContract` | |
| `SweepsRecordExpiries` | `ExpiryIsRecorded` (finding 3) | only sweeps expire requests, and none is cut short |
| `MailboxTypeCorrect`, `SettledForGood` | `TypeOK` of `MailboxApproval`, `SettledOnce` | |
| `SkipsAreRefusals`, `RefusalsKept` | a skipped request was not sent; all of `RefusalsHold` | `SomethingIsKept` |
| `RefusedHaveNoDraft` | the other part: no refused request has a draft left, but for deaths and faults | |
| `CountsAreHonest` | `CountIsHonest` | |
| `MessagedIsMailed` | what the ledger says was mailed was mailed, or a mail that looks the same was | |
| `MailboxKeepsContract` | `Spec => KeepsMailboxContract` | `SomethingIsKept` |
| `PairHasOneHandler`, `PairBillsItsOwn` | `OneHandlerPerEvent`, `EachBillItsOwn` of `MCTwoOfEach` | |
| `PairKeepsMailbox` | the properties of the mailbox under `PairSpec` of `MCTwoOfEach` | `SomethingIsKept` |
| `TenantTypes` | `TypeOK` of `TenantLifecycle` | |
| `TenancyKeepsContract` | `Spec => KeepsTenancyContract` | `OneDoor` |
| `ErasedForGood`, `ExportIsTheOffboarding` | `FinishErasesAll`, `ExportMissesOnlyInFlight` | `OneDoor` |
| `NothingOutlivesTheQuiet` | `NothingOutlives` (finding 5), while no delivery is in flight or lost and nothing was written late | `OneDoor` |
| `DecisionsAddUp`, `LedgerKeepsContract` | `CountsAddUp`, `DLSpec => KeepsDecisionContract` | |
| `CeilingIsKept` | `CeilingHolds` | |
| `SpendSurvivesWithoutRestart` | `SpendSurvivesRestart` (finding 6) | no step is a `Restart` |
| `RestartForgetsTheSpend` | what a `Restart` reads back holds no cost | |
| `AnswersAreOwn` | `AnswersItsOwnFailure` | |
| `WindowsAreKept` | `WindowsHold` | |
| `PortfolioStaysHonest` | `PortfolioIsHonest` | |
| `NoCommandLostNoneExceeded` | `ConfigHolds` | |
| `AccessIsKept` | `AccessHolds` | |
| `OneOwner` | `OneOwnerAndNoIdTwice` | |
| `BackupComesFirst` | `MigratesOnlyWithBackup`: the step that changes the schema loses no row and finds a backup of exactly the rows it rebuilds (in no run) | |
| `AnswersAgree` | `ReturnCodesAgree`, for every table the import accepts | |
| `AlertedOnTheSecond` | `AlertsOnTheSecond` | |
| `SingleUseLandsOnce` | `SingleUseIsUsedOnce`: a call that consumes a code reaches the bank once at most, and is called failed only if the bank answered (in no run) | |
| `ConsentStateIsHonest` | `StateIsHonest` | |
| `ReportIsOfTheCohort` | `ReportDescribesTheCohort` | |
| `TextsStayClean` | `TextsAreClean` | |
| `ErasedStaysErased` | `ErasureHolds` | |

All of them also use the named assumptions on the constants of their module
(`WorkersAssumption`, `EdgeAssumption` and so on, in the module that declares the
constants), which TLC evaluates in every run of that module. They say that model values are
distinct, that numbers are numbers, that limits and ceilings are not negative and that sets
of actors are finite. `EditsAssumption` says one thing more: that a stored list of domains
parses. The code writes it from a list it has normalised. `SomethingIsKept` is about the
world: a mail program leaves intact the header or the subject of a message; if it changes
both, no sweep can know the message, and a sent request looks deleted. `Serial`, `Alone` and
`OneDoor` are not decoration: with a lock per process a second process may write between the
read and the write of `transition`; with two workers a payment may slip between the
early-paid check and the `INSERT`; with two life-cycle commands at once a `resume` brings an
offboarding tenant back. TLC finds each of these when the assumption is dropped.

**How far the findings reach.** A run that expects a violation shows that a promise is
broken once; these theorems say when it is kept, for every size. `OnlyFaultsSwallow`: with
one worker no order of deliveries, no illegal move and no store error loses an event, other
than the one that keeps the claim from being released: a death, or a second error, in
`forget_event` itself. `ChurnStaysWhereOne`: with one subscription for each customer the
fall-back to the customer finds no other. `SweepsRecordExpiries`: what a sweep expires, it
records, unless it is cut short; the three paths that drop what they expire are the whole
finding. Its hypothesis is about steps that change a row: a request is still opened through
`ExpireQuietly` when nothing is overdue. `NothingOutlivesTheQuiet`: what outlives an erase
is in flight, lost or late, and nothing else. `SpendSurvivesWithoutRestart` and
`RestartForgetsTheSpend`: the meter is right as long as the process lives, and a restart
loses all of it, not the last calls. There is no such theorem for finding 4: an expiry
leaves the draft where it is, whatever else happens; only a pass that listed the request
before its deadline and looks at it after deletes one.

**The loop.** None of the properties is inductive: a worker in the middle of a handler acts
on what it saw. Each conjunct of the invariant says what it may still rely on.

- `TypeInv`: `TypeOK`, and a worker at a call about an invoice has one.
- `ClaimInv`: a busy worker's event is in `events`, and workers differ in theirs; `Deliver`
  needs an unclaimed event and only the owner releases a claim.
- `TouchInv`: rows of an invoice plus the workers past its cap check are at most the cap
  plus the other workers. The check moves one worker into that set, the row moves it out.
- `LockInv` (under `Serial`): what a worker read before its write still holds, so a write
  starts from an open row and appends to the history where it ends.
- `SoloInv` (under `Alone`): the checks a worker passed are still true at its call.
- `MailInv`: mails exceed rows by the workers about to record plus `Slack`.
- `WindowInv`, the cooldown: until the first mail of a window to one customer is on record,
  the mails in it are at most the handlers about to record one, plus lost records; from then
  on, mails and handlers still on the way to one together are at most the workers, plus lost
  records. The check lets nobody new through once the record is there; a record moves a
  handler out of the first bound as it brings the second into force. It is stated for every
  beginning of a window, past and to come.
- `ArmsInv`: whoever is on the way to a mail or to `messaged` is about a treated, mailed
  invoice.
- `HandledInv` (under `Alone`, until the first crash): a claimed event has been handled, is
  in its worker's hands or is `unreleased`, and the answer 2xx comes after the handling; a
  handler that raises gives the claim back or adds to `unreleased`, which costs an error
  (`ReleaseInv`).
- `SubInv`: a row names the one subscription of its customer or none, and whom a
  cancellation is about to close was found by that subscription or that customer.
- `ReachedInv`: the row states the loop ever produces (nothing writes `clicked` or
  `exhausted`), needed for the contract, which has no step for the others.

`LoopKeepsContract` maps rows and mails to the contract's `status`, `control` and
`contacts`; under the conjunction of the above, every step of the loop is one step of the
contract or none.

**Approval.** Everything rests on two lemmas about one step. `LoopOrBeside`: a step is the
event loop's, or it is one beside it, which leaves the loop alone and touches a row only to
expire it while it is pending. `RowsMove`: a row changes in five ways only, and all but
expiring happen at a named call of the loop. Hence a claimed row belongs to the loop until
the loop lets go of it.

- `HandInv` (in `TypeInv`): the invoice and the request in hand fit the next call.
- `DecisionInv`: `RowInv` (no mail without an approval before the deadline), `SendInv` (the
  status and the mails of the request in hand at each call from the claim to the last write)
  and `SpoiltInv` (what the `except` clause can find). It gives the first two parts of
  `RequestsAreHonest` and, step by step, the contract.
- `ClearInv`: what was checked still holds at the send, because only the loop writes
  `failures` and `messages` of an invoice in hand, and a cooldown that is over stays over;
  nobody skips an invoice while the loop asks about it.
- `QuietInv` counts the mail past the gate before it leaves; `ClosedInv` says the webhook in
  hand at the suspension is the only one that may still open a request.
- `LostInv`: twice the lost claims, plus one when an error has been spent and its cleanup is
  still to run, is at most twice the crashes plus the errors. An approved row the loop holds
  without having claimed it counts as lost already, which the property alone does not say
  and which makes the bound inductive.

**Mailbox.** Three parties move one row: the route that opens a request, each sweep, and the
person at the mailbox. `RequestInv` says what stage a request is in: an id that is free has
no draft and no mail (`FreeInv`), one that was opened belongs to an invoice and to the past
(`OwnedInv`), the one being opened is the route's and has no id yet (`OpeningInv`), and a
sweep goes through opened ones, each once, by a clock that is not ahead (`PassInv`).
`MailInv` orders a message's life.

- `SettledForGood` needs no more than these: every write of a status is conditional on
  `pending`.
- `VanishedInv`, `SeenInv`: a draft seen to be gone was sent or deleted by then and never
  comes back; a sweep about to call the request skipped has waited a whole grace period, by
  when a message that was sent could be found. `blind` requests, read before their draft's
  id was stored, are excepted, as in the property.
- `LostInv`: a request whose draft's id was lost cost a fault, at most one each
  (`FaultInv`); any other that was refused has no draft (`ClosedInv`), because a sweep that
  read the row before the id was stored looks too early for the grace period to be over
  (`EarlyInv`, `OpenedNowInv`).
- `CountInv`: the records of mails about an invoice, and the pairs of a sweep and a request
  that may still make one, are together at most the sweeps times the requests and the
  faults; only a fault between the record and the closing of a request gives back a pair
  that was used.
- `FoundInv`: a sweep about to record a mail has found one about this invoice, or one that
  looks so, which the search took by its subject: same person, subject untouched, and sent
  since the request in hand was opened.
- `ClosingInv`: a sweep that moves an invoice or closes a request has the mail on record, or
  the invoice is closed. `AskingInv`: the loop asks about an open invoice and makes the
  first draft of its request.

`MailboxKeepsContract` maps a request's row, draft and mail to the contract's; under the
conjunction of the above every step is one step of the contract or none. A sweep's write
that comes too late changes no row, so the contract needs no step for it.

**The pairs.** A step of `two_of_each` is a step of `MailboxApproval` or of `RecoveryLoop`
with the constants of its pair, or leaves their variables alone (`PairIsProcesses`,
`PairIsBills`, `PairIsTwins`, `PairIsSweepers`). The theorems of the components are taken
over through `INSTANCE`, once their assumptions are proved for these constants;
`PairAssumption` says that the model values of the configuration differ. No hypothesis about
subjects is left in any of them.

**Tenants.** `NextIsCommandOrQuiet`: a step belongs to a life-cycle command, or moves
neither the status nor any command other than to its end.

- `DoorInv` (under `OneDoor`): one command at a time, each at a status it has found or made.
- `GoneInv`: past each step of the erase, what is left of that store is accounted for: by a
  webhook in flight or lost (`LedgerInv`), or by `late` (`NoteInv`, `ConfigInv`, `AuditInv`,
  `BankInv`). It is about the running attempt as well as about the finished one, which the
  property is not.
- `ExportInv`: what the export lacks was written by a delivery that was already let in, and
  nobody is let in any more; the message rows still to come are about requests that were
  open, in hand or coming at the export (`Due`), and nothing adds to these.

**Erasure.** An erasure at work deletes every row of its id but those that are news to it
(`ErasedInv`), a purge no open row but those (`PurgeInv`), a handler whose row is gone was
cut off (`OrphanInv`), and one script at a time rewrites the roster over what it read
(`RosterInv`).

**Administration.** *Configuration*: whoever writes has the lock and read what the row still
holds, so a merge loses nothing (`LockInv`); the stored list of domains parses
(`DomainsInv`); then the coerced row is below the operator's last word. *Migration*: no id
is ahead of the sequence (`FileInv`), and what the holder of the lock knows of the file, its
kind, its rows, the backup, is still true (`HolderInv`). *Access*: a token carries no right
that the token it was minted with lacks, and leads to no other tenant (`TokensInv`); unless
two bootstraps looked at once there is one root (`OneRootInv`); `HandlersInv` says what is
known of a request at each check: a token revoked on arrival still is, and the tenant is as
it was then or has moved since, so that what was served (`ServedInv`) was served by right.

**Decisions.** `DecisionInv`: in either database a report has its decision, but for `torn`
clients, and there is one for each key (`RowsOk`); the open transaction only adds to what is
durable, but for clients being erased (`Follows`); and the request under way relies on rows
that are there. The counts add up because the three groups partition the decided invoices;
the contract's step is the commit that makes rows durable, or an erase.

**Edge and money.** `BudgetInv`: the property, with the ceiling in force below the highest
of the process and, for the restart, that the rows sum to no cost at all (finding 6).
`WebhookInv`: what is in the cache was worked out for the failure its key names. `EdgeInv`:
a thread reads the clock for one request after its previous one has passed (`ReadingsInv`),
and what passed with a reading inside the window is still among the limiter's hits
(`HitsInv`); hence more than the limit can pass in a window only by requests whose reading
is from before it, of which a thread has one. `VerdictInv`: a code no retry can help has no
date (`RetryInv`), each bucket is the count of its results so far (`TallyInv`); the order of
buckets is total, so a finite batch has one ahead of all others.

**Services.** *Return codes*: an answer is what the accepted table says, by who asked
(`AnswerInv`), and the import checks give the rest. *Bank calls*: a call that read the file
and ran alone since holds what the file still holds (`AloneInv`); so the file counts the
failures since the last success but for one, at most, for each record that disturbed the
count of the provider (`FileCounts`); a call for a single-use value has one attempt, and
nothing landed before it (`SingleUseInv`). *Consent*: a row dates its consent as the
customer agreed or not at all (`ConsentsInv`), and what was shown last is what the row says
today (`ShownInv`). *Report*: no row changes once it is closed, and none leaves its arm
(`RowsInv`); the arms tally with the failures walked through so far (`WalkInv`), in the end
with the whole list (`AnsweredInv`). *Drafting*: no prompt holds a mark of the record but
the rest of an address the first answer quoted, and no text a mark the guards stop; braces
of a field reach a text through the committed copy alone (`DraftingInv`).

**Only model-checked.** Liveness (`EveryEventLands`, `PaymentsSettle`, `RowsGoEventually`):
fairness is `ENABLED`, and that is beyond the prover. Every invariant and every other
property of a passing run has a theorem; three of the mailbox keep the hypothesis
`SomethingIsKept`, about mail programs. That a property of section 7 is violated is TLC's
counterexample alone. Without `Serial`, `Alone` or `OneDoor` the theorems that assume them
are false, and TLC finds it so; `OnlyFaultsSwallow` is false with two workers, since a
redelivery may be acknowledged while the first delivery is still at work and may yet raise
(section 7).

## 7. Where code and documents disagree

1. `recovery_crash`: a process that dies between the claim of an event and the end
   of its handler leaves the claim; Stripe's retry is answered `replayed` and the
   event is lost, and so it is when the handler raises and `forget_event`, a store call like
   the one that failed, raises in turn (`store.py:579-584`), against `api.py:1765-1766` and `store.py:571-575`.
2. `recovery_churn`: cancelling a subscription whose invoices are all closed falls
   back to the customer and churns invoices of another subscription, against
   `loop.py:440-443`.
3. `approval_unrecorded`: a request expired by `request_approval` or `decide` never
   gets its `approval_expired` row, against `docs/approval.md:42-43`.
4. `mailbox_stale`: `sweep` expires before it reconciles, so the draft of an expired
   request is not deleted and can still be sent, uncounted, against
   `mailbox_approval.py:154` and the tests of `reconcile` alone.
5. `tenant_erased`: the check that a tenant is live and the write of its configuration
   are two transactions, so a command that passed the check writes the row again after the
   erase; so do a `/decide` and a bank callback admitted before it, and an approval that was
   being decided or swept writes its message row. Against
   `tenant_admin.py:130-131` and `204`.
6. `budget_restart`: both callers of `audit_llm_call` leave the token counts at 0, so the
   spend rebuilt after a restart is zero, against `meter.py:301` and `api.py:172-176`.

Seen while modelling, without a run of their own:

- `SkipIsRefusal` (a part of `RefusalsHold`) leaves out `blind` requests: a pass that reads a
  row before its draft's id is stored sets `gone_since`, and if no pass succeeds until the
  draft is sent, the grace period is over at once.
- Two invoices of one person that failed with one code have one subject: the subject fallback
  (`mailbox_approval.py:173-177`) takes a message that carries the header of the other
  request, and an invoice nobody wrote about reads `messaged`. `README.md` (line 231) says "State only
  advances to `messaged` on a real send". `EachBillItsOwn` holds with that exception, which it
  names.
- The export taken after `offboard/start` does not describe "a ledger that can no longer
  change" (`tenant_admin.py:182-183`, `admin_api.py:185`): a webhook
  that was past its check, and an approval being decided or swept, still write.
  `ExportMissesOnlyInFlight` names what the file can miss.
- Message rows that an approval being decided or swept leaves after the erase
  (`approval.py:356-434`, `mailbox_approval.py:155-191`) are found by nothing that looks again.
- A field of a record that reads like `{{X}}` passes the checks of a name and of a plan
  (`pii.py:91-106`, `nodes.py:245-251`) and leaves in the committed copy, which no guard looks at
  (`nodes.py:303-318`, `1036-1040`); `pii.py:39-42` says that such a form never comes from real copy.
- `remask_text` puts the name's placeholder first, so an address with the name in it no longer
  matches, and the rest of the address enters the second prompt (`pii.py:150-155`), against
  `nodes.py:806-807`, "the model never sees the raw values".
- The claim of a Stripe event is stored without an invoice (`api.py:1762`), so no erasure and no
  purge deletes it, against `store.py:1278-1279`, "Child messages/transitions/events rows go with
  their invoice".
- A counter file that cannot be read counts as no failure (`http.py:161-164`), and the next save
  wipes the counts of every bank: their second failure in a row goes without an alert.
- A `resume` that races an offboarding (`tenant_admin.py:113-119`), and two bootstraps that
  look at once and mint two admins (`bootRaced` in `Access`).
- A redelivery that comes while the first delivery is still at work in another process
  is acknowledged as replayed, and Stripe stops; if the first then raises, the event is lost.
- A `COMMIT` that fails answers "decision not recorded", and a later `COMMIT` of the same
  connection records it (`RefusedIsUnrecorded` in `DecisionLedger`, in no run).
- `chargebee_retry_date` never reaches `schedule_retry` (`nodes.py:911-965`), against
  `chargebee_map.py:8-9`; the model leaves the date where the code leaves it.
- `refreshed` and `unreachable`, which `StateIsHonest` covers, are written by store methods that
  no route calls yet.
- Message rows whose failure row was erased under a handler are found by no later erasure
  (`OrphansAreCut` bounds them).

## 8. Plan

1. *Done:* the loop, approval by email and in the mailbox; tenants; the decision API; the
   fourteen services; contracts for the loop, approval, the mailbox, tenancy and the
   decision audit; a theorem for each safety property and refinement the passing runs check;
   for five of the six findings, theorems that say when the promise is kept.
2. Proofs still worth writing: the bounds a store with several processes keeps of what is
   proved under `Serial` and `Alone`; `StaleDraftGone`, once a sweep deletes the drafts of
   what it expires.
3. Compositions still worth having: the mails of an approval with offboarding (its rows are in
   `TenantLifecycle`), decisions by the admin route on mailbox requests, erasure with approval and with tenants that leave.
4. `recovery_deployed` with several crashes and errors, for which the theorems stand in
   now; liveness of the loop with a crash, once finding 1 is closed.

## 9. Not modelled, and why

- **PostgreSQL backend** (`pg_backend.py`): the same interface on another engine; the models
  follow the SQLite one that is deployed. The locks differ, so its races would be other ones.
- **Clients, sources and tools**: Gmail, IMAP, CSV and MCP wire formats, LLM clients: pure
  input and output, abstracted as what they may answer.
- **Parsing and wording**: the regular expressions behind the marks of `Drafting`, the
  templates and pages, the mapping of single fields, the return-code explanations, the
  signature and encryption algorithms.
- **Amounts, medians and rates** of the reports, and the expected value: arithmetic for
  display over what `RecoveryReport` and `DecisionLedger` count.
- **Single-tenant mode of the configuration** (`_from_env`) and of authentication
  (`auth.py`): read from the environment alone, nothing to interleave.
- **The create branch of the migration** (`migrate_tenancy.py:417-427`): no rows, nothing to
  back up.
- **Two server processes deciding at once, the admin route on mailbox requests**: not in
  `Approval` or `MailboxApproval`, which have one event loop.
- **Schema creation, pragmas, listing methods** of the ledger: no state changes the models tell apart.
- **Scripts that generate pages and demonstrations, evaluations, infrastructure**: no state, or
  declarative. That there is one machine (`fly.toml`) is an assumption of the models.
