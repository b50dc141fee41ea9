---------------------------- MODULE TenantLifecycle ----------------------------
(***************************************************************************)
(* One tenant of a multi-tenant deployment, from its registration to its   *)
(* erasure (app/tenant_admin.py, the Platform of app/store.py,             *)
(* app/principals.py), together with everything that writes for it:        *)
(* webhooks and approvers (app/api.py, app/approval.py), the sweep of its   *)
(* requests (app/approval.py, app/mailbox_approval.py), decisions, bank     *)
(* consents, its configuration.                                            *)
(*                                                                         *)
(* Three kinds of caller run at once.  The event loop runs one async route *)
(* to its end before the next: a route awaits its body and nothing else,   *)
(* and looks the tenant up after it, except /decide, which does so before. *)
(* Threads run the sync routes and the sweep; the operator's command line  *)
(* (scripts/tenants.py) is a process of its own on the same database.      *)
(* One store call is one step: it holds Database.lock and commits, and     *)
(* the writers of the configuration run under BEGIN IMMEDIATE.             *)
(*                                                                         *)
(* The ledger is told apart by the delivery that wrote it: its dedupe row, *)
(* its invoice rows, its pending approval request and the message row that *)
(* the end of the request leaves.                                          *)
(***************************************************************************)
EXTENDS Naturals, FiniteSets

CONSTANTS
  Async,        \* the event loop: the one caller that runs async routes
  Threads,      \* threads that run sync routes
  Cli,          \* command lines
  Deliveries,   \* webhook deliveries, which the provider may repeat
  Decisions,    \* calls to /decide
  Consents,     \* bank consent journeys
  Tokens,       \* token ids that may be minted
  OneDoor,      \* TRUE: the operator starts no life-cycle command while one runs
  MaxFaults,    \* bound: store calls that fail and processes killed
  NoJob

ASSUME CallersAssumption ==
  /\ Async \cap Threads = {} /\ Async \cap Cli = {} /\ Threads \cap Cli = {}
  /\ OneDoor \in BOOLEAN
ASSUME JobsAssumption ==
  /\ NoJob \notin Deliveries \cup Consents

Callers == Async \cup Threads \cup Cli

VARIABLES
  status,       \* tenants.status, "none" without a row
  tokens,       \* the tenant's tokens that are not revoked
  minted,       \* every token id ever inserted
  config,       \* is there a row in tenant_config?
  events,       \* deliveries with a dedupe row
  rows,         \* deliveries whose invoice rows are in the ledger
  pending,      \* deliveries with a pending approval request
  notes,        \* deliveries whose request left its message row in the ledger
  reading,      \* calls to /decide let in, whose body is awaited
  decisions,    \* rows of the decision audit
  consents,     \* rows of the consent database
  states,       \* OAuth state values that still verify
  pc, job,      \* per caller: its next call, and what it is about
  \* the world
  lost,         \* deliveries whose handling raised or died half-way
  late,         \* what was written, with no second look, for a tenant already gone
  exported,     \* has the operator an export taken out of service?
  kept,         \* deliveries whose rows it holds, or that were not yet answered then
  heard,        \* deliveries whose message rows it holds, or that were not yet answered or
                \* settled then
  faults

ledger == <<events, rows, pending, notes>>
stores == <<tokens, minted, config, reading, decisions, consents, states>>
taken  == <<exported, kept, heard>>
world  == <<lost, late, taken, faults>>
vars   == <<status, ledger, stores, pc, job, world>>

Gone == {"offboarding", "offboarded"}
Live == {"active", "suspended"}
Statuses == {"none"} \cup Live \cup Gone

HookCalls == {"hook_config", "hook_live", "hook_claim", "hook_handle", "hook_open",
              "hook_forget", "hook_recheck", "hook_erase"}
\* A delivery is in flight from its claim to the end of its handler.
Claimed == {"hook_handle", "hook_open", "hook_forget", "hook_recheck", "hook_erase"}

\* A request on its way out: by a person (api.py:957-1025), or by a sweep.
SettleCalls == {"act_claim", "sweep_settle", "sweep_record", "note", "close"}

DoorCalls == {"create_row", "create_config", "create_token", "suspend_write",
              "suspend_expire", "resume_write", "begin_write", "begin_revoke", "begin_expire",
              "export", "finish_read", "finish_ledger", "finish_config", "finish_audit",
              "finish_consents", "finish_write"}
OtherCalls == {"config_save", "grant_insert",
               "consent_put"}

\* Every variable stays in its type: the tenant's rows in each store, the callers and what
\* they are about.
TypeOK ==
  /\ status \in Statuses /\ config \in BOOLEAN
  /\ tokens \subseteq minted /\ minted \subseteq Tokens
  /\ events \subseteq Deliveries /\ rows \subseteq Deliveries /\ pending \subseteq rows
  /\ notes \subseteq Deliveries
  /\ reading \cup decisions \subseteq Decisions /\ consents \subseteq Consents /\ states \subseteq Consents
  /\ pc \in [Callers -> {"idle"} \cup HookCalls \cup SettleCalls \cup DoorCalls \cup OtherCalls]
  /\ job \in [Callers -> {NoJob, "skip_export"} \cup Deliveries \cup Consents]
  /\ \A c \in Callers : pc[c] \in HookCalls => c \in Async /\ job[c] \in Deliveries
  /\ \A c \in Callers : pc[c] \in SettleCalls => job[c] \in Deliveries
  /\ lost \subseteq Deliveries /\ kept \cup heard \subseteq Deliveries
  /\ exported \in BOOLEAN
  /\ late \subseteq Deliveries \cup Decisions \cup Consents \cup {"config"}

Init ==
  /\ status = "none" /\ tokens = {} /\ minted = {} /\ config = FALSE
  /\ events = {} /\ rows = {} /\ pending = {} /\ notes = {} /\ reading = {} /\ decisions = {} /\ consents = {} /\ states = {}
  /\ pc = [c \in Callers |-> "idle"] /\ job = [c \in Callers |-> NoJob]
  /\ lost = {} /\ late = {} /\ exported = FALSE /\ faults = 0
  /\ kept = {} /\ heard = {}

-------------------------------------------------------------------------------
\* c's next call is l; a caller that is done is about nothing.
Goto(c, l) ==
  /\ pc' = [pc EXCEPT ![c] = l]
  /\ job' = [job EXCEPT ![c] = IF l = "idle" THEN NoJob ELSE @]

\* An idle caller of one of the kinds S makes its first read and goes on to l, about j.
StartOn(c, S, l, j) ==
  /\ c \in S /\ pc[c] = "idle"
  /\ pc' = [pc EXCEPT ![c] = l] /\ job' = [job EXCEPT ![c] = j]

Start(c, S, l) == StartOn(c, S, l, NoJob)

Call(c, from, to) == pc[c] = from /\ Goto(c, to)

\* The operator's discipline: one life-cycle command at a time.
DoorFree == OneDoor => \A c \in Callers : pc[c] \notin DoorCalls

\* A life-cycle command moves the row and leaves the stores alone.
SetStatus(s) == status' = s /\ UNCHANGED <<ledger, stores, world>>

Nothing == UNCHANGED <<status, ledger, stores, world>>

About(S) == {job[c] : c \in {k \in Callers : pc[k] \in S}}
InFlight == About(Claimed)

\* Written for a tenant already out of service, and never looked at again.
Late(S) == late' = IF status \in Gone THEN late \cup S ELSE late

-------------------------------------------------------------------------------
\* Life-cycle commands.

\* create_tenant: the configuration of an unknown tenant is not adopted.
Create(c) ==
  /\ DoorFree /\ status = "none" /\ ~config
  /\ Start(c, Async \cup Cli, "create_row") /\ Nothing

CreateRow(c) ==
  /\ IF status = "none" THEN Call(c, "create_row", "create_config") /\ SetStatus("active")
                        ELSE Call(c, "create_row", "idle") /\ Nothing

CreateConfig(c) ==
  /\ Call(c, "create_config", "create_token")
  /\ config' = TRUE
  /\ UNCHANGED <<status, ledger, tokens, minted, reading, decisions, consents, states, world>>

Suspend(c) ==
  /\ DoorFree /\ status = "active"
  /\ Start(c, Async \cup Cli, "suspend_write") /\ Nothing

SuspendWrite(c) == Call(c, "suspend_write", "suspend_expire") /\ SetStatus("suspended")

Expire(c, from, to) ==
  /\ Call(c, from, to) /\ pending' = {}
  /\ UNCHANGED <<status, events, rows, notes, stores, world>>

SuspendExpire(c) == Expire(c, "suspend_expire", "idle")

Resume(c) ==
  /\ DoorFree /\ status = "suspended"
  /\ Start(c, Threads \cup Cli, "resume_write") /\ Nothing

ResumeWrite(c) == Call(c, "resume_write", "idle") /\ SetStatus("active")

\* begin_offboarding, by its route or as the first part of the offboard command.  The
\* command may skip the export only for a tenant that is offboarding already.
Begin(c, skip) ==
  /\ DoorFree /\ status \in Live \cup {"offboarding"}
  /\ skip => c \in Cli /\ status = "offboarding"
  /\ StartOn(c, Threads \cup Cli,
             IF status = "offboarding" THEN "begin_revoke" ELSE "begin_write",
             IF skip THEN "skip_export" ELSE NoJob)
  /\ UNCHANGED <<status, ledger, stores, world>>

BeginWrite(c) == Call(c, "begin_write", "begin_revoke") /\ SetStatus("offboarding")

BeginRevoke(c) ==
  /\ Call(c, "begin_revoke", "begin_expire") /\ tokens' = {}
  /\ UNCHANGED <<status, ledger, minted, config, reading, decisions, consents, states, world>>

\* The route ends here; the command goes on to its export, or straight to the erase.
BeginExpire(c) ==
  Expire(c, "begin_expire",
         IF c \in Threads THEN "idle" ELSE IF job[c] = "skip_export" THEN "finish_read" ELSE "export")

\* export_everything reads the ledger under one lock.  The operator keeps the copy; one
\* taken in service is of no use to the offboarding.
Kept(S) == IF status = "offboarding" THEN S ELSE {}

\* What may still be written when it is taken: by deliveries let in, about their requests.
Coming == About(Claimed \cup {"hook_claim"})
Unsettled == pending \cup About(SettleCalls)

Export(c) ==
  /\ status \notin {"none", "offboarded"}
  /\ \/ Start(c, Threads, "idle")
     \/ Call(c, "export", "finish_read")
  /\ exported' = (status = "offboarding")
  /\ kept' = Kept(rows \cup Coming) /\ heard' = Kept(notes \cup Coming \cup Unsettled)
  /\ UNCHANGED <<status, ledger, stores, lost, late, faults>>

\* finish_offboarding, by its route, whose caller says it has the export.
Finish(c) ==
  /\ DoorFree /\ status = "offboarding" /\ exported
  /\ Start(c, Async, "finish_ledger") /\ Nothing

FinishRead(c) ==
  /\ Call(c, "finish_read", IF status = "offboarding" THEN "finish_ledger" ELSE "idle")
  /\ Nothing

\* Mutant: the approvals table is left out of the erase.
EraseTenantButApprovals ==
  events' = {} /\ rows' = {} /\ notes' = {} /\ UNCHANGED pending

EraseTenant == events' = {} /\ rows' = {} /\ pending' = {} /\ notes' = {}

FinishLedger(c) ==
  /\ Call(c, "finish_ledger", "finish_config") /\ EraseTenant
  /\ UNCHANGED <<status, stores, world>>

FinishConfig(c) ==
  /\ Call(c, "finish_config", "finish_audit") /\ config' = FALSE
  /\ UNCHANGED <<status, ledger, tokens, minted, reading, decisions, consents, states, world>>

\* Mutant: an audit without a client id to erase by is passed over.
FinishAuditSkipped(c) ==
  /\ Call(c, "finish_audit", "finish_consents")
  /\ UNCHANGED <<status, ledger, stores, world>>

FinishAudit(c) ==
  /\ Call(c, "finish_audit", "finish_consents") /\ decisions' = {}
  /\ UNCHANGED <<status, ledger, tokens, minted, config, reading, consents, states, world>>

\* Mutant: the tenant is marked offboarded before the last store is cleared.
FinishConsentsAfter(c) ==
  /\ Call(c, "finish_consents", "idle") /\ status' = "offboarded"
  /\ consents' = {}
  /\ UNCHANGED <<ledger, tokens, minted, config, reading, decisions, states, world>>

FinishConsents(c) ==
  /\ Call(c, "finish_consents", "finish_write") /\ consents' = {}
  /\ UNCHANGED <<status, ledger, tokens, minted, config, reading, decisions, states, world>>

FinishWrite(c) == Call(c, "finish_write", "idle") /\ SetStatus("offboarded")

-------------------------------------------------------------------------------
\* Configuration and tokens.

\* update_config, rotate_secrets and set_platform_fields: each inserts or merges the row.
RequireLive(c, l) == status \in Live /\ Start(c, Async \cup Cli, l) /\ Nothing

SaveConfig(c) ==
  /\ Call(c, "config_save", "idle") /\ config' = TRUE
  /\ Late({"config"})
  /\ UNCHANGED <<status, ledger, tokens, minted, reading, decisions, consents, states,
                 lost, taken, faults>>

GrantInsert(c, t) ==
  /\ pc[c] \in {"grant_insert", "create_token"} /\ Goto(c, "idle")
  /\ t \notin minted
  /\ minted' = minted \cup {t} /\ tokens' = tokens \cup {t}
  /\ UNCHANGED <<status, ledger, config, reading, decisions, consents, states, world>>

Revoke(c, t) ==
  /\ Start(c, Threads \cup Cli, "idle")
  /\ t \in tokens /\ tokens' = tokens \ {t}
  /\ UNCHANGED <<status, ledger, minted, config, reading, decisions, consents, states, world>>

-------------------------------------------------------------------------------
\* A webhook delivery.

HookStart(c, d) ==
  /\ status \in Live /\ StartOn(c, Async, "hook_config", d)
  /\ UNCHANGED <<status, ledger, stores, world>>

\* config_for knows no tenant without a row.  A suspended tenant's dunning event is
\* acknowledged and dropped; its closing events go on.
HookConfig(c) ==
  /\ \/ config /\ Call(c, "hook_config", "hook_live")
     \/ (~config \/ status = "suspended") /\ Call(c, "hook_config", "idle")
  /\ Nothing

\* Mutant: the look before the claim is dropped, the one at the start is enough.
HookLiveStale(c) == Call(c, "hook_live", "hook_claim") /\ Nothing

HookLive(c) ==
  /\ Call(c, "hook_live", IF status \in Live THEN "hook_claim" ELSE "idle")
  /\ Nothing

HookClaim(c) ==
  /\ Call(c, "hook_claim", IF job[c] \in events THEN "idle" ELSE "hook_handle")
  /\ events' = events \cup {job[c]}
  /\ UNCHANGED <<status, rows, pending, notes, stores, world>>

HookHandle(c) ==
  /\ Call(c, "hook_handle", "hook_open")
  /\ rows' = rows \cup {job[c]}
  /\ UNCHANGED <<status, events, pending, notes, stores, world>>

\* The handler may open an approval request before it returns.
HookOpen(c) ==
  /\ Call(c, "hook_open", "hook_recheck")
  /\ \/ pending' = pending \cup {job[c]} /\ rows' = rows \cup {job[c]}
     \/ UNCHANGED <<pending, rows>>
  /\ UNCHANGED <<status, events, notes, stores, world>>

\* The handler raises with part of its work done: its claim is released, nothing else.
HookRaises(c) ==
  /\ pc[c] \in {"hook_handle", "hook_open"} /\ Goto(c, "hook_forget")
  /\ faults < MaxFaults /\ faults' = faults + 1
  /\ lost' = lost \cup {job[c]}
  /\ UNCHANGED <<status, ledger, stores, late, taken>>

HookForget(c) ==
  /\ Call(c, "hook_forget", "idle")
  /\ events' = events \ {job[c]}
  /\ UNCHANGED <<status, rows, pending, notes, stores, world>>

\* Mutant: the second look waits for the tenant to come back.
HookRecheckWaits(c) ==
  /\ Call(c, "hook_recheck", IF status \in Live THEN "idle" ELSE "hook_recheck")
  /\ Nothing

\* The second look: whatever was written for a tenant gone meanwhile is erased again.
HookRecheck(c) ==
  /\ Call(c, "hook_recheck", IF status \in Live THEN "idle" ELSE "hook_erase")
  /\ Nothing

HookErase(c) ==
  /\ Call(c, "hook_erase", "idle") /\ EraseTenant
  /\ UNCHANGED <<status, stores, world>>

-------------------------------------------------------------------------------
\* The end of an approval request.  Whoever claims or closes it writes a message row in a
\* statement of its own, and looks at the tenant no more.

\* A request is closed by its row id: a later one of the same delivery is another row.
Closes(c) == pending' \in {pending \ {job[c]}, pending}

CloseOnly == UNCHANGED <<status, events, rows, notes, stores, world>>

\* decide reads the request, by link or for an approver, and looks at the tenant.
Act(c, d) ==
  /\ d \in pending /\ StartOn(c, Async, IF status = "active" THEN "act_claim" ELSE "close", d)
  /\ UNCHANGED <<status, ledger, stores, world>>

\* A claim, or a skip, is one statement; past its deadline a request cannot be claimed.
ActClaim(c) ==
  /\ \/ /\ job[c] \in pending /\ pending' = pending \ {job[c]}
        /\ Call(c, "act_claim", "note")
     \/ Closes(c) /\ Call(c, "act_claim", "idle")
  /\ CloseOnly

\* A sweep takes every open request, of whatever tenant: one past its deadline expires at
\* once, one in a mailbox is looked up there.
SweepExpire(c, d) ==
  /\ d \in pending /\ pending' = pending \ {d} /\ StartOn(c, Threads, "note", d)
  /\ CloseOnly

SweepRead(c, d) ==
  /\ d \in pending /\ StartOn(c, Threads, "sweep_settle", d)
  /\ UNCHANGED <<status, ledger, stores, world>>

\* The mail server has answered: the draft expired or was deleted, was sent about an
\* invoice still on the books, was sent about another, or still waits.
SweepSettle(c) ==
  /\ \/ Closes(c) /\ Call(c, "sweep_settle", "note")
     \/ job[c] \in rows /\ Call(c, "sweep_settle", "sweep_record") /\ UNCHANGED pending
     \/ \E l \in {"close", "idle"} : Call(c, "sweep_settle", l) /\ UNCHANGED pending
  /\ CloseOnly

WriteNote(c) ==
  /\ notes' = notes \cup {job[c]} /\ Late({job[c]})
  /\ UNCHANGED <<status, events, rows, pending, stores, lost, taken, faults>>

\* A transition of an invoice that is there no more raises.
SweepRecord(c) ==
  /\ \E l \in {"close", "idle"} : Call(c, "sweep_record", l)
  /\ WriteNote(c)

Note(c) == Call(c, "note", "idle") /\ WriteNote(c)

CloseRequest(c) == Call(c, "close", "idle") /\ Closes(c) /\ CloseOnly

Settle(c) ==
  \/ \E d \in Deliveries : Act(c, d) \/ SweepExpire(c, d) \/ SweepRead(c, d)
  \/ ActClaim(c) \/ SweepSettle(c) \/ SweepRecord(c) \/ Note(c) \/ CloseRequest(c)

-------------------------------------------------------------------------------
\* Decisions and bank consents, stored apart from the ledger under the tenant's id.

\* access.check for a decide.write: a token that is not revoked, a tenant in service.
MayDecide == tokens # {} /\ status = "active"

LoopFree == \A c \in Async : pc[c] = "idle"

\* The route looks at the token and the tenant, and then awaits the body.
Decide(q) ==
  /\ MayDecide /\ LoopFree /\ q \notin reading \cup decisions
  /\ reading' = reading \cup {q}
  /\ UNCHANGED <<status, ledger, tokens, minted, config, decisions, consents, states,
                 pc, job, world>>

\* The decision is recorded before it is answered; a bad body records nothing.
DecideRecord(q) ==
  /\ LoopFree /\ q \in reading /\ reading' = reading \ {q}
  /\ \/ decisions' = decisions \cup {q} /\ Late({q})
     \/ UNCHANGED <<decisions, late>>
  /\ UNCHANGED <<status, ledger, tokens, minted, config, consents, states, pc, job,
                 lost, taken, faults>>

ConsentStart(c, k) ==
  /\ MayDecide /\ Start(c, Threads, "idle")
  /\ k \notin states /\ states' = states \cup {k}
  /\ UNCHANGED <<status, ledger, tokens, minted, config, reading, decisions, consents, world>>

\* The browser comes back from the bank: the state is the only credential.
ConsentCallback(c, k) ==
  /\ k \in states /\ StartOn(c, Threads, "consent_put", k)
  /\ UNCHANGED <<status, ledger, stores, world>>

ConsentPut(c) ==
  /\ Call(c, "consent_put", "idle")
  /\ consents' = consents \cup {job[c]} /\ Late({job[c]})
  /\ UNCHANGED <<status, ledger, tokens, minted, config, reading, decisions, states,
                 lost, taken, faults>>

\* Ten minutes pass.
StateExpires(k) ==
  /\ k \in states /\ states' = states \ {k}
  /\ UNCHANGED <<status, ledger, tokens, minted, config, reading, decisions, consents, pc, job, world>>

-------------------------------------------------------------------------------
\* A store call of anything but a handler fails, or the command line is killed.
CallFails(c) ==
  /\ pc[c] \in DoorCalls \cup OtherCalls \cup SettleCalls \cup {"hook_forget", "hook_recheck", "hook_erase"}
  /\ faults < MaxFaults /\ faults' = faults + 1
  /\ Goto(c, "idle")
  /\ lost' = IF pc[c] \in Claimed THEN lost \cup {job[c]} ELSE lost
  /\ UNCHANGED <<status, ledger, stores, late, taken>>

\* The server process is killed, with every request it runs.
Crash ==
  /\ faults < MaxFaults /\ faults' = faults + 1
  /\ pc' = [c \in Callers |-> IF c \in Cli THEN pc[c] ELSE "idle"]
  /\ job' = [c \in Callers |-> IF c \in Cli THEN job[c] ELSE NoJob]
  /\ lost' = lost \cup InFlight
  /\ reading' = {}
  /\ UNCHANGED <<status, ledger, tokens, minted, config, decisions, consents, states,
                 late, taken>>

Door(c) ==
  \/ Create(c) \/ CreateRow(c) \/ CreateConfig(c)
  \/ Suspend(c) \/ SuspendWrite(c) \/ SuspendExpire(c) \/ Resume(c) \/ ResumeWrite(c)
  \/ (\E skip \in BOOLEAN : Begin(c, skip)) \/ BeginWrite(c) \/ BeginRevoke(c) \/ BeginExpire(c)
  \/ Export(c) \/ Finish(c) \/ FinishRead(c) \/ FinishLedger(c) \/ FinishConfig(c)
  \/ FinishAudit(c) \/ FinishConsents(c) \/ FinishWrite(c)

Manage(c) ==
  \/ \E l \in {"config_save", "grant_insert"} : RequireLive(c, l)
  \/ SaveConfig(c)
  \/ \E t \in Tokens : GrantInsert(c, t) \/ Revoke(c, t)

\* What a started delivery does next.
HookStep(c) ==
  \/ HookConfig(c) \/ HookLive(c) \/ HookClaim(c) \/ HookHandle(c) \/ HookOpen(c)
  \/ HookForget(c) \/ HookRecheck(c) \/ HookErase(c)

Hook(c) == HookStep(c) \/ HookRaises(c) \/ \E d \in Deliveries : HookStart(c, d)

Serve(c) ==
  \/ ConsentPut(c)
  \/ \E k \in Consents : ConsentStart(c, k) \/ ConsentCallback(c, k)

Next ==
  \/ \E c \in Callers : Door(c) \/ Manage(c) \/ Hook(c) \/ Settle(c) \/ Serve(c) \/ CallFails(c)
  \/ \E q \in Decisions : Decide(q) \/ DecideRecord(q)
  \/ \E k \in Consents : StateExpires(k)
  \/ Crash

\* A handler that started goes on to its end.
Fairness == \A c \in Async : WF_vars(HookStep(c))

Spec == Init /\ [][Next]_vars /\ Fairness

-------------------------------------------------------------------------------
\* What may outlive a tenant.  After the erase is declared complete, a delivery's claim,
\* rows and request are left only by a handler still in flight, or one that raised or died
\* (api.py:1766-1770); the message row of a request (approval.py:358-362, 396-401, 434,
\* mailbox_approval.py:156-190), a decision, a consent or a configuration only if it was
\* written after the tenant had left (tenant_admin.py:201-231).
FinishErasesAll ==
  status = "offboarded" =>
    /\ events \cup rows \cup pending \subseteq InFlight \cup lost
    /\ notes \cup decisions \cup consents \subseteq late
    /\ config => "config" \in late

\* What the export taken out of service misses, and the erase deletes for good, is only
\* what deliveries let in before it wrote after it, and the message rows of their requests
\* and of those that were open or being closed when it was taken (tenant_admin.py:179-198).
ExportMissesOnlyInFlight ==
  exported /\ status = "offboarding" =>
    rows \subseteq kept /\ notes \subseteq heard

\* Every row a webhook wrote for an offboarded tenant goes, except those of a handler that
\* raised or died (api.py:1771-1774).
RowsGoEventually ==
  status = "offboarded" ~> (status # "offboarded" \/ events \cup rows \cup pending \subseteq lost)

\* Which stores the running attempt to erase has cleared.
ClearedAt(l) ==
  CASE l = "finish_config"   -> {"ledger"}
    [] l = "finish_audit"    -> {"ledger", "config"}
    [] l = "finish_consents" -> {"ledger", "config", "audit"}
    [] l = "finish_write"    -> {"ledger", "config", "audit", "consents"}
    [] OTHER                 -> {}

Cleared == UNION {ClearedAt(pc[c]) : c \in Callers}

Contract == INSTANCE TenancyContract WITH Stores <- {"ledger", "config", "audit", "consents"},
                                          cleared <- Cleared

\* One life: registered once, declared gone only after every store was cleared in one
\* attempt, whatever failed before.
KeepsTenancyContract == Contract!Spec

\* Erase everything the tenant owns, then mark it offboarded last (tenant_admin.py:204).
NothingOutlives ==
  status = "offboarded" =>
    UNION {events, rows, pending, notes, decisions, consents} = {} /\ ~config
===============================================================================
