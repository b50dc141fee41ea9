------------------------------ MODULE TenantProofs ------------------------------
(* Proofs about the life of a tenant (TenantLifecycle) and about the erasure  *)
(* of a person from what it keeps (Erasure).  The components share no state.  *)
EXTENDS TenantLifecycle, Erasure, TLAPS

-------------------------------------------------------------------------------
(* TenantLifecycle, for any number of callers, deliveries, decisions,         *)
(* consents, tokens and faults.  Types need no assumption.  Everything else   *)
(* holds under OneDoor, the operator's discipline of one life-cycle command   *)
(* at a time: with two of them a resume that has read the status may write    *)
(* "active" over "offboarding".                                               *)

\* What each caller is about.
JobInv ==
  \A c \in Callers :
    /\ pc[c] \in HookCalls => c \in Async /\ job[c] \in Deliveries
    /\ pc[c] \in SettleCalls => job[c] \in Deliveries
    /\ pc[c] = "consent_put" => job[c] \in Consents

Labels == {"idle"} \cup HookCalls \cup SettleCalls \cup DoorCalls \cup OtherCalls
Jobs == {NoJob, "skip_export"} \cup Deliveries \cup Consents

\* The part of the types that a caller's step is about, and the part that is in the database.
CallersTyped ==
  pc \in [Callers -> Labels] /\ job \in [Callers -> Jobs] /\ JobInv

StoresTyped ==
  /\ status \in Statuses /\ config \in BOOLEAN
  /\ tokens \subseteq minted /\ minted \subseteq Tokens
  /\ events \subseteq Deliveries /\ rows \subseteq Deliveries /\ pending \subseteq rows
  /\ notes \subseteq Deliveries
  /\ reading \cup decisions \subseteq Decisions /\ consents \subseteq Consents /\ states \subseteq Consents
  /\ lost \subseteq Deliveries /\ kept \cup heard \subseteq Deliveries
  /\ exported \in BOOLEAN
  /\ late \subseteq Deliveries \cup Decisions \cup Consents \cup {"config"}

TypeInv == CallersTyped /\ StoresTyped

LEMMA TypeInvIsTypeOK == TypeInv => TypeOK
  BY DEF TypeInv, CallersTyped, StoresTyped, JobInv, TypeOK, Labels, Jobs

LEMMA InitTypes == Init => TypeInv
  BY DEF Init, TypeInv, CallersTyped, StoresTyped, JobInv, Labels, Jobs, Statuses, HookCalls, SettleCalls

\* A caller goes on, or an idle one starts.
LEMMA GotoTypes ==
  ASSUME CallersTyped, NEW c \in Callers, NEW l \in Labels, Goto(c, l),
         l \in HookCalls => pc[c] \in HookCalls, l \in SettleCalls => pc[c] \in SettleCalls,
         l # "consent_put"
  PROVE  CallersTyped'
  BY DEF CallersTyped, JobInv, Goto, HookCalls, SettleCalls, Jobs

LEMMA StartTypes ==
  ASSUME CallersTyped, NEW c \in Callers, NEW S, NEW l \in Labels, NEW j \in Jobs, StartOn(c, S, l, j),
         l \in HookCalls => c \in Async /\ j \in Deliveries,
         l \in SettleCalls => j \in Deliveries, l = "consent_put" => j \in Consents
  PROVE  CallersTyped'
  BY DEF CallersTyped, JobInv, StartOn, HookCalls, SettleCalls

LEMMA DoorMoves ==
  ASSUME CallersTyped, NEW c \in Callers, Door(c)
  PROVE  CallersTyped'
<1> USE DEF Labels, DoorCalls, HookCalls, SettleCalls, Jobs
<1>1. \A l \in DoorCalls \cup {"idle"} : Goto(c, l) => CallersTyped'
  BY GotoTypes
<1>2. \A l \in DoorCalls \cup {"idle"}, j \in {NoJob, "skip_export"} :
        \A S : StartOn(c, S, l, j) => CallersTyped'
  BY StartTypes
<1>3. CASE Create(c) \/ Suspend(c) \/ Resume(c) \/ Finish(c)
  BY <1>2, <1>3 DEF Create, Suspend, Resume, Finish, Start
<1>4. CASE CreateRow(c) \/ CreateConfig(c)
  BY <1>1, <1>4 DEF CreateRow, CreateConfig, Call
<1>5. CASE SuspendWrite(c) \/ SuspendExpire(c) \/ ResumeWrite(c)
  BY <1>1, <1>5 DEF SuspendWrite, SuspendExpire, ResumeWrite, Expire, Call
<1>6. CASE \E skip \in BOOLEAN : Begin(c, skip)
  BY <1>2, <1>6 DEF Begin
<1>7. CASE BeginWrite(c) \/ BeginRevoke(c) \/ BeginExpire(c)
  BY <1>1, <1>7 DEF BeginWrite, BeginRevoke, BeginExpire, Expire, Call
<1>8. CASE Export(c)
  BY <1>1, <1>2, <1>8 DEF Export, Call, Start
<1>9. CASE FinishRead(c) \/ FinishLedger(c) \/ FinishConfig(c)
  BY <1>1, <1>9 DEF FinishRead, FinishLedger, FinishConfig, Call
<1>10. CASE FinishAudit(c) \/ FinishConsents(c) \/ FinishWrite(c)
  BY <1>1, <1>10 DEF FinishAudit, FinishConsents, FinishWrite, Call
<1> QED BY <1>3, <1>4, <1>5, <1>6, <1>7, <1>8, <1>9, <1>10 DEF Door

LEMMA DoorTypes ==
  ASSUME TypeInv, NEW c \in Callers, Door(c)
  PROVE  TypeInv'
<1> USE DEF StoresTyped, SetStatus, Nothing, Statuses, Live, Gone, ledger, stores, taken, world
<1>1. SUFFICES StoresTyped'
  BY DoorMoves DEF TypeInv
<1>2. StoresTyped
  BY DEF TypeInv
<1>3. CASE Create(c) \/ Suspend(c) \/ Resume(c) \/ Finish(c) \/ FinishRead(c)
  BY <1>2, <1>3 DEF Create, Suspend, Resume, Finish, FinishRead
<1>4. CASE CreateRow(c) \/ CreateConfig(c) \/ SuspendWrite(c) \/ SuspendExpire(c) \/ ResumeWrite(c)
  BY <1>2, <1>4 DEF CreateRow, CreateConfig, SuspendWrite, SuspendExpire, ResumeWrite, Expire
<1>5. CASE (\E skip \in BOOLEAN : Begin(c, skip)) \/ BeginWrite(c) \/ BeginRevoke(c) \/ BeginExpire(c)
  BY <1>2, <1>5 DEF Begin, BeginWrite, BeginRevoke, BeginExpire, Expire
<1>6. CASE Export(c)
  <2>1. Coming \cup Unsettled \subseteq Deliveries
    BY <1>2 DEF TypeInv, CallersTyped, About, Coming, Unsettled, Claimed, JobInv, HookCalls
  <2> QED BY <1>2, <1>6, <2>1 DEF Export, Kept
<1>7. CASE FinishLedger(c) \/ FinishConfig(c) \/ FinishAudit(c) \/ FinishConsents(c) \/ FinishWrite(c)
  BY <1>2, <1>7 DEF FinishLedger, FinishConfig, FinishAudit, FinishConsents, FinishWrite, EraseTenant
<1> QED BY <1>3, <1>4, <1>5, <1>6, <1>7 DEF Door

LEMMA ManageTypes ==
  ASSUME TypeInv, NEW c \in Callers, Manage(c)
  PROVE  TypeInv'
<1>1. CallersTyped' 
  BY GotoTypes, StartTypes
  DEF TypeInv, Manage, RequireLive, SaveConfig, GrantInsert, Revoke, Call, Start, Labels, OtherCalls, HookCalls,
      SettleCalls, Jobs
<1>2. StoresTyped'
  BY DEF TypeInv, StoresTyped, Manage, RequireLive, SaveConfig, GrantInsert, Revoke, Late, Nothing,
         ledger, stores, taken, world
<1> QED BY <1>1, <1>2 DEF TypeInv

LEMMA HookMoves ==
  ASSUME CallersTyped, NEW c \in Callers, Hook(c)
  PROVE  CallersTyped'
<1> USE DEF Labels, HookCalls, SettleCalls
<1>1. \A l \in HookCalls \cup {"idle"} : Goto(c, l) /\ pc[c] \in HookCalls => CallersTyped'
  BY GotoTypes
<1>2. CASE \E d \in Deliveries : HookStart(c, d)
  BY <1>2, StartTypes DEF HookStart, StartOn, Jobs
<1>3. CASE HookConfig(c) \/ HookLive(c) \/ HookRecheck(c) \/ HookClaim(c)
  BY <1>1, <1>3 DEF HookConfig, HookLive, HookRecheck, HookClaim, Call
<1>4. CASE HookHandle(c) \/ HookOpen(c) \/ HookForget(c) \/ HookErase(c) \/ HookRaises(c)
  BY <1>1, <1>4 DEF HookHandle, HookOpen, HookForget, HookErase, HookRaises, Call
<1> QED BY <1>2, <1>3, <1>4 DEF Hook, HookStep

LEMMA HookTypes ==
  ASSUME TypeInv, NEW c \in Callers, Hook(c)
  PROVE  TypeInv'
<1> USE DEF StoresTyped, Nothing, ledger, stores, taken, world
<1>1. SUFFICES StoresTyped'
  BY HookMoves DEF TypeInv
<1>2. StoresTyped /\ (pc[c] \in HookCalls => job[c] \in Deliveries)
  BY DEF TypeInv, CallersTyped, JobInv
<1>3. CASE (\E d \in Deliveries : HookStart(c, d)) \/ HookConfig(c) \/ HookLive(c) \/ HookRecheck(c)
  BY <1>2, <1>3 DEF HookStart, HookConfig, HookLive, HookRecheck
<1>4. CASE HookClaim(c) \/ HookHandle(c) \/ HookOpen(c) \/ HookRaises(c)
  BY <1>2, <1>4 DEF HookClaim, HookHandle, HookOpen, HookRaises, Call, HookCalls
<1>5. CASE HookForget(c) \/ HookErase(c)
  BY <1>2, <1>5 DEF HookForget, HookErase, EraseTenant
<1> QED BY <1>3, <1>4, <1>5 DEF Hook, HookStep

LEMMA SettleMoves ==
  ASSUME CallersTyped, NEW c \in Callers, Settle(c)
  PROVE  CallersTyped'
<1> USE DEF Labels, HookCalls, SettleCalls
<1>1. \A l \in SettleCalls \cup {"idle"} : Goto(c, l) /\ pc[c] \in SettleCalls => CallersTyped'
  BY GotoTypes
<1>2. CASE \E d \in Deliveries : Act(c, d) \/ SweepExpire(c, d) \/ SweepRead(c, d)
  <2>1. PICK d \in Deliveries, l \in SettleCalls, S \in {Async, Threads} : StartOn(c, S, l, d)
    BY <1>2 DEF Act, SweepExpire, SweepRead
  <2> QED BY <2>1, StartTypes DEF Jobs
<1>3. CASE ActClaim(c) \/ SweepSettle(c)
  BY <1>1, <1>3 DEF ActClaim, SweepSettle, Call
<1>4. CASE SweepRecord(c) \/ Note(c) \/ CloseRequest(c)
  BY <1>1, <1>4 DEF SweepRecord, Note, CloseRequest, Call
<1> QED BY <1>2, <1>3, <1>4 DEF Settle

LEMMA SettleTypes ==
  ASSUME TypeInv, NEW c \in Callers, Settle(c)
  PROVE  TypeInv'
<1> USE DEF StoresTyped, CloseOnly, Closes, WriteNote, Late, ledger, stores, taken, world
<1>1. SUFFICES StoresTyped'
  BY SettleMoves DEF TypeInv
<1>2. StoresTyped /\ (pc[c] \in SettleCalls => job[c] \in Deliveries)
  BY DEF TypeInv, CallersTyped, JobInv
<1>3. CASE \E d \in Deliveries : Act(c, d) \/ SweepExpire(c, d) \/ SweepRead(c, d)
  BY <1>2, <1>3 DEF Act, SweepExpire, SweepRead
<1>4. CASE ActClaim(c) \/ SweepSettle(c) \/ CloseRequest(c)
  BY <1>2, <1>4 DEF ActClaim, SweepSettle, CloseRequest
<1>5. CASE SweepRecord(c) \/ Note(c)
  BY <1>2, <1>5 DEF SweepRecord, Note, Call, SettleCalls
<1> QED BY <1>3, <1>4, <1>5 DEF Settle

LEMMA ServeTypes ==
  ASSUME TypeInv, NEW c \in Callers, Serve(c)
  PROVE  TypeInv'
<1>1. CallersTyped'
  BY GotoTypes, StartTypes
  DEF TypeInv, Serve, ConsentPut, ConsentStart, ConsentCallback, Call, Start, Labels, OtherCalls, HookCalls,
      SettleCalls, Jobs
<1>2. pc[c] = "consent_put" => job[c] \in Consents
  BY DEF TypeInv, CallersTyped, JobInv
<1>3. StoresTyped'
  BY <1>2 DEF TypeInv, StoresTyped, Serve, ConsentPut, ConsentStart, ConsentCallback, Call, Late,
              ledger, stores, taken, world
<1> QED BY <1>1, <1>3 DEF TypeInv

LEMMA InFlightType == CallersTyped => InFlight \subseteq Deliveries
  BY DEF CallersTyped, InFlight, About, Claimed, JobInv, HookCalls

\* The types are kept by every step.
LEMMA StepTypes == TypeInv /\ [Next]_vars => TypeInv'
<1> SUFFICES ASSUME TypeInv, [Next]_vars PROVE TypeInv'
  OBVIOUS
<1>1. ASSUME NEW c \in Callers, CallFails(c) PROVE TypeInv'
  <2>1. CallersTyped'
    BY <1>1, GotoTypes DEF TypeInv, CallFails, Labels, HookCalls, SettleCalls
  <2>2. pc[c] \in Claimed => job[c] \in Deliveries
    BY DEF TypeInv, CallersTyped, JobInv, Claimed, HookCalls
  <2>3. StoresTyped'
    BY <1>1, <2>2 DEF TypeInv, StoresTyped, CallFails, ledger, stores, taken
  <2> QED BY <2>1, <2>3 DEF TypeInv
<1>2. ASSUME NEW q \in Decisions, Decide(q) \/ DecideRecord(q) PROVE TypeInv'
  BY <1>2 DEF TypeInv, CallersTyped, StoresTyped, JobInv, Decide, DecideRecord, Late, ledger, world, taken
<1>3. ASSUME NEW k \in Consents, StateExpires(k) PROVE TypeInv'
  BY <1>3 DEF TypeInv, CallersTyped, StoresTyped, JobInv, StateExpires, ledger, world, taken
<1>4. CASE Crash
  <2>1. CallersTyped'
    BY <1>4 DEF TypeInv, CallersTyped, JobInv, Crash, Labels, Jobs, HookCalls, SettleCalls
  <2>2. StoresTyped'
    BY <1>4, InFlightType DEF TypeInv, StoresTyped, Crash, ledger, taken
  <2> QED BY <2>1, <2>2 DEF TypeInv
<1>5. CASE UNCHANGED vars
  BY <1>5 DEF TypeInv, CallersTyped, StoresTyped, JobInv, vars, ledger, stores, world, taken
<1> QED BY <1>1, <1>2, <1>3, <1>4, <1>5, DoorTypes, ManageTypes, HookTypes, SettleTypes, ServeTypes
  DEF Next

LEMMA Types == Spec => []TypeInv
  BY InitTypes, StepTypes, PTL DEF Spec

\* The type invariant of the registry, the stores and the callers
\* (store.py:160-166, tenant_admin.py:40-287).
THEOREM TenantTypes == Spec => []TypeOK
  BY Types, TypeInvIsTypeOK, PTL

-------------------------------------------------------------------------------
\* One door: which status each life-cycle command has found, or made.
Leaving == {"begin_revoke", "begin_expire", "export", "finish_read", "finish_ledger",
            "finish_config", "finish_audit", "finish_consents", "finish_write"}

StatusAt(l) ==
  /\ l = "create_row" => status = "none"
  /\ l \in {"create_config", "create_token", "suspend_write"} => status = "active"
  /\ l = "resume_write" => status = "suspended"
  /\ l = "begin_write" => status \in Live
  /\ l \in Leaving => status = "offboarding"

DoorInv ==
  /\ \A c, d \in Callers : pc[c] \in DoorCalls /\ pc[d] \in DoorCalls => c = d
  /\ \A c \in Callers : StatusAt(pc[c])

\* Nobody but c is at a life-cycle command.
Alone(c) == \A d \in Callers \ {c} : pc[d] \notin DoorCalls

\* A step that moves no life-cycle command, other than to its end.
Calm == status' = status /\ \A d \in Callers : pc'[d] \in DoorCalls => pc'[d] = pc[d]

LEMMA CalmKeepsDoor ==
  ASSUME DoorInv, Calm
  PROVE  DoorInv'
<1>1. \A c, d \in Callers : pc'[c] \in DoorCalls /\ pc'[d] \in DoorCalls => c = d
  BY DEF DoorInv, Calm
<1>2. ASSUME NEW c \in Callers PROVE StatusAt(pc[c])'
  <2>1. CASE pc'[c] \in DoorCalls
    BY <2>1 DEF DoorInv, Calm, StatusAt
  <2>2. CASE pc'[c] \notin DoorCalls
    BY <2>2 DEF StatusAt, DoorCalls, Leaving
  <2> QED BY <2>1, <2>2
<1> QED BY <1>1, <1>2 DEF DoorInv

\* The threads' export takes a copy and moves nothing.
ThreadExport(c) == Export(c) /\ Start(c, Threads, "idle")

Command(c) == Door(c) /\ ~ThreadExport(c)

LEMMA CommandIsAlone ==
  ASSUME OneDoor, CallersTyped, DoorInv, NEW c \in Callers, Command(c)
  PROVE  Alone(c) /\ Alone(c)'
<1>1. CASE pc[c] \in DoorCalls
  <2>1. Alone(c)
    BY <1>1 DEF DoorInv, Alone
  <2>2. \A d \in Callers \ {c} : pc'[d] = pc[d]
    <3>1. \A l : Call(c, pc[c], l) => \A d \in Callers \ {c} : pc'[d] = pc[d]
      BY DEF Call, Goto, CallersTyped
    <3>2. "idle" \notin DoorCalls
      BY DEF DoorCalls
    <3> QED
      BY <1>1, <3>1, <3>2
      DEF Command, Door, ThreadExport, Create, CreateRow, CreateConfig, Suspend, SuspendWrite, SuspendExpire,
          Resume, ResumeWrite, Begin, BeginWrite, BeginRevoke, BeginExpire, Export, Finish, FinishRead,
          FinishLedger, FinishConfig, FinishAudit, FinishConsents, FinishWrite, Expire, Call, Start, StartOn
  <2> QED BY <2>1, <2>2 DEF Alone
<1>2. CASE pc[c] \notin DoorCalls
  <2>1. Create(c) \/ Suspend(c) \/ Resume(c) \/ (\E skip \in BOOLEAN : Begin(c, skip)) \/ Finish(c)
    BY <1>2
    DEF Command, Door, ThreadExport, CreateRow, CreateConfig, SuspendWrite, SuspendExpire, ResumeWrite,
        BeginWrite, BeginRevoke, BeginExpire, Export, FinishRead, FinishLedger, FinishConfig,
        FinishAudit, FinishConsents, FinishWrite, Expire, Call, DoorCalls
  <2>2. DoorFree /\ \A d \in Callers \ {c} : pc'[d] = pc[d]
    BY <2>1 DEF Create, Suspend, Resume, Begin, Finish, Start, StartOn, CallersTyped
  <2> QED BY <2>2 DEF Alone, DoorFree
<1> QED BY <1>1, <1>2

\* Where a command goes, and the status it finds there.
LEMMA CommandKeepsDoor ==
  ASSUME OneDoor, CallersTyped, DoorInv, NEW c \in Callers, Command(c)
  PROVE  DoorInv'
<1>1. SUFFICES StatusAt(pc[c])'
  <2>1. \A d \in Callers \ {c} : StatusAt(pc[d])'
    BY CommandIsAlone DEF Alone, StatusAt, DoorCalls, Leaving
  <2> QED BY <2>1, CommandIsAlone DEF Alone, DoorInv
<1>2. StatusAt(pc[c])
  BY DEF DoorInv
<1> USE DEF CallersTyped, StatusAt, Leaving, SetStatus, Nothing, Call, Goto, Start, StartOn, Live, Gone
<1>3. CASE Create(c) \/ CreateRow(c) \/ CreateConfig(c)
  BY <1>2, <1>3 DEF Create, CreateRow, CreateConfig
<1>4. CASE Suspend(c) \/ SuspendWrite(c) \/ SuspendExpire(c) \/ Resume(c) \/ ResumeWrite(c)
  BY <1>2, <1>4 DEF Suspend, SuspendWrite, SuspendExpire, Resume, ResumeWrite, Expire
<1>5. CASE (\E skip \in BOOLEAN : Begin(c, skip)) \/ BeginWrite(c) \/ BeginRevoke(c)
  BY <1>2, <1>5 DEF Begin, BeginWrite, BeginRevoke
<1>6. CASE BeginExpire(c) \/ Export(c) \/ Finish(c) \/ FinishRead(c)
  BY <1>2, <1>6 DEF BeginExpire, Expire, Export, Finish, FinishRead
<1>7. CASE FinishLedger(c) \/ FinishConfig(c) \/ FinishAudit(c)
  BY <1>2, <1>7 DEF FinishLedger, FinishConfig, FinishAudit
<1>8. CASE FinishConsents(c) \/ FinishWrite(c)
  BY <1>2, <1>8 DEF FinishConsents, FinishWrite
<1> QED BY <1>3, <1>4, <1>5, <1>6, <1>7, <1>8 DEF Command, Door

\* Everything else is calm.
Quiet ==
  \/ \E c \in Callers : ThreadExport(c) \/ Manage(c) \/ Hook(c) \/ Settle(c) \/ Serve(c) \/ CallFails(c)
  \/ \E q \in Decisions : Decide(q) \/ DecideRecord(q)
  \/ \E k \in Consents : StateExpires(k)
  \/ Crash

LEMMA NextIsCommandOrQuiet == Next => Quiet \/ \E c \in Callers : Command(c)
  BY DEF Next, Quiet, Command

LEMMA QuietIsCalm ==
  ASSUME CallersTyped, Quiet
  PROVE  Calm
<1> USE DEF CallersTyped, Calm, DoorCalls
<1>1. ASSUME NEW c \in Callers, ThreadExport(c) \/ Manage(c) \/ Serve(c) PROVE Calm
  BY <1>1 DEF ThreadExport, Export, Manage, Serve, RequireLive, SaveConfig, GrantInsert, Revoke, Nothing,
              ConsentPut, ConsentStart, ConsentCallback, Call, Goto, Start, StartOn
<1>2. ASSUME NEW c \in Callers, Hook(c) PROVE Calm
  BY <1>2 DEF Hook, HookStep, HookStart, HookConfig, HookLive, HookClaim, HookHandle, HookOpen, HookRaises,
              HookForget, HookRecheck, HookErase, Nothing, Call, Goto, StartOn
<1>7. ASSUME NEW c \in Callers, Settle(c) PROVE Calm
  BY <1>7 DEF Settle, Act, SweepExpire, SweepRead, ActClaim, SweepSettle, SweepRecord, Note, CloseRequest,
              WriteNote, CloseOnly, Call, Goto, StartOn
<1>3. ASSUME NEW c \in Callers, CallFails(c) PROVE Calm
  BY <1>3 DEF CallFails, Goto
<1>4. CASE Crash
  BY <1>4 DEF Crash
<1>5. ASSUME NEW q \in Decisions, Decide(q) \/ DecideRecord(q) PROVE Calm
  BY <1>5 DEF Decide, DecideRecord
<1>6. ASSUME NEW k \in Consents, StateExpires(k) PROVE Calm
  BY <1>6 DEF StateExpires
<1> QED BY <1>1, <1>2, <1>3, <1>4, <1>5, <1>6, <1>7 DEF Quiet

LEMMA StepDoor == ASSUME OneDoor PROVE CallersTyped /\ DoorInv /\ [Next]_vars => DoorInv'
<1> SUFFICES ASSUME CallersTyped, DoorInv, [Next]_vars PROVE DoorInv'
  OBVIOUS
<1>1. CASE UNCHANGED vars
  BY <1>1, CalmKeepsDoor DEF Calm, vars
<1> QED BY <1>1, NextIsCommandOrQuiet, CommandKeepsDoor, QuietIsCalm, CalmKeepsDoor

LEMMA InitDoor == Init => DoorInv
  BY DEF Init, DoorInv, StatusAt, DoorCalls, Leaving

\* With one door, the commands exclude each other and find the status they expect.
LEMMA DoorHolds == ASSUME OneDoor PROVE Spec => [](TypeInv /\ DoorInv)
<1>1. TypeInv /\ DoorInv /\ [Next]_vars => (TypeInv /\ DoorInv)'
  BY StepTypes, StepDoor DEF TypeInv
<1> QED BY <1>1, InitTypes, InitDoor, PTL DEF Spec

-------------------------------------------------------------------------------
\* The life of a tenant implements TenancyContract.
LEMMA ClearedAlone ==
  ASSUME NEW p, NEW c \in Callers, \A d \in Callers \ {c} : p[d] \notin DoorCalls
  PROVE  UNION {ClearedAt(p[d]) : d \in Callers} = ClearedAt(p[c])
  BY DEF ClearedAt, DoorCalls

\* A calm step keeps what is cleared, or gives up.
LEMMA CalmGivesUp ==
  ASSUME CallersTyped, DoorInv, Calm
  PROVE  Cleared' \in {Cleared, {}}
<1>1. CASE \E c \in Callers : pc'[c] \in DoorCalls
  <2> PICK c \in Callers : pc'[c] \in DoorCalls
    BY <1>1
  <2>1. pc'[c] = pc[c] /\ Alone(c) /\ Alone(c)'
    BY CalmKeepsDoor DEF Calm, DoorInv, Alone
  <2> QED BY <2>1, ClearedAlone DEF Alone, Cleared
<1>2. CASE \A c \in Callers : pc'[c] \notin DoorCalls
  BY <1>2 DEF Cleared, ClearedAt, DoorCalls
<1> QED BY <1>1, <1>2

LEMMA CommandKeepsContract ==
  ASSUME OneDoor, CallersTyped, DoorInv, NEW c \in Callers, Command(c)
  PROVE  [Contract!Next]_<<status, Cleared>>
<1>1. Cleared = ClearedAt(pc[c]) /\ Cleared' = ClearedAt(pc'[c]) /\ StatusAt(pc[c])
  BY CommandIsAlone, ClearedAlone DEF Alone, Cleared, DoorInv
<1> USE DEF CallersTyped, ClearedAt, StatusAt, Leaving, SetStatus, Nothing, Call, Goto, Start, StartOn
<1>2. CASE CreateRow(c)
  BY <1>1, <1>2 DEF CreateRow, Contract!Next, Contract!Register, Contract!Become
<1>3. CASE SuspendWrite(c) \/ ResumeWrite(c)
  BY <1>1, <1>3 DEF SuspendWrite, ResumeWrite, Contract!Next, Contract!Suspend, Contract!Resume, Contract!Become
<1>4. CASE BeginWrite(c)
  BY <1>1, <1>4 DEF BeginWrite, Live, Contract!Next, Contract!Leave, Contract!Become
<1>5. CASE FinishLedger(c) \/ FinishConfig(c)
  <2>1. \E s \in {"ledger", "config", "audit", "consents"} : Contract!Clear(s)
    BY <1>1, <1>5 DEF FinishLedger, FinishConfig, Contract!Clear
  <2> QED BY <2>1 DEF Contract!Next
<1>6. CASE FinishAudit(c) \/ FinishConsents(c)
  <2>1. \E s \in {"ledger", "config", "audit", "consents"} : Contract!Clear(s)
    BY <1>1, <1>6 DEF FinishAudit, FinishConsents, Contract!Clear
  <2> QED BY <2>1 DEF Contract!Next
<1>7. CASE FinishWrite(c)
  BY <1>1, <1>7 DEF FinishWrite, Contract!Next, Contract!Finish, Contract!Become
<1>8. CASE Create(c) \/ CreateConfig(c) \/ Suspend(c) \/ SuspendExpire(c) \/ Resume(c)
  BY <1>1, <1>8 DEF Create, CreateConfig, Suspend, SuspendExpire, Resume, Expire
<1>9. CASE (\E skip \in BOOLEAN : Begin(c, skip)) \/ BeginRevoke(c) \/ BeginExpire(c)
  BY <1>1, <1>9 DEF Begin, BeginRevoke, BeginExpire, Expire
<1>10. CASE Export(c) \/ Finish(c) \/ FinishRead(c)
  BY <1>1, <1>10 DEF Export, Finish, FinishRead
<1> QED BY <1>2, <1>3, <1>4, <1>5, <1>6, <1>7, <1>8, <1>9, <1>10 DEF Command, Door

\* A tenant is registered once, is declared gone only after every store was cleared in
\* one attempt, and never comes back, whatever calls fail and processes die
\* (tenant_admin.py:40-287).
THEOREM TenancyKeepsContract == ASSUME OneDoor PROVE Spec => KeepsTenancyContract
<1>1. Init => Contract!Init
  BY DEF Init, Contract!Init, Cleared, ClearedAt
<1>2. TypeInv /\ DoorInv /\ [Next]_vars => [Contract!Next]_<<status, Cleared>>
  <2> SUFFICES ASSUME CallersTyped, DoorInv, [Next]_vars PROVE [Contract!Next]_<<status, Cleared>>
    BY DEF TypeInv
  <2>1. ASSUME Calm PROVE [Contract!Next]_<<status, Cleared>>
    BY <2>1, CalmGivesUp DEF Calm, Contract!Next, Contract!GiveUp
  <2>2. CASE UNCHANGED vars
    BY <2>1, <2>2 DEF vars, Calm
  <2> QED BY <2>1, <2>2, NextIsCommandOrQuiet, CommandKeepsContract, QuietIsCalm
<1> QED BY <1>1, <1>2, DoorHolds, PTL DEF Spec, KeepsTenancyContract, Contract!Spec

-------------------------------------------------------------------------------
\* What the erase has removed stays away, but for handlers in flight and late writers.
Past(S) == status = "offboarded" \/ \E c \in Callers : pc[c] \in S

Written == events \cup rows \cup pending

LedgerInv == Past({"finish_config", "finish_audit", "finish_consents", "finish_write"})
               => Written \subseteq InFlight \cup lost
ConfigInv == Past({"finish_audit", "finish_consents", "finish_write"}) /\ config => "config" \in late
NoteInv   == Past({"finish_config", "finish_audit", "finish_consents", "finish_write"})
               => notes \subseteq late
AuditInv  == Past({"finish_consents", "finish_write"}) => decisions \subseteq late
BankInv   == Past({"finish_write"}) => consents \subseteq late
LostInv   == \A c \in Callers : pc[c] = "hook_forget" => job[c] \in lost

GoneInv == LedgerInv /\ NoteInv /\ ConfigInv /\ AuditInv /\ BankInv /\ LostInv

\* A calm step brings no erase further, and an erase in progress means a tenant that is gone.
LEMMA CalmKeepsPast ==
  ASSUME Calm, NEW S \in SUBSET DoorCalls, Past(S)'
  PROVE  Past(S)
  BY DEF Calm, Past

LEMMA PastIsGone ==
  ASSUME DoorInv, NEW S \in SUBSET Leaving, Past(S)
  PROVE  status \in Gone
  BY DEF Past, DoorInv, StatusAt, Gone

LEMMA InFlightIs ==
  ASSUME NEW d
  PROVE  d \in InFlight <=> \E c \in Callers : pc[c] \in Claimed /\ job[c] = d
  BY DEF InFlight, About

LEMMA InFlightWillBe ==
  ASSUME NEW d
  PROVE  d \in InFlight' <=> \E c \in Callers : pc'[c] \in Claimed /\ job'[c] = d
  BY DEF InFlight, About

\* A delivery stays in flight while its handler keeps its place and its job.
LEMMA StaysInFlight ==
  ASSUME \A c \in Callers : pc[c] \in Claimed =>
           (pc'[c] \in Claimed /\ job'[c] = job[c]) \/ job[c] \in lost'
  PROVE  InFlight \subseteq InFlight' \cup lost'
<1> SUFFICES ASSUME NEW d \in InFlight PROVE d \in InFlight' \cup lost'
  OBVIOUS
<1> PICK c \in Callers : pc[c] \in Claimed /\ job[c] = d
  BY InFlightIs
<1> QED BY InFlightWillBe

LEMMA InitGone == Init => GoneInv
  BY DEF Init, GoneInv, LedgerInv, NoteInv, ConfigInv, AuditInv, BankInv, LostInv, Past, Written

\* A command leaves the other callers, and what is known of handlers and late writers, alone.
LEMMA CommandFrame ==
  ASSUME CallersTyped, NEW c \in Callers, Command(c)
  PROVE  /\ pc[c] \in DoorCalls \cup {"idle"} /\ pc'[c] \in DoorCalls \cup {"idle"}
         /\ \A d \in Callers \ {c} : pc'[d] = pc[d] /\ job'[d] = job[d]
         /\ lost' = lost /\ late' = late
         /\ rows' \subseteq rows /\ events' \subseteq events /\ pending' \subseteq pending
         /\ notes' \subseteq notes
<1> USE DEF CallersTyped, DoorCalls, SetStatus, Nothing, Call, Goto, Start, StartOn, ledger, stores, world, taken
<1>1. CASE Create(c) \/ CreateRow(c) \/ CreateConfig(c) \/ Suspend(c) \/ SuspendWrite(c)
  BY <1>1 DEF Create, CreateRow, CreateConfig, Suspend, SuspendWrite
<1>2. CASE SuspendExpire(c) \/ Resume(c) \/ ResumeWrite(c)
  BY <1>2 DEF SuspendExpire, Resume, ResumeWrite, Expire
<1>3. CASE (\E skip \in BOOLEAN : Begin(c, skip)) \/ BeginWrite(c) \/ BeginRevoke(c)
  BY <1>3 DEF Begin, BeginWrite, BeginRevoke
<1>4. CASE BeginExpire(c) \/ Export(c) \/ Finish(c) \/ FinishRead(c)
  BY <1>4 DEF BeginExpire, Expire, Export, Finish, FinishRead
<1>5. CASE FinishLedger(c) \/ FinishConfig(c) \/ FinishAudit(c)
  BY <1>5 DEF FinishLedger, FinishConfig, FinishAudit, EraseTenant
<1>6. CASE FinishConsents(c) \/ FinishWrite(c)
  BY <1>6 DEF FinishConsents, FinishWrite
<1> QED BY <1>1, <1>2, <1>3, <1>4, <1>5, <1>6 DEF Command, Door

LEMMA CommandKeepsGone ==
  ASSUME OneDoor, CallersTyped, DoorInv, GoneInv, NEW c \in Callers, Command(c)
  PROVE  GoneInv'
<1>1. Alone(c) /\ Alone(c)' /\ StatusAt(pc[c]) /\ LostInv
  BY CommandIsAlone DEF DoorInv, GoneInv
<1>2. InFlight \subseteq InFlight' \cup lost'
  BY CommandFrame, StaysInFlight DEF Claimed, DoorCalls
<1>3. LostInv'
  BY <1>1, CommandFrame DEF LostInv, DoorCalls
<1>4. \A S \in SUBSET Leaving : Past(S)' <=> status' = "offboarded" \/ pc'[c] \in S
  BY <1>1 DEF Past, Alone, Leaving, DoorCalls
<1>5. \A S \in SUBSET Leaving : status = "offboarded" \/ pc[c] \in S => Past(S)
  BY DEF Past
<1>6. Written \subseteq InFlight \cup lost => Written' \subseteq InFlight' \cup lost'
  BY <1>2, CommandFrame DEF Written
<1> DEFINE S1 == {"finish_config", "finish_audit", "finish_consents", "finish_write"}
           S2 == {"finish_audit", "finish_consents", "finish_write"}
           S3 == {"finish_consents", "finish_write"}
           S4 == {"finish_write"}
<1>7. /\ S1 \in SUBSET Leaving /\ S2 \in SUBSET Leaving
      /\ S3 \in SUBSET Leaving /\ S4 \in SUBSET Leaving
  BY DEF Leaving
<1>8. /\ Past(S1) => Written \subseteq InFlight \cup lost /\ notes \subseteq late
      /\ Past(S2) /\ config => "config" \in late
      /\ Past(S3) => decisions \subseteq late
      /\ Past(S4) => consents \subseteq late
  BY DEF GoneInv, LedgerInv, NoteInv, ConfigInv, AuditInv, BankInv
<1>9. late' = late /\ notes' \subseteq notes
  BY CommandFrame
\* It is enough to look at the stages; a command gets past one only from the one before.
<1>10. SUFFICES /\ Past(S1)' => Past(S1) \/ (Written' = {} /\ notes' = {})
                /\ Past(S2)' => (Past(S2) /\ config' = config) \/ config' = FALSE
                /\ Past(S3)' => (Past(S3) /\ decisions' = decisions) \/ decisions' = {}
                /\ Past(S4)' => (Past(S4) /\ consents' = consents) \/ consents' = {}
  BY <1>3, <1>6, <1>8, <1>9 DEF GoneInv, LedgerInv, NoteInv, ConfigInv, AuditInv, BankInv
<1>11. CASE ~(FinishLedger(c) \/ FinishConfig(c) \/ FinishAudit(c) \/ FinishConsents(c) \/ FinishWrite(c))
  <2> HIDE DEF S1, S2, S3, S4
  <2>1. /\ (pc'[c] \notin S1 /\ pc'[c] \notin S2) /\ (pc'[c] \notin S3 /\ pc'[c] \notin S4)
        /\ status' = "offboarded" => status = "offboarded"
        /\ status' # "offboarded" \/ config' = config
        /\ decisions' = decisions /\ consents' = consents
    <3> USE DEF S1, S2, S3, S4, CallersTyped, StatusAt, SetStatus, Nothing, Call, Goto, Start, StartOn,
                ledger, stores
    <3>1. CASE Create(c) \/ CreateRow(c) \/ CreateConfig(c)
      BY <1>1, <3>1 DEF Create, CreateRow, CreateConfig
    <3>2. CASE Suspend(c) \/ SuspendWrite(c) \/ SuspendExpire(c) \/ Resume(c) \/ ResumeWrite(c)
      BY <3>2 DEF Suspend, SuspendWrite, SuspendExpire, Resume, ResumeWrite, Expire
    <3>3. CASE (\E skip \in BOOLEAN : Begin(c, skip)) \/ BeginWrite(c) \/ BeginRevoke(c)
      BY <3>3 DEF Begin, BeginWrite, BeginRevoke
    <3>4. CASE BeginExpire(c) \/ Export(c) \/ Finish(c) \/ FinishRead(c)
      BY <3>4 DEF BeginExpire, Expire, Export, Finish, FinishRead
    <3> QED BY <1>11, <3>1, <3>2, <3>3, <3>4 DEF Command, Door
  <2> QED BY <1>4, <1>5, <1>7, <2>1
<1>12. CASE FinishLedger(c)
  <2>1. pc'[c] = "finish_config" /\ status' # "offboarded" /\ Written' = {} /\ notes' = {}
    BY <1>1, <1>12 DEF FinishLedger, EraseTenant, Written, CallersTyped, Call, Goto, StatusAt, Leaving
  <2> QED BY <1>4, <1>7, <2>1
<1>13. CASE FinishConfig(c)
  <2>1. /\ pc[c] = "finish_config" /\ pc'[c] = "finish_audit" /\ status' # "offboarded"
        /\ config' = FALSE
    BY <1>1, <1>13 DEF FinishConfig, CallersTyped, Call, Goto, StatusAt, Leaving
  <2> QED BY <1>4, <1>5, <1>7, <2>1
<1>14. CASE FinishAudit(c)
  <2>1. /\ pc[c] = "finish_audit" /\ pc'[c] = "finish_consents" /\ status' # "offboarded"
        /\ decisions' = {} /\ config' = config
    BY <1>1, <1>14 DEF FinishAudit, CallersTyped, Call, Goto, StatusAt, Leaving
  <2> QED BY <1>4, <1>5, <1>7, <2>1
<1>15. CASE FinishConsents(c)
  <2>1. /\ pc[c] = "finish_consents" /\ pc'[c] = "finish_write" /\ status' # "offboarded"
        /\ consents' = {} /\ decisions' = decisions /\ config' = config
    BY <1>1, <1>15 DEF FinishConsents, CallersTyped, Call, Goto, StatusAt, Leaving
  <2> QED BY <1>4, <1>5, <1>7, <2>1
<1>16. CASE FinishWrite(c)
  <2>1. /\ pc[c] = "finish_write"
        /\ consents' = consents /\ decisions' = decisions /\ config' = config
    BY <1>16 DEF FinishWrite, SetStatus, stores, Call
  <2> QED BY <1>5, <1>7, <2>1
<1> QED BY <1>11, <1>12, <1>13, <1>14, <1>15, <1>16

-------------------------------------------------------------------------------
\* The rest of the service writes for a tenant that is gone only where it is accounted for.
Accounted ==
  /\ lost \subseteq lost' /\ late \subseteq late' /\ LostInv'
  /\ \/ Written' = {}
     \/ status \notin Gone
     \/ /\ InFlight \subseteq InFlight' \cup lost'
        /\ Written' \subseteq Written \cup InFlight'
  /\ status \notin Gone \/ notes' \subseteq notes \cup late'
  /\ status \notin Gone \/ (config' => config \/ "config" \in late')
  /\ status \notin Gone \/ (decisions' \subseteq decisions \cup late' /\ consents' \subseteq consents \cup late')

\* A caller outside the handlers is of no interest to what is in flight.
LEMMA OtherIsAccounted ==
  ASSUME CallersTyped, LostInv, NEW c \in Callers,
         \A d \in Callers \ {c} : pc'[d] = pc[d] /\ job'[d] = job[d],
         pc[c] \notin Claimed, pc'[c] \notin Claimed, lost' = lost
  PROVE  InFlight \subseteq InFlight' \cup lost' /\ LostInv'
<1>1. InFlight \subseteq InFlight' \cup lost'
  BY StaysInFlight
<1>2. LostInv'
  BY DEF LostInv, Claimed
<1> QED BY <1>1, <1>2

LEMMA ManageIsAccounted ==
  ASSUME TypeInv, LostInv, NEW c \in Callers, ThreadExport(c) \/ Manage(c) \/ Serve(c)
  PROVE  Accounted
<1> USE DEF Call, Goto, Start, StartOn, Nothing, ledger, stores, taken, world
<1>1. /\ \A d \in Callers \ {c} : pc'[d] = pc[d] /\ job'[d] = job[d]
      /\ pc[c] \notin Claimed /\ pc'[c] \notin Claimed /\ lost' = lost
  BY DEF ThreadExport, Export, Manage, Serve, RequireLive, SaveConfig, GrantInsert, Revoke, ConsentPut,
         ConsentStart, ConsentCallback, Claimed, TypeInv, CallersTyped
<1>2. Written' = Written /\ notes' = notes
  BY DEF ThreadExport, Export, Manage, Serve, RequireLive, SaveConfig, GrantInsert, Revoke, ConsentPut,
         ConsentStart, ConsentCallback, Written
<1>3. /\ late \subseteq late'
      /\ status \in Gone => (config' => config \/ "config" \in late')
      /\ status \in Gone => decisions' = decisions /\ consents' \subseteq consents \cup late'
  BY DEF ThreadExport, Export, Manage, Serve, RequireLive, SaveConfig, GrantInsert, Revoke, ConsentPut,
         ConsentStart, ConsentCallback, Late
<1> QED BY <1>1, <1>2, <1>3, OtherIsAccounted DEF Accounted, TypeInv

LEMMA HookIsAccounted ==
  ASSUME TypeInv, LostInv, NEW c \in Callers, Hook(c)
  PROVE  Accounted
<1> USE DEF Call, Nothing, ledger, stores, taken, world
<1>1. /\ \A d \in Callers \ {c} : pc'[d] = pc[d] /\ job'[d] = job[d]
      /\ late' = late /\ config' = config /\ decisions' = decisions /\ consents' = consents
      /\ notes' \subseteq notes
  BY DEF EraseTenant, Hook, HookStep, HookStart, HookConfig, HookLive, HookClaim, HookHandle, HookOpen, HookRaises,
         HookForget, HookRecheck, HookErase, Goto, StartOn, TypeInv, CallersTyped
<1>2. CASE (\E d \in Deliveries : HookStart(c, d)) \/ HookConfig(c) \/ HookLive(c)
  <2>1. pc[c] \notin Claimed /\ pc'[c] \notin Claimed /\ lost' = lost /\ Written' = Written
    BY <1>2 DEF HookStart, HookConfig, HookLive, Goto, StartOn, Claimed, TypeInv, CallersTyped, Written
  <2> QED BY <1>1, <2>1, OtherIsAccounted DEF Accounted, TypeInv
<1>3. CASE HookClaim(c) \/ HookHandle(c) \/ HookOpen(c)
  <2> USE DEF HookClaim, HookHandle, HookOpen, Goto, TypeInv, CallersTyped
  <2>1. /\ pc'[c] # "hook_forget" /\ lost' = lost
        /\ pc[c] \in Claimed => pc'[c] \in Claimed /\ job'[c] = job[c]
    BY <1>3 DEF Claimed
  <2>2. InFlight \subseteq InFlight' \cup lost'
    BY <1>1, <2>1, StaysInFlight
  <2>3. Written' \subseteq Written \/ (pc'[c] \in Claimed /\ Written' \subseteq Written \cup {job'[c]})
    BY <1>3 DEF Claimed, Written
  <2>4. Written' \subseteq Written \cup InFlight'
    BY <2>3, InFlightWillBe
  <2>5. LostInv'
    BY <1>1, <2>1 DEF LostInv
  <2> QED BY <1>1, <2>1, <2>2, <2>4, <2>5 DEF Accounted
<1>4. CASE HookRaises(c)
  <2>1. /\ pc'[c] = "hook_forget" /\ job'[c] = job[c] /\ lost' = lost \cup {job[c]} /\ Written' = Written
    BY <1>4 DEF HookRaises, Goto, TypeInv, CallersTyped, Written
  <2>2. InFlight \subseteq InFlight' \cup lost'
    BY <1>1, <2>1, StaysInFlight
  <2>3. LostInv'
    BY <1>1, <2>1 DEF LostInv
  <2> QED BY <1>1, <2>1, <2>2, <2>3 DEF Accounted
<1>5. CASE HookForget(c)
  <2>1. pc[c] = "hook_forget" /\ pc'[c] = "idle" /\ lost' = lost /\ Written' \subseteq Written
    BY <1>5 DEF HookForget, Goto, TypeInv, CallersTyped, Written
  <2>2. InFlight \subseteq InFlight' \cup lost'
    BY <1>1, <2>1, StaysInFlight DEF LostInv
  <2>3. LostInv'
    BY <1>1, <2>1 DEF LostInv
  <2> QED BY <1>1, <2>1, <2>2, <2>3 DEF Accounted
<1>6. CASE HookRecheck(c)
  <2>1. /\ pc[c] = "hook_recheck" /\ lost' = lost /\ Written' = Written
        /\ status \in Live \/ (pc'[c] = "hook_erase" /\ job'[c] = job[c])
        /\ pc'[c] # "hook_forget"
    BY <1>6 DEF HookRecheck, Goto, TypeInv, CallersTyped, Written
  <2>2. status \in Live \/ InFlight \subseteq InFlight' \cup lost'
    BY <1>1, <2>1, StaysInFlight DEF Claimed
  <2>3. LostInv'
    BY <1>1, <2>1 DEF LostInv
  <2>4. status \in Live => status \notin Gone
    BY DEF Live, Gone
  <2> QED BY <1>1, <2>1, <2>2, <2>3, <2>4 DEF Accounted
<1>7. CASE HookErase(c)
  <2>1. pc'[c] = "idle" /\ lost' = lost /\ Written' = {}
    BY <1>7 DEF HookErase, EraseTenant, Goto, TypeInv, CallersTyped, Written
  <2>2. LostInv'
    BY <1>1, <2>1 DEF LostInv
  <2> QED BY <1>1, <2>1, <2>2 DEF Accounted
<1> QED BY <1>2, <1>3, <1>4, <1>5, <1>6, <1>7 DEF Hook, HookStep

LEMMA SettleIsAccounted ==
  ASSUME TypeInv, LostInv, NEW c \in Callers, Settle(c)
  PROVE  Accounted
<1> USE DEF Call, Goto, StartOn, CloseOnly, Closes, WriteNote, ledger, stores, taken, world
<1>1. /\ \A d \in Callers \ {c} : pc'[d] = pc[d] /\ job'[d] = job[d]
      /\ pc[c] \notin Claimed /\ pc'[c] \notin Claimed /\ lost' = lost
  BY DEF Settle, Act, SweepExpire, SweepRead, ActClaim, SweepSettle, SweepRecord, Note, CloseRequest,
         Claimed, TypeInv, CallersTyped
<1>2. Written' \subseteq Written
  BY DEF Settle, Act, SweepExpire, SweepRead, ActClaim, SweepSettle, SweepRecord, Note, CloseRequest, Written
<1>3. /\ late \subseteq late' /\ config' = config /\ decisions' = decisions /\ consents' = consents
      /\ status \in Gone => notes' \subseteq notes \cup late'
  BY DEF Settle, Act, SweepExpire, SweepRead, ActClaim, SweepSettle, SweepRecord, Note, CloseRequest, Late
<1> QED BY <1>1, <1>2, <1>3, OtherIsAccounted DEF Accounted, TypeInv

LEMMA QuietIsAccounted ==
  ASSUME TypeInv, LostInv, Quiet
  PROVE  Accounted
<1> USE DEF ledger, stores, taken, world
<1>1. ASSUME NEW c \in Callers, CallFails(c) PROVE Accounted
  <2>1. /\ \A d \in Callers \ {c} : pc'[d] = pc[d] /\ job'[d] = job[d]
        /\ pc'[c] = "idle" /\ lost' = IF pc[c] \in Claimed THEN lost \cup {job[c]} ELSE lost
        /\ Written' = Written /\ notes' = notes
    BY <1>1 DEF CallFails, Goto, TypeInv, CallersTyped, Written
  <2>2. InFlight \subseteq InFlight' \cup lost'
    BY <2>1, StaysInFlight
  <2>3. LostInv'
    BY <2>1 DEF LostInv
  <2> QED BY <1>1, <2>1, <2>2, <2>3 DEF Accounted, CallFails
<1>2. CASE Crash
  <2>1. LostInv'
    BY <1>2 DEF Crash, LostInv
  <2> QED BY <1>2, <2>1 DEF Accounted, Crash, Written
<1>3. ASSUME NEW q \in Decisions, Decide(q) \/ DecideRecord(q) PROVE Accounted
  <2>1. pc' = pc /\ job' = job /\ lost' = lost /\ Written' = Written
    BY <1>3 DEF Decide, DecideRecord, Written
  <2>2. InFlight \subseteq InFlight' \cup lost' /\ LostInv'
    BY <2>1, StaysInFlight DEF LostInv
  <2> QED BY <1>3, <2>1, <2>2 DEF Accounted, Decide, DecideRecord, Late
<1>4. ASSUME NEW k \in Consents, StateExpires(k) PROVE Accounted
  <2>1. pc' = pc /\ job' = job /\ lost' = lost /\ Written' = Written
    BY <1>4 DEF StateExpires, Written
  <2>2. InFlight \subseteq InFlight' \cup lost' /\ LostInv'
    BY <2>1, StaysInFlight DEF LostInv
  <2> QED BY <1>4, <2>1, <2>2 DEF Accounted, StateExpires
<1> QED BY <1>1, <1>2, <1>3, <1>4, ManageIsAccounted, HookIsAccounted, SettleIsAccounted
  DEF Quiet

LEMMA StepGone == ASSUME OneDoor PROVE TypeInv /\ DoorInv /\ GoneInv /\ [Next]_vars => GoneInv'
<1> SUFFICES ASSUME TypeInv, DoorInv, GoneInv, [Next]_vars PROVE GoneInv'
  OBVIOUS
<1>1. CASE UNCHANGED vars
  BY <1>1 DEF vars, ledger, stores, world, taken, GoneInv, LedgerInv, NoteInv, ConfigInv, AuditInv, BankInv, LostInv,
              Past, Written, InFlight, About
<1>2. CASE Quiet
  <2>1. Accounted /\ Calm
    BY <1>2, QuietIsAccounted, QuietIsCalm DEF GoneInv, TypeInv
  <2>2. ASSUME NEW S \in SUBSET Leaving, Past(S)' PROVE Past(S) /\ status \in Gone
    BY <2>1, <2>2, CalmKeepsPast, PastIsGone DEF Leaving, DoorCalls
  <2>3. LedgerInv'
    BY <2>1, <2>2 DEF GoneInv, LedgerInv, Accounted, Leaving
  <2>5. NoteInv'
    BY <2>1, <2>2 DEF GoneInv, NoteInv, Accounted, Leaving
  <2>4. ConfigInv' /\ AuditInv' /\ BankInv'
    BY <2>1, <2>2 DEF GoneInv, ConfigInv, AuditInv, BankInv, Accounted, Leaving
  <2> QED BY <2>1, <2>3, <2>4, <2>5 DEF GoneInv, Accounted
<1> QED BY <1>1, <1>2, NextIsCommandOrQuiet, CommandKeepsGone DEF TypeInv

LEMMA GoneHolds == ASSUME OneDoor PROVE Spec => []GoneInv
<1>1. TypeInv /\ DoorInv /\ GoneInv /\ [Next]_vars => GoneInv'
  BY StepGone
<1> QED BY <1>1, InitGone, DoorHolds, PTL DEF Spec

\* After the erase is declared complete, what is left of a tenant is the work of a
\* webhook in flight, or of one that raised or died, or was written late: the message row
\* of an approval being decided or swept, a decision, a consent, a configuration
\* (tenant_admin.py:201-231, api.py:1759-1775, approval.py:356-434).
THEOREM ErasedForGood == ASSUME OneDoor PROVE Spec => []FinishErasesAll
<1>1. GoneInv => FinishErasesAll
  BY DEF GoneInv, LedgerInv, NoteInv, ConfigInv, AuditInv, BankInv, Past, Written, FinishErasesAll
<1> QED BY <1>1, GoneHolds, PTL

\* What the finish reports, that nothing of the tenant is left, is true whenever no
\* delivery is in flight, none was lost and no store was written late: those three are
\* all that stands behind tenant_erased (tenant_admin.py:201-231).
THEOREM NothingOutlivesTheQuiet ==
  ASSUME OneDoor
  PROVE  Spec => [](InFlight \cup lost \cup late = {} => NothingOutlives)
<1>1. FinishErasesAll => (InFlight \cup lost \cup late = {} => NothingOutlives)
  BY DEF FinishErasesAll, NothingOutlives
<1> QED BY <1>1, ErasedForGood, PTL

-------------------------------------------------------------------------------
\* What an export taken out of service can miss.
Due == notes \cup Coming \cup Unsettled

ExportInv ==
  exported => /\ status \in Gone
              /\ status = "offboarding" => rows \cup Coming \subseteq kept /\ Due \subseteq heard

LEMMA ComingShrinks ==
  ASSUME \A c \in Callers : pc'[c] \in Claimed \cup {"hook_claim"} =>
           pc[c] \in Claimed \cup {"hook_claim"} /\ job'[c] = job[c]
  PROVE  Coming' \subseteq Coming
  BY DEF Coming, About, Claimed

\* A request is at work only from the start of a decision or a sweep that has read it.
LEMMA DueShrinks ==
  ASSUME Coming' \subseteq Coming, notes' \subseteq notes,
         pending' \subseteq pending \cup Coming,
         \A c \in Callers : pc'[c] \in SettleCalls => pc[c] \in SettleCalls /\ job'[c] = job[c]
  PROVE  Due' \subseteq Due
  BY DEF Due, Unsettled, About

LEMMA CommandKeepsExport ==
  ASSUME OneDoor, CallersTyped, DoorInv, ExportInv, NEW c \in Callers, Command(c)
  PROVE  ExportInv'
<1>1. Coming' \subseteq Coming
  BY CommandFrame, ComingShrinks DEF Claimed, DoorCalls
<1>4. Due' \subseteq Due
  BY <1>1, CommandFrame, DueShrinks DEF SettleCalls, DoorCalls
<1>2. CASE Export(c)
  BY <1>1, <1>2, <1>4 DEF Export, ExportInv, ledger, Gone, Kept, Due
<1>3. CASE ~Export(c)
  <2>1. exported' = exported /\ kept' = kept /\ heard' = heard
    BY <1>3 DEF Command, Door, Create, CreateRow, CreateConfig, Suspend, SuspendWrite, SuspendExpire, Resume,
       ResumeWrite, Begin, BeginWrite, BeginRevoke, BeginExpire, Finish, FinishRead, FinishLedger, FinishConfig,
       FinishAudit, FinishConsents, FinishWrite, Expire, SetStatus, Nothing, world, taken
  <2>2. StatusAt(pc[c])
    BY DEF DoorInv
  <2>3. status \in Gone => status' \in Gone /\ (status' = "offboarding" => status = "offboarding")
    <3> USE DEF StatusAt, Leaving, SetStatus, Nothing, Call, Live, Gone
    <3>1. CASE Create(c) \/ CreateRow(c) \/ CreateConfig(c) \/ Suspend(c) \/ SuspendWrite(c) \/ SuspendExpire(c)
      BY <2>2, <3>1 DEF Create, CreateRow, CreateConfig, Suspend, SuspendWrite, SuspendExpire, Expire
    <3>2. CASE Resume(c) \/ ResumeWrite(c) \/ (\E skip \in BOOLEAN : Begin(c, skip)) \/ BeginWrite(c)
      BY <2>2, <3>2 DEF Resume, ResumeWrite, Begin, BeginWrite
    <3>3. CASE BeginRevoke(c) \/ BeginExpire(c) \/ Finish(c) \/ FinishRead(c) \/ FinishLedger(c)
      BY <3>3 DEF BeginRevoke, BeginExpire, Expire, Finish, FinishRead, FinishLedger
    <3>4. CASE FinishConfig(c) \/ FinishAudit(c) \/ FinishConsents(c) \/ FinishWrite(c)
      BY <3>4 DEF FinishConfig, FinishAudit, FinishConsents, FinishWrite
    <3> QED BY <1>3, <3>1, <3>2, <3>3, <3>4 DEF Command, Door
  <2> QED BY <1>1, <1>4, <2>1, <2>3, CommandFrame DEF ExportInv
<1> QED BY <1>2, <1>3

LEMMA QuietKeepsExport ==
  ASSUME CallersTyped, ExportInv, Quiet
  PROVE  ExportInv'
<1> DEFINE Grows == rows' \cup Coming' \subseteq rows \cup Coming /\ Due' \subseteq Due
<1> USE DEF CallersTyped, Call, Goto, Start, StartOn, Nothing, ledger, stores, taken, world
<1>1. ASSUME NEW c \in Callers, ThreadExport(c) PROVE ExportInv'
  <2>1. Coming' \subseteq Coming
    BY <1>1, ComingShrinks DEF ThreadExport, Claimed
  <2>2. Due' \subseteq Due
    BY <1>1, <2>1, DueShrinks DEF ThreadExport, Export, SettleCalls
  <2> QED BY <1>1, <2>1, <2>2 DEF ThreadExport, Export, ExportInv, Gone, Kept, Due
<1>2. SUFFICES ASSUME exported' = exported, kept' = kept, heard' = heard, status' = status
               PROVE  status \in Gone => Grows
  <2>1. CASE \E c \in Callers : ThreadExport(c)
    BY <1>1, <2>1
  <2>2. CASE ~\E c \in Callers : ThreadExport(c)
    <3>1. exported' = exported /\ kept' = kept /\ heard' = heard
      <4>1. ASSUME NEW c \in Callers, Manage(c) \/ Serve(c) \/ CallFails(c)
            PROVE  exported' = exported /\ kept' = kept /\ heard' = heard
        BY <4>1 DEF Manage, RequireLive, SaveConfig, GrantInsert, Revoke, Serve, ConsentPut, ConsentStart,
           ConsentCallback, CallFails
      <4>2. ASSUME NEW c \in Callers, Hook(c) PROVE exported' = exported /\ kept' = kept /\ heard' = heard
        BY <4>2 DEF Hook, HookStep, HookStart, HookConfig, HookLive, HookClaim, HookHandle, HookOpen,
           HookRaises, HookForget, HookRecheck, HookErase
      <4>4. ASSUME NEW c \in Callers, Settle(c)
            PROVE  exported' = exported /\ kept' = kept /\ heard' = heard
        BY <4>4 DEF Settle, Act, SweepExpire, SweepRead, ActClaim, SweepSettle, SweepRecord, Note, CloseRequest,
           CloseOnly, WriteNote
      <4>3. CASE Crash \/ (\E q \in Decisions : Decide(q) \/ DecideRecord(q)) \/ \E k \in Consents : StateExpires(k)
        BY <4>3 DEF Crash, Decide, DecideRecord, StateExpires
      <4> QED BY <2>2, <4>1, <4>2, <4>3, <4>4 DEF Quiet
    <3>2. status' = status
      BY QuietIsCalm DEF Calm
    <3> QED BY <3>1, <3>2 DEF ExportInv
  <2> QED BY <2>1, <2>2
<1>3. ASSUME NEW c \in Callers, Manage(c) \/ Serve(c) \/ CallFails(c) PROVE Grows
  <2>1. rows' = rows /\ notes' = notes /\ pending' = pending
    BY <1>3 DEF Manage, RequireLive, SaveConfig, GrantInsert, Revoke, Serve, ConsentPut, ConsentStart,
       ConsentCallback, CallFails
  <2>2. Coming' \subseteq Coming
    BY <1>3, ComingShrinks DEF Manage, RequireLive, SaveConfig, GrantInsert, Revoke, Serve, ConsentPut,
       ConsentStart, ConsentCallback, CallFails, Claimed
  <2>3. Due' \subseteq Due
    BY <1>3, <2>1, <2>2, DueShrinks DEF Manage, RequireLive, SaveConfig, GrantInsert, Revoke, Serve,
       ConsentPut, ConsentStart, ConsentCallback, CallFails, SettleCalls
  <2> QED BY <2>1, <2>2, <2>3
<1>4. ASSUME NEW c \in Callers, Hook(c), status \in Gone PROVE Grows
  <2>1. Coming' \subseteq Coming
    <3>1. CASE (\E d \in Deliveries : HookStart(c, d)) \/ HookConfig(c) \/ HookLive(c)
      BY <1>4, <3>1, ComingShrinks DEF HookStart, HookConfig, HookLive, Claimed, Live, Gone
    <3>2. CASE HookClaim(c) \/ HookHandle(c) \/ HookOpen(c) \/ HookRaises(c)
      BY <3>2, ComingShrinks DEF HookClaim, HookHandle, HookOpen, HookRaises, Claimed
    <3>3. CASE HookForget(c) \/ HookRecheck(c) \/ HookErase(c)
      BY <3>3, ComingShrinks DEF HookForget, HookRecheck, HookErase, Claimed
    <3> QED BY <1>4, <3>1, <3>2, <3>3 DEF Hook, HookStep
  <2>2. pc[c] \in Claimed => job[c] \in Coming
    BY DEF Coming, About
  <2>3. /\ rows' \subseteq rows \cup Coming /\ notes' \subseteq notes
        /\ pending' \subseteq pending \cup Coming
    BY <1>4, <2>2 DEF Hook, HookStep, HookStart, HookConfig, HookLive, HookClaim, HookHandle, HookOpen,
       HookRaises, HookForget, HookRecheck, HookErase, EraseTenant, Claimed
  <2>4. \A d \in Callers : pc'[d] \in SettleCalls => pc[d] \in SettleCalls /\ job'[d] = job[d]
    BY <1>4 DEF Hook, HookStep, HookStart, HookConfig, HookLive, HookClaim, HookHandle, HookOpen,
       HookRaises, HookForget, HookRecheck, HookErase, SettleCalls
  <2> QED BY <2>1, <2>3, <2>4, DueShrinks
<1>5. ASSUME Crash PROVE Grows
  <2>1. Coming' \subseteq Coming
    BY <1>5, ComingShrinks DEF Crash, Claimed
  <2> QED BY <1>5, <2>1, DueShrinks DEF Crash, SettleCalls
<1>6. ASSUME NEW q \in Decisions, Decide(q) \/ DecideRecord(q) PROVE Grows
  <2>1. Coming' \subseteq Coming
    BY <1>6, ComingShrinks DEF Decide, DecideRecord
  <2> QED BY <1>6, <2>1, DueShrinks DEF Decide, DecideRecord
<1>7. ASSUME NEW k \in Consents, StateExpires(k) PROVE Grows
  <2>1. Coming' \subseteq Coming
    BY <1>7, ComingShrinks DEF StateExpires
  <2> QED BY <1>7, <2>1, DueShrinks DEF StateExpires
<1>8. ASSUME NEW c \in Callers, ThreadExport(c) PROVE Grows
  <2>1. Coming' \subseteq Coming
    BY <1>8, ComingShrinks DEF ThreadExport, Export, Claimed
  <2> QED BY <1>8, <2>1, DueShrinks DEF ThreadExport, Export, SettleCalls
<1>9. ASSUME NEW c \in Callers, Settle(c) PROVE Grows
  <2> USE DEF CloseOnly, Closes, WriteNote
  <2>1. Coming' \subseteq Coming
    BY <1>9, ComingShrinks DEF Settle, Act, SweepExpire, SweepRead, ActClaim, SweepSettle, SweepRecord, Note,
       CloseRequest, Claimed
  <2>2. rows' = rows /\ pending' \subseteq pending
    BY <1>9 DEF Settle, Act, SweepExpire, SweepRead, ActClaim, SweepSettle, SweepRecord, Note, CloseRequest
  <2>3. pc[c] \in SettleCalls => job[c] \in Unsettled
    BY DEF Unsettled, About
  <2>4. notes' \subseteq notes \cup Unsettled
    BY <1>9, <2>3 DEF Settle, Act, SweepExpire, SweepRead, ActClaim, SweepSettle, SweepRecord, Note, CloseRequest,
       SettleCalls
  <2>5. ASSUME NEW d \in Callers, pc'[d] \in SettleCalls PROVE job'[d] \in Unsettled
    <3>1. CASE pc[d] \in SettleCalls /\ job'[d] = job[d]
      BY <3>1 DEF Unsettled, About
    <3>2. CASE ~(pc[d] \in SettleCalls /\ job'[d] = job[d])
      <4>1. job'[d] \in pending
        BY <1>9, <2>5, <3>2 DEF Settle, Act, SweepExpire, SweepRead, ActClaim, SweepSettle, SweepRecord, Note,
           CloseRequest, SettleCalls
      <4> QED BY <4>1 DEF Unsettled
    <3> QED BY <3>1, <3>2
  <2> QED BY <2>1, <2>2, <2>4, <2>5 DEF Due, Unsettled, About
<1> QED BY <1>3, <1>4, <1>5, <1>6, <1>7, <1>8, <1>9 DEF Quiet

LEMMA StepExport ==
  ASSUME OneDoor PROVE TypeInv /\ DoorInv /\ ExportInv /\ [Next]_vars => ExportInv'
<1> SUFFICES ASSUME TypeInv, DoorInv, ExportInv, [Next]_vars PROVE ExportInv'
  OBVIOUS
<1>1. CallersTyped
  BY DEF TypeInv
<1>2. CASE UNCHANGED vars
  BY <1>2 DEF vars, ledger, world, taken, ExportInv, Due, Coming, Unsettled, About
<1>3. CASE Quiet
  BY <1>1, <1>3, QuietKeepsExport
<1>4. ASSUME NEW c \in Callers, Command(c) PROVE ExportInv'
  BY <1>1, <1>4, CommandKeepsExport
<1> QED BY <1>2, <1>3, <1>4, NextIsCommandOrQuiet

\* What the erase deletes and the operator's export misses is what a delivery let in
\* before the export wrote after it, and the message row of an approval that was open or
\* being closed when it was taken: the ledger can still change (tenant_admin.py:179-198).
THEOREM ExportIsTheOffboarding == ASSUME OneDoor PROVE Spec => []ExportMissesOnlyInFlight
<1>1. Init => ExportInv
  BY DEF Init, ExportInv
<1>2. TypeInv /\ DoorInv /\ ExportInv /\ [Next]_vars => ExportInv'
  BY StepExport
<1>3. ExportInv => ExportMissesOnlyInFlight
  BY DEF ExportInv, ExportMissesOnlyInFlight, Due
<1> QED BY <1>1, <1>2, <1>3, DoorHolds, PTL DEF Spec

-------------------------------------------------------------------------------
(* Erasure, for any shells, people, invoices, ages and bounds.                *)

Steps == {"prompt", "ids", "delete", "markers", "write"}

Erasing(p) == shell[p].at = "delete" /\ ~shell[p].purge
Purging(p) == shell[p].at = "delete" /\ shell[p].purge

\* What a script knows at its step.
ShellInv ==
  /\ DOMAIN shell = Shells
  /\ \A p \in Shells :
       /\ shell[p].at \in Steps
       /\ shell[p].at = "delete" =>
            /\ shell[p].purge \in BOOLEAN
            /\ DOMAIN shell[p] = {"at", "purge", "bills", "news"}
                 \cup (IF shell[p].purge THEN {} ELSE {"id", "ids", "people"})
            /\ shell[p].bills \subseteq AllBills

RowInv ==
  /\ DOMAIN held = AllBills /\ children \subseteq AllBills
  /\ handling = NotHandling \/ handling.at \in {"recorded", "messaged"}
  /\ handling # NotHandling =>
       /\ handling.bill \in AllBills
       /\ DOMAIN handling = {"at", "bill"}

\* An erasure at work deletes every invoice of its id but those that are news to it.
ErasedInv ==
  /\ ErasedIsGone
  /\ \A p \in Shells : Erasing(p) =>
       \A i \in AllBills : shell[p].id \in held[i].ids => i \in shell[p].bills \cup shell[p].news

\* A handler whose row is gone was cut off.
OrphanInv ==
  /\ OrphansAreCut
  /\ handling # NotHandling /\ held[handling.bill] = NoRow => handling.bill \in cutOff

\* A purge at work deletes no open row but those that are news to it.
PurgeInv ==
  /\ lostOpen = {}
  /\ \A p \in Shells : Purging(p) =>
       \A i \in AllBills : i \in shell[p].bills \ shell[p].news => held[i].state # "open"

\* The ids a request has not erased yet.
ToErase(p) ==
  CASE shell[p].at = "ids" -> shell[p].ids
    [] Erasing(p)          -> shell[p].ids \cup {shell[p].id}
    [] OTHER               -> {}

\* One script at a time rewrites the roster, over what it read; whoever a request takes out
\* of it is erased by then.
RosterInv ==
  ~overlapped =>
    /\ \A p, q \in Shells : shell[p].at = "write" /\ shell[q].at = "write" => p = q
    /\ roster = Torn => \A p \in Shells : shell[p].at # "write"
    /\ roster # Torn =>
         /\ \A u \in Persons \ roster : Local(u) \in erasedIds
         /\ roster \cap redacted = {}
         /\ \A p \in Shells :
              /\ shell[p].at = "ids" \/ Erasing(p) =>
                   \A u \in shell[p].people \cap roster : Local(u) \in ToErase(p) \cup erasedIds
              /\ shell[p].at = "write" =>
                   /\ shell[p].kept = roster \ shell[p].people
                   /\ \A u \in shell[p].people : Local(u) \in erasedIds

IInv == ShellInv /\ RowInv /\ ErasedInv /\ OrphanInv /\ PurgeInv /\ RosterInv

LEMMA InitErasure == GDInit => IInv
<1> SUFFICES ASSUME GDInit PROVE IInv
  OBVIOUS
<1> USE DEF GDInit
<1>1. DOMAIN shell = Shells /\ \A p \in Shells : shell[p] = Prompt /\ shell[p].at = "prompt"
  BY DEF Prompt
<1>2. ShellInv
  BY <1>1 DEF ShellInv, Steps
<1>3. DOMAIN held = AllBills
  OBVIOUS
<1>4. RowInv /\ OrphanInv
  BY <1>3 DEF RowInv, OrphanInv, OrphansAreCut
<1>5. ErasedInv /\ PurgeInv /\ RosterInv
  BY <1>1 DEF ErasedInv, PurgeInv, RosterInv, ErasedIsGone, Erasing, Purging
<1> QED BY <1>2, <1>4, <1>5 DEF IInv

-------------------------------------------------------------------------------
\* The server writes about invoice i.
LEMMA NewsTold ==
  ASSUME ShellInv, NEW i, News(i)
  PROVE  /\ ShellInv'
         /\ \A p \in Shells :
              /\ shell'[p].at = shell[p].at /\ Erasing(p)' = Erasing(p) /\ Purging(p)' = Purging(p)
              /\ shell[p].at # "delete" => shell'[p] = shell[p]
              /\ shell[p].at = "delete" =>
                   shell'[p].bills = shell[p].bills /\ shell'[p].news = shell[p].news \cup {i}
              /\ Erasing(p) => /\ shell'[p].id = shell[p].id /\ shell'[p].ids = shell[p].ids
                               /\ shell'[p].people = shell[p].people
<1>1. DOMAIN shell' = Shells
  BY DEF News
<1>2. ASSUME NEW p \in Shells, shell[p].at # "delete" PROVE shell'[p] = shell[p]
  BY <1>2 DEF News
<1>3. ASSUME NEW p \in Shells, shell[p].at = "delete"
      PROVE  /\ shell'[p] = [shell[p] EXCEPT !.news = @ \cup {i}]
             /\ DOMAIN shell'[p] = DOMAIN shell[p]
             /\ \A f \in DOMAIN shell[p] \ {"news"} : shell'[p][f] = shell[p][f]
             /\ shell'[p].news = shell[p].news \cup {i}
  <2>1. shell'[p] = [shell[p] EXCEPT !.news = @ \cup {i}]
    BY <1>3 DEF News
  <2>2. "news" \in DOMAIN shell[p]
    BY <1>3 DEF ShellInv
  <2> QED BY <2>1, <2>2
<1>4. ASSUME NEW p \in Shells, shell[p].at = "delete"
      PROVE  /\ shell'[p].at = "delete" /\ shell'[p].purge = shell[p].purge
             /\ shell'[p].bills = shell[p].bills
             /\ ~shell[p].purge => /\ shell'[p].id = shell[p].id /\ shell'[p].ids = shell[p].ids
                                   /\ shell'[p].people = shell[p].people
  BY <1>3, <1>4 DEF ShellInv
<1>5. ShellInv'
  BY <1>1, <1>2, <1>3, <1>4 DEF ShellInv
<1> QED BY <1>2, <1>3, <1>4, <1>5 DEF Erasing, Purging

\* It touches no row but i's, keeps the ids of a row that it closes, and makes none disappear.
LEMMA NewsKeeps ==
  ASSUME IInv, NEW i \in AllBills, News(i), RowInv',
         \A j \in AllBills \ {i} : held'[j] = held[j]
  PROVE  ShellInv' /\ ErasedInv' /\ PurgeInv' /\ RosterInv'
<1>1. /\ rewritten' = rewritten \cup {i} /\ roster' = roster /\ erasedIds' = erasedIds
      /\ redacted' = redacted /\ lostOpen' = lostOpen /\ overlapped' = overlapped
  BY DEF News
<1>2. ErasedInv'
  <2>1. ErasedIsGone'
    BY <1>1 DEF IInv, ErasedInv, ErasedIsGone
  <2> SUFFICES ASSUME NEW p \in Shells, Erasing(p)', NEW j \in AllBills, shell'[p].id \in held'[j].ids
               PROVE  j \in shell'[p].bills \cup shell'[p].news
    BY <2>1 DEF ErasedInv
  <2>2. /\ Erasing(p) /\ shell'[p].id = shell[p].id /\ shell'[p].bills = shell[p].bills
        /\ shell'[p].news = shell[p].news \cup {i}
    BY NewsTold DEF IInv, Erasing
  <2> QED BY <2>2 DEF IInv, ErasedInv
<1>3. PurgeInv'
  <2> SUFFICES ASSUME NEW p \in Shells, Purging(p)', NEW j \in AllBills, j \in shell'[p].bills \ shell'[p].news
               PROVE  held'[j].state # "open"
    BY <1>1 DEF IInv, PurgeInv
  <2>1. Purging(p) /\ shell'[p].bills = shell[p].bills /\ shell'[p].news = shell[p].news \cup {i}
    BY NewsTold DEF IInv, Purging
  <2> QED BY <2>1 DEF IInv, PurgeInv
<1>4. RosterInv'
  <2>1. \A p \in Shells : ToErase(p)' = ToErase(p)
    BY NewsTold DEF ToErase, IInv
  <2> QED BY <1>1, <2>1, NewsTold DEF IInv, RosterInv
<1> QED BY <1>2, <1>3, <1>4, NewsTold DEF IInv

LEMMA ServerKeeps ==
  ASSUME IInv, NEW i \in AllBills, MarkEarlyPaid(i) \/ \E resolved \in BOOLEAN : RecordsFailure(i, resolved)
  PROVE  IInv'
<1>1. CASE MarkEarlyPaid(i)
  <2>1. RowInv' /\ OrphanInv'
    BY <1>1 DEF MarkEarlyPaid, News, IInv, RowInv, OrphanInv, OrphansAreCut
  <2> QED BY <1>1, <2>1, NewsKeeps DEF MarkEarlyPaid, IInv
<1>2. ASSUME NEW resolved \in BOOLEAN, RecordsFailure(i, resolved) PROVE IInv'
  <2>1. /\ DOMAIN held' = AllBills /\ \A j \in AllBills \ {i} : held'[j] = held[j]
        /\ held'[i].state = IF held[i].state = "none" THEN "open" ELSE held[i].state
    BY <1>2 DEF RecordsFailure, IInv, RowInv
  <2>2. handling' = [at |-> "recorded", bill |-> i] /\ children' = children /\ cutOff' = cutOff
    BY <1>2 DEF RecordsFailure, News
  <2>3. held'[i] # NoRow
    BY <2>1 DEF NoRow
  <2>4. RowInv'
    BY <2>1, <2>2 DEF RowInv, IInv
  <2>5. OrphanInv'
    BY <2>1, <2>2, <2>3 DEF OrphanInv, OrphansAreCut, IInv, RowInv
  <2> QED BY <1>2, <2>1, <2>4, <2>5, NewsKeeps DEF RecordsFailure, IInv
<1> QED BY <1>1, <1>2

LEMMA HandlerKeeps ==
  ASSUME IInv, RecordsMessage \/ Close
  PROVE  IInv'
<1>1. CASE RecordsMessage
  <2>1. handling # NotHandling /\ handling.bill \in AllBills
    BY <1>1 DEF RecordsMessage, NotHandling, IInv, RowInv
  <2>2. handling'.at = "messaged" /\ handling'.bill = handling.bill /\ DOMAIN handling' = {"at", "bill"}
    BY <1>1, <2>1 DEF RecordsMessage, IInv, RowInv
  <2>3. RowInv'
    BY <1>1, <2>1, <2>2 DEF RecordsMessage, IInv, RowInv
  <2>4. OrphanInv'
    BY <1>1, <2>1, <2>2 DEF RecordsMessage, News, IInv, OrphanInv, OrphansAreCut
  <2> QED BY <1>1, <2>1, <2>3, <2>4, NewsKeeps DEF RecordsMessage, IInv
<1>2. CASE Close
  <2> DEFINE i == handling.bill
  <2>1. handling # NotHandling /\ i \in AllBills /\ handling' = NotHandling
    BY <1>2 DEF Close, NotHandling, IInv, RowInv
  <2>2. CASE UNCHANGED <<held, children, roster, shell, today, ghosts>>
    BY <2>1, <2>2 DEF ghosts, IInv, ShellInv, RowInv, ErasedInv, ErasedIsGone, OrphanInv, OrphansAreCut,
                      PurgeInv, RosterInv, Erasing, Purging, ToErase
  <2>3. CASE /\ held[i].state = "open" /\ News(i) /\ children' = children \cup {i}
             /\ held' = [held EXCEPT ![i] = [state |-> "closed", ids |-> @.ids, updated |-> today]]
    <3>1. /\ DOMAIN held' = AllBills /\ \A j \in AllBills \ {i} : held'[j] = held[j]
          /\ held'[i].state = "closed"
      BY <2>1, <2>3 DEF IInv, RowInv
    <3>2. held'[i] # NoRow
      BY <3>1 DEF NoRow
    <3>3. RowInv'
      BY <2>1, <2>3, <3>1 DEF IInv, RowInv
    <3>4. OrphanInv'
      BY <2>1, <2>3, <3>1, <3>2 DEF News, IInv, OrphanInv, OrphansAreCut, RowInv
    <3> QED BY <2>1, <2>3, <3>1, <3>3, <3>4, NewsKeeps DEF IInv
  <2> QED BY <1>2, <2>2, <2>3 DEF Close
<1> QED BY <1>1, <1>2
-------------------------------------------------------------------------------
\* A step of script p that leaves the rows alone.
LEMMA ScriptKeepsRows ==
  ASSUME IInv, NEW p \in Shells, UNCHANGED data, UNCHANGED <<erasedIds, rewritten, cutOff, lostOpen>>,
         DOMAIN shell' = Shells, \A q \in Shells \ {p} : shell'[q] = shell[q],
         ShellInv',
         Erasing(p)' => \A i \in AllBills : shell'[p].id \in held[i].ids => i \in shell'[p].bills \cup shell'[p].news,
         Purging(p)' => \A i \in AllBills : i \in shell'[p].bills \ shell'[p].news => held[i].state # "open"
  PROVE  RowInv' /\ ErasedInv' /\ OrphanInv' /\ PurgeInv'
<1>1. RowInv' /\ OrphanInv'
  BY DEF IInv, RowInv, OrphanInv, OrphansAreCut, data
<1>2. \A q \in Shells \ {p} : Erasing(q)' = Erasing(q) /\ Purging(q)' = Purging(q)
  BY DEF Erasing, Purging
<1>3. ErasedInv'
  BY <1>2 DEF IInv, ErasedInv, ErasedIsGone, data
<1>4. PurgeInv'
  BY <1>2 DEF IInv, PurgeInv, data
<1> QED BY <1>1, <1>3, <1>4

\* The records of the steps.
LEMMA ShellSteps ==
  ASSUME ShellInv, NEW p \in Shells, NEW s, shell' = [shell EXCEPT ![p] = s],
         \/ s = Prompt \/ s = [at |-> "markers"]
         \/ \E ids, people : s = [at |-> "ids", ids |-> ids, people |-> people]
         \/ \E rest, people : s = [at |-> "write", kept |-> rest, people |-> people]
         \/ \E bills \in SUBSET AllBills : \E news : s = [at |-> "delete", purge |-> TRUE, bills |-> bills, news |-> news]
         \/ \E bills \in SUBSET AllBills : \E news, id, ids, people :
              s = [at |-> "delete", purge |-> FALSE, bills |-> bills, news |-> news,
                   id |-> id, ids |-> ids, people |-> people]
  PROVE  ShellInv' /\ shell'[p] = s /\ \A q \in Shells \ {p} : shell'[q] = shell[q]
<1>1. shell'[p] = s /\ DOMAIN shell' = Shells /\ \A q \in Shells \ {p} : shell'[q] = shell[q]
  BY DEF ShellInv
<1>2. /\ s.at \in Steps
      /\ s.at = "delete" =>
           /\ s.purge \in BOOLEAN
           /\ DOMAIN s = {"at", "purge", "bills", "news"} \cup (IF s.purge THEN {} ELSE {"id", "ids", "people"})
           /\ s.bills \subseteq AllBills
  <2> USE DEF Steps
  <2>1. CASE s = Prompt \/ s = [at |-> "markers"]
    BY <2>1 DEF Prompt
  <2>2. CASE \E ids, people : s = [at |-> "ids", ids |-> ids, people |-> people]
    BY <2>2
  <2>3. CASE \E rest, people : s = [at |-> "write", kept |-> rest, people |-> people]
    BY <2>3
  <2>4. CASE \E bills \in SUBSET AllBills : \E news : s = [at |-> "delete", purge |-> TRUE, bills |-> bills, news |-> news]
    BY <2>4
  <2>5. CASE \E bills \in SUBSET AllBills : \E news, id, ids, people :
              s = [at |-> "delete", purge |-> FALSE, bills |-> bills, news |-> news,
                   id |-> id, ids |-> ids, people |-> people]
    BY <2>5
  <2> QED BY <2>1, <2>2, <2>3, <2>4, <2>5
<1> QED BY <1>1, <1>2 DEF ShellInv

\* The others' part of the roster, when it and what is erased stay.
LEMMA RosterOfOthers ==
  ASSUME IInv, NEW p \in Shells, \A q \in Shells \ {p} : shell'[q] = shell[q]
  PROVE  \A q \in Shells \ {p} : ToErase(q)' = ToErase(q) /\ Erasing(q)' = Erasing(q)
  BY DEF ToErase, Erasing

LEMMA RequestKeeps ==
  ASSUME IInv, NEW p \in Shells, NEW id, NEW email, Request(p, id, email)
  PROVE  IInv'
<1> DEFINE found == {u \in Roster : id = Local(u) \/ email = u}
           ids == ({id} \ {Never}) \cup {Local(u) : u \in found}
           people == found \cup ({email} \ {Never}) \cup {u \in Persons : Local(u) \in ids}
           s == [at |-> "ids", ids |-> ids, people |-> people]
<1>1. shell' = [shell EXCEPT ![p] = s]
  BY DEF Request
<1>2. roster # Torn => \A u \in people \cap roster : Local(u) \in ids
  BY DEF Roster
<1> HIDE DEF ids, people
<1>3. ShellInv' /\ shell'[p] = s /\ \A q \in Shells \ {p} : shell'[q] = shell[q]
  BY <1>1, ShellSteps DEF IInv
<1>4. ~Erasing(p)' /\ ~Purging(p)' /\ shell'[p].at = "ids" /\ shell'[p].ids = ids /\ shell'[p].people = people
  BY <1>3 DEF Erasing, Purging
<1>5. RowInv' /\ ErasedInv' /\ OrphanInv' /\ PurgeInv'
  BY <1>3, <1>4, ScriptKeepsRows DEF Request, ghosts, ShellInv
<1>6. RosterInv'
  <2>1. ToErase(p)' = ids
    BY <1>4 DEF ToErase
  <2>2. /\ roster' = roster /\ overlapped' = overlapped /\ redacted' = redacted
        /\ erasedIds' = erasedIds
    BY DEF Request, ghosts
  <2>3. \A q \in Shells \ {p} : ToErase(q)' = ToErase(q) /\ Erasing(q)' = Erasing(q)
    BY <1>3, RosterOfOthers
  <2> QED BY <1>2, <1>3, <1>4, <2>1, <2>2, <2>3 DEF IInv, RosterInv
<1> QED BY <1>3, <1>5, <1>6 DEF IInv

LEMMA ReadIdsKeeps ==
  ASSUME IInv, NEW p \in Shells, ReadIds(p)
  PROVE  IInv'
<1>1. PICK id \in shell[p].ids :
        shell' = [shell EXCEPT ![p] =
          [at |-> "delete", purge |-> FALSE, bills |-> InvoicesOf(id), news |-> {},
           id |-> id, ids |-> shell[p].ids \ {id}, people |-> shell[p].people]]
  BY DEF ReadIds
<1> DEFINE s == [at |-> "delete", purge |-> FALSE, bills |-> InvoicesOf(id), news |-> {},
                 id |-> id, ids |-> shell[p].ids \ {id}, people |-> shell[p].people]
<1>2. shell[p].at = "ids"
  BY DEF ReadIds
<1>3. ShellInv' /\ shell'[p] = s /\ \A q \in Shells \ {p} : shell'[q] = shell[q]
  <2>1. InvoicesOf(id) \in SUBSET AllBills
    BY DEF InvoicesOf
  <2> QED BY <1>1, <2>1, ShellSteps DEF IInv
<1>4. /\ Erasing(p)' /\ ~Purging(p)' /\ shell'[p].at = "delete"
      /\ shell'[p].id = id /\ shell'[p].ids = shell[p].ids \ {id} /\ shell'[p].people = shell[p].people
      /\ shell'[p].bills = InvoicesOf(id)
  BY <1>3 DEF Erasing, Purging
<1>5. RowInv' /\ ErasedInv' /\ OrphanInv' /\ PurgeInv'
  BY <1>3, <1>4, ScriptKeepsRows DEF ReadIds, ghosts, ShellInv, InvoicesOf
<1>6. ToErase(p) = shell[p].ids /\ ToErase(p)' = shell[p].ids
  BY <1>2, <1>4 DEF ToErase, Erasing
<1>7. RosterInv'
  BY <1>2, <1>3, <1>4, <1>6, RosterOfOthers DEF IInv, RosterInv, ReadIds, ghosts
<1> QED BY <1>3, <1>5, <1>7 DEF IInv

LEMMA StartPurgeKeeps ==
  ASSUME IInv, NEW p \in Shells, StartPurge(p)
  PROVE  IInv'
<1> DEFINE s == [at |-> "delete", purge |-> TRUE, bills |-> Expired, news |-> {}]
<1>1. ShellInv' /\ shell'[p] = s /\ \A q \in Shells \ {p} : shell'[q] = shell[q]
  <2>1. Expired \in SUBSET AllBills
    BY DEF Expired
  <2> QED BY <2>1, ShellSteps DEF StartPurge, IInv
<1>2. ~Erasing(p)' /\ Purging(p)' /\ shell'[p].at = "delete" /\ shell'[p].bills = Expired
  BY <1>1 DEF Erasing, Purging
<1>3. RowInv' /\ ErasedInv' /\ OrphanInv' /\ PurgeInv'
  BY <1>1, <1>2, ScriptKeepsRows DEF StartPurge, ghosts, ShellInv, Expired
<1>4. RosterInv'
  BY <1>1, <1>2, RosterOfOthers DEF IInv, RosterInv, StartPurge, ghosts
<1> QED BY <1>1, <1>3, <1>4 DEF IInv
\* Whoever the deletion of p cuts off, and what it leaves to the others.
LEMMA DeleteKeeps ==
  ASSUME IInv, NEW p \in Shells, Delete(p)
  PROVE  IInv'
<1> DEFINE gone == shell[p].bills
           s == IF shell[p].purge THEN [at |-> "markers"]
                ELSE [at |-> "ids", ids |-> shell[p].ids, people |-> shell[p].people]
<1>1. shell[p].at = "delete" /\ shell[p].purge \in BOOLEAN
  BY DEF Delete, IInv, ShellInv
<1>2. shell' = [shell EXCEPT ![p] = s]
  BY DEF Delete
<1>3. ShellInv' /\ shell'[p] = s /\ \A q \in Shells \ {p} : shell'[q] = shell[q]
  <2>1. CASE shell[p].purge
    <3>1. s = [at |-> "markers"]
      BY <2>1
    <3> HIDE DEF s
    <3> QED BY <1>2, <3>1, ShellSteps DEF IInv
  <2>2. CASE ~shell[p].purge
    <3>1. \E ids, people : s = [at |-> "ids", ids |-> ids, people |-> people]
      BY <2>2
    <3> HIDE DEF s
    <3> QED BY <1>2, <3>1, ShellSteps DEF IInv
  <2> QED BY <1>1, <2>1, <2>2
<1>4. ~Erasing(p)' /\ ~Purging(p)' /\ shell'[p].at \in {"ids", "markers"}
  BY <1>3 DEF Erasing, Purging
<1>5. \A q \in Shells \ {p} : /\ ToErase(q)' = ToErase(q)
                              /\ Erasing(q)' = Erasing(q) /\ Purging(q)' = Purging(q)
  BY <1>3 DEF ToErase, Erasing, Purging
<1>6. /\ DOMAIN held' = AllBills
      /\ \A i \in AllBills : held'[i] = IF i \in gone THEN NoRow ELSE held[i]
      /\ children' = children \ gone /\ handling' = handling
      /\ cutOff' = cutOff \cup (IF handling = NotHandling THEN {} ELSE gone \cap {handling.bill})
  BY DEF Delete
<1> HIDE DEF gone, s
<1>7. RowInv'
  BY <1>6 DEF IInv, RowInv
<1>8. OrphanInv'
  BY <1>6 DEF IInv, OrphanInv, OrphansAreCut, RowInv
<1>9. NoRow.ids = {} /\ NoRow.state = "none"
  BY DEF NoRow
<1>10. ErasedInv'
  <2>1. \A q \in Shells : Erasing(q)' =>
          \A i \in AllBills : shell'[q].id \in held'[i].ids => i \in shell'[q].bills \cup shell'[q].news
    BY <1>3, <1>4, <1>5, <1>6, <1>9 DEF IInv, ErasedInv
  <2>2. CASE shell[p].purge
    <3>1. erasedIds' = erasedIds /\ rewritten' = rewritten
      BY <2>2 DEF Delete
    <3> QED BY <1>6, <1>9, <2>1, <3>1 DEF IInv, ErasedInv, ErasedIsGone
  <2>3. CASE ~shell[p].purge
    <3>1. /\ erasedIds' = erasedIds \cup {shell[p].id}
          /\ rewritten' = {i \in rewritten : shell[p].id \notin held[i].ids} \cup shell[p].news
      BY <2>3 DEF Delete
    <3>2. \A i \in AllBills : shell[p].id \in held[i].ids => i \in gone \cup shell[p].news
      BY <1>1, <2>3 DEF IInv, ErasedInv, Erasing, gone
    <3>3. ErasedIsGone'
      <4> SUFFICES ASSUME NEW i \in AllBills, held'[i].ids \cap erasedIds' # {} PROVE i \in rewritten'
        BY DEF ErasedIsGone
      <4>1. i \notin gone /\ held'[i] = held[i]
        BY <1>6, <1>9
      <4>2. CASE shell[p].id \in held[i].ids
        BY <3>1, <3>2, <4>1, <4>2
      <4>3. CASE shell[p].id \notin held[i].ids
        BY <3>1, <4>1, <4>3 DEF IInv, ErasedInv, ErasedIsGone
      <4> QED BY <4>2, <4>3
    <3> QED BY <2>1, <3>3 DEF ErasedInv
  <2> QED BY <1>1, <2>2, <2>3
<1>11. PurgeInv'
  <2>1. \A q \in Shells : Purging(q)' =>
          \A i \in AllBills : i \in shell'[q].bills \ shell'[q].news => held'[i].state # "open"
    BY <1>3, <1>4, <1>5, <1>6, <1>9 DEF IInv, PurgeInv
  <2>2. lostOpen' = IF shell[p].purge THEN lostOpen \cup {i \in gone \ shell[p].news : held[i].state = "open"}
                    ELSE lostOpen
    BY DEF Delete, gone
  <2>3. shell[p].purge => \A i \in AllBills : i \in gone \ shell[p].news => held[i].state # "open"
    BY <1>1 DEF IInv, PurgeInv, Purging, gone
  <2>4. gone \subseteq AllBills
    BY <1>1 DEF IInv, ShellInv, gone
  <2> QED BY <2>1, <2>2, <2>3, <2>4 DEF IInv, PurgeInv
<1>12. RosterInv'
  <2>1. roster' = roster /\ redacted' = redacted /\ overlapped' = overlapped /\ erasedIds \subseteq erasedIds'
    BY <1>1 DEF Delete
  <2>2. ~shell[p].purge =>
          /\ ToErase(p) = shell[p].ids \cup {shell[p].id} /\ ToErase(p)' = shell[p].ids
          /\ shell'[p].people = shell[p].people /\ erasedIds' = erasedIds \cup {shell[p].id}
    BY <1>1, <1>3 DEF ToErase, Erasing, s, Delete
  <2>3. shell[p].purge => shell'[p].at = "markers"
    BY <1>3 DEF s
  <2> QED BY <1>1, <1>3, <1>4, <1>5, <2>1, <2>2, <2>3 DEF IInv, RosterInv, Erasing
<1> QED BY <1>3, <1>7, <1>8, <1>10, <1>11, <1>12 DEF IInv
LEMMA DropKeeps ==
  ASSUME IInv, NEW p \in Shells, DropMarkers(p)
  PROVE  IInv'
<1>1. ShellInv' /\ shell'[p] = Prompt /\ \A q \in Shells \ {p} : shell'[q] = shell[q]
  BY ShellSteps DEF DropMarkers, IInv
<1>2. ~Erasing(p)' /\ ~Purging(p)' /\ shell'[p].at = "prompt"
  BY <1>1 DEF Erasing, Purging, Prompt
<1>3. \A q \in Shells \ {p} : ToErase(q)' = ToErase(q) /\ Erasing(q)' = Erasing(q) /\ Purging(q)' = Purging(q)
  BY <1>1 DEF ToErase, Erasing, Purging
<1>4. RowInv' /\ OrphanInv'
  BY DEF DropMarkers, ghosts, IInv, RowInv, OrphanInv, OrphansAreCut
<1>5. ErasedInv' /\ PurgeInv'
  BY <1>1, <1>2, <1>3 DEF DropMarkers, ghosts, IInv, ErasedInv, ErasedIsGone, PurgeInv
<1>6. RosterInv'
  BY <1>1, <1>2, <1>3 DEF DropMarkers, ghosts, IInv, RosterInv
<1> QED BY <1>1, <1>4, <1>5, <1>6 DEF IInv

LEMMA ReadRosterKeeps ==
  ASSUME IInv, NEW p \in Shells, ReadRoster(p)
  PROVE  IInv'
<1> DEFINE out == Roster \cap shell[p].people
           s == IF out = {} THEN Prompt
                ELSE [at |-> "write", kept |-> Roster \ shell[p].people, people |-> out]
<1>1. shell' = [shell EXCEPT ![p] = s] /\ shell[p].at = "ids" /\ shell[p].ids = {}
  BY DEF ReadRoster
<1>2. ShellInv' /\ shell'[p] = s /\ \A q \in Shells \ {p} : shell'[q] = shell[q]
  BY <1>1, ShellSteps DEF IInv
<1>3. ~Erasing(p)' /\ ~Purging(p)' /\ shell'[p].at \in {"prompt", "write"}
  BY <1>2 DEF Erasing, Purging, Prompt
<1>4. RowInv' /\ ErasedInv' /\ OrphanInv' /\ PurgeInv'
  BY <1>2, <1>3, ScriptKeepsRows DEF ReadRoster, ShellInv
<1>5. RosterInv'
  <2> SUFFICES ASSUME ~overlapped' PROVE RosterInv'
    BY DEF RosterInv
  <2>1. ~overlapped /\ \A q \in Shells : shell[q].at # "write"
    BY DEF ReadRoster
  <2>2. roster' = roster /\ redacted' = redacted /\ erasedIds' = erasedIds
    BY DEF ReadRoster
  <2>3. \A q \in Shells \ {p} : ToErase(q)' = ToErase(q) /\ Erasing(q)' = Erasing(q)
    BY <1>2, RosterOfOthers
  <2>4. ToErase(p) = {}
    BY <1>1 DEF ToErase, Erasing
  <2>5. CASE shell'[p].at = "prompt"
    BY <1>2, <1>3, <2>1, <2>2, <2>3, <2>5 DEF IInv, RosterInv
  <2>6. CASE shell'[p].at = "write"
    <3>1. out # {} /\ shell'[p].kept = Roster \ shell[p].people /\ shell'[p].people = out
      BY <1>2, <2>6 DEF Prompt
    <3>2. roster # Torn /\ Roster = roster
      BY <3>1 DEF Roster
    <3>3. \A u \in out : Local(u) \in erasedIds
      BY <1>1, <2>1, <2>4, <3>2 DEF IInv, RosterInv
    <3>4. shell'[p].kept = roster \ out
      BY <3>1, <3>2
    <3> HIDE DEF out, s
    <3> QED BY <1>2, <1>3, <2>1, <2>2, <2>3, <3>1, <3>2, <3>3, <3>4 DEF IInv, RosterInv
  <2> QED BY <1>3, <2>5, <2>6
<1> QED BY <1>2, <1>4, <1>5 DEF IInv

\* A script ends: it wrote the roster, or it was killed.
LEMMA WriteRosterKeeps ==
  ASSUME IInv, NEW p \in Shells, WriteRoster(p)
  PROVE  IInv'
<1>1. ShellInv' /\ shell'[p] = Prompt /\ \A q \in Shells \ {p} : shell'[q] = shell[q]
  BY ShellSteps DEF WriteRoster, IInv
<1>2. ~Erasing(p)' /\ ~Purging(p)' /\ shell'[p].at = "prompt"
  BY <1>1 DEF Erasing, Purging, Prompt
<1>3. RowInv' /\ ErasedInv' /\ OrphanInv' /\ PurgeInv'
  BY <1>1, <1>2, ScriptKeepsRows DEF WriteRoster, ShellInv
<1>4. RosterInv'
  <2> SUFFICES ASSUME ~overlapped' PROVE RosterInv'
    BY DEF RosterInv
  <2>1. /\ ~overlapped /\ shell[p].at = "write" /\ erasedIds' = erasedIds
        /\ roster' = shell[p].kept /\ redacted' = redacted \cup shell[p].people
    BY DEF WriteRoster
  <2>2. \A q \in Shells : shell'[q].at # "write"
    BY <1>1, <1>2, <2>1 DEF IInv, RosterInv
  <2>3. \A q \in Shells \ {p} : ToErase(q)' = ToErase(q) /\ Erasing(q)' = Erasing(q)
    BY <1>1, RosterOfOthers
  <2>4. roster # Torn
    BY <2>1 DEF IInv, RosterInv
  <2>5. roster' = roster \ shell[p].people /\ \A u \in shell[p].people : Local(u) \in erasedIds
    BY <2>1, <2>4 DEF IInv, RosterInv
  <2> QED BY <1>1, <1>2, <2>1, <2>2, <2>3, <2>4, <2>5 DEF IInv, RosterInv
<1> QED BY <1>1, <1>3, <1>4 DEF IInv

LEMMA KilledKeeps ==
  ASSUME IInv, NEW p \in Shells, Killed(p)
  PROVE  IInv'
<1>1. ShellInv' /\ shell'[p] = Prompt /\ \A q \in Shells \ {p} : shell'[q] = shell[q]
  BY ShellSteps DEF Killed, IInv
<1>2. ~Erasing(p)' /\ ~Purging(p)' /\ shell'[p].at = "prompt"
  BY <1>1 DEF Erasing, Purging, Prompt
<1>3. RowInv' /\ ErasedInv' /\ OrphanInv' /\ PurgeInv'
  BY <1>1, <1>2, ScriptKeepsRows DEF Killed, ghosts, ShellInv
<1>4. RosterInv'
  <2> SUFFICES ASSUME ~overlapped' PROVE RosterInv'
    BY DEF RosterInv
  <2>1. ~overlapped /\ erasedIds' = erasedIds /\ redacted' = redacted
    BY DEF Killed, ghosts
  <2>2. \A q \in Shells \ {p} : ToErase(q)' = ToErase(q) /\ Erasing(q)' = Erasing(q)
    BY <1>1, RosterOfOthers
  <2>3. CASE roster' = roster
    BY <1>1, <1>2, <2>1, <2>2, <2>3 DEF IInv, RosterInv
  <2>4. CASE shell[p].at = "write" /\ roster' = Torn
    <3>1. \A q \in Shells : shell'[q].at # "write"
      BY <1>1, <1>2, <2>1, <2>4 DEF IInv, RosterInv
    <3> QED BY <2>4, <3>1 DEF RosterInv
  <2> QED BY <2>3, <2>4 DEF Killed
<1> QED BY <1>1, <1>3, <1>4 DEF IInv

LEMMA StepErasure == IInv /\ [GDNext]_gdvars => IInv'
<1> SUFFICES ASSUME IInv, [GDNext]_gdvars PROVE IInv'
  OBVIOUS
<1>1. ASSUME UNCHANGED <<data, roster, shell, ghosts>> PROVE IInv'
  BY <1>1 DEF data, ghosts, IInv, ShellInv, RowInv, ErasedInv, ErasedIsGone, OrphanInv, OrphansAreCut,
              PurgeInv, RosterInv, Erasing, Purging, ToErase
<1>2. CASE GDDayPasses \/ UNCHANGED gdvars
  BY <1>1, <1>2 DEF GDDayPasses, gdvars
<1>3. ASSUME NEW p \in Shells, ReadIds(p) \/ Delete(p) \/ ReadRoster(p) \/ WriteRoster(p) \/ StartPurge(p)
                               \/ DropMarkers(p) \/ Killed(p)
      PROVE  IInv'
  BY <1>3, ReadIdsKeeps, DeleteKeeps, ReadRosterKeeps, WriteRosterKeeps, StartPurgeKeeps, DropKeeps, KilledKeeps
<1>4. ASSUME NEW p \in Shells, NEW u \in Persons,
             Request(p, Local(u), Never) \/ Request(p, InStripe(u), Never) \/ Request(p, Never, u)
      PROVE  IInv'
  BY <1>4, RequestKeeps
<1>5. ASSUME NEW i \in AllBills, MarkEarlyPaid(i) \/ \E resolved \in BOOLEAN : RecordsFailure(i, resolved)
      PROVE  IInv'
  BY <1>5, ServerKeeps
<1>6. CASE RecordsMessage \/ Close
  BY <1>6, HandlerKeeps
<1> QED BY <1>2, <1>3, <1>4, <1>5, <1>6 DEF GDNext

LEMMA ErasureInv == GDSpec => []IInv
  BY InitErasure, StepErasure, PTL DEF GDSpec

\* Nothing erased is left and nothing still wanted is gone, but for what the server wrote in
\* between, whatever script died at whichever step (store.py:1157-1321, gdpr_erase.py:54-140).
THEOREM ErasedStaysErased == GDSpec => []ErasureHolds
<1>1. IInv => ErasureHolds
  BY DEF IInv, ErasedInv, OrphanInv, PurgeInv, RosterInv, RosterComesLast, ErasureHolds
<1> QED BY <1>1, ErasureInv, PTL
===============================================================================
