--------------------------- MODULE InferenceBudget ---------------------------
(* The spending ceiling of one tenant's drafting model (app/meter.py,       *)
(* app/nodes.py get_llm and _llm_text, the llm_call rows of app/audit.py).  *)
(* A caller is a thread in a drafting node: it asks the meter, calls the    *)
(* model, records what the answer says it used, and writes an audit row.    *)
(* A priced call that reports its usage costs one unit.  The process may    *)
(* restart at any point; the meter is then rebuilt from the audit rows.     *)
EXTENDS Integers, FiniteSets

CONSTANTS
  Callers,     \* drafting threads of the tenant
  Ceilings,    \* values the tenant's llm_budget_usd takes, in units
  NoCeiling,   \* the value of a budget that is not set
  MaxSteps     \* calls, budget changes and restarts in a behaviour

\* load_budget: a budget is a number that is not negative, or is not set.
ASSUME BudgetAssumption ==
  /\ IsFiniteSet(Callers) /\ NoCeiling \notin Nat /\ Ceilings \subseteq Nat \cup {NoCeiling}

VARIABLES
  ceiling,     \* llm_budget_usd in the tenant's configuration
  meter,       \* CostMeter: measured cost, calls without a price, refusals
  rows,        \* llm_call rows of the audit log, as load_from_audit sums them up
  step,        \* caller -> where it is
  used,        \* caller -> what the answer it holds reported
  top,         \* the highest ceiling in force since the process started
  audited,     \* cost of the recorded calls whose row was written
  budgeted     \* steps taken, for MaxSteps

ivars == <<ceiling, meter, rows, step, used, top, audited, budgeted>>

Fresh == [cost |-> 0, unpriced |-> 0, refusals |-> 0]

\* A usage is what a response reports: nothing, or tokens of a model that has
\* a sourced price or has none.
Usages == {"nothing", "priced", "unpriced"}

Higher(a, b) ==
  IF NoCeiling \in {a, b} THEN NoCeiling ELSE IF a > b THEN a ELSE b

\* A verdict that looks at the missing prices before the measured spend.
VerdictPriceFirst(mt, b) ==
  IF b = NoCeiling THEN "no_budget_configured"
  ELSE IF b = 0 THEN "exceeded"
  ELSE IF mt.unpriced > 0 THEN "unknown"
  ELSE IF mt.cost > b THEN "exceeded" ELSE "within"

\* CostMeter.verdict: a measured breach, then what is known to be partial.
Verdict(mt, b) ==
  IF b = NoCeiling THEN "no_budget_configured"
  ELSE IF b = 0 \/ mt.cost > b THEN "exceeded"
  ELSE IF mt.unpriced > 0 THEN "unknown" ELSE "within"

AllowsInference == Verdict(meter, ceiling) # "exceeded"

\* CostMeter.record of one call.
Record(mt, usage) ==
  CASE usage = "priced"   -> [mt EXCEPT !.cost = @ + 1]
    [] usage = "unpriced" -> [mt EXCEPT !.unpriced = @ + 1]
    [] OTHER              -> mt

IBInit ==
  /\ ceiling \in Ceilings /\ top = ceiling
  /\ meter = Fresh /\ rows = Fresh
  /\ step = [c \in Callers |-> "idle"]
  /\ used = [c \in Callers |-> "nothing"]
  /\ audited = 0 /\ budgeted = 0

\* get_llm: a measured breach refuses the call and the committed copy is used.
AskModel(c) ==
  /\ step[c] = "idle" /\ budgeted < MaxSteps
  /\ budgeted' = budgeted + 1
  /\ IF AllowsInference
     THEN step' = [step EXCEPT ![c] = "asked"] /\ UNCHANGED meter
     ELSE /\ step' = [step EXCEPT ![c] = "answered"]
          /\ meter' = [meter EXCEPT !.refusals = @ + 1]
  /\ used' = [used EXCEPT ![c] = "nothing"]
  /\ UNCHANGED <<ceiling, rows, top, audited>>

\* _llm_text: the answer came, and what it says it used is recorded.
ModelAnswers(c, usage) ==
  /\ step[c] = "asked"
  /\ meter' = Record(meter, usage)
  /\ used' = [used EXCEPT ![c] = usage]
  /\ step' = [step EXCEPT ![c] = "answered"]
  /\ UNCHANGED <<ceiling, rows, top, audited, budgeted>>

\* The call raises: nothing is recorded and the node ends.
ModelFails(c) ==
  /\ step[c] = "asked"
  /\ step' = [step EXCEPT ![c] = "idle"]
  /\ UNCHANGED <<ceiling, meter, rows, used, top, audited, budgeted>>

\* load_from_audit: one call per row, at the tokens the row holds.
FoldRow(mt, row) ==
  CASE row.model = "unpriced" -> [mt EXCEPT !.unpriced = @ + 1]
    [] OTHER -> [mt EXCEPT !.cost = @ + row.tokens]

\* audit_llm_call as both nodes call it: neither hands it the tokens, so the
\* row says zero, at the name of the configured model.
AuditCall(c) ==
  /\ step[c] = "answered"
  /\ \E model \in {"priced", "unpriced"} :
       /\ used[c] # "nothing" => model = used[c]
       /\ rows' = FoldRow(rows, [model |-> model, tokens |-> 0])
  /\ audited' = audited + (IF used[c] = "priced" THEN 1 ELSE 0)
  /\ step' = [step EXCEPT ![c] = "idle"]
  /\ used' = [used EXCEPT ![c] = "nothing"]
  /\ UNCHANGED <<ceiling, meter, top, budgeted>>

\* _persist swallows a failed write of the row.
AuditCallFails(c) ==
  /\ step[c] = "answered"
  /\ step' = [step EXCEPT ![c] = "idle"]
  /\ used' = [used EXCEPT ![c] = "nothing"]
  /\ UNCHANGED <<ceiling, meter, rows, top, audited, budgeted>>

\* The tenant's budget changes; get_cost_meter reads it on every call.
SetCeiling(b) ==
  /\ budgeted < MaxSteps /\ b # ceiling
  /\ ceiling' = b /\ top' = Higher(top, b)
  /\ budgeted' = budgeted + 1
  /\ UNCHANGED <<meter, rows, step, used, audited>>

\* The process ends; the next one rebuilds the meter before it serves.
Restart ==
  /\ budgeted < MaxSteps
  /\ budgeted' = budgeted + 1
  /\ meter' = rows
  /\ step' = [c \in Callers |-> "idle"]
  /\ used' = [c \in Callers |-> "nothing"]
  /\ top' = ceiling
  /\ UNCHANGED <<ceiling, rows, audited>>

IBNext ==
  \/ \E c \in Callers :
       \/ AskModel(c)
       \/ \E u \in Usages : ModelAnswers(c, u)
       \/ ModelFails(c) \/ AuditCall(c) \/ AuditCallFails(c)
  \/ \E b \in Ceilings : SetCeiling(b)
  \/ Restart

IBSpec == IBInit /\ [][IBNext]_ivars

-----------------------------------------------------------------------------
\* Calls let through and not yet recorded.
InFlight == Cardinality({c \in Callers : step[c] = "asked"})

\* The ceiling is looked at before the call and the spend is recorded after
\* it, so threads that ask together all pass.  The measured spend and the
\* calls in flight never exceed the highest ceiling of this process by more
\* than one call for each drafting thread.
CeilingHolds ==
  top # NoCeiling => meter.cost + InFlight <= top + Cardinality(Callers)

\* "The figure survives a restart" because it is summed from the llm_call
\* rows (meter.py:301-304, api.py:172-176): the meter never holds less than the
\* recorded calls whose row was written.
SpendSurvivesRestart == meter.cost >= audited
=============================================================================
