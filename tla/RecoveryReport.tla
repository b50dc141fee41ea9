---------------------------- MODULE RecoveryReport ----------------------------
(* The recovery report (app/report.py build_report, _attribution; the arms by  *)
(* app/attribution.py).  It is computed in a thread of the pool: the failures  *)
(* are read once, then the messages sent of each in turn, then how many ever   *)
(* reached a state.  The loop goes on in between.                              *)
EXTENDS Integers, FiniteSets

CONSTANTS
  Buckets,      \* invoice -> bucket_of, 0..99
  HoldoutPct,   \* PAYPILOT_HOLDOUT_PCT
  MinArm,       \* MIN_ARM_SIZE
  MaxLoopSteps  \* bound: steps of the loop

ASSUME ReportAssumption ==
  IsFiniteSet(DOMAIN Buckets) /\ HoldoutPct \in 0..100 /\ MinArm \in Nat

VARIABLES
  ledgerRows,   \* invoice -> its failure, messages sent, states it ever had
  walk,         \* the report: the rows it read, those still to count, its arms
  seenAtStart,  \* ledgerRows when the failures were read
  report,       \* the report that was answered
  loopSteps

rrvars == <<ledgerRows, walk, seenAtStart, report, loopSteps>>

Cohort == DOMAIN Buckets
Unlisted == [state |-> "none", holdout |-> FALSE, sent |-> 0, ever |-> {}]
NoArm == [count |-> 0, recovered |-> 0, churned |-> 0]
NoArms == [treated |-> NoArm, holdout |-> NoArm, untouched |-> NoArm]
NotWalking == [at |-> "no report"]
NoReportYet == [at |-> "none"]

\* is_holdout.
IsHoldout(i) == HoldoutPct > 0 /\ Buckets[i] < HoldoutPct

RRInit ==
  /\ ledgerRows = [i \in Cohort |-> Unlisted]
  /\ walk = NotWalking /\ seenAtStart = ledgerRows /\ report = NoReportYet /\ loopSteps = 0

LoopStep(i, row) ==
  /\ loopSteps < MaxLoopSteps /\ loopSteps' = loopSteps + 1
  /\ ledgerRows' = [ledgerRows EXCEPT ![i] = row]
  /\ UNCHANGED <<walk, seenAtStart, report>>

\* The loop, as the report can see it: the arm is drawn with the failure, only
\* an invoice outside the holdout is mailed, and a closed one stays closed.
InvoiceFails(i) ==
  /\ ledgerRows[i] = Unlisted
  /\ LoopStep(i, [state |-> "failed", holdout |-> IsHoldout(i), sent |-> 0, ever |-> {"failed"}])
InvoiceMailed(i) ==
  /\ ledgerRows[i].state \in {"failed", "messaged"} /\ ~ledgerRows[i].holdout
  /\ ledgerRows[i].sent < 2
  /\ LoopStep(i, [ledgerRows[i] EXCEPT !.state = "messaged", !.sent = @ + 1, !.ever = @ \cup {"messaged"}])
InvoiceCloses(i, s) ==
  /\ ledgerRows[i].state \in {"failed", "messaged"}
  /\ LoopStep(i, [ledgerRows[i] EXCEPT !.state = s, !.ever = @ \cup {s}])

\* list_failures.
ListFailures ==
  /\ walk = NotWalking
  /\ LET listed == {i \in Cohort : ledgerRows[i] # Unlisted}
     IN walk' = [at |-> "counting", rows |-> ledgerRows, left |-> listed, arms |-> NoArms]
  /\ seenAtStart' = ledgerRows
  /\ UNCHANGED <<ledgerRows, report, loopSteps>>

\* An arm told by the messages alone.
ArmBySent(row, sent) == IF sent > 0 THEN "treated" ELSE "untouched"

\* _arm: the draw first, then whether anything was sent by now.
Arm(row, sent) ==
  IF row.holdout THEN "holdout" ELSE IF sent > 0 THEN "treated" ELSE "untouched"

\* One more in an arm, in the state its row was listed with.
CountIn(arms, arm, state) ==
  LET One(s) == IF state = s THEN 1 ELSE 0
  IN [arms EXCEPT ![arm] =
        [count |-> @.count + 1, recovered |-> @.recovered + One("recovered"),
         churned |-> @.churned + One("churned")]]

\* One row of the list: its state as listed, its messages as they are now.
CountRow(i) ==
  /\ walk.at = "counting" /\ i \in walk.left
  /\ LET row == walk.rows[i]
     IN walk' = [at |-> "counting", rows |-> walk.rows, left |-> walk.left \ {i},
                 arms |-> CountIn(walk.arms, Arm(row, ledgerRows[i].sent), row.state)]
  /\ UNCHANGED <<ledgerRows, seenAtStart, report, loopSteps>>

\* _attribution: the holdout if there is one, else the untouched; no lift while
\* either arm is small.
Baseline(arms) ==
  IF arms.holdout.count > 0 THEN "holdout"
  ELSE IF arms.untouched.count > 0 THEN "untouched" ELSE "none"
Lift(arms) ==
  LET b == Baseline(arms)
  IN IF b = "none" \/ arms.treated.count < MinArm \/ arms[b].count < MinArm THEN "withheld"
     ELSE "stated"

CountEver(s) == Cardinality({i \in Cohort : s \in ledgerRows[i].ever})

\* The cumulative counts are read last.
AnswerRecoveryReport ==
  /\ walk.at = "counting" /\ walk.left = {}
  /\ report' = [at |-> "answered", arms |-> walk.arms, lift |-> Lift(walk.arms),
                messaged |-> CountEver("messaged"),
                failed |-> Cardinality({i \in Cohort : walk.rows[i] # Unlisted})]
  /\ walk' = NotWalking
  /\ UNCHANGED <<ledgerRows, seenAtStart, loopSteps>>

RRNext ==
  \/ \E i \in Cohort :
       \/ InvoiceFails(i) \/ InvoiceMailed(i) \/ CountRow(i)
       \/ \E s \in {"recovered", "churned"} : InvoiceCloses(i, s)
  \/ ListFailures \/ AnswerRecoveryReport

RRSpec == RRInit /\ [][RRNext]_rrvars

-----------------------------------------------------------------------------
Of(rows, arm) == {i \in Cohort : rows[i] # Unlisted /\ Arm(rows[i], rows[i].sent) = arm}
In(rows, arm, s) == {i \in Of(rows, arm) : rows[i].state = s}

\* A report that reads while the loop writes still describes the cohort: the arms
\* are a partition of the failures it listed, the holdout is the one drawn,
\* recoveries lie between what was true when it began and what is true now, and
\* no lift is stated against an arm below the minimum (report.py:191-251).
ReportDescribesTheCohort ==
  report.at = "answered" /\ walk = NotWalking =>
    LET was == seenAtStart
    IN /\ report.arms.treated.count + report.arms.holdout.count + report.arms.untouched.count
            = report.failed
       /\ report.arms.holdout.count = Cardinality({i \in Cohort : was[i] # Unlisted /\ IsHoldout(i)})
       /\ \A a \in {"treated", "holdout"} :
            /\ Cardinality(In(was, a, "recovered")) <= report.arms[a].recovered
            /\ report.arms[a].recovered <= Cardinality(In(ledgerRows, a, "recovered"))
       /\ report.lift = "stated" =>
            \E b \in {"holdout", "untouched"} :
              Cardinality(Of(was, b)) >= MinArm /\ report.arms.treated.count >= MinArm
=============================================================================
