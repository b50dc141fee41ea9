------------------------------- MODULE BankCalls -------------------------------
(* The wrapper of every outbound call to a bank (app/bank/http.py request)    *)
(* and its counter of consecutive failures, which is read from a file when a  *)
(* call begins and written back whole when it ends.  Calls run in threads of  *)
(* one process or in several processes; nothing orders them.                  *)
EXTENDS Naturals, FiniteSets

CONSTANTS
  BankCallers,       \* threads or processes with a call of their own
  Providers,     \* provider names
  MaxAttempts,   \* DEFAULT_MAX_ATTEMPTS
  MaxCalls       \* bound: calls begun

ASSUME BankCallsAssumption == MaxAttempts \in Nat \ {0}

VARIABLES
  counts,        \* the file: provider -> consecutive failures
  caller,        \* caller -> its call
  landed,        \* caller -> how often the bank acted on its call
  streak,        \* provider -> failures since its last success, as they ended
  clean,         \* callers whose call holds what the file says: alone since it read it
  disturbed,     \* provider -> records since its last success that may have spoilt its count
  alerted,       \* providers alerted since their last success
  begun

bvars == <<counts, caller, landed, streak, clean, disturbed, alerted, begun>>

CallOutcomes == {"ok", "quota", "retryable status", "other status", "timeout", "transport error"}
Unanswered == {"timeout", "transport error"}
AlertOnConsecutive == 2
NoCall == [at |-> "idle"]
NoCounts == [p \in Providers |-> 0]

BInit ==
  /\ counts = NoCounts
  /\ caller = [c \in BankCallers |-> NoCall] /\ landed = [c \in BankCallers |-> 0]
  /\ streak = NoCounts /\ clean = {} /\ disturbed = NoCounts /\ alerted = {} /\ begun = 0

Calling == {c \in BankCallers : caller[c] # NoCall}

\* The counts are loaded before the first attempt; a file that cannot be read, or
\* parsed, holds none.  A call beside another may save what is the file's no more.
BeginCall(c, p, retry, readable) ==
  /\ caller[c] = NoCall /\ begun < MaxCalls /\ begun' = begun + 1
  /\ caller' = [caller EXCEPT ![c] =
                  [at |-> "attempt", provider |-> p, retry |-> retry, n |-> 1,
                   loaded |-> IF readable THEN counts ELSE NoCounts]]
  /\ landed' = [landed EXCEPT ![c] = 0]
  /\ clean' = IF readable /\ Calling = {} THEN {c} ELSE {}
  /\ UNCHANGED <<counts, streak, disturbed, alerted>>

\* Retry is opt-in per call: a call for a single-use value has one attempt.
Attempts(call) == IF call.retry THEN MaxAttempts ELSE 1

\* What may be tried again, while an attempt is left.
TriesAgain(call, outcome) ==
  outcome \in Unanswered \cup {"retryable status"} /\ call.n < Attempts(call)

\* The call once an attempt has ended: one more, or its verdict.
AfterAttempt(call, outcome) ==
  IF TriesAgain(call, outcome) THEN [call EXCEPT !.n = @ + 1]
  ELSE [at |-> IF outcome = "ok" THEN "succeeded" ELSE "failed",
        provider |-> call.provider, retry |-> call.retry, loaded |-> call.loaded,
        unknown |-> ~call.retry /\ outcome \in Unanswered,
        answered |-> outcome \notin Unanswered]

\* An attempt.  One that was not answered may have been acted on.
Attempt(c, outcome, acted) ==
  /\ caller[c].at = "attempt"
  /\ outcome = "ok" => acted
  /\ outcome \in {"quota", "other status"} => ~acted
  /\ landed' = [landed EXCEPT ![c] = @ + (IF acted THEN 1 ELSE 0)]
  /\ caller' = [caller EXCEPT ![c] = AfterAttempt(@, outcome)]
  /\ UNCHANGED <<counts, streak, clean, disturbed, alerted, begun>>

\* A tracker that forgets what the file held.
FailedFromZero(loaded, p) == [loaded EXCEPT ![p] = 1]

\* record_failure: one more than was loaded.
Failed(loaded, p) == [loaded EXCEPT ![p] = @ + 1]

\* Whether the record of a call may have spoilt the count of q: its own, if it was
\* not clean or what had to be written was not; another's, if it wrote unclean.
Spoils(c, q, needed, written) ==
  IF q = caller[c].provider THEN c \notin clean \/ (needed /\ ~written)
                            ELSE c \notin clean /\ written

\* _fail: the count goes up and is saved; a save that fails is only logged.
RecordFailure(c, saved) ==
  /\ caller[c].at = "failed"
  /\ LET p == caller[c].provider
         mine == Failed(caller[c].loaded, p)
     IN /\ counts' = IF saved THEN mine ELSE counts
        /\ alerted' = IF mine[p] >= AlertOnConsecutive THEN alerted \cup {p} ELSE alerted
        /\ streak' = [streak EXCEPT ![p] = @ + 1]
        /\ disturbed' = [q \in Providers |->
             disturbed[q] + (IF Spoils(c, q, TRUE, saved) THEN 1 ELSE 0)]
  /\ caller' = [caller EXCEPT ![c] = NoCall]
  /\ UNCHANGED <<landed, clean, begun>>

\* record_success saves only when there was a count to drop.
RecordSuccess(c, saved) ==
  /\ caller[c].at = "succeeded"
  /\ LET p == caller[c].provider
         dropped == caller[c].loaded[p] > 0
         written == saved /\ dropped
     IN /\ counts' = IF written THEN [caller[c].loaded EXCEPT ![p] = 0] ELSE counts
        /\ streak' = [streak EXCEPT ![p] = 0]
        /\ alerted' = alerted \ {p}
        /\ disturbed' = [q \in Providers |->
             (IF q = p THEN 0 ELSE disturbed[q])
               + (IF Spoils(c, q, dropped, written) THEN 1 ELSE 0)]
  /\ caller' = [caller EXCEPT ![c] = NoCall]
  /\ UNCHANGED <<landed, clean, begun>>

\* The process ends in the middle of a call.
CallerDies(c) ==
  /\ caller[c] # NoCall
  /\ caller' = [caller EXCEPT ![c] = NoCall]
  /\ UNCHANGED <<counts, landed, streak, clean, disturbed, alerted, begun>>

BNext ==
  \E c \in BankCallers :
    \/ \E p \in Providers, retry, readable \in BOOLEAN : BeginCall(c, p, retry, readable)
    \/ \E o \in CallOutcomes, acted \in BOOLEAN : Attempt(c, o, acted)
    \/ \E saved \in BOOLEAN : RecordFailure(c, saved) \/ RecordSuccess(c, saved)
    \/ CallerDies(c)

BSpec == BInit /\ [][BNext]_bvars

-----------------------------------------------------------------------------
\* "It alerts on the second consecutive failure, not the first", across
\* processes (http.py:37-41).  A record that may have spoilt a provider's count,
\* of a call that ran beside another, that could not read the file or could not
\* save it, hides one failure at most; and a provider whose count nothing
\* disturbed since its last success is alerted on its second failure exactly.
AlertsOnTheSecond ==
  \A p \in Providers :
    /\ p \notin alerted => streak[p] < AlertOnConsecutive + disturbed[p]
    /\ p \in alerted /\ disturbed[p] = 0 => streak[p] >= AlertOnConsecutive

\* A call that consumes a single-use value, whose caller did not ask for retries,
\* reaches the bank at most once, and is reported as failed for certain only if
\* the bank answered (http.py:19-30): a timeout is unknown, it may have landed.
SingleUseIsUsedOnce ==
  \A c \in BankCallers :
    caller[c].at \in {"succeeded", "failed"} /\ ~caller[c].retry =>
      landed[c] <= 1 /\ (~caller[c].unknown => caller[c].answered)
=============================================================================
