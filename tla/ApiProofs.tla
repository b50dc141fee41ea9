------------------------------- MODULE ApiProofs -------------------------------
(* Proofs about the routes of the API and what they keep: the decisions and   *)
(* the outcomes a client reports (DecisionLedger), the ceiling on what the    *)
(* models may cost (InferenceBudget), the webhooks of the billers             *)
(* (SourceWebhooks), the limiter of the demonstration routes (ApiEdge), and   *)
(* the rules and the batch behind them (Verdict).  The components share no    *)
(* state.                                                                     *)
EXTENDS DecisionLedger, InferenceBudget, SourceWebhooks, ApiEdge, Verdict,
        FiniteSetTheorems, WellFoundedInduction, TLAPS

-------------------------------------------------------------------------------
(* DecisionLedger: for any clients, invoices, calls and report ids, whatever  *)
(* statements, commits and processes fail.                                    *)

\* The rows of a database, all reported before a post: one for each key of a client, and
\* each about an invoice the client has a decision on, but for some clients.
RowsOk(db, post, excused) ==
  /\ db = [audit |-> db.audit, outcomes |-> db.outcomes] /\ IsFiniteSet(db.audit)
  /\ \A o \in db.outcomes : o.reported_at \in Nat /\ o.reported_at < post
  /\ Contract!NoTwoAlike(db.outcomes)
  /\ \A o \in db.outcomes :
       o.client \in excused \/ \E d \in db.audit : d.client = o.client /\ d.invoice = o.invoice

\* A database has what another one has of all but some clients, and its new rows are later.
Follows(db, old, gone) ==
  /\ {d \in old.audit : d.client \notin gone} \subseteq db.audit
  /\ {o \in old.outcomes : o.client \notin gone} \subseteq db.outcomes
  /\ \A o \in db.outcomes \ old.outcomes, p \in old.outcomes :
       p.client \notin gone => p.reported_at < o.reported_at

\* What the next report to be stored is stamped with.
NextPost == IF job.at = "known" THEN posted ELSE posted + 1

\* The open transaction only adds to what is durable, but for clients being erased, and the
\* request under way relies on what is there.
DecisionInv ==
  /\ posted \in Nat /\ job.at \in {"idle", "recorded", "known", "stored"}
  /\ RowsOk(durable, NextPost, torn) /\ RowsOk(view, NextPost, torn)
  /\ Follows(view, durable, erasing)
  /\ job.at = "recorded" => job.decision \in durable.audit \/ job.decision.client \in erasing
  /\ job.at = "known" => job.report.client \in torn \/ HasDecision(job.report.client, job.report.invoice)

LEMMA Looser ==
  ASSUME NEW db, NEW m \in Nat, NEW n \in Nat, m <= n, NEW E, NEW F, E \subseteq F, RowsOk(db, m, E)
  PROVE  RowsOk(db, n, F)
<1>1. \A o \in db.outcomes : o.reported_at \in Nat /\ o.reported_at < n
  BY DEF RowsOk
<1> QED BY <1>1 DEF RowsOk

LEMMA FollowsItself == \A db, gone : Follows(db, db, gone)
  BY DEF Follows

LEMMA MoreGone ==
  ASSUME NEW db, NEW old, NEW E, NEW F, E \subseteq F, Follows(db, old, E)
  PROVE  Follows(db, old, F)
  BY DEF Follows

LEMMA Inserted ==
  ASSUME NEW post, NEW E, RowsOk(view, post, E), NEW old, NEW F, Follows(view, old, F), NEW d
  PROVE  RowsOk(WithDecision(d), post, E) /\ Follows(WithDecision(d), old, F)
<1>1. WithDecision(d) = [audit |-> view.audit \cup {d}, outcomes |-> view.outcomes]
  <2>1. PICK a, o : view = [audit |-> a, outcomes |-> o]
    BY DEF RowsOk
  <2>2. [view EXCEPT !.audit = @ \cup {d}] = [audit |-> a \cup {d}, outcomes |-> o]
    BY <2>1
  <2> QED BY <2>1, <2>2 DEF WithDecision
<1>2. PICK w : w = WithDecision(d)
  OBVIOUS
<1>3. IsFiniteSet(view.audit \cup {d})
  BY FS_AddElement DEF RowsOk
<1>4. w.audit = view.audit \cup {d} /\ w.outcomes = view.outcomes
      /\ w = [audit |-> w.audit, outcomes |-> w.outcomes]
  BY <1>1, <1>2
<1>5. RowsOk(w, post, E)
  BY <1>3, <1>4 DEF RowsOk
<1>6. Follows(w, old, F)
  BY <1>4 DEF Follows
<1> QED BY <1>2, <1>5, <1>6

LEMMA Stored ==
  ASSUME posted \in Nat, NEW E, RowsOk(view, posted, E), NEW r,
         r.client \in E \/ HasDecision(r.client, r.invoice)
  PROVE  /\ RowsOk(WithReport(r), posted + 1, E)
         /\ \A old, gone : /\ Follows(view, old, gone)
                           /\ \A p \in old.outcomes : p.reported_at < posted
                           => Follows(WithReport(r), old, gone)
<1>1. RowsOk(view, posted + 1, E)
  BY Looser
<1>2. CASE HasReport(r)
  BY <1>1, <1>2 DEF WithReport
<1>3. CASE ~HasReport(r)
  <2>1. WithReport(r) = [audit |-> view.audit, outcomes |-> view.outcomes \cup {Row(r)}]
    BY <1>3 DEF RowsOk, WithReport
  <2>2. PICK w : w = WithReport(r)
    OBVIOUS
  <2>3. w.audit = view.audit /\ w.outcomes = view.outcomes \cup {Row(r)}
        /\ w = [audit |-> w.audit, outcomes |-> w.outcomes]
    BY <2>1, <2>2
  <2>4. Row(r).client = r.client /\ Row(r).key = r.key /\ Row(r).invoice = r.invoice /\ Row(r).reported_at = posted
    BY DEF Row
  <2>5. \A o \in w.outcomes : o.reported_at \in Nat /\ o.reported_at < posted + 1
    BY <1>1, <2>3, <2>4 DEF RowsOk
  <2>6. Contract!NoTwoAlike(w.outcomes)
    BY <1>3, <2>3, <2>4 DEF RowsOk, Contract!NoTwoAlike, HasReport
  <2>7. \A o \in w.outcomes :
          o.client \in E \/ \E d \in w.audit : d.client = o.client /\ d.invoice = o.invoice
    BY <2>3, <2>4 DEF RowsOk, HasDecision
  <2>8. RowsOk(w, posted + 1, E)
    BY <2>3, <2>5, <2>6, <2>7 DEF RowsOk
  <2>9. ASSUME NEW old, NEW gone, Follows(view, old, gone), \A p \in old.outcomes : p.reported_at < posted
        PROVE  Follows(w, old, gone)
    BY <2>3, <2>4, <2>9 DEF Follows
  <2> QED BY <2>2, <2>8, <2>9
<1> QED BY <1>2, <1>3

LEMMA Erased ==
  ASSUME NEW post, NEW E, RowsOk(view, post, E), NEW c
  PROVE  /\ RowsOk(Without(view, c), post, E \ {c})
         /\ \A old, gone : Follows(view, old, gone) => Follows(Without(view, c), old, gone \cup {c})
<1>1. PICK w : w = Without(view, c)
  OBVIOUS
<1>2. w.audit = {d \in view.audit : d.client # c} /\ w.outcomes = {o \in view.outcomes : o.client # c}
      /\ w = [audit |-> w.audit, outcomes |-> w.outcomes]
  BY <1>1 DEF Without
<1>3. IsFiniteSet(w.audit)
  <2>1. w.audit \subseteq view.audit
    BY <1>2
  <2> QED BY <2>1, FS_Subset DEF RowsOk
<1>4. RowsOk(w, post, E \ {c})
  BY <1>2, <1>3 DEF RowsOk, Contract!NoTwoAlike
<1>5. ASSUME NEW old, NEW gone, Follows(view, old, gone) PROVE Follows(w, old, gone \cup {c})
  BY <1>2, <1>5 DEF Follows
<1> QED BY <1>1, <1>4, <1>5

\* An erase whose second DELETE raised.
LEMMA HalfErased ==
  ASSUME NEW post, NEW E, RowsOk(view, post, E), NEW c, NEW old, NEW gone, Follows(view, old, gone),
         NEW w, w = [view EXCEPT !.audit = Without(view, c).audit]
  PROVE  RowsOk(w, post, E \cup {c}) /\ Follows(w, old, gone \cup {c})
<1>1. Without(view, c).audit = {d \in view.audit : d.client # c}
  BY DEF Without
<1>2. PICK left : left = {d \in view.audit : d.client # c}
  OBVIOUS
<1>3. w.audit = {d \in view.audit : d.client # c} /\ w.outcomes = view.outcomes
      /\ w = [audit |-> w.audit, outcomes |-> w.outcomes]
  <2>1. PICK a, o : view = [audit |-> a, outcomes |-> o]
    BY DEF RowsOk
  <2>2. w = [audit |-> left, outcomes |-> o]
    BY <1>1, <1>2, <2>1
  <2> QED BY <1>2, <2>1, <2>2
<1>4. IsFiniteSet(w.audit)
  <2>1. w.audit \subseteq view.audit
    BY <1>3
  <2> QED BY <2>1, FS_Subset DEF RowsOk
<1>5. RowsOk(w, post, E \cup {c})
  BY <1>3, <1>4 DEF RowsOk
<1>6. Follows(w, old, gone \cup {c})
  BY <1>3 DEF Follows
<1> QED BY <1>5, <1>6

-------------------------------------------------------------------------------
\* What a step does to the two databases.
LEMMA DecideStep ==
  ASSUME DecisionInv, NEW d, DecideOn(d)
  PROVE  DecisionInv' /\ Follows(durable', durable, erasing')
<1>1. RowsOk(WithDecision(d), NextPost, torn) /\ Follows(WithDecision(d), durable, erasing)
  BY Inserted DEF DecisionInv
<1>2. UNCHANGED <<answered, erasing, torn, posted>> /\ job.at = "idle" /\ NextPost = posted + 1
  BY DEF DecideOn, Idle, NextPost
<1>3. CASE Write(WithDecision(d)) /\ job' = [at |-> "recorded", decision |-> d]
  <2>1. view' = WithDecision(d) /\ durable' = WithDecision(d) /\ job'.at = "recorded" /\ job'.decision = d
    BY <1>3 DEF Write
  <2>2. NextPost' = NextPost
    BY <1>2, <2>1 DEF NextPost
  <2>3. d \in durable'.audit
    BY <2>1 DEF WithDecision, DecisionInv, RowsOk
  <2>4. RowsOk(durable', NextPost', torn')
    BY <1>1, <1>2, <2>1, <2>2
  <2>5. RowsOk(view', NextPost', torn')
    BY <1>1, <1>2, <2>1, <2>2
  <2>6. Follows(view', durable', erasing')
    BY <2>1, FollowsItself
  <2>7. Follows(durable', durable, erasing')
    BY <1>1, <1>2, <2>1
  <2> QED BY <1>2, <2>1, <2>3, <2>4, <2>5, <2>6, <2>7 DEF DecisionInv
<1>4. CASE WriteFails(WithDecision(d)) /\ UNCHANGED job
  <2>1. view' \in {view, WithDecision(d)} /\ UNCHANGED <<durable, job>>
    BY <1>4 DEF WriteFails
  <2>2. NextPost' = NextPost
    BY <1>2, <2>1 DEF NextPost
  <2>3. RowsOk(durable', NextPost', torn')
    BY <1>2, <2>1, <2>2 DEF DecisionInv
  <2>4. RowsOk(view', NextPost', torn')
    BY <1>1, <1>2, <2>1, <2>2 DEF DecisionInv
  <2>5. Follows(view', durable', erasing')
    BY <1>1, <1>2, <2>1 DEF DecisionInv
  <2>6. Follows(durable', durable, erasing')
    BY <2>1, FollowsItself
  <2> QED BY <1>2, <2>1, <2>3, <2>4, <2>5, <2>6 DEF DecisionInv
<1> QED BY <1>3, <1>4 DEF DecideOn

LEMMA ReportStep ==
  ASSUME DecisionInv, NEW r, Report(r)
  PROVE  DecisionInv' /\ Follows(durable', durable, erasing')
<1>1. /\ posted' = posted + 1 /\ job.at = "idle" /\ job'.at = "known" /\ job'.report = r
      /\ HasDecision(r.client, r.invoice)
      /\ UNCHANGED <<durable, view, answered, refused, erasing, torn, faults>>
  BY DEF Report, Idle
<1>2. NextPost' = NextPost /\ posted' \in Nat
  BY <1>1 DEF NextPost, DecisionInv
<1>3. \E d \in view'.audit : d.client = job'.report.client /\ d.invoice = job'.report.invoice
  BY <1>1 DEF HasDecision
<1>4. RowsOk(durable', NextPost', torn')
  BY <1>1, <1>2 DEF DecisionInv
<1>5. RowsOk(view', NextPost', torn')
  BY <1>1, <1>2 DEF DecisionInv
<1>6. Follows(view', durable', erasing') /\ Follows(durable', durable, erasing')
  BY <1>1, FollowsItself DEF DecisionInv
<1>7. HasDecision(job.report.client, job.report.invoice)'
  BY <1>3 DEF HasDecision
<1> QED BY <1>1, <1>2, <1>4, <1>5, <1>6, <1>7 DEF DecisionInv

LEMMA RecordStep ==
  ASSUME DecisionInv, RecordOutcome
  PROVE  DecisionInv' /\ Follows(durable', durable, erasing')
<1> DEFINE r == job.report
<1>1. job.at = "known" /\ NextPost = posted /\ posted \in Nat /\ posted + 1 \in Nat
  BY DEF RecordOutcome, NextPost, DecisionInv
<1>2. r.client \in torn \/ HasDecision(r.client, r.invoice)
  BY <1>1 DEF DecisionInv
<1>3. \A p \in durable.outcomes : p.reported_at < posted
  BY <1>1 DEF DecisionInv, RowsOk
<1>4. RowsOk(view, posted, torn) /\ RowsOk(durable, posted, torn) /\ Follows(view, durable, erasing)
  BY <1>1 DEF DecisionInv
<1>5. RowsOk(WithReport(r), posted + 1, torn) /\ Follows(WithReport(r), durable, erasing)
  BY <1>1, <1>2, <1>3, <1>4, Stored
<1>6. RowsOk(view, posted + 1, torn) /\ RowsOk(durable, posted + 1, torn)
  BY <1>1, <1>4, Looser
<1>7. UNCHANGED <<answered, refused, erasing, torn, posted>> /\ job'.at \in {"idle", "stored"}
  BY DEF RecordOutcome, Idle
<1>8. NextPost' = posted + 1
  BY <1>7 DEF NextPost
<1>9. \/ view' = WithReport(r) /\ durable' = WithReport(r)
      \/ view' \in {view, WithReport(r)} /\ durable' = durable
  BY DEF RecordOutcome, Write, WriteFails
<1>10. RowsOk(durable', NextPost', torn')
  BY <1>5, <1>6, <1>7, <1>8, <1>9
<1>11. RowsOk(view', NextPost', torn')
  BY <1>5, <1>6, <1>7, <1>8, <1>9
<1>12. Follows(view', durable', erasing') /\ Follows(durable', durable, erasing')
  BY <1>4, <1>5, <1>7, <1>9, FollowsItself
<1> QED BY <1>1, <1>7, <1>10, <1>11, <1>12 DEF DecisionInv

LEMMA EraseStep ==
  ASSUME DecisionInv, NEW c, EraseClient(c)
  PROVE  DecisionInv' /\ Follows(durable', durable, erasing')
<1>1. /\ job.at = "idle" /\ erasing' = erasing \cup {c} /\ UNCHANGED <<job, posted>>
  BY DEF EraseClient, Idle
<1>2. NextPost' = NextPost /\ NextPost \in Nat
  BY <1>1 DEF NextPost, DecisionInv
<1>3. PICK w : w = Without(view, c)
  OBVIOUS
<1>4. RowsOk(w, NextPost, torn \ {c}) /\ Follows(w, durable, erasing')
  BY <1>1, <1>3, Erased DEF DecisionInv
<1>5. Follows(view, durable, erasing')
  BY <1>1, MoreGone DEF DecisionInv
<1>6. CASE Write(w) /\ torn' = torn \ {c}
  <2>1. view' = w /\ durable' = w
    BY <1>6 DEF Write
  <2>2. RowsOk(durable', NextPost', torn')
    BY <1>2, <1>4, <1>6, <2>1
  <2>3. RowsOk(view', NextPost', torn')
    BY <1>2, <1>4, <1>6, <2>1
  <2>4. Follows(view', durable', erasing') /\ Follows(durable', durable, erasing')
    BY <1>4, <2>1, FollowsItself
  <2> QED BY <1>1, <2>2, <2>3, <2>4 DEF DecisionInv
<1>7. CASE WriteFails(w) /\ UNCHANGED torn
  <2>1. view' \in {view, w} /\ durable' = durable
    BY <1>7 DEF WriteFails
  <2>2. RowsOk(w, NextPost, torn)
    BY <1>2, <1>4, Looser
  <2>3. RowsOk(durable', NextPost', torn')
    BY <1>2, <1>7, <2>1 DEF DecisionInv
  <2>4. RowsOk(view', NextPost', torn')
    BY <1>2, <1>7, <2>1, <2>2 DEF DecisionInv
  <2>5. Follows(view', durable', erasing') /\ Follows(durable', durable, erasing')
    BY <1>4, <1>5, <2>1, FollowsItself
  <2> QED BY <1>1, <2>3, <2>4, <2>5 DEF DecisionInv
<1>8. CASE WriteFails([view EXCEPT !.audit = Without(view, c).audit]) /\ torn' = torn \cup {c}
  <2>1. PICK h : h = [view EXCEPT !.audit = Without(view, c).audit]
    OBVIOUS
  <2>2. view' \in {view, h} /\ durable' = durable
    BY <1>8, <2>1 DEF WriteFails
  <2>3. RowsOk(h, NextPost, torn \cup {c}) /\ Follows(h, durable, erasing \cup {c})
    BY <2>1, HalfErased DEF DecisionInv
  <2>4. RowsOk(view, NextPost, torn \cup {c}) /\ RowsOk(durable, NextPost, torn \cup {c})
    BY <1>2, Looser DEF DecisionInv
  <2>5. RowsOk(durable', NextPost', torn')
    BY <1>2, <1>8, <2>2, <2>4
  <2>6. RowsOk(view', NextPost', torn')
    BY <1>2, <1>8, <2>2, <2>3, <2>4
  <2>7. Follows(view', durable', erasing') /\ Follows(durable', durable, erasing')
    BY <1>1, <1>5, <2>2, <2>3, FollowsItself
  <2> QED BY <1>1, <2>5, <2>6, <2>7 DEF DecisionInv
<1> QED BY <1>3, <1>6, <1>7, <1>8 DEF EraseClient

LEMMA OutsideStep ==
  ASSUME DecisionInv, NEW c, EraseFromOutside(c)
  PROVE  DecisionInv' /\ Follows(durable', durable, erasing')
<1>1. /\ view' = Without(view, c) /\ durable' = Without(view, c)
      /\ erasing' = erasing \cup {c} /\ UNCHANGED <<job, posted>>
      /\ torn' = IF job.at = "known" /\ job.report.client = c THEN torn \cup {c} ELSE torn \ {c}
  BY DEF EraseFromOutside, Write
<1>2. NextPost' = NextPost /\ NextPost \in Nat
  BY <1>1 DEF NextPost, DecisionInv
<1>3. RowsOk(Without(view, c), NextPost, torn \ {c}) /\ Follows(Without(view, c), durable, erasing')
  BY <1>1, Erased DEF DecisionInv
<1>4. RowsOk(Without(view, c), NextPost, torn')
  <2>1. torn \ {c} \subseteq torn'
    BY <1>1
  <2> QED BY <1>2, <1>3, <2>1, Looser
<1>5. RowsOk(durable', NextPost', torn')
  BY <1>1, <1>2, <1>4
<1>6. RowsOk(view', NextPost', torn')
  BY <1>1, <1>2, <1>4
<1>7. Follows(view', durable', erasing') /\ Follows(durable', durable, erasing')
  BY <1>1, <1>3, FollowsItself
<1>8. job'.at = "recorded" => job'.decision \in durable'.audit \/ job'.decision.client \in erasing'
  <2>1. SUFFICES ASSUME job.at = "recorded", job.decision.client \notin erasing, job.decision.client # c
                 PROVE  job.decision \in durable'.audit
    BY <1>1
  <2>2. job.decision \in view.audit
    BY <2>1 DEF DecisionInv, Follows
  <2> QED BY <1>1, <2>1, <2>2 DEF Without
<1>9. job'.at = "known" =>
        job'.report.client \in torn' \/ HasDecision(job.report.client, job.report.invoice)'
  <2>1. SUFFICES ASSUME job.at = "known", job.report.client \notin torn, job.report.client # c
                 PROVE  \E d \in view'.audit : d.client = job.report.client /\ d.invoice = job.report.invoice
    BY <1>1 DEF HasDecision
  <2>2. PICK d \in view.audit : d.client = job.report.client /\ d.invoice = job.report.invoice
    BY <2>1 DEF DecisionInv, HasDecision
  <2>3. d \in view'.audit
    BY <1>1, <2>1, <2>2 DEF Without
  <2> QED BY <2>2, <2>3
<1> QED BY <1>1, <1>5, <1>6, <1>7, <1>8, <1>9 DEF DecisionInv

\* The steps that only end a request or the process.
LEMMA EndStep ==
  ASSUME DecisionInv, AnswerDecision \/ AnswerReport \/ ServerDies
  PROVE  DecisionInv' /\ Follows(durable', durable, erasing')
<1>1. /\ durable' = durable /\ view' \in {view, durable} /\ job'.at = "idle"
      /\ UNCHANGED <<erasing, torn, posted>>
  BY DEF AnswerDecision, AnswerReport, ServerDies, Idle
<1>2. NextPost' = posted + 1 /\ NextPost <= posted + 1 /\ NextPost \in Nat /\ posted + 1 \in Nat
  BY <1>1 DEF NextPost, DecisionInv
<1>3. RowsOk(view, posted + 1, torn) /\ RowsOk(durable, posted + 1, torn)
  BY <1>2, Looser DEF DecisionInv
<1>4. RowsOk(durable', NextPost', torn')
  BY <1>1, <1>2, <1>3
<1>5. RowsOk(view', NextPost', torn')
  BY <1>1, <1>2, <1>3
<1>6. Follows(view', durable', erasing') /\ Follows(durable', durable, erasing')
  BY <1>1, FollowsItself DEF DecisionInv
<1> QED BY <1>1, <1>4, <1>5, <1>6 DEF DecisionInv

LEMMA DecisionStep ==
  ASSUME DecisionInv, [DLNext]_dlvars
  PROVE  DecisionInv' /\ Follows(durable', durable, erasing')
<1>1. CASE UNCHANGED dlvars
  <2>1. DecisionInv'
    BY <1>1 DEF dlvars, DecisionInv, NextPost, HasDecision
  <2> QED BY <1>1, <2>1, FollowsItself DEF dlvars
<1>2. CASE \E d \in Decisions : DecideOn(d)
  BY <1>2, DecideStep
<1>3. CASE \E r \in Reports : Report(r)
  BY <1>3, ReportStep
<1>4. CASE RecordOutcome
  BY <1>4, RecordStep
<1>5. CASE \E c \in Clients : EraseClient(c)
  BY <1>5, EraseStep
<1>6. CASE \E c \in Clients : EraseFromOutside(c)
  BY <1>6, OutsideStep
<1>7. CASE AnswerDecision \/ AnswerReport \/ ServerDies
  BY <1>7, EndStep
<1> QED BY <1>1, <1>2, <1>3, <1>4, <1>5, <1>6, <1>7 DEF DLNext

LEMMA DecisionInit == DLInit => DecisionInv
<1> SUFFICES ASSUME DLInit PROVE DecisionInv
  OBVIOUS
<1>1. /\ durable = [audit |-> {}, outcomes |-> {}] /\ view = durable
      /\ posted = 0 /\ job.at = "idle" /\ torn = {} /\ erasing = {}
  BY DEF DLInit, Idle
<1>2. RowsOk(durable, NextPost, torn)
  BY <1>1, FS_EmptySet DEF RowsOk, Contract!NoTwoAlike
<1>3. Follows(view, durable, erasing)
  BY <1>1, FollowsItself
<1> QED BY <1>1, <1>2, <1>3 DEF DecisionInv

\* The counts of one client add up in a database whose rows are in order.
LEMMA Adds ==
  ASSUME NEW db, NEW post, NEW E, RowsOk(db, post, E), NEW c, c \notin E
  PROVE  Count(db, c, "paid") + Count(db, c, "not_paid") + Unreported(db, c) = Decided(db, c)
<1> DEFINE mine    == {e \in db.audit : e.client = c}
           decided == {d.invoice : d \in mine}
           With(o) == {i \in Invoices : Latest(db, c, i) = o}
           either  == With("paid") \cup With("not_paid")
<1>1. IsFiniteSet(decided)
  <2>1. mine \subseteq db.audit /\ IsFiniteSet(db.audit)
    BY DEF RowsOk
  <2>2. IsFiniteSet(mine)
    BY <2>1, FS_Subset
  <2>3. PICK inv : inv = [d \in mine |-> d.invoice]
    OBVIOUS
  <2>4. inv \in Surjection(mine, decided)
    BY <2>3 DEF Surjection
  <2> QED BY <2>2, <2>4, FS_Surjection
<1>2. ASSUME NEW i \in Invoices, Latest(db, c, i) \in {"paid", "not_paid"} PROVE i \in decided
  <2> DEFINE about == {o \in db.outcomes : o.client = c /\ o.invoice = i}
  <2>1. about # {}
    BY <1>2 DEF Latest
  <2>2. PICK o \in db.outcomes : o.client = c /\ o.invoice = i
    BY <2>1
  <2>3. PICK d \in db.audit : d.client = c /\ d.invoice = i
    BY <2>2 DEF RowsOk
  <2> QED BY <2>3
<1>3. With("paid") \subseteq decided /\ With("not_paid") \subseteq decided /\ either \subseteq decided
  BY <1>2
<1>4. With("paid") \cap With("not_paid") = {}
  OBVIOUS
<1>5. /\ IsFiniteSet(With("paid")) /\ IsFiniteSet(With("not_paid"))
      /\ Cardinality(either) <= Cardinality(decided)
  BY <1>1, <1>3, FS_Subset
<1>6. /\ Cardinality(With("paid")) \in Nat /\ Cardinality(With("not_paid")) \in Nat
      /\ Cardinality(decided) \in Nat
  BY <1>1, <1>5, FS_CardinalityType
<1>7. Cardinality(either) =
        Cardinality(With("paid")) + Cardinality(With("not_paid")) - Cardinality(With("paid") \cap With("not_paid"))
  BY <1>5, FS_Union
<1>8. Cardinality(With("paid") \cap With("not_paid")) = 0
  BY <1>4, FS_EmptySet
<1>9. /\ Count(db, c, "paid") = Cardinality(With("paid"))
      /\ Count(db, c, "not_paid") = Cardinality(With("not_paid"))
      /\ Decided(db, c) = Cardinality(decided)
  BY DEF Count, Decided
<1> HIDE DEF mine, decided, With, either
<1> QED BY <1>5, <1>6, <1>7, <1>8, <1>9 DEF Unreported

LEMMA DecisionsHold == DLSpec => []DecisionInv
<1>1. DecisionInv /\ [DLNext]_dlvars => DecisionInv'
  BY DecisionStep
<1> QED BY <1>1, DecisionInit, PTL DEF DLSpec

\* Every decided invoice of a client is paid, not paid or unknown, once, whatever is
\* repeated, lost or left in an open transaction (the counts of decision_audit.py): a
\* report is stored only about an invoice with a decision, and an erase takes both.
THEOREM DecisionsAddUp == DLSpec => []CountsAddUp
<1>1. DecisionInv => CountsAddUp
  BY Adds DEF DecisionInv, CountsAddUp
<1> QED BY <1>1, DecisionsHold, PTL

\* The ledger implements DecisionContract: a decision is answered only when it is on
\* record, no record is lost or altered, and no report is stored twice, across failing
\* statements, commits left open, erases from outside and deaths (handle_decision_request
\* of decision.py, SqliteAudit of decision_audit.py).
THEOREM LedgerKeepsContract == DLSpec => KeepsDecisionContract
<1>1. DLInit => Contract!Init
  BY DEF DLInit, Contract!Init
<1>2. ASSUME DecisionInv, [DLNext]_dlvars PROVE [Contract!Next]_<<durable.audit, durable.outcomes, answered, erasing>>
  <2>1. DecisionInv' /\ Follows(durable', durable, erasing')
    BY <1>2, DecisionStep
  <2>2. Contract!NoTwoAlike(durable'.outcomes)
    BY <2>1 DEF DecisionInv, RowsOk
  <2>3. erasing \subseteq erasing'
    BY <1>2 DEF DLNext, dlvars, DecideOn, AnswerDecision, Report, RecordOutcome, AnswerReport,
                EraseClient, EraseFromOutside, ServerDies
  <2>4. \/ answered' = answered
        \/ job.at = "recorded" /\ answered' = answered \cup {job.decision} /\ erasing' = erasing
    BY <1>2 DEF DLNext, dlvars, DecideOn, AnswerDecision, Report, RecordOutcome, AnswerReport,
                EraseClient, EraseFromOutside, ServerDies
  <2>5. answered \subseteq answered' /\ {d \in answered' \ answered : d.client \notin erasing'} \subseteq durable.audit
    BY <1>2, <2>4 DEF DecisionInv
  <2>6. Contract!Next
    BY <2>1, <2>2, <2>3, <2>5 DEF Contract!Next, Follows
  <2> QED BY <2>6
<1>3. QED
  BY <1>1, <1>2, DecisionsHold, PTL DEF DLSpec, KeepsDecisionContract, Contract!Spec

-------------------------------------------------------------------------------
(* InferenceBudget: for any threads, ceilings, changes of the ceiling and     *)
(* restarts.                                                                  *)

Asking == {c \in Callers : step[c] = "asked"}

\* The ceiling in force is below the highest one of this process, and what a restart would
\* find in the audit is nothing: the rows carry no tokens.
BudgetInv ==
  /\ ceiling \in Ceilings /\ top \in Ceilings
  /\ top = NoCeiling \/ (ceiling # NoCeiling /\ ceiling <= top)
  /\ meter = [cost |-> meter.cost, unpriced |-> meter.unpriced, refusals |-> meter.refusals]
  /\ rows = [cost |-> 0, unpriced |-> rows.unpriced, refusals |-> rows.refusals]
  /\ meter.cost \in Nat
  /\ DOMAIN step = Callers
  /\ CeilingHolds

LEMMA AskingFinite == IsFiniteSet(Asking) /\ InFlight \in Nat /\ InFlight <= Cardinality(Callers)
<1>1. Asking \subseteq Callers /\ InFlight = Cardinality(Asking)
  BY DEF Asking, InFlight
<1> QED BY <1>1, BudgetAssumption, FS_Subset, FS_CardinalityType

LEMMA CallersCount == Cardinality(Callers) \in Nat
  BY BudgetAssumption, FS_CardinalityType

LEMMA InFlightIs == ASSUME NEW A, A = Asking' PROVE InFlight' = Cardinality(A)
  BY DEF Asking, InFlight

\* A thread comes back, or was never out.
LEMMA OneFewer ==
  ASSUME BudgetInv, NEW c \in Callers, NEW at, at # "asked", step' = [step EXCEPT ![c] = at]
  PROVE  IF step[c] = "asked" THEN InFlight' = InFlight - 1 ELSE InFlight' = InFlight
<1>1. Asking' = Asking \ {c}
  BY DEF Asking, BudgetInv
<1>2. PICK A : A = Asking'
  OBVIOUS
<1>3. InFlight' = Cardinality(A) /\ InFlight = Cardinality(Asking) /\ A = Asking \ {c}
  BY <1>1, <1>2, InFlightIs DEF Asking, InFlight
<1>4. CASE step[c] = "asked"
  <2>1. c \in Asking
    BY <1>4 DEF Asking
  <2>2. Cardinality(Asking \ {c}) = Cardinality(Asking) - 1
    BY <2>1, AskingFinite, FS_RemoveElement
  <2> QED BY <1>3, <1>4, <2>2
<1>5. CASE step[c] # "asked"
  <2>1. A = Asking
    BY <1>3, <1>5 DEF Asking
  <2> QED BY <1>3, <1>5, <2>1
<1> QED BY <1>4, <1>5

LEMMA AskModelOk == ASSUME BudgetInv, NEW c \in Callers, AskModel(c) PROVE BudgetInv'
<1>1. UNCHANGED <<ceiling, rows, top>> /\ step[c] = "idle"
  BY DEF AskModel
<1>2. CASE AllowsInference /\ step' = [step EXCEPT ![c] = "asked"] /\ UNCHANGED meter
  <2>1. PICK A : A = Asking'
    OBVIOUS
  <2>2. A \subseteq Callers /\ InFlight' = Cardinality(A)
    BY <2>1, InFlightIs DEF Asking
  <2>3. InFlight' \in Nat /\ InFlight' <= Cardinality(Callers)
    BY <2>2, BudgetAssumption, FS_Subset, FS_CardinalityType
  <2>4. top # NoCeiling => meter.cost <= ceiling /\ ceiling <= top /\ ceiling \in Nat /\ top \in Nat
    BY <1>2, BudgetAssumption DEF AllowsInference, Verdict, BudgetInv
  <2>5. CeilingHolds'
    BY <1>1, <1>2, <2>3, <2>4, CallersCount DEF CeilingHolds, BudgetInv
  <2>6. DOMAIN step' = Callers
    BY <1>2 DEF BudgetInv
  <2> QED BY <1>1, <1>2, <2>5, <2>6 DEF BudgetInv
<1>3. CASE step' = [step EXCEPT ![c] = "answered"] /\ meter' = [meter EXCEPT !.refusals = @ + 1]
  <2>1. meter'.cost = meter.cost
        /\ meter' = [cost |-> meter'.cost, unpriced |-> meter'.unpriced, refusals |-> meter'.refusals]
    <3>1. PICK m, u, r : meter = [cost |-> m, unpriced |-> u, refusals |-> r]
      BY DEF BudgetInv
    <3> QED BY <1>3, <3>1
  <2>2. InFlight' = InFlight
    BY <1>1, <1>3, OneFewer
  <2>3. CeilingHolds'
    BY <1>1, <2>1, <2>2 DEF CeilingHolds, BudgetInv
  <2>4. DOMAIN step' = Callers
    BY <1>3 DEF BudgetInv
  <2> QED BY <1>1, <2>1, <2>3, <2>4 DEF BudgetInv
<1> QED BY <1>2, <1>3 DEF AskModel

LEMMA AnswersOk == ASSUME BudgetInv, NEW c \in Callers, NEW u \in Usages, ModelAnswers(c, u) PROVE BudgetInv'
<1>1. /\ UNCHANGED <<ceiling, rows, top>> /\ step[c] = "asked"
      /\ step' = [step EXCEPT ![c] = "answered"] /\ meter' = Record(meter, u)
  BY DEF ModelAnswers
<1>2. meter'.cost \in Nat /\ meter'.cost <= meter.cost + 1
      /\ meter' = [cost |-> meter'.cost, unpriced |-> meter'.unpriced, refusals |-> meter'.refusals]
  <2>1. PICK m, p, r : m \in Nat /\ meter = [cost |-> m, unpriced |-> p, refusals |-> r]
    BY DEF BudgetInv
  <2>2. CASE u = "priced"
    <3>1. meter' = [cost |-> m + 1, unpriced |-> p, refusals |-> r]
      BY <1>1, <2>1, <2>2 DEF Record
    <3> QED BY <2>1, <3>1
  <2>3. CASE u = "unpriced"
    <3>1. meter' = [cost |-> m, unpriced |-> p + 1, refusals |-> r]
      BY <1>1, <2>1, <2>3 DEF Record
    <3> QED BY <2>1, <3>1
  <2>4. CASE u \notin {"priced", "unpriced"}
    BY <1>1, <2>1, <2>4 DEF Record
  <2> QED BY <2>2, <2>3, <2>4
<1>3. InFlight' = InFlight - 1
  BY <1>1, OneFewer
<1>4. CeilingHolds'
  <2>1. top # NoCeiling => top \in Nat
    BY BudgetAssumption DEF BudgetInv
  <2> QED BY <1>1, <1>2, <1>3, <2>1, AskingFinite, CallersCount DEF CeilingHolds, BudgetInv
<1>5. DOMAIN step' = Callers
  BY <1>1 DEF BudgetInv
<1> QED BY <1>1, <1>2, <1>4, <1>5 DEF BudgetInv

LEMMA EndsOk ==
  ASSUME BudgetInv, NEW c \in Callers, ModelFails(c) \/ AuditCall(c) \/ AuditCallFails(c)
  PROVE  BudgetInv'
<1>1. UNCHANGED <<ceiling, meter, top>> /\ step' = [step EXCEPT ![c] = "idle"]
  BY DEF ModelFails, AuditCall, AuditCallFails
<1>2. rows' = [cost |-> 0, unpriced |-> rows'.unpriced, refusals |-> rows'.refusals]
  <2>1. PICK p, r : rows = [cost |-> 0, unpriced |-> p, refusals |-> r]
    BY DEF BudgetInv
  <2>2. CASE AuditCall(c)
    <3>1. PICK model \in {"priced", "unpriced"} : rows' = FoldRow(rows, [model |-> model, tokens |-> 0])
      BY <2>2 DEF AuditCall
    <3>2. CASE model = "unpriced"
      <4>1. rows' = [cost |-> 0, unpriced |-> p + 1, refusals |-> r]
        BY <2>1, <3>1, <3>2 DEF FoldRow
      <4> QED BY <4>1
    <3>3. CASE model = "priced"
      <4>1. rows' = [cost |-> 0 + 0, unpriced |-> p, refusals |-> r]
        BY <2>1, <3>1, <3>3 DEF FoldRow
      <4> QED BY <4>1
    <3> QED BY <3>2, <3>3
  <2>3. CASE rows' = rows
    BY <2>1, <2>3
  <2> QED BY <2>2, <2>3 DEF ModelFails, AuditCallFails
<1>3. InFlight' \in Nat /\ InFlight' <= InFlight
  <2>1. step[c] = "asked" => InFlight # 0
    <3>1. step[c] = "asked" => c \in Asking
      BY DEF Asking
    <3>2. InFlight = Cardinality(Asking)
      BY DEF Asking, InFlight
    <3> QED BY <3>1, <3>2, AskingFinite, FS_EmptySet
  <2>2. step[c] = "asked" => InFlight' = InFlight - 1
    BY <1>1, OneFewer
  <2>3. step[c] # "asked" => InFlight' = InFlight
    BY <1>1, OneFewer
  <2> QED BY <2>1, <2>2, <2>3, AskingFinite
<1>4. CeilingHolds'
  <2>1. top # NoCeiling => top \in Nat
    BY BudgetAssumption DEF BudgetInv
  <2> QED BY <1>1, <1>3, <2>1, AskingFinite, CallersCount DEF CeilingHolds, BudgetInv
<1>5. DOMAIN step' = Callers
  BY <1>1 DEF BudgetInv
<1> QED BY <1>1, <1>2, <1>4, <1>5 DEF BudgetInv

LEMMA SetCeilingOk == ASSUME BudgetInv, NEW b \in Ceilings, SetCeiling(b) PROVE BudgetInv'
<1>1. ceiling' = b /\ top' = Higher(top, b) /\ UNCHANGED <<meter, rows, step>>
  BY DEF SetCeiling
<1>2. /\ top' \in Ceilings /\ (top' = NoCeiling \/ (b # NoCeiling /\ b <= top'))
      /\ top' # NoCeiling => top # NoCeiling /\ top <= top'
  <2>1. top \in Nat \cup {NoCeiling} /\ b \in Nat \cup {NoCeiling}
    BY BudgetAssumption DEF BudgetInv
  <2>2. CASE top = NoCeiling
    BY <1>1, <2>2 DEF Higher, BudgetInv
  <2>3. CASE top # NoCeiling /\ b = NoCeiling
    BY <1>1, <2>3 DEF Higher
  <2>4. CASE top # NoCeiling /\ b # NoCeiling
    <3>1. top' = IF top > b THEN top ELSE b
      BY <1>1, <2>4 DEF Higher
    <3> QED BY <2>1, <2>4, <3>1, BudgetAssumption DEF BudgetInv
  <2> QED BY <2>2, <2>3, <2>4
<1>3. InFlight' = InFlight
  BY <1>1 DEF InFlight
<1>4. CeilingHolds'
  <2>1. SUFFICES ASSUME top' # NoCeiling PROVE meter.cost + InFlight <= top' + Cardinality(Callers)
    BY <1>1, <1>3 DEF CeilingHolds
  <2>2. top # NoCeiling /\ top <= top' /\ top \in Nat /\ top' \in Nat
    BY <1>2, <2>1, BudgetAssumption DEF BudgetInv
  <2> QED BY <2>2, AskingFinite, CallersCount DEF CeilingHolds, BudgetInv
<1> QED BY <1>1, <1>2, <1>4 DEF BudgetInv

LEMMA RestartOk == ASSUME BudgetInv, Restart PROVE BudgetInv'
<1>1. /\ meter' = rows /\ step' = [c \in Callers |-> "idle"] /\ top' = ceiling
      /\ UNCHANGED <<ceiling, rows>>
  BY DEF Restart
<1>2. PICK p, r : rows = [cost |-> 0, unpriced |-> p, refusals |-> r]
  BY DEF BudgetInv
<1>3. InFlight' = 0
  <2>1. Asking' = {}
    BY <1>1 DEF Asking
  <2> QED BY <2>1, InFlightIs, FS_EmptySet
<1>4. meter'.cost = 0 /\ meter' = [cost |-> meter'.cost, unpriced |-> meter'.unpriced, refusals |-> meter'.refusals]
  BY <1>1, <1>2
<1>5. ceiling # NoCeiling => ceiling \in Nat
  BY BudgetAssumption DEF BudgetInv
<1>6. CeilingHolds'
  BY <1>1, <1>3, <1>4, <1>5, CallersCount DEF CeilingHolds
<1> QED BY <1>1, <1>4, <1>5, <1>6 DEF BudgetInv

LEMMA BudgetStarts == IBInit => BudgetInv
<1> SUFFICES ASSUME IBInit PROVE BudgetInv
  OBVIOUS
<1>1. /\ ceiling \in Ceilings /\ top = ceiling /\ meter = [cost |-> 0, unpriced |-> 0, refusals |-> 0]
      /\ rows = meter /\ step = [c \in Callers |-> "idle"]
  BY DEF IBInit, Fresh
<1>2. ceiling # NoCeiling => ceiling \in Nat
  BY <1>1, BudgetAssumption
<1>3. InFlight = 0
  <2>1. Asking = {} /\ InFlight = Cardinality(Asking)
    BY <1>1 DEF Asking, InFlight
  <2> QED BY <2>1, FS_EmptySet
<1>4. CeilingHolds
  BY <1>1, <1>2, <1>3, CallersCount DEF CeilingHolds
<1> QED BY <1>1, <1>2, <1>4 DEF BudgetInv

LEMMA BudgetStep == BudgetInv /\ [IBNext]_ivars => BudgetInv'
<1> SUFFICES ASSUME BudgetInv, [IBNext]_ivars PROVE BudgetInv'
  OBVIOUS
<1>1. CASE UNCHANGED ivars
  BY <1>1 DEF ivars, BudgetInv, CeilingHolds, InFlight
<1>2. CASE IBNext
  BY <1>2, AskModelOk, AnswersOk, EndsOk, SetCeilingOk, RestartOk DEF IBNext
<1> QED BY <1>1, <1>2

\* The ceiling is looked at before a call and the spend recorded after it: the measured
\* spend and the calls in flight exceed the highest ceiling of the process by no more than
\* one call for each drafting thread (get_llm and _llm_text of nodes.py, CostMeter of
\* meter.py).
THEOREM CeilingIsKept == IBSpec => []CeilingHolds
<1>1. BudgetInv => CeilingHolds
  BY DEF BudgetInv
<1> QED BY <1>1, BudgetStarts, BudgetStep, PTL DEF IBSpec

\* Priced answers that are in the meter and whose row is still to be written.
Unwritten == {c \in Callers : step[c] = "answered" /\ used[c] = "priced"}

SpentInv ==
  /\ BudgetInv /\ audited \in Nat /\ DOMAIN used = Callers
  /\ audited + Cardinality(Unwritten) <= meter.cost

LEMMA UnwrittenFinite == IsFiniteSet(Unwritten) /\ Cardinality(Unwritten) \in Nat
<1>1. Unwritten \subseteq Callers
  BY DEF Unwritten
<1> QED BY <1>1, BudgetAssumption, FS_Subset, FS_CardinalityType

\* A call that is not under way any more, or not priced, owes no row.
LEMMA FewerUnwritten ==
  ASSUME NEW c \in Callers, Unwritten' = Unwritten \ {c}
  PROVE  Cardinality(Unwritten') =
           IF c \in Unwritten THEN Cardinality(Unwritten) - 1 ELSE Cardinality(Unwritten)
BY UnwrittenFinite, FS_RemoveElement

LEMMA SpentStep == SpentInv /\ [IBNext /\ ~Restart]_ivars => SpentInv'
<1> SUFFICES ASSUME SpentInv, [IBNext /\ ~Restart]_ivars PROVE SpentInv'
  OBVIOUS
<1>inv. BudgetInv'
  BY BudgetStep DEF SpentInv
<1>type. /\ meter.cost \in Nat /\ DOMAIN step = Callers /\ DOMAIN used = Callers
         /\ meter = [cost |-> meter.cost, unpriced |-> meter.unpriced, refusals |-> meter.refusals]
  BY DEF SpentInv, BudgetInv
<1>still. ASSUME UNCHANGED <<step, used, audited, meter>> PROVE SpentInv'
  BY <1>still, <1>inv DEF SpentInv, Unwritten
<1>ask. ASSUME NEW c \in Callers, AskModel(c) PROVE SpentInv'
  <2>1. audited' = audited /\ used' = [used EXCEPT ![c] = "nothing"]
    BY <1>ask DEF AskModel
  <2>2. meter'.cost = meter.cost
    <3>1. meter' = meter \/ meter' = [meter EXCEPT !.refusals = @ + 1]
      BY <1>ask DEF AskModel
    <3>2. [meter EXCEPT !.refusals = @ + 1]
            = [cost |-> meter.cost, unpriced |-> meter.unpriced, refusals |-> meter.refusals + 1]
      BY <1>type
    <3> QED BY <3>1, <3>2
  <2>3. Unwritten' = Unwritten \ {c}
    <3>1. \A d \in Callers \ {c} : step'[d] = step[d] /\ used'[d] = used[d]
      BY <1>ask, <2>1, <1>type DEF AskModel
    <3>2. used'[c] = "nothing"
      BY <2>1, <1>type
    <3> QED BY <3>1, <3>2 DEF Unwritten
  <2>4. Unwritten' = Unwritten
    BY <1>ask, <2>3 DEF AskModel, Unwritten
  <2> QED BY <1>inv, <1>type, <2>1, <2>2, <2>4 DEF SpentInv
<1>answer. ASSUME NEW c \in Callers, NEW u \in Usages, ModelAnswers(c, u) PROVE SpentInv'
  <2>1. /\ audited' = audited /\ used' = [used EXCEPT ![c] = u] /\ step[c] = "asked"
        /\ step' = [step EXCEPT ![c] = "answered"] /\ meter' = Record(meter, u)
    BY <1>answer DEF ModelAnswers
  <2>2. \A d \in Callers : /\ step'[d] = IF d = c THEN "answered" ELSE step[d]
                           /\ used'[d] = IF d = c THEN u ELSE used[d]
    BY <2>1, <1>type
  <2>3. c \notin Unwritten
    BY <2>1 DEF Unwritten
  <2>4. CASE u = "priced"
    <3>1. meter'.cost = meter.cost + 1
      <4>1. meter' = [cost |-> meter.cost + 1, unpriced |-> meter.unpriced, refusals |-> meter.refusals]
        BY <2>1, <2>4, <1>type DEF Record
      <4> QED BY <4>1
    <3>2. Unwritten' = Unwritten \cup {c}
      BY <2>2, <2>4 DEF Unwritten
    <3>3. Cardinality(Unwritten') = Cardinality(Unwritten) + 1
      BY <2>3, <3>2, UnwrittenFinite, FS_AddElement
    <3> QED BY <1>inv, <1>type, <2>1, <3>1, <3>3, UnwrittenFinite DEF SpentInv
  <2>5. CASE u # "priced"
    <3>1. meter'.cost = meter.cost
      <4>1. \/ meter' = meter
            \/ meter' = [cost |-> meter.cost, unpriced |-> meter.unpriced + 1, refusals |-> meter.refusals]
        BY <2>1, <2>5, <1>type DEF Record
      <4> QED BY <4>1
    <3>2. Unwritten' = Unwritten
      BY <2>2, <2>3, <2>5 DEF Unwritten
    <3> QED BY <1>inv, <1>type, <2>1, <3>1, <3>2 DEF SpentInv
  <2> QED BY <2>4, <2>5
<1>end. ASSUME NEW c \in Callers, ModelFails(c) \/ AuditCall(c) \/ AuditCallFails(c)
        PROVE  SpentInv'
  <2>1. meter' = meter /\ step' = [step EXCEPT ![c] = "idle"]
    BY <1>end DEF ModelFails, AuditCall, AuditCallFails
  <2>2. DOMAIN used' = Callers /\ \A d \in Callers \ {c} : used'[d] = used[d]
    BY <1>end, <1>type DEF ModelFails, AuditCall, AuditCallFails
  <2>3. Unwritten' = Unwritten \ {c}
    <3>1. step'[c] = "idle" /\ \A d \in Callers \ {c} : step'[d] = step[d]
      BY <2>1, <1>type
    <3> QED BY <2>2, <3>1 DEF Unwritten
  <2>4. audited' = IF c \in Unwritten /\ AuditCall(c) THEN audited + 1 ELSE audited
    <3>1. CASE AuditCall(c)
      BY <3>1 DEF AuditCall, Unwritten, SpentInv
    <3>2. CASE ~AuditCall(c)
      BY <1>end, <3>2 DEF ModelFails, AuditCallFails
    <3> QED BY <3>1, <3>2
  <2>5. audited' \in Nat /\ audited' + Cardinality(Unwritten') <= audited + Cardinality(Unwritten)
    BY <2>3, <2>4, FewerUnwritten, UnwrittenFinite DEF SpentInv
  <2>6. Cardinality(Unwritten)' \in Nat
    BY <2>3, UnwrittenFinite, FS_RemoveElement, FS_CardinalityType
  <2> QED BY <1>inv, <1>type, <2>1, <2>2, <2>5, <2>6, UnwrittenFinite DEF SpentInv
<1>set. ASSUME NEW b \in Ceilings, SetCeiling(b) PROVE SpentInv'
  BY <1>set, <1>still DEF SetCeiling
<1>stutter. UNCHANGED ivars => SpentInv'
  BY <1>still DEF ivars
<1> QED BY <1>ask, <1>answer, <1>end, <1>set, <1>stutter DEF IBNext

\* The finding of the run budget_restart is about the restart and nothing else: as long
\* as the process lives, whichever calls fail, whichever rows are lost and however the
\* budget is changed, the meter holds every call whose row was written.
THEOREM SpendSurvivesWithoutRestart ==
  IBInit /\ [][IBNext /\ ~Restart]_ivars => []SpendSurvivesRestart
<1>1. IBInit => SpentInv
  <2> SUFFICES ASSUME IBInit PROVE SpentInv
    OBVIOUS
  <2>1. Unwritten = {}
    BY DEF IBInit, Unwritten
  <2>2. Cardinality(Unwritten) = 0
    BY <2>1, FS_EmptySet
  <2> QED BY <2>2, BudgetStarts DEF IBInit, Fresh, SpentInv
<1>2. SpentInv => SpendSurvivesRestart
  BY UnwrittenFinite DEF SpentInv, BudgetInv, SpendSurvivesRestart
<1> QED BY <1>1, <1>2, SpentStep, PTL

\* And the restart forgets all of it: the rows it reads hold no cost, whatever was spent.
THEOREM RestartForgetsTheSpend == IBSpec => [][Restart => meter'.cost = 0]_ivars
<1>1. BudgetInv /\ [IBNext]_ivars => [Restart => meter'.cost = 0]_ivars
  BY DEF BudgetInv, Restart
<1> QED BY <1>1, BudgetStarts, BudgetStep, PTL DEF IBSpec

-------------------------------------------------------------------------------
(* SourceWebhooks: for any tenants, any deliveries of the four billers and    *)
(* any size of the cache.                                                     *)

\* What the cache may hold: failures the customer can act on, each under its own key.
Remembered ==
  {[key |-> Key(d), of |-> d] :
     d \in {e \in Deliveries : e.id # NotGiven /\ Classify(e) \notin {NotCustomer, Unmapped}}}

WebhookInv == cache \in Seq(Remembered) /\ AnswersItsOwnFailure

\* Whatever Stripe says, the customer can act on it.
LEMMA StripeIsOurs == ASSUME NEW d, d.source = "stripe" PROVE Classify(d) \notin {NotCustomer, Unmapped}
<1>1. Classify(d) = ResolveFailureCode(d.body)
  BY DEF Classify
<1>2. \A a \in DOMAIN AdviceOverrides : AdviceOverrides[a] \notin {NotCustomer, Unmapped}
  BY DEF AdviceOverrides, NotCustomer, Unmapped
<1>3. \A c \in DOMAIN StripeCodeMap : StripeCodeMap[c] \notin {NotCustomer, Unmapped}
  BY DEF StripeCodeMap, NotCustomer, Unmapped
<1> QED BY <1>1, <1>2, <1>3 DEF ResolveFailureCode, NotCustomer, Unmapped

LEMMA CacheShrinks ==
  ASSUME NEW S, cache \in Seq(S), NEW k
  PROVE  But(k) \in Seq(S) /\ (Cached(k) => EntryOf(k) \in S /\ EntryOf(k).key = k)
<1>1. CASE Cached(k)
  <2>1. PlaceOf(k) \in DOMAIN cache /\ cache[PlaceOf(k)].key = k
    BY <1>1 DEF Cached, PlaceOf
  <2>2. PlaceOf(k) \in 1..Len(cache) /\ Len(cache) \in Nat
    BY <2>1
  <2>3. /\ SubSeq(cache, 1, PlaceOf(k) - 1) \in Seq(S)
        /\ SubSeq(cache, PlaceOf(k) + 1, Len(cache)) \in Seq(S)
    BY <2>2
  <2>4. RemoveAt(cache, PlaceOf(k)) =
          SubSeq(cache, 1, PlaceOf(k) - 1) \o SubSeq(cache, PlaceOf(k) + 1, Len(cache))
    BY <2>2 DEF RemoveAt
  <2>5. But(k) \in Seq(S)
    BY <1>1, <2>3, <2>4 DEF But
  <2> QED BY <2>1, <2>2, <2>5 DEF EntryOf
<1>2. CASE ~Cached(k)
  BY <1>2 DEF But
<1> QED BY <1>1, <1>2

LEMMA DeliveryOk ==
  ASSUME WebhookInv, NEW d \in Deliveries, Deliver(d)
  PROVE  WebhookInv'
<1>1. CASE Reject(d) \/ NotOurs(d) \/ Suspended(d) \/ ReplayClaimed(d)
  <2>1. cache' = cache /\ \E what \in {"invalid webhook", "not handled", "tenant suspended", "replayed"} :
                            reply' = Says(d, what)
    BY <1>1 DEF Reject, NotOurs, Suspended, ReplayClaimed
  <2>2. reply'.said \notin {"ran", "cached"}
    <3>1. PICK what \in {"invalid webhook", "not handled", "tenant suspended", "replayed"} :
            reply' = [to |-> d, said |-> what, of |-> d, mail |-> FALSE]
      BY <2>1 DEF Says
    <3>2. reply'.said = what
      BY <3>1
    <3> QED BY <3>2
  <2> QED BY <2>1, <2>2 DEF WebhookInv, AnswersItsOwnFailure
<1>2. CASE Replay(d)
  <2>1. PICK o : o = EntryOf(Key(d)).of
    OBVIOUS
  <2>2. EntryOf(Key(d)) \in Remembered /\ EntryOf(Key(d)).key = Key(d)
        /\ But(Key(d)) \in Seq(Remembered)
    BY <1>2, CacheShrinks DEF WebhookInv, Replay
  <2>3. cache' \in Seq(Remembered)
    BY <1>2, <2>2 DEF Replay, Touch
  <2>4. Key(o) = Key(d) /\ Classify(o) \notin {NotCustomer, Unmapped}
    BY <2>1, <2>2 DEF Remembered
  <2>5. /\ o.source = d.source /\ o.tenant = d.tenant /\ o.id = d.id
        /\ d.source = "recharge" => o.tried = d.tried
    BY <2>4 DEF Key
  <2>6. reply' = [to |-> d, said |-> "cached", of |-> o, mail |-> ~BillerRetries(o)]
    BY <1>2, <2>1 DEF Replay
  <2> QED BY <2>3, <2>4, <2>5, <2>6 DEF WebhookInv, AnswersItsOwnFailure
<1>3. CASE Recover(d)
  <2>1. Classify(d) \notin {NotCustomer, Unmapped}
    BY <1>3, StripeIsOurs DEF Recover, Runs, Actionable
  <2>2. cache' \in Seq(Remembered)
    <3>1. CASE d.id = NotGiven
      BY <1>3, <3>1 DEF Recover, WebhookInv
    <3>2. CASE d.id # NotGiven
      <4>1. [key |-> Key(d), of |-> d] \in Remembered
        BY <2>1, <3>2 DEF Remembered
      <4>2. But(Key(d)) \in Seq(Remembered)
        BY CacheShrinks DEF WebhookInv
      <4>3. PICK longer : longer = Append(But(Key(d)), [key |-> Key(d), of |-> d])
        OBVIOUS
      <4>4. longer \in Seq(Remembered) /\ longer # <<>>
        BY <4>1, <4>2, <4>3
      <4>5. Tail(longer) \in Seq(Remembered)
        BY <4>4
      <4>6. cache' = IF Len(longer) > CacheMax THEN Tail(longer) ELSE longer
        BY <1>3, <3>2, <4>3 DEF Recover, Put
      <4> QED BY <4>4, <4>5, <4>6
    <3> QED BY <3>1, <3>2
  <2>3. reply' = [to |-> d, said |-> "ran", of |-> d, mail |-> ~BillerRetries(d)]
    BY <1>3 DEF Recover
  <2> QED BY <2>1, <2>2, <2>3 DEF WebhookInv, AnswersItsOwnFailure
<1> QED BY <1>1, <1>2, <1>3 DEF Deliver

\* What a delivery is answered with was worked out for a delivery of the same tenant, the
\* same biller and the same failure, whatever was cached, evicted or sent to another tenant
\* in between, and a text is in it only if the customer can act and the biller has given up
\* (_idem_key, _idem_get and _idem_put of api.py, under the webhook routes).
THEOREM AnswersAreOwn == WSpec => []AnswersItsOwnFailure
<1>1. WInit => WebhookInv
  BY DEF WInit, WebhookInv, AnswersItsOwnFailure, NoReply
<1>2. WebhookInv /\ [WNext]_wvars => WebhookInv'
  <2> SUFFICES ASSUME WebhookInv, [WNext]_wvars PROVE WebhookInv'
    OBVIOUS
  <2>1. CASE UNCHANGED wvars
    BY <2>1 DEF wvars, WebhookInv, AnswersItsOwnFailure
  <2>2. CASE \E d \in Deliveries : Deliver(d)
    BY <2>2, DeliveryOk
  <2>3. CASE \E t \in Tenants, s \in {"active", "suspended", "offboarded"} : ChangeStatus(t, s)
    BY <2>3 DEF ChangeStatus, WebhookInv, AnswersItsOwnFailure
  <2>4. CASE RestartServer
    BY <2>4 DEF RestartServer, WebhookInv, AnswersItsOwnFailure
  <2> QED BY <2>1, <2>2, <2>3, <2>4 DEF WNext
<1>3. WebhookInv => AnswersItsOwnFailure
  BY DEF WebhookInv
<1> QED BY <1>1, <1>2, <1>3, PTL DEF WSpec

-------------------------------------------------------------------------------
(* ApiEdge: for any threads, addresses, limits and times.                     *)

LEMMA LeastIs ==
  ASSUME NEW S, S \subseteq Nat, S # {}
  PROVE  Min(S) \in S /\ \A y \in S : Min(S) <= y
<1>1. PICK x \in S : \A y \in S : ~(<<y, x>> \in OpToRel(<, Nat))
  BY NatLessThanWellFounded, WFMin
<1>2. ASSUME NEW y \in S PROVE ~(y < x)
  <2>1. y \in Nat /\ x \in Nat
    OBVIOUS
  <2> QED BY <1>1, <2>1, Zenon DEF OpToRel
<1>3. \A y \in S : x <= y
  BY <1>2
<1> QED BY <1>3 DEF Min

\* How many elements of a sequence are of some kind.
Among(s, P) == Cardinality({n \in DOMAIN s : s[n] \in P})

LEMMA AmongIsNat ==
  ASSUME NEW S, NEW s \in Seq(S), NEW P
  PROVE  /\ IsFiniteSet({n \in DOMAIN s : s[n] \in P})
         /\ Among(s, P) \in Nat /\ Among(s, P) <= Len(s)
<1>1. DOMAIN s = 1..Len(s) /\ Len(s) \in Nat
  OBVIOUS
<1>2. IsFiniteSet(1..Len(s)) /\ Cardinality(1..Len(s)) = Len(s)
  BY <1>1, FS_Interval
<1>3. {n \in DOMAIN s : s[n] \in P} \subseteq 1..Len(s)
  BY <1>1
<1> QED BY <1>2, <1>3, FS_Subset, FS_CardinalityType DEF Among

LEMMA AmongMore ==
  ASSUME NEW S, NEW s \in Seq(S), NEW e \in S, NEW P
  PROVE  Among(Append(s, e), P) = Among(s, P) + (IF e \in P THEN 1 ELSE 0)
<1> DEFINE these == {n \in DOMAIN s : s[n] \in P}
           more  == {n \in DOMAIN Append(s, e) : Append(s, e)[n] \in P}
           last  == Len(s) + 1
<1>1. /\ DOMAIN s = 1..Len(s) /\ Len(s) \in Nat /\ DOMAIN Append(s, e) = 1..last
      /\ Append(s, e)[last] = e /\ \A n \in 1..Len(s) : Append(s, e)[n] = s[n]
  OBVIOUS
<1>2. IsFiniteSet(these) /\ last \notin these /\ Cardinality(these) \in Nat
  <2>1. IsFiniteSet(these)
    BY AmongIsNat
  <2>2. Cardinality(these) \in Nat
    BY <2>1, FS_CardinalityType
  <2>3. last \notin these
    BY <1>1
  <2> QED BY <2>1, <2>2, <2>3
<1>3. CASE e \in P
  <2>1. more = these \cup {last}
    BY <1>1, <1>3
  <2>2. Cardinality(these \cup {last}) = Cardinality(these) + 1
    BY <1>2, FS_AddElement
  <2> QED BY <1>3, <2>1, <2>2 DEF Among
<1>4. CASE e \notin P
  <2>1. more = these
    BY <1>1, <1>4
  <2> HIDE DEF these, more
  <2>2. Among(Append(s, e), P) = Cardinality(more) /\ Among(s, P) = Cardinality(these)
    BY DEF Among, these, more
  <2> QED BY <1>2, <1>4, <2>1, <2>2
<1> QED BY <1>3, <1>4

\* What a window keeps.
FromOn(T) == {v \in Nat : v >= T}

\* Pruning only drops what is older than the window.
LEMMA PruningKeeps ==
  ASSUME NEW h \in Seq(Nat), NEW now \in Nat
  PROVE  /\ Pruned(h, now) \in Seq(Nat) /\ Len(Pruned(h, now)) <= Len(h)
         /\ \A T \in Int : T >= now - Window => Among(h, FromOn(T)) <= Among(Pruned(h, now), FromOn(T))
<1> DEFINE fresh == {n \in DOMAIN h : now - h[n] <= Window}
           k == Min(fresh)
           p == Pruned(h, now)
<1>1. DOMAIN h = 1..Len(h) /\ Len(h) \in Nat /\ \A n \in DOMAIN h : h[n] \in Nat
  OBVIOUS
<1>2. CASE fresh = {}
  <2>1. p = <<>>
    BY <1>2 DEF Pruned
  <2>2. ASSUME NEW T \in Int, T >= now - Window PROVE Among(h, FromOn(T)) <= Among(p, FromOn(T))
    <3>1. {n \in DOMAIN h : h[n] \in FromOn(T)} = {}
      BY <1>1, <1>2, <2>2, EdgeAssumption DEF FromOn
    <3>2. Among(h, FromOn(T)) = 0
      BY <3>1, FS_EmptySet DEF Among
    <3>3. p \in Seq(Nat)
      BY <2>1
    <3>4. Among(p, FromOn(T)) \in Nat
      BY <3>3, AmongIsNat
    <3> QED BY <3>2, <3>4
  <2> QED BY <1>1, <2>1, <2>2
<1>3. CASE fresh # {}
  <2>1. k \in fresh /\ \A y \in fresh : k <= y
    <3>1. fresh \subseteq Nat
      BY <1>1
    <3> QED BY <1>3, <3>1, LeastIs
  <2>2. k \in 1..Len(h)
    BY <1>1, <2>1
  <2>3. p = SubSeq(h, k, Len(h))
    BY <1>3 DEF Pruned
  <2> HIDE DEF k, p
  <2>4. /\ p \in Seq(Nat) /\ Len(p) = Len(h) - k + 1 /\ DOMAIN p = 1..(Len(h) - k + 1)
        /\ \A n \in 1..(Len(h) - k + 1) : p[n] = h[k + n - 1]
    BY <1>1, <2>2, <2>3
  <2>5. ASSUME NEW T \in Int, T >= now - Window PROVE Among(h, FromOn(T)) <= Among(p, FromOn(T))
    <3> DEFINE A == {n \in DOMAIN h : h[n] \in FromOn(T)}
               B == {n \in DOMAIN p : p[n] \in FromOn(T)}
               f == [n \in A |-> n - k + 1]
    <3>1. ASSUME NEW n \in A PROVE n \in k..Len(h)
      <4>1. n \in 1..Len(h) /\ h[n] \in Nat /\ h[n] >= T
        BY <1>1 DEF FromOn
      <4>2. n \in fresh
        BY <1>1, <2>5, <4>1, EdgeAssumption
      <4>3. k <= n
        BY <2>1, <4>2
      <4> QED BY <2>2, <4>1, <4>3
    <3>2. ASSUME NEW n \in A PROVE f[n] \in B
      <4>1. n - k + 1 \in 1..(Len(h) - k + 1)
        BY <1>1, <2>2, <3>1
      <4>2. p[n - k + 1] = h[k + (n - k + 1) - 1]
        BY <2>4, <4>1
      <4>3. k + (n - k + 1) - 1 = n
        BY <2>2, <3>1, <1>1
      <4> QED BY <2>4, <4>1, <4>2, <4>3
    <3>3. \A m, n \in A : f[m] = f[n] => m = n
      BY <1>1, <2>2
    <3>4. f \in Injection(A, B)
      <4>1. f \in [A -> B]
        BY <3>2
      <4> HIDE DEF f, A, B
      <4> QED BY <3>3, <4>1 DEF Injection, IsInjective
    <3>5. IsFiniteSet(B)
      BY <2>4, AmongIsNat
    <3>6. Cardinality(A) <= Cardinality(B)
      BY <3>4, <3>5, FS_Injection
    <3> QED BY <3>6 DEF Among
  <2>6. Len(p) <= Len(h)
    BY <1>1, <2>2, <2>4
  <2> QED BY <2>4, <2>5, <2>6 DEF p
<1> QED BY <1>2, <1>3

-------------------------------------------------------------------------------
\* The buckets: an ordered map from addresses to hits.
BucketItems == [key : Addresses, value : Seq(Nat)]

IsMap(map) ==
  /\ map \in Seq(BucketItems)
  /\ \A m, n \in DOMAIN map : map[m].key = map[n].key => m = n

BucketOf(map, a) == IF Has(map, a) THEN Item(map, a) ELSE <<>>

LEMMA ItemIs ==
  ASSUME NEW map, IsMap(map), NEW n \in DOMAIN map
  PROVE  Has(map, map[n].key) /\ BucketOf(map, map[n].key) = map[n].value
<1>1. Has(map, map[n].key)
  BY DEF Has
<1>2. Place(map, map[n].key) \in DOMAIN map /\ map[Place(map, map[n].key)].key = map[n].key
  BY DEF Place
<1>3. Place(map, map[n].key) = n
  BY <1>2 DEF IsMap
<1> QED BY <1>1, <1>3 DEF BucketOf, Item

\* Two maps with the same item of a key, or without one, agree on it.
LEMMA SameBucket ==
  ASSUME NEW map, IsMap(map), NEW map2, IsMap(map2), NEW a,
         \A n \in DOMAIN map : map[n].key = a => \E m \in DOMAIN map2 : map2[m] = map[n],
         \A m \in DOMAIN map2 : map2[m].key = a => \E n \in DOMAIN map : map2[m] = map[n]
  PROVE  BucketOf(map2, a) = BucketOf(map, a)
<1>1. CASE Has(map, a)
  <2>1. PICK n \in DOMAIN map : map[n].key = a
    BY <1>1 DEF Has
  <2>2. PICK m \in DOMAIN map2 : map2[m] = map[n]
    BY <2>1
  <2> QED BY <2>1, <2>2, ItemIs
<1>2. CASE ~Has(map, a)
  <2>1. ~Has(map2, a)
    BY <1>2 DEF Has
  <2> QED BY <1>2, <2>1 DEF BucketOf
<1> QED BY <1>1, <1>2

LEMMA DropIs ==
  ASSUME NEW map, IsMap(map), NEW k
  PROVE  /\ IsMap(Drop(map, k)) /\ ~Has(Drop(map, k), k) /\ Len(Drop(map, k)) <= Len(map)
         /\ \A a : a # k => BucketOf(Drop(map, k), a) = BucketOf(map, a)
         /\ \A n \in DOMAIN Drop(map, k) : \E m \in DOMAIN map : Drop(map, k)[n] = map[m]
<1>1. CASE ~Has(map, k)
  BY <1>1 DEF Drop, IsMap
<1>2. CASE Has(map, k)
  <2> DEFINE i == Place(map, k)
             d == Drop(map, k)
             was(n) == IF n < i THEN n ELSE n + 1
  <2>1. i \in DOMAIN map /\ map[i].key = k
    BY <1>2 DEF Has, Place
  <2>2. map \in Seq(BucketItems) /\ DOMAIN map = 1..Len(map) /\ Len(map) \in Nat /\ i \in 1..Len(map)
    BY <2>1 DEF IsMap
  <2>3. d = SubSeq(map, 1, i - 1) \o SubSeq(map, i + 1, Len(map))
    BY <1>2 DEF Drop, RemoveAt
  <2> HIDE DEF i, d
  <2>4. PICK x : x = SubSeq(map, 1, i - 1)
    OBVIOUS
  <2>5. PICK y : y = SubSeq(map, i + 1, Len(map))
    OBVIOUS
  <2>14. x \in Seq(BucketItems) /\ Len(x) = i - 1 /\ \A n \in 1..(i - 1) : x[n] = map[n]
    BY <2>2, <2>4
  <2>15. y \in Seq(BucketItems) /\ Len(y) = Len(map) - i
    <3>1. CASE i = Len(map)
      <4>1. y = <<>>
        BY <2>2, <2>5, <3>1
      <4> QED BY <2>2, <3>1, <4>1
    <3>2. CASE i # Len(map)
      <4>1. i + 1 \in 1..Len(map) /\ Len(map) - (i + 1) + 1 = Len(map) - i
        <5>1. ASSUME NEW m \in Nat, NEW j \in 1..m, j # m
              PROVE  j + 1 \in 1..m /\ m - (j + 1) + 1 = m - j
          BY <5>1
        <5> QED BY <2>2, <3>2, <5>1
      <4>2. y \in Seq(BucketItems) /\ Len(y) = Len(map) - (i + 1) + 1
        BY <2>2, <2>5, <4>1
      <4> QED BY <4>1, <4>2
    <3> QED BY <3>1, <3>2
  <2>16. ASSUME NEW n \in 1..(Len(map) - i) PROVE y[n] = map[i + n]
    <3>1. y[n] = map[(i + 1) + n - 1] /\ (i + 1) + n - 1 = i + n
      BY <2>2, <2>5
    <3> QED BY <3>1
  <2>6. /\ d \in Seq(BucketItems) /\ Len(d) = Len(map) - 1 /\ DOMAIN d = 1..(Len(map) - 1)
        /\ \A n \in 1..(i - 1) : d[n] = x[n]
        /\ \A n \in i..(Len(map) - 1) : d[n] = y[n - (i - 1)]
    <3>1. d = x \o y
      BY <2>3, <2>4, <2>5
    <3>2. Len(d) = (i - 1) + (Len(map) - i) /\ d \in Seq(BucketItems)
      <4>1. d \in Seq(BucketItems)
        BY <2>14, <2>15, <3>1
      <4>2. Len(d) = Len(x) + Len(y)
        <5>1. x \in Seq(BucketItems) /\ y \in Seq(BucketItems)
          BY <2>14, <2>15
        <5> QED BY <3>1, <5>1
      <4> QED BY <2>14, <2>15, <4>1, <4>2
    <3>3. (i - 1) + (Len(map) - i) = Len(map) - 1
      BY <2>2
    <3>4. \A n \in 1..(i - 1) : d[n] = x[n]
      BY <2>2, <2>14, <2>15, <3>1
    <3>5. \A n \in i..(Len(map) - 1) : d[n] = y[n - (i - 1)]
      BY <2>2, <2>14, <2>15, <3>1
    <3> QED BY <3>2, <3>3, <3>4, <3>5
  <2>7. ASSUME NEW n \in DOMAIN d PROVE was(n) \in DOMAIN map /\ was(n) # i /\ d[n] = map[was(n)]
    <3>1. CASE n < i
      <4>1. n \in 1..(i - 1)
        BY <2>2, <2>6, <3>1
      <4> QED BY <2>2, <2>6, <2>14, <3>1, <4>1
    <3>2. CASE ~(n < i)
      <4>1. n - (i - 1) \in 1..(Len(map) - i) /\ n \in i..(Len(map) - 1)
        BY <2>2, <2>6, <3>2
      <4>3. d[n] = map[i + (n - (i - 1))]
        BY <2>6, <2>16, <4>1
      <4>4. i + (n - (i - 1)) = n + 1 /\ n + 1 \in 1..Len(map) /\ n + 1 # i
        BY <2>2, <2>6, <3>2, <4>1
      <4> QED BY <2>2, <3>2, <4>3, <4>4
    <3> QED BY <3>1, <3>2
  <2>8. \A m, n \in DOMAIN d : was(m) = was(n) => m = n
    BY <2>2, <2>6
  <2>9. ASSUME NEW m \in DOMAIN map, m # i PROVE \E n \in DOMAIN d : d[n] = map[m]
    <3>1. CASE m < i
      <4>1. m \in DOMAIN d /\ was(m) = m
        BY <2>2, <2>6, <2>9, <3>1
      <4> QED BY <2>7, <4>1
    <3>2. CASE m > i
      <4>1. m - 1 \in DOMAIN d /\ was(m - 1) = m
        BY <2>2, <2>6, <2>9, <3>2
      <4> QED BY <2>7, <4>1
    <3> QED BY <2>2, <2>9, <3>1, <3>2
  <2> HIDE DEF was
  <2>10. IsMap(d)
    BY <2>6, <2>7, <2>8 DEF IsMap
  <2>11. ~Has(d, k)
    BY <2>1, <2>7 DEF Has, IsMap
  <2>12. ASSUME NEW a, a # k PROVE BucketOf(d, a) = BucketOf(map, a)
    <3>1. \A m \in DOMAIN map : map[m].key = a => \E n \in DOMAIN d : d[n] = map[m]
      BY <2>1, <2>9, <2>12
    <3>2. \A n \in DOMAIN d : d[n].key = a => \E m \in DOMAIN map : d[n] = map[m]
      BY <2>7
    <3> QED BY <2>10, <3>1, <3>2, SameBucket
  <2>13. Len(d) <= Len(map)
    BY <2>2, <2>6
  <2> QED BY <2>7, <2>10, <2>11, <2>12, <2>13 DEF d
<1> QED BY <1>1, <1>2

LEMMA SetLastIs ==
  ASSUME NEW map, IsMap(map), NEW k \in Addresses, NEW v \in Seq(Nat)
  PROVE  /\ IsMap(SetLast(map, k, v)) /\ BucketOf(SetLast(map, k, v), k) = v
         /\ \A a : a # k => BucketOf(SetLast(map, k, v), a) = BucketOf(map, a)
         /\ \A n \in DOMAIN SetLast(map, k, v) :
              SetLast(map, k, v)[n] = [key |-> k, value |-> v]
                \/ \E m \in DOMAIN map : SetLast(map, k, v)[n] = map[m]
<1> DEFINE d == Drop(map, k)
           e == [key |-> k, value |-> v]
           s == SetLast(map, k, v)
<1>1. /\ IsMap(d) /\ ~Has(d, k) /\ \A a : a # k => BucketOf(d, a) = BucketOf(map, a)
      /\ \A n \in DOMAIN d : \E m \in DOMAIN map : d[n] = map[m]
  BY DropIs
<1>2. s = Append(d, e) /\ e \in BucketItems /\ e.key = k /\ e.value = v
  BY DEF SetLast, BucketItems
<1> HIDE DEF d, e, s
<1>3. d \in Seq(BucketItems) /\ DOMAIN d = 1..Len(d) /\ Len(d) \in Nat
  BY <1>1 DEF IsMap
<1>4. /\ s \in Seq(BucketItems) /\ DOMAIN s = 1..(Len(d) + 1) /\ s[Len(d) + 1] = e
      /\ \A n \in 1..Len(d) : s[n] = d[n]
  BY <1>2, <1>3
<1>5. \A n \in 1..Len(d) : s[n].key # k
  BY <1>1, <1>3, <1>4 DEF Has
<1>6. IsMap(s)
  <2>1. ASSUME NEW m \in DOMAIN s, NEW n \in DOMAIN s, s[m].key = s[n].key PROVE m = n
    <3>1. CASE m = Len(d) + 1
      BY <1>2, <1>3, <1>4, <1>5, <2>1, <3>1
    <3>2. CASE n = Len(d) + 1
      BY <1>2, <1>3, <1>4, <1>5, <2>1, <3>2
    <3>3. CASE m \in 1..Len(d) /\ n \in 1..Len(d)
      BY <1>1, <1>3, <1>4, <2>1, <3>3 DEF IsMap
    <3> QED BY <1>3, <1>4, <3>1, <3>2, <3>3
  <2> QED BY <1>4, <2>1 DEF IsMap
<1>7. BucketOf(s, k) = v
  <2>1. Len(d) + 1 \in DOMAIN s /\ s[Len(d) + 1].key = k /\ s[Len(d) + 1].value = v
    BY <1>2, <1>3, <1>4
  <2> QED BY <1>6, <2>1, ItemIs
<1>8. ASSUME NEW a, a # k PROVE BucketOf(s, a) = BucketOf(map, a)
  <2>1. \A n \in DOMAIN d : d[n].key = a => \E m \in DOMAIN s : s[m] = d[n]
    BY <1>3, <1>4
  <2>2. \A m \in DOMAIN s : s[m].key = a => \E n \in DOMAIN d : s[m] = d[n]
    BY <1>2, <1>3, <1>4, <1>8
  <2>3. BucketOf(s, a) = BucketOf(d, a)
    BY <1>1, <1>6, <2>1, <2>2, SameBucket
  <2> QED BY <1>1, <1>8, <2>3
<1>9. ASSUME NEW n \in DOMAIN s PROVE s[n] = e \/ \E m \in DOMAIN map : s[n] = map[m]
  BY <1>1, <1>3, <1>4
<1> QED BY <1>6, <1>7, <1>8, <1>9 DEF s, e

LEMMA CappedIs ==
  ASSUME NEW map, IsMap(map), NEW max \in Nat
  PROVE  /\ IsMap(Capped(map, max))
         /\ \A a : \/ Len(map) > max /\ a = Head(map).key
                   \/ BucketOf(Capped(map, max), a) = BucketOf(map, a)
         /\ \A n \in DOMAIN Capped(map, max) : \E m \in DOMAIN map : Capped(map, max)[n] = map[m]
         /\ Len(map) > max => Head(map).key \in Addresses
<1>1. CASE ~(Len(map) > max)
  BY <1>1 DEF Capped
<1>2. CASE Len(map) > max
  <2> DEFINE t == Capped(map, max)
  <2>1. t = Tail(map)
    BY <1>2 DEF Capped
  <2> HIDE DEF t
  <2>2. map \in Seq(BucketItems) /\ Len(map) \in Nat /\ Len(map) >= 1 /\ DOMAIN map = 1..Len(map)
    BY <1>2 DEF IsMap
  <2>3. /\ t \in Seq(BucketItems) /\ DOMAIN t = 1..(Len(map) - 1) /\ Head(map) = map[1]
        /\ \A n \in 1..(Len(map) - 1) : t[n] = map[n + 1]
    BY <2>1, <2>2
  <2>4. IsMap(t)
    <3>1. ASSUME NEW m \in DOMAIN t, NEW n \in DOMAIN t, t[m].key = t[n].key PROVE m = n
      <4>1. m + 1 \in DOMAIN map /\ n + 1 \in DOMAIN map /\ t[m] = map[m + 1] /\ t[n] = map[n + 1]
        BY <2>2, <2>3
      <4>2. m + 1 = n + 1
        BY <3>1, <4>1 DEF IsMap
      <4> QED BY <2>2, <2>3, <4>2
    <3> QED BY <2>3, <3>1 DEF IsMap
  <2>5. ASSUME NEW n \in DOMAIN t PROVE \E m \in DOMAIN map : t[n] = map[m]
    <3>1. n + 1 \in DOMAIN map
      BY <2>2, <2>3
    <3> QED BY <2>3, <3>1
  <2>6. ASSUME NEW a, a # Head(map).key PROVE BucketOf(t, a) = BucketOf(map, a)
    <3>1. ASSUME NEW n \in DOMAIN map, map[n].key = a PROVE \E m \in DOMAIN t : t[m] = map[n]
      <4>1. n # 1 /\ n - 1 \in DOMAIN t /\ (n - 1) + 1 = n
        BY <2>2, <2>3, <2>6, <3>1
      <4> QED BY <2>3, <4>1
    <3> QED BY <2>4, <2>5, <3>1, SameBucket
  <2>7. Head(map).key \in Addresses
    <3>1. map[1] \in BucketItems
      BY <2>2
    <3> QED BY <2>3, <3>1 DEF BucketItems
  <2> QED BY <1>2, <2>4, <2>5, <2>6, <2>7 DEF t
<1> QED BY <1>1, <1>2

-------------------------------------------------------------------------------
\* The requests that passed since a reading of the clock.
Passes == [at : Nat, of : Addresses, by : Threads, read : Nat]
PassedSince(T, who) == {p \in Passes : p.of \in who /\ p.read >= T}
Since(T, who) == Among(admitted, PassedSince(T, who))
Recent(h, T) == Among(h, FromOn(T))

EdgeRequests == [route : Routes, address : Addresses, key : RequestKeys \cup {NoRequestKey}]
ThreadStates ==
  {Free} \cup [at : {"graph", "fill"}, request : EdgeRequests]
    \cup [at : {"limiter"}, request : EdgeRequests, now : Nat]

EdgeTypes ==
  /\ clockE \in Nat
  /\ globalHits \in Seq(Nat) /\ Len(globalHits) <= GlobalMax
  /\ IsMap(rateHits) /\ \A n \in DOMAIN rateHits : Len(rateHits[n].value) <= RateMax
  /\ admitted \in Seq(Passes)
  /\ thread \in [Threads -> ThreadStates]
  /\ \A t \in Threads : thread[t].at = "limiter" => thread[t].now <= clockE

\* A thread reads the clock for one request after it has let the one before it pass.
ReadingsInv ==
  /\ \A n \in DOMAIN admitted : admitted[n].at <= clockE
  /\ \A t \in Threads : thread[t].at = "limiter" =>
       \A n \in DOMAIN admitted : admitted[n].by = t => admitted[n].at <= thread[t].now
  /\ \A m, n \in DOMAIN admitted :
       m < n /\ admitted[m].by = admitted[n].by => admitted[m].at <= admitted[n].read

\* What passed with a reading of the last window is still among the hits.
HitsInv ==
  \A T \in Int : T >= clockE - Window =>
    /\ Since(T, Addresses) <= Recent(globalHits, T)
    /\ \A a \in Addresses \ forgotten : Since(T, {a}) <= Recent(BucketOf(rateHits, a), T)

EdgeInv == EdgeTypes /\ ReadingsInv /\ HitsInv

LEMMA BucketIsHits ==
  ASSUME NEW map, IsMap(map), \A n \in DOMAIN map : Len(map[n].value) <= RateMax, NEW a
  PROVE  BucketOf(map, a) \in Seq(Nat) /\ Len(BucketOf(map, a)) <= RateMax
<1>1. CASE Has(map, a)
  <2>1. PICK n \in DOMAIN map : map[n].key = a
    BY <1>1 DEF Has
  <2>2. BucketOf(map, a) = map[n].value
    BY <2>1, ItemIs
  <2>3. map[n] \in BucketItems
    BY DEF IsMap
  <2> QED BY <2>2, <2>3 DEF BucketItems
<1>2. CASE ~Has(map, a)
  BY <1>2, EdgeAssumption DEF BucketOf
<1> QED BY <1>1, <1>2


\* What a thread finds in the windows under the limiter's lock.
GlobalOf(t) == Pruned(globalHits, thread[t].now)
MineOf(t) ==
  IF Has(rateHits, thread[t].request.address)
  THEN Pruned(Item(rateHits, thread[t].request.address), thread[t].now) ELSE <<>>

\* The limiter reads a request of a known address, at a time that has come, and
\* pruning loses no hit of the last window.
LEMMA LimitReads ==
  ASSUME EdgeInv, NEW t \in Threads, Limit(t)
  PROVE  /\ thread[t].request \in EdgeRequests /\ thread[t].request.address \in Addresses
         /\ thread[t].now \in Nat /\ thread[t].now <= clockE
         /\ GlobalOf(t) \in Seq(Nat) /\ Len(GlobalOf(t)) <= GlobalMax
         /\ MineOf(t) \in Seq(Nat) /\ Len(MineOf(t)) <= RateMax
         /\ \A T \in Int : T >= clockE - Window =>
              /\ Recent(globalHits, T) <= Recent(GlobalOf(t), T)
              /\ Recent(BucketOf(rateHits, thread[t].request.address), T) <= Recent(MineOf(t), T)
<1>1. thread[t].at = "limiter"
  BY DEF Limit
<1>2. thread[t] \in [at : {"limiter"}, request : EdgeRequests, now : Nat]
  <2>1. thread[t] \in ThreadStates
    BY DEF EdgeInv, EdgeTypes
  <2> QED BY <1>1, <2>1 DEF ThreadStates, Free
<1>3. PICK a, now : a = thread[t].request.address /\ now = thread[t].now
  OBVIOUS
<1>4. a \in Addresses /\ now \in Nat /\ now <= clockE /\ thread[t].request \in EdgeRequests
  BY <1>1, <1>2, <1>3 DEF EdgeInv, EdgeTypes, EdgeRequests
<1>5. PICK global : global = GlobalOf(t)
  OBVIOUS
<1>6. PICK mine : mine = MineOf(t)
  OBVIOUS
<1>7. ASSUME NEW T \in Int, T >= clockE - Window PROVE T >= now - Window
  BY <1>4, <1>7, EdgeAssumption DEF EdgeInv, EdgeTypes
<1>8. /\ global \in Seq(Nat) /\ Len(global) <= GlobalMax
      /\ \A T \in Int : T >= clockE - Window => Recent(globalHits, T) <= Recent(global, T)
  <2>1. /\ global \in Seq(Nat) /\ Len(global) <= Len(globalHits)
        /\ \A T \in Int : T >= now - Window => Recent(globalHits, T) <= Recent(global, T)
    BY <1>3, <1>4, <1>5, PruningKeeps DEF EdgeInv, EdgeTypes, Recent, GlobalOf
  <2> QED BY <1>7, <2>1, EdgeAssumption DEF EdgeInv, EdgeTypes
<1>9. /\ mine \in Seq(Nat) /\ Len(mine) <= RateMax
      /\ \A T \in Int : T >= clockE - Window => Recent(BucketOf(rateHits, a), T) <= Recent(mine, T)
  <2>1. BucketOf(rateHits, a) \in Seq(Nat) /\ Len(BucketOf(rateHits, a)) <= RateMax
    BY BucketIsHits DEF EdgeInv, EdgeTypes
  <2>2. CASE Has(rateHits, a)
    <3>1. PICK h : h = BucketOf(rateHits, a)
      OBVIOUS
    <3>2. mine = Pruned(h, now)
      BY <1>3, <1>6, <2>2, <3>1 DEF BucketOf, MineOf
    <3>3. /\ mine \in Seq(Nat) /\ Len(mine) <= Len(h)
          /\ \A T \in Int : T >= now - Window => Recent(h, T) <= Recent(mine, T)
      BY <1>4, <2>1, <3>1, <3>2, PruningKeeps DEF Recent
    <3>4. Len(mine) <= RateMax
      BY <2>1, <3>1, <3>3, EdgeAssumption
    <3> QED BY <1>7, <3>1, <3>3, <3>4
  <2>3. CASE ~Has(rateHits, a)
    <3>1. mine = <<>> /\ BucketOf(rateHits, a) = <<>>
      BY <1>3, <1>6, <2>3 DEF BucketOf, MineOf
    <3>2. ASSUME NEW T \in Int PROVE Recent(mine, T) \in Nat
      <4>1. mine \in Seq(Nat)
        BY <3>1
      <4> QED BY <4>1, AmongIsNat DEF Recent
    <3>3. mine \in Seq(Nat) /\ Len(mine) <= RateMax
      BY <3>1, EdgeAssumption
    <3>4. ASSUME NEW T \in Int PROVE Recent(BucketOf(rateHits, a), T) <= Recent(mine, T)
      BY <3>1, <3>2
    <3> QED BY <3>3, <3>4
  <2> QED BY <2>2, <2>3
<1> QED BY <1>3, <1>4, <1>5, <1>6, <1>8, <1>9

\* What the limiter does with a request: the global window turns it away, its own
\* window does, or it passes.
TurnsAway(t) ==
  /\ globalHits' = GlobalOf(t) /\ UNCHANGED <<rateHits, admitted, forgotten>>
  /\ thread' = [thread EXCEPT ![t] = Free]

Keeps(t, bucket, map) ==
  /\ IsMap(map) /\ bucket \in Seq(Nat) /\ BucketOf(map, thread[t].request.address) = bucket
  /\ \A b : b # thread[t].request.address => BucketOf(map, b) = BucketOf(rateHits, b)
  /\ \A n \in DOMAIN map : map[n].value = bucket \/ \E m \in DOMAIN rateHits : map[n] = rateHits[m]
  /\ rateHits' = Capped(map, MaxTracked)
  /\ forgotten' = IF Len(map) > MaxTracked THEN forgotten \cup {Head(map).key} ELSE forgotten

Refuses(t) ==
  /\ \E map : Keeps(t, MineOf(t), map)
  /\ globalHits' = GlobalOf(t) /\ UNCHANGED admitted
  /\ thread' = [thread EXCEPT ![t] = Free]

PassOf(t) == [at |-> clockE, of |-> thread[t].request.address, by |-> t, read |-> thread[t].now]

LetsPass(t) ==
  /\ \E map : Keeps(t, Append(MineOf(t), thread[t].now), map)
  /\ Len(MineOf(t)) < RateMax /\ Len(GlobalOf(t)) < GlobalMax
  /\ globalHits' = Append(GlobalOf(t), thread[t].now)
  /\ admitted' = Append(admitted, PassOf(t))
  /\ thread' = [thread EXCEPT ![t] = [at |-> "graph", request |-> thread[t].request]]

LEMMA LimitIs ==
  ASSUME EdgeInv, NEW t \in Threads, Limit(t)
  PROVE  TurnsAway(t) \/ Refuses(t) \/ LetsPass(t)
<1>1. PICK a, now, global, mine :
        a = thread[t].request.address /\ now = thread[t].now /\ global = GlobalOf(t) /\ mine = MineOf(t)
  OBVIOUS
<1>2. /\ a \in Addresses /\ now \in Nat /\ global \in Seq(Nat) /\ mine \in Seq(Nat)
      /\ Len(mine) \in Nat /\ Len(global) \in Nat
  <2>1. a \in Addresses /\ now \in Nat /\ global \in Seq(Nat) /\ mine \in Seq(Nat)
    BY <1>1, LimitReads
  <2> QED BY <2>1
<1>3. CASE Len(global) >= GlobalMax
  BY <1>1, <1>3 DEF Limit, TurnsAway, GlobalOf
<1>4. ASSUME ~(Len(global) >= GlobalMax), NEW bucket, NEW map, bucket \in Seq(Nat),
             map = IF bucket = <<>> THEN Drop(rateHits, a) ELSE SetLast(rateHits, a, bucket),
             rateHits' = Capped(map, MaxTracked),
             forgotten' = IF Len(map) > MaxTracked THEN forgotten \cup {Head(map).key} ELSE forgotten
      PROVE  Keeps(t, bucket, map)
  <2>0. IsMap(rateHits)
    BY DEF EdgeInv, EdgeTypes
  <2>1. CASE bucket = <<>>
    <3>1. map = Drop(rateHits, a)
      BY <1>4, <2>1
    <3>2. /\ IsMap(map) /\ ~Has(map, a) /\ \A b : b # a => BucketOf(map, b) = BucketOf(rateHits, b)
          /\ \A n \in DOMAIN map : \E m \in DOMAIN rateHits : map[n] = rateHits[m]
      BY <2>0, <3>1, DropIs
    <3>3. BucketOf(map, a) = bucket
      BY <2>1, <3>2 DEF BucketOf
    <3> QED BY <1>1, <1>4, <3>2, <3>3 DEF Keeps
  <2>2. CASE bucket # <<>>
    <3>1. map = SetLast(rateHits, a, bucket)
      BY <1>4, <2>2
    <3>2. /\ IsMap(map) /\ BucketOf(map, a) = bucket
          /\ \A b : b # a => BucketOf(map, b) = BucketOf(rateHits, b)
          /\ \A n \in DOMAIN map : map[n] = [key |-> a, value |-> bucket] \/ \E m \in DOMAIN rateHits : map[n] = rateHits[m]
      <4>1. a \in Addresses /\ bucket \in Seq(Nat)
        BY <1>2, <1>4
      <4>2. /\ IsMap(SetLast(rateHits, a, bucket)) /\ BucketOf(SetLast(rateHits, a, bucket), a) = bucket
            /\ \A b : b # a => BucketOf(SetLast(rateHits, a, bucket), b) = BucketOf(rateHits, b)
            /\ \A n \in DOMAIN SetLast(rateHits, a, bucket) :
                 \/ SetLast(rateHits, a, bucket)[n] = [key |-> a, value |-> bucket]
                 \/ \E m \in DOMAIN rateHits : SetLast(rateHits, a, bucket)[n] = rateHits[m]
        BY <2>0, <4>1, SetLastIs
      <4> QED BY <3>1, <4>2
    <3>3. ASSUME NEW n \in DOMAIN map
          PROVE  map[n].value = bucket \/ \E m \in DOMAIN rateHits : map[n] = rateHits[m]
      <4>1. CASE map[n] = [key |-> a, value |-> bucket]
        BY <4>1
      <4>2. CASE \E m \in DOMAIN rateHits : map[n] = rateHits[m]
        BY <4>2
      <4> QED BY <3>2, <4>1, <4>2
    <3> QED BY <1>1, <1>4, <3>2, <3>3 DEF Keeps
  <2> QED BY <2>1, <2>2
<1>5. CASE ~(Len(global) >= GlobalMax) /\ Len(mine) >= RateMax
  <2>1. PICK map : map = IF mine = <<>> THEN Drop(rateHits, a) ELSE SetLast(rateHits, a, mine)
    OBVIOUS
  <2>2. /\ globalHits' = global /\ UNCHANGED admitted
        /\ rateHits' = Capped(map, MaxTracked)
        /\ forgotten' = IF Len(map) > MaxTracked THEN forgotten \cup {Head(map).key} ELSE forgotten
        /\ thread' = [thread EXCEPT ![t] = Free]
    BY <1>1, <1>5, <2>1 DEF Limit, GlobalOf, MineOf
  <2>3. Keeps(t, mine, map)
    BY <1>2, <1>4, <1>5, <2>1, <2>2
  <2> QED BY <1>1, <2>2, <2>3 DEF Refuses
<1>6. CASE ~(Len(global) >= GlobalMax) /\ ~(Len(mine) >= RateMax)
  <2>1. PICK bucket : bucket = Append(mine, now)
    OBVIOUS
  <2>2. PICK map : map = IF bucket = <<>> THEN Drop(rateHits, a) ELSE SetLast(rateHits, a, bucket)
    OBVIOUS
  <2>3. /\ globalHits' = Append(global, now)
        /\ rateHits' = Capped(map, MaxTracked)
        /\ forgotten' = IF Len(map) > MaxTracked THEN forgotten \cup {Head(map).key} ELSE forgotten
        /\ admitted' = Append(admitted, PassOf(t))
        /\ thread' = [thread EXCEPT ![t] = [at |-> "graph", request |-> thread[t].request]]
    BY <1>1, <1>6, <2>1, <2>2 DEF Limit, GlobalOf, MineOf, Counted, PassOf
  <2>4. Keeps(t, bucket, map)
    <3>1. bucket \in Seq(Nat)
      BY <1>2, <2>1
    <3> QED BY <1>4, <1>6, <2>2, <2>3, <3>1
  <2>5. Len(mine) < RateMax /\ Len(global) < GlobalMax
    BY <1>2, <1>6, EdgeAssumption
  <2> QED BY <1>1, <2>1, <2>3, <2>4, <2>5 DEF LetsPass
<1> QED BY <1>3, <1>5, <1>6

\* The map after the limiter: it keeps every bucket but its own and the one the cap
\* pushes out.
LEMMA KeepsBuckets ==
  ASSUME EdgeInv, NEW t \in Threads, Limit(t), NEW bucket, NEW map, Keeps(t, bucket, map),
         Len(bucket) <= RateMax
  PROVE  /\ IsMap(rateHits') /\ \A n \in DOMAIN rateHits' : Len(rateHits'[n].value) <= RateMax
         /\ forgotten \subseteq forgotten'
         /\ \A a \in Addresses \ forgotten' :
              IF a = thread[t].request.address THEN BucketOf(rateHits', a) = bucket
              ELSE BucketOf(rateHits', a) = BucketOf(rateHits, a)
<1>1. PICK m : m = Capped(map, MaxTracked)
  OBVIOUS
<1>2. rateHits' = m
  BY <1>1 DEF Keeps
<1>3. /\ IsMap(m)
      /\ \A a : \/ Len(map) > MaxTracked /\ a = Head(map).key
                \/ BucketOf(m, a) = BucketOf(map, a)
      /\ \A n \in DOMAIN m : \E k \in DOMAIN map : m[n] = map[k]
  <2>1. IsMap(map) /\ MaxTracked \in Nat
    BY EdgeAssumption DEF Keeps
  <2>2. /\ IsMap(Capped(map, MaxTracked))
        /\ \A a : \/ Len(map) > MaxTracked /\ a = Head(map).key
                  \/ BucketOf(Capped(map, MaxTracked), a) = BucketOf(map, a)
        /\ \A n \in DOMAIN Capped(map, MaxTracked) :
             \E k \in DOMAIN map : Capped(map, MaxTracked)[n] = map[k]
    BY <2>1, CappedIs
  <2> QED BY <1>1, <2>2
<1>4. ASSUME NEW n \in DOMAIN m PROVE Len(m[n].value) <= RateMax
  <2>1. PICK k \in DOMAIN map : m[n] = map[k]
    BY <1>3
  <2>2. map[k].value = bucket \/ \E j \in DOMAIN rateHits : map[k] = rateHits[j]
    BY DEF Keeps
  <2> QED BY <2>1, <2>2 DEF EdgeInv, EdgeTypes
<1>5. forgotten \subseteq forgotten'
  BY DEF Keeps
<1>6. ASSUME NEW a \in Addresses \ forgotten' PROVE BucketOf(m, a) = BucketOf(map, a)
  <2>1. ~(Len(map) > MaxTracked /\ a = Head(map).key)
    BY <1>6 DEF Keeps
  <2> QED BY <1>3, <2>1
<1> QED BY <1>2, <1>3, <1>4, <1>5, <1>6 DEF Keeps

LEMMA SinceIsNat ==
  ASSUME EdgeInv, NEW T, NEW who
  PROVE  Since(T, who) \in Nat
BY AmongIsNat DEF Since, EdgeInv, EdgeTypes

LEMMA RecentIsNat ==
  ASSUME NEW h \in Seq(Nat), NEW T
  PROVE  Recent(h, T) \in Nat
BY AmongIsNat DEF Recent

\* The limiter keeps the windows' types, and no hit of the last window is lost.
LEMMA LimitTypes ==
  ASSUME EdgeInv, NEW t \in Threads, Limit(t)
  PROVE  EdgeTypes'
<1>1. /\ clockE' = clockE /\ clockE \in Nat
      /\ rateHits' = rateHits \/ \E bucket, map : Keeps(t, bucket, map) /\ Len(bucket) <= RateMax
      /\ globalHits' \in Seq(Nat) /\ Len(globalHits') <= GlobalMax
      /\ admitted' \in Seq(Passes)
  <2>0. clockE' = clockE /\ clockE \in Nat /\ admitted \in Seq(Passes)
    BY DEF Limit, EdgeInv, EdgeTypes
  <2>1. /\ GlobalOf(t) \in Seq(Nat) /\ Len(GlobalOf(t)) <= GlobalMax
        /\ MineOf(t) \in Seq(Nat) /\ Len(MineOf(t)) <= RateMax /\ thread[t].now \in Nat
    BY LimitReads
  <2>2. CASE TurnsAway(t)
    BY <2>0, <2>1, <2>2 DEF TurnsAway
  <2>3. CASE Refuses(t)
    BY <2>0, <2>1, <2>3 DEF Refuses
  <2>4. CASE LetsPass(t)
    <3>1. PassOf(t) \in Passes
      BY <2>0, LimitReads DEF PassOf, Passes
    <3>2. admitted' \in Seq(Passes)
      BY <2>0, <2>4, <3>1 DEF LetsPass
    <3>3. PICK global, now : global = GlobalOf(t) /\ now = thread[t].now
      OBVIOUS
    <3>4. Append(global, now) \in Seq(Nat) /\ Len(Append(global, now)) <= GlobalMax
      BY <2>1, <2>4, <3>3, EdgeAssumption DEF LetsPass
    <3>5. PICK mine : mine = MineOf(t)
      OBVIOUS
    <3>6. Len(Append(mine, now)) <= RateMax
      BY <2>1, <2>4, <3>3, <3>5, EdgeAssumption DEF LetsPass
    <3> QED BY <2>0, <2>4, <3>2, <3>3, <3>4, <3>5, <3>6 DEF LetsPass
  <2> QED BY <2>2, <2>3, <2>4, LimitIs
<1>2. IsMap(rateHits') /\ \A n \in DOMAIN rateHits' : Len(rateHits'[n].value) <= RateMax
  BY <1>1, KeepsBuckets DEF EdgeInv, EdgeTypes
<1>3. /\ thread' \in [Threads -> ThreadStates]
      /\ \A u \in Threads : thread'[u].at = "limiter" => thread'[u] = thread[u]
  <2>1. PICK after \in ThreadStates : thread' = [thread EXCEPT ![t] = after] /\ after.at # "limiter"
    <3>1. thread' = [thread EXCEPT ![t] = Free] \/ thread' = [thread EXCEPT ![t] = [at |-> "graph", request |-> thread[t].request]]
      BY LimitIs DEF TurnsAway, Refuses, LetsPass
    <3>2. CASE thread' = [thread EXCEPT ![t] = Free]
      <4>1. Free \in ThreadStates /\ Free.at # "limiter"
        BY DEF ThreadStates, Free
      <4> QED BY <3>2, <4>1
    <3>3. CASE thread' = [thread EXCEPT ![t] = [at |-> "graph", request |-> thread[t].request]]
      <4>1. [at |-> "graph", request |-> thread[t].request] \in ThreadStates
        BY LimitReads DEF ThreadStates
      <4> QED BY <3>3, <4>1
    <3> QED BY <3>1, <3>2, <3>3
  <2> QED BY <2>1 DEF EdgeInv, EdgeTypes
<1>4. \A u \in Threads : thread'[u].at = "limiter" => thread'[u].now <= clockE'
  BY <1>1, <1>3 DEF EdgeInv, EdgeTypes
<1> QED BY <1>1, <1>2, <1>3, <1>4 DEF EdgeTypes

LEMMA LimitReadings ==
  ASSUME EdgeInv, NEW t \in Threads, Limit(t)
  PROVE  ReadingsInv'
<1>1. /\ clockE' = clockE /\ clockE \in Nat /\ thread[t].at = "limiter"
      /\ admitted \in Seq(Passes) /\ thread \in [Threads -> ThreadStates]
  BY DEF Limit, EdgeInv, EdgeTypes
<1>2. /\ \A u \in Threads : thread'[u].at = "limiter" => u # t /\ thread'[u] = thread[u]
  <2>1. PICK after : thread' = [thread EXCEPT ![t] = after] /\ after.at # "limiter"
    <3>1. thread' = [thread EXCEPT ![t] = Free] \/ thread' = [thread EXCEPT ![t] = [at |-> "graph", request |-> thread[t].request]]
      BY LimitIs DEF TurnsAway, Refuses, LetsPass
    <3>2. Free.at # "limiter" /\ [at |-> "graph", request |-> thread[t].request].at # "limiter"
      BY DEF Free
    <3> QED BY <3>1, <3>2
  <2> QED BY <1>1, <2>1
<1>3. CASE admitted' = admitted
  BY <1>1, <1>2, <1>3 DEF EdgeInv, ReadingsInv
<1>4. CASE admitted' = Append(admitted, PassOf(t))
  <2>1. PICK p, more : p = PassOf(t) /\ more = Append(admitted, p)
    OBVIOUS
  <2>2. p \in Passes /\ p.at = clockE /\ p.by = t /\ p.read = thread[t].now
    BY <1>1, <2>1, LimitReads DEF PassOf, Passes
  <2>3. /\ DOMAIN more = 1..(Len(admitted) + 1) /\ DOMAIN admitted = 1..Len(admitted) /\ Len(admitted) \in Nat
        /\ more[Len(admitted) + 1] = p /\ \A n \in 1..Len(admitted) : more[n] = admitted[n]
    BY <1>1, <2>1, <2>2
  <2>4. \A n \in DOMAIN more : n = Len(admitted) + 1 \/ n \in DOMAIN admitted
    BY <2>3
  <2>5. \A n \in DOMAIN more : more[n].at <= clockE
    BY <1>1, <2>2, <2>3, <2>4 DEF EdgeInv, ReadingsInv
  <2>6. ASSUME NEW u \in Threads, thread'[u].at = "limiter", NEW n \in DOMAIN more, more[n].by = u
        PROVE  more[n].at <= thread'[u].now
    <3>1. n \in DOMAIN admitted /\ more[n] = admitted[n]
      BY <1>2, <2>2, <2>3, <2>4, <2>6
    <3> QED BY <1>2, <2>6, <3>1 DEF EdgeInv, ReadingsInv
  <2>7. ASSUME NEW m \in DOMAIN more, NEW n \in DOMAIN more, m < n, more[m].by = more[n].by
        PROVE  more[m].at <= more[n].read
    <3>1. m \in DOMAIN admitted /\ more[m] = admitted[m]
      BY <2>3, <2>4, <2>7
    <3>2. CASE n = Len(admitted) + 1
      BY <1>1, <2>2, <2>3, <2>7, <3>1, <3>2 DEF EdgeInv, ReadingsInv
    <3>3. CASE n \in DOMAIN admitted
      BY <2>3, <2>7, <3>1, <3>3 DEF EdgeInv, ReadingsInv
    <3> QED BY <2>4, <3>2, <3>3
  <2>8. admitted' = more
    BY <1>4, <2>1
  <2> QED BY <1>1, <2>5, <2>6, <2>7, <2>8 DEF ReadingsInv
<1> QED BY <1>3, <1>4, LimitIs DEF TurnsAway, Refuses, LetsPass

\* One more pass of the last window is one more hit of it.
LEMMA PassIsHit ==
  ASSUME EdgeInv, NEW t \in Threads, Limit(t), LetsPass(t), NEW T \in Int, NEW who, who \subseteq Addresses
  PROVE  Since(T, who)' = Since(T, who) +
           (IF thread[t].request.address \in who /\ thread[t].now >= T THEN 1 ELSE 0)
<1>1. PICK p : p = PassOf(t)
  OBVIOUS
<1>2. p \in Passes /\ p.of = thread[t].request.address /\ p.read = thread[t].now
  BY <1>1, LimitReads DEF PassOf, Passes, EdgeInv, EdgeTypes
<1>3. admitted \in Seq(Passes) /\ admitted' = Append(admitted, p)
  BY <1>1 DEF EdgeInv, EdgeTypes, LetsPass
<1>4. Among(admitted', PassedSince(T, who)) =
        Among(admitted, PassedSince(T, who)) + (IF p \in PassedSince(T, who) THEN 1 ELSE 0)
  BY <1>2, <1>3, AmongMore
<1>5. p \in PassedSince(T, who) <=> thread[t].request.address \in who /\ thread[t].now >= T
  BY <1>2 DEF PassedSince
<1> QED BY <1>4, <1>5 DEF Since

LEMMA OneMoreHit ==
  ASSUME NEW h \in Seq(Nat), NEW now \in Nat, NEW T \in Int
  PROVE  Recent(Append(h, now), T) = Recent(h, T) + (IF now >= T THEN 1 ELSE 0)
<1>1. Recent(Append(h, now), T) = Recent(h, T) + (IF now \in FromOn(T) THEN 1 ELSE 0)
  BY AmongMore DEF Recent
<1> QED BY <1>1 DEF FromOn

LEMMA LimitHits ==
  ASSUME EdgeInv, NEW t \in Threads, Limit(t)
  PROVE  HitsInv'
<1>1. clockE' = clockE /\ clockE \in Nat /\ globalHits \in Seq(Nat)
  BY DEF Limit, EdgeInv, EdgeTypes
<1>2. SUFFICES ASSUME NEW T \in Int, T >= clockE - Window
      PROVE  /\ Since(T, Addresses)' <= Recent(globalHits', T)
             /\ \A a \in Addresses \ forgotten' : Since(T, {a})' <= Recent(BucketOf(rateHits', a), T)
  BY <1>1 DEF HitsInv
<1>3. PICK a, now, global, mine :
        a = thread[t].request.address /\ now = thread[t].now /\ global = GlobalOf(t) /\ mine = MineOf(t)
  OBVIOUS
<1>4. /\ a \in Addresses /\ now \in Nat /\ global \in Seq(Nat) /\ mine \in Seq(Nat) /\ Len(mine) <= RateMax
      /\ Recent(globalHits, T) <= Recent(global, T)
      /\ Recent(BucketOf(rateHits, a), T) <= Recent(mine, T)
  BY <1>2, <1>3, LimitReads
<1>5. /\ Since(T, Addresses) <= Recent(globalHits, T)
      /\ \A b \in Addresses \ forgotten : Since(T, {b}) <= Recent(BucketOf(rateHits, b), T)
  BY <1>2 DEF EdgeInv, HitsInv
<1>6. /\ Since(T, Addresses) \in Nat /\ \A b : Since(T, {b}) \in Nat
      /\ Recent(globalHits, T) \in Nat /\ Recent(global, T) \in Nat /\ Recent(mine, T) \in Nat
      /\ \A b : Recent(BucketOf(rateHits, b), T) \in Nat
  <2>1. \A b : BucketOf(rateHits, b) \in Seq(Nat)
    BY BucketIsHits DEF EdgeInv, EdgeTypes
  <2> QED BY <1>1, <1>4, <2>1, SinceIsNat, RecentIsNat
<1>7. CASE TurnsAway(t)
  <2>1. globalHits' = global /\ rateHits' = rateHits /\ admitted' = admitted /\ forgotten' = forgotten
    BY <1>3, <1>7 DEF TurnsAway
  <2>2. \A who : Since(T, who)' = Since(T, who)
    BY <2>1 DEF Since, Among
  <2> QED BY <1>4, <1>5, <1>6, <2>1, <2>2
<1>8. CASE Refuses(t)
  <2>1. PICK map : Keeps(t, mine, map)
    BY <1>3, <1>8 DEF Refuses
  <2>2. globalHits' = global /\ admitted' = admitted
    BY <1>3, <1>8 DEF Refuses
  <2>3. /\ forgotten \subseteq forgotten'
        /\ \A b \in Addresses \ forgotten' :
             IF b = a THEN BucketOf(rateHits', b) = mine ELSE BucketOf(rateHits', b) = BucketOf(rateHits, b)
    BY <1>3, <1>4, <2>1, KeepsBuckets
  <2>4. \A who : Since(T, who)' = Since(T, who)
    BY <2>2 DEF Since, Among
  <2>5. ASSUME NEW b \in Addresses \ forgotten' PROVE Since(T, {b})' <= Recent(BucketOf(rateHits', b), T)
    <3>1. b \in Addresses \ forgotten
      BY <2>3
    <3>2. CASE b = a
      <4>1. BucketOf(rateHits', b) = mine /\ Since(T, {b})' = Since(T, {b})
        BY <2>3, <2>4, <3>2
      <4>2. Since(T, {b}) <= Recent(BucketOf(rateHits, a), T)
        BY <1>5, <3>1, <3>2
      <4>3. /\ Since(T, {b}) \in Nat /\ Recent(BucketOf(rateHits, a), T) \in Nat /\ Recent(mine, T) \in Nat
            /\ Recent(BucketOf(rateHits, a), T) <= Recent(mine, T)
        BY <1>4, <1>6
      <4> QED BY <4>1, <4>2, <4>3
    <3>3. CASE b # a
      BY <1>5, <2>3, <2>4, <3>1, <3>3
    <3> QED BY <3>2, <3>3
  <2> QED BY <1>4, <1>5, <1>6, <2>2, <2>4, <2>5
<1>9. CASE LetsPass(t)
  <2>1. PICK map : Keeps(t, Append(mine, now), map)
    BY <1>3, <1>9 DEF LetsPass
  <2>2. globalHits' = Append(global, now) /\ Len(mine) < RateMax
    BY <1>3, <1>9 DEF LetsPass
  <2>3. Len(Append(mine, now)) <= RateMax
    BY <1>4, <2>2, EdgeAssumption
  <2>4. /\ forgotten \subseteq forgotten'
        /\ \A b \in Addresses \ forgotten' :
             IF b = a THEN BucketOf(rateHits', b) = Append(mine, now) ELSE BucketOf(rateHits', b) = BucketOf(rateHits, b)
    BY <1>3, <2>1, <2>3, KeepsBuckets
  <2>5. PICK one \in {0, 1} : one = IF now >= T THEN 1 ELSE 0
    OBVIOUS
  <2>6. Since(T, Addresses)' = Since(T, Addresses) + one
    BY <1>3, <1>4, <1>9, <2>5, PassIsHit
  <2>7. \A b \in Addresses : Since(T, {b})' = Since(T, {b}) + (IF b = a THEN one ELSE 0)
    <3>1. ASSUME NEW b \in Addresses PROVE Since(T, {b})' = Since(T, {b}) + (IF b = a THEN one ELSE 0)
      <4>1. Since(T, {b})' = Since(T, {b}) + (IF a \in {b} /\ now >= T THEN 1 ELSE 0)
        BY <1>3, <1>9, PassIsHit
      <4> QED BY <2>5, <4>1
    <3> QED BY <3>1
  <2>8. Recent(Append(global, now), T) = Recent(global, T) + one /\ Recent(Append(mine, now), T) = Recent(mine, T) + one
    BY <1>4, <2>5, OneMoreHit
  <2>9. ASSUME NEW b \in Addresses \ forgotten' PROVE Since(T, {b})' <= Recent(BucketOf(rateHits', b), T)
    <3>1. b \in Addresses \ forgotten
      BY <2>4
    <3>2. CASE b = a
      <4>1. BucketOf(rateHits', b) = Append(mine, now) /\ Since(T, {b})' = Since(T, {b}) + one
        BY <2>4, <2>7, <3>1, <3>2
      <4>2. Since(T, {b}) <= Recent(BucketOf(rateHits, a), T)
        BY <1>5, <3>1, <3>2
      <4>3. /\ Since(T, {b}) \in Nat /\ Recent(BucketOf(rateHits, a), T) \in Nat /\ Recent(mine, T) \in Nat
            /\ Recent(BucketOf(rateHits, a), T) <= Recent(mine, T)
        BY <1>4, <1>6
      <4> QED BY <2>5, <2>8, <4>1, <4>2, <4>3
    <3>3. CASE b # a
      <4>1. BucketOf(rateHits', b) = BucketOf(rateHits, b)
        BY <2>4, <3>3
      <4>2. Since(T, {b})' = Since(T, {b}) + 0
        BY <2>7, <3>1, <3>3
      <4>3. Since(T, {b}) <= Recent(BucketOf(rateHits, b), T) /\ Since(T, {b}) \in Nat
        BY <1>5, <1>6, <3>1
      <4> QED BY <4>1, <4>2, <4>3
    <3> QED BY <3>2, <3>3
  <2> QED BY <1>4, <1>5, <1>6, <2>2, <2>5, <2>6, <2>8, <2>9
<1> QED BY <1>7, <1>8, <1>9, LimitIs

\* Every other step leaves the windows and what passed alone.
LEMMA ElsewhereKeeps ==
  ASSUME EdgeInv, UNCHANGED <<clockE, globalHits, rateHits, admitted, forgotten>>,
         thread' \in [Threads -> ThreadStates],
         \A t \in Threads : thread'[t].at = "limiter" => thread'[t] = thread[t] \/ thread'[t].now = clockE
  PROVE  EdgeInv'
<1>1. EdgeTypes'
  BY DEF EdgeInv, EdgeTypes
<1>2. ReadingsInv'
  <2>1. ASSUME NEW t \in Threads, thread'[t].at = "limiter", NEW n \in DOMAIN admitted, admitted[n].by = t
        PROVE  admitted[n].at <= thread'[t].now
    <3>1. CASE thread'[t] = thread[t]
      BY <2>1, <3>1 DEF EdgeInv, ReadingsInv
    <3>2. CASE thread'[t].now = clockE
      BY <2>1, <3>2 DEF EdgeInv, ReadingsInv
    <3> QED BY <2>1, <3>1, <3>2
  <2> QED BY <2>1 DEF EdgeInv, ReadingsInv
<1>3. HitsInv'
  <2>1. \A T, who : Since(T, who)' = Since(T, who)
    BY DEF Since, Among
  <2> QED BY <2>1 DEF EdgeInv, HitsInv
<1> QED BY <1>1, <1>2, <1>3 DEF EdgeInv

\* The clock moves on: the last window is a shorter stretch of the hits.
LEMMA TickKeeps ==
  ASSUME EdgeInv, TickE
  PROVE  EdgeInv'
<1>1. /\ clockE \in Nat /\ clockE' = clockE + 1
      /\ UNCHANGED <<globalHits, rateHits, store, thread, admitted, forgotten, requests>>
  BY DEF EdgeInv, EdgeTypes, TickE
<1>2. \A t \in Threads : thread[t].at = "limiter" => thread[t].now \in Nat
  BY DEF EdgeInv, EdgeTypes, ThreadStates, Free
<1>3. EdgeTypes'
  <2>1. \A t \in Threads : thread'[t].at = "limiter" => thread'[t].now <= clockE'
    BY <1>1, <1>2 DEF EdgeInv, EdgeTypes
  <2> QED BY <1>1, <2>1 DEF EdgeInv, EdgeTypes
<1>4. ReadingsInv'
  <2>1. \A n \in DOMAIN admitted : admitted[n].at \in Nat
    <3>1. admitted \in Seq(Passes)
      BY DEF EdgeInv, EdgeTypes
    <3>2. \A n \in DOMAIN admitted : admitted[n] \in Passes
      BY <3>1
    <3> QED BY <3>2 DEF Passes
  <2>2. \A n \in DOMAIN admitted : admitted[n].at <= clockE'
    BY <1>1, <2>1 DEF EdgeInv, ReadingsInv
  <2> QED BY <1>1, <2>2 DEF EdgeInv, ReadingsInv
<1>5. HitsInv'
  <2>1. \A T, who : Since(T, who)' = Since(T, who)
    BY <1>1 DEF Since, Among
  <2>2. \A T \in Int : T >= clockE' - Window => T >= clockE - Window
    BY <1>1, EdgeAssumption
  <2> QED BY <1>1, <2>1, <2>2 DEF EdgeInv, HitsInv
<1> QED BY <1>3, <1>4, <1>5 DEF EdgeInv

LEMMA EdgeStarts ==
  ASSUME EInit
  PROVE  EdgeInv
<1>1. EdgeTypes
  <2>1. IsMap(rateHits) /\ globalHits \in Seq(Nat) /\ admitted \in Seq(Passes) /\ Len(globalHits) = 0
    BY DEF EInit, IsMap
  <2>2. thread \in [Threads -> ThreadStates] /\ \A t \in Threads : thread[t].at # "limiter"
    BY DEF EInit, ThreadStates, Free
  <2>3. DOMAIN rateHits = {} /\ clockE \in Nat
    BY DEF EInit
  <2> QED BY <2>1, <2>2, <2>3, EdgeAssumption DEF EdgeTypes
<1>2. ReadingsInv
  <2>1. DOMAIN admitted = {}
    BY DEF EInit
  <2> QED BY <2>1 DEF ReadingsInv
<1>3. HitsInv
  <2>1. ASSUME NEW T, NEW who PROVE Since(T, who) = 0
    <3>1. {n \in DOMAIN admitted : admitted[n] \in PassedSince(T, who)} = {}
      BY DEF EInit
    <3> QED BY <3>1, FS_EmptySet DEF Since, Among
  <2>2. ASSUME NEW h \in Seq(Nat), NEW T PROVE 0 <= Recent(h, T)
    BY RecentIsNat
  <2>3. \A a : BucketOf(rateHits, a) \in Seq(Nat)
    BY <1>1, BucketIsHits DEF EdgeTypes
  <2>4. globalHits \in Seq(Nat)
    BY <1>1 DEF EdgeTypes
  <2> QED BY <2>1, <2>2, <2>3, <2>4 DEF HitsInv
<1> QED BY <1>1, <1>2, <1>3 DEF EdgeInv

LEMMA EdgeSteps ==
  ASSUME EdgeInv, [ENext]_evars
  PROVE  EdgeInv'
<1>0. thread \in [Threads -> ThreadStates]
  BY DEF EdgeInv, EdgeTypes
<1>1. ASSUME NEW t \in Threads, NEW r \in EdgeRequests, BeginRequest(t, r) PROVE EdgeInv'
  <2>1. UNCHANGED <<clockE, globalHits, rateHits, admitted, forgotten>>
    BY <1>1 DEF BeginRequest
  <2>2. CASE thread' = thread
    BY <1>0, <2>1, <2>2, ElsewhereKeeps
  <2>3. CASE thread' = [thread EXCEPT ![t] = [at |-> "limiter", request |-> r, now |-> clockE]]
    <3>1. [at |-> "limiter", request |-> r, now |-> clockE] \in ThreadStates
      BY <1>1 DEF ThreadStates, EdgeInv, EdgeTypes
    <3>2. /\ thread' \in [Threads -> ThreadStates]
          /\ \A u \in Threads : thread'[u] = thread[u] \/ thread'[u].now = clockE
      BY <1>0, <2>3, <3>1
    <3> QED BY <2>1, <3>2, ElsewhereKeeps
  <2> QED BY <1>1, <2>2, <2>3 DEF BeginRequest
<1>2. ASSUME NEW t \in Threads, Limit(t) PROVE EdgeInv'
  BY <1>2, LimitTypes, LimitReadings, LimitHits DEF EdgeInv
<1>3. ASSUME NEW t \in Threads, RunGraph(t) PROVE EdgeInv'
  <2>1. UNCHANGED <<clockE, globalHits, rateHits, admitted, forgotten>> /\ thread[t].at = "graph"
    BY <1>3 DEF RunGraph
  <2>2. PICK after : after = [thread[t] EXCEPT !.at = "fill"]
    OBVIOUS
  <2>3. after \in ThreadStates /\ after.at # "limiter"
    <3>1. thread[t] \in ThreadStates
      BY <1>0
    <3>2. thread[t] \in [at : {"graph", "fill"}, request : EdgeRequests]
      BY <2>1, <3>1 DEF ThreadStates, Free
    <3> QED BY <2>2, <3>2 DEF ThreadStates
  <2>4. thread' = [thread EXCEPT ![t] = after]
    BY <1>3, <2>2 DEF RunGraph
  <2>5. thread' \in [Threads -> ThreadStates] /\ \A u \in Threads : thread'[u].at = "limiter" => thread'[u] = thread[u]
    BY <1>0, <2>3, <2>4
  <2> QED BY <2>1, <2>5, ElsewhereKeeps
<1>4. ASSUME NEW t \in Threads, GraphRaises(t) \/ FillAndAnswer(t) PROVE EdgeInv'
  <2>1. /\ UNCHANGED <<clockE, globalHits, rateHits, admitted, forgotten>>
        /\ thread' = [thread EXCEPT ![t] = Free]
    BY <1>4 DEF GraphRaises, FillAndAnswer
  <2>2. Free \in ThreadStates /\ Free.at # "limiter"
    BY DEF ThreadStates, Free
  <2>3. thread' \in [Threads -> ThreadStates] /\ \A u \in Threads : thread'[u].at = "limiter" => thread'[u] = thread[u]
    BY <1>0, <2>1, <2>2
  <2> QED BY <2>1, <2>3, ElsewhereKeeps
<1>5. ASSUME UNCHANGED evars PROVE EdgeInv'
  BY <1>0, <1>5, ElsewhereKeeps DEF evars
<1> QED BY <1>1, <1>2, <1>3, <1>4, <1>5, TickKeeps DEF ENext, EdgeRequests

-------------------------------------------------------------------------------
\* The passes of the last window that read the clock before it began: no thread has two.
LEMMA OneStraddlerEach ==
  ASSUME EdgeInv, NEW who, who \subseteq Addresses
  PROVE  Passed(who) <= Since(clockE - Window, who) + Cardinality(Threads)
<1> DEFINE T == clockE - Window
           all == {n \in DOMAIN admitted : admitted[n].of \in who /\ clockE - admitted[n].at <= Window}
           inside == {n \in DOMAIN admitted : admitted[n] \in PassedSince(T, who)}
           early == {n \in all : admitted[n].read < T}
           of == [n \in early |-> admitted[n].by]
<1>1. /\ clockE \in Nat /\ T \in Int /\ admitted \in Seq(Passes)
      /\ DOMAIN admitted = 1..Len(admitted) /\ Len(admitted) \in Nat
      /\ \A n \in DOMAIN admitted : admitted[n] \in Passes
  BY EdgeAssumption DEF EdgeInv, EdgeTypes
<1>2. IsFiniteSet(inside) /\ Cardinality(inside) = Since(T, who)
  BY <1>1, AmongIsNat DEF Since, Among
<1>3. \A n \in early : of[n] \in Threads
  BY <1>1 DEF Passes
<1>4. ASSUME NEW m \in early, NEW n \in early, of[m] = of[n] PROVE m = n
  <2>1. ASSUME NEW i \in early, NEW j \in early, i < j, admitted[i].by = admitted[j].by PROVE FALSE
    <3>1. admitted[i].at <= admitted[j].read
      BY <2>1 DEF EdgeInv, ReadingsInv
    <3>2. /\ admitted[i].at \in Nat /\ admitted[j].read \in Nat
          /\ clockE - admitted[i].at <= Window /\ admitted[j].read < clockE - Window
      BY <1>1 DEF Passes
    <3> QED BY <1>1, <3>1, <3>2, EdgeAssumption
  <2>2. m \in Nat /\ n \in Nat /\ admitted[m].by = admitted[n].by
    BY <1>1, <1>4
  <2> HIDE DEF early, of
  <2> QED BY <2>1, <2>2
<1>5. of \in Injection(early, Threads)
  <2>1. of \in [early -> Threads]
    BY <1>3
  <2> HIDE DEF early, of
  <2> QED BY <1>4, <2>1 DEF Injection, IsInjective
<1>6. IsFiniteSet(early) /\ Cardinality(early) <= Cardinality(Threads)
  BY <1>5, FS_Injection, EdgeAssumption
<1>7. all \subseteq inside \cup early
  BY <1>1 DEF PassedSince, Passes
<1> HIDE DEF inside, early, of, all
<1>8. IsFiniteSet(inside \cup early)
  BY <1>2, <1>6, FS_Union
<1>9. /\ Cardinality(inside \cup early) = Cardinality(inside) + Cardinality(early) - Cardinality(inside \cap early)
      /\ IsFiniteSet(inside \cap early)
  <2>1. inside \cap early \subseteq inside
    OBVIOUS
  <2> QED BY <1>2, <1>6, <2>1, FS_Union, FS_Subset
<1>10. Cardinality(all) <= Cardinality(inside \cup early)
  BY <1>7, <1>8, FS_Subset
<1>11. /\ Cardinality(inside) \in Nat /\ Cardinality(early) \in Nat /\ Cardinality(inside \cap early) \in Nat
       /\ Cardinality(Threads) \in Nat /\ IsFiniteSet(all)
       /\ Cardinality(inside \cup early) \in Nat
  BY <1>2, <1>6, <1>7, <1>8, <1>9, FS_CardinalityType, FS_Subset, EdgeAssumption
<1>12. Cardinality(all) \in Nat
  BY <1>11, FS_CardinalityType
<1>13. Passed(who) = Cardinality(all)
  BY DEF Passed, all
<1>14. PICK c, i, e, b, u, p : /\ c = Cardinality(all) /\ i = Cardinality(inside) /\ e = Cardinality(early)
           /\ b = Cardinality(inside \cap early) /\ u = Cardinality(inside \cup early) /\ p = Cardinality(Threads)
  OBVIOUS
<1>15. c <= i + p
  BY <1>6, <1>9, <1>10, <1>11, <1>12, <1>14
<1> QED BY <1>2, <1>13, <1>14, <1>15 DEF T

LEMMA WindowsFollow ==
  ASSUME EdgeInv
  PROVE  WindowsHold
<1>1. PICK T : T = clockE - Window
  OBVIOUS
<1>2. T \in Int /\ T >= clockE - Window /\ globalHits \in Seq(Nat) /\ Len(globalHits) <= GlobalMax
  BY <1>1, EdgeAssumption DEF EdgeInv, EdgeTypes
<1>3. Cardinality(Threads) \in Nat
  BY EdgeAssumption, FS_CardinalityType
<1>4. \A who : Since(T, who) \in Nat
  BY SinceIsNat
<1>5. ASSUME NEW h \in Seq(Nat), NEW max \in Nat, Len(h) <= max PROVE Recent(h, T) \in Nat /\ Recent(h, T) <= max
  <2>1. Recent(h, T) \in Nat /\ Recent(h, T) <= Len(h)
    BY AmongIsNat DEF Recent
  <2>2. Len(h) \in Nat
    OBVIOUS
  <2> QED BY <1>5, <2>1, <2>2
<1>6. ASSUME NEW who, who \subseteq Addresses, NEW h \in Seq(Nat), NEW max \in Nat, Len(h) <= max,
             Since(T, who) <= Recent(h, T)
      PROVE  Passed(who) <= max + Cardinality(Threads)
  <2>1. Passed(who) <= Since(T, who) + Cardinality(Threads)
    BY <1>1, <1>6, OneStraddlerEach
  <2>2. Passed(who) \in Nat
    <3>1. DOMAIN admitted = 1..Len(admitted) /\ Len(admitted) \in Nat
      BY DEF EdgeInv, EdgeTypes
    <3>2. IsFiniteSet({n \in DOMAIN admitted : admitted[n].of \in who /\ clockE - admitted[n].at <= Window})
      <4>1. IsFiniteSet(1..Len(admitted))
        BY <3>1, FS_Interval
      <4>2. {n \in DOMAIN admitted : admitted[n].of \in who /\ clockE - admitted[n].at <= Window} \subseteq 1..Len(admitted)
        BY <3>1
      <4> QED BY <4>1, <4>2, FS_Subset
    <3> QED BY <3>2, FS_CardinalityType DEF Passed
  <2>3. Since(T, who) <= max
    BY <1>4, <1>5, <1>6
  <2> QED BY <1>3, <1>4, <1>6, <2>1, <2>2, <2>3
<1>7. Passed(Addresses) <= GlobalMax + Cardinality(Threads)
  BY <1>2, <1>6, EdgeAssumption DEF EdgeInv, HitsInv
<1>8. ASSUME NEW a \in Addresses \ forgotten PROVE Passed({a}) <= RateMax + Cardinality(Threads)
  <2>1. BucketOf(rateHits, a) \in Seq(Nat) /\ Len(BucketOf(rateHits, a)) <= RateMax
    BY BucketIsHits DEF EdgeInv, EdgeTypes
  <2>2. Since(T, {a}) <= Recent(BucketOf(rateHits, a), T)
    BY <1>2, <1>8 DEF EdgeInv, HitsInv
  <2> QED BY <1>6, <2>1, <2>2, EdgeAssumption
<1> QED BY <1>7, <1>8 DEF WindowsHold

\* No window of the demonstration routes lets through more than the global limit, or of an
\* address whose bucket was never pushed out more than its own, and one for each thread
\* that read the clock before it waited for the limiter's lock (api.py _rate_limited).
THEOREM WindowsAreKept == ESpec => []WindowsHold
<1>1. EInit => EdgeInv
  BY EdgeStarts
<1>2. EdgeInv /\ [ENext]_evars => EdgeInv'
  BY EdgeSteps
<1>3. EdgeInv => WindowsHold
  BY WindowsFollow
<1> QED BY <1>1, <1>2, <1>3, PTL DEF ESpec

-------------------------------------------------------------------------------
(* Verdict: for any portfolio, currencies and size of the batch.              *)

Currencies == {e.currency : e \in Portfolio}
Impacts == [currency : Currencies, amount : Nat, high : BOOLEAN]
AllUnits == UNION {{n} \X (1..results[n].amount) : n \in DOMAIN results}

\* What the results say of a currency.
Tally(c) ==
  [count |-> Cardinality(OfCurrency(c)), total |-> Cardinality(UnitsIn(c)),
   high |-> Cardinality(HighIn(c))]

TallyInv ==
  /\ results \in Seq(Impacts) /\ IsFiniteSet(AllUnits)
  /\ DOMAIN buckets = {results[n].currency : n \in DOMAIN results}
  /\ \A c \in DOMAIN buckets : buckets[c] = Tally(c)

RetryInv ==
  /\ case \in Portfolio
  /\ node \in {"assess_risk", "choose_strategy", "schedule_retry", "finalize", "done"}
  /\ node \in {"schedule_retry", "finalize", "done"} /\ case.code \in NoRetryCodes => strategy.days = 0
  /\ NoRetryPromised

VerdictInv == RetryInv /\ TallyInv

LEMMA NoRetryRules ==
  ASSUME NEW code \in NoRetryCodes, NEW escalate
  PROVE  StrategyFor(code, escalate).days = 0
<1>1. RuleOf(code).days = 0
  BY DEF RuleOf, NoRetryCodes, StrategyRules
<1> QED BY <1>1 DEF StrategyFor

LEMMA RetryKeeps ==
  ASSUME RetryInv, [VNext]_vvars
  PROVE  RetryInv'
<1>1. CASE AssessRisk
  BY <1>1 DEF AssessRisk, RetryInv, NoRetryPromised
<1>2. CASE ChooseStrategy
  BY <1>2, NoRetryRules DEF ChooseStrategy, RetryInv, NoRetryPromised
<1>3. CASE ScheduleRetry
  <2>1. ASSUME case.code \in NoRetryCodes
        PROVE  schedule' = [source |-> "none", at |-> NoDate] /\ strategy'.days = 0
    <3>1. strategy.days = 0 /\ strategy' = strategy
      BY <1>3, <2>1 DEF ScheduleRetry, RetryInv
    <3>2. NoRetry(strategy, case.code)
      BY <2>1, <3>1 DEF NoRetry
    <3> QED BY <1>3, <3>1, <3>2 DEF ScheduleRetry, ScheduleOf
  <2>2. case' = case /\ node' = "finalize"
    BY <1>3 DEF ScheduleRetry
  <2> QED BY <2>1, <2>2 DEF RetryInv, NoRetryPromised
<1>4. CASE Finalize
  BY <1>4 DEF Finalize, RetryInv, NoRetryPromised
<1>5. ASSUME NEW e \in Portfolio, NextCase(e) PROVE RetryInv'
  BY <1>5 DEF NextCase, RetryInv, NoRetryPromised
<1>6. CASE UNCHANGED vvars
  BY <1>6 DEF vvars, RetryInv, NoRetryPromised
<1> QED BY <1>1, <1>2, <1>3, <1>4, <1>5, <1>6 DEF VNext

\* The sets of the tallies are finite.
LEMMA TallyIsNat ==
  ASSUME TallyInv, NEW c
  PROVE  /\ IsFiniteSet(OfCurrency(c)) /\ IsFiniteSet(HighIn(c)) /\ IsFiniteSet(UnitsIn(c))
         /\ Tally(c).count \in Nat /\ Tally(c).total \in Nat /\ Tally(c).high \in Nat
         /\ Tally(c).count <= Len(results) /\ Tally(c).total <= Cardinality(AllUnits)
<1>1. DOMAIN results = 1..Len(results) /\ Len(results) \in Nat
  BY DEF TallyInv
<1>2. IsFiniteSet(1..Len(results)) /\ Cardinality(1..Len(results)) = Len(results)
  <2>1. ASSUME NEW len \in Nat PROVE IsFiniteSet(1..len) /\ Cardinality(1..len) = len
    BY FS_Interval
  <2> QED BY <1>1, <2>1
<1>3. OfCurrency(c) \subseteq 1..Len(results) /\ HighIn(c) \subseteq OfCurrency(c)
  BY <1>1 DEF OfCurrency, HighIn
<1>4. UnitsIn(c) \subseteq AllUnits
  BY DEF UnitsIn, AllUnits, OfCurrency
<1>5. IsFiniteSet(OfCurrency(c)) /\ Cardinality(OfCurrency(c)) <= Len(results)
  BY <1>2, <1>3, FS_Subset
<1>6. IsFiniteSet(HighIn(c))
  BY <1>3, <1>5, FS_Subset
<1>7. IsFiniteSet(UnitsIn(c)) /\ Cardinality(UnitsIn(c)) <= Cardinality(AllUnits)
  BY <1>4, FS_Subset DEF TallyInv
<1>8. Cardinality(OfCurrency(c)) \in Nat /\ Cardinality(HighIn(c)) \in Nat /\ Cardinality(UnitsIn(c)) \in Nat
  BY <1>5, <1>6, <1>7, FS_CardinalityType
<1> QED BY <1>5, <1>6, <1>7, <1>8 DEF Tally

\* A currency of no result.
LEMMA NoTally ==
  ASSUME NEW c, c \notin {results[n].currency : n \in DOMAIN results}
  PROVE  Tally(c) = [count |-> 0, total |-> 0, high |-> 0]
<1>1. OfCurrency(c) = {}
  BY DEF OfCurrency
<1>2. HighIn(c) = {} /\ UnitsIn(c) = {}
  BY <1>1 DEF HighIn, UnitsIn
<1> QED BY <1>1, <1>2, FS_EmptySet DEF Tally

\* The units of one result.
LEMMA UnitsOfOne ==
  ASSUME NEW k, NEW amount \in Nat
  PROVE  IsFiniteSet({k} \X (1..amount)) /\ Cardinality({k} \X (1..amount)) = amount
<1>1. IsFiniteSet(1..amount) /\ Cardinality(1..amount) = amount
  BY FS_Interval
<1>2. IsFiniteSet({k}) /\ Cardinality({k}) = 1
  BY FS_Singleton
<1> QED BY <1>1, <1>2, FS_Product

\* One more result is one more of its currency, and its money more.
LEMMA OneMoreResult ==
  ASSUME TallyInv, NEW i \in Impacts, results' = Append(results, i), NEW c
  PROVE  /\ IsFiniteSet(AllUnits')
         /\ c # i.currency => Tally(c)' = Tally(c)
         /\ c = i.currency =>
              Tally(c)' = [count |-> Tally(c).count + 1, total |-> Tally(c).total + i.amount,
                           high |-> Tally(c).high + (IF i.high THEN 1 ELSE 0)]
<1>1. PICK rs, k : rs = results' /\ k = Len(results) + 1
  OBVIOUS
<1>2. /\ rs = Append(results, i) /\ k \in Nat /\ Len(results) \in Nat /\ DOMAIN results = 1..Len(results)
      /\ DOMAIN rs = 1..k /\ rs[k] = i /\ \A n \in DOMAIN results : rs[n] = results[n]
      /\ k \notin DOMAIN results /\ DOMAIN rs = DOMAIN results \cup {k}
  BY <1>1 DEF TallyInv
<1>3. i.amount \in Nat /\ i.high \in BOOLEAN
  BY DEF Impacts
<1>4. IsFiniteSet({k} \X (1..i.amount)) /\ Cardinality({k} \X (1..i.amount)) = i.amount
  BY <1>3, UnitsOfOne
<1>5. AllUnits' = AllUnits \cup ({k} \X (1..i.amount))
  BY <1>1, <1>2 DEF AllUnits
<1>6. IsFiniteSet(AllUnits')
  BY <1>4, <1>5, FS_Union DEF TallyInv
<1>7. CASE c # i.currency
  <2>1. OfCurrency(c)' = OfCurrency(c)
    BY <1>1, <1>2, <1>7 DEF OfCurrency
  <2>2. HighIn(c)' = HighIn(c)
    BY <1>1, <1>2, <2>1 DEF HighIn, OfCurrency
  <2>3. UnitsIn(c)' = UnitsIn(c)
    BY <1>1, <1>2, <2>1 DEF UnitsIn, OfCurrency
  <2> QED BY <1>6, <1>7, <2>1, <2>2, <2>3 DEF Tally
<1>8. CASE c = i.currency
  <2>1. /\ IsFiniteSet(OfCurrency(c)) /\ IsFiniteSet(HighIn(c)) /\ IsFiniteSet(UnitsIn(c))
        /\ Cardinality(OfCurrency(c)) \in Nat /\ Cardinality(HighIn(c)) \in Nat /\ Cardinality(UnitsIn(c)) \in Nat
    BY TallyIsNat DEF Tally
  <2>2. OfCurrency(c)' = OfCurrency(c) \cup {k} /\ k \notin OfCurrency(c)
    BY <1>1, <1>2, <1>8 DEF OfCurrency
  <2>3. Cardinality(OfCurrency(c)') = Cardinality(OfCurrency(c)) + 1
    BY <2>1, <2>2, FS_AddElement
  <2>4. Cardinality(HighIn(c)') = Cardinality(HighIn(c)) + (IF i.high THEN 1 ELSE 0)
    <3>1. CASE i.high
      <4>1. HighIn(c)' = HighIn(c) \cup {k} /\ k \notin HighIn(c)
        BY <1>1, <1>2, <2>2, <3>1 DEF HighIn, OfCurrency
      <4>2. Cardinality(HighIn(c)') = Cardinality(HighIn(c)) + 1
        BY <2>1, <4>1, FS_AddElement
      <4> QED BY <3>1, <4>2
    <3>2. CASE ~i.high
      <4>1. HighIn(c)' = HighIn(c)
        BY <1>1, <1>2, <2>2, <3>2 DEF HighIn, OfCurrency
      <4> QED BY <2>1, <3>2, <4>1
    <3> QED BY <3>1, <3>2
  <2>5. Cardinality(UnitsIn(c)') = Cardinality(UnitsIn(c)) + i.amount
    <3>1. UnitsIn(c)' = UnitsIn(c) \cup ({k} \X (1..i.amount))
      BY <1>1, <1>2, <2>2 DEF UnitsIn, OfCurrency
    <3>2. UnitsIn(c) \cap ({k} \X (1..i.amount)) = {}
      BY <1>2 DEF UnitsIn, OfCurrency
    <3>3. /\ Cardinality(UnitsIn(c)') = Cardinality(UnitsIn(c)) + Cardinality({k} \X (1..i.amount))
                                        - Cardinality(UnitsIn(c) \cap ({k} \X (1..i.amount)))
      BY <1>4, <2>1, <3>1, FS_Union
    <3>4. Cardinality(UnitsIn(c) \cap ({k} \X (1..i.amount))) = 0
      BY <3>2, FS_EmptySet
    <3> QED BY <1>3, <1>4, <2>1, <3>3, <3>4
  <2> QED BY <1>6, <1>8, <2>3, <2>4, <2>5 DEF Tally
<1> QED BY <1>7, <1>8

LEMMA TallyKeeps ==
  ASSUME VerdictInv, [VNext]_vvars
  PROVE  TallyInv'
<1>1. CASE UNCHANGED <<results, buckets>>
  <2>1. AllUnits' = AllUnits /\ \A c : Tally(c)' = Tally(c)
    BY <1>1 DEF AllUnits, Tally, OfCurrency, HighIn, UnitsIn
  <2> QED BY <1>1, <2>1 DEF VerdictInv, TallyInv
<1>2. CASE Finalize
  <2>1. PICK i : i = Impact(case, risk)
    OBVIOUS
  <2>2. i \in Impacts
    <3>1. case \in Portfolio
      BY DEF VerdictInv, RetryInv
    <3> QED BY <2>1, <3>1, VerdictAssumption DEF Impact, Impacts, Currencies
  <2>3. results' = Append(results, i) /\ buckets' = AddToBucket(buckets, i)
    BY <1>2, <2>1 DEF Finalize
  <2>4. TallyInv
    BY DEF VerdictInv
  <2>5. IsFiniteSet(AllUnits') /\ results' \in Seq(Impacts)
    BY <2>2, <2>3, <2>4, OneMoreResult DEF TallyInv
  <2>6. DOMAIN buckets' = DOMAIN buckets \cup {i.currency}
    BY <2>3 DEF AddToBucket
  <2>7. DOMAIN buckets' = {results'[n].currency : n \in DOMAIN results'}
    <3>1. PICK rs : rs = results'
      OBVIOUS
    <3>2. /\ DOMAIN rs = DOMAIN results \cup {Len(results) + 1} /\ rs[Len(results) + 1] = i
          /\ \A n \in DOMAIN results : rs[n] = results[n]
      BY <2>2, <2>3, <2>4, <3>1 DEF TallyInv
    <3> QED BY <2>4, <2>6, <3>1, <3>2 DEF TallyInv
  <2>8. ASSUME NEW c \in DOMAIN buckets' PROVE buckets'[c] = Tally(c)'
    <3>1. CASE c # i.currency
      <4>1. c \in DOMAIN buckets /\ buckets'[c] = buckets[c]
        BY <2>3, <2>6, <2>8, <3>1 DEF AddToBucket
      <4>2. Tally(c)' = Tally(c)
        BY <2>2, <2>3, <2>4, <3>1, OneMoreResult
      <4> QED BY <2>4, <4>1, <4>2 DEF TallyInv
    <3>2. CASE c = i.currency
      <4>1. PICK b : b = IF i.currency \in DOMAIN buckets THEN buckets[i.currency]
                         ELSE [count |-> 0, total |-> 0, high |-> 0]
        OBVIOUS
      <4>2. b = Tally(c)
        <5>1. CASE c \in DOMAIN buckets
          BY <2>4, <3>2, <4>1, <5>1 DEF TallyInv
        <5>2. CASE c \notin DOMAIN buckets
          BY <2>4, <3>2, <4>1, <5>2, NoTally DEF TallyInv
        <5> QED BY <5>1, <5>2
      <4>3. buckets'[c] = [count |-> b.count + 1, total |-> b.total + i.amount,
                           high |-> b.high + (IF i.high THEN 1 ELSE 0)]
        BY <2>3, <2>6, <3>2, <4>1 DEF AddToBucket
      <4>4. Tally(c)' = [count |-> Tally(c).count + 1, total |-> Tally(c).total + i.amount,
                         high |-> Tally(c).high + (IF i.high THEN 1 ELSE 0)]
        BY <2>2, <2>3, <2>4, <3>2, OneMoreResult
      <4> QED BY <4>2, <4>3, <4>4
    <3> QED BY <3>1, <3>2
  <2> QED BY <2>5, <2>7, <2>8 DEF TallyInv
<1> QED BY <1>1, <1>2 DEF VNext, AssessRisk, ChooseStrategy, ScheduleRetry, NextCase, vvars

\* A set of natural numbers with a bound has a greatest one.
LEMMA GreatestIs ==
  ASSUME NEW S, S \subseteq Nat, S # {}, NEW bound \in Nat, \A y \in S : y <= bound
  PROVE  \E x \in S : \A y \in S : y <= x
<1> DEFINE gaps == {bound - y : y \in S}
<1>1. gaps \subseteq Nat /\ gaps # {}
  <2>1. ASSUME NEW y \in S PROVE bound - y \in Nat
    <3>1. y \in Nat /\ y <= bound
      OBVIOUS
    <3> QED BY <3>1
  <2> QED BY <2>1
<1>2. Min(gaps) \in gaps /\ \A g \in gaps : Min(gaps) <= g
  BY <1>1, LeastIs
<1>3. PICK x \in S : Min(gaps) = bound - x
  BY <1>2
<1>4. ASSUME NEW y \in S PROVE y <= x
  <2>1. bound - x <= bound - y
    BY <1>2, <1>3
  <2>2. x \in Nat /\ y \in Nat
    OBVIOUS
  <2> QED BY <2>1, <2>2
<1> QED BY <1>4

\* Some currency is ahead of all others: the order of the buckets is total, and counts
\* and money have bounds.
LEMMA OneIsAhead ==
  ASSUME VerdictInv, DOMAIN buckets # {}
  PROVE  \E c \in DOMAIN buckets : \A d \in DOMAIN buckets \ {c} : Ahead(buckets, c, d)
<1> DEFINE cs == DOMAIN buckets
           counts == {buckets[c].count : c \in cs}
           most == {c \in cs : \A d \in cs : buckets[d].count <= buckets[c].count}
           totals == {buckets[c].total : c \in most}
           richest == {c \in most : \A d \in most : buckets[d].total <= buckets[c].total}
           places == {Rank[c] : c \in richest}
<1>1. ASSUME NEW c \in cs
      PROVE  /\ buckets[c].count \in Nat /\ buckets[c].total \in Nat
             /\ buckets[c].count <= Len(results) /\ buckets[c].total <= Cardinality(AllUnits)
  BY TallyIsNat DEF VerdictInv, TallyInv
<1>2. Len(results) \in Nat /\ Cardinality(AllUnits) \in Nat
  BY FS_CardinalityType DEF VerdictInv, TallyInv
<1>3. most # {}
  <2>1. counts \subseteq Nat /\ counts # {} /\ \A y \in counts : y <= Len(results)
    BY <1>1
  <2>2. PICK x \in counts : \A y \in counts : y <= x
    BY <1>2, <2>1, GreatestIs
  <2>3. PICK c \in cs : x = buckets[c].count
    BY <2>2
  <2> QED BY <2>2, <2>3
<1>4. richest # {}
  <2>1. totals \subseteq Nat /\ totals # {} /\ \A y \in totals : y <= Cardinality(AllUnits)
    BY <1>1, <1>3
  <2>2. PICK x \in totals : \A y \in totals : y <= x
    BY <1>2, <2>1, GreatestIs
  <2>3. PICK c \in most : x = buckets[c].total
    BY <2>2
  <2> QED BY <2>2, <2>3
<1>5. /\ \A c \in cs : Rank[c] \in Nat
      /\ \A c, d \in cs : Rank[c] = Rank[d] => c = d
  <2>1. cs \subseteq Currencies
    <3>1. \A n \in DOMAIN results : results[n] \in Impacts
      BY DEF VerdictInv, TallyInv
    <3> QED BY <3>1 DEF VerdictInv, TallyInv, Impacts
  <2> QED BY <2>1, VerdictAssumption DEF Currencies
<1>6. places \subseteq Nat /\ places # {}
  BY <1>4, <1>5
<1>7. PICK c \in richest : \A d \in richest : Rank[c] <= Rank[d]
  <2>1. Min(places) \in places /\ \A y \in places : Min(places) <= y
    BY <1>6, LeastIs
  <2> QED BY <2>1
<1>8. ASSUME NEW d \in cs \ {c} PROVE Ahead(buckets, c, d)
  <2>1. /\ buckets[d].count <= buckets[c].count /\ buckets[c].count \in Nat /\ buckets[d].count \in Nat
        /\ buckets[c].total \in Nat /\ buckets[d].total \in Nat
    BY <1>1
  <2>2. CASE buckets[d].count # buckets[c].count
    BY <2>1, <2>2 DEF Ahead
  <2>3. CASE buckets[d].count = buckets[c].count
    <3>1. d \in most
      BY <2>3
    <3>2. buckets[d].total <= buckets[c].total
      BY <3>1
    <3>3. CASE buckets[d].total # buckets[c].total
      BY <2>1, <2>3, <3>2, <3>3 DEF Ahead
    <3>4. CASE buckets[d].total = buckets[c].total
      <4>1. d \in richest
        BY <3>1, <3>4
      <4>2. Rank[c] <= Rank[d] /\ Rank[c] # Rank[d] /\ Rank[c] \in Nat /\ Rank[d] \in Nat
        BY <1>5, <1>7, <1>8, <4>1
      <4> QED BY <2>3, <3>4, <4>2 DEF Ahead
    <3> QED BY <3>3, <3>4
  <2> QED BY <2>2, <2>3
<1> QED BY <1>8

\* No step of the graph promises a retry that cannot come, and the report on a batch counts
\* every result once and has one headline currency, whatever the events and their order
\* (nodes.py choose_strategy and schedule_retry, graph.py run_recovery_batch).
THEOREM PortfolioStaysHonest == VSpec => []PortfolioIsHonest
<1>1. VInit => VerdictInv
  <2> SUFFICES ASSUME VInit PROVE VerdictInv
    OBVIOUS
  <2>1. RetryInv
    BY DEF VInit, RetryInv, NoRetryPromised
  <2>2. DOMAIN results = {} /\ DOMAIN buckets = {} /\ results \in Seq(Impacts)
    BY DEF VInit
  <2>3. AllUnits = {}
    BY <2>2 DEF AllUnits
  <2>4. IsFiniteSet(AllUnits)
    BY <2>3, FS_EmptySet
  <2> QED BY <2>1, <2>2, <2>4 DEF VerdictInv, TallyInv
<1>2. VerdictInv /\ [VNext]_vvars => VerdictInv'
  BY RetryKeeps, TallyKeeps DEF VerdictInv
<1>3. VerdictInv => PortfolioIsHonest
  <2> SUFFICES ASSUME VerdictInv PROVE PortfolioIsHonest
    OBVIOUS
  <2>1. NoRetryPromised
    BY DEF VerdictInv, RetryInv
  <2>2. ASSUME DOMAIN buckets # {}
        PROVE  /\ Primary(buckets) \in DOMAIN buckets
               /\ \A d \in DOMAIN buckets \ {Primary(buckets)} : Ahead(buckets, Primary(buckets), d)
    <3>1. Primary(buckets) = CHOOSE c \in DOMAIN buckets : \A d \in DOMAIN buckets \ {c} : Ahead(buckets, c, d)
      BY <2>2 DEF Primary
    <3> QED BY <2>2, <3>1, OneIsAhead
  <2>3. \A c \in DOMAIN buckets :
          /\ buckets[c].count = Cardinality(OfCurrency(c))
          /\ buckets[c].total = Cardinality(UnitsIn(c))
          /\ buckets[c].high = Cardinality(HighIn(c))
    <3>1. \A c \in DOMAIN buckets : buckets[c] = Tally(c)
      BY DEF VerdictInv, TallyInv
    <3> QED BY <3>1 DEF Tally
  <2> QED BY <2>1, <2>2, <2>3 DEF PortfolioIsHonest, RollUpCountsEachOnce, VerdictInv, TallyInv
<1> QED BY <1>1, <1>2, <1>3, PTL DEF VSpec
===============================================================================
