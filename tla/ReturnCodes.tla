----------------------------- MODULE ReturnCodes -----------------------------
(* What a bank's return code means on a rail: the decision tables           *)
(* (app/ach_return_map.py, sepa_return_map.py, bacs_return_map.py), the     *)
(* registry that serves them (app/rails.py) and the bank webhook that asks  *)
(* it (app/bank/routes.py handle_bank_webhook).  The tables are files: any  *)
(* table may be on the disk, and the checks at import decide whether the    *)
(* module comes up.  A row's decision is one value of Decisions.            *)
EXTENDS Naturals, FiniteSets

CONSTANTS
  Codes,       \* symbols a file may list or a feed may send
  Default,     \* the key of the row unlisted symbols fall through to
  Entries,     \* rows a file may hold: number, decision, reason, limit
  Control,     \* rail -> the code the registry looks up when it loads
  Named,       \* rail -> the codes the module's own constants name
  StandIn, StandsFor,   \* MS03, and the codes it may stand in for
  Elsewhere    \* symbols of the other Bacs reports

Rails == {"ach", "bacs", "sepa"}
Abstaining == {"bacs", "sepa"}

\* An entry is a decision row; a reason is there or not; a limit on sending
\* again is absent, whole or partly filled.
EntryType == [row : Nat, decision : STRING, reason : BOOLEAN,
              limit : {"none", "whole", "part"}]

ASSUME ReturnCodesAssumption ==
  /\ Default \in Codes
  /\ Entries \subseteq EntryType
  /\ Control \in [Rails -> Codes \ {Default}]

VARIABLES
  rail,        \* the rail that loads
  file,        \* the table on the disk
  serving,     \* "loading", "up" or "refused"
  asked,       \* the last question: who asked, the code, the report named
  ruling       \* the last answer

rvars == <<rail, file, serving, asked, ruling>>

Files == UNION {[listed -> Entries] : listed \in SUBSET Codes}

AbstainRows(r) == IF r \in Abstaining THEN {6} ELSE {}
PersonRows(r) == IF r = "ach" THEN {5} ELSE {5, 6}

\* One row number is one decision.
OneDecisionPerRow(t) ==
  \A c, d \in DOMAIN t : t[c].row = t[d].row => t[c].decision = t[d].decision

\* The default row never sends again, and on a rail that abstains it abstains.
DefaultIsSafe(r, t) ==
  /\ Default \in DOMAIN t /\ t[Default].row # 1
  /\ r \in Abstaining => t[Default].row \in AbstainRows(r)

\* The Bacs and SEPA checks: a reason exactly on the rows that abstain.
ReasonsMatch(r, t) ==
  \A c \in DOMAIN t : t[c].reason <=> t[c].row \in AbstainRows(r)

\* MS03 means one of several codes whose rows differ, so it has to abstain.
StandInAbstains(r, t) ==
  /\ StandIn \in DOMAIN t /\ t[StandIn].row \in AbstainRows(r)
  /\ Cardinality({t[c].row : c \in StandsFor}) >= 2

\* _validate of each rail's module: what the import refuses to serve.
ValidAch(t) ==
  /\ DefaultIsSafe("ach", t) /\ OneDecisionPerRow(t) /\ Named["ach"] \subseteq DOMAIN t
  /\ \A c \in DOMAIN t : t[c].limit # "part"

ValidSepa(t) ==
  /\ DefaultIsSafe("sepa", t) /\ OneDecisionPerRow(t) /\ Named["sepa"] \subseteq DOMAIN t
  /\ ReasonsMatch("sepa", t) /\ StandInAbstains("sepa", t)

\* A check that leaves out the rule about the default row's own answer.
ValidBacsButDefault(t) ==
  /\ Default \in DOMAIN t /\ OneDecisionPerRow(t) /\ Named["bacs"] \subseteq DOMAIN t
  /\ ReasonsMatch("bacs", t) /\ Elsewhere \cap DOMAIN t = {}

ValidBacs(t) ==
  /\ DefaultIsSafe("bacs", t) /\ OneDecisionPerRow(t) /\ Named["bacs"] \subseteq DOMAIN t
  /\ ReasonsMatch("bacs", t) /\ Elsewhere \cap DOMAIN t = {}

Valid(r, t) ==
  /\ r = "ach"  => ValidAch(t)
  /\ r = "sepa" => ValidSepa(t)
  /\ r = "bacs" => ValidBacs(t)

\* The answer of a row, for a symbol that is listed or fell through to it.
RowAnswer(r, entry, matched) ==
  [row |-> entry.row, decision |-> entry.decision, matched |-> matched,
   abstains |-> entry.row \in AbstainRows(r), person |-> entry.row \in PersonRows(r),
   reason |-> entry.reason]

\* lookup_return_code: the listed row, or the default one.
Lookup(r, t, c) ==
  IF c \in DOMAIN t THEN RowAnswer(r, t[c], TRUE) ELSE RowAnswer(r, t[Default], FALSE)

\* The Bacs module answers for one of the reports that share its symbols; the
\* registry takes a report for that rail and for no other, and guesses none.
BacsReports == {"ARUDD", "ADDACS", "not given"}
Takes(r, report) == IF r = "bacs" THEN report = "ARUDD" ELSE report = "not given"

\* list_decisions: the listed codes by row, without the default key.
Listed(t) == DOMAIN t \ {Default}
ListDecisions(r, t) ==
  {[row |-> n, decision |-> (t[CHOOSE c \in Listed(t) : t[c].row = n]).decision,
    codes |-> {c \in Listed(t) : t[c].row = n}, abstains |-> n \in AbstainRows(r)] :
   n \in {t[c].row : c \in Listed(t)}}

Abstention == [row |-> 0, decision |-> "none", matched |-> FALSE,
               abstains |-> TRUE, person |-> FALSE, reason |-> TRUE]
Refusal == [Abstention EXCEPT !.decision = "refused"]
NotYet == [who |-> "nobody", code |-> Default, report |-> "not given"]

RCInit ==
  /\ rail \in Rails /\ file \in Files
  /\ serving = "loading" /\ asked = NotYet /\ ruling = Abstention

\* The import: the module's checks, then the registry's own control lookup.
LoadRail ==
  /\ serving = "loading"
  /\ serving' = IF Valid(rail, file) /\ Lookup(rail, file, Control[rail]).matched
                THEN "up" ELSE "refused"
  /\ UNCHANGED <<rail, file, asked, ruling>>

\* rails.lookup.
AskRail(c, report) ==
  /\ serving = "up"
  /\ asked' = [who |-> "caller", code |-> c, report |-> report]
  /\ ruling' = IF Takes(rail, report) THEN Lookup(rail, file, c) ELSE Refusal
  /\ UNCHANGED <<rail, file, serving>>

\* rails.explain: the same answer for a person, who reads of an abstention that
\* there is no decision.
Explained(answer) == IF answer.abstains THEN [answer EXCEPT !.decision = "none"] ELSE answer

ExplainRail(c, report) ==
  /\ serving = "up"
  /\ asked' = [who |-> "reader", code |-> c, report |-> report]
  /\ ruling' = IF Takes(rail, report) THEN Explained(Lookup(rail, file, c)) ELSE Refusal
  /\ UNCHANGED <<rail, file, serving>>

\* handle_bank_webhook gives no report; what the rail refuses is an abstention.
FeedLookup(c) ==
  IF Takes(rail, "not given") THEN Lookup(rail, file, c) ELSE Abstention

FeedReturns(c) ==
  /\ serving = "up"
  /\ asked' = [who |-> "feed", code |-> c, report |-> "not given"]
  /\ ruling' = FeedLookup(c)
  /\ UNCHANGED <<rail, file, serving>>

\* A return that says no code, for whichever reason, is not looked up.
FeedReturnsNoCode ==
  /\ serving = "up"
  /\ asked' = [who |-> "feed without a code", code |-> Default, report |-> "not given"]
  /\ ruling' = Abstention
  /\ UNCHANGED <<rail, file, serving>>

RCNext ==
  \/ LoadRail \/ FeedReturnsNoCode
  \/ \E c \in Codes :
       \/ FeedReturns(c)
       \/ \E report \in BacsReports : AskRail(c, report) \/ ExplainRail(c, report)

RCSpec == RCInit /\ [][RCNext]_rvars

-----------------------------------------------------------------------------
\* A symbol the table does not list is never answered with the row that sends
\* the debit again, and on a rail that abstains it is answered with an
\* abstention that gives its reason.
UnlistedNeverGoesAgain ==
  asked.who # "nobody" /\ asked.code \notin Listed(file) /\ ruling # Refusal =>
    /\ ruling.row # 1
    /\ rail \in Abstaining => ruling.abstains /\ ruling.reason

\* What lookup says of a listed code is what list_decisions says of its row.
ListAgreesWithLookup ==
  asked.who = "caller" /\ asked.code \in Listed(file) /\ ruling # Refusal =>
    \A d \in ListDecisions(rail, file) :
      asked.code \in d.codes =>
        d.row = ruling.row /\ d.decision = ruling.decision /\ d.abstains = ruling.abstains

\* A Bacs symbol means something else in each report: no decision for one is
\* given to a feed, which names none, nor to anyone who names another report,
\* and nobody reads a decision where the rail abstains.
OneReportDecides ==
  /\ rail = "bacs" /\ asked.report # "ARUDD" => ruling.abstains
  /\ asked.who = "reader" /\ ruling.abstains => ruling.decision \in {"none", "refused"}

\* For every table the import accepts, the answers agree with it.
ReturnCodesAgree ==
  UnlistedNeverGoesAgain /\ ListAgreesWithLookup /\ OneReportDecides
=============================================================================
