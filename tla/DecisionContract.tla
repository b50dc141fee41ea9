--------------------------- MODULE DecisionContract ---------------------------
(***************************************************************************)
(* What the decision API promises: a decision is answered only when it is  *)
(* on record, the record only grows until the client's rows are erased,    *)
(* and no report is stored twice.                                          *)
(***************************************************************************)
EXTENDS Naturals

VARIABLES
  recorded,    \* decisions on record
  reports,     \* outcome reports on record
  answered,    \* decisions a caller has been given
  erasing      \* clients somebody asked to erase

NoTwoAlike(s) ==
  \A o, p \in s : o.client = p.client /\ o.key = p.key => o = p

Init == recorded = {} /\ reports = {} /\ answered = {} /\ erasing = {}

\* One step of the service, as a client nobody asked to erase sees it.
Next ==
  LET Kept(r) == r.client \notin erasing'
      before  == {o \in reports : Kept(o)}
  IN  /\ erasing \subseteq erasing'
      /\ {d \in recorded : Kept(d)} \subseteq recorded'
      /\ before \subseteq reports'
      /\ \A o \in reports' \ reports, p \in before : p.reported_at < o.reported_at
      /\ NoTwoAlike(reports')
      /\ answered \subseteq answered'
      /\ {d \in answered' \ answered : Kept(d)} \subseteq recorded

Spec == Init /\ [][Next]_<<recorded, reports, answered, erasing>>

===============================================================================
