---------------------------- MODULE DunningContract ----------------------------
(***************************************************************************)
(* What the loop promises about one merchant's invoices, whatever it does  *)
(* inside: who may be mailed, how often, and what a closed invoice means.  *)
(***************************************************************************)
EXTENDS Naturals

CONSTANTS
  Invoices,
  Cap          \* the most mails one invoice can ever cause

VARIABLES
  status,      \* per invoice: none, early, or the state of its row
  control,     \* invoices in the control arm
  contacts     \* mails that left, per invoice

Init ==
  /\ status = [i \in Invoices |-> "none"]
  /\ control = {}
  /\ contacts = [i \in Invoices |-> 0]

\* A failure opens the invoice and fixes its arm for good.
Open(i) ==
  /\ status[i] = "none"
  /\ status' = [status EXCEPT ![i] = "failed"]
  /\ control' \in {control, control \cup {i}}
  /\ UNCHANGED contacts

\* Paid before it was seen failing: the invoice will never open.
SettleEarly(i) ==
  /\ status[i] = "none"
  /\ status' = [status EXCEPT ![i] = "early"]
  /\ UNCHANGED <<control, contacts>>

\* A mail leaves, only for an open invoice of the treated arm under the cap.
Contact(i) ==
  /\ status[i] \in {"failed", "messaged"} /\ i \notin control
  /\ contacts[i] < Cap
  /\ contacts' = [contacts EXCEPT ![i] = @ + 1]
  /\ UNCHANGED <<status, control>>

\* The invoice says messaged only once somebody was.
MarkContacted(i) ==
  /\ status[i] = "failed" /\ contacts[i] > 0
  /\ status' = [status EXCEPT ![i] = "messaged"]
  /\ UNCHANGED <<control, contacts>>

\* An open invoice is closed once.
Close(i) ==
  /\ status[i] \in {"failed", "messaged"}
  /\ \E outcome \in {"recovered", "churned"} :
       status' = [status EXCEPT ![i] = outcome]
  /\ UNCHANGED <<control, contacts>>

Next == \E i \in Invoices :
          Open(i) \/ SettleEarly(i) \/ Contact(i) \/ MarkContacted(i) \/ Close(i)

Spec == Init /\ [][Next]_<<status, control, contacts>>

===============================================================================
