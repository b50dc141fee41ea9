--------------------------- MODULE ApprovalContract ---------------------------
(***************************************************************************)
(* What human approval promises about each request, whatever happens to    *)
(* the program: nothing leaves before a person said yes, one yes is worth  *)
(* one mail, and a decided request stays decided.                          *)
(***************************************************************************)
EXTENDS Naturals

CONSTANTS
  Requests,
  Cap          \* the most mails one approved request can cause

VARIABLES
  status,      \* per request: none, or the status of its row
  mails        \* per request, the mails that left for it

Init ==
  /\ status = [a \in Requests |-> "none"]
  /\ mails = [a \in Requests |-> 0]

Become(a, from, to) ==
  /\ status[a] = from
  /\ status' = [status EXCEPT ![a] = to]
  /\ UNCHANGED mails

Open(a) == Become(a, "none", "pending")

Approve(a) == Become(a, "pending", "approved")

\* Nobody said yes: the person skipped, the deadline or a suspension passed,
\* or the request never reached anybody.
Drop(S) ==
  /\ \A a \in S : status[a] = "pending"
  /\ \E to \in {"skipped", "expired", "failed"} :
       status' = [a \in Requests |-> IF a \in S THEN to ELSE status[a]]
  /\ UNCHANGED mails

\* A mail leaves, only for an approved request.
Send(a) ==
  /\ status[a] = "approved" /\ mails[a] < Cap
  /\ mails' = [mails EXCEPT ![a] = @ + 1]
  /\ UNCHANGED status

\* The outcome is written down: sent only if a mail left, blocked only if none did.
Finish(a) ==
  \/ mails[a] > 0 /\ Become(a, "approved", "sent")
  \/ mails[a] = 0 /\ Become(a, "approved", "blocked")
  \/ Become(a, "approved", "failed")

Next ==
  \/ \E a \in Requests : Open(a) \/ Approve(a) \/ Send(a) \/ Finish(a)
  \/ \E S \in SUBSET Requests : Drop(S)

Spec == Init /\ [][Next]_<<status, mails>>

===============================================================================
