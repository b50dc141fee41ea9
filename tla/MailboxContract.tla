---------------------------- MODULE MailboxContract ----------------------------
(***************************************************************************)
(* What approval in one's own mailbox promises about each request.  The    *)
(* program only ever makes a draft; the person alone sends it.  What the   *)
(* program writes down is written once, and true of what the person did.   *)
(***************************************************************************)
EXTENDS Naturals

CONSTANTS
  Requests, Invoices, NoInvoice,
  Letter       \* per invoice, what its mail shows: mails that show the same are one

VARIABLES
  status,      \* per request: none, or the status of its row
  about,       \* per request, its invoice
  known,       \* requests the program knows the draft of
  overlooked,  \* requests it looked at without knowing their draft
  drafts,      \* requests whose draft can be sent
  sent,        \* requests whose draft was sent
  counted,     \* per invoice, the mails on record
  closed       \* invoices that were paid

rows == <<status, about, known>>
books == <<counted, closed>>
mails == <<drafts, sent>>

Init ==
  /\ status = [a \in Requests |-> "none"] /\ about = [a \in Requests |-> NoInvoice]
  /\ known = {} /\ overlooked = {} /\ drafts = {} /\ sent = {}
  /\ counted = [i \in Invoices |-> 0] /\ closed = {}

\* A mail about i left, or one that looks the same.
SentAbout(i) == \E b \in sent : about[b] = i \/ Letter[about[b]] = Letter[i]

\* One request at a time waits for an answer about an invoice, which is open.
Ask(a, i) ==
  /\ status[a] = "none" /\ a \notin drafts \cup sent
  /\ i \notin closed
  /\ \A b \in Requests : about[b] = i => status[b] # "pending"
  /\ status' = [status EXCEPT ![a] = "pending"]
  /\ about' = [about EXCEPT ![a] = i]
  /\ UNCHANGED <<known, overlooked, mails, books>>

\* A request has one draft, ever.
Draft(a) ==
  /\ status[a] # "none" /\ a \notin known \cup drafts \cup sent
  /\ drafts' = drafts \cup {a}
  /\ UNCHANGED <<rows, overlooked, sent, books>>

Know(a) ==
  /\ status[a] # "none"
  /\ known' = known \cup {a}
  /\ UNCHANGED <<status, about, overlooked, mails, books>>

Overlook(a) ==
  /\ status[a] # "none" /\ a \notin known
  /\ overlooked' = overlooked \cup {a}
  /\ UNCHANGED <<rows, mails, books>>

Send(a) ==
  /\ a \in drafts
  /\ drafts' = drafts \ {a} /\ sent' = sent \cup {a}
  /\ UNCHANGED <<rows, overlooked, books>>

\* By the person, or by the program that finds it too old.
Discard(a) ==
  /\ a \in drafts
  /\ drafts' = drafts \ {a}
  /\ UNCHANGED <<rows, overlooked, sent, books>>

\* A mail is put on record only when one that can be about the invoice left.
Count(i) ==
  /\ SentAbout(i)
  /\ counted' = [counted EXCEPT ![i] = @ + 1]
  /\ UNCHANGED <<rows, overlooked, mails, closed>>

Close(i) ==
  /\ closed' = closed \cup {i}
  /\ UNCHANGED <<rows, overlooked, mails, counted>>

\* A request that waits is answered once, and the answer is true.
Answer(a, to) ==
  /\ status[a] = "pending"
  /\ to = "sent" => SentAbout(about[a]) /\ (counted[about[a]] > 0 \/ about[a] \in closed)
  /\ to = "skipped" => a \notin sent \/ a \in overlooked
  /\ to = "failed" => a \notin known
  /\ status' = [status EXCEPT ![a] = to]
  /\ UNCHANGED <<about, known, overlooked, mails, books>>

\* Those past their deadline are dropped together.
Expire(S) ==
  /\ \A a \in S : status[a] = "pending"
  /\ status' = [a \in Requests |-> IF a \in S THEN "expired" ELSE status[a]]
  /\ UNCHANGED <<about, known, overlooked, mails, books>>

Next ==
  \/ \E a \in Requests :
       \/ Draft(a) \/ Know(a) \/ Overlook(a) \/ Send(a) \/ Discard(a)
       \/ \E i \in Invoices : Ask(a, i)
       \/ \E to \in {"sent", "skipped", "expired", "failed"} : Answer(a, to)
  \/ \E i \in Invoices : Count(i) \/ Close(i)
  \/ \E S \in SUBSET Requests : Expire(S)

Spec == Init /\ [][Next]_<<rows, overlooked, mails, books>>

===============================================================================
