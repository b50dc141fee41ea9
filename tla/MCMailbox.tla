------------------------------- MODULE MCMailbox -------------------------------
(* Instances of MailboxApproval for TLC: invoices of one person, whose        *)
(* failure codes differ.                                                      *)
EXTENDS MailboxApproval, TLC

CONSTANTS a1, a2, s1, s2, in_a, in_b, cus

MCCustomerOf == [i \in Invoices |-> cus]
OwnSubject == [i \in Invoices |-> i]

\* A mail program leaves the header or the subject intact.  Both is no case of its
\* own: what matches then, matches by the subject alone.
SomeEvidence == {{"header"}, {"subject"}}

\* What the next steps depend on: of a sweeper, the locals it has yet to read.
Locals(s) ==
  CASE spc[s] \in {"idle", "list"}   -> <<spc[s]>>
    [] spc[s] = "row"                -> <<spc[s], todo[s], at[s]>>
    [] spc[s] = "search"             -> <<spc[s], todo[s], at[s], cur[s], ripe[s]>>
    [] OTHER                         -> <<spc[s], todo[s], at[s], cur[s]>>

View == <<ledger, loop, [s \in Sweepers |-> Locals(s)], blind, mailbox, world>>

Symmetry == Permutations(Requests) \cup Permutations(Invoices) \cup Permutations(Sweepers)
===============================================================================
