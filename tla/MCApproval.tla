------------------------------ MODULE MCApproval ------------------------------
(* Instances of Approval for TLC: two invoices of one person.               *)
EXTENDS Approval, TLC

CONSTANTS a1, a2, s1, in_a, in_b, cus

MCCustomerOf == [i \in Invoices |-> cus]

Symmetry == Permutations(Requests) \cup Permutations(Invoices)
===============================================================================
