-------------------------------- MODULE Ledger --------------------------------
(***************************************************************************)
(* The invoice state machine of app/store.py, shared by every module that  *)
(* moves an invoice.  An invoice with no row in the failures table is in   *)
(* the pseudo-state "none".                                                *)
(***************************************************************************)
EXTENDS Naturals

TerminalStates == {"recovered", "churned", "exhausted"}

OpenStates == {"failed", "messaged", "clicked"}

RowStates == OpenStates \cup TerminalStates

\* The legal moves, as pairs.  The code also lists messaged -> messaged, which
\* transition() never consults because staying put is answered before the table.
AllowedTransitions ==
  {<<"failed", t>> : t \in {"messaged"} \cup TerminalStates}
    \cup {<<"messaged", t>> : t \in {"messaged", "clicked"} \cup TerminalStates}
    \cup {<<"clicked", t>> : t \in {"messaged"} \cup TerminalStates}

CanTransition(from, to) == <<from, to>> \in AllowedTransitions

===============================================================================
