--------------------------- MODULE TenancyContract ---------------------------
(***************************************************************************)
(* What the life of a tenant promises: it is registered once, suspended    *)
(* and resumed while it is served, and once it leaves it never comes back. *)
(* It is declared gone only after every store was cleared since the last   *)
(* interruption.                                                           *)
(***************************************************************************)
CONSTANT Stores

VARIABLES
  status,
  cleared      \* the stores the running attempt to erase has cleared

Init == status = "none" /\ cleared = {}

Become(from, to) == status \in from /\ status' = to /\ cleared' = {}

Register == Become({"none"}, "active")
Suspend  == Become({"active"}, "suspended")
Resume   == Become({"suspended"}, "active")
Leave    == Become({"active", "suspended"}, "offboarding")

Clear(s) ==
  /\ status = "offboarding" /\ cleared' = cleared \cup {s}
  /\ UNCHANGED status

\* An attempt that fails part-way starts from nothing the next time.
GiveUp == cleared' = {} /\ UNCHANGED status

Finish == cleared = Stores /\ Become({"offboarding"}, "offboarded")

Next == Register \/ Suspend \/ Resume \/ Leave \/ GiveUp \/ Finish
        \/ \E s \in Stores : Clear(s)

Spec == Init /\ [][Next]_<<status, cleared>>

===============================================================================
