----------------------------- MODULE WorkingCustody -----------------------------
(***************************************************************************)
(* What a working promises about the Current reserved for it               *)
(* (src/docs/magic-workings-plan.md: "write-ahead and exact-once"): it is  *)
(* reserved once, and then either goes back or is spent, never both; an    *)
(* effect is delivered only for Current that is spent, and delivery, like  *)
(* a return, is final.                                                     *)
(***************************************************************************)
CONSTANT Ids
VARIABLE custody    \* per working: free, reserved, returned, owed or delivered

Init == custody = [id \in Ids |-> "free"]

Move(id, from, to) == custody[id] = from /\ custody' = [custody EXCEPT ![id] = to]

Reserve(id) == Move(id, "free", "reserved")
Return(id)  == Move(id, "reserved", "returned")    \* cancelled or interrupted
Owe(id)     == Move(id, "reserved", "owed")        \* settled, its effect is pending
Deliver(id) == Move(id, "owed", "delivered")       \* the effect is on disk

Next == \E id \in Ids : Reserve(id) \/ Return(id) \/ Owe(id) \/ Deliver(id)

Spec == Init /\ [][Next]_custody
=================================================================================
