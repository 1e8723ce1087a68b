------------------------------- MODULE SlotStore -------------------------------
(***************************************************************************)
(* What a region file promises: a slot holds nothing, one whole version,   *)
(* or bytes that are reported unreadable.  Only the write under way may    *)
(* change what is read, and only of its own slot; an acknowledged write is *)
(* readable; a write that failed may have left the old version, the new    *)
(* one or unreadable bytes.  Until the file has its header nothing is      *)
(* stored, and a failed creation makes the region unreadable, not empty.   *)
(***************************************************************************)
CONSTANTS Slots, Versions, Missing, Unreadable, Idle

VARIABLES stored,   \* what reading each slot yields
          made,     \* whether the file has its header
          writing,  \* the write under way
          outcome   \* what the last write reported

storeVars == <<stored, made, writing, outcome>>

Everywhere(x) == [s \in Slots |-> x]

Init == /\ stored = Everywhere(Missing) /\ made = FALSE
        /\ writing = Idle /\ outcome = "none"

\* The first write of a region creates the file, and an empty file is unreadable.
Start(s, v) == /\ writing = Idle
               /\ writing' = <<s, v>> /\ outcome' = "none"
               /\ IF made THEN UNCHANGED stored ELSE stored' = Everywhere(Unreadable)
               /\ UNCHANGED made

Refuse == /\ writing = Idle /\ ~made
          /\ outcome' = "failed"
          /\ UNCHANGED <<stored, made, writing>>

Make == /\ writing # Idle /\ ~made
        /\ made' = TRUE /\ stored' = Everywhere(Missing)
        /\ UNCHANGED <<writing, outcome>>

Change(x) == /\ writing # Idle /\ made
             /\ stored' = [stored EXCEPT ![writing[1]] = x]
             /\ UNCHANGED <<made, writing, outcome>>

Acknowledge == /\ writing # Idle /\ stored[writing[1]] = writing
               /\ writing' = Idle /\ outcome' = "ok"
               /\ UNCHANGED <<stored, made>>

Fail == /\ writing # Idle
        /\ writing' = Idle /\ outcome' = "failed"
        /\ UNCHANGED <<stored, made>>

Next == \/ \E s \in Slots, v \in Versions : Start(s, v)
        \/ Refuse \/ Make
        \/ Change(writing) \/ Change(Unreadable)
        \/ Acknowledge \/ Fail

Spec == Init /\ [][Next]_storeVars
=============================================================================
