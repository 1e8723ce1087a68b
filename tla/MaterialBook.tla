------------------------------ MODULE MaterialBook ------------------------------
(***************************************************************************)
(* What the finite-material ledger promises about one kind of finite block *)
(* in one chunk (src/docs/finite-materials-plan.md: crash-safe and         *)
(* idempotent relative to block edits): every such block is either         *)
(* natural, and reserved from a deposit, or placed, and recorded at its    *)
(* position; and what is used up is written down once.                     *)
(***************************************************************************)
EXTENDS Naturals, FiniteSets

CONSTANTS Cells,     \* positions of the chunk
          Natural    \* those the generator fills with the finite block

VARIABLES ore,       \* cells that hold the block
          reserved,  \* blocks still reserved underground
          placed,    \* placed_positions
          lost       \* recipe losses, consumption, deletions, burials
book == <<ore, reserved, placed, lost>>

Init == ore = Natural /\ reserved = Cardinality(Natural) /\ placed = {} /\ lost = 0

\* The count when nothing is mined.  The code does not keep it in a chunk that had none of
\* the kind: an adoption that meets a placed block the ledger has yet to see counts it as
\* natural too (reserve_fresh_chunk, before the journal is replayed), so the count may be
\* one where it should be none, and never more.
Unmined == IF Natural = {} THEN reserved' \in {0, 1} ELSE reserved' = reserved

Mine(c)  == /\ c \in ore \ placed
            /\ ore' = ore \ {c} /\ reserved' = reserved - 1 /\ UNCHANGED <<placed, lost>>
Break(c) == /\ c \in placed /\ Unmined
            /\ ore' = ore \ {c} /\ placed' = placed \ {c} /\ UNCHANGED lost
Place(c) == /\ c \notin ore /\ Unmined
            /\ ore' = ore \cup {c} /\ placed' = placed \cup {c} /\ UNCHANGED lost
Lose     == lost' = lost + 1 /\ Unmined /\ UNCHANGED <<ore, placed>>
Recount  == Unmined /\ UNCHANGED <<ore, placed, lost>>

Next == Lose \/ Recount \/ \E c \in Cells : Mine(c) \/ Break(c) \/ Place(c)

Spec == Init /\ [][Next]_book

\* The accounts of a chunk that had the kind are those of the voxels: each block is placed
\* or reserved, and nothing else is.
Accounted == placed \subseteq ore /\ reserved = Cardinality(ore \ placed)
=================================================================================
