------------------------------- MODULE PlayerBook -------------------------------
(***************************************************************************)
(* What a server promises its players (src/docs/multiplayer-identity-plan.md,  *)
(* "Player profiles and server authority"): world progress belongs to a    *)
(* server-owned PlayerId; an authenticated principal, once it has reached  *)
(* one, reaches the same one for ever, and progress once saved is not      *)
(* rolled back.                                                            *)
(***************************************************************************)
EXTENDS Naturals

CONSTANTS None, Principals, Players

VARIABLES owner,     \* the player a principal opens, or None
          progress   \* the version of a player's progress last saved
book == <<owner, progress>>

Init == owner = [p \in Principals |-> None] /\ progress = [x \in Players |-> 0]

Grant(x, some) ==
  /\ \A p \in some : owner[p] \in {None, x}
  /\ owner' = [p \in Principals |-> IF p \in some THEN x ELSE owner[p]]
  /\ UNCHANGED progress

Keep(x) ==
  /\ \E p \in Principals : owner[p] = x
  /\ progress'[x] > progress[x] /\ progress' = [progress EXCEPT ![x] = progress'[x]]
  /\ UNCHANGED owner

Next == \E x \in Players : Keep(x) \/ \E some \in SUBSET Principals : Grant(x, some)

Spec == Init /\ [][Next]_book
=================================================================================
