--------------------------------- MODULE Stacks ---------------------------------
(***************************************************************************)
(* src/src/inventory.rs: item stacks, one click of the cursor on a slot,   *)
(* and adding a stack to a row of slots.  An item that never merges (a     *)
(* tool, or one with an identity of its own) is a kind with MaxStack 1;    *)
(* wear is left out.                                                       *)
(***************************************************************************)
EXTENDS Naturals, SequencesExt

CONSTANTS None, Kinds, MaxStack

ASSUME StacksAssumption == MaxStack \in [Kinds -> Nat \ {0}]

Stack == {s \in [kind : Kinds, count : Nat \ {0}] : s.count <= MaxStack[s.kind]}
Slot  == Stack \cup {None}

ASSUME NoneIsNoStack == None \notin Stack

\* What a slot holds of a kind.
Held(slot, k) == IF slot = None THEN 0 ELSE IF slot.kind = k THEN slot.count ELSE 0

\* A row of numbers added up.
Tally(row) ==
  LET upTo[n \in 0..Len(row)] == IF n = 0 THEN 0 ELSE upTo[n - 1] + row[n] IN upTo[Len(row)]

\* What a row of slots holds of a kind.
Sum(slots, k) == Tally([i \in DOMAIN slots |-> Held(slots[i], k)])

\* The stacks of a row, without its empty slots.
Filled(row) ==
  LET upTo[n \in 0..Len(row)] ==
        IF n = 0 THEN <<>>
        ELSE IF row[n] = None THEN upTo[n - 1] ELSE Append(upTo[n - 1], row[n])
  IN upTo[Len(row)]

\* A stack of n, or nothing.
Some(k, n) == IF n = 0 THEN None ELSE [kind |-> k, count |-> n]

Less(a, b) == IF a <= b THEN a ELSE b

\* click_stack: what the slot and the cursor hold after a click.
Left(slot, held) ==
  IF slot # None /\ held # None /\ slot.kind = held.kind /\ MaxStack[held.kind] > 1
  THEN LET n == Less(held.count, MaxStack[slot.kind] - slot.count) IN
       <<Some(slot.kind, slot.count + n), Some(held.kind, held.count - n)>>
  ELSE <<held, slot>>

Takes(slot, kind) ==
  slot = None \/ (slot.kind = kind /\ slot.count < MaxStack[kind])

Right(slot, held) ==
  IF held # None
  THEN IF Takes(slot, held.kind)
       THEN <<Some(held.kind, Held(slot, held.kind) + 1), Some(held.kind, held.count - 1)>>
       ELSE <<slot, held>>
  ELSE IF slot = None THEN <<None, None>>
       ELSE <<Some(slot.kind, slot.count \div 2),
              Some(slot.kind, slot.count - (slot.count \div 2))>>

Click(slot, held, right) == IF right THEN Right(slot, held) ELSE Left(slot, held)

\* Inventory::add_stack pours a stack into slots that hold its kind, and what is left into
\* empty ones; to is what came of it so far.
Poured(s, pass, to, i) ==
  LET here == to.slots[i]
      room == IF (here = None) = (pass = "fill") /\ Takes(here, s.kind)
              THEN MaxStack[s.kind] - Held(here, s.kind) ELSE 0
      n    == Less(to.left, room) IN
  IF n = 0 THEN to
  ELSE [slots |-> [to.slots EXCEPT ![i] = Some(s.kind, Held(here, s.kind) + n)],
        left  |-> to.left - n]

\* One pass over the slots.
Pass(s, pass, start) ==
  LET upTo[i \in 0..Len(start.slots)] ==
        IF i = 0 THEN start ELSE Poured(s, pass, upTo[i - 1], i)
  IN upTo[Len(start.slots)]

AddStack(slots, s) == Pass(s, "fill", Pass(s, "merge", [slots |-> slots, left |-> s.count]))
=================================================================================
