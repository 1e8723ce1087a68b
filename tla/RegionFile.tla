------------------------------ MODULE RegionFile ------------------------------
(***************************************************************************)
(* src/src/world/storage/region.rs: one region file, a header of (offset,  *)
(* length) slots and the payloads behind it.  A write appends the payload, *)
(* then sets the slot's offset, then its length, then compacts when the    *)
(* dead weight outgrows the live; it may be interrupted between any two of *)
(* these, and inside the header or the payload, by an I/O error or by the  *)
(* death of the process.  RegionStore's lock keeps readers out meanwhile.  *)
(* A payload is abstracted to cells, Size of them, each naming its slot,   *)
(* version and place; a decoder accepts exactly the cells of one payload.  *)
(***************************************************************************)
EXTENDS Naturals, Sequences, SequencesExt

CONSTANTS Slots,        \* chunk slots of the region, in index order
          Versions,
          Size,         \* version -> cells of its payload
          Missing, Unreadable, Idle,
          Header,       \* weight of the header (HEADER_BYTES)
          Ratio, Floor, \* COMPACT_RATIO, COMPACT_FLOOR
          MaxCells      \* bound: file length explored

Chunks == ToSet(Slots)

ASSUME RegionAssumption ==
  /\ Slots \in Seq(Nat) /\ Size \in [Versions -> Nat \ {0}]
  /\ {Header, Ratio, Floor, MaxCells} \subseteq Nat
  /\ Idle \notin Chunks \X Versions

VARIABLES header,   \* "none", "empty" (created, no bytes), "short", "whole"
          index,    \* the slots
          body,     \* the cells behind the header
          step,     \* where the write under way is
          writing,  \* its chunk and version
          outcome,  \* what the last write reported
          copy      \* compact: the slots copied so far, and the file they make
vars == <<header, index, body, step, writing, outcome, copy>>

Cell == Chunks \X Versions \X Nat
Payload(c, v) == [i \in 1..Size[v] |-> <<c, v, i>>]
NoSlot    == [at |-> 0, len |-> 0]
Blank     == [c \in Chunks |-> NoSlot]
Target    == Payload(writing[1], writing[2])
NoCopy    == [slots |-> 0, index |-> Blank, body |-> <<>>]

Init == /\ header = "none" /\ index = Blank /\ body = <<>>
        /\ step = "idle" /\ writing = Idle /\ outcome = "none" /\ copy = NoCopy

-----------------------------------------------------------------------------
(* Reading. *)

InBounds(s, cells) == s.at + s.len <= Len(cells)
Slice(s, cells)    == SubSeq(cells, s.at + 1, s.at + s.len)

\* The chunk and version a decoder finds in these cells.
Decode(cells) ==
  LET whole == {cv \in Chunks \X Versions : cells = Payload(cv[1], cv[2])}
  IN  IF whole = {} THEN Unreadable ELSE CHOOSE cv \in whole : TRUE

\* read_chunk, and the decoding of what it returns.
Read(c) == IF header \in {"empty", "short"} THEN Unreadable
           ELSE IF header = "none" \/ index[c].len = 0 THEN Missing
           ELSE IF InBounds(index[c], body) THEN Decode(Slice(index[c], body)) ELSE Unreadable

-----------------------------------------------------------------------------
(* write_chunk, step by step. *)

\* Opening creates the file; a header cut short is refused for good.
Open(c, v) ==
  /\ step = "idle"
  /\ IF header = "short"
     THEN outcome' = "failed" /\ UNCHANGED <<header, step, writing>>
     ELSE /\ header' = IF header = "none" THEN "empty" ELSE header
          /\ step' = IF header = "whole" THEN "append" ELSE "header"
          /\ writing' = <<c, v>> /\ outcome' = "none"
  /\ UNCHANGED <<index, body, copy>>

WriteHeader ==
  /\ step = "header"
  /\ header' = "whole" /\ step' = "append"
  /\ UNCHANGED <<index, body, writing, outcome, copy>>

Append_ ==
  /\ step = "append" /\ Len(body) + Len(Target) <= MaxCells
  /\ body' = body \o Target /\ step' = "offset"
  /\ UNCHANGED <<header, index, writing, outcome, copy>>

SetOffset ==
  /\ step = "offset"
  /\ index' = [index EXCEPT ![writing[1]].at = Len(body) - Len(Target)]
  /\ step' = "length"
  /\ UNCHANGED <<header, body, writing, outcome, copy>>

SetLength ==
  /\ step = "length"
  /\ index' = [index EXCEPT ![writing[1]].len = Len(Target)]
  /\ step' = "check"
  /\ UNCHANGED <<header, body, writing, outcome, copy>>

\* read_index, and the sum of the lengths it returns: the first n of these slots.
Lengths(slots) ==
  LET upTo[n \in 0..Len(Slots)] == IF n = 0 THEN 0 ELSE upTo[n - 1] + slots[Slots[n]].len
  IN  upTo

Total == Header + Len(body)
Live  == Header + Lengths(index)[Len(Slots)]
Due   == Total > Ratio * Live /\ Total > Live + Floor

Done(result) == step' = "idle" /\ writing' = Idle /\ outcome' = result /\ copy' = NoCopy

\* Fault: the file is never compacted.
CheckNever == step = "check" /\ Done("ok") /\ UNCHANGED <<header, index, body>>

Check ==
  /\ step = "check"
  /\ IF Due THEN step' = "compact" /\ UNCHANGED <<writing, outcome, copy>> ELSE Done("ok")
  /\ UNCHANGED <<header, index, body>>

-----------------------------------------------------------------------------
(* compact. *)

Valid(c) == index[c].len = 0 \/ InBounds(index[c], body)
Following    == Slots[copy.slots + 1]

Copied(c) ==
  [slots |-> copy.slots + 1,
   index |-> [copy.index EXCEPT ![c] = [at |-> Len(copy.body), len |-> index[c].len]],
   body  |-> copy.body \o Slice(index[c], body)]

\* Fault: slots out of bounds are dropped instead of stopping the compaction.
CopyAnyway ==
  /\ step = "compact" /\ copy.slots < Len(Slots)
  /\ copy' = IF index[Following].len = 0 \/ ~Valid(Following) THEN [copy EXCEPT !.slots = @ + 1]
             ELSE Copied(Following)
  /\ UNCHANGED <<header, index, body, step, writing, outcome>>

\* The live payloads are read in slot order and laid end to end.
CopySlot ==
  /\ step = "compact" /\ copy.slots < Len(Slots) /\ Valid(Following)
  /\ copy' = IF index[Following].len = 0 THEN [copy EXCEPT !.slots = @ + 1] ELSE Copied(Following)
  /\ UNCHANGED <<header, index, body, step, writing, outcome>>

\* The file beside the original, moved over it.
Compacted == copy.slots = Len(Slots) /\ index' = copy.index /\ body' = copy.body

Compact == step = "compact" /\ Compacted /\ Done("ok") /\ UNCHANGED header

\* One slot out of bounds and the region is not compacted: the write, already
\* in the file, is reported as failed.
CompactRefused ==
  /\ step = "compact" /\ copy.slots < Len(Slots) /\ ~Valid(Following)
  /\ Done("failed")
  /\ UNCHANGED <<header, index, body>>

-----------------------------------------------------------------------------
(* An I/O error, or the death of the process, at any point of a write. *)
Interrupt ==
  /\ step # "idle"
  /\ Done("failed")
  /\ \/ UNCHANGED <<header, index, body>>
     \/ /\ step = "header" /\ header' = "short"
        /\ UNCHANGED <<index, body>>
     \/ /\ step = "append"
        /\ \E k \in 1..Len(Target) : /\ Len(body) + k <= MaxCells
                                     /\ body' = body \o SubSeq(Target, 1, k)
        /\ UNCHANGED <<header, index>>
     \/ step = "compact" /\ Compacted /\ UNCHANGED header

Next == \/ \E c \in Chunks, v \in Versions : Open(c, v)
        \/ WriteHeader \/ Append_ \/ SetOffset \/ SetLength
        \/ Check \/ CopySlot \/ Compact \/ CompactRefused \/ Interrupt

Spec == Init /\ [][Next]_vars

-----------------------------------------------------------------------------
(* Properties. *)

\* Every variable keeps its type, and nothing lies behind an unfinished header.
TypeOK ==
  /\ header \in {"none", "empty", "short", "whole"}
  /\ index \in [Chunks -> [at : Nat, len : Nat]] /\ body \in Seq(Cell)
  /\ header # "whole" => index = Blank /\ body = <<>>
  /\ step \in {"idle", "header", "append", "offset", "length", "check", "compact"}
  /\ writing \in (Chunks \X Versions) \cup {Idle}
  /\ (writing = Idle) = (step = "idle")
  /\ outcome \in {"none", "ok", "failed"}
  /\ copy \in [slots : 0..Len(Slots), index : [Chunks -> [at : Nat, len : Nat]], body : Seq(Cell)]

\* region.rs:12-13: once a write is acknowledged the dead weight does not outgrow
\* the live, whatever interrupted writes left behind.
DeadWeightBounded ==
  outcome = "ok" => Total <= Live + Floor \/ Total <= Ratio * Live

\* The file is well formed at every write, and bounded at every acknowledged one.
FileInv == TypeOK /\ DeadWeightBounded

\* region.rs:8-11, 159-160, 205-206: the file is a slot store.  A payload still
\* being appended, a torn slot, a compaction done or cut short never change what
\* another slot yields, and what was acknowledged can be read.
Store == INSTANCE SlotStore WITH Slots <- Chunks, stored <- [c \in Chunks |-> Read(c)],
                                 made <- (header = "whole")
ImplementsStore == Store!Spec
=============================================================================
