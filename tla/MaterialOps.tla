------------------------------ MODULE MaterialOps ------------------------------
(***************************************************************************)
(* src/src/materials.rs, src/src/world/material_transactions.rs: a block   *)
(* that is broken or placed, and the finite-material ledger that follows   *)
(* it, write by write.                                                     *)
(*                                                                         *)
(* Each change is announced in a one-record voxel journal, the chunk is    *)
(* written, and then the ledger commits a delta: a pending record, a frame *)
(* appended to the log, memory, and the journal goes.  A checkpoint writes *)
(* the ledger and empties the log.  The process may die before any write   *)
(* and within the append, during a load too.                               *)
(*                                                                         *)
(* One chunk and one kind of finite block, "ore"; a cell holds it, air, or *)
(* a replaceable block that declares no material ("plain").  The reserved  *)
(* count is None until an adoption has counted the kind in the chunk.      *)
(***************************************************************************)
EXTENDS Naturals, FiniteSets, Sequences

CONSTANTS None, Cells, Natural,
          MayFail,                                    \* writes that may report an error
          MaxOps, MaxLosses, MaxEdits, MaxSaves, MaxCrashes   \* bounds

Voxels  == [Cells -> {"air", "plain", "ore"}]
Loss    == [kind |-> "loss"]
Actions == {Loss} \cup [kind : {"mine", "break", "place"}, id : Nat, cell : Cells,
                        before : {"air", "plain", "ore"}, after : {"air", "plain", "ore"}]
Deltas  == [seq : Nat, action : Actions]
Handlers == {"idle", "edit", "loss", "link", "save", "boot", "down", "refused"}
Writes   == {"journal", "voxel", "chunk", "delta", "pending", "append", "unpend", "finish",
             "snapshot", "clear", "tidy", "world", "stage", "linked", "read", "replay"}

ASSUME MaterialAssumption ==
  /\ IsFiniteSet(Cells) /\ Natural \subseteq Cells
  /\ None \notin Nat /\ None \notin Writes /\ None \notin Voxels
  /\ None \notin Actions /\ None \notin Deltas /\ None \notin Seq(Deltas)
  /\ MayFail \subseteq {"checkpoint", "journal", "chunk", "delta"}
  /\ {MaxOps, MaxLosses, MaxEdits, MaxSaves, MaxCrashes} \subseteq Nat

VARIABLES disk,    \* chunk, ledger, log, torn, pending, journal, coordinator
          chunk,   \* the resident voxels, or None
          ledger,  \* the ledger in memory
          dirty,   \* reservations_dirty
          call,    \* the handler under way, or "idle", "boot", "down", "refused"
          step,    \* its next write
          op,      \* the operation or loss it commits
          budget   \* what is left of the bounds
vars == <<disk, chunk, ledger, dirty, call, step, op, budget>>

Generated == [c \in Cells |-> IF c \in Natural THEN "ore" ELSE "air"]
Saved     == IF disk.chunk = None THEN Generated ELSE disk.chunk
Fresh     == [next |-> 1, applied |-> 0, seq |-> 0,
              reserved |-> None, placed |-> {}, lost |-> 0]

Init ==
  /\ disk = [chunk |-> None, ledger |-> Fresh, log |-> <<>>, torn |-> FALSE,
             pending |-> None, journal |-> None, coordinator |-> None]
  /\ chunk = None /\ ledger = Fresh /\ dirty = FALSE
  /\ call = "idle" /\ step = None /\ op = None
  /\ budget = [ops |-> MaxOps, losses |-> MaxLosses, edits |-> MaxEdits,
               saves |-> MaxSaves, crashes |-> MaxCrashes]

Spend(what) == budget[what] > 0 /\ budget' = [budget EXCEPT ![what] = @ - 1]

-----------------------------------------------------------------------------
(* The ledger: apply_delta_action, validate_delta_action, reserve_fresh_chunk. *)

ApplyOperation(l, o) ==
  LET known == [l EXCEPT !.next = IF @ > o.id THEN @ ELSE o.id + 1] IN
  IF o.id <= l.applied THEN known
  ELSE LET done == [known EXCEPT !.applied = o.id] IN
       CASE o.kind = "mine"  -> [done EXCEPT !.reserved = @ - 1]
         [] o.kind = "break" -> [done EXCEPT !.placed = @ \ {o.cell}]
         [] o.kind = "place" -> [done EXCEPT !.placed = @ \cup {o.cell}]

ApplyAction(l, action) ==
  IF action = Loss THEN [l EXCEPT !.lost = @ + 1] ELSE ApplyOperation(l, action)

Delta(l, action) == [seq |-> l.seq + 1, action |-> action]
ApplyDelta(l, d) == [ApplyAction(l, d.action) EXCEPT !.seq = d.seq]

\* A natural block must still be reserved.
Exhausted(l, action) ==
  action.kind = "mine" /\ action.id > l.applied /\ l.reserved \in {None, 0}

\* The first adoption that finds the kind reserves every block nobody placed.
Reserve(l, voxels) ==
  LET natural == {c \in Cells : voxels[c] = "ore" /\ c \notin l.placed} IN
  IF l.reserved = None /\ natural # {}
  THEN [l EXCEPT !.reserved = Cardinality(natural)] ELSE l

-----------------------------------------------------------------------------
(* What a load makes of the files (load, replay_delta_log). *)

LastSeq(d) == IF d.log = <<>> THEN d.ledger.seq ELSE d.log[Len(d.log)].seq
Repairs(d) ==
  d.pending # None /\ (d.torn \/ \A i \in 1..Len(d.log) : d.log[i].seq # d.pending.seq)
Records(d)  == IF Repairs(d) THEN Append(d.log, d.pending) ELSE d.log
\* The ledger after each record; one that it already has is passed over.
Follow(l, r) == IF r.seq <= l.seq THEN l ELSE ApplyDelta(l, r)
Replay(l, records) ==
  LET after[i \in 0..Len(records)] ==
        IF i = 0 THEN l ELSE Follow(after[i - 1], records[i])
  IN  after
Replayed(d) == Replay(d.ledger, Records(d))[Len(Records(d))]
Unreadable(d) ==
  \/ d.torn /\ d.pending = None
  \/ Repairs(d) /\ d.pending.seq # LastSeq(d) + 1
  \/ \E i \in 1..Len(Records(d)) :
       Records(d)[i].seq > Replay(d.ledger, Records(d))[i - 1].seq + 1
RolledForward(d) ==
  IF d.coordinator = None THEN d
  ELSE [d EXCEPT !.log = d.coordinator, !.torn = FALSE, !.coordinator = None]

-----------------------------------------------------------------------------
(* Handlers and their steps. *)

Idle         == call = "idle"
Return(next) == call' = next /\ step' = None /\ op' = None
Start(who, action, s) == call' = who /\ op' = action /\ step' = s
Checkpoint(s) == IF dirty THEN "snapshot" ELSE s    \* checkpoint_reservations
Journalled == op # None /\ op # Loss /\ op.id # 0

\* begin_break, begin_place: what the block is now decides the kind.
BeginBreak(c) ==
  /\ Idle /\ chunk # None /\ chunk[c] = "ore" /\ Spend("ops")
  /\ Start("edit", [kind |-> IF c \in ledger.placed THEN "break" ELSE "mine", id |-> 0,
                    cell |-> c, before |-> "ore", after |-> "air"], Checkpoint("journal"))
  /\ UNCHANGED <<disk, chunk, ledger, dirty>>

BeginPlace(c) ==
  /\ Idle /\ chunk # None /\ chunk[c] # "ore" /\ Spend("ops")
  /\ Start("edit", [kind |-> "place", id |-> 0,
                    cell |-> c, before |-> chunk[c], after |-> "ore"], Checkpoint("journal"))
  /\ UNCHANGED <<disk, chunk, ledger, dirty>>

\* begin_operation: an error cancels the edit, but the id is gone.
WriteJournal ==
  /\ step = "journal"
  /\ ledger' = [ledger EXCEPT !.next = @ + 1]
  /\ \/ /\ op' = [op EXCEPT !.id = ledger.next] /\ disk' = [disk EXCEPT !.journal = op']
        /\ step' = "voxel" /\ UNCHANGED call
     \/ "journal" \in MayFail /\ Return("idle") /\ UNCHANGED disk
  /\ UNCHANGED <<chunk, dirty, budget>>

\* The edit itself, or a later refusal of it (cancel_unapplied_material_operation).
SetVoxel ==
  /\ step = "voxel"
  /\ \/ /\ chunk' = [chunk EXCEPT ![op.cell] = op.after] /\ step' = "chunk"
        /\ UNCHANGED <<disk, call, op>>
     \/ disk' = [disk EXCEPT !.journal = None] /\ Return("idle") /\ UNCHANGED chunk
  /\ UNCHANGED <<ledger, dirty, budget>>

\* Fault: the chunk is left to the next save of the world.
LeaveChunkForLater ==
  /\ step = "chunk" /\ step' = "delta"
  /\ UNCHANGED <<disk, chunk, ledger, dirty, call, op, budget>>

\* complete_material_operation: the chunk first; an error leaves the journal.
SaveChunk ==
  /\ step = "chunk"
  /\ \/ disk' = [disk EXCEPT !.chunk = chunk] /\ step' = "delta" /\ UNCHANGED <<call, op>>
     \/ "chunk" \in MayFail /\ Return("idle") /\ UNCHANGED disk
  /\ UNCHANGED <<chunk, ledger, dirty, budget>>

\* apply_operation, commit_delta up to its first write.
Validate ==
  /\ step = "delta"
  /\ \/ op.id <= ledger.applied /\ step' = "finish" /\ UNCHANGED <<call, op>>
     \/ Exhausted(ledger, op) /\ Return(IF call = "boot" THEN "refused" ELSE "idle")
     \/ /\ op.id > ledger.applied /\ ~Exhausted(ledger, op)
        /\ step' = Checkpoint("pending") /\ UNCHANGED <<call, op>>
  /\ UNCHANGED <<disk, chunk, ledger, dirty, budget>>

\* Fault: the frame is appended with no pending record beside it.
AppendAtOnce ==
  /\ step = "pending" /\ step' = "append"
  /\ UNCHANGED <<disk, chunk, ledger, dirty, call, op, budget>>

WritePending ==
  /\ step = "pending"
  /\ \/ /\ disk' = [disk EXCEPT !.pending = Delta(ledger, op)]
        /\ step' = "append" /\ UNCHANGED <<call, op>>
     \/ "delta" \in MayFail /\ Return("idle") /\ UNCHANGED disk
  /\ UNCHANGED <<chunk, ledger, dirty, budget>>

\* The frame reaches the log, whole or, in a crash, in part.
AppendFrame ==
  /\ step = "append"
  /\ disk' = [disk EXCEPT !.log = Append(@, Delta(ledger, op))]
  /\ ledger' = ApplyDelta(ledger, Delta(ledger, op)) /\ step' = "unpend"
  /\ UNCHANGED <<chunk, dirty, call, op, budget>>

DropPending ==
  /\ step = "unpend" /\ disk' = [disk EXCEPT !.pending = None]
  /\ IF op = Loss THEN Return("idle") ELSE step' = "finish" /\ UNCHANGED <<call, op>>
  /\ UNCHANGED <<chunk, ledger, dirty, budget>>

\* finish_operation; a destructive or administrative break also writes the loss down.
Finish ==
  /\ step = "finish" /\ disk' = [disk EXCEPT !.journal = None]
  /\ \/ Return("idle") /\ UNCHANGED budget
     \/ /\ call = "edit" /\ op.after = "air" /\ Spend("losses")
        /\ Start("loss", Loss, Checkpoint("pending"))
  /\ UNCHANGED <<chunk, ledger, dirty>>

-----------------------------------------------------------------------------
(* save: the ledger, the log, the pending record. *)

AfterSave ==
  CASE call = "save"                   -> "world"
    [] call = "link"                   -> "stage"
    [] call = "edit" /\ ~Journalled    -> "journal"
    [] OTHER                           -> "pending"

WriteLedger ==
  /\ step = "snapshot"
  /\ \/ disk' = [disk EXCEPT !.ledger = ledger] /\ step' = "clear" /\ UNCHANGED <<call, op>>
     \/ /\ "checkpoint" \in MayFail /\ call # "boot" /\ UNCHANGED disk
        /\ IF call = "save" THEN step' = "world" /\ UNCHANGED <<call, op>> ELSE Return("idle")
  /\ UNCHANGED <<chunk, ledger, dirty, budget>>

ClearLog ==
  /\ step = "clear" /\ disk' = [disk EXCEPT !.log = <<>>, !.torn = FALSE]
  /\ step' = "tidy" /\ UNCHANGED <<chunk, ledger, dirty, call, op, budget>>

Tidy ==
  /\ step = "tidy" /\ disk' = [disk EXCEPT !.pending = None]
  /\ dirty' = FALSE /\ step' = AfterSave
  /\ UNCHANGED <<chunk, ledger, call, op, budget>>

-----------------------------------------------------------------------------
(* The other entries of the ledger, the chunk and the world. *)

\* record_recipe_loss, record_consumption, bury_materials, record_admin_deletion.
RecordLoss ==
  /\ Idle /\ Spend("losses") /\ Start("loss", Loss, Checkpoint("pending"))
  /\ UNCHANGED <<disk, chunk, ledger, dirty>>

\* stage_linked_delta: the log is one of the files of an Arcane commit.
LinkLoss ==
  /\ Idle /\ Spend("losses") /\ Start("link", Loss, Checkpoint("stage"))
  /\ UNCHANGED <<disk, chunk, ledger, dirty>>

Stage ==
  /\ step = "stage"
  /\ \/ disk.pending # None /\ Return("idle") /\ UNCHANGED disk
     \/ /\ disk.pending = None /\ step' = "linked"
        /\ disk' = [disk EXCEPT !.coordinator = Append(disk.log, Delta(ledger, op))]
        /\ UNCHANGED <<call, op>>
  /\ UNCHANGED <<chunk, ledger, dirty, budget>>

\* commit_linked_files; the caller then replaces the ledger in memory.
Linked ==
  /\ step = "linked" /\ disk' = RolledForward(disk)
  /\ ledger' = ApplyDelta(ledger, Delta(ledger, op)) /\ Return("idle")
  /\ UNCHANGED <<chunk, dirty, budget>>

\* adopt_chunk reserves what it finds; evict_chunks saves what was edited.
Adopt ==
  /\ Idle /\ chunk = None
  /\ chunk' = Saved /\ ledger' = Reserve(ledger, Saved)
  /\ dirty' = (dirty \/ ledger' # ledger)
  /\ UNCHANGED <<disk, call, step, op, budget>>

Written == [disk EXCEPT !.chunk = IF chunk \in {None, Saved} THEN @ ELSE chunk]

Evict ==
  /\ Idle /\ chunk # None /\ disk' = Written /\ chunk' = None
  /\ UNCHANGED <<ledger, dirty, call, step, op, budget>>

\* An edit that involves no tracked material: water, plants, fire.
PlainEdit(c) ==
  /\ Idle /\ chunk # None /\ chunk[c] # "ore" /\ Spend("edits")
  /\ chunk' = [chunk EXCEPT ![c] = IF @ = "air" THEN "plain" ELSE "air"]
  /\ UNCHANGED <<disk, ledger, dirty, call, step, op>>

\* save_modified: the ledger, then the edited chunks.
SaveWorld ==
  /\ Idle /\ Spend("saves") /\ Start("save", None, "snapshot")
  /\ UNCHANGED <<disk, chunk, ledger, dirty>>

SaveChunks ==
  /\ step = "world" /\ disk' = Written /\ Return("idle")
  /\ UNCHANGED <<chunk, ledger, dirty, budget>>

-----------------------------------------------------------------------------
(* Crash and load. *)

Crash ==
  /\ call \notin {"down", "refused"} /\ Spend("crashes")
  /\ chunk' = None /\ ledger' = Fresh /\ dirty' = FALSE /\ Return("down")
  /\ \/ UNCHANGED disk
     \/ step = "append" /\ disk' = [disk EXCEPT !.torn = TRUE]

\* The Arcane ledger recovers its coordinator before the log is read; then the log is
\* repaired from the pending record.
Load ==
  LET d == RolledForward(disk) IN
  /\ call = "down"
  /\ IF Unreadable(d) THEN Return("refused") /\ UNCHANGED disk
     ELSE /\ call' = "boot" /\ step' = "read" /\ op' = None
          /\ disk' = [d EXCEPT !.log = Records(d), !.torn = FALSE]
  /\ UNCHANGED <<chunk, ledger, dirty, budget>>

ReadLedger ==
  /\ step = "read" /\ disk' = [disk EXCEPT !.pending = None]
  /\ ledger' = Replayed(disk) /\ step' = "replay"
  /\ UNCHANGED <<chunk, dirty, call, op, budget>>

\* Fault: a journalled operation is applied whatever the voxel is.
ReplayUnseen ==
  LET j == disk.journal IN
  /\ step = "replay"
  /\ IF j = None THEN Return("idle") /\ UNCHANGED <<chunk, ledger, dirty>>
     ELSE /\ chunk' = Saved /\ ledger' = Reserve(ledger, Saved)
          /\ dirty' = (dirty \/ ledger' # ledger)
          /\ op' = j /\ step' = "delta" /\ UNCHANGED call
  /\ UNCHANGED <<disk, budget>>

\* replay_pending_material_operation: the chunk is adopted first, and tells which side
\* of the edit is on disk.
ReplayJournal ==
  LET j == disk.journal IN
  /\ step = "replay"
  /\ IF j = None THEN Return("idle") /\ UNCHANGED <<chunk, ledger, dirty>>
     ELSE /\ chunk' = Saved /\ ledger' = Reserve(ledger, Saved)
          /\ dirty' = (dirty \/ ledger' # ledger)
          /\ CASE Saved[j.cell] = j.after  -> op' = j /\ step' = "delta" /\ UNCHANGED call
               [] Saved[j.cell] = j.before -> op' = j /\ step' = "finish" /\ UNCHANGED call
               [] OTHER                    -> Return("refused")
  /\ UNCHANGED <<disk, budget>>

Next ==
  \/ \E c \in Cells : BeginBreak(c) \/ BeginPlace(c) \/ PlainEdit(c)
  \/ WriteJournal \/ SetVoxel \/ SaveChunk \/ Validate \/ WritePending
  \/ AppendFrame \/ DropPending \/ Finish
  \/ WriteLedger \/ ClearLog \/ Tidy
  \/ RecordLoss \/ LinkLoss \/ Stage \/ Linked
  \/ Adopt \/ Evict \/ SaveWorld \/ SaveChunks
  \/ Crash \/ Load \/ ReadLedger \/ ReplayJournal

Spec == Init /\ [][Next]_vars

-----------------------------------------------------------------------------
(* Properties. *)

TypeOK ==
  /\ disk.chunk \in {None} \cup Voxels /\ chunk \in {None} \cup Voxels
  /\ \A l \in {ledger, disk.ledger} :
       /\ l.next \in 1..(MaxOps + 1) /\ l.applied < l.next
       /\ l.reserved \in {None} \cup 0..Cardinality(Cells)
       /\ l.placed \subseteq Cells /\ l.lost \in 0..MaxLosses
  /\ ledger.seq <= MaxOps + MaxLosses /\ dirty \in BOOLEAN
  /\ call \in Handlers /\ step \in {None} \cup Writes

\* What a start would make of the files as they are now: the ledger replayed, the chunk
\* adopted, and a journalled operation applied if its voxel is on disk.
Recovered ==
  LET l == Reserve(Replayed(RolledForward(disk)), Saved)
      j == disk.journal IN
  IF j # None /\ Saved[j.cell] = j.after THEN ApplyOperation(l, j) ELSE l
Count(l) == IF l.reserved = None THEN 0 ELSE l.reserved

\* The files, read that way, keep the book at every step: an edit and its ledger entry
\* happen at once, exactly once, and no crash duplicates or loses a block
\* ("crash-safe and idempotent relative to block edits").
Book == INSTANCE MaterialBook WITH
  ore <- {c \in Cells : Saved[c] = "ore"}, reserved <- Count(Recovered),
  placed <- Recovered.placed, lost <- Recovered.lost
ImplementsBook == Book!Spec

\* Between handlers memory has the accounts that a start would find, so that nothing
\* acknowledged depends on the process staying up.
MemoryIsDurable ==
  call = "idle" /\ chunk # None =>
    /\ Reserve(ledger, chunk) = ledger
    /\ \A part \in {"reserved", "placed", "lost"} : ledger[part] = Recovered[part]
    /\ \A c \in Cells : chunk[c] = "ore" <=> Saved[c] = "ore"

\* The ledger's own files can be loaded at every step, whatever write the process dies
\* before; a start is refused only for a voxel that neither side of the journal names.
Estranged == disk.journal # None
             /\ Saved[disk.journal.cell] \notin {disk.journal.before, disk.journal.after}
LedgerAlwaysLoads ==
  ~Unreadable(RolledForward(disk)) /\ (call = "refused" => Estranged)

\* The ledger's files are well formed and loadable at every write.
LedgerInv == TypeOK /\ LedgerAlwaysLoads

\* No crash leaves files that the next start refuses ("updates are crash-safe and
\* idempotent relative to block edits", finite-materials-plan.md:326-327).  The code does
\* not keep it: a plain edit that is only in memory makes the journal of the next
\* placement name a block the saved chunk never held (world/persistence.rs:266).
NeverRefused == call # "refused"
=================================================================================
