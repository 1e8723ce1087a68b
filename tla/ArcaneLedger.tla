------------------------------ MODULE ArcaneLedger ------------------------------
(***************************************************************************)
(* src/src/arcane.rs: how the Arcane Current ledger and the domain files   *)
(* linked to it stay together on disk.  Between checkpoints a transaction  *)
(* is a frame of a journal, announced by a pending record; a transaction   *)
(* that also replaces domain files is announced by a coordinator record.   *)
(* A checkpoint (save) replaces ledger, journal and manifest one after the *)
(* other behind a backup of the first two.  One thread does all of it and  *)
(* may die between any two writes.                                         *)
(*                                                                         *)
(* Accounts are abstracted to the sequence of transactions applied since   *)
(* genesis.  The game commits under one origin, so a transaction's id, its *)
(* delta sequence and its place in that sequence are the same number;      *)
(* serial tells apart two attempts that were given the same id.            *)
(***************************************************************************)
EXTENDS Naturals, Sequences, SequencesExt

CONSTANTS Files,             \* the domain files of a linked transaction
          None,
          MayFail,           \* phases whose write may report an I/O error
          RestoreInterrupted,\* may the process die between a restore's two writes?
          MaxTransactions, MaxId  \* bounds

\* The writes after which an error leaves files that mean one thing.  A torn append
\* and a checkpoint that fails half way are not among them.
CleanFailures == {"coordinator", "files", "pending", "append", "unpend", "uncoordinate",
                  "backup", "journalBackup", "ledger"}

Serials     == 1..MaxTransactions
Transaction == [id : 1..MaxId, serial : Serials, linked : BOOLEAN]
Contents    == [Files -> {0} \cup Serials]   \* the serial that last wrote a file
Ledger      == [applied : Seq(Transaction), next : 1..(MaxId + 1)]
Torn        == [id |-> 0]                    \* a frame cut short
Genesis     == [applied |-> <<>>, next |-> 1]

ASSUME LedgerAssumption ==
  /\ RestoreInterrupted \in BOOLEAN
  /\ "clear" \notin MayFail     \* save ignores that error, which is left out
  /\ MaxTransactions \in Nat /\ MaxId \in Nat
  /\ None \notin Ledger \cup Transaction \cup [txn : Transaction, before : Contents]

VARIABLES disk,    \* the files, see Disk
          mem,     \* the ledger in memory
          phase,   \* the write the thread is about to do, or "running"
          booting, \* is it load that is being executed?
          cur,     \* the transaction being committed
          issued,  \* transactions attempted so far
          acked    \* serials whose commit has returned Applied
vars == <<disk, mem, phase, booting, cur, issued, acked>>

Init ==
  /\ disk = [ledger |-> Genesis, backup |-> None, journal |-> <<>>, journalBackup |-> <<>>,
             manifest |-> Genesis, pending |-> None, coordinator |-> None,
             files |-> [f \in Files |-> 0]]
  /\ mem = Genesis /\ phase = "running" /\ booting = FALSE
  /\ cur = None /\ issued = 0 /\ acked = {}

-----------------------------------------------------------------------------
(* Helpers. *)

High == Len(mem.applied)      \* last_delta_seq, and the origin's high water

\* The frames before the first undecodable one, and whether that is all of them.
Complete(journal) == Torn \notin ToSet(journal)
Frames(journal)   == IF Complete(journal) THEN journal
                     ELSE SubSeq(journal, 1, SelectInSeq(journal, LAMBDA frame : frame = Torn) - 1)

Write(p, field, value, next) ==
  phase = p /\ disk' = [disk EXCEPT ![field] = value] /\ phase' = next

\* Where an error leaves the thread: load refuses the world.
Failed == IF booting THEN "refused" ELSE "running"

-----------------------------------------------------------------------------
(* commit and commit_linked_files. *)

\* A caller allocates the next system id and prepares a transaction for it.
Begin(linked) ==
  /\ phase = "running" /\ issued < MaxTransactions /\ mem.next <= MaxId
  /\ disk.coordinator = None /\ mem.next = High + 1
  /\ issued' = issued + 1
  /\ cur' = [id |-> mem.next, serial |-> issued + 1, linked |-> linked]
  /\ mem' = [mem EXCEPT !.next = @ + 1]
  /\ phase' = IF linked THEN "coordinator" ELSE "commit"
  /\ UNCHANGED <<disk, booting, acked>>

\* The id is allocated, then the caller's preparation fails or the ledger
\* refuses the transaction: nothing is written.
Refuse ==
  /\ phase = "running" /\ mem.next <= MaxId
  /\ mem' = [mem EXCEPT !.next = @ + 1]
  /\ UNCHANGED <<disk, phase, booting, cur, issued, acked>>

Announce ==
  /\ Write("coordinator", "coordinator", [txn |-> cur, before |-> disk.files], "files")
  /\ UNCHANGED <<mem, booting, cur, issued, acked>>

\* apply_linked_files: a file is replaced only where it has its old content.
ReplaceFile(f) ==
  LET c == disk.coordinator IN
  /\ phase = "files" /\ disk.files[f] = c.before[f]
  /\ disk' = [disk EXCEPT !.files[f] = c.txn.serial]
  /\ UNCHANGED <<mem, phase, booting, cur, issued, acked>>

FilesReplaced ==
  LET c == disk.coordinator IN
  /\ phase = "files" /\ \A f \in Files : disk.files[f] # c.before[f]
  /\ phase' = IF \A f \in Files : disk.files[f] = c.txn.serial THEN "commit" ELSE Failed
  /\ UNCHANGED <<disk, mem, booting, cur, issued, acked>>

\* duplicate_outcome, which only a recovered coordinator meets, then the sequence
\* check of validate_transaction.
Admit ==
  /\ phase = "commit"
  /\ phase' = CASE cur.id <= High    -> "uncoordinate"
                [] cur.id = High + 1 -> "pending"
                [] OTHER             -> Failed
  /\ UNCHANGED <<disk, mem, booting, cur, issued, acked>>

WritePending ==
  /\ Write("pending", "pending", cur, "append")
  /\ UNCHANGED <<mem, booting, cur, issued, acked>>

AppendPart ==
  /\ Write("append", "journal", Append(disk.journal, Torn), "appending")
  /\ UNCHANGED <<mem, booting, cur, issued, acked>>

AppendRest ==
  /\ Write("appending", "journal", Append(Front(disk.journal), cur), "apply")
  /\ UNCHANGED <<mem, booting, cur, issued, acked>>

Apply ==
  /\ phase = "apply" /\ phase' = "unpend"
  /\ mem' = [mem EXCEPT !.applied = Append(@, cur)]
  /\ UNCHANGED <<disk, booting, cur, issued, acked>>

\* The call returns, to the game or to the rest of load.
Return ==
  /\ phase' = IF booting THEN "floors" ELSE "running"
  /\ cur' = None
  /\ acked' = IF booting THEN acked ELSE acked \cup {cur.serial}

DropPending ==
  /\ phase = "unpend"
  /\ disk' = [disk EXCEPT !.pending = None]
  /\ IF cur.linked THEN phase' = "uncoordinate" /\ UNCHANGED <<cur, acked>> ELSE Return
  /\ UNCHANGED <<mem, booting, issued>>

DropCoordinator ==
  /\ phase = "uncoordinate"
  /\ disk' = [disk EXCEPT !.coordinator = None]
  /\ Return
  /\ UNCHANGED <<mem, booting, issued>>

-----------------------------------------------------------------------------
(* save. *)

Save ==
  /\ phase = "running" /\ phase' = "backup"
  /\ UNCHANGED <<disk, mem, booting, cur, issued, acked>>

BackUpLedger ==
  /\ Write("backup", "backup", disk.ledger, "journalBackup")
  /\ UNCHANGED <<mem, booting, cur, issued, acked>>

\* Fault: the backup is taken of an empty journal.
BackUpNoJournal ==
  /\ Write("journalBackup", "journalBackup", <<>>, "ledger")
  /\ UNCHANGED <<mem, booting, cur, issued, acked>>

BackUpJournal ==
  /\ Write("journalBackup", "journalBackup", disk.journal, "ledger")
  /\ UNCHANGED <<mem, booting, cur, issued, acked>>

ReplaceLedger ==
  /\ Write("ledger", "ledger", mem, "journal")
  /\ UNCHANGED <<mem, booting, cur, issued, acked>>

EmptyJournal ==
  /\ Write("journal", "journal", <<>>, "clear")
  /\ UNCHANGED <<mem, booting, cur, issued, acked>>

ClearPending ==
  /\ Write("clear", "pending", None, "manifest")
  /\ UNCHANGED <<mem, booting, cur, issued, acked>>

UpdateManifest ==
  /\ Write("manifest", "manifest", mem, "running")
  /\ UNCHANGED <<mem, booting, cur, issued, acked>>

-----------------------------------------------------------------------------
(* load. *)

\* The primary ledger if the manifest names it, else the backup if the manifest
\* names that, else nothing.
Load ==
  /\ phase = "load"
  /\ CASE disk.ledger = disk.manifest -> phase' = "replay" /\ mem' = disk.ledger
       [] disk.ledger # disk.manifest /\ disk.backup = disk.manifest
                                      -> phase' = "restoreLedger" /\ mem' = disk.backup
       [] OTHER                       -> phase' = "refused" /\ UNCHANGED mem
  /\ UNCHANGED <<disk, booting, cur, issued, acked>>

RestoreLedger ==
  /\ Write("restoreLedger", "ledger", disk.backup, "restoreJournal")
  /\ UNCHANGED <<mem, booting, cur, issued, acked>>

RestoreJournal ==
  /\ Write("restoreJournal", "journal", disk.journalBackup, "replay")
  /\ UNCHANGED <<mem, booting, cur, issued, acked>>

\* Does the pending record have to be put into the journal, and may it be?
Missing(pending) ==
  \/ ~Complete(disk.journal)
  \/ pending.id \notin {frame.id : frame \in ToSet(disk.journal)}
Continues(pending) ==
  LET frames == Frames(disk.journal)
  IN  pending.id = (IF frames = <<>> THEN High ELSE Last(frames).id) + 1

\* Fault: the pending frame is appended behind a torn one.
ReplayUntrimmed ==
  /\ phase = "replay"
  /\ LET pending == disk.pending IN
     IF pending = None
     THEN /\ phase' = IF Complete(disk.journal) THEN "rebuild" ELSE "refused"
          /\ UNCHANGED disk
     ELSE /\ disk' = [disk EXCEPT !.journal = IF Missing(pending) THEN Append(@, pending) ELSE @]
          /\ phase' = "unpendReplay"
  /\ UNCHANGED <<mem, booting, cur, issued, acked>>

\* replay_delta_log, up to the rewriting of the journal.
Replay ==
  /\ phase = "replay"
  /\ LET pending == disk.pending IN
     CASE pending = None ->
            /\ phase' = IF Complete(disk.journal) THEN "rebuild" ELSE "refused"
            /\ UNCHANGED disk
       [] pending # None /\ ~Missing(pending) ->
            phase' = "unpendReplay" /\ UNCHANGED disk
       [] pending # None /\ Missing(pending) /\ Continues(pending) ->
            /\ disk' = [disk EXCEPT !.journal = Append(Frames(@), pending)]
            /\ phase' = "unpendReplay"
       [] OTHER -> phase' = "refused" /\ UNCHANGED disk
  /\ UNCHANGED <<mem, booting, cur, issued, acked>>

DropReplayedPending ==
  /\ Write("unpendReplay", "pending", None, "rebuild")
  /\ UNCHANGED <<mem, booting, cur, issued, acked>>

\* The frames are applied in order; those the ledger holds are skipped, and a gap
\* refuses the world.
Rebuild ==
  LET ahead == {k \in DOMAIN disk.journal : disk.journal[k].id > High} IN
  /\ phase = "rebuild"
  /\ \/ ahead = {} /\ phase' = "linked" /\ UNCHANGED mem
     \/ \E k \in ahead :
          /\ \A j \in ahead : k <= j
          /\ IF disk.journal[k].id = High + 1
             THEN mem' = [mem EXCEPT !.applied = Append(@, disk.journal[k])] /\ UNCHANGED phase
             ELSE phase' = "refused" /\ UNCHANGED mem
  /\ UNCHANGED <<disk, booting, cur, issued, acked>>

\* Fault: the coordinator is dropped without looking at the files.
RecoverByDropping ==
  /\ phase = "linked"
  /\ disk' = [disk EXCEPT !.coordinator = None] /\ phase' = "floors"
  /\ UNCHANGED <<mem, booting, cur, issued, acked>>

\* recover_linked_commit: the files first, then the commit.
Recover ==
  /\ phase = "linked"
  /\ IF disk.coordinator = None
     THEN phase' = "floors" /\ UNCHANGED cur
     ELSE phase' = "files" /\ cur' = disk.coordinator.txn
  /\ UNCHANGED <<disk, mem, booting, issued, acked>>

\* reconcile_allocator_floors, and load returns.
Floors ==
  /\ phase = "floors" /\ phase' = "running" /\ booting' = FALSE
  /\ mem' = [mem EXCEPT !.next = IF @ > High + 1 THEN @ ELSE High + 1]
  /\ UNCHANGED <<disk, cur, issued, acked>>

-----------------------------------------------------------------------------
(* Failures. *)

\* An error is returned to the caller of commit or save.  Load's own I/O errors
\* refuse the world as it is, and are left out.
Fail ==
  /\ phase \in MayFail /\ ~booting
  /\ phase' = "running" /\ cur' = None
  /\ UNCHANGED <<disk, mem, booting, issued, acked>>

\* The process dies and is started again.
Crash ==
  /\ phase # "refused"
  /\ phase = "restoreJournal" => RestoreInterrupted
  /\ phase' = "load" /\ booting' = TRUE /\ cur' = None
  /\ mem' = Genesis
  /\ UNCHANGED <<disk, issued, acked>>

Next ==
  \/ \E linked \in BOOLEAN : Begin(linked)
  \/ Refuse \/ Announce \/ FilesReplaced \/ Admit \/ WritePending
  \/ \E f \in Files : ReplaceFile(f)
  \/ AppendPart \/ AppendRest \/ Apply \/ DropPending \/ DropCoordinator
  \/ Save \/ BackUpLedger \/ BackUpJournal \/ ReplaceLedger \/ EmptyJournal
  \/ ClearPending \/ UpdateManifest
  \/ Load \/ RestoreLedger \/ RestoreJournal \/ Replay \/ DropReplayedPending
  \/ Rebuild \/ Recover \/ Floors
  \/ Fail \/ Crash

Spec == Init /\ [][Next]_vars

-----------------------------------------------------------------------------
(* Properties. *)

\* Every variable keeps its type, and no id the ledger holds is allocated again.
TypeOK ==
  /\ disk \in [ledger : Ledger, backup : Ledger \cup {None}, manifest : Ledger,
               journal : Seq(Transaction \cup {Torn}), journalBackup : Seq(Transaction \cup {Torn}),
               pending : Transaction \cup {None}, files : Contents,
               coordinator : [txn : Transaction, before : Contents] \cup {None}]
  /\ mem \in Ledger /\ cur \in Transaction \cup {None} /\ booting \in BOOLEAN
  /\ issued \in 0..MaxTransactions /\ acked \subseteq 1..issued
  /\ phase = "running" => ~booting /\ cur = None /\ mem.next > High

\* Every file holds what the last linked transaction of a sequence wrote.
Match(files, applied) ==
  LET linked == {i \in DOMAIN applied : applied[i].linked} IN
  \A f \in Files :
    \/ linked = {} /\ files[f] = 0
    \/ \E i \in linked : (\A j \in linked : j <= i) /\ files[f] = applied[i].serial

\* docs/magic-foundations-plan.md:62-65, 281-283: whatever the process was doing
\* when it died, a ledger that is in use holds every transaction whose commit
\* returned Applied, in one piece and once.  With RestoreInterrupted it fails: a crash
\* between load's two restoring writes loses what the previous checkpoint lacked.
AcknowledgedSurvives ==
  phase = "running" =>
    \A s \in acked : \E i \in DOMAIN mem.applied :
      \A j \in DOMAIN mem.applied : mem.applied[j].serial = s <=> j = i

\* docs/magic-foundations-plan.md:255-256: the domain files and the ledger agree
\* on which linked transactions happened, unless a coordinator is still on disk.
LinkedTogether ==
  phase = "running" /\ disk.coordinator = None => Match(disk.files, mem.applied)

\* arcane.rs:1160-1191: no interruption leaves files that load refuses.
NeverRefused == phase # "refused"

\* The files are well formed and loadable at every write.
LedgerInv == TypeOK /\ NeverRefused

\* arcane.rs:3822-3824: a refused transaction leaves no permanent gap: what load
\* rebuilds from disk never has its next id ahead of what the ledger accepts.  The code
\* does not keep it: an id is allocated before its transaction is validated.
NoPermanentGap == phase = "floors" => mem.next <= High + 1
=============================================================================
