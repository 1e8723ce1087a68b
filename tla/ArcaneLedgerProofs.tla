--------------------------- MODULE ArcaneLedgerProofs ---------------------------
(***************************************************************************)
(* Proofs about ArcaneLedger: what the files mean at every write, for any  *)
(* linked files and any number of transactions, refusals, checkpoints and  *)
(* crashes.  An error is taken to be a clean one, and load's two restoring *)
(* writes to come together.                                                *)
(***************************************************************************)
EXTENDS ArcaneLedger, TLAPS

\* The journal that continues the checkpoint the manifest names, and the transactions a
\* start would find.
Source  == IF disk.ledger = disk.manifest /\ phase # "restoreJournal"
           THEN disk.journal ELSE disk.journalBackup
Durable == disk.manifest.applied \o Frames(Source)
Latest  == Durable[Len(Durable)]

\* The manifest names one of the two checkpoints; only the end of the journal in use may
\* be torn, behind a pending record that completes it.
CheckpointNamed == disk.ledger = disk.manifest \/ disk.backup = disk.manifest
TornAtEnd ==
  /\ \A i \in DOMAIN disk.journal : i < Len(disk.journal) => disk.journal[i] # Torn
  /\ Complete(disk.journalBackup)

\* A transaction that comes after all durable ones.
Ahead(t) ==
  /\ t.id = Len(Durable) + 1 /\ t.serial <= issued
  /\ \A i \in DOMAIN Durable : Durable[i].serial # t.serial
PendingAhead == disk.pending # None /\ disk.pending.id = Len(Durable) + 1

TornIsPending ==
  ~Complete(disk.journal) =>
    PendingAhead /\ disk.ledger = disk.manifest /\ phase # "restoreJournal"

\* The durable transactions are numbered in order, each is there once, and those whose
\* commit returned are among them.
InOrder  == \A i \in DOMAIN Durable : Durable[i].id = i /\ Durable[i].serial <= issued
Distinct == \A i, j \in DOMAIN Durable : Durable[i].serial = Durable[j].serial => i = j
AckedIsDurable == \A s \in acked : \E i \in DOMAIN Durable : Durable[i].serial = s

\* A pending record is the last frame of the journal or comes after it.
PendingFits ==
  disk.pending # None =>
    \/ Ahead(disk.pending)
    \/ Frames(Source) # <<>> /\ disk.pending = Latest

\* A coordinator record is of the last durable transaction, or of one to come, whose
\* files are replaced from what the durable ones left before it is pending.
FilesWritten == \A f \in Files : disk.files[f] = disk.coordinator.txn.serial
CoordinatorFits ==
  LET c == disk.coordinator IN
  c # None =>
    /\ c.txn.linked
    /\ \A f \in Files : c.before[f] # c.txn.serial /\ disk.files[f] \in {c.before[f], c.txn.serial}
    /\ \/ /\ Ahead(c.txn) /\ Match(c.before, Durable)
          /\ PendingAhead => disk.pending = c.txn /\ FilesWritten
       \/ Durable # <<>> /\ c.txn = Latest /\ FilesWritten /\ ~PendingAhead
NoCoordinatorFits ==
  disk.coordinator = None =>
    Match(disk.files, Durable) /\ (PendingAhead => ~disk.pending.linked)

Meaning  == /\ InOrder /\ Distinct /\ AckedIsDurable
            /\ PendingFits /\ CoordinatorFits /\ NoCoordinatorFits
FilesInv == CheckpointNamed /\ TornAtEnd /\ TornIsPending /\ Meaning

\* The phases of commit, of save and of load.
Committing  == {"coordinator", "files", "commit", "pending", "append", "appending", "apply",
                "unpend", "uncoordinate"}
Saving      == {"backup", "journalBackup", "ledger", "journal", "clear", "manifest"}
Restoring   == {"restoreLedger", "restoreJournal"}
Loading     == Restoring \cup {"load", "replay", "unpendReplay", "rebuild", "linked", "floors"}
Phases      == Committing \cup Saving \cup Loading \cup {"running"}
Settled     == {"running", "backup", "journalBackup", "ledger"}

PhaseInv ==
  /\ phase \in Phases
  /\ booting => phase \in Loading \cup (Committing \ {"coordinator"})
  /\ ~booting => phase \notin Loading
  /\ phase \in Loading \cup Saving => cur = None

\* What memory holds of the durable transactions.
MemInv ==
  /\ phase \in Restoring \cup {"replay", "unpendReplay"} => mem = disk.manifest
  /\ phase = "rebuild" => \E k \in Len(disk.manifest.applied)..Len(Durable) :
                            mem.applied = SubSeq(Durable, 1, k)
  /\ phase = "apply" => Durable = Append(mem.applied, cur)
  /\ phase \notin Loading \cup {"apply"} \/ phase \in {"linked", "floors"} =>
       mem.applied = Durable
  /\ ~booting => mem.next > High /\ (phase \in Committing => mem.next > cur.id)
  /\ phase \in Settled /\ PendingAhead => mem.next > High + 1

\* Which checkpoint is in use, and what is known of the journals.
CheckpointInv ==
  /\ phase = "restoreLedger" => disk.backup = disk.manifest /\ disk.ledger # disk.manifest
  /\ phase \notin {"load", "restoreLedger", "journal", "clear", "manifest"} =>
       disk.ledger = disk.manifest
  /\ phase = "restoreJournal" => disk.backup = disk.manifest
  /\ phase \notin {"appending", "load", "replay"} => Complete(disk.journal)
  /\ phase = "journalBackup" => disk.backup = disk.ledger
  /\ phase = "ledger" => disk.backup = disk.ledger /\ disk.journalBackup = disk.journal
  /\ phase = "journal" => disk.ledger = mem /\ disk.journal = disk.journalBackup
  /\ phase \in {"clear", "manifest"} => disk.ledger = mem /\ disk.journal = <<>>
  /\ phase = "unpendReplay" => disk.pending # None /\ ~PendingAhead
  /\ phase \in {"rebuild", "linked", "floors", "manifest"} => disk.pending = None
  /\ phase = "appending" => ~Complete(disk.journal)

\* The transaction a commit is at.
CurInv ==
  phase \in Committing =>
    /\ cur # None /\ cur.serial <= issued
    /\ cur.linked /\ phase # "coordinator" => disk.coordinator # None /\ cur = disk.coordinator.txn
    /\ ~cur.linked => disk.coordinator = None /\ phase \notin {"coordinator", "files", "uncoordinate"}
    /\ phase = "coordinator" => disk.coordinator = None
    /\ phase \in {"coordinator", "pending", "append", "appending"} => Ahead(cur)
    /\ phase \in {"files", "commit"} => Ahead(cur) \/ (Durable # <<>> /\ cur = Latest)
    /\ phase = "commit" /\ ~cur.linked => Ahead(cur)
    /\ booting /\ phase \in {"files", "commit", "pending", "uncoordinate"} => disk.pending = None
    /\ cur.linked /\ phase \notin {"coordinator", "files"} => FilesWritten
    /\ phase \in {"append", "appending", "apply", "unpend"} => disk.pending = cur
    /\ phase \in {"coordinator", "files", "commit", "pending", "uncoordinate"} => ~PendingAhead
    /\ phase \in {"apply", "unpend", "uncoordinate"} => Durable # <<>> /\ cur = Latest

IInv == TypeOK /\ FilesInv /\ PhaseInv /\ MemInv /\ CheckpointInv /\ CurInv

-----------------------------------------------------------------------------
(* Journals and the transactions they hold. *)

Frame == Transaction \cup {Torn}

LEMMA TornIsApart == Torn \notin Transaction
BY DEF Torn, Transaction

\* A journal without a torn frame is all transactions.
LEMMA WholeJournal ==
  ASSUME NEW j \in Seq(Frame), Complete(j)
  PROVE  j \in Seq(Transaction) /\ Frames(j) = j
<1>1. \A i \in 1..Len(j) : j[i] \in Transaction
  BY DEF Complete, ToSet, Frame
<1>2. j \in Seq(Transaction)
  BY <1>1
<1> QED BY <1>2 DEF Frames

LEMMA TransactionsAreWhole ==
  ASSUME NEW j \in Seq(Transaction)
  PROVE  j \in Seq(Frame) /\ Complete(j) /\ Frames(j) = j
<1>1. Complete(j)
  BY TornIsApart DEF Complete, ToSet
<1> QED BY <1>1 DEF Frames, Frame

\* A journal that ends in a torn frame has the frames before it.
LEMMA TornJournal ==
  ASSUME NEW j \in Seq(Frame), ~Complete(j), \A i \in DOMAIN j : i < Len(j) => j[i] # Torn
  PROVE  /\ Len(j) > 0 /\ j[Len(j)] = Torn
         /\ Frames(j) = SubSeq(j, 1, Len(j) - 1) /\ Frames(j) \in Seq(Transaction)
<1>1. PICK i \in 1..Len(j) : j[i] = Torn
  BY DEF Complete, ToSet
<1>2. Len(j) \in Nat /\ i = Len(j)
  BY <1>1
<1>3. {k \in 1..Len(j) : j[k] = Torn} = {Len(j)}
  BY <1>1, <1>2
<1>4. SelectInSeq(j, LAMBDA frame : frame = Torn) = Len(j)
  <2>1. Min({Len(j)}) = Len(j)
    BY <1>2 DEF Min
  <2> QED BY <1>3, <2>1 DEF SelectInSeq
<1>5. Frames(j) = SubSeq(j, 1, Len(j) - 1)
  BY <1>4 DEF Frames
<1>6. \A k \in 1..(Len(j) - 1) : j[k] \in Transaction
  BY <1>2 DEF Frame
<1>7. SubSeq(j, 1, Len(j) - 1) \in Seq(Transaction)
  BY <1>1, <1>2, <1>6
<1> QED BY <1>1, <1>2, <1>5, <1>7

-----------------------------------------------------------------------------
(* What the variables hold. *)

Disks == [ledger : Ledger, backup : Ledger \cup {None}, manifest : Ledger,
          journal : Seq(Frame), journalBackup : Seq(Frame),
          pending : Transaction \cup {None}, files : Contents,
          coordinator : [txn : Transaction, before : Contents] \cup {None}]

LEMMA SerialsAreNumbers == Serials \subseteq Nat \ {0}
BY LedgerAssumption DEF Serials

LEMMA Shapes ==
  ASSUME TypeOK
  PROVE  /\ disk \in Disks /\ disk.ledger \in Ledger /\ disk.manifest \in Ledger
         /\ disk.backup \in Ledger \cup {None} /\ disk.files \in Contents
         /\ disk.journal \in Seq(Frame) /\ disk.journalBackup \in Seq(Frame)
         /\ disk.pending \in Transaction \cup {None}
         /\ disk.coordinator \in [txn : Transaction, before : Contents] \cup {None}
         /\ disk.manifest.applied \in Seq(Transaction) /\ mem.applied \in Seq(Transaction)
         /\ mem.next \in 1..(MaxId + 1) /\ High \in Nat
         /\ disk.pending # None =>
              /\ disk.pending \in Transaction /\ disk.pending.id \in 1..MaxId
              /\ disk.pending.serial \in Nat /\ disk.pending.linked \in BOOLEAN
         /\ disk.coordinator # None =>
              /\ disk.coordinator.txn \in Transaction /\ disk.coordinator.before \in Contents
              /\ disk.coordinator.txn.id \in 1..MaxId
              /\ disk.coordinator.txn.serial \in Nat \ {0}
         /\ cur # None =>
              /\ cur \in Transaction /\ cur.id \in 1..MaxId /\ cur.serial \in Nat \ {0}
              /\ cur.linked \in BOOLEAN
         /\ issued \in Nat /\ MaxId \in Nat /\ MaxTransactions \in Nat
<1>1. disk \in Disks
  BY DEF TypeOK, Disks, Frame
<1>2. /\ disk.ledger \in Ledger /\ disk.manifest \in Ledger
      /\ disk.backup \in Ledger \cup {None} /\ disk.files \in Contents
      /\ disk.journal \in Seq(Frame) /\ disk.journalBackup \in Seq(Frame)
      /\ disk.pending \in Transaction \cup {None}
      /\ disk.coordinator \in [txn : Transaction, before : Contents] \cup {None}
  BY <1>1 DEF Disks
<1>3. /\ disk.manifest.applied \in Seq(Transaction) /\ mem.applied \in Seq(Transaction)
      /\ mem.next \in 1..(MaxId + 1)
  BY <1>2 DEF TypeOK, Ledger
<1>4. High \in Nat
  BY <1>3 DEF High
<1>5. \A t \in Transaction : t.id \in 1..MaxId /\ t.serial \in Nat \ {0} /\ t.linked \in BOOLEAN
  BY SerialsAreNumbers DEF Transaction
<1>6. disk.coordinator # None =>
         /\ disk.coordinator.txn \in Transaction /\ disk.coordinator.before \in Contents
  BY <1>2
<1>7. issued \in Nat /\ MaxId \in Nat /\ MaxTransactions \in Nat /\ cur \in Transaction \cup {None}
  BY LedgerAssumption DEF TypeOK
<1> QED BY <1>1, <1>2, <1>3, <1>4, <1>5, <1>6, <1>7

\* The journal in use, in its frames.
LEMMA SourceShape ==
  ASSUME TypeOK, TornAtEnd
  PROVE  /\ Source \in Seq(Frame) /\ Frames(Source) \in Seq(Transaction)
         /\ Frames(disk.journal) \in Seq(Transaction)
         /\ disk.journalBackup \in Seq(Transaction)
         /\ Frames(disk.journalBackup) = disk.journalBackup
<1>1. disk.journal \in Seq(Frame) /\ disk.journalBackup \in Seq(Frame)
  BY Shapes
<1>2. Frames(disk.journal) \in Seq(Transaction)
  <2>1. CASE Complete(disk.journal)
    BY <1>1, <2>1, WholeJournal
  <2>2. CASE ~Complete(disk.journal)
    BY <1>1, <2>2, TornJournal DEF TornAtEnd
  <2> QED BY <2>1, <2>2
<1>3. disk.journalBackup \in Seq(Transaction) /\ Frames(disk.journalBackup) = disk.journalBackup
  BY <1>1, WholeJournal DEF TornAtEnd
<1> QED BY <1>1, <1>2, <1>3 DEF Source

LEMMA DurableShape ==
  ASSUME TypeOK, TornAtEnd
  PROVE  /\ Durable \in Seq(Transaction) /\ Len(Durable) \in Nat
         /\ Len(disk.manifest.applied) \in Nat
         /\ Len(Durable) = Len(disk.manifest.applied) + Len(Frames(Source))
         /\ \A i \in 1..Len(disk.manifest.applied) : Durable[i] = disk.manifest.applied[i]
         /\ \A i \in 1..Len(Frames(Source)) :
              Durable[Len(disk.manifest.applied) + i] = Frames(Source)[i]
         /\ \A i \in 1..Len(Durable) :
              /\ Durable[i] \in Transaction /\ Durable[i].id \in 1..MaxId
              /\ Durable[i].serial \in Nat \ {0} /\ Durable[i].linked \in BOOLEAN
         /\ DOMAIN Durable = 1..Len(Durable)
<1>1. disk.manifest.applied \in Seq(Transaction) /\ Frames(Source) \in Seq(Transaction)
  BY Shapes, SourceShape
<1>2. Durable \in Seq(Transaction)
  BY <1>1 DEF Durable
<1>3. /\ Len(Durable) = Len(disk.manifest.applied) + Len(Frames(Source))
      /\ \A i \in 1..Len(disk.manifest.applied) : Durable[i] = disk.manifest.applied[i]
      /\ \A i \in 1..Len(Frames(Source)) :
              Durable[Len(disk.manifest.applied) + i] = Frames(Source)[i]
  BY <1>1 DEF Durable
<1>4. \A i \in 1..Len(Durable) : Durable[i] \in Transaction
  BY <1>2
<1>5. \A t \in Transaction : t.id \in 1..MaxId /\ t.serial \in Nat \ {0} /\ t.linked \in BOOLEAN
  BY SerialsAreNumbers DEF Transaction
<1> QED BY <1>1, <1>2, <1>3, <1>4, <1>5

-----------------------------------------------------------------------------
(* Files and the linked transactions of a sequence. *)

LEMMA MatchesSome ==
  ASSUME NEW files, NEW s \in Seq(Transaction), Match(files, s), NEW f \in Files
  PROVE  files[f] = 0 \/ \E i \in DOMAIN s : files[f] = s[i].serial
BY DEF Match

LEMMA MatchesLast ==
  ASSUME NEW files, NEW s \in Seq(Transaction), s # <<>>, s[Len(s)].linked,
         \A f \in Files : files[f] = s[Len(s)].serial
  PROVE  Match(files, s)
<1>1. Len(s) \in DOMAIN s /\ \A j \in DOMAIN s : j <= Len(s)
  OBVIOUS
<1> QED BY <1>1 DEF Match

LEMMA MatchesLonger ==
  ASSUME NEW files, NEW s \in Seq(Transaction), NEW t \in Transaction, ~t.linked, Match(files, s)
  PROVE  Match(files, Append(s, t))
<1> DEFINE l == Append(s, t)
<1>1. /\ DOMAIN l = 1..(Len(s) + 1) /\ DOMAIN s = 1..Len(s) /\ Len(s) \in Nat
      /\ \A i \in DOMAIN s : l[i] = s[i]
      /\ l[Len(s) + 1] = t
  OBVIOUS
<1> HIDE DEF l
<1>2. {i \in DOMAIN l : l[i].linked} = {i \in DOMAIN s : s[i].linked}
  BY <1>1
<1> SUFFICES ASSUME NEW f \in Files
             PROVE  \/ {i \in DOMAIN l : l[i].linked} = {} /\ files[f] = 0
                    \/ \E i \in {k \in DOMAIN l : l[k].linked} :
                         /\ \A j \in {k \in DOMAIN l : l[k].linked} : j <= i
                         /\ files[f] = l[i].serial
  BY DEF Match, l
<1> QED BY <1>1, <1>2 DEF Match

-----------------------------------------------------------------------------
(* What a step leaves of the durable transactions. *)

\* A step that leaves the durable transactions as they are.
LEMMA OrderKept ==
  ASSUME IInv, Durable' = Durable, acked' = acked, issued' = issued
  PROVE  /\ InOrder' /\ Distinct' /\ AckedIsDurable' /\ Latest' = Latest
         /\ \A t : Ahead(t)' <=> Ahead(t)
BY DEF IInv, FilesInv, Meaning, InOrder, Distinct, AckedIsDurable, Latest, Ahead

\* A step that leaves the files alone.
LEMMA FilesAlone ==
  ASSUME IInv, disk' = disk, phase # "restoreJournal", phase' # "restoreJournal",
         acked' = acked, issued' = issued
  PROVE  /\ FilesInv' /\ Durable' = Durable /\ Source' = Source /\ Latest' = Latest
         /\ PendingAhead' = PendingAhead /\ FilesWritten' = FilesWritten
         /\ \A t : Ahead(t)' <=> Ahead(t)
<1>1. Source' = Source
  BY DEF Source
<1>2. Durable' = Durable
  BY <1>1 DEF Durable
<1>3. PendingAhead' = PendingAhead /\ FilesWritten' = FilesWritten
  BY <1>2 DEF PendingAhead, FilesWritten
<1>4. CheckpointNamed' /\ TornAtEnd' /\ TornIsPending'
  BY <1>3 DEF IInv, FilesInv, CheckpointNamed, TornAtEnd, TornIsPending
<1>5. PendingFits'
  BY <1>1, <1>2, OrderKept DEF IInv, FilesInv, Meaning, PendingFits
<1>6. CoordinatorFits' /\ NoCoordinatorFits'
  BY <1>2, <1>3, OrderKept DEF IInv, FilesInv, Meaning, CoordinatorFits, NoCoordinatorFits
<1> QED BY <1>1, <1>2, <1>3, <1>4, <1>5, <1>6, OrderKept DEF FilesInv, Meaning

\* In every phase but a few memory holds the durable transactions.
LEMMA MemoryIsDurable ==
  ASSUME IInv, phase \in (Phases \ (Loading \cup {"apply"})) \cup {"linked", "floors"}
  PROVE  mem.applied = Durable /\ High = Len(Durable)
BY DEF IInv, MemInv, High

-----------------------------------------------------------------------------
(* Steps that touch no file. *)

LEMMA BeginKeeps == ASSUME IInv, NEW linked \in BOOLEAN, Begin(linked) PROVE IInv'
<1> USE DEF IInv
<1> DEFINE t == [id |-> mem.next, serial |-> issued + 1, linked |-> linked]
<1>1. /\ phase = "running" /\ issued < MaxTransactions /\ mem.next <= MaxId
      /\ disk.coordinator = None /\ mem.next = High + 1 /\ issued' = issued + 1
      /\ cur' = t /\ mem' = [mem EXCEPT !.next = @ + 1]
      /\ phase' = (IF linked THEN "coordinator" ELSE "commit")
      /\ UNCHANGED <<disk, booting, acked>>
  BY DEF Begin
<1>2. t \in Transaction /\ t # None
  BY <1>1, Shapes, LedgerAssumption DEF Transaction, Serials
<1>3. mem' \in Ledger /\ mem'.applied = mem.applied /\ mem'.next = mem.next + 1
  <2>1. mem.next + 1 \in 1..(MaxId + 1)
    BY <1>1, Shapes
  <2> QED BY <1>1, <2>1 DEF TypeOK, Ledger
<1>4. TypeOK'
  <2>1. issued' \in 0..MaxTransactions /\ acked' \subseteq 1..issued'
    BY <1>1, Shapes DEF TypeOK
  <2>2. disk' \in Disks /\ phase' # "running"
    BY <1>1, Shapes
  <2> QED BY <1>1, <1>2, <1>3, <2>1, <2>2 DEF TypeOK, Disks, Frame
<1>5. ~booting /\ disk.ledger = disk.manifest /\ Complete(disk.journal)
  BY <1>1 DEF TypeOK, CheckpointInv
<1>6. Source' = Source /\ Durable' = Durable /\ mem.applied = Durable /\ High = Len(Durable)
  BY <1>1, MemoryIsDurable DEF Source, Durable, Phases, Loading, Restoring
<1>7. /\ Latest' = Latest /\ PendingAhead' = PendingAhead /\ FilesWritten' = FilesWritten
      /\ \A x \in Transaction : Ahead(x) => Ahead(x)'
  <2>1. \A x \in Transaction : x.serial \in Nat
    BY SerialsAreNumbers DEF Transaction
  <2> QED BY <1>1, <1>6, <2>1, Shapes DEF Latest, PendingAhead, FilesWritten, Ahead
<1>8. FilesInv'
  <2>1. CheckpointNamed' /\ TornAtEnd' /\ TornIsPending'
    BY <1>1, <1>5 DEF FilesInv, CheckpointNamed, TornAtEnd, TornIsPending
  <2>2. InOrder' /\ Distinct' /\ AckedIsDurable'
    <3>1. \A i \in DOMAIN Durable : Durable[i].serial \in Nat
      BY DurableShape DEF FilesInv
    <3>2. InOrder'
      BY <1>1, <1>6, <3>1, Shapes DEF FilesInv, Meaning, InOrder
    <3> QED BY <1>1, <1>6, <3>2 DEF FilesInv, Meaning, Distinct, AckedIsDurable
  <2>3. PendingFits' /\ CoordinatorFits' /\ NoCoordinatorFits'
    BY <1>1, <1>6, <1>7, Shapes
       DEF FilesInv, Meaning, PendingFits, CoordinatorFits, NoCoordinatorFits
  <2> QED BY <2>1, <2>2, <2>3 DEF FilesInv, Meaning
<1>9. ~PendingAhead
  BY <1>1, Shapes DEF MemInv, Settled
<1>10. Ahead(cur)'
  <2>1. \A i \in DOMAIN Durable : Durable[i].serial # issued + 1
    <3>1. \A i \in DOMAIN Durable : Durable[i].serial \in Nat /\ Durable[i].serial <= issued
      BY DurableShape DEF FilesInv, Meaning, InOrder
    <3> QED BY <3>1, Shapes
  <2> QED BY <1>1, <1>6, <2>1, Shapes DEF Ahead
<1>11. PhaseInv' /\ CheckpointInv'
  BY <1>1, <1>5 DEF PhaseInv, CheckpointInv, Phases, Committing, Saving, Loading, Restoring
<1>12. MemInv'
  BY <1>1, <1>3, <1>5, <1>6, Shapes DEF MemInv, Committing, Loading, Restoring, Settled, High
<1>13. CurInv'
  BY <1>1, <1>2, <1>5, <1>7, <1>9, <1>10, Shapes DEF CurInv
<1> QED BY <1>4, <1>8, <1>11, <1>12, <1>13

\* One field of the ledger in memory replaced.
LEMMA NewMem ==
  ASSUME TypeOK, NEW some \in Seq(Transaction), NEW next \in 1..(MaxId + 1)
  PROVE  /\ [mem EXCEPT !.applied = some] \in Ledger
         /\ [mem EXCEPT !.applied = some].applied = some
         /\ [mem EXCEPT !.applied = some].next = mem.next
         /\ [mem EXCEPT !.next = next] \in Ledger
         /\ [mem EXCEPT !.next = next].applied = mem.applied
         /\ [mem EXCEPT !.next = next].next = next
BY DEF TypeOK, Ledger

LEMMA RefuseKeeps == ASSUME IInv, Refuse PROVE IInv'
<1> USE DEF IInv
<1>1. /\ phase = "running" /\ mem.next <= MaxId /\ mem' = [mem EXCEPT !.next = mem.next + 1]
      /\ UNCHANGED <<disk, phase, booting, cur, issued, acked>>
  BY DEF Refuse
<1>2. mem.next + 1 \in 1..(MaxId + 1)
  BY <1>1, Shapes
<1>3. mem' \in Ledger /\ mem'.applied = mem.applied /\ mem'.next = mem.next + 1
  BY <1>1, <1>2, NewMem, Shapes
<1>4. TypeOK'
  BY <1>1, <1>3, Shapes DEF TypeOK, High
<1>5. /\ FilesInv' /\ Durable' = Durable /\ Latest' = Latest
      /\ PendingAhead' = PendingAhead /\ FilesWritten' = FilesWritten
  BY <1>1, FilesAlone
<1>6. PhaseInv' /\ CheckpointInv' /\ CurInv'
  BY <1>1, <1>5 DEF PhaseInv, CheckpointInv, CurInv, Committing
<1>7. MemInv'
  BY <1>1, <1>3, <1>5, Shapes DEF MemInv, High, Committing, Settled, Loading, Restoring
<1> QED BY <1>4, <1>5, <1>6, <1>7

LEMMA FilesReplacedKeeps == ASSUME IInv, FilesReplaced PROVE IInv'
<1> USE DEF IInv
<1>1. /\ phase = "files" /\ \A f \in Files : disk.files[f] # disk.coordinator.before[f]
      /\ phase' = IF \A f \in Files : disk.files[f] = disk.coordinator.txn.serial
                  THEN "commit" ELSE Failed
      /\ UNCHANGED <<disk, mem, booting, cur, issued, acked>>
  BY DEF FilesReplaced
<1>2. disk.coordinator # None /\ cur = disk.coordinator.txn /\ cur.linked
  BY <1>1 DEF CurInv, Committing
<1>3. FilesWritten /\ phase' = "commit"
  BY <1>1, <1>2 DEF FilesInv, Meaning, CoordinatorFits, FilesWritten
<1>4. TypeOK'
  BY <1>1, <1>3 DEF TypeOK
<1>5. /\ FilesInv' /\ Durable' = Durable /\ Latest' = Latest
      /\ PendingAhead' = PendingAhead /\ FilesWritten' = FilesWritten
      /\ \A t : Ahead(t)' <=> Ahead(t)
  BY <1>1, <1>3, FilesAlone
<1>6. PhaseInv' /\ CheckpointInv'
  BY <1>1, <1>3, <1>5 DEF PhaseInv, CheckpointInv, Committing, Saving, Phases, Loading, Restoring
<1>7. CurInv'
  BY <1>1, <1>2, <1>3, <1>5 DEF CurInv, Committing
<1>8. MemInv'
  BY <1>1, <1>3, <1>5 DEF MemInv, High, Committing, Settled, Loading, Restoring
<1> QED BY <1>4, <1>5, <1>6, <1>7, <1>8

LEMMA AdmitKeeps == ASSUME IInv, Admit PROVE IInv'
<1> USE DEF IInv
<1>1. phase = "commit" /\ UNCHANGED <<disk, mem, booting, cur, issued, acked>>
  BY DEF Admit
<1>2. mem.applied = Durable /\ High = Len(Durable) /\ Len(Durable) \in Nat
  BY <1>1, MemoryIsDurable, DurableShape DEF Phases, Committing, Loading, Restoring, FilesInv
<1>3. cur # None /\ (Ahead(cur) \/ (Durable # <<>> /\ cur = Latest))
  BY <1>1 DEF CurInv, Committing
<1>4. \/ phase' = "pending" /\ Ahead(cur)
      \/ phase' = "uncoordinate" /\ Durable # <<>> /\ cur = Latest
  <2>1. CASE Ahead(cur)
    BY <1>1, <1>2, <2>1 DEF Admit, Ahead
  <2>2. CASE Durable # <<>> /\ cur = Latest
    <3>1. Durable \in Seq(Transaction)
      BY DurableShape DEF FilesInv
    <3>2. Len(Durable) \in DOMAIN Durable
      BY <2>2, <3>1
    <3>3. cur.id = Len(Durable)
      BY <2>2, <3>2 DEF Latest, FilesInv, Meaning, InOrder
    <3> QED BY <1>1, <1>2, <2>2, <3>3 DEF Admit
  <2> QED BY <1>3, <2>1, <2>2
<1>5. TypeOK'
  BY <1>1, <1>4 DEF TypeOK
<1>6. /\ FilesInv' /\ Durable' = Durable /\ Latest' = Latest
      /\ PendingAhead' = PendingAhead /\ FilesWritten' = FilesWritten
      /\ \A t : Ahead(t)' <=> Ahead(t)
  BY <1>1, <1>4, FilesAlone
<1>7. PhaseInv' /\ CheckpointInv'
  BY <1>1, <1>4, <1>6 DEF PhaseInv, CheckpointInv, Committing, Saving, Phases, Loading, Restoring
<1>8. phase' = "uncoordinate" => cur.linked
  <2>1. ASSUME ~cur.linked, Durable # <<>>, cur = Latest PROVE FALSE
    <3>1. Ahead(cur)
      BY <1>1, <2>1 DEF CurInv, Committing
    <3>2. Durable \in Seq(Transaction)
      BY DurableShape DEF FilesInv
    <3>3. Len(Durable) \in DOMAIN Durable
      BY <2>1, <3>2
    <3> QED BY <2>1, <3>1, <3>3 DEF Ahead, Latest
  <2> QED BY <1>4, <2>1
<1>9. CurInv'
  BY <1>1, <1>4, <1>6, <1>8 DEF CurInv, Committing
<1>10. MemInv'
  BY <1>1, <1>4, <1>6 DEF MemInv, High, Committing, Settled, Loading, Restoring
<1> QED BY <1>5, <1>6, <1>7, <1>9, <1>10

LEMMA ApplyKeeps == ASSUME IInv, Apply PROVE IInv'
<1> USE DEF IInv
<1>1. /\ phase = "apply" /\ phase' = "unpend" /\ mem' = [mem EXCEPT !.applied = Append(mem.applied, cur)]
      /\ UNCHANGED <<disk, booting, cur, issued, acked>>
  BY DEF Apply
<1>2. cur # None /\ Durable # <<>> /\ cur = Latest /\ Durable = Append(mem.applied, cur)
  BY <1>1 DEF CurInv, MemInv, Committing
<1>3. Durable \in Seq(Transaction) /\ Len(Durable) \in Nat
  BY DurableShape DEF FilesInv
<1>4. mem' \in Ledger /\ mem'.applied = Durable /\ mem'.next = mem.next
  BY <1>1, <1>2, <1>3, NewMem, Shapes
<1>5. TypeOK'
  BY <1>1, <1>4 DEF TypeOK
<1>6. /\ FilesInv' /\ Durable' = Durable /\ Latest' = Latest
      /\ PendingAhead' = PendingAhead /\ FilesWritten' = FilesWritten
      /\ \A t : Ahead(t)' <=> Ahead(t)
  BY <1>1, FilesAlone
<1>7. PhaseInv' /\ CheckpointInv'
  BY <1>1, <1>6 DEF PhaseInv, CheckpointInv, Committing, Saving, Phases, Loading, Restoring
<1>8. CurInv'
  BY <1>1, <1>6 DEF CurInv, Committing
<1>9. cur.id = Len(Durable)
  <2>1. Len(Durable) \in DOMAIN Durable
    BY <1>2, <1>3
  <2> QED BY <1>2, <2>1 DEF Latest, FilesInv, Meaning, InOrder
<1>10. MemInv'
  BY <1>1, <1>2, <1>3, <1>4, <1>6, <1>9, Shapes
     DEF MemInv, High, Committing, Settled, Loading, Restoring
<1> QED BY <1>5, <1>6, <1>7, <1>8, <1>10

LEMMA SaveKeeps == ASSUME IInv, Save PROVE IInv'
<1> USE DEF IInv
<1>1. /\ phase = "running" /\ phase' = "backup" /\ cur = None
      /\ UNCHANGED <<disk, mem, booting, cur, issued, acked>>
  BY DEF Save, TypeOK
<1>2. TypeOK'
  BY <1>1 DEF TypeOK
<1>3. FilesInv' /\ Durable' = Durable /\ PendingAhead' = PendingAhead
  BY <1>1, FilesAlone
<1>4. PhaseInv' /\ CheckpointInv' /\ CurInv'
  BY <1>1, <1>3 DEF PhaseInv, CheckpointInv, CurInv, Committing, Saving, Phases, Loading, Restoring
<1>5. MemInv'
  BY <1>1, <1>3 DEF MemInv, High, Committing, Settled, Loading, Restoring
<1> QED BY <1>2, <1>3, <1>4, <1>5

LEMMA LoadKeeps == ASSUME IInv, Load PROVE IInv'
<1> USE DEF IInv
<1>1. phase = "load" /\ UNCHANGED <<disk, booting, cur, issued, acked>> /\ booting
  BY DEF Load, PhaseInv, Loading, TypeOK
<1>2. /\ mem' = disk.manifest
      /\ \/ phase' = "replay" /\ disk.ledger = disk.manifest
         \/ phase' = "restoreLedger" /\ disk.backup = disk.manifest /\ disk.ledger # disk.manifest
  BY <1>1 DEF Load, FilesInv, CheckpointNamed
<1>3. TypeOK'
  BY <1>1, <1>2, Shapes DEF TypeOK
<1>4. FilesInv' /\ Durable' = Durable
  BY <1>1, <1>2, FilesAlone
<1>5. PhaseInv' /\ CurInv'
  BY <1>1, <1>2 DEF PhaseInv, CurInv, Committing, Phases, Loading, Restoring
<1>6. CheckpointInv'
  BY <1>1, <1>2 DEF CheckpointInv, FilesInv, TornIsPending
<1>7. MemInv'
  BY <1>1, <1>2 DEF MemInv, Settled, Loading, Restoring
<1> QED BY <1>3, <1>4, <1>5, <1>6, <1>7

\* In a journal numbered on from a prefix of length base, the first frame beyond the k
\* transactions applied so far is transaction k + 1.
LEMMA NextFrame ==
  ASSUME NEW base \in Nat, NEW j \in Seq(Transaction), NEW d \in Seq(Transaction),
         Len(d) = base + Len(j),
         \A i \in 1..Len(j) : d[base + i] = j[i] /\ j[i].id = base + i,
         NEW k \in base..Len(d)
  PROVE  /\ (\A i \in 1..Len(j) : ~(j[i].id > k)) => k = Len(d)
         /\ \A i \in 1..Len(j) :
              j[i].id > k /\ (\A m \in 1..Len(j) : j[m].id > k => i <= m) =>
                j[i].id = k + 1 /\ j[i] = d[k + 1] /\ k + 1 \in base..Len(d)
<1>1. Len(j) \in Nat /\ k \in Nat /\ base <= k /\ k <= Len(d)
  OBVIOUS
<1>2. ASSUME k < Len(d) PROVE k + 1 - base \in 1..Len(j) /\ j[k + 1 - base].id = k + 1
  <2>1. k + 1 - base \in 1..Len(j)
    BY <1>1, <1>2
  <2> QED BY <1>1, <2>1
<1>3. (\A i \in 1..Len(j) : ~(j[i].id > k)) => k = Len(d)
  BY <1>1, <1>2
<1>4. ASSUME NEW i \in 1..Len(j), j[i].id > k, \A m \in 1..Len(j) : j[m].id > k => i <= m
      PROVE  j[i].id = k + 1 /\ j[i] = d[k + 1] /\ k + 1 \in base..Len(d)
  <2>1. j[i].id = base + i /\ d[base + i] = j[i] /\ i \in Nat /\ i <= Len(j)
    BY <1>1
  <2>2. k < Len(d)
    BY <1>1, <1>4, <2>1
  <2>3. i <= k + 1 - base
    BY <1>1, <1>2, <1>4, <2>2
  <2>4. base + i = k + 1
    BY <1>1, <1>4, <2>1, <2>3
  <2> QED BY <1>1, <2>1, <2>2, <2>4
<1> QED BY <1>3, <1>4

LEMMA RebuildKeeps == ASSUME IInv, Rebuild PROVE IInv'
<1> USE DEF IInv
<1>1. phase = "rebuild" /\ UNCHANGED <<disk, booting, cur, issued, acked>> /\ booting
  BY DEF Rebuild, PhaseInv, Loading, TypeOK
<1>2. /\ Source = disk.journal /\ Frames(Source) = disk.journal
      /\ disk.journal \in Seq(Transaction)
  <2>1. disk.ledger = disk.manifest /\ Complete(disk.journal)
    BY <1>1 DEF CheckpointInv
  <2> QED BY <1>1, <2>1, WholeJournal, Shapes DEF Source
<1> DEFINE base == Len(disk.manifest.applied)
           j    == disk.journal
<1>3. /\ Durable \in Seq(Transaction) /\ Len(Durable) \in Nat /\ base \in Nat
      /\ Len(Durable) = base + Len(j) /\ DOMAIN Durable = 1..Len(Durable)
      /\ \A i \in 1..Len(j) : Durable[base + i] = j[i]
  BY <1>2, DurableShape DEF FilesInv
<1>4. j \in Seq(Transaction) /\ DOMAIN j = 1..Len(j) /\ Len(j) \in Nat
  BY <1>2
<1>5. \E n \in base..Len(Durable) : mem.applied = SubSeq(Durable, 1, n)
  BY <1>1 DEF MemInv
<1> HIDE DEF base
<1>6. \A i \in 1..Len(j) : Durable[base + i] = j[i] /\ j[i].id = base + i
  <2> SUFFICES ASSUME NEW i \in 1..Len(j) PROVE j[i].id = base + i
    BY <1>3
  <2> HIDE DEF j
  <2>1. base + i \in DOMAIN Durable
    BY <1>3, <1>4
  <2> QED BY <1>3, <2>1 DEF FilesInv, Meaning, InOrder
<1>7. PICK k \in base..Len(Durable) : mem.applied = SubSeq(Durable, 1, k)
  BY <1>5
<1>8. High = k /\ k \in Nat
  BY <1>3, <1>7 DEF High
<1>9. ASSUME mem' \in Ledger, mem'.next = mem.next,
             \/ phase' = "linked" /\ mem'.applied = Durable
             \/ phase' = "rebuild" /\ \E l \in base..Len(Durable) :
                                        mem'.applied = SubSeq(Durable, 1, l)
      PROVE  IInv'
  <2>1. TypeOK'
    BY <1>1, <1>9 DEF TypeOK
  <2>2. FilesInv' /\ Durable' = Durable
    BY <1>1, <1>9, FilesAlone
  <2>3. PhaseInv' /\ CheckpointInv' /\ CurInv'
    BY <1>1, <1>9 DEF PhaseInv, CheckpointInv, CurInv, Committing, Saving, Phases, Loading, Restoring
  <2>4. MemInv'
    BY <1>1, <1>9, <2>2 DEF MemInv, Settled, Loading, Restoring, base
  <2> QED BY <2>1, <2>2, <2>3, <2>4
<1>10. CASE /\ {i \in DOMAIN j : j[i].id > High} = {}
            /\ phase' = "linked" /\ UNCHANGED mem
  <2>1. k = Len(Durable)
    <3> HIDE DEF j
    <3>1. \A i \in 1..Len(j) : ~(j[i].id > k)
      BY <1>4, <1>8, <1>10
    <3> DEFINE d == Durable
    <3>2. /\ base \in Nat /\ j \in Seq(Transaction) /\ d \in Seq(Transaction)
          /\ Len(d) = base + Len(j) /\ k \in base..Len(d)
          /\ \A i \in 1..Len(j) : d[base + i] = j[i] /\ j[i].id = base + i
      BY <1>3, <1>4, <1>6
    <3> HIDE DEF d
    <3>3. k = Len(d)
      BY ONLY <3>1, <3>2, NextFrame
    <3> QED BY <3>3 DEF d
  <2>2. mem.applied = Durable
    BY <1>3, <1>7, <2>1
  <2> QED BY <1>9, <1>10, <2>2 DEF TypeOK
<1>11. ASSUME NEW i \in DOMAIN j, j[i].id > High, \A m \in DOMAIN j : j[m].id > High => i <= m,
              IF j[i].id = High + 1
              THEN mem' = [mem EXCEPT !.applied = Append(mem.applied, j[i])] /\ UNCHANGED phase
              ELSE phase' = "refused" /\ UNCHANGED mem
       PROVE  IInv'
  <2>1. j[i].id = k + 1 /\ j[i] = Durable[k + 1] /\ k + 1 \in base..Len(Durable)
    <3> HIDE DEF j
    <3> QED BY <1>3, <1>4, <1>6, <1>8, <1>11, NextFrame
  <2>2. SubSeq(Durable, 1, k + 1) \in Seq(Transaction)
    BY <1>3, <1>8, <2>1
  <2>3. Append(SubSeq(Durable, 1, k), Durable[k + 1]) = SubSeq(Durable, 1, k + 1)
    BY <1>3, <1>8, <2>1
  <2>4. mem' = [mem EXCEPT !.applied = SubSeq(Durable, 1, k + 1)] /\ phase' = "rebuild"
    BY <1>1, <1>7, <1>8, <1>11, <2>1, <2>3
  <2>5. mem' \in Ledger /\ mem'.applied = SubSeq(Durable, 1, k + 1) /\ mem'.next = mem.next
    BY <2>2, <2>4, NewMem, Shapes
  <2> QED BY <1>9, <2>1, <2>4, <2>5
<1>12. \/ {i \in DOMAIN j : j[i].id > High} = {} /\ phase' = "linked" /\ UNCHANGED mem
       \/ \E i \in DOMAIN j :
            /\ j[i].id > High /\ \A m \in DOMAIN j : j[m].id > High => i <= m
            /\ IF j[i].id = High + 1
               THEN mem' = [mem EXCEPT !.applied = Append(mem.applied, j[i])] /\ UNCHANGED phase
               ELSE phase' = "refused" /\ UNCHANGED mem
  BY DEF Rebuild
<1> HIDE DEF j
<1> QED BY <1>10, <1>11, <1>12

LEMMA RecoverKeeps == ASSUME IInv, Recover PROVE IInv'
<1> USE DEF IInv
<1>1. phase = "linked" /\ UNCHANGED <<disk, mem, booting, issued, acked>> /\ booting
  BY DEF Recover, PhaseInv, Loading, TypeOK
<1>2. disk.pending = None /\ ~PendingAhead
  BY <1>1 DEF CheckpointInv, PendingAhead
<1>3. \/ disk.coordinator = None /\ phase' = "floors" /\ UNCHANGED cur
      \/ disk.coordinator # None /\ phase' = "files" /\ cur' = disk.coordinator.txn
  BY <1>1 DEF Recover
<1>4. disk.coordinator # None =>
         /\ disk.coordinator.txn \in Transaction /\ disk.coordinator.txn # None
         /\ disk.coordinator.txn.linked /\ disk.coordinator.txn.serial <= issued
         /\ Ahead(disk.coordinator.txn) \/ (Durable # <<>> /\ disk.coordinator.txn = Latest)
  <2>1. Durable \in Seq(Transaction)
    BY DurableShape DEF FilesInv
  <2>2. Durable # <<>> => Len(Durable) \in DOMAIN Durable
    BY <2>1
  <2> QED BY <2>2, Shapes, LedgerAssumption
         DEF FilesInv, Meaning, CoordinatorFits, Ahead, InOrder, Latest
<1>5. TypeOK'
  BY <1>1, <1>3, <1>4 DEF TypeOK
<1>6. /\ FilesInv' /\ Durable' = Durable /\ Latest' = Latest
      /\ PendingAhead' = PendingAhead /\ FilesWritten' = FilesWritten
      /\ \A t : Ahead(t)' <=> Ahead(t)
  BY <1>1, <1>3, FilesAlone
<1>7. PhaseInv' /\ CheckpointInv'
  BY <1>1, <1>2, <1>3, <1>6 DEF PhaseInv, CheckpointInv, Committing, Saving, Phases, Loading, Restoring
<1>8. MemInv'
  BY <1>1, <1>3, <1>6 DEF MemInv, High, Committing, Settled, Loading, Restoring
<1>9. CurInv'
  BY <1>1, <1>2, <1>3, <1>4, <1>6 DEF CurInv, Committing
<1> QED BY <1>5, <1>6, <1>7, <1>8, <1>9

LEMMA FloorsKeeps == ASSUME IInv, Floors PROVE IInv'
<1> USE DEF IInv
<1> DEFINE next == IF mem.next > High + 1 THEN mem.next ELSE High + 1
<1>1. /\ phase = "floors" /\ phase' = "running" /\ booting' = FALSE
      /\ mem' = [mem EXCEPT !.next = next]
      /\ UNCHANGED <<disk, cur, issued, acked>> /\ booting
  BY DEF Floors, PhaseInv, Loading, TypeOK
<1>2. mem.applied = Durable /\ High = Len(Durable) /\ Len(Durable) \in Nat
  BY <1>1, MemoryIsDurable, DurableShape DEF FilesInv
<1>3. High <= MaxId
  <2>1. CASE High = 0
    BY <2>1, LedgerAssumption
  <2>2. CASE High # 0
    <3>1. Len(Durable) \in DOMAIN Durable
      BY <1>2, <2>2, DurableShape DEF FilesInv
    <3>2. Durable[Len(Durable)].id = Len(Durable) /\ Durable[Len(Durable)].id \in 1..MaxId
      BY <3>1, DurableShape DEF FilesInv, Meaning, InOrder
    <3> QED BY <1>2, <3>2, LedgerAssumption
  <2> QED BY <2>1, <2>2
<1>4. next \in 1..(MaxId + 1) /\ next > High
  BY <1>2, <1>3, Shapes
<1> HIDE DEF next
<1>5. mem' \in Ledger /\ mem'.applied = mem.applied /\ mem'.next = next
  BY <1>1, <1>4, NewMem, Shapes
<1>6. disk.pending = None /\ ~PendingAhead
  BY <1>1 DEF CheckpointInv, PendingAhead
<1>7. FilesInv' /\ Durable' = Durable /\ PendingAhead' = PendingAhead
  BY <1>1, FilesAlone
<1>8. cur = None
  BY <1>1 DEF PhaseInv, Loading
<1>9. TypeOK'
  BY <1>1, <1>4, <1>5, <1>8 DEF TypeOK, High
<1>10. PhaseInv' /\ CheckpointInv' /\ CurInv'
  BY <1>1, <1>7 DEF PhaseInv, CheckpointInv, CurInv, Committing, Saving, Phases, Loading, Restoring
<1>11. MemInv'
  BY <1>1, <1>2, <1>4, <1>5, <1>6, <1>7 DEF MemInv, High, Committing, Settled, Loading, Restoring
<1> QED BY <1>7, <1>9, <1>10, <1>11

LEMMA FailKeeps == ASSUME MayFail \subseteq CleanFailures, IInv, Fail PROVE IInv'
<1> USE DEF IInv
<1>1. /\ phase \in CleanFailures /\ ~booting /\ phase' = "running" /\ cur' = None
      /\ UNCHANGED <<disk, mem, booting, issued, acked>>
  BY DEF Fail
<1>0. /\ phase \notin Saving \ CleanFailures /\ phase \notin Loading
      /\ phase # "appending" /\ phase # "apply" /\ phase # "running" /\ phase \in Phases
  BY <1>1 DEF CleanFailures, Loading, Restoring, PhaseInv
<1>2. /\ mem.applied = Durable /\ High = Len(Durable) /\ Len(Durable) \in Nat
      /\ mem.next > High /\ mem.next \in Nat
  <2>1. mem.applied = Durable /\ High = Len(Durable)
    BY <1>0, MemoryIsDurable
  <2> QED BY <1>1, <2>1, DurableShape, Shapes DEF FilesInv, MemInv
<1>3. TypeOK'
  BY <1>1, <1>2 DEF TypeOK, High
<1>4. FilesInv' /\ Durable' = Durable /\ PendingAhead' = PendingAhead
  BY <1>1, FilesAlone DEF CleanFailures
<1>5. PhaseInv' /\ CheckpointInv' /\ CurInv'
  <2>1. disk.ledger = disk.manifest /\ Complete(disk.journal)
    BY <1>1 DEF CleanFailures, CheckpointInv
  <2> QED BY <1>1, <2>1
         DEF PhaseInv, CheckpointInv, CurInv, Committing, Saving, Phases, Loading, Restoring
<1>6. PendingAhead => mem.next > High + 1
  <2> SUFFICES ASSUME PendingAhead PROVE mem.next > High + 1
    OBVIOUS
  <2>1. CASE phase \in Settled
    BY <2>1 DEF MemInv
  <2>2. CASE phase = "append"
    BY <1>1, <1>2, <2>2, Shapes DEF MemInv, CurInv, Committing, PendingAhead, Ahead
  <2>3. CASE phase = "unpend"
    <3>1. disk.pending = cur /\ Durable # <<>> /\ cur = Latest
      BY <2>3 DEF CurInv, Committing
    <3>2. Len(Durable) \in DOMAIN Durable
      BY <1>2, <3>1, DurableShape DEF FilesInv
    <3>3. cur.id = Len(Durable)
      BY <3>1, <3>2 DEF Latest, FilesInv, Meaning, InOrder
    <3> QED BY <1>2, <3>1, <3>3 DEF PendingAhead
  <2>4. phase \notin {"coordinator", "files", "pending", "uncoordinate"}
    BY DEF CurInv, Committing
  <2> QED BY <1>1, <2>1, <2>2, <2>3, <2>4 DEF CleanFailures, Settled
<1>7. MemInv'
  BY <1>1, <1>2, <1>4, <1>6 DEF MemInv, High, Committing, Settled, Loading, Restoring
<1> QED BY <1>3, <1>4, <1>5, <1>7

LEMMA CrashKeeps == ASSUME ~RestoreInterrupted, IInv, Crash PROVE IInv'
<1> USE DEF IInv
<1>1. /\ phase' = "load" /\ booting' = TRUE /\ cur' = None /\ mem' = Genesis
      /\ phase # "restoreJournal" /\ UNCHANGED <<disk, issued, acked>>
  BY DEF Crash
<1>2. Genesis \in Ledger
  BY LedgerAssumption DEF Genesis, Ledger
<1>3. TypeOK'
  BY <1>1, <1>2 DEF TypeOK
<1>4. FilesInv'
  BY <1>1, FilesAlone
<1>5. PhaseInv' /\ CurInv' /\ MemInv' /\ CheckpointInv'
  BY <1>1 DEF PhaseInv, CurInv, MemInv, CheckpointInv, Committing, Phases, Loading, Restoring,
              Settled
<1> QED BY <1>3, <1>4, <1>5

-----------------------------------------------------------------------------
(* Steps that write a file and leave the durable transactions as they are. *)

\* Every field but the one written is kept.
LEMMA Wrote ==
  ASSUME TypeOK, NEW field \in DOMAIN disk, NEW value, disk' = [disk EXCEPT ![field] = value]
  PROVE  disk'[field] = value /\ \A other \in DOMAIN disk : other # field => disk'[other] = disk[other]
BY DEF TypeOK

LEMMA Fields ==
  ASSUME TypeOK
  PROVE  DOMAIN disk = {"ledger", "backup", "manifest", "journal", "journalBackup", "pending",
                        "files", "coordinator"}
BY DEF TypeOK

\* A step that leaves both checkpoints and both journals alone.
LEMMA JournalsAlone ==
  ASSUME IInv, issued' = issued, phase # "restoreJournal", phase' # "restoreJournal",
         disk'.ledger = disk.ledger, disk'.manifest = disk.manifest,
         disk'.journal = disk.journal, disk'.journalBackup = disk.journalBackup,
         \A s \in acked' : s \in acked \/ \E i \in DOMAIN Durable : Durable[i].serial = s
  PROVE  /\ Source' = Source /\ Durable' = Durable /\ Latest' = Latest /\ TornAtEnd'
         /\ InOrder' /\ Distinct' /\ AckedIsDurable'
         /\ \A t : Ahead(t)' <=> Ahead(t)
<1>1. Source' = Source
  BY DEF Source
<1>2. Durable' = Durable
  BY <1>1 DEF Durable
<1>3. TornAtEnd'
  BY DEF IInv, FilesInv, TornAtEnd
<1>4. AckedIsDurable'
  BY <1>2 DEF IInv, FilesInv, Meaning, AckedIsDurable
<1> QED BY <1>1, <1>2, <1>3, <1>4
        DEF IInv, FilesInv, Meaning, InOrder, Distinct, Latest, Ahead

LEMMA AnnounceKeeps == ASSUME IInv, Announce PROVE IInv'
<1> USE DEF IInv
<1> DEFINE c == [txn |-> cur, before |-> disk.files]
<1>1. /\ phase = "coordinator" /\ phase' = "files" /\ disk' = [disk EXCEPT !["coordinator"] = c]
      /\ UNCHANGED <<mem, booting, cur, issued, acked>>
  BY DEF Announce, Write
<1>2. /\ cur # None /\ cur.linked /\ Ahead(cur) /\ disk.coordinator = None /\ ~PendingAhead
      /\ cur \in Transaction /\ cur.serial <= issued /\ cur.serial \in Nat \ {0}
  BY <1>1, Shapes DEF CurInv, Committing
<1>3. c \in [txn : Transaction, before : Contents] /\ c # None
  BY <1>2, Shapes, LedgerAssumption
<1>4. /\ disk'.ledger = disk.ledger /\ disk'.backup = disk.backup
      /\ disk'.manifest = disk.manifest /\ disk'.journal = disk.journal
      /\ disk'.journalBackup = disk.journalBackup /\ disk'.pending = disk.pending
      /\ disk'.files = disk.files /\ disk'.coordinator = c
  BY <1>1, Wrote, Fields
<1>5. TypeOK'
  BY <1>1, <1>3 DEF TypeOK
<1>6. /\ Source' = Source /\ Durable' = Durable /\ Latest' = Latest /\ TornAtEnd'
      /\ InOrder' /\ Distinct' /\ AckedIsDurable'
      /\ \A t : Ahead(t)' <=> Ahead(t)
  BY <1>1, <1>4, JournalsAlone
<1>7. PendingAhead' = PendingAhead
  BY <1>4, <1>6 DEF PendingAhead
<1>8. CheckpointNamed' /\ TornIsPending' /\ PendingFits'
  BY <1>1, <1>4, <1>6, <1>7
     DEF FilesInv, Meaning, CheckpointNamed, TornIsPending, PendingFits
<1>9. \A f \in Files : disk.files[f] # cur.serial
  <2> SUFFICES ASSUME NEW f \in Files, disk.files[f] = cur.serial PROVE FALSE
    OBVIOUS
  <2>1. Match(disk.files, Durable)
    BY <1>2 DEF FilesInv, Meaning, NoCoordinatorFits
  <2>2. disk.files[f] = 0 \/ \E i \in DOMAIN Durable : disk.files[f] = Durable[i].serial
    <3>1. Durable \in Seq(Transaction)
      BY DurableShape DEF FilesInv
    <3> QED BY <2>1, <3>1, MatchesSome
  <2> QED BY <1>2, <2>2 DEF Ahead
<1>10. CoordinatorFits' /\ NoCoordinatorFits'
  <2>1. Match(disk.files, Durable)
    BY <1>2 DEF FilesInv, Meaning, NoCoordinatorFits
  <2>2. c.txn = cur /\ c.before = disk.files
    OBVIOUS
  <2>3. \A t : Ahead(t)' <=> Ahead(t)
    BY <1>6
  <2> HIDE DEF c
  <2> QED BY <1>2, <1>3, <1>4, <1>6, <1>7, <1>9, <2>1, <2>2 DEF CoordinatorFits, NoCoordinatorFits
<1>11. FilesInv'
  BY <1>6, <1>8, <1>10 DEF FilesInv, Meaning
<1>12. PhaseInv' /\ CheckpointInv'
  BY <1>1, <1>4, <1>7 DEF PhaseInv, CheckpointInv, Committing, Saving, Phases, Loading, Restoring
<1>13. CurInv'
  BY <1>1, <1>2, <1>3, <1>4, <1>6, <1>7 DEF CurInv, PhaseInv, Committing
<1>14. MemInv'
  BY <1>1, <1>4, <1>6, <1>7 DEF MemInv, High, Committing, Settled, Loading, Restoring
<1> QED BY <1>5, <1>11, <1>12, <1>13, <1>14

\* A step that leaves the durable transactions, the records and the files alone.
LEMMA MeaningKept ==
  ASSUME IInv, issued' = issued, acked' = acked, Durable' = Durable,
         Frames(Source)' = Frames(Source) \/ disk.pending = None,
         disk'.pending = disk.pending, disk'.coordinator = disk.coordinator,
         disk'.files = disk.files
  PROVE  /\ Meaning' /\ Latest' = Latest /\ PendingAhead' = PendingAhead
         /\ FilesWritten' = FilesWritten
         /\ \A t : Ahead(t)' <=> Ahead(t)
<1>1. PendingAhead' = PendingAhead /\ FilesWritten' = FilesWritten
  BY DEF PendingAhead, FilesWritten
<1>2. Latest' = Latest /\ \A t : Ahead(t)' <=> Ahead(t)
  BY OrderKept
<1>3. PendingFits'
  BY <1>2 DEF IInv, FilesInv, Meaning, PendingFits
<1>4. CoordinatorFits' /\ NoCoordinatorFits'
  BY <1>1, <1>2 DEF IInv, FilesInv, Meaning, CoordinatorFits, NoCoordinatorFits
<1> QED BY <1>1, <1>2, <1>3, <1>4, OrderKept DEF Meaning

LEMMA ReplaceFileKeeps == ASSUME IInv, NEW f \in Files, ReplaceFile(f) PROVE IInv'
<1> USE DEF IInv
<1> DEFINE c == disk.coordinator
<1>1. /\ phase = "files" /\ disk.files[f] = c.before[f]
      /\ disk' = [disk EXCEPT !.files[f] = c.txn.serial]
      /\ UNCHANGED <<mem, phase, booting, cur, issued, acked>>
  BY DEF ReplaceFile
<1>2. /\ c # None /\ cur = c.txn /\ c.txn.linked /\ ~PendingAhead /\ c.before[f] # c.txn.serial
      /\ c \in [txn : Transaction, before : Contents] /\ c.txn.serial \in Serials
  BY <1>1, Shapes DEF CurInv, Committing, FilesInv, Meaning, CoordinatorFits, Transaction
<1>3. disk.files \in Contents /\ DOMAIN disk.files = Files
  BY Shapes DEF Contents
<1>4. /\ disk'.ledger = disk.ledger /\ disk'.backup = disk.backup
      /\ disk'.manifest = disk.manifest /\ disk'.journal = disk.journal
      /\ disk'.journalBackup = disk.journalBackup /\ disk'.pending = disk.pending
      /\ disk'.coordinator = c /\ disk'.files = [disk.files EXCEPT ![f] = c.txn.serial]
  BY <1>1, Fields DEF TypeOK
<1>5. disk'.files \in Contents
  BY <1>2, <1>3, <1>4 DEF Contents
<1>6. TypeOK'
  BY <1>1, <1>4, <1>5 DEF TypeOK
<1>7. /\ Source' = Source /\ Durable' = Durable /\ Latest' = Latest /\ TornAtEnd'
      /\ InOrder' /\ Distinct' /\ AckedIsDurable'
      /\ \A t : Ahead(t)' <=> Ahead(t)
  BY <1>1, <1>4, JournalsAlone
<1>8. PendingAhead' = PendingAhead
  BY <1>4, <1>7 DEF PendingAhead
<1>9. CheckpointNamed' /\ TornIsPending' /\ PendingFits'
  BY <1>1, <1>4, <1>7, <1>8
     DEF FilesInv, Meaning, CheckpointNamed, TornIsPending, PendingFits
<1>10. CoordinatorFits' /\ NoCoordinatorFits'
  <2>1. \A g \in Files : disk.files[g] \in {c.before[g], c.txn.serial}
    BY <1>2 DEF FilesInv, Meaning, CoordinatorFits
  <2>2. \A g \in Files : disk'.files[g] \in {c.before[g], c.txn.serial}
    BY <1>3, <1>4, <2>1
  <2>3. Ahead(c.txn) /\ Match(c.before, Durable)
    <3>1. ~FilesWritten
      BY <1>1, <1>2 DEF FilesWritten
    <3> QED BY <1>2, <3>1 DEF FilesInv, Meaning, CoordinatorFits
  <2>4. Ahead(c.txn)'
    BY <1>4, <1>7, <2>3
  <2> QED BY <1>2, <1>4, <1>7, <1>8, <2>2, <2>3, <2>4
         DEF FilesInv, Meaning, CoordinatorFits, NoCoordinatorFits
<1>11. FilesInv'
  BY <1>7, <1>9, <1>10 DEF FilesInv, Meaning
<1>12. PhaseInv' /\ CheckpointInv'
  BY <1>1, <1>4, <1>8 DEF PhaseInv, CheckpointInv
<1>13. CurInv'
  BY <1>1, <1>2, <1>4, <1>7, <1>8 DEF CurInv, Committing
<1>14. MemInv'
  BY <1>1, <1>4, <1>7, <1>8 DEF MemInv, High, Settled
<1> QED BY <1>6, <1>11, <1>12, <1>13, <1>14

\* What is ahead is not the latest.
LEMMA AheadIsNotLatest ==
  ASSUME IInv, Durable # <<>> PROVE ~Ahead(Latest) /\ Latest.id = Len(Durable)
<1>1. Durable \in Seq(Transaction)
  BY DurableShape DEF IInv, FilesInv
<1>2. Len(Durable) \in DOMAIN Durable
  BY <1>1
<1> QED BY <1>2 DEF Ahead, Latest, IInv, FilesInv, Meaning, InOrder

LEMMA WritePendingKeeps == ASSUME IInv, WritePending PROVE IInv'
<1> USE DEF IInv
<1>1. /\ phase = "pending" /\ phase' = "append" /\ disk' = [disk EXCEPT !["pending"] = cur]
      /\ UNCHANGED <<mem, booting, cur, issued, acked>>
  BY DEF WritePending, Write
<1>2. /\ cur # None /\ Ahead(cur) /\ ~PendingAhead /\ cur \in Transaction
      /\ cur.linked => disk.coordinator # None /\ cur = disk.coordinator.txn /\ FilesWritten
      /\ ~cur.linked => disk.coordinator = None
  BY <1>1, Shapes DEF CurInv, Committing
<1>3. /\ disk'.ledger = disk.ledger /\ disk'.backup = disk.backup
      /\ disk'.manifest = disk.manifest /\ disk'.journal = disk.journal
      /\ disk'.journalBackup = disk.journalBackup /\ disk'.pending = cur
      /\ disk'.files = disk.files /\ disk'.coordinator = disk.coordinator
  BY <1>1, Wrote, Fields
<1>4. TypeOK'
  BY <1>1, <1>2 DEF TypeOK
<1>5. /\ Source' = Source /\ Durable' = Durable /\ Latest' = Latest /\ TornAtEnd'
      /\ InOrder' /\ Distinct' /\ AckedIsDurable'
      /\ \A t : Ahead(t)' <=> Ahead(t)
  BY <1>1, <1>3, JournalsAlone
<1>6. PendingAhead' /\ FilesWritten' = FilesWritten /\ Complete(disk.journal)
  BY <1>1, <1>2, <1>3, <1>5 DEF PendingAhead, FilesWritten, Ahead, CheckpointInv
<1>7. CheckpointNamed' /\ TornIsPending' /\ PendingFits'
  BY <1>1, <1>2, <1>3, <1>5, <1>6
     DEF FilesInv, CheckpointNamed, TornIsPending, PendingFits
<1>8. CoordinatorFits'
  <2>1. CASE disk.coordinator = None
    BY <1>3, <2>1 DEF CoordinatorFits
  <2>2. CASE disk.coordinator # None
    <3>1. cur = disk.coordinator.txn /\ FilesWritten
      BY <1>2, <2>2
    <3>2. Match(disk.coordinator.before, Durable)
      BY <1>2, <2>2, <3>1, AheadIsNotLatest DEF FilesInv, Meaning, CoordinatorFits
    <3>3. Ahead(disk.coordinator.txn)'
      BY <1>2, <1>3, <1>5, <3>1
    <3> QED BY <1>3, <1>5, <1>6, <2>2, <3>1, <3>2, <3>3
           DEF FilesInv, Meaning, CoordinatorFits
  <2> QED BY <2>1, <2>2
<1>9. NoCoordinatorFits'
  BY <1>2, <1>3, <1>5 DEF FilesInv, Meaning, NoCoordinatorFits
<1>10. FilesInv'
  BY <1>5, <1>7, <1>8, <1>9 DEF FilesInv, Meaning
<1>11. PhaseInv' /\ CheckpointInv'
  BY <1>1, <1>3, <1>6 DEF PhaseInv, CheckpointInv, Committing, Saving, Phases, Loading, Restoring
<1>12. CurInv'
  <2>1. Ahead(cur)'
    BY <1>1, <1>2, <1>5
  <2> QED BY <1>1, <1>3, <1>5, <1>6, <2>1 DEF CurInv, Committing
<1>13. MemInv'
  BY <1>1, <1>3, <1>5 DEF MemInv, High, Committing, Settled, Loading, Restoring
<1> QED BY <1>4, <1>10, <1>11, <1>12, <1>13

\* Where a commit's call returns to.
LEMMA ReturnSound ==
  ASSUME IInv, Return, phase \in {"unpend", "uncoordinate"}, mem' = mem,
         disk'.pending = None \/ (~booting /\ PendingAhead' = PendingAhead /\ ~PendingAhead),
         issued' = issued, booting' = booting, Durable' = Durable, Complete(disk'.journal),
         disk'.ledger = disk'.manifest, disk' \in Disks
  PROVE  /\ TypeOK' /\ PhaseInv' /\ CheckpointInv' /\ CurInv' /\ MemInv'
         /\ phase' # "restoreJournal"
         /\ \A s \in acked' : s \in acked \/ \E i \in DOMAIN Durable : Durable[i].serial = s
<1> USE DEF IInv
<1>1. /\ cur # None /\ Durable # <<>> /\ cur = Latest /\ cur.serial <= issued
      /\ cur.serial \in Nat \ {0}
  BY Shapes DEF CurInv, Committing
<1>2. /\ cur' = None /\ phase' = (IF booting THEN "floors" ELSE "running")
      /\ acked' \subseteq acked \cup {cur.serial}
  BY DEF Return
<1>3. mem.applied = Durable /\ (~booting => mem.next > High)
  BY DEF MemInv, Loading, Restoring
<1>4. issued' \in 0..MaxTransactions /\ acked' \subseteq 1..issued'
  BY <1>1, <1>2, Shapes DEF TypeOK
<1>5. TypeOK'
  BY <1>2, <1>3, <1>4 DEF TypeOK, Disks, Frame, High
<1>6. \A s \in acked' : s \in acked \/ \E i \in DOMAIN Durable : Durable[i].serial = s
  <2>1. Durable \in Seq(Transaction)
    BY DurableShape DEF FilesInv
  <2>2. Len(Durable) \in DOMAIN Durable
    BY <1>1, <2>1
  <2> QED BY <1>1, <1>2, <2>2 DEF Latest
<1>7. ~PendingAhead'
  BY DEF PendingAhead
<1>8. PhaseInv'
  BY <1>2 DEF PhaseInv, Phases, Loading, Restoring
<1>9. CheckpointInv' /\ CurInv'
  BY <1>2, <1>7 DEF CheckpointInv, CurInv, Committing
<1>10. MemInv'
  BY <1>2, <1>3, <1>7 DEF MemInv, High, Committing, Settled, Loading, Restoring
<1> QED BY <1>2, <1>5, <1>6, <1>8, <1>9, <1>10

LEMMA DropPendingKeeps == ASSUME IInv, DropPending PROVE IInv'
<1> USE DEF IInv
<1>1. /\ phase = "unpend" /\ disk' = [disk EXCEPT !.pending = None]
      /\ IF cur.linked THEN phase' = "uncoordinate" /\ UNCHANGED <<cur, acked>> ELSE Return
      /\ UNCHANGED <<mem, booting, issued>>
  BY DEF DropPending
<1>2. /\ cur # None /\ Durable # <<>> /\ cur = Latest /\ disk.pending = cur
      /\ cur.linked \in BOOLEAN /\ disk.ledger = disk.manifest /\ Complete(disk.journal)
  BY <1>1, Shapes DEF CurInv, CheckpointInv, Committing
<1>3. /\ disk'.ledger = disk.ledger /\ disk'.backup = disk.backup
      /\ disk'.manifest = disk.manifest /\ disk'.journal = disk.journal
      /\ disk'.journalBackup = disk.journalBackup /\ disk'.pending = None
      /\ disk'.files = disk.files /\ disk'.coordinator = disk.coordinator
      /\ disk' \in Disks
  BY <1>1 DEF TypeOK, Disks, Frame
<1>4. Source' = Source /\ Durable' = Durable
  <2>1. phase' # "restoreJournal"
    BY <1>1 DEF Return
  <2>2. Source' = Source
    BY <1>1, <1>3, <2>1 DEF Source
  <2> QED BY <1>3, <2>2 DEF Durable
<1>5. /\ TypeOK' /\ PhaseInv' /\ CheckpointInv' /\ CurInv' /\ MemInv'
      /\ phase' # "restoreJournal"
      /\ \A s \in acked' : s \in acked \/ \E i \in DOMAIN Durable : Durable[i].serial = s
  <2>1. CASE ~cur.linked
    BY <1>1, <1>2, <1>3, <1>4, <2>1, ReturnSound
  <2>2. CASE cur.linked
    <3>1. phase' = "uncoordinate" /\ UNCHANGED <<mem, booting, issued, cur, acked>>
      BY <1>1, <2>2
    <3>2. TypeOK'
      BY <1>3, <3>1 DEF TypeOK, Disks, Frame
    <3>3. FilesWritten' = FilesWritten /\ ~PendingAhead' /\ Latest' = Latest
      BY <1>3, <1>4 DEF FilesWritten, PendingAhead, Latest
    <3>4. PhaseInv' /\ CheckpointInv'
      BY <1>1, <1>2, <1>3, <3>1 DEF PhaseInv, CheckpointInv, Committing, Saving, Phases, Loading, Restoring
    <3>5. CurInv'
      BY <1>1, <1>2, <1>3, <1>4, <2>2, <3>1, <3>3 DEF CurInv, Committing
    <3>6. MemInv'
      BY <1>1, <1>4, <3>1, <3>3 DEF MemInv, High, Committing, Settled, Loading, Restoring
    <3> QED BY <3>1, <3>2, <3>4, <3>5, <3>6
  <2> QED BY <1>2, <2>1, <2>2
<1>6. /\ Source' = Source /\ Durable' = Durable /\ Latest' = Latest /\ TornAtEnd'
      /\ InOrder' /\ Distinct' /\ AckedIsDurable'
      /\ \A t : Ahead(t)' <=> Ahead(t)
  BY <1>1, <1>3, <1>5, JournalsAlone
<1>7. CheckpointNamed' /\ TornIsPending' /\ PendingFits'
  BY <1>2, <1>3, <1>5 DEF FilesInv, CheckpointNamed, TornIsPending, PendingFits
<1>8. CoordinatorFits' /\ NoCoordinatorFits'
  <2>1. ~PendingAhead' /\ FilesWritten' = FilesWritten
    BY <1>3 DEF PendingAhead, FilesWritten
  <2> QED BY <1>3, <1>6, <2>1 DEF FilesInv, Meaning, CoordinatorFits, NoCoordinatorFits
<1> QED BY <1>5, <1>6, <1>7, <1>8 DEF FilesInv, Meaning

LEMMA DropCoordinatorKeeps == ASSUME IInv, DropCoordinator PROVE IInv'
<1> USE DEF IInv
<1>1. /\ phase = "uncoordinate" /\ disk' = [disk EXCEPT !.coordinator = None] /\ Return
      /\ UNCHANGED <<mem, booting, issued>>
  BY DEF DropCoordinator
<1>2. /\ cur # None /\ Durable # <<>> /\ cur = Latest /\ cur.linked /\ ~PendingAhead
      /\ cur = disk.coordinator.txn /\ FilesWritten /\ (booting => disk.pending = None)
      /\ disk.ledger = disk.manifest /\ Complete(disk.journal)
  BY <1>1, Shapes DEF CurInv, CheckpointInv, Committing
<1>3. /\ disk'.ledger = disk.ledger /\ disk'.backup = disk.backup
      /\ disk'.manifest = disk.manifest /\ disk'.journal = disk.journal
      /\ disk'.journalBackup = disk.journalBackup /\ disk'.pending = disk.pending
      /\ disk'.files = disk.files /\ disk'.coordinator = None
      /\ disk' \in Disks
  BY <1>1 DEF TypeOK, Disks, Frame
<1>4. Source' = Source /\ Durable' = Durable /\ PendingAhead' = PendingAhead
  <2>1. phase' # "restoreJournal"
    BY <1>1 DEF Return
  <2>2. Source' = Source
    BY <1>1, <1>3, <2>1 DEF Source
  <2> QED BY <1>3, <2>2 DEF Durable, PendingAhead
<1>5. /\ TypeOK' /\ PhaseInv' /\ CheckpointInv' /\ CurInv' /\ MemInv'
      /\ phase' # "restoreJournal"
      /\ \A s \in acked' : s \in acked \/ \E i \in DOMAIN Durable : Durable[i].serial = s
  BY <1>1, <1>2, <1>3, <1>4, ReturnSound
<1>6. /\ Source' = Source /\ Durable' = Durable /\ Latest' = Latest /\ TornAtEnd'
      /\ InOrder' /\ Distinct' /\ AckedIsDurable'
      /\ \A t : Ahead(t)' <=> Ahead(t)
  BY <1>1, <1>3, <1>5, JournalsAlone
<1>7. CheckpointNamed' /\ TornIsPending' /\ PendingFits'
  BY <1>2, <1>3, <1>5, <1>6
     DEF FilesInv, Meaning, CheckpointNamed, TornIsPending, PendingFits
<1>8. Match(disk.files, Durable)
  <2>1. Durable \in Seq(Transaction)
    BY DurableShape DEF FilesInv
  <2> QED BY <1>2, <2>1, MatchesLast DEF Latest, FilesWritten
<1>9. CoordinatorFits' /\ NoCoordinatorFits'
  BY <1>2, <1>3, <1>4, <1>6, <1>8 DEF CoordinatorFits, NoCoordinatorFits
<1> QED BY <1>5, <1>6, <1>7, <1>9 DEF FilesInv, Meaning

-----------------------------------------------------------------------------
(* The checkpoint. *)

LEMMA BackUpLedgerKeeps == ASSUME IInv, BackUpLedger PROVE IInv'
<1> USE DEF IInv
<1>1. /\ phase = "backup" /\ phase' = "journalBackup"
      /\ disk' = [disk EXCEPT !["backup"] = disk.ledger]
      /\ UNCHANGED <<mem, booting, cur, issued, acked>>
  BY DEF BackUpLedger, Write
<1>2. disk.ledger = disk.manifest /\ Complete(disk.journal) /\ disk.ledger \in Ledger
  BY <1>1, Shapes DEF CheckpointInv
<1>3. /\ disk'.ledger = disk.ledger /\ disk'.backup = disk.ledger
      /\ disk'.manifest = disk.manifest /\ disk'.journal = disk.journal
      /\ disk'.journalBackup = disk.journalBackup /\ disk'.pending = disk.pending
      /\ disk'.files = disk.files /\ disk'.coordinator = disk.coordinator
  BY <1>1, Wrote, Fields
<1>4. TypeOK'
  BY <1>1, <1>2 DEF TypeOK
<1>5. Source' = Source /\ Durable' = Durable /\ TornAtEnd'
  BY <1>1, <1>3, JournalsAlone
<1>6. Meaning' /\ PendingAhead' = PendingAhead
  BY <1>1, <1>3, <1>5, MeaningKept
<1>7. CheckpointNamed' /\ TornIsPending'
  BY <1>2, <1>3 DEF CheckpointNamed, TornIsPending
<1>8. PhaseInv' /\ CheckpointInv' /\ CurInv'
  BY <1>1, <1>2, <1>3
     DEF PhaseInv, CheckpointInv, CurInv, Committing, Saving, Phases, Loading, Restoring
<1>9. MemInv'
  BY <1>1, <1>5, <1>6 DEF MemInv, High, Committing, Settled, Loading, Restoring
<1> QED BY <1>4, <1>5, <1>6, <1>7, <1>8, <1>9 DEF FilesInv

LEMMA BackUpJournalKeeps == ASSUME IInv, BackUpJournal PROVE IInv'
<1> USE DEF IInv
<1>1. /\ phase = "journalBackup" /\ phase' = "ledger"
      /\ disk' = [disk EXCEPT !["journalBackup"] = disk.journal]
      /\ UNCHANGED <<mem, booting, cur, issued, acked>>
  BY DEF BackUpJournal, Write
<1>2. /\ disk.ledger = disk.manifest /\ Complete(disk.journal) /\ disk.backup = disk.ledger
      /\ disk.journal \in Seq(Frame)
  BY <1>1, Shapes DEF CheckpointInv
<1>3. /\ disk'.ledger = disk.ledger /\ disk'.backup = disk.backup
      /\ disk'.manifest = disk.manifest /\ disk'.journal = disk.journal
      /\ disk'.journalBackup = disk.journal /\ disk'.pending = disk.pending
      /\ disk'.files = disk.files /\ disk'.coordinator = disk.coordinator
  BY <1>1, Wrote, Fields
<1>4. TypeOK'
  BY <1>1, <1>2 DEF TypeOK, Frame
<1>5. Source' = Source /\ Durable' = Durable
  <2>1. Source' = Source
    BY <1>1, <1>2, <1>3 DEF Source
  <2> QED BY <1>3, <2>1 DEF Durable
<1>6. Meaning' /\ PendingAhead' = PendingAhead
  BY <1>1, <1>3, <1>5, MeaningKept
<1>7. CheckpointNamed' /\ TornAtEnd' /\ TornIsPending'
  BY <1>2, <1>3 DEF CheckpointNamed, TornAtEnd, TornIsPending, FilesInv
<1>8. PhaseInv' /\ CheckpointInv' /\ CurInv'
  BY <1>1, <1>2, <1>3
     DEF PhaseInv, CheckpointInv, CurInv, Committing, Saving, Phases, Loading, Restoring
<1>9. MemInv'
  BY <1>1, <1>5, <1>6 DEF MemInv, High, Committing, Settled, Loading, Restoring
<1> QED BY <1>4, <1>6, <1>7, <1>8, <1>9 DEF FilesInv

\* Whichever of the two checkpoints the new manifest names, the same journal follows it.
LEMMA ReplaceLedgerKeeps == ASSUME IInv, ReplaceLedger PROVE IInv'
<1> USE DEF IInv
<1>1. /\ phase = "ledger" /\ phase' = "journal"
      /\ disk' = [disk EXCEPT !["ledger"] = mem]
      /\ UNCHANGED <<mem, booting, cur, issued, acked>>
  BY DEF ReplaceLedger, Write
<1>2. /\ disk.ledger = disk.manifest /\ Complete(disk.journal) /\ disk.backup = disk.ledger
      /\ disk.journalBackup = disk.journal
  BY <1>1 DEF CheckpointInv
<1>3. /\ disk'.ledger = mem /\ disk'.backup = disk.backup
      /\ disk'.manifest = disk.manifest /\ disk'.journal = disk.journal
      /\ disk'.journalBackup = disk.journalBackup /\ disk'.pending = disk.pending
      /\ disk'.files = disk.files /\ disk'.coordinator = disk.coordinator
  BY <1>1, Wrote, Fields
<1>4. TypeOK'
  BY <1>1 DEF TypeOK
<1>5. Source' = Source /\ Durable' = Durable
  <2>1. Source' = Source
    BY <1>1, <1>2, <1>3 DEF Source
  <2> QED BY <1>3, <2>1 DEF Durable
<1>6. Meaning'
  BY <1>1, <1>3, <1>5, MeaningKept
<1>7. CheckpointNamed' /\ TornAtEnd' /\ TornIsPending'
  BY <1>2, <1>3 DEF CheckpointNamed, TornAtEnd, TornIsPending, FilesInv
<1>8. PhaseInv' /\ CheckpointInv' /\ CurInv'
  BY <1>1, <1>2, <1>3
     DEF PhaseInv, CheckpointInv, CurInv, Committing, Saving, Phases, Loading, Restoring
<1>9. MemInv'
  BY <1>1, <1>5 DEF MemInv, High, Committing, Settled, Loading, Restoring
<1> QED BY <1>4, <1>6, <1>7, <1>8, <1>9 DEF FilesInv

\* If the manifest names the ledger just written, memory added nothing to it and the
\* journal is empty already.
LEMMA EmptyJournalKeeps == ASSUME IInv, EmptyJournal PROVE IInv'
<1> USE DEF IInv
<1>1. /\ phase = "journal" /\ phase' = "clear" /\ ~booting
      /\ disk' = [disk EXCEPT !["journal"] = <<>>]
      /\ UNCHANGED <<mem, booting, cur, issued, acked>>
  BY DEF EmptyJournal, Write, PhaseInv, Committing, Loading, Restoring
<1>2. disk.ledger = mem /\ disk.journal = disk.journalBackup /\ Complete(disk.journal)
  BY <1>1 DEF CheckpointInv
<1>3. /\ disk'.ledger = disk.ledger /\ disk'.backup = disk.backup
      /\ disk'.manifest = disk.manifest /\ disk'.journal = <<>>
      /\ disk'.journalBackup = disk.journalBackup /\ disk'.pending = disk.pending
      /\ disk'.files = disk.files /\ disk'.coordinator = disk.coordinator
  BY <1>1, Wrote, Fields
<1>4. TypeOK'
  <2>1. <<>> \in Seq(Transaction \cup {Torn})
    OBVIOUS
  <2> QED BY <1>1, <2>1 DEF TypeOK
<1>5. Complete(disk.journal)'
  BY <1>3 DEF Complete, ToSet
<1>6. Source' = Source
  <2>1. CASE disk.ledger # disk.manifest
    BY <1>1, <1>3, <2>1 DEF Source
  <2>2. CASE disk.ledger = disk.manifest
    <3>1. Source = disk.journal /\ disk.journal \in Seq(Transaction) /\ Frames(disk.journal) = disk.journal
      BY <1>1, <1>2, <2>2, WholeJournal, Shapes DEF Source
    <3>2. mem.applied = Durable
      BY <1>1 DEF MemInv, Loading, Restoring
    <3>3. Len(disk.manifest.applied) = Len(Durable) /\ Len(disk.journal) \in Nat
      BY <1>2, <2>2, <3>1, <3>2
    <3>4. /\ Len(Durable) = Len(disk.manifest.applied) + Len(Frames(Source))
          /\ Len(disk.manifest.applied) \in Nat
      BY DurableShape DEF FilesInv
    <3>5. Len(disk.journal) = 0
      <4>1. Frames(Source) = disk.journal
        BY <3>1
      <4>2. Len(Frames(Source)) = Len(disk.journal) /\ Len(disk.journal) \in Nat
        BY <3>1, <4>1
      <4> QED BY <3>3, <3>4, <4>2
    <3>6. disk.journal = <<>>
      BY <3>1, <3>5
    <3> QED BY <1>1, <1>3, <2>2, <3>1, <3>6 DEF Source
  <2> QED BY <2>1, <2>2
<1>7. Durable' = Durable
  BY <1>3, <1>6 DEF Durable
<1>8. Meaning'
  BY <1>1, <1>3, <1>6, <1>7, MeaningKept
<1>9. CheckpointNamed' /\ TornAtEnd' /\ TornIsPending'
  BY <1>2, <1>3, <1>5 DEF CheckpointNamed, TornAtEnd, TornIsPending, FilesInv
<1>10. PhaseInv' /\ CheckpointInv' /\ CurInv'
  BY <1>1, <1>2, <1>3, <1>5
     DEF PhaseInv, CheckpointInv, CurInv, Committing, Saving, Phases, Loading, Restoring
<1>11. MemInv'
  BY <1>1, <1>7 DEF MemInv, High, Committing, Settled, Loading, Restoring
<1> QED BY <1>4, <1>8, <1>9, <1>10, <1>11 DEF FilesInv

LEMMA ClearPendingKeeps == ASSUME IInv, ClearPending PROVE IInv'
<1> USE DEF IInv
<1>1. /\ phase = "clear" /\ phase' = "manifest" /\ ~booting
      /\ disk' = [disk EXCEPT !["pending"] = None]
      /\ UNCHANGED <<mem, booting, cur, issued, acked>>
  BY DEF ClearPending, Write, PhaseInv, Committing, Loading, Restoring
<1>2. disk.ledger = mem /\ disk.journal = <<>> /\ Complete(disk.journal)
  BY <1>1 DEF CheckpointInv
<1>3. /\ disk'.ledger = disk.ledger /\ disk'.backup = disk.backup
      /\ disk'.manifest = disk.manifest /\ disk'.journal = disk.journal
      /\ disk'.journalBackup = disk.journalBackup /\ disk'.pending = None
      /\ disk'.files = disk.files /\ disk'.coordinator = disk.coordinator
  BY <1>1, Wrote, Fields
<1>4. TypeOK'
  BY <1>1 DEF TypeOK
<1>5. /\ Source' = Source /\ Durable' = Durable /\ Latest' = Latest /\ TornAtEnd'
      /\ InOrder' /\ Distinct' /\ AckedIsDurable'
      /\ \A t : Ahead(t)' <=> Ahead(t)
  BY <1>1, <1>3, JournalsAlone
<1>6. ~PendingAhead' /\ FilesWritten' = FilesWritten
  BY <1>3 DEF PendingAhead, FilesWritten
<1>7. CheckpointNamed' /\ TornIsPending' /\ PendingFits'
  BY <1>2, <1>3 DEF CheckpointNamed, TornIsPending, PendingFits, FilesInv
<1>8. CoordinatorFits' /\ NoCoordinatorFits'
  BY <1>3, <1>5, <1>6 DEF FilesInv, Meaning, CoordinatorFits, NoCoordinatorFits
<1>9. PhaseInv' /\ CheckpointInv' /\ CurInv'
  BY <1>1, <1>2, <1>3
     DEF PhaseInv, CheckpointInv, CurInv, Committing, Saving, Phases, Loading, Restoring
<1>10. MemInv'
  BY <1>1, <1>5 DEF MemInv, High, Committing, Settled, Loading, Restoring
<1> QED BY <1>4, <1>5, <1>7, <1>8, <1>9, <1>10 DEF FilesInv, Meaning

LEMMA UpdateManifestKeeps == ASSUME IInv, UpdateManifest PROVE IInv'
<1> USE DEF IInv
<1>1. /\ phase = "manifest" /\ phase' = "running" /\ ~booting
      /\ disk' = [disk EXCEPT !["manifest"] = mem]
      /\ UNCHANGED <<mem, booting, cur, issued, acked>>
  BY DEF UpdateManifest, Write, PhaseInv, Committing, Loading, Restoring
<1>2. /\ disk.ledger = mem /\ disk.journal = <<>> /\ Complete(disk.journal)
      /\ disk.pending = None /\ mem.applied = Durable /\ mem.next > High
  BY <1>1 DEF CheckpointInv, MemInv, Loading, Restoring
<1>3. /\ disk'.ledger = disk.ledger /\ disk'.backup = disk.backup
      /\ disk'.manifest = mem /\ disk'.journal = disk.journal
      /\ disk'.journalBackup = disk.journalBackup /\ disk'.pending = disk.pending
      /\ disk'.files = disk.files /\ disk'.coordinator = disk.coordinator
  BY <1>1, Wrote, Fields
<1>4. Durable' = Durable
  <2>1. Source' = <<>> /\ Complete(Source)'
    BY <1>1, <1>2, <1>3 DEF Source
  <2>2. Frames(Source)' = <<>>
    BY <2>1 DEF Frames
  <2> QED BY <1>2, <1>3, <2>2, Shapes DEF Durable
<1>5. cur = None
  BY <1>1 DEF PhaseInv, Saving
<1>6. TypeOK'
  BY <1>1, <1>2, <1>5 DEF TypeOK, High
<1>7. Meaning' /\ ~PendingAhead'
  BY <1>1, <1>2, <1>3, <1>4, MeaningKept DEF PendingAhead
<1>8. CheckpointNamed' /\ TornAtEnd' /\ TornIsPending'
  BY <1>2, <1>3 DEF CheckpointNamed, TornAtEnd, TornIsPending, FilesInv
<1>9. PhaseInv' /\ CheckpointInv' /\ CurInv'
  BY <1>1, <1>2, <1>3
     DEF PhaseInv, CheckpointInv, CurInv, Committing, Saving, Phases, Loading, Restoring
<1>10. MemInv'
  BY <1>1, <1>2, <1>4, <1>7 DEF MemInv, High, Committing, Settled, Loading, Restoring
<1> QED BY <1>4, <1>6, <1>7, <1>8, <1>9, <1>10 DEF FilesInv

LEMMA RestoreLedgerKeeps == ASSUME IInv, RestoreLedger PROVE IInv'
<1> USE DEF IInv
<1>1. /\ phase = "restoreLedger" /\ phase' = "restoreJournal"
      /\ disk' = [disk EXCEPT !["ledger"] = disk.backup]
      /\ UNCHANGED <<mem, booting, cur, issued, acked>>
  BY DEF RestoreLedger, Write
<1>2. /\ disk.backup = disk.manifest /\ disk.ledger # disk.manifest /\ disk.backup \in Ledger
      /\ mem = disk.manifest /\ Complete(disk.journal) /\ booting
  BY <1>1, Shapes DEF CheckpointInv, MemInv, FilesInv, TornIsPending, Restoring, PhaseInv, Loading,
                      TypeOK
<1>3. /\ disk'.ledger = disk.manifest /\ disk'.backup = disk.backup
      /\ disk'.manifest = disk.manifest /\ disk'.journal = disk.journal
      /\ disk'.journalBackup = disk.journalBackup /\ disk'.pending = disk.pending
      /\ disk'.files = disk.files /\ disk'.coordinator = disk.coordinator
  BY <1>1, <1>2, Wrote, Fields
<1>4. TypeOK'
  BY <1>1, <1>2 DEF TypeOK
<1>5. Source' = Source /\ Durable' = Durable
  <2>1. Source' = Source
    BY <1>1, <1>2, <1>3 DEF Source
  <2> QED BY <1>3, <2>1 DEF Durable
<1>6. Meaning'
  BY <1>1, <1>3, <1>5, MeaningKept
<1>7. CheckpointNamed' /\ TornAtEnd' /\ TornIsPending'
  BY <1>2, <1>3 DEF CheckpointNamed, TornAtEnd, TornIsPending, FilesInv
<1>8. PhaseInv' /\ CheckpointInv' /\ CurInv'
  BY <1>1, <1>2, <1>3
     DEF PhaseInv, CheckpointInv, CurInv, Committing, Saving, Phases, Loading, Restoring
<1>9. MemInv'
  BY <1>1, <1>2, <1>3 DEF MemInv, High, Committing, Settled, Loading, Restoring
<1> QED BY <1>4, <1>6, <1>7, <1>8, <1>9 DEF FilesInv

LEMMA RestoreJournalKeeps == ASSUME IInv, RestoreJournal PROVE IInv'
<1> USE DEF IInv
<1>1. /\ phase = "restoreJournal" /\ phase' = "replay"
      /\ disk' = [disk EXCEPT !["journal"] = disk.journalBackup]
      /\ UNCHANGED <<mem, booting, cur, issued, acked>>
  BY DEF RestoreJournal, Write
<1>2. /\ disk.backup = disk.manifest /\ disk.ledger = disk.manifest
      /\ mem = disk.manifest /\ Complete(disk.journalBackup) /\ booting
      /\ disk.journalBackup \in Seq(Transaction)
  BY <1>1, SourceShape DEF CheckpointInv, MemInv, FilesInv, TornAtEnd, Restoring, PhaseInv, Loading,
                           TypeOK
<1>3. /\ disk'.ledger = disk.manifest /\ disk'.backup = disk.backup
      /\ disk'.manifest = disk.manifest /\ disk'.journal = disk.journalBackup
      /\ disk'.journalBackup = disk.journalBackup /\ disk'.pending = disk.pending
      /\ disk'.files = disk.files /\ disk'.coordinator = disk.coordinator
  BY <1>1, <1>2, Wrote, Fields
<1>4. TypeOK'
  <2>1. disk.journalBackup \in Seq(Frame)
    BY Shapes
  <2> QED BY <1>1, <2>1 DEF TypeOK, Frame
<1>5. Source' = Source /\ Durable' = Durable
  <2>1. Source' = Source
    BY <1>1, <1>2, <1>3 DEF Source
  <2> QED BY <1>3, <2>1 DEF Durable
<1>6. Meaning' /\ Complete(disk.journal)'
  BY <1>1, <1>2, <1>3, <1>5, MeaningKept
<1>7. TornAtEnd'
  <2>1. \A i \in DOMAIN disk.journalBackup : disk.journalBackup[i] # Torn
    BY <1>2, TornIsApart
  <2> QED BY <1>2, <1>3, <2>1 DEF TornAtEnd
<1>8. CheckpointNamed' /\ TornIsPending'
  BY <1>2, <1>3, <1>6 DEF CheckpointNamed, TornIsPending, FilesInv
<1>9. PhaseInv' /\ CheckpointInv' /\ CurInv'
  BY <1>1, <1>2, <1>3, <1>6
     DEF PhaseInv, CheckpointInv, CurInv, Committing, Saving, Phases, Loading, Restoring
<1>10. MemInv'
  BY <1>1, <1>2, <1>3 DEF MemInv, High, Committing, Settled, Loading, Restoring
<1> QED BY <1>4, <1>6, <1>7, <1>8, <1>9, <1>10 DEF FilesInv

-----------------------------------------------------------------------------
(* The journal. *)

\* The beginning of a frame leaves the frames as they were.
LEMMA TornAppended ==
  ASSUME NEW j \in Seq(Transaction)
  PROVE  /\ Append(j, Torn) \in Seq(Frame) /\ ~Complete(Append(j, Torn))
         /\ Frames(Append(j, Torn)) = j
         /\ \A i \in DOMAIN Append(j, Torn) : i < Len(Append(j, Torn)) => Append(j, Torn)[i] # Torn
<1> DEFINE torn == Append(j, Torn)
<1>1. /\ torn \in Seq(Frame) /\ Len(torn) = Len(j) + 1 /\ Len(j) \in Nat
      /\ torn[Len(j) + 1] = Torn /\ \A i \in 1..Len(j) : torn[i] = j[i] /\ j[i] \in Transaction
      /\ DOMAIN torn = 1..(Len(j) + 1)
  BY DEF Frame
<1> HIDE DEF torn
<1>2. ~Complete(torn)
  <2>1. Len(j) + 1 \in DOMAIN torn
    BY <1>1
  <2> QED BY <1>1, <2>1 DEF Complete, ToSet
<1>3. \A i \in DOMAIN torn : i < Len(torn) => torn[i] # Torn
  BY <1>1, TornIsApart
<1>4. Frames(torn) = SubSeq(torn, 1, Len(torn) - 1)
  BY <1>1, <1>2, <1>3, TornJournal
<1>5. SubSeq(torn, 1, Len(torn) - 1) = j
  <2>1. Len(torn) - 1 = Len(j)
    BY <1>1
  <2>2. SubSeq(Append(j, Torn), 1, Len(j)) = j
    OBVIOUS
  <2> QED BY <2>1, <2>2 DEF torn
<1> QED BY <1>1, <1>2, <1>3, <1>4, <1>5 DEF torn

LEMMA AppendPartKeeps == ASSUME IInv, AppendPart PROVE IInv'
<1> USE DEF IInv
<1>1. /\ phase = "append" /\ phase' = "appending"
      /\ disk' = [disk EXCEPT !["journal"] = Append(disk.journal, Torn)]
      /\ UNCHANGED <<mem, booting, cur, issued, acked>>
  BY DEF AppendPart, Write
<1>2. /\ disk.ledger = disk.manifest /\ Complete(disk.journal) /\ disk.pending = cur /\ cur # None
      /\ Ahead(cur)
  BY <1>1 DEF CheckpointInv, CurInv, Committing
<1>3. disk.journal \in Seq(Transaction) /\ Frames(disk.journal) = disk.journal
  BY <1>2, WholeJournal, Shapes
<1>4. /\ disk'.ledger = disk.ledger /\ disk'.backup = disk.backup
      /\ disk'.manifest = disk.manifest /\ disk'.journal = Append(disk.journal, Torn)
      /\ disk'.journalBackup = disk.journalBackup /\ disk'.pending = disk.pending
      /\ disk'.files = disk.files /\ disk'.coordinator = disk.coordinator
  BY <1>1, Wrote, Fields
<1>5. /\ disk'.journal \in Seq(Frame) /\ ~Complete(disk.journal)' /\ Frames(disk'.journal) = disk.journal
      /\ \A i \in DOMAIN disk'.journal : i < Len(disk'.journal) => disk'.journal[i] # Torn
  BY <1>3, <1>4, TornAppended
<1>6. TypeOK'
  BY <1>1, <1>4, <1>5 DEF TypeOK, Frame
<1>7. Frames(Source)' = Frames(Source) /\ Durable' = Durable
  <2>1. Source = disk.journal /\ Source' = disk'.journal
    BY <1>1, <1>2, <1>4 DEF Source
  <2>2. Frames(Source)' = Frames(Source)
    BY <1>3, <1>5, <2>1
  <2> QED BY <1>4, <2>2 DEF Durable
<1>8. /\ Meaning' /\ Latest' = Latest /\ PendingAhead' = PendingAhead
      /\ FilesWritten' = FilesWritten
      /\ \A t : Ahead(t)' <=> Ahead(t)
  BY <1>1, <1>4, <1>7, MeaningKept
<1>9. PendingAhead
  BY <1>2 DEF PendingAhead, Ahead
<1>10. CheckpointNamed' /\ TornAtEnd' /\ TornIsPending'
  BY <1>1, <1>2, <1>4, <1>5, <1>8, <1>9 DEF CheckpointNamed, TornAtEnd, TornIsPending, FilesInv
<1>11. PhaseInv' /\ CheckpointInv'
  BY <1>1, <1>2, <1>4, <1>5
     DEF PhaseInv, CheckpointInv, Committing, Saving, Phases, Loading, Restoring
<1>12. CurInv'
  BY <1>1, <1>4, <1>7, <1>8 DEF CurInv, Committing
<1>13. MemInv'
  BY <1>1, <1>7 DEF MemInv, High, Committing, Settled, Loading, Restoring
<1> QED BY <1>6, <1>8, <1>10, <1>11, <1>12, <1>13 DEF FilesInv

\* A journal to which a whole frame is added.
LEMMA FrameAppended ==
  ASSUME NEW s \in Seq(Transaction), NEW u \in Seq(Transaction), NEW t \in Transaction,
         NEW j, j = Append(u, t)
  PROVE  /\ j \in Seq(Transaction) /\ j \in Seq(Frame) /\ Complete(j) /\ Frames(j) = j
         /\ j # <<>> /\ \A i \in DOMAIN j : j[i] # Torn
         /\ s \o j = Append(s \o u, t)
<1>1. j \in Seq(Transaction) /\ j # <<>>
  OBVIOUS
<1>2. \A i \in DOMAIN j : j[i] # Torn
  BY <1>1, TornIsApart
<1>3. s \o j = Append(s \o u, t)
  OBVIOUS
<1> QED BY <1>1, <1>2, <1>3, TransactionsAreWhole

\* The pending transaction becomes the last durable one.
LEMMA DurableGrows ==
  ASSUME IInv, disk.pending # None, Ahead(disk.pending), Durable' = Append(Durable, disk.pending),
         Frames(Source)' # <<>>, issued' = issued, acked' = acked,
         disk'.pending = disk.pending, disk'.coordinator = disk.coordinator,
         disk'.files = disk.files
  PROVE  /\ Meaning' /\ Latest' = disk.pending /\ ~PendingAhead' /\ Durable' # <<>>
         /\ FilesWritten' = FilesWritten
<1> USE DEF IInv, FilesInv, Meaning
<1> DEFINE t == disk.pending
           n == Len(Durable)
<1>1. t \in Transaction /\ t.id = n + 1 /\ t.serial <= issued /\ t.linked \in BOOLEAN
  BY Shapes DEF Ahead
<1>2. Durable \in Seq(Transaction) /\ n \in Nat /\ DOMAIN Durable = 1..n
  BY DurableShape
<1>3. /\ Durable' \in Seq(Transaction) /\ Len(Durable') = n + 1 /\ DOMAIN Durable' = 1..(n + 1)
      /\ \A i \in 1..n : Durable'[i] = Durable[i]
      /\ Durable'[n + 1] = t
  BY <1>1, <1>2
<1>4. \A i \in DOMAIN Durable : Durable[i].serial # t.serial
  BY DEF Ahead
<1>5. disk'.pending = t
  OBVIOUS
<1> HIDE DEF t, n
<1>6. Latest' = t
  BY <1>3 DEF Latest
<1>7. InOrder'
  BY <1>1, <1>2, <1>3 DEF InOrder
<1>8. Distinct'
  <2> SUFFICES ASSUME NEW i \in 1..(n + 1), NEW k \in 1..(n + 1),
                      Durable'[i].serial = Durable'[k].serial
               PROVE  i = k
    BY <1>3 DEF Distinct
  <2>1. CASE i \in 1..n /\ k \in 1..n
    BY <1>2, <1>3, <2>1 DEF Distinct
  <2>2. CASE i \in 1..n /\ k = n + 1
    BY <1>2, <1>3, <1>4, <2>2
  <2>3. CASE i = n + 1 /\ k \in 1..n
    BY <1>2, <1>3, <1>4, <2>3
  <2> QED BY <1>2, <2>1, <2>2, <2>3
<1>9. AckedIsDurable'
  <2> SUFFICES ASSUME NEW s \in acked PROVE \E i \in 1..(n + 1) : Durable'[i].serial = s
    BY <1>3 DEF AckedIsDurable
  <2>1. PICK i \in 1..n : Durable[i].serial = s
    BY <1>2 DEF AckedIsDurable
  <2> QED BY <1>2, <1>3, <2>1
<1>10. ~PendingAhead' /\ FilesWritten' = FilesWritten /\ PendingAhead
  BY <1>1, <1>2, <1>3, <1>5 DEF PendingAhead, FilesWritten, t, n
<1>11. PendingFits'
  BY <1>5, <1>6 DEF PendingFits
<1>12. Durable' # <<>>
  BY <1>2, <1>3
<1>13. CoordinatorFits'
  <2> SUFFICES ASSUME disk.coordinator # None PROVE CoordinatorFits'
    BY DEF CoordinatorFits
  <2>1. disk.coordinator.txn = t /\ FilesWritten
    BY <1>10 DEF CoordinatorFits, t
  <2> QED BY <1>6, <1>10, <1>12, <2>1 DEF CoordinatorFits
<1>14. NoCoordinatorFits'
  <2> SUFFICES ASSUME disk.coordinator = None PROVE Match(disk.files, Durable')
    BY <1>10 DEF NoCoordinatorFits
  <2>1. Match(disk.files, Durable) /\ ~t.linked
    BY <1>10 DEF NoCoordinatorFits, t
  <2> QED BY <1>1, <1>2, <2>1, MatchesLonger DEF t
<1> QED BY <1>6, <1>7, <1>8, <1>9, <1>10, <1>11, <1>12, <1>13, <1>14 DEF t

LEMMA AppendRestKeeps == ASSUME IInv, AppendRest PROVE IInv'
<1> USE DEF IInv
<1> DEFINE j == Append(Front(disk.journal), cur)
<1>1. /\ phase = "appending" /\ phase' = "apply" /\ disk' = [disk EXCEPT !["journal"] = j]
      /\ UNCHANGED <<mem, booting, cur, issued, acked>>
  BY DEF AppendRest, Write
<1>2. /\ disk.ledger = disk.manifest /\ disk.pending = cur /\ cur # None /\ cur \in Transaction
      /\ Ahead(cur) /\ ~Complete(disk.journal) /\ mem.applied = Durable
  BY <1>1, Shapes DEF CheckpointInv, CurInv, MemInv, Committing, Loading, Restoring
<1>3. /\ Front(disk.journal) = Frames(disk.journal)
      /\ Frames(disk.journal) \in Seq(Transaction)
  BY <1>2, TornJournal, Shapes DEF FilesInv, TornAtEnd, Front
<1>4. /\ j \in Seq(Transaction) /\ Frames(j) = j /\ Complete(j) /\ j \in Seq(Frame)
      /\ j # <<>> /\ \A i \in DOMAIN j : j[i] # Torn
      /\ disk.manifest.applied \o j = Append(disk.manifest.applied \o Frames(disk.journal), cur)
  <2>1. disk.manifest.applied \in Seq(Transaction)
    BY Shapes
  <2> DEFINE s == disk.manifest.applied
             u == Frames(disk.journal)
  <2>2. /\ s \in Seq(Transaction) /\ u \in Seq(Transaction) /\ cur \in Transaction
        /\ j = Append(u, cur)
    BY <1>2, <1>3, <2>1
  <2> HIDE DEF j, s, u
  <2>3. j \in Seq(Transaction) /\ j \in Seq(Frame) /\ Complete(j) /\ Frames(j) = j
    BY <2>2, FrameAppended
  <2>4. j # <<>> /\ \A i \in DOMAIN j : j[i] # Torn
    BY <2>2, FrameAppended
  <2>5. s \o j = Append(s \o u, cur)
    BY <2>2, FrameAppended
  <2> QED BY <2>3, <2>4, <2>5 DEF s, u
<1> HIDE DEF j
<1>5. /\ disk'.ledger = disk.ledger /\ disk'.backup = disk.backup
      /\ disk'.manifest = disk.manifest /\ disk'.journal = j
      /\ disk'.journalBackup = disk.journalBackup /\ disk'.pending = disk.pending
      /\ disk'.files = disk.files /\ disk'.coordinator = disk.coordinator
  BY <1>1, Wrote, Fields
<1>6. TypeOK'
  BY <1>1, <1>4, <1>5 DEF TypeOK, Frame
<1>7. Frames(Source)' = j /\ Durable' = Append(Durable, cur)
  <2>1. Source = disk.journal /\ Source' = j
    BY <1>1, <1>2, <1>5 DEF Source
  <2>2. Frames(Source)' = j
    BY <1>4, <2>1
  <2> QED BY <1>4, <1>5, <2>1, <2>2 DEF Durable
<1>8. /\ Meaning' /\ Latest' = cur /\ ~PendingAhead' /\ Durable' # <<>>
      /\ FilesWritten' = FilesWritten
  BY <1>1, <1>2, <1>4, <1>5, <1>7, DurableGrows
<1>9. CheckpointNamed' /\ TornAtEnd' /\ TornIsPending' /\ Complete(disk.journal)'
  BY <1>2, <1>4, <1>5 DEF CheckpointNamed, TornAtEnd, TornIsPending, FilesInv
<1>10. PhaseInv' /\ CheckpointInv'
  BY <1>1, <1>2, <1>5, <1>9
     DEF PhaseInv, CheckpointInv, Committing, Saving, Phases, Loading, Restoring
<1>11. CurInv'
  BY <1>1, <1>2, <1>5, <1>8 DEF CurInv, Committing
<1>12. MemInv'
  BY <1>1, <1>2, <1>7 DEF MemInv, High, Committing, Settled, Loading, Restoring
<1> QED BY <1>6, <1>8, <1>9, <1>10, <1>11, <1>12 DEF FilesInv

\* Load starts from a prefix of the durable transactions.
LEMMA CheckpointIsPrefix ==
  ASSUME IInv
  PROVE  /\ disk.manifest.applied = SubSeq(Durable, 1, Len(disk.manifest.applied))
         /\ Len(disk.manifest.applied) \in Len(disk.manifest.applied)..Len(Durable)
<1>1. disk.manifest.applied \in Seq(Transaction) /\ Frames(Source) \in Seq(Transaction)
  BY Shapes, SourceShape DEF IInv, FilesInv
<1>2. ASSUME NEW s \in Seq(Transaction), NEW u \in Seq(Transaction)
      PROVE  s = SubSeq(s \o u, 1, Len(s)) /\ Len(s) \in Len(s)..Len(s \o u)
  OBVIOUS
<1> QED BY <1>1, <1>2 DEF Durable

LEMMA DropReplayedPendingKeeps == ASSUME IInv, DropReplayedPending PROVE IInv'
<1> USE DEF IInv
<1>1. /\ phase = "unpendReplay" /\ phase' = "rebuild" /\ disk' = [disk EXCEPT !["pending"] = None]
      /\ UNCHANGED <<mem, booting, cur, issued, acked>> /\ booting
  BY DEF DropReplayedPending, Write, PhaseInv, Loading, TypeOK
<1>2. /\ disk.ledger = disk.manifest /\ Complete(disk.journal) /\ ~PendingAhead
      /\ mem = disk.manifest
  BY <1>1 DEF CheckpointInv, MemInv
<1>3. /\ disk'.ledger = disk.ledger /\ disk'.backup = disk.backup
      /\ disk'.manifest = disk.manifest /\ disk'.journal = disk.journal
      /\ disk'.journalBackup = disk.journalBackup /\ disk'.pending = None
      /\ disk'.files = disk.files /\ disk'.coordinator = disk.coordinator
  BY <1>1, Wrote, Fields
<1>4. TypeOK'
  BY <1>1 DEF TypeOK
<1>5. /\ Source' = Source /\ Durable' = Durable /\ Latest' = Latest /\ TornAtEnd'
      /\ InOrder' /\ Distinct' /\ AckedIsDurable'
      /\ \A t : Ahead(t)' <=> Ahead(t)
  BY <1>1, <1>3, JournalsAlone
<1>6. ~PendingAhead' /\ FilesWritten' = FilesWritten
  BY <1>3 DEF PendingAhead, FilesWritten
<1>7. CheckpointNamed' /\ TornIsPending' /\ PendingFits'
  BY <1>2, <1>3 DEF CheckpointNamed, TornIsPending, PendingFits, FilesInv
<1>8. CoordinatorFits' /\ NoCoordinatorFits'
  BY <1>3, <1>5, <1>6 DEF FilesInv, Meaning, CoordinatorFits, NoCoordinatorFits
<1>9. PhaseInv' /\ CheckpointInv' /\ CurInv'
  BY <1>1, <1>2, <1>3, <1>6
     DEF PhaseInv, CheckpointInv, CurInv, Committing, Saving, Phases, Loading, Restoring
<1>10. mem.applied = SubSeq(Durable, 1, Len(disk.manifest.applied))
       /\ Len(disk.manifest.applied) \in Len(disk.manifest.applied)..Len(Durable)
  BY <1>2, CheckpointIsPrefix
<1>11. MemInv'
  BY <1>1, <1>3, <1>5, <1>10 DEF MemInv, Settled, Loading, Restoring
<1> QED BY <1>4, <1>5, <1>7, <1>8, <1>9, <1>11 DEF FilesInv, Meaning

\* What load finds in the pending record: nothing, a frame it has, or the next one.
LEMMA PendingAtReplay ==
  ASSUME IInv, phase = "replay", disk.pending # None
  PROVE  /\ ~Missing(disk.pending) => Complete(disk.journal) /\ ~PendingAhead
         /\ Missing(disk.pending) => Ahead(disk.pending) /\ Continues(disk.pending)
<1> USE DEF IInv, FilesInv, Meaning
<1> DEFINE t == disk.pending
           u == Frames(disk.journal)
           base == Len(disk.manifest.applied)
<1>1. /\ disk.ledger = disk.manifest /\ mem = disk.manifest /\ Source = disk.journal
      /\ High = base
  BY DEF CheckpointInv, MemInv, Source, High
<1>2. /\ u \in Seq(Transaction) /\ Len(u) \in Nat /\ base \in Nat /\ Len(Durable) = base + Len(u)
      /\ DOMAIN Durable = 1..Len(Durable)
      /\ \A i \in 1..Len(u) : Durable[base + i] = u[i]
      /\ (Durable = <<>> \/ Durable[Len(Durable)].id = Len(Durable))
  <2>1. u \in Seq(Transaction)
    BY SourceShape
  <2>2. Durable \in Seq(Transaction)
    BY DurableShape
  <2>3. Durable # <<>> => Len(Durable) \in DOMAIN Durable
    BY <2>2
  <2>4. Frames(Source) = u /\ Len(u) \in Nat
    BY <1>1, <2>1
  <2>5. DOMAIN Durable = 1..Len(Durable) /\ base \in Nat
    BY DurableShape
  <2>6. /\ Len(Durable) = base + Len(u)
        /\ \A i \in 1..Len(u) : Durable[base + i] = u[i]
    BY <2>4, DurableShape
  <2>7. Durable = <<>> \/ Durable[Len(Durable)].id = Len(Durable)
    BY <2>3 DEF InOrder
  <2> QED BY <2>1, <2>4, <2>5, <2>6, <2>7
<1>3. Ahead(t) \/ (u # <<>> /\ t = Latest)
  BY <1>1 DEF PendingFits
<1>4. Complete(disk.journal) => u = disk.journal
  BY WholeJournal, Shapes
<1>5. t \in Transaction /\ t.id \in Nat
  BY Shapes
<1> HIDE DEF t, u, base
<1>6. ASSUME u # <<>>
      PROVE  /\ Len(u) \in 1..Len(u) /\ base + Len(u) = Len(Durable) /\ Durable # <<>>
             /\ u[Len(u)] = Latest /\ Latest.id = Len(Durable)
  <2>1. Len(u) # 0
    BY <1>2, <1>6
  <2>2. Len(u) \in 1..Len(u) /\ Len(Durable) # 0
    BY <1>2, <2>1
  <2>3. Durable # <<>>
    BY <2>2
  <2> QED BY <1>2, <2>2, <2>3 DEF Latest
<1>7. ASSUME ~Missing(t) PROVE Complete(disk.journal) /\ ~PendingAhead
  <2>1. Complete(disk.journal) /\ t.id \in {frame.id : frame \in ToSet(disk.journal)}
    BY <1>7 DEF Missing
  <2>2. PICK i \in 1..Len(u) : t.id = u[i].id
    <3>1. u = disk.journal
      BY <1>4, <2>1
    <3> QED BY <1>2, <2>1, <3>1 DEF ToSet
  <2>3. base + i \in DOMAIN Durable /\ base + i <= Len(Durable)
    BY <1>2
  <2>4. t.id = base + i
    BY <1>2, <2>2, <2>3 DEF InOrder
  <2>5. t.id # Len(Durable) + 1
    BY <1>2, <2>3, <2>4
  <2> QED BY <2>1, <2>5 DEF PendingAhead, t
<1>8. ASSUME Missing(t) PROVE Ahead(t) /\ Continues(t)
  <2>1. Ahead(t)
    <3> SUFFICES ASSUME u # <<>>, t = Latest PROVE FALSE
      BY <1>3
    <3>1. t.id = Len(Durable) /\ u[Len(u)] = t /\ Len(u) \in 1..Len(u)
      BY <1>6
    <3>2. CASE Complete(disk.journal)
      <4>1. u = disk.journal
        BY <1>4, <3>2
      <4>2. t \in ToSet(disk.journal)
        BY <1>2, <3>1, <4>1 DEF ToSet
      <4> QED BY <1>8, <3>2, <4>2 DEF Missing
    <3>3. CASE ~Complete(disk.journal)
      <4>1. t.id = Len(Durable) + 1
        BY <3>3 DEF TornIsPending, PendingAhead, t
      <4> QED BY <1>2, <3>1, <4>1
    <3> QED BY <3>2, <3>3
  <2>2. CASE u = <<>>
    <3>1. Len(u) = 0
      BY <2>2
    <3> QED BY <1>1, <1>2, <2>1, <2>2, <3>1 DEF Continues, Ahead, u
  <2>3. CASE u # <<>>
    <3>1. Last(u) = u[Len(u)]
      BY DEF Last
    <3> QED BY <1>6, <2>1, <2>3, <3>1 DEF Continues, Ahead, u
  <2> QED BY <2>1, <2>2, <2>3
<1> QED BY <1>7, <1>8 DEF t

LEMMA ReplayKeeps == ASSUME IInv, Replay PROVE IInv'
<1> USE DEF IInv
<1>1. phase = "replay" /\ UNCHANGED <<mem, booting, cur, issued, acked>> /\ booting
  BY DEF Replay, PhaseInv, Loading, TypeOK
<1>2. disk.ledger = disk.manifest /\ mem = disk.manifest /\ Source = disk.journal
  BY <1>1 DEF CheckpointInv, MemInv, Source
<1>3. CASE /\ disk' = disk /\ Complete(disk.journal)
           /\ \/ phase' = "rebuild" /\ disk.pending = None
              \/ phase' = "unpendReplay" /\ disk.pending # None /\ ~PendingAhead
  <2>1. TypeOK'
    BY <1>1, <1>3 DEF TypeOK
  <2>2. FilesInv' /\ Durable' = Durable /\ PendingAhead' = PendingAhead
    BY <1>1, <1>3, FilesAlone
  <2>3. PhaseInv' /\ CheckpointInv' /\ CurInv'
    BY <1>1, <1>2, <1>3, <2>2
       DEF PhaseInv, CheckpointInv, CurInv, Committing, Saving, Phases, Loading, Restoring
  <2>4. MemInv'
    BY <1>1, <1>2, <1>3, <2>2, CheckpointIsPrefix DEF MemInv, Settled, Loading, Restoring
  <2> QED BY <2>1, <2>2, <2>3, <2>4
<1>4. ASSUME disk.pending # None, Ahead(disk.pending), phase' = "unpendReplay",
             disk' = [disk EXCEPT !.journal = Append(Frames(disk.journal), disk.pending)]
      PROVE  IInv'
  <2> DEFINE j == Append(Frames(disk.journal), disk.pending)
  <2>1. disk.pending \in Transaction /\ disk.manifest.applied \in Seq(Transaction)
    BY <1>4, Shapes
  <2>2. Frames(disk.journal) \in Seq(Transaction)
    BY SourceShape DEF FilesInv
  <2>3. /\ j \in Seq(Transaction) /\ Frames(j) = j /\ Complete(j) /\ j \in Seq(Frame)
        /\ j # <<>> /\ \A i \in DOMAIN j : j[i] # Torn
        /\ disk.manifest.applied \o j
             = Append(disk.manifest.applied \o Frames(disk.journal), disk.pending)
    <3> DEFINE s == disk.manifest.applied
               u == Frames(disk.journal)
               t == disk.pending
    <3>1. /\ s \in Seq(Transaction) /\ u \in Seq(Transaction) /\ t \in Transaction
          /\ j = Append(u, t)
      BY <2>1, <2>2
    <3> HIDE DEF j, s, u, t
    <3>2. j \in Seq(Transaction) /\ j \in Seq(Frame) /\ Complete(j) /\ Frames(j) = j
      BY <3>1, FrameAppended
    <3>3. j # <<>> /\ \A i \in DOMAIN j : j[i] # Torn
      BY <3>1, FrameAppended
    <3>4. s \o j = Append(s \o u, t)
      BY <3>1, FrameAppended
    <3> QED BY <3>2, <3>3, <3>4 DEF s, u, t
  <2> HIDE DEF j
  <2>4. /\ disk'.ledger = disk.ledger /\ disk'.backup = disk.backup
        /\ disk'.manifest = disk.manifest /\ disk'.journal = j
        /\ disk'.journalBackup = disk.journalBackup /\ disk'.pending = disk.pending
        /\ disk'.files = disk.files /\ disk'.coordinator = disk.coordinator
    BY <1>4, Fields DEF TypeOK, j
  <2>5. TypeOK'
    BY <1>1, <1>4, <2>3, <2>4 DEF TypeOK, Frame, j
  <2>6. Frames(Source)' = j /\ Durable' = Append(Durable, disk.pending)
    <3>1. Source' = j
      BY <1>2, <1>4, <2>4 DEF Source
    <3>2. Frames(Source)' = j
      BY <2>3, <3>1
    <3> QED BY <1>2, <2>3, <2>4, <3>1, <3>2 DEF Durable
  <2>7. Meaning' /\ ~PendingAhead'
    BY <1>1, <1>4, <2>3, <2>4, <2>6, DurableGrows
  <2>8. CheckpointNamed' /\ TornAtEnd' /\ TornIsPending' /\ Complete(disk.journal)'
    BY <1>2, <2>3, <2>4 DEF CheckpointNamed, TornAtEnd, TornIsPending, FilesInv
  <2>9. PhaseInv' /\ CheckpointInv' /\ CurInv'
    BY <1>1, <1>2, <1>4, <2>4, <2>7, <2>8
       DEF PhaseInv, CheckpointInv, CurInv, Committing, Saving, Phases, Loading, Restoring
  <2>10. MemInv'
    BY <1>1, <1>2, <1>4, <2>4 DEF MemInv, Settled, Loading, Restoring
  <2> QED BY <2>5, <2>7, <2>8, <2>9, <2>10 DEF FilesInv
<1>5. CASE disk.pending = None
  <2>1. Complete(disk.journal)
    BY <1>5 DEF FilesInv, TornIsPending, PendingAhead
  <2> QED BY <1>3, <1>5, <2>1 DEF Replay
<1>6. CASE disk.pending # None /\ ~Missing(disk.pending)
  BY <1>1, <1>3, <1>6, PendingAtReplay DEF Replay
<1>7. CASE disk.pending # None /\ Missing(disk.pending)
  <2>1. Ahead(disk.pending) /\ Continues(disk.pending)
    BY <1>1, <1>7, PendingAtReplay
  <2> QED BY <1>4, <1>7, <2>1 DEF Replay
<1> QED BY <1>5, <1>6, <1>7

-----------------------------------------------------------------------------
(* The invariant. *)

LEMMA InitSound == ASSUME Init PROVE IInv
<1>1. /\ disk = [ledger |-> Genesis, backup |-> None, journal |-> <<>>, journalBackup |-> <<>>,
                 manifest |-> Genesis, pending |-> None, coordinator |-> None,
                 files |-> [f \in Files |-> 0]]
      /\ mem = Genesis /\ phase = "running" /\ booting = FALSE
      /\ cur = None /\ issued = 0 /\ acked = {}
  BY DEF Init
<1>2. Genesis \in Ledger /\ Genesis.applied = <<>> /\ Genesis.next = 1
  BY LedgerAssumption DEF Genesis, Ledger
<1>3. <<>> \in Seq(Transaction \cup {Torn}) /\ <<>> \in Seq(Transaction)
  OBVIOUS
<1>4. [f \in Files |-> 0] \in Contents
  BY DEF Contents
<1>5. /\ disk.ledger = Genesis /\ disk.backup = None /\ disk.journal = <<>>
      /\ disk.journalBackup = <<>> /\ disk.manifest = Genesis /\ disk.pending = None
      /\ disk.coordinator = None /\ disk.files = [f \in Files |-> 0]
  BY <1>1
<1>6. TypeOK
  <2>1. disk \in Disks
    BY <1>1, <1>2, <1>3, <1>4 DEF Disks, Frame
  <2>2. issued \in 0..MaxTransactions /\ acked \subseteq 1..issued
    BY <1>1, LedgerAssumption
  <2>3. mem.next > High
    BY <1>1, <1>2 DEF High
  <2> QED BY <1>1, <1>2, <2>1, <2>2, <2>3 DEF TypeOK, Disks, Frame
<1>7. Complete(disk.journal) /\ Complete(disk.journalBackup)
  BY <1>5 DEF Complete, ToSet
<1>8. Durable = <<>>
  <2>1. Source = <<>>
    BY <1>5 DEF Source
  <2>2. Frames(<<>>) = <<>>
    BY <1>5, <1>7 DEF Frames
  <2> QED BY <1>2, <1>5, <2>1, <2>2 DEF Durable
<1>9. Match(disk.files, Durable)
  BY <1>5, <1>8 DEF Match
<1>10. FilesInv
  BY <1>1, <1>5, <1>7, <1>8, <1>9
     DEF FilesInv, CheckpointNamed, TornAtEnd, TornIsPending, Meaning, InOrder, Distinct,
         AckedIsDurable, PendingFits, CoordinatorFits, NoCoordinatorFits, PendingAhead
<1>11. PhaseInv /\ CheckpointInv /\ CurInv
  BY <1>1, <1>5, <1>7
     DEF PhaseInv, CheckpointInv, CurInv, Committing, Saving, Phases, Loading, Restoring
<1>12. MemInv
  BY <1>1, <1>2, <1>5, <1>8 DEF MemInv, High, Committing, Settled, Loading, Restoring, PendingAhead
<1> QED BY <1>6, <1>10, <1>11, <1>12 DEF IInv

LEMMA StutterSound == ASSUME IInv, UNCHANGED vars PROVE IInv'
<1> USE DEF IInv
<1>1. UNCHANGED <<disk, mem, phase, booting, cur, issued, acked>>
  BY DEF vars
<1>2. Source' = Source
  BY <1>1 DEF Source
<1>3. Durable' = Durable
  BY <1>1, <1>2 DEF Durable
<1>4. /\ Meaning' /\ Latest' = Latest /\ PendingAhead' = PendingAhead
      /\ FilesWritten' = FilesWritten
      /\ \A t : Ahead(t)' <=> Ahead(t)
  BY <1>1, <1>2, <1>3, MeaningKept
<1>5. FilesInv'
  BY <1>1, <1>4 DEF FilesInv, CheckpointNamed, TornAtEnd, TornIsPending
<1>6. TypeOK' /\ PhaseInv' /\ CheckpointInv'
  BY <1>1, <1>4 DEF TypeOK, High, PhaseInv, CheckpointInv
<1>7. CurInv' /\ MemInv'
  BY <1>1, <1>3, <1>4 DEF CurInv, MemInv, High
<1> QED BY <1>5, <1>6, <1>7

LEMMA StepSound ==
  ASSUME ~RestoreInterrupted, MayFail \subseteq CleanFailures, IInv, [Next]_vars
  PROVE  IInv'
<1>1. ASSUME Next PROVE IInv'
  <2>1. CASE (\E linked \in BOOLEAN : Begin(linked)) \/ Refuse \/ Announce \/ FilesReplaced
             \/ Admit \/ (\E f \in Files : ReplaceFile(f))
    BY <2>1, BeginKeeps, RefuseKeeps, AnnounceKeeps, FilesReplacedKeeps, AdmitKeeps, ReplaceFileKeeps
  <2>2. CASE WritePending \/ AppendPart \/ AppendRest \/ Apply \/ DropPending \/ DropCoordinator
    BY <2>2, WritePendingKeeps, AppendPartKeeps, AppendRestKeeps, ApplyKeeps, DropPendingKeeps,
       DropCoordinatorKeeps
  <2>3. CASE \/ Save \/ BackUpLedger \/ BackUpJournal \/ ReplaceLedger \/ EmptyJournal
             \/ ClearPending \/ UpdateManifest
    BY <2>3, SaveKeeps, BackUpLedgerKeeps, BackUpJournalKeeps, ReplaceLedgerKeeps,
       EmptyJournalKeeps, ClearPendingKeeps, UpdateManifestKeeps
  <2>4. CASE \/ Load \/ RestoreLedger \/ RestoreJournal \/ Replay \/ DropReplayedPending
             \/ Rebuild \/ Recover \/ Floors
    BY <2>4, LoadKeeps, RestoreLedgerKeeps, RestoreJournalKeeps, ReplayKeeps,
       DropReplayedPendingKeeps, RebuildKeeps, RecoverKeeps, FloorsKeeps
  <2>5. CASE Fail \/ Crash
    BY <2>5, FailKeeps, CrashKeeps
  <2> QED BY <1>1, <2>1, <2>2, <2>3, <2>4, <2>5 DEF Next
<1>2. ASSUME UNCHANGED vars PROVE IInv'
  BY <1>2, StutterSound
<1> QED BY <1>1, <1>2

\* Clean: the errors of commit and save are clean ones, and load's two restoring writes
\* come together.
Clean == ~RestoreInterrupted /\ MayFail \subseteq CleanFailures

LEMMA Inductive == Clean => (Spec => []IInv)
<1> SUFFICES ASSUME Clean PROVE Spec => []IInv
  OBVIOUS
<1>1. ASSUME IInv, [Next]_vars PROVE IInv'
  BY <1>1, StepSound DEF Clean
<1> QED BY <1>1, InitSound, PTL DEF Spec

\* arcane.rs:1160-1191 and the writes they follow: whatever files are linked and however
\* often the process dies, load never finds files it refuses, and every field keeps its type.
THEOREM LedgerAlwaysLoads ==
  ASSUME ~RestoreInterrupted, MayFail \subseteq CleanFailures PROVE Spec => []LedgerInv
<1>1. IInv => LedgerInv
  BY DEF IInv, LedgerInv, NeverRefused, PhaseInv, Phases, Committing, Saving, Loading, Restoring
<1> QED BY <1>1, Inductive, PTL DEF Clean

\* docs/magic-foundations-plan.md:62-65: whenever the game runs, the ledger in memory holds
\* every transaction whose commit returned Applied, exactly once, whatever commits,
\* checkpoints, refusals, clean errors and crashes came between.
THEOREM AcknowledgedNeverLost ==
  ASSUME ~RestoreInterrupted, MayFail \subseteq CleanFailures PROVE Spec => []AcknowledgedSurvives
<1>1. IInv => AcknowledgedSurvives
  <2> SUFFICES ASSUME IInv, phase = "running", NEW s \in acked
               PROVE  \E i \in DOMAIN mem.applied :
                        \A j \in DOMAIN mem.applied : mem.applied[j].serial = s <=> j = i
    BY DEF AcknowledgedSurvives
  <2>1. mem.applied = Durable
    BY MemoryIsDurable DEF Phases, Committing, Loading, Restoring
  <2>2. PICK i \in DOMAIN Durable : Durable[i].serial = s
    BY DEF IInv, FilesInv, Meaning, AckedIsDurable
  <2> QED BY <2>1, <2>2 DEF IInv, FilesInv, Meaning, Distinct
<1> QED BY <1>1, Inductive, PTL DEF Clean

\* docs/magic-foundations-plan.md:255-256: whenever the game runs and no coordinator record
\* is left, every domain file holds what the last linked transaction of the ledger wrote.
THEOREM FilesFollowTheLedger ==
  ASSUME ~RestoreInterrupted, MayFail \subseteq CleanFailures PROVE Spec => []LinkedTogether
<1>1. IInv => LinkedTogether
  <2> SUFFICES ASSUME IInv, phase = "running", disk.coordinator = None
               PROVE  Match(disk.files, mem.applied)
    BY DEF LinkedTogether
  <2>1. mem.applied = Durable
    BY MemoryIsDurable DEF Phases, Committing, Loading, Restoring
  <2> QED BY <2>1 DEF IInv, FilesInv, Meaning, NoCoordinatorFits
<1> QED BY <1>1, Inductive, PTL DEF Clean
=================================================================================
