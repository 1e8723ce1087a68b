----------------------------- MODULE WorkingsProofs -----------------------------
(***************************************************************************)
(* Proofs about Workings, for any number of workings, edits, faults and    *)
(* crashes, and any of the writes that may fail.                           *)
(***************************************************************************)
EXTENDS Workings, TLAPS

\* A workings file and a ledger tell one story: a reservation is held for the workings
\* that are not settled, spent for those that are, and a working that was paid for
\* leaves the file only after its effect has landed.
Agree(file, ledger) ==
  \A id \in Ids :
    /\ ledger[id] = "held" <=> file[id] # None /\ file[id].phase # "pending"
    /\ file[id] # None /\ file[id].phase = "pending" => ledger[id] = "spent"
    /\ ledger[id] = "spent" /\ file[id] = None => id \in landed

\* Memory, the files at rest, and the files a half-written commit will leave.
Up == call \notin {"down", "refused"}
MemoryAgrees == Up => Agree(works, disk.ledger)
FilesAgree   == disk.coordinator = None => Agree(disk.works, disk.ledger)
CommitAgrees ==
  disk.coordinator # None =>
    /\ Agree(disk.coordinator.works, disk.coordinator.ledger)
    /\ \A id \in Ids : disk.ledger[id] = "spent" => disk.coordinator.ledger[id] = "spent"
Books == MemoryAgrees /\ FilesAgree /\ CommitAgrees

\* An effect that has landed was paid for.
LandedIsPaid == \A id \in landed : disk.ledger[id] = "spent"
Effects == EffectIsPaid /\ LandedIsPaid

\* The settlement under way: its working is open until its commit and pending after it,
\* and what it has saved of the effect is on disk.
Settling ==
  /\ call \in {"guest", "tick", "retry", "enter", "boot"}
  /\ step \in {"complete", "cancel"} => Open(cur)
  /\ step \in {"apply", "save"} => Pending(cur)
  /\ step = "save" =>
       /\ todo \subseteq Aim(cur)
       /\ \A p \in Aim(cur) : places[p] = cur /\ (p \notin todo => disk.places[p] = cur)
       /\ todo = {} => cur \in landed
Course == step # None => Settling

\* While the ledger takes transactions, an open wand working is channelled by the guest,
\* or is the one being given back, or the handler under way will interrupt it; a guest
\* who was kicked excepted.
OpenWand(id)   == Wand(id) /\ Open(id)
Channelled(id) == Here /\ guest.channel = id
GivenBack(id)  == step = "cancel" /\ cur = id
NoneLoose == \A id \in Ids : OpenWand(id) => Channelled(id) \/ GivenBack(id)
Interrupting ==
  call \in {"leave", "die", "down", "refused"} \/ (call = "boot" /\ step = None)
Channels ==
  guest.at # "kicked" /\ ~stuck /\ disk.coordinator = None => Interrupting \/ NoneLoose

IInv == TypeOK /\ Books /\ Effects /\ Course /\ Channels

-----------------------------------------------------------------------------
(* What the records hold. *)

Disks   == [works : Works, ledger : Custody, places : [Places -> 0..Other],
            coordinator : {None} \cup [before : Works, works : Works, ledger : Custody]]
Budgets == [edits : 0..MaxEdits, faults : 0..MaxFaults, crashes : 0..MaxCrashes]

\* The fields of the files, and of every working in memory.
LEMMA Shapes ==
  ASSUME TypeOK
  PROVE  /\ disk \in Disks /\ disk.works \in Works /\ disk.ledger \in Custody
         /\ disk.places \in [Places -> 0..Other] /\ budget \in Budgets
         /\ disk.coordinator # None =>
              /\ disk.coordinator.before \in Works /\ disk.coordinator.works \in Works
              /\ disk.coordinator.ledger \in Custody
         /\ \A id \in Ids : Live(id) =>
              /\ works[id] \in [kind : Kinds, phase : Phases]
              /\ works[id].kind \in Kinds /\ works[id].phase \in Phases
              /\ Aim(id) \subseteq Places /\ Aim(id) # {}
<1>1. disk \in Disks /\ budget \in Budgets
  BY DEF TypeOK, Disks, Budgets
<1>2. /\ disk.works \in Works /\ disk.ledger \in Custody
      /\ disk.places \in [Places -> 0..Other]
      /\ disk.coordinator # None =>
           /\ disk.coordinator.before \in Works /\ disk.coordinator.works \in Works
           /\ disk.coordinator.ledger \in Custody
  BY <1>1 DEF Disks
<1>3. ASSUME NEW id \in Ids, Live(id)
      PROVE  /\ works[id] \in [kind : Kinds, phase : Phases]
             /\ works[id].kind \in Kinds /\ works[id].phase \in Phases
             /\ Aim(id) \subseteq Places /\ Aim(id) # {}
  <2>1. works[id] \in [kind : Kinds, phase : Phases]
    BY <1>3 DEF TypeOK, Works, Live
  <2>2. works[id].kind \in Kinds /\ works[id].phase \in Phases
    BY <2>1
  <2>3. Aim(id) \subseteq Places /\ Aim(id) # {}
    BY <2>2 DEF Aim, Targets, Kinds, Places
  <2> QED BY <2>1, <2>2, <2>3
<1> QED BY <1>1, <1>2, <1>3

\* Ids are numbers apart from None, 0 and Other.
LEMMA IdsAreApart ==
  /\ Ids \subseteq Nat /\ None \notin Ids /\ 0 \notin Ids /\ Other \notin Ids
  /\ 0 \in 0..Other /\ Other \in 0..Other /\ Ids \subseteq 0..Other
BY WorkingsAssumption DEF Ids, Other

\* What a start finds among a set of ids is one of them.
LEMMA FirstIsMember == ASSUME NEW S, NEW id \in First(S) PROVE id \in S
BY DEF First

\* Spending from a budget leaves a budget.
LEMMA BudgetsKept ==
  ASSUME TypeOK
  PROVE  /\ \A kind : Fault(kind) => budget' \in Budgets
         /\ Die => budget' \in Budgets
<1> USE Shapes, WorkingsAssumption DEF Budgets
<1>1. ASSUME NEW kind, Fault(kind) PROVE budget' \in Budgets
  BY <1>1 DEF Fault
<1>2. ASSUME Die PROVE budget' \in Budgets
  BY <1>2 DEF Die
<1> QED BY <1>1, <1>2

-----------------------------------------------------------------------------
(* The linked commit of the workings file and the ledger. *)

\* A commit that moves the custody of one working with its record.
Fits(w, id, to) ==
  /\ Up /\ w \in Works /\ id \in Ids /\ to \in {"held", "spent", "refunded"}
  /\ disk.ledger[id] # "spent"
  /\ Agree(w, [disk.ledger EXCEPT ![id] = to])

\* Done, it leaves memory and the files in agreement.
LEMMA CommittedKeeps ==
  ASSUME IInv, NEW w, NEW id, NEW to, Fits(w, id, to), Committed(w, id, to), landed' = landed
  PROVE  /\ disk' \in Disks /\ works' = w /\ places' = places /\ stuck' = stuck
         /\ budget' = budget /\ disk'.coordinator = None /\ disk'.places = disk.places
         /\ Books' /\ Effects'
<1> USE DEF IInv
<1> DEFINE l == [disk.ledger EXCEPT ![id] = to]
<1>1. disk.coordinator = None /\ disk' = [disk EXCEPT !.works = w, !.ledger = l]
      /\ works' = w /\ UNCHANGED <<stuck, budget, places>>
  BY DEF Committed, Able
<1>2. l \in Custody /\ \A other \in Ids : disk.ledger[other] = "spent" => l[other] = "spent"
  BY Shapes DEF Fits, Custody
<1>3. Agree(w, l) /\ w \in Works
  BY DEF Fits
<1> HIDE DEF l
<1>4. /\ disk' \in Disks /\ disk'.works = w /\ disk'.ledger = l
      /\ disk'.coordinator = None /\ disk'.places = disk.places
  BY <1>1, <1>2, <1>3, Shapes DEF Disks
<1>5. Books'
  BY <1>1, <1>3, <1>4 DEF Books, MemoryAgrees, FilesAgree, CommitAgrees, Agree
<1>6. Effects'
  BY <1>1, <1>2, <1>4 DEF Effects, EffectIsPaid, LandedIsPaid, TypeOK
<1> QED BY <1>1, <1>4, <1>5, <1>6

\* Half written, it leaves what a start can complete.
LEMMA HalfWrittenKeeps ==
  ASSUME IInv, NEW w, NEW id, NEW to, Fits(w, id, to), Able, HalfWritten(w, id, to),
         landed' = landed
  PROVE  /\ disk' \in Disks /\ disk'.coordinator # None
         /\ disk'.places = disk.places /\ disk'.ledger = disk.ledger
         /\ FilesAgree' /\ CommitAgrees' /\ LandedIsPaid'
<1> USE DEF IInv
<1> DEFINE l == [disk.ledger EXCEPT ![id] = to]
           c == [before |-> disk.works, works |-> w, ledger |-> l]
<1>1. PICK file \in {disk.works, w} : disk' = [disk EXCEPT !.works = file, !.coordinator = c]
  BY DEF HalfWritten
<1>2. l \in Custody /\ \A other \in Ids : disk.ledger[other] = "spent" => l[other] = "spent"
  BY Shapes DEF Fits, Custody
<1>3. Agree(w, l) /\ w \in Works
  BY DEF Fits
<1>4. c \in [before : Works, works : Works, ledger : Custody] /\ c.works = w /\ c.ledger = l
  BY <1>2, <1>3, Shapes
<1>5. c # None
  BY <1>4, WorkingsAssumption
<1> HIDE DEF c, l
<1>6. /\ disk' \in Disks /\ disk'.coordinator = c
      /\ disk'.places = disk.places /\ disk'.ledger = disk.ledger
  BY <1>1, <1>3, <1>4, Shapes DEF Disks
<1>7. FilesAgree' /\ CommitAgrees'
  BY <1>2, <1>3, <1>4, <1>5, <1>6 DEF FilesAgree, CommitAgrees, Agree
<1>8. LandedIsPaid'
  BY <1>6 DEF Effects, LandedIsPaid
<1> QED BY <1>5, <1>6, <1>7, <1>8

\* Failed, it leaves memory as it was, and a ledger that takes no more.
LEMMA CommitFailsKeeps ==
  ASSUME IInv, NEW w, NEW id, NEW to, Fits(w, id, to), CommitFails(w, id, to),
         landed' = landed
  PROVE  /\ disk' \in Disks /\ works' = works /\ places' = places /\ stuck' \in BOOLEAN
         /\ budget' \in Budgets /\ disk'.places = disk.places
         /\ stuck' \/ disk'.coordinator # None
         /\ Books' /\ Effects'
<1> USE DEF IInv
<1>1. works' = works /\ places' = places
  BY DEF CommitFails
<1>2. Up /\ Agree(works, disk.ledger)
  BY DEF Fits, Books, MemoryAgrees
<1>3. CASE UNCHANGED disk
  <2>1. stuck' \in BOOLEAN /\ budget' \in Budgets /\ (stuck' \/ disk'.coordinator # None)
    BY <1>3, BudgetsKept, Shapes DEF CommitFails, Able, TypeOK
  <2>2. Books'
    BY <1>1, <1>2, <1>3 DEF Books, MemoryAgrees, FilesAgree, CommitAgrees, Agree
  <2>3. Effects'
    BY <1>1, <1>3 DEF Effects, EffectIsPaid, LandedIsPaid
  <2> QED BY <1>1, <1>3, <2>1, <2>2, <2>3, Shapes
<1>4. CASE Able /\ HalfWritten(w, id, to) /\ Fault("commit") /\ stuck' = TRUE
  <2>1. budget' \in Budgets
    BY <1>4, BudgetsKept
  <2>2. /\ disk' \in Disks /\ disk'.coordinator # None
        /\ disk'.places = disk.places /\ disk'.ledger = disk.ledger
        /\ FilesAgree' /\ CommitAgrees' /\ LandedIsPaid'
    BY <1>4, HalfWrittenKeeps
  <2>3. MemoryAgrees'
    BY <1>1, <1>2, <2>2 DEF MemoryAgrees, Agree
  <2>4. EffectIsPaid'
    BY <1>1, <2>2 DEF Effects, EffectIsPaid
  <2> QED BY <1>1, <1>4, <2>1, <2>2, <2>3, <2>4 DEF Books, Effects
<1> QED BY <1>3, <1>4 DEF CommitFails

\* A process that dies has nothing in memory to disagree with.
LEMMA DownKeeps ==
  ASSUME IInv, Down, disk' \in Disks, disk'.places = disk.places, disk'.ledger = disk.ledger,
         FilesAgree', CommitAgrees', landed' = landed
  PROVE  IInv'
<1> USE DEF IInv
<1>1. /\ works' = disk'.works /\ places' = disk'.places /\ stuck' = FALSE
      /\ guest' = [at |-> "away", channel |-> None]
      /\ call' = "down" /\ step' = None /\ cur' = None /\ todo' = {}
      /\ budget' \in Budgets
  BY BudgetsKept DEF Down, Return
<1>2. works' \in Works /\ places' \in [Places -> 0..Other] /\ places' = disk.places
  BY <1>1 DEF Disks
<1>3. TypeOK'
  BY <1>1, <1>2 DEF TypeOK, Disks, Budgets
<1>4. Books'
  BY <1>1 DEF Books, MemoryAgrees, Up
<1>5. Effects'
  BY <1>1 DEF Effects, EffectIsPaid, LandedIsPaid
<1>6. Course' /\ Channels'
  BY <1>1 DEF Course, Channels, Interrupting
<1> QED BY <1>3, <1>4, <1>5, <1>6

LEMMA CommitDiesKeeps ==
  ASSUME IInv, NEW w, NEW id, NEW to, Fits(w, id, to), CommitDies(w, id, to), landed' = landed
  PROVE  IInv'
<1>1. Able /\ HalfWritten(w, id, to) /\ Down
  BY DEF CommitDies
<1> QED BY <1>1, HalfWrittenKeeps, DownKeeps

LEMMA CrashKeeps == ASSUME IInv, Crash PROVE IInv'
<1>1. Down /\ UNCHANGED <<disk, landed>>
  BY DEF Crash
<1>2. disk' \in Disks /\ FilesAgree' /\ CommitAgrees'
  BY <1>1, Shapes DEF IInv, Books, FilesAgree, CommitAgrees, Agree
<1> QED BY <1>1, <1>2, DownKeeps

-----------------------------------------------------------------------------
(* The moves of custody the handlers commit. *)

Starting(kind) == [kind |-> kind, phase |-> "charging"]

LEMMA BeginFits ==
  ASSUME IInv, Up, NEW id \in Ids, NEW kind \in Kinds, disk.ledger[id] = "free"
  PROVE  Fits([works EXCEPT ![id] = Starting(kind)], id, "held")
<1>1. Starting(kind) \in [kind : Kinds, phase : Phases] /\ Starting(kind) # None
      /\ Starting(kind).phase = "charging"
  BY WorkingsAssumption DEF Starting, Phases
<1>2. [works EXCEPT ![id] = Starting(kind)] \in Works
  BY <1>1 DEF IInv, TypeOK, Works
<1>3. Agree([works EXCEPT ![id] = Starting(kind)], [disk.ledger EXCEPT ![id] = "held"])
  <2>1. works \in [Ids -> {None} \cup [kind : Kinds, phase : Phases]] /\ disk.ledger \in Custody
    BY Shapes DEF IInv, TypeOK, Works
  <2> QED BY <1>1, <2>1 DEF Agree, IInv, Books, MemoryAgrees, Custody
<1> QED BY <1>2, <1>3 DEF Fits

LEMMA SpendFits ==
  ASSUME IInv, Up, NEW id \in Ids, Open(id)
  PROVE  Fits(WithPhase(id, "pending"), id, "spent")
<1>1. works[id] \in [kind : Kinds, phase : Phases]
  BY Shapes DEF IInv, Open
<1>2. [works[id] EXCEPT !.phase = "pending"] \in [kind : Kinds, phase : Phases]
      /\ [works[id] EXCEPT !.phase = "pending"].phase = "pending"
  BY <1>1 DEF Phases
<1>3. [works[id] EXCEPT !.phase = "pending"] # None
  BY <1>2, WorkingsAssumption
<1>4. works \in [Ids -> {None} \cup [kind : Kinds, phase : Phases]] /\ disk.ledger \in Custody
  BY Shapes DEF IInv, TypeOK, Works
<1>5. Agree(WithPhase(id, "pending"), [disk.ledger EXCEPT ![id] = "spent"])
  BY <1>2, <1>3, <1>4 DEF Agree, IInv, Books, MemoryAgrees, WithPhase, Custody
<1>6. WithPhase(id, "pending") \in Works
  BY <1>2, <1>4 DEF WithPhase, Works
<1> QED BY <1>4, <1>5, <1>6 DEF Fits, Open, Live, IInv, Books, MemoryAgrees, Agree

LEMMA GiveBackFits ==
  ASSUME IInv, Up, NEW id \in Ids, Open(id)
  PROVE  Fits(Without(id), id, "refunded")
<1>1. works \in [Ids -> {None} \cup [kind : Kinds, phase : Phases]] /\ disk.ledger \in Custody
  BY Shapes DEF IInv, TypeOK, Works
<1>2. Agree(Without(id), [disk.ledger EXCEPT ![id] = "refunded"])
  BY <1>1 DEF Agree, IInv, Books, MemoryAgrees, Without, Custody
<1>3. Without(id) \in Works
  BY <1>1 DEF Without, Works
<1> QED BY <1>2, <1>3 DEF Fits, Open, Live, IInv, Books, MemoryAgrees, Agree

\* Activation keeps what is open open, in memory and in the file.
LEMMA ActivateShape ==
  ASSUME IInv, Up, NEW id \in Ids, Live(id), works[id].phase = "charging",
         works' = WithPhase(id, "active")
  PROVE  /\ works' \in Works /\ Agree(works', disk.ledger)
         /\ Open(id)' /\ Aim(id)' = Aim(id)
         /\ \A other \in Ids : Live(other)' <=> Live(other)
<1>1. works[id] \in [kind : Kinds, phase : Phases]
  BY Shapes DEF IInv
<1>2. [works[id] EXCEPT !.phase = "active"] \in [kind : Kinds, phase : Phases]
      /\ [works[id] EXCEPT !.phase = "active"].phase = "active"
      /\ [works[id] EXCEPT !.phase = "active"].kind = works[id].kind
  BY <1>1 DEF Phases
<1>3. [works[id] EXCEPT !.phase = "active"] # None
  BY <1>2, WorkingsAssumption
<1>4. works \in [Ids -> {None} \cup [kind : Kinds, phase : Phases]]
  BY DEF IInv, TypeOK, Works
<1>5. works'[id] = [works[id] EXCEPT !.phase = "active"]
      /\ works' \in Works /\ \A other \in Ids : other # id => works'[other] = works[other]
  BY <1>2, <1>4 DEF WithPhase, Works
<1> HIDE DEF Works
<1>6. Agree(works', disk.ledger)
  BY <1>2, <1>3, <1>5 DEF Agree, IInv, Books, MemoryAgrees, Live
<1> QED BY <1>2, <1>3, <1>5, <1>6 DEF Open, Live, Aim

-----------------------------------------------------------------------------
(* Where the thread is after a step. *)

Calls  == {"idle", "guest", "tick", "retry", "enter", "leave", "die", "profile",
           "boot", "down", "refused"}
Guests == [at : {"away", "here", "kicked"}, channel : {None} \cup Ids]
Thread ==
  /\ call \in Calls /\ step \in {None, "complete", "cancel", "apply", "save"}
  /\ cur \in {None} \cup Ids /\ (step = None <=> cur = None) /\ todo \subseteq Places

LEMMA Returned ==
  ASSUME NEW next \in Calls, Return(next)
  PROVE  Thread' /\ Course' /\ step' = None /\ call' = next
BY DEF Return, Thread, Course

LEMMA WentOn ==
  ASSUME NEW id \in Ids, NEW s \in {"complete", "cancel", "apply"}, GoOn(id, s),
         call' \in Calls
  PROVE  Thread' /\ step' = s /\ cur' = id /\ step' # None
BY IdsAreApart, WorkingsAssumption DEF GoOn, Thread

\* Where an error sends a settlement.
LEMMA ErrorReturns ==
  ASSUME IInv, step # None, NEW next \in {"down", "refused"}, OnError(next), works' = works
  PROVE  /\ Thread' /\ Course'
         /\ call' = next \/ (call' \in {"idle", "retry"} /\ call # "boot")
<1>1. cur \in Ids
  BY DEF IInv, TypeOK
<1>2. CASE call = "tick" /\ Open(cur)
  <2>1. call' = "retry" /\ GoOn(cur, "cancel")
    BY <1>2 DEF OnError, Open, Pending
  <2>2. Thread' /\ step' = "cancel" /\ cur' = cur
    BY <1>1, <2>1, WentOn DEF Calls
  <2> QED BY <1>2, <2>1, <2>2 DEF Course, Settling, Up, Open, Live
<1>3. CASE call = "tick" /\ ~Open(cur) /\ Pending(cur)
  <2>1. call' = "retry" /\ GoOn(cur, "apply")
    BY <1>3 DEF OnError, Open, Pending
  <2>2. Thread' /\ step' = "apply" /\ cur' = cur
    BY <1>1, <2>1, WentOn DEF Calls
  <2> QED BY <1>3, <2>1, <2>2 DEF Course, Settling, Up, Pending, Live
<1>4. CASE call = "boot"
  <2>1. Return(next)
    BY <1>4 DEF OnError
  <2> QED BY <2>1, Returned DEF Calls
<1>5. CASE call # "boot" /\ ~(call = "tick" /\ (Open(cur) \/ Pending(cur)))
  <2>1. Return("idle")
    BY <1>5 DEF OnError
  <2> QED BY <1>5, <2>1, Returned DEF Calls
<1> QED BY <1>2, <1>3, <1>4, <1>5

-----------------------------------------------------------------------------
(* Handlers that commit nothing. *)

LEMMA ChannelsKept ==
  ASSUME Channels, guest'.at # "kicked" => guest.at # "kicked",
         ~stuck' /\ disk'.coordinator = None => ~stuck /\ disk.coordinator = None,
         NoneLoose => NoneLoose', ~Interrupting
  PROVE  Channels'
BY DEF Channels

\* No channel comes loose when none is opened, let go or taken out of a settlement.
LEMMA NoneLoosens ==
  ASSUME \A id \in Ids : OpenWand(id)' =>
           OpenWand(id) /\ (Channelled(id) => Channelled(id)') /\ (GivenBack(id) => GivenBack(id)')
  PROVE  NoneLoose => NoneLoose'
BY DEF NoneLoose

\* Nor when memory and the guest stay as they are, outside the step that gives back.
LEMMA SameWorks ==
  ASSUME works' = works, guest' = guest, step # "cancel"
  PROVE  NoneLoose => NoneLoose'
BY DEF NoneLoose, OpenWand, Channelled, GivenBack, Here, Open, Wand, Live

\* A step that leaves the files, memory and the places alone.
LEMMA TurnKeeps ==
  ASSUME IInv, Up, UNCHANGED <<disk, works, stuck, places, landed, budget>>,
         Thread', Course', guest' \in Guests, Channels'
  PROVE  IInv'
<1> USE DEF IInv
<1>1. TypeOK'
  BY DEF TypeOK, Thread, Calls, Guests
<1>2. Books' /\ Effects'
  BY DEF Books, MemoryAgrees, FilesAgree, CommitAgrees, Agree, Effects, EffectIsPaid, LandedIsPaid
<1> QED BY <1>1, <1>2

LEMMA GuestsKept ==
  ASSUME TypeOK
  PROVE  /\ guest \in Guests
         /\ \A id : Clear(id) => guest' \in Guests /\ guest'.at = guest.at
         /\ guest' = [guest EXCEPT !.channel = None] => guest' \in Guests /\ guest'.at = guest.at
BY DEF TypeOK, Guests, Clear

\* A step that hands a working over to be settled.
LEMMA HandOverKeeps ==
  ASSUME IInv, Idle, UNCHANGED <<disk, works, stuck, places, landed, budget>>,
         call' \in {"guest", "tick", "enter"}, NEW id \in Ids,
         \/ guest' = guest
         \/ /\ guest.channel = id /\ guest' = [guest EXCEPT !.channel = None]
            /\ step' # "complete",
         \/ Open(id) /\ GoOn(id, "complete")
         \/ Open(id) /\ GoOn(id, "cancel")
         \/ Pending(id) /\ GoOn(id, "apply")
  PROVE  IInv'
<1>1. Up /\ ~Interrupting
  BY DEF Idle, Up, Interrupting
<1>2. PICK s \in {"complete", "cancel", "apply"} :
        GoOn(id, s) /\ IF s = "apply" THEN Pending(id) ELSE Open(id)
  OBVIOUS
<1>3. Thread' /\ step' = s /\ cur' = id
  BY <1>2, WentOn DEF Calls
<1>4. Course'
  BY <1>2, <1>3 DEF Course, Settling, Open, Pending, Live
<1>5. guest' \in Guests /\ guest'.at = guest.at
      /\ \A other \in Ids : other # id => (guest'.channel = other <=> guest.channel = other)
  BY GuestsKept, IdsAreApart DEF IInv, Guests
<1>6. step = None /\ (OpenWand(id)' => Channelled(id)' \/ GivenBack(id)' \/ guest' = guest)
  BY <1>2, <1>3 DEF Idle, OpenWand, GivenBack, Open, Pending, Live
<1>7. NoneLoose => NoneLoose'
  BY <1>5, <1>6, WorkingsAssumption
     DEF NoneLoose, OpenWand, Channelled, GivenBack, Here, Open, Wand, Live
<1>8. Channels'
  BY <1>1, <1>5, <1>7, ChannelsKept DEF IInv
<1> QED BY <1>1, <1>3, <1>4, <1>5, <1>8, TurnKeeps

LEMMA CancelKeeps == ASSUME IInv, NEW id \in Ids, Cancel(id) PROVE IInv'
<1>1. Idle /\ Live(id) /\ call' = "guest"
      /\ UNCHANGED <<disk, works, stuck, places, guest, landed, budget>>
      /\ GoOn(id, IF Pending(id) THEN "apply" ELSE "cancel")
  BY DEF Cancel, Held
<1>2. CASE Pending(id)
  BY <1>1, <1>2, HandOverKeeps
<1>3. CASE ~Pending(id)
  BY <1>1, <1>3, HandOverKeeps DEF Pending, Open
<1> QED BY <1>2, <1>3

LEMMA OutOfReachKeeps == ASSUME IInv, NEW id \in Ids, OutOfReach(id) PROVE IInv'
<1>1. Idle /\ guest.channel = id /\ guest' = [guest EXCEPT !.channel = None]
      /\ UNCHANGED <<disk, works, stuck, places, landed, budget>>
  BY DEF OutOfReach
<1>2. guest' \in Guests /\ guest'.at = guest.at
  BY <1>1, GuestsKept DEF IInv
<1>3. CASE ~Live(id) /\ Return("idle")
  <2>1. Thread' /\ Course'
    BY <1>3, Returned DEF Calls
  <2>2. step # "cancel" /\ ~Interrupting /\ Up
    BY <1>1, WorkingsAssumption DEF Idle, Interrupting, Up
  <2>3. NoneLoose => NoneLoose'
    BY <1>1, <1>3, <2>2
       DEF NoneLoose, OpenWand, Channelled, GivenBack, Open, Wand, Live
  <2>4. Channels'
    BY <1>1, <1>2, <2>2, <2>3, ChannelsKept DEF IInv
  <2> QED BY <1>1, <1>2, <2>1, <2>2, <2>4, TurnKeeps
<1>4. CASE /\ Live(id) /\ call' = "guest"
           /\ GoOn(id, IF Pending(id) THEN "apply" ELSE "cancel")
  <2>1. step' # "complete"
    BY <1>4 DEF GoOn
  <2>2. CASE Pending(id)
    BY <1>1, <1>4, <2>1, <2>2, HandOverKeeps
  <2>3. CASE ~Pending(id)
    BY <1>1, <1>4, <2>1, <2>3, HandOverKeeps DEF Pending, Open
  <2> QED BY <2>2, <2>3
<1> QED BY <1>3, <1>4 DEF OutOfReach, Wand

LEMMA ClockKeeps == ASSUME IInv, NEW id \in Ids, Due(id) \/ Break(id) PROVE IInv'
<1>1. /\ Idle /\ Open(id) /\ call' = "tick"
      /\ UNCHANGED <<disk, works, stuck, places, guest, landed, budget>>
      /\ GoOn(id, "complete") \/ GoOn(id, "cancel")
  BY DEF Due, Break
<1> QED BY <1>1, HandOverKeeps

LEMMA EndSessionKeeps == ASSUME IInv, NEW how \in {"leave", "die"}, EndSession(how) PROVE IInv'
<1>1. /\ Idle /\ call' = how
      /\ guest' = [at |-> IF how = "die" THEN "here" ELSE "away", channel |-> None]
      /\ UNCHANGED <<disk, works, stuck, places, step, cur, todo, landed, budget>>
  BY DEF EndSession
<1>2. guest' \in Guests
  BY <1>1 DEF Guests
<1>3. Thread' /\ Course' /\ Up
  BY <1>1 DEF IInv, TypeOK, Thread, Course, Idle, Up, Calls
<1>4. Channels'
  BY <1>1 DEF Channels, Interrupting
<1> QED BY <1>1, <1>2, <1>3, <1>4, TurnKeeps

LEMMA ReplayKeeps == ASSUME IInv, Replay PROVE IInv'
<1> DEFINE owed == {id \in Ids : Pending(id) /\ works[id].kind # "fieldmend"}
<1>1. /\ call = "boot" /\ step = None
      /\ UNCHANGED <<disk, works, stuck, places, guest, landed, budget>>
  BY DEF Replay
<1>2. NoneLoose'
  BY <1>1 DEF Replay, NoneLoose, OpenWand, Open, Wand, Live
<1>3. Channels' /\ Up
  BY <1>1, <1>2 DEF Channels, Up
<1>4. guest' \in Guests
  BY <1>1, GuestsKept DEF IInv
<1>5. CASE Return("idle")
  <2>1. Thread' /\ Course'
    BY <1>5, Returned DEF Calls
  <2> QED BY <1>1, <1>3, <1>4, <2>1, TurnKeeps
<1>6. ASSUME NEW id \in First(owed), UNCHANGED call, GoOn(id, "apply") PROVE IInv'
  <2>1. id \in Ids /\ Pending(id)
    BY <1>6, FirstIsMember
  <2>2. Thread' /\ step' = "apply" /\ cur' = id
    BY <1>1, <1>6, <2>1, WentOn DEF Calls
  <2>3. Course'
    BY <1>1, <1>6, <2>1, <2>2 DEF Course, Settling, Pending, Live
  <2> QED BY <1>1, <1>3, <1>4, <2>2, <2>3, TurnKeeps
<1> QED BY <1>5, <1>6 DEF Replay

-----------------------------------------------------------------------------
(* Handlers that commit. *)

\* A commit that is done or that fails, and where its handler goes from there.
LEMMA CommitKeeps ==
  ASSUME IInv, NEW w, NEW id, NEW to, Fits(w, id, to), landed' = landed,
         Committed(w, id, to) \/ CommitFails(w, id, to),
         Thread', Course', guest' \in Guests, Channels'
  PROVE  IInv'
<1>1. /\ disk' \in Disks /\ places' = places /\ stuck' \in BOOLEAN
      /\ works' \in Works /\ budget' \in Budgets /\ Books' /\ Effects'
  <2>1. CASE Committed(w, id, to)
    BY <2>1, CommittedKeeps, Shapes DEF Fits, IInv, TypeOK
  <2>2. CASE CommitFails(w, id, to)
    BY <2>2, CommitFailsKeeps DEF IInv, TypeOK
  <2> QED BY <2>1, <2>2
<1>2. TypeOK'
  BY <1>1 DEF IInv, TypeOK, Thread, Calls, Guests, Disks, Budgets
<1> QED BY <1>1, <1>2 DEF IInv

\* A failed commit leaves a ledger that takes no more: no channel can be given back.
LEMMA FailedForChannels ==
  ASSUME IInv, NEW w, NEW id, NEW to, Fits(w, id, to), landed' = landed,
         CommitFails(w, id, to)
  PROVE  Channels'
BY CommitFailsKeeps DEF Channels

LEMMA BeginKeeps == ASSUME IInv, NEW kind \in Kinds, Begin(kind) PROVE IInv'
<1>1. Idle /\ Here /\ guest.channel = None /\ landed' = landed
  BY DEF Begin
<1>2. PICK id \in First({i \in Ids : disk.ledger[i] = "free"}) :
        Commit([works EXCEPT ![id] = Starting(kind)], id, "held",
               /\ Return("idle")
               /\ \/ guest' = [guest EXCEPT !.channel = id]
                  \/ kind \in Ritual /\ UNCHANGED guest,
               Return("idle") /\ UNCHANGED guest)
  BY DEF Begin, Starting
<1>3. id \in Ids /\ disk.ledger[id] = "free" /\ Up
  BY <1>1, FirstIsMember DEF Idle, Up
<1> DEFINE w == [works EXCEPT ![id] = Starting(kind)]
<1>4. Fits(w, id, "held")
  BY <1>3, BeginFits
<1> HIDE DEF w
<1>5. CASE CommitDies(w, id, "held")
  BY <1>1, <1>4, <1>5, CommitDiesKeeps
<1>6. CASE /\ Committed(w, id, "held") /\ Return("idle")
           /\ \/ guest' = [guest EXCEPT !.channel = id]
              \/ kind \in Ritual /\ guest' = guest
  <2>1. guest' \in Guests /\ guest'.at = "here" /\ guest.at = "here"
        /\ (kind \in Ritual \/ guest'.channel = id)
    BY <1>1, <1>3, <1>6 DEF IInv, TypeOK, Guests, Here
  <2>2. Thread' /\ Course'
    BY <1>6, Returned DEF Calls
  <2>3. works' = w /\ stuck' = stuck /\ disk.coordinator = None
    BY <1>6 DEF Committed, Able
  <2>4. works \in [Ids -> {None} \cup [kind : Kinds, phase : Phases]]
    BY DEF IInv, TypeOK, Works
  <2>5. works'[id].kind = kind /\ \A other \in Ids : other # id => works'[other] = works[other]
    BY <1>3, <2>3, <2>4 DEF w, Starting
  <2>6. ~Interrupting /\ \A other \in Ids : ~Channelled(other) /\ ~GivenBack(other)
    BY <1>1, IdsAreApart, WorkingsAssumption DEF Idle, Interrupting, Channelled, GivenBack
  <2>7. NoneLoose => NoneLoose'
    BY <2>1, <2>5, <2>6 DEF NoneLoose, OpenWand, Channelled, Here, Open, Wand, Live
  <2>8. Channels'
    BY <2>1, <2>3, <2>6, <2>7, ChannelsKept DEF IInv
  <2> QED BY <1>1, <1>4, <1>6, <2>1, <2>2, <2>8, CommitKeeps
<1>7. CASE CommitFails(w, id, "held") /\ Return("idle") /\ UNCHANGED guest
  <2>1. Thread' /\ Course'
    BY <1>7, Returned DEF Calls
  <2>2. guest' \in Guests
    BY <1>7, GuestsKept DEF IInv
  <2>3. Channels'
    BY <1>1, <1>4, <1>7, FailedForChannels
  <2> QED BY <1>1, <1>4, <1>7, <2>1, <2>2, <2>3, CommitKeeps
<1> QED BY <1>2, <1>5, <1>6, <1>7 DEF Commit, w

\* Settling or giving back a working closes its channel, and lets no other go.
LEMMA SettledLoosensNone ==
  ASSUME TypeOK, NEW id \in Ids, Live(id), cur = id,
         works' = WithPhase(id, "pending") \/ works' = Without(id),
         guest' = guest \/ Clear(id)
  PROVE  NoneLoose => NoneLoose'
<1>1. works \in [Ids -> {None} \cup [kind : Kinds, phase : Phases]]
  BY DEF TypeOK, Works
<1>2. works[id] \in [kind : Kinds, phase : Phases]
  BY Shapes
<1>3. [works[id] EXCEPT !.phase = "pending"].phase = "pending"
  BY <1>2
<1>4. ~Open(id)'
  BY <1>1, <1>3 DEF Open, Live, WithPhase, Without
<1>5. \A other \in Ids : other # id => works'[other] = works[other]
  BY <1>1 DEF WithPhase, Without
<1>6. guest'.at = guest.at
      /\ \A other \in Ids : other # id => (guest'.channel = other <=> guest.channel = other)
  BY IdsAreApart DEF Clear, TypeOK
<1> QED BY <1>4, <1>5, <1>6, NoneLoosens
        DEF OpenWand, Channelled, GivenBack, Here, Open, Wand, Live

LEMMA CompleteKeeps == ASSUME IInv, Complete PROVE IInv'
<1>1. step # None /\ step # "cancel" /\ cur \in Ids /\ Open(cur) /\ landed' = landed
  BY WorkingsAssumption DEF Complete, IInv, TypeOK, Course, Settling
<1>2. Up /\ ~Interrupting
  BY <1>1 DEF IInv, Course, Settling, Up, Interrupting
<1> DEFINE w == WithPhase(cur, "pending")
<1>3. Fits(w, cur, "spent")
  BY <1>1, <1>2, SpendFits
<1>4. guest \in Guests
  BY GuestsKept DEF IInv
<1>5. CASE CommitDies(w, cur, "spent")
  BY <1>1, <1>3, <1>5, CommitDiesKeeps
<1>6. CASE /\ Committed(w, cur, "spent")
           /\ GoOn(cur, "apply") /\ UNCHANGED <<call, guest>>
  <2>1. Thread' /\ step' = "apply" /\ cur' = cur
    BY <1>1, <1>6, WentOn DEF IInv, TypeOK, Calls
  <2>2. works' = w /\ stuck' = stuck /\ disk.coordinator = None
    BY <1>6 DEF Committed, Able
  <2>3. works[cur] \in [kind : Kinds, phase : Phases] /\ works \in Works
    BY <1>1, Shapes DEF IInv, TypeOK, Open
  <2>4. w \in Works /\ w[cur] = [works[cur] EXCEPT !.phase = "pending"]
    BY <1>1, <1>3, <2>3 DEF Fits, WithPhase, Works
  <2>5. w[cur].phase = "pending" /\ w[cur] \in [kind : Kinds, phase : Phases]
    BY <2>3, <2>4 DEF Phases
  <2>6. Pending(cur)'
    BY <2>1, <2>2, <2>5, WorkingsAssumption DEF Pending, Live
  <2>7. Course'
    BY <1>1, <1>6, <2>1, <2>6 DEF IInv, Course, Settling
  <2>8. NoneLoose => NoneLoose'
    BY <1>1, <1>6, <2>2, SettledLoosensNone DEF IInv, Open
  <2>9. Channels'
    BY <1>2, <1>6, <2>2, <2>8, ChannelsKept DEF IInv
  <2> QED BY <1>1, <1>3, <1>4, <1>6, <2>1, <2>7, <2>9, CommitKeeps
<1>7. CASE CommitFails(w, cur, "spent") /\ OnError("down") /\ UNCHANGED guest
  <2>1. works' = works
    BY <1>7 DEF CommitFails
  <2>2. Thread' /\ Course'
    BY <1>1, <1>7, <2>1, ErrorReturns
  <2>3. Channels'
    BY <1>1, <1>3, <1>7, FailedForChannels
  <2> QED BY <1>1, <1>3, <1>4, <1>7, <2>2, <2>3, CommitKeeps
<1>8. CASE OnError("down") /\ UNCHANGED <<disk, works, stuck, places, guest, budget>>
  <2>1. /\ Thread' /\ Course'
        /\ call' = "down" \/ (call' \in {"idle", "retry"} /\ call # "boot")
    BY <1>1, <1>8, ErrorReturns
  <2>2. NoneLoose => NoneLoose'
    BY <1>1, <1>8, SameWorks
  <2>3. Channels'
    BY <1>2, <1>8, <2>2, ChannelsKept DEF IInv
  <2> QED BY <1>1, <1>2, <1>4, <1>8, <2>1, <2>3, TurnKeeps
<1> QED BY <1>5, <1>6, <1>7, <1>8 DEF Complete, Commit

LEMMA GiveBackKeeps == ASSUME IInv, GiveBack PROVE IInv'
<1>1. step # None /\ cur \in Ids /\ Open(cur) /\ landed' = landed
  BY WorkingsAssumption DEF GiveBack, IInv, TypeOK, Course, Settling
<1>2. Up /\ ~Interrupting
  BY <1>1 DEF IInv, Course, Settling, Up, Interrupting
<1> DEFINE w == Without(cur)
<1>3. Fits(w, cur, "refunded")
  BY <1>1, <1>2, GiveBackFits
<1>4. CASE CommitDies(w, cur, "refunded")
  BY <1>1, <1>3, <1>4, CommitDiesKeeps
<1>5. CASE /\ Committed(w, cur, "refunded") /\ Return("idle")
           /\ Clear(cur) \/ UNCHANGED guest
  <2>1. Thread' /\ Course'
    BY <1>5, Returned DEF Calls
  <2>2. guest' \in Guests /\ guest'.at = guest.at
    BY <1>5, GuestsKept DEF IInv
  <2>3. works' = w /\ stuck' = stuck /\ disk.coordinator = None
    BY <1>5 DEF Committed, Able
  <2>4. NoneLoose => NoneLoose'
    BY <1>1, <1>5, <2>3, SettledLoosensNone DEF IInv, Open
  <2>5. Channels'
    BY <1>2, <2>2, <2>3, <2>4, ChannelsKept DEF IInv
  <2> QED BY <1>1, <1>3, <1>5, <2>1, <2>2, <2>5, CommitKeeps
<1>6. CASE CommitFails(w, cur, "refunded") /\ Return("idle") /\ UNCHANGED guest
  <2>1. Thread' /\ Course'
    BY <1>6, Returned DEF Calls
  <2>2. guest' \in Guests
    BY <1>6, GuestsKept DEF IInv
  <2>3. Channels'
    BY <1>1, <1>3, <1>6, FailedForChannels
  <2> QED BY <1>1, <1>3, <1>6, <2>1, <2>2, <2>3, CommitKeeps
<1> QED BY <1>4, <1>5, <1>6 DEF GiveBack, Commit

LEMMA InterruptLoadedKeeps == ASSUME IInv, InterruptLoaded PROVE IInv'
<1>1. call = "boot" /\ step = None /\ landed' = landed /\ Up
  BY DEF InterruptLoaded, Up
<1>2. PICK id \in First({i \in Ids : Wand(i) /\ Open(i)}) :
       Commit(Without(id), id, "refunded",
              UNCHANGED <<call, step, cur, todo, guest>>, Return("down") /\ UNCHANGED guest)
  BY DEF InterruptLoaded
<1>3. id \in Ids /\ Open(id)
  BY FirstIsMember
<1>4. Fits(Without(id), id, "refunded")
  BY <1>1, <1>3, GiveBackFits
<1>5. CASE CommitDies(Without(id), id, "refunded")
  BY <1>1, <1>4, <1>5, CommitDiesKeeps
<1>6. CASE Committed(Without(id), id, "refunded") /\ UNCHANGED <<call, step, cur, todo, guest>>
  <2>1. Thread' /\ Course' /\ Channels' /\ guest' \in Guests
    BY <1>1, <1>6 DEF IInv, TypeOK, Thread, Calls, Guests, Course, Channels, Interrupting
  <2> QED BY <1>1, <1>4, <1>6, <2>1, CommitKeeps
<1>7. CASE CommitFails(Without(id), id, "refunded") /\ Return("down") /\ UNCHANGED guest
  <2>1. Thread' /\ Course'
    BY <1>7, Returned DEF Calls
  <2>2. guest' \in Guests
    BY <1>7, GuestsKept DEF IInv
  <2>3. Channels'
    BY <1>1, <1>4, <1>7, FailedForChannels
  <2> QED BY <1>1, <1>4, <1>7, <2>1, <2>2, <2>3, CommitKeeps
<1> QED BY <1>2, <1>5, <1>6, <1>7 DEF Commit

LEMMA InterruptActorKeeps == ASSUME IInv, InterruptActor PROVE IInv'
<1> DEFINE open == {i \in Ids : Open(i)}
<1>1. call \in {"leave", "die"} /\ landed' = landed /\ Up
  BY DEF InterruptActor, Up
<1>2. step = None
  BY <1>1 DEF IInv, Course, Settling
<1>3. ASSUME Ended, UNCHANGED guest
      PROVE  Thread' /\ Course' /\ guest' \in Guests
  BY <1>3, Returned, GuestsKept DEF IInv, Ended, Calls
<1>4. ASSUME NEW id \in First(open),
             Commit(Without(id), id, "refunded",
                    UNCHANGED <<call, step, cur, todo, guest>>, Ended /\ UNCHANGED guest)
      PROVE  IInv'
  <2>1. id \in Ids /\ Open(id)
    BY <1>4, FirstIsMember
  <2>2. Fits(Without(id), id, "refunded")
    BY <1>1, <2>1, GiveBackFits
  <2>3. CASE CommitDies(Without(id), id, "refunded")
    BY <1>1, <2>2, <2>3, CommitDiesKeeps
  <2>4. CASE /\ Committed(Without(id), id, "refunded")
             /\ UNCHANGED <<call, step, cur, todo, guest>>
    <3>1. Thread' /\ Course' /\ guest' \in Guests
      BY <1>1, <1>2, <2>4 DEF IInv, TypeOK, Thread, Calls, Guests, Course
    <3>2. Channels'
      BY <1>1, <2>4 DEF Channels, Interrupting
    <3> QED BY <1>1, <2>2, <2>4, <3>1, <3>2, CommitKeeps
  <2>5. CASE CommitFails(Without(id), id, "refunded") /\ Ended /\ UNCHANGED guest
    <3>1. Channels'
      BY <1>1, <2>2, <2>5, FailedForChannels
    <3> QED BY <1>1, <1>3, <2>2, <2>5, <3>1, CommitKeeps
  <2> QED BY <1>4, <2>3, <2>4, <2>5 DEF Commit
<1>5. CASE open = {} /\ Ended /\ UNCHANGED <<disk, works, stuck, places, guest, budget>>
  <2>1. NoneLoose'
    BY <1>5 DEF NoneLoose, OpenWand, Open, Wand, Live
  <2>2. Channels'
    BY <2>1 DEF Channels
  <2> QED BY <1>1, <1>3, <1>5, <2>2, TurnKeeps
<1> QED BY <1>4, <1>5 DEF InterruptActor

-----------------------------------------------------------------------------
(* Handlers that replace the workings file by itself. *)

\* Memory changes without the ledger, and the file follows or not.
LEMMA WorksFileKeeps ==
  ASSUME IInv, Up, works' \in Works, Agree(works', disk.ledger),
         \/ disk' = [disk EXCEPT !.works = works'] /\ UNCHANGED budget
         \/ Fault("workings") /\ UNCHANGED disk,
         UNCHANGED <<stuck, places, landed>>,
         Thread', Course', guest' \in Guests, Channels'
  PROVE  IInv'
<1> USE DEF IInv
<1>1. /\ disk' \in Disks /\ disk'.ledger = disk.ledger /\ disk'.places = disk.places
      /\ disk'.coordinator = disk.coordinator
      /\ disk'.works = works' \/ disk'.works = disk.works
      /\ budget' \in Budgets
  BY Shapes, BudgetsKept DEF Disks
<1>2. TypeOK'
  BY <1>1 DEF TypeOK, Thread, Calls, Guests, Disks, Budgets
<1>3. Books'
  BY <1>1 DEF Books, MemoryAgrees, FilesAgree, CommitAgrees, Agree
<1>4. Effects'
  BY <1>1 DEF Effects, EffectIsPaid, LandedIsPaid
<1> QED BY <1>2, <1>3, <1>4

LEMMA ActivateKeeps ==
  ASSUME IInv, NEW id \in Ids, Held(id), works[id].phase = "charging",
         works' = WithPhase(id, "active"),
         \/ disk' = [disk EXCEPT !.works = works'] /\ UNCHANGED budget
         \/ Fault("workings") /\ UNCHANGED disk,
         UNCHANGED <<stuck, places, landed>>,
         guest' = guest \/ (works[id].kind \in Ritual /\ Clear(id)),
         Return("idle") \/ (call' = "guest" /\ GoOn(id, "complete"))
  PROVE  IInv'
<1>1. Up /\ Live(id) /\ Idle /\ ~Interrupting /\ step # "cancel"
  BY WorkingsAssumption DEF Held, Idle, Up, Interrupting
<1>2. works' \in Works /\ Agree(works', disk.ledger) /\ Open(id)'
  BY <1>1, ActivateShape
<1>3. Channels'
  <2>1. works \in [Ids -> {None} \cup [kind : Kinds, phase : Phases]]
        /\ works[id] \in [kind : Kinds, phase : Phases]
    BY <1>1, Shapes DEF IInv, TypeOK, Works
  <2>2. /\ works'[id].kind = works[id].kind
        /\ \A other \in Ids : other # id => works'[other] = works[other]
    BY <2>1 DEF WithPhase
  <2>3. OpenWand(id)' => OpenWand(id) /\ guest' = guest
    BY <1>1, <2>2 DEF OpenWand, Open, Wand, Live
  <2>4. guest'.at = guest.at
        /\ \A other \in Ids : other # id => (guest'.channel = other <=> guest.channel = other)
    BY GuestsKept, IdsAreApart DEF Clear, IInv, TypeOK
  <2>5. NoneLoose => NoneLoose'
    BY <1>1, <2>2, <2>3, <2>4, NoneLoosens
       DEF OpenWand, Channelled, GivenBack, Here, Open, Wand, Live
  <2>6. disk'.coordinator = disk.coordinator
    BY Shapes DEF IInv, Disks
  <2> QED BY <1>1, <2>4, <2>5, <2>6, ChannelsKept DEF IInv
<1>4. Thread' /\ Course'
  <2>1. CASE Return("idle")
    BY <2>1, Returned DEF Calls
  <2>2. CASE call' = "guest" /\ GoOn(id, "complete")
    <3>1. Thread' /\ step' = "complete" /\ cur' = id
      BY <2>2, WentOn DEF Calls
    <3> QED BY <1>2, <2>2, <3>1 DEF Course, Settling, Open, Live
  <2> QED BY <2>1, <2>2
<1>5. guest' \in Guests
  BY GuestsKept DEF IInv
<1> QED BY <1>1, <1>2, <1>3, <1>4, <1>5, WorksFileKeeps

LEMMA HoldKeeps == ASSUME IInv, NEW id \in Ids, Hold(id) PROVE IInv'
BY ActivateKeeps DEF Hold, Activate, SaveWorks

LEMMA ReleaseKeeps == ASSUME IInv, NEW id \in Ids, Release(id) PROVE IInv'
<1>1. Held(id) /\ Idle /\ Live(id)
  BY DEF Release, Held
<1>2. CASE Activate(id, call' = "guest" /\ GoOn(id, "complete") /\ UNCHANGED guest)
  BY <1>1, <1>2, ActivateKeeps DEF Activate, SaveWorks
<1>3. CASE works[id].kind \in Ritual /\ Activate(id, Return("idle") /\ Clear(id))
  BY <1>1, <1>3, ActivateKeeps DEF Activate, SaveWorks
<1>4. CASE /\ call' = "guest" /\ GoOn(id, IF Pending(id) THEN "apply" ELSE "complete")
           /\ UNCHANGED <<disk, works, stuck, places, guest, landed, budget>>
  <2>1. CASE Pending(id)
    BY <1>1, <1>4, <2>1, HandOverKeeps
  <2>2. CASE ~Pending(id)
    BY <1>1, <1>4, <2>2, HandOverKeeps DEF Pending, Open
  <2> QED BY <2>1, <2>2
<1>5. CASE /\ works[id].kind \in Ritual /\ Clear(id) /\ Return("idle")
           /\ UNCHANGED <<disk, works, stuck, places, landed, budget>>
  <2>1. Thread' /\ Course'
    BY <1>5, Returned DEF Calls
  <2>2. Up /\ ~Interrupting /\ step # "cancel"
    BY <1>1, WorkingsAssumption DEF Idle, Up, Interrupting
  <2>3. guest' \in Guests /\ guest'.at = guest.at
        /\ \A other \in Ids : other # id => (guest'.channel = other <=> guest.channel = other)
    BY <1>5, GuestsKept, IdsAreApart DEF Clear, IInv, TypeOK
  <2>4. NoneLoose => NoneLoose'
    BY <1>5, <2>2, <2>3, NoneLoosens
       DEF OpenWand, Channelled, GivenBack, Here, Open, Wand, Live
  <2>5. Channels'
    BY <1>5, <2>2, <2>3, <2>4, ChannelsKept DEF IInv
  <2> QED BY <1>5, <2>1, <2>2, <2>3, <2>5, TurnKeeps
<1> QED BY <1>2, <1>3, <1>4, <1>5 DEF Release

LEMMA SaveWorldKeeps == ASSUME IInv, SaveWorld PROVE IInv'
<1>1. /\ Idle /\ disk' = [disk EXCEPT !.works = works]
      /\ UNCHANGED <<works, stuck, places, guest, call, step, cur, todo, landed, budget>>
  BY DEF SaveWorld
<1>2. Up /\ works' \in Works /\ Agree(works', disk.ledger) /\ guest' \in Guests
  BY <1>1, GuestsKept DEF Idle, Up, IInv, TypeOK, Books, MemoryAgrees
<1>3. Thread' /\ Course'
  BY <1>1, WorkingsAssumption DEF IInv, TypeOK, Thread, Calls, Course, Idle
<1>4. disk'.coordinator = disk.coordinator
  BY <1>1, Shapes DEF IInv, Disks
<1>5. Channels'
  <2>1. ~Interrupting /\ step # "cancel"
    BY <1>1, WorkingsAssumption DEF Idle, Interrupting
  <2> QED BY <1>1, <1>4, <2>1, SameWorks, ChannelsKept DEF IInv
<1> QED BY <1>1, <1>2, <1>3, <1>5, WorksFileKeeps

-----------------------------------------------------------------------------
(* The effect: applied, saved, and its working removed. *)

LEMMA ApplyKeeps == ASSUME IInv, Apply PROVE IInv'
<1> USE DEF IInv
<1>1. step # None /\ cur \in Ids /\ Pending(cur) /\ Live(cur) /\ step = "apply"
      /\ call \in {"guest", "tick", "retry", "enter", "boot"}
  BY WorkingsAssumption DEF Apply, TypeOK, Course, Settling, Pending
<1>2. Up /\ ~Interrupting /\ guest' \in Guests
      /\ UNCHANGED <<disk, works, stuck, guest, landed, budget>>
  BY <1>1, GuestsKept DEF Up, Interrupting, Apply
<1>3. NoneLoose => NoneLoose'
  BY <1>1, <1>2, SameWorks
<1>4. Channels'
  BY <1>2, <1>3, ChannelsKept
<1>5. CASE OnError("refused") /\ UNCHANGED places
  <2>1. Thread' /\ Course'
    BY <1>1, <1>2, <1>5, ErrorReturns
  <2> QED BY <1>2, <1>4, <1>5, <2>1, TurnKeeps
<1>6. ASSUME places' \in [Places -> 0..Other],
             \A p \in Places : places'[p] = IF p \in Aim(cur) THEN cur ELSE places[p],
             step' = "save", todo' = Aim(cur), UNCHANGED <<call, cur>>
      PROVE  IInv'
  <2>1. Aim(cur) \subseteq Places /\ Aim(cur) # {}
    BY <1>1, Shapes
  <2>2. TypeOK'
    BY <1>1, <1>2, <1>6, <2>1, WorkingsAssumption DEF TypeOK
  <2>3. Books'
    BY <1>2, <1>6 DEF Books, MemoryAgrees, FilesAgree, CommitAgrees, Agree, Up
  <2>4. disk.ledger[cur] = "spent"
    BY <1>1, <1>2 DEF Books, MemoryAgrees, Agree, Pending, Live
  <2>5. Effects'
    BY <1>2, <1>6, <2>4 DEF Effects, EffectIsPaid, LandedIsPaid
  <2>6. Course'
    BY <1>1, <1>2, <1>6, <2>1 DEF Course, Settling, Aim, Pending, Live
  <2> QED BY <1>4, <2>2, <2>3, <2>5, <2>6
<1>7. CASE /\ \A p \in Aim(cur) : places[p] = 0
           /\ places' = [p \in Places |-> IF p \in Aim(cur) THEN cur ELSE places[p]]
           /\ step' = "save" /\ todo' = Aim(cur) /\ UNCHANGED <<call, cur>>
  BY <1>1, <1>6, <1>7, IdsAreApart DEF TypeOK
<1>8. CASE /\ \A p \in Aim(cur) : places[p] = cur
           /\ step' = "save" /\ todo' = Aim(cur) /\ UNCHANGED <<call, cur, places>>
  BY <1>1, <1>6, <1>8 DEF TypeOK
<1> QED BY <1>5, <1>7, <1>8 DEF Apply

LEMMA SaveEffectKeeps == ASSUME IInv, NEW p \in Places, SaveEffect(p) PROVE IInv'
<1> USE DEF IInv
<1>1. /\ step = "save" /\ step # None /\ cur \in Ids /\ Pending(cur) /\ Live(cur)
      /\ call \in {"guest", "tick", "retry", "enter", "boot"}
      /\ p \in todo /\ todo \subseteq Aim(cur)
      /\ \A q \in Aim(cur) : places[q] = cur /\ (q \notin todo => disk.places[q] = cur)
  BY WorkingsAssumption DEF SaveEffect, TypeOK, Course, Settling, Pending
<1>2. Up /\ ~Interrupting /\ guest' \in Guests /\ UNCHANGED <<works, stuck, places, guest>>
  BY <1>1, GuestsKept DEF Up, Interrupting, SaveEffect
<1>3. disk.ledger[cur] = "spent" /\ Agree(works, disk.ledger)
  BY <1>1, <1>2 DEF Books, MemoryAgrees, Agree, Pending, Live
<1>4. NoneLoose => NoneLoose'
  BY <1>1, <1>2, SameWorks
<1>5. landed' = landed \cup {id \in {cur} : \A q \in Aim(id) : disk'.places[q] = id}
  BY DEF SaveEffect
<1>6. landed \subseteq landed' /\ landed' \subseteq landed \cup {cur}
  BY <1>5
<1>7. ASSUME /\ disk' \in Disks /\ disk'.works = disk.works /\ disk'.ledger = disk.ledger
             /\ disk'.coordinator = disk.coordinator /\ budget' \in Budgets
             /\ \A q \in Places : disk'.places[q] \in {places[q], disk.places[q]},
             Thread', Course'
      PROVE  IInv'
  <2>1. TypeOK'
    BY <1>1, <1>2, <1>6, <1>7 DEF TypeOK, Thread, Calls, Disks, Budgets
  <2>2. Books'
    BY <1>2, <1>3, <1>6, <1>7 DEF Books, MemoryAgrees, FilesAgree, CommitAgrees, Agree
  <2>3. LandedIsPaid'
    BY <1>3, <1>6, <1>7 DEF Effects, LandedIsPaid
  <2>4. EffectIsPaid'
    BY <1>2, <1>7 DEF Effects, EffectIsPaid
  <2>5. Channels'
    BY <1>2, <1>4, <1>7, ChannelsKept
  <2> QED BY <1>7, <2>1, <2>2, <2>3, <2>4, <2>5 DEF Effects
<1>8. CASE /\ disk' = [disk EXCEPT !.places[p] = places[p]]
           /\ todo' = todo \ {p} /\ UNCHANGED <<call, step, cur, budget>>
  <2>1. places[p] \in 0..Other /\ disk.places \in [Places -> 0..Other]
    BY Shapes DEF TypeOK
  <2>2. /\ disk' \in Disks /\ disk'.works = disk.works /\ disk'.ledger = disk.ledger
        /\ disk'.coordinator = disk.coordinator
        /\ disk'.places = [disk.places EXCEPT ![p] = places[p]]
    BY <1>8, <2>1, Shapes DEF Disks
  <2>3. \A q \in Places : disk'.places[q] = IF q = p THEN places[q] ELSE disk.places[q]
    BY <2>1, <2>2
  <2>4. Thread' /\ budget' \in Budgets
    BY <1>8, Shapes DEF Thread, TypeOK, Calls
  <2>5. Aim(cur) \subseteq Places
    BY <1>1, Shapes
  <2>6. \A q \in Aim(cur) : q \notin todo' => disk'.places[q] = cur
    BY <1>1, <1>8, <2>3, <2>5
  <2>7. todo' = {} => cur \in landed'
    BY <1>5, <2>6
  <2>8. Course'
    BY <1>1, <1>2, <1>8, <2>6, <2>7 DEF Course, Settling, Aim, Pending, Live
  <2> QED BY <1>7, <2>2, <2>3, <2>4, <2>8
<1>9. CASE Fault("place") /\ OnError("down") /\ UNCHANGED disk
  <2>1. Thread' /\ Course'
    BY <1>1, <1>2, <1>9, ErrorReturns
  <2>2. budget' \in Budgets
    BY <1>9, BudgetsKept
  <2> QED BY <1>7, <1>9, <2>1, <2>2, Shapes
<1> QED BY <1>8, <1>9 DEF SaveEffect

LEMMA FinishKeeps == ASSUME IInv, Finish PROVE IInv'
<1> USE DEF IInv
<1>1. /\ step # None /\ cur \in Ids /\ Live(cur) /\ cur \in landed
      /\ call \in {"guest", "tick", "retry", "enter", "boot"} /\ works' = Without(cur)
      /\ UNCHANGED <<stuck, places, landed>>
  BY WorkingsAssumption DEF Finish, TypeOK, Course, Settling, Pending
<1>2. Up /\ ~Interrupting
  BY <1>1 DEF Up, Interrupting
<1>3. works \in [Ids -> {None} \cup [kind : Kinds, phase : Phases]]
  BY DEF TypeOK, Works
<1>4. works' \in Works /\ works'[cur] = None
      /\ \A id \in Ids : id # cur => works'[id] = works[id]
  BY <1>1, <1>3 DEF Without, Works
<1>5. disk.ledger[cur] = "spent" /\ Agree(works, disk.ledger)
  BY <1>1, <1>2 DEF Effects, LandedIsPaid, Books, MemoryAgrees
<1>6. Agree(works', disk.ledger)
  BY <1>1, <1>4, <1>5 DEF Agree
<1>7. /\ \/ disk' = [disk EXCEPT !.works = works'] /\ UNCHANGED budget
         \/ Fault("workings") /\ UNCHANGED disk
      /\ \E next \in {"boot", "idle", "down"} : Return(next)
      /\ UNCHANGED guest \/ Clear(cur)
  <2>1. SaveWorks(/\ Return(IF call = "boot" THEN "boot" ELSE "idle")
                  /\ IF call = "guest" THEN Clear(cur) ELSE UNCHANGED guest,
                  /\ Return(IF call = "boot" THEN "down" ELSE "idle") /\ UNCHANGED guest)
    BY DEF Finish
  <2>2. (IF call = "boot" THEN "boot" ELSE "idle") \in {"boot", "idle"}
        /\ (IF call = "boot" THEN "down" ELSE "idle") \in {"down", "idle"}
    OBVIOUS
  <2> QED BY <2>1, <2>2 DEF SaveWorks
<1>8. PICK next \in {"boot", "idle", "down"} : Return(next)
  BY <1>7
<1>9. Thread' /\ Course'
  BY <1>8, Returned DEF Calls
<1>10. guest' \in Guests /\ guest'.at = guest.at
  BY <1>7, GuestsKept
<1>11. disk'.coordinator = disk.coordinator
  BY <1>7, Shapes DEF Disks
<1>12. NoneLoose => NoneLoose'
  BY <1>1, <1>7, SettledLoosensNone
<1>13. Channels'
  BY <1>1, <1>2, <1>10, <1>11, <1>12, ChannelsKept
<1> QED BY <1>1, <1>2, <1>4, <1>6, <1>7, <1>9, <1>10, <1>13, WorksFileKeeps

-----------------------------------------------------------------------------
(* The session, the world and its start. *)

\* Places change in memory or on disk, to values that are no working's or that were
\* already there.
LEMMA PlacesKeep ==
  ASSUME IInv, Up, UNCHANGED <<works, stuck, landed>>,
         disk' \in Disks, disk'.works = disk.works, disk'.ledger = disk.ledger,
         disk'.coordinator = disk.coordinator,
         places' \in [Places -> 0..Other], budget' \in Budgets,
         \A p \in Places : {places'[p], disk'.places[p]} \subseteq
                            {0, Other, places[p], disk.places[p]},
         Thread', Course', guest' \in Guests, Channels'
  PROVE  IInv'
<1> USE DEF IInv
<1>1. TypeOK'
  BY DEF TypeOK, Thread, Calls, Guests, Disks, Budgets
<1>2. Books'
  BY DEF Books, MemoryAgrees, FilesAgree, CommitAgrees, Agree
<1>3. Effects'
  BY IdsAreApart DEF Effects, EffectIsPaid, LandedIsPaid
<1> QED BY <1>1, <1>2, <1>3

\* Between handlers a step that leaves the thread alone leaves its course alone.
LEMMA IdleCourse ==
  ASSUME IInv, Idle, UNCHANGED <<call, step, cur, todo>>
  PROVE  Thread' /\ Course' /\ Up /\ ~Interrupting /\ step # "cancel"
BY WorkingsAssumption DEF IInv, TypeOK, Thread, Calls, Course, Idle, Up, Interrupting

\* A profile written, or not, with the slots as they are.
LEMMA ProfileSaved ==
  ASSUME TypeOK, SaveProfile
  PROVE  /\ disk' \in Disks /\ disk'.works = disk.works /\ disk'.ledger = disk.ledger
         /\ disk'.coordinator = disk.coordinator /\ budget' \in Budgets
         /\ \A p \in Places : disk'.places[p] \in {places[p], disk.places[p]}
<1>1. CASE disk' = [disk EXCEPT !.places["slots"] = places["slots"]] /\ UNCHANGED budget
  <2>1. places["slots"] \in 0..Other /\ disk.places \in [Places -> 0..Other]
    BY Shapes DEF TypeOK, Places
  <2>2. /\ disk' \in Disks /\ disk'.works = disk.works /\ disk'.ledger = disk.ledger
        /\ disk'.coordinator = disk.coordinator
        /\ disk'.places = [disk.places EXCEPT !["slots"] = places["slots"]]
    BY <1>1, <2>1, Shapes DEF Disks
  <2> QED BY <1>1, <2>1, <2>2, Shapes
<1>2. CASE Fault("place") /\ UNCHANGED disk
  BY <1>2, BudgetsKept, Shapes
<1> QED BY <1>1, <1>2 DEF SaveProfile

LEMMA EnterKeeps == ASSUME IInv, Enter PROVE IInv'
<1> DEFINE owed == {id \in Ids : Pending(id) /\ works[id].kind = "fieldmend"}
<1>1. /\ Idle /\ guest.at = "away" /\ guest' = [at |-> "here", channel |-> None]
      /\ places' = [places EXCEPT !["slots"] = disk.places["slots"]]
      /\ UNCHANGED <<disk, works, stuck, landed, budget>>
  BY DEF Enter
<1>2. guest' \in Guests /\ Channels' /\ Up
  <2>1. guest' \in Guests /\ Up /\ ~Interrupting /\ step # "cancel"
    BY <1>1, WorkingsAssumption DEF Guests, Idle, Up, Interrupting
  <2>2. NoneLoose => NoneLoose'
    BY <1>1, <2>1 DEF NoneLoose, OpenWand, Channelled, GivenBack, Here, Open, Wand, Live
  <2> QED BY <1>1, <2>1, <2>2, ChannelsKept DEF IInv
<1>3. /\ places' \in [Places -> 0..Other]
      /\ \A p \in Places : places'[p] \in {places[p], disk.places[p]}
  BY <1>1, Shapes DEF IInv, TypeOK, Places
<1>4. Thread' /\ Course'
  <2>1. CASE Return("idle")
    BY <2>1, Returned DEF Calls
  <2>2. ASSUME call' = "enter", NEW id \in First(owed), GoOn(id, "apply")
        PROVE  Thread' /\ Course'
    <3>1. id \in Ids /\ Pending(id)
      BY <2>2, FirstIsMember
    <3>2. Thread' /\ step' = "apply" /\ cur' = id
      BY <2>2, <3>1, WentOn DEF Calls
    <3> QED BY <1>1, <2>2, <3>1, <3>2 DEF Course, Settling, Pending, Live
  <2> QED BY <2>1, <2>2 DEF Enter
<1> QED BY <1>1, <1>2, <1>3, <1>4, PlacesKeep, Shapes DEF IInv

LEMMA SaveLeaverKeeps == ASSUME IInv, SaveLeaver PROVE IInv'
<1>1. /\ call = "profile" /\ SaveProfile /\ Return("idle")
      /\ places' = [places EXCEPT !["slots"] = 0]
      /\ UNCHANGED <<works, stuck, guest, landed>>
  BY DEF SaveLeaver
<1>2. Up /\ ~Interrupting /\ Thread' /\ Course' /\ guest' \in Guests
  BY <1>1, Returned, GuestsKept DEF Up, Interrupting, Calls, IInv
<1>3. step # "cancel"
  BY <1>1, WorkingsAssumption DEF IInv, Course, Settling
<1>4. /\ places' \in [Places -> 0..Other]
      /\ \A p \in Places : places'[p] \in {0, places[p]}
  BY <1>1, IdsAreApart DEF IInv, TypeOK, Places
<1>5. Channels'
  BY <1>1, <1>2, <1>3, ProfileSaved, SameWorks, ChannelsKept DEF IInv
<1> QED BY <1>1, <1>2, <1>4, <1>5, ProfileSaved, PlacesKeep DEF IInv

LEMMA KickKeeps == ASSUME IInv, Kick PROVE IInv'
<1>1. /\ Idle /\ SaveProfile /\ guest' = [at |-> "kicked", channel |-> None]
      /\ places' = [places EXCEPT !["slots"] = 0]
      /\ UNCHANGED <<works, stuck, call, step, cur, todo, landed>>
  BY DEF Kick
<1>2. guest' \in Guests /\ Channels'
  BY <1>1 DEF Guests, Channels
<1>3. /\ places' \in [Places -> 0..Other]
      /\ \A p \in Places : places'[p] \in {0, places[p]}
  BY <1>1, IdsAreApart DEF IInv, TypeOK, Places
<1> QED BY <1>1, <1>2, <1>3, IdleCourse, ProfileSaved, PlacesKeep DEF IInv

LEMMA EditKeeps ==
  ASSUME IInv, NEW p \in Places, NEW value \in {0, Other}, Edit(p, value) PROVE IInv'
<1>1. /\ Idle /\ budget.edits > 0 /\ places' = [places EXCEPT ![p] = value]
      /\ budget' = [budget EXCEPT !.edits = @ - 1]
      /\ UNCHANGED <<disk, works, stuck, guest, call, step, cur, todo, landed>>
  BY DEF Edit
<1>2. budget' \in Budgets
  BY <1>1, Shapes, WorkingsAssumption DEF IInv, Budgets
<1>3. /\ places' \in [Places -> 0..Other]
      /\ \A q \in Places : places'[q] \in {0, Other, places[q]}
  BY <1>1, IdsAreApart DEF IInv, TypeOK
<1>4. guest' \in Guests /\ Channels'
  BY <1>1, IdleCourse, GuestsKept, SameWorks, ChannelsKept DEF IInv
<1> QED BY <1>1, <1>2, <1>3, <1>4, IdleCourse, Shapes, PlacesKeep DEF IInv

LEMMA SaveCellKeeps == ASSUME IInv, NEW p \in Places, SaveCell(p) PROVE IInv'
<1>1. /\ Idle /\ disk' = [disk EXCEPT !.places[p] = places[p]]
      /\ UNCHANGED <<works, stuck, places, guest, call, step, cur, todo, landed, budget>>
  BY DEF SaveCell
<1>2. places[p] \in 0..Other /\ disk.places \in [Places -> 0..Other]
  BY Shapes DEF IInv, TypeOK
<1>3. /\ disk' \in Disks /\ disk'.works = disk.works /\ disk'.ledger = disk.ledger
      /\ disk'.coordinator = disk.coordinator
      /\ disk'.places = [disk.places EXCEPT ![p] = places[p]]
  BY <1>1, <1>2, Shapes DEF IInv, Disks
<1>4. \A q \in Places : disk'.places[q] \in {places[q], disk.places[q]}
  BY <1>2, <1>3
<1>5. guest' \in Guests /\ Channels'
  BY <1>1, <1>3, IdleCourse, GuestsKept, SameWorks, ChannelsKept DEF IInv
<1>6. budget' \in Budgets /\ places' \in [Places -> 0..Other]
  BY <1>1, Shapes DEF IInv, TypeOK
<1> QED BY <1>1, <1>3, <1>4, <1>5, <1>6, IdleCourse, PlacesKeep

\* The ledger a start leaves, which no reservation has to be taken back from.
Reconciled(file, ledger) ==
  [id \in Ids |-> IF ledger[id] = "held" /\ file[id] = None THEN "refunded" ELSE ledger[id]]

LEMMA NothingToReconcile ==
  ASSUME NEW file \in Works, NEW ledger \in Custody, Agree(file, ledger)
  PROVE  Reconciled(file, ledger) = ledger
BY DEF Reconciled, Custody, Agree

\* A start recovers the commit it finds, and has nothing to reconcile after it.
LEMMA StartRecovers ==
  ASSUME IInv, Start
  PROVE  \/ /\ Return("refused") /\ UNCHANGED <<disk, works>>
         \/ /\ Return("boot") /\ disk' \in Disks /\ works' = disk'.works
            /\ disk'.coordinator = None /\ disk'.places = disk.places
            /\ disk'.ledger = Promised /\ Agree(disk'.works, disk'.ledger)
            /\ \A id \in Ids : disk.ledger[id] = "spent" => disk'.ledger[id] = "spent"
<1> USE DEF IInv
<1> DEFINE c     == disk.coordinator
           found == IF c = None THEN disk ELSE
                    [disk EXCEPT !.works = c.works, !.ledger = c.ledger, !.coordinator = None]
<1>1. /\ found \in Disks /\ found.coordinator = None /\ found.places = disk.places
      /\ found.ledger = Promised /\ Agree(found.works, found.ledger)
      /\ \A id \in Ids : disk.ledger[id] = "spent" => found.ledger[id] = "spent"
  <2>1. CASE c = None
    BY <2>1, Shapes DEF Promised, Books, FilesAgree
  <2>2. CASE c # None
    BY <2>2, Shapes DEF Disks, Promised, Books, CommitAgrees
  <2> QED BY <2>1, <2>2
<1>2. \/ Return("refused") /\ UNCHANGED <<disk, works>>
      \/ /\ Return("boot") /\ works' = found.works
         /\ disk' = [found EXCEPT !.ledger = Reconciled(found.works, @)]
  BY DEF Start, Reconciled
<1> HIDE DEF found
<1>3. found.works \in Works /\ found.ledger \in Custody
  BY <1>1 DEF Disks
<1>4. Reconciled(found.works, found.ledger) = found.ledger
  BY <1>1, <1>3, NothingToReconcile
<1>5. [found EXCEPT !.ledger = Reconciled(found.works, @)] = found
  BY <1>1, <1>4 DEF Disks
<1> QED BY <1>1, <1>2, <1>5

LEMMA StartKeeps == ASSUME IInv, Start PROVE IInv'
<1> USE DEF IInv
<1>1. call = "down" /\ stuck' = FALSE /\ places' = disk.places
      /\ UNCHANGED <<guest, landed, budget>>
  BY DEF Start
<1>2. guest' \in Guests /\ budget' \in Budgets /\ places' \in [Places -> 0..Other]
  BY <1>1, GuestsKept, Shapes
<1>3. CASE Return("refused") /\ UNCHANGED <<disk, works>>
  <2>1. Thread' /\ Course' /\ call' = "refused"
    BY <1>3, Returned DEF Calls
  <2>2. TypeOK'
    BY <1>1, <1>2, <1>3, <2>1 DEF TypeOK, Thread, Calls, Guests, Disks, Budgets
  <2>3. Books'
    BY <1>1, <1>3, <2>1 DEF Books, MemoryAgrees, FilesAgree, CommitAgrees, Agree, Up
  <2>4. Effects'
    BY <1>1, <1>3 DEF Effects, EffectIsPaid, LandedIsPaid
  <2>5. Channels'
    BY <2>1 DEF Channels, Interrupting
  <2> QED BY <2>1, <2>2, <2>3, <2>4, <2>5
<1>4. CASE /\ Return("boot") /\ disk' \in Disks /\ works' = disk'.works
           /\ disk'.coordinator = None /\ disk'.places = disk.places
           /\ Agree(disk'.works, disk'.ledger)
           /\ \A id \in Ids : disk.ledger[id] = "spent" => disk'.ledger[id] = "spent"
  <2>1. Thread' /\ Course' /\ call' = "boot" /\ step' = None
    BY <1>4, Returned DEF Calls
  <2>2. TypeOK'
    BY <1>1, <1>2, <1>4, <2>1 DEF TypeOK, Thread, Calls, Guests, Disks, Budgets
  <2>3. Books'
    BY <1>1, <1>4 DEF Books, MemoryAgrees, FilesAgree, CommitAgrees, Agree
  <2>4. Effects'
    BY <1>1, <1>4 DEF Effects, EffectIsPaid, LandedIsPaid, TypeOK
  <2>5. Channels'
    BY <2>1 DEF Channels, Interrupting
  <2> QED BY <2>1, <2>2, <2>3, <2>4, <2>5
<1> QED BY <1>3, <1>4, StartRecovers

-----------------------------------------------------------------------------
(* The invariants. *)

LEMMA InitSound == Init => IInv
<1> SUFFICES ASSUME Init PROVE IInv
  OBVIOUS
<1>1. TypeOK
  <2>1. [id \in Ids |-> None] \in Works /\ [id \in Ids |-> "free"] \in Custody
        /\ [p \in Places |-> 0] \in [Places -> 0..Other]
    BY IdsAreApart DEF Works, Custody
  <2>2. disk \in Disks /\ works \in Works /\ places \in [Places -> 0..Other]
    BY <2>1 DEF Init, Disks
  <2>3. budget \in Budgets
    BY WorkingsAssumption DEF Init, Budgets
  <2> QED BY <2>2, <2>3 DEF Init, TypeOK, Disks, Budgets
<1>2. Books /\ Effects
  BY IdsAreApart
     DEF Init, Books, MemoryAgrees, FilesAgree, CommitAgrees, Agree, Effects, EffectIsPaid,
         LandedIsPaid
<1>3. Course /\ Channels
  BY DEF Init, Course, Channels, NoneLoose, OpenWand, Wand, Live
<1> QED BY <1>1, <1>2, <1>3 DEF IInv

LEMMA StutterSound == ASSUME IInv, UNCHANGED vars PROVE IInv'
BY DEF vars, IInv, TypeOK, Books, MemoryAgrees, FilesAgree, CommitAgrees, Agree, Up, Effects,
       EffectIsPaid, LandedIsPaid, Course, Settling, Aim, Channels, Interrupting, NoneLoose, OpenWand,
       Channelled, GivenBack, Here, Wand, Open, Pending, Live

LEMMA StepSound == ASSUME IInv, [Next]_vars PROVE IInv'
<1>1. CASE Steps
  BY <1>1, CompleteKeeps, GiveBackKeeps, ApplyKeeps, FinishKeeps, SaveEffectKeeps,
     InterruptActorKeeps, SaveLeaverKeeps, StartKeeps, InterruptLoadedKeeps, ReplayKeeps
     DEF Steps
<1>2. CASE \E kind \in Kinds : Begin(kind)
  BY <1>2, BeginKeeps
<1>3. CASE \E id \in Ids : Hold(id) \/ Release(id) \/ Cancel(id)
  BY <1>3, HoldKeeps, ReleaseKeeps, CancelKeeps
<1>4. CASE \E id \in Ids : OutOfReach(id) \/ Due(id) \/ Break(id)
  BY <1>4, OutOfReachKeeps, ClockKeeps
<1>5. CASE Enter \/ EndSession("leave") \/ EndSession("die") \/ Kick
  BY <1>5, EnterKeeps, EndSessionKeeps, KickKeeps
<1>6. CASE \E p \in Places : (\E value \in {0, Other} : Edit(p, value)) \/ SaveCell(p)
  BY <1>6, EditKeeps, SaveCellKeeps
<1>7. CASE SaveWorld \/ Crash
  BY <1>7, SaveWorldKeeps, CrashKeeps
<1>8. CASE UNCHANGED vars
  BY <1>8, StutterSound
<1> QED BY <1>1, <1>2, <1>3, <1>4, <1>5, <1>6, <1>7, <1>8 DEF Next

LEMMA Sound == Spec => []IInv
<1>1. Init => IInv
  BY InitSound
<1>2. IInv /\ [Next]_vars => IInv'
  BY StepSound
<1> QED BY <1>1, <1>2, PTL DEF Spec

\* commit_linked_files, settle_working, recover_linked_commit: the variables keep their
\* types, and whenever no commit is half way the ledger file holds a reservation for
\* exactly the workings the workings file has open, and has spent that of those it has
\* pending; for any number of workings, crashes and failed writes.
THEOREM CustodyKept == Spec => []CustodyInv
<1>1. IInv => CustodyInv
  BY DEF IInv, CustodyInv, CurrentAccounted, Books, FilesAgree, Agree
<1> QED BY <1>1, Sound, PTL

\* apply_working_effect and complete_working: no place shows an effect, in memory or on
\* disk, before its Current is durably spent, and a working whose Current is spent leaves
\* the workings file only after the whole of its effect has been on disk.
THEOREM PaymentDelivers == Spec => []PaidIsDelivered
<1>1. IInv => PaidIsDelivered
  BY DEF IInv, PaidIsDelivered, FinishedHasLanded, Effects, Books, FilesAgree, Agree
<1> QED BY <1>1, Sound, PTL

\* interrupt_actor_workings, interrupt_loaded_wand_workings and the pump's and the clock's
\* interruptions: between handlers, while the ledger takes transactions, every open wand
\* working is channelled by the guest.  A death, a departure, a cancellation, a broken
\* path and a restart have given the Current back; nothing is said once a guest has been
\* kicked.
THEOREM ChannelsKeptHeld == Spec => []ChannelsAreHeld
<1>1. ASSUME IInv PROVE ChannelsAreHeld
  <2>1. call = "idle" => step = None /\ step # "cancel" /\ ~Interrupting
    BY <1>1, WorkingsAssumption DEF IInv, Course, Settling, Interrupting
  <2> QED BY <1>1, <2>1
          DEF IInv, ChannelsAreHeld, Settled, Orphans, Channels, NoneLoose, OpenWand,
              Channelled, GivenBack
<1> QED BY <1>1, Sound, PTL

-----------------------------------------------------------------------------
(* The promise of WorkingCustody. *)

LEMMA SameShown ==
  ASSUME landed' = landed, Promised' = Promised
  PROVE  UNCHANGED Shown
BY DEF Shown

\* A commit, done or half written, moves one working one step; a failure moves none.
LEMMA CommitMoves ==
  ASSUME IInv, NEW w, NEW id, NEW from, NEW to, Fits(w, id, to), landed' = landed,
         Committed(w, id, to) \/ CommitFails(w, id, to) \/ CommitDies(w, id, to),
         disk.ledger[id] = from,
         <<from, to>> \in {<<"free", "held">>, <<"held", "spent">>, <<"held", "refunded">>}
  PROVE  Promise!Next \/ UNCHANGED Shown
<1> DEFINE l == [disk.ledger EXCEPT ![id] = to]
<1>1. id \in Ids /\ id \notin landed /\ disk.ledger \in Custody
  BY Shapes DEF IInv, Fits, Effects, LandedIsPaid
<1>2. CASE UNCHANGED disk
  BY <1>2, SameShown DEF Promised
<1>3. CASE Able /\ Promised' = l
  <2>1. Promised = disk.ledger
    BY <1>3 DEF Able, Promised
  <2>2. /\ l[id] = to /\ \A other \in Ids : other # id => l[other] = disk.ledger[other]
    BY <1>1 DEF Custody
  <2> HIDE DEF l
  <2>3. \A other \in Ids : other # id => Shown'[other] = Shown[other]
    BY <1>3, <2>1, <2>2 DEF Shown
  <2> DEFINE shown(x) == [free |-> "free", held |-> "reserved", refunded |-> "returned",
                          spent |-> "owed"][x]
  <2>4. Shown[id] = shown(from) /\ Shown'[id] = shown(to)
    BY <1>1, <1>3, <2>1, <2>2 DEF Shown
  <2>5. Shown' = [Shown EXCEPT ![id] = shown(to)]
    BY <1>1, <2>3, <2>4 DEF Shown
  <2>6. \/ shown(from) = "free" /\ shown(to) = "reserved"
        \/ shown(from) = "reserved" /\ shown(to) = "owed"
        \/ shown(from) = "reserved" /\ shown(to) = "returned"
    OBVIOUS
  <2> HIDE DEF shown
  <2>7. \/ Promise!Move(id, "free", "reserved") \/ Promise!Move(id, "reserved", "owed")
        \/ Promise!Move(id, "reserved", "returned")
    BY <2>4, <2>5, <2>6 DEF Promise!Move
  <2> QED BY <1>1, <2>7 DEF Promise!Next, Promise!Reserve, Promise!Owe, Promise!Return
<1>4. CASE Committed(w, id, to)
  <2>1. Able /\ disk' = [disk EXCEPT !.works = w, !.ledger = l] /\ disk.coordinator = None
    BY <1>4 DEF Committed, Able
  <2>2. disk'.ledger = l /\ disk'.coordinator = None
    BY <2>1, Shapes DEF IInv, Disks
  <2> QED BY <1>3, <2>1, <2>2 DEF Promised
<1>5. CASE Able /\ HalfWritten(w, id, to)
  <2>1. disk'.coordinator # None
    BY <1>5, HalfWrittenKeeps
  <2>2. PICK file \in {disk.works, w} :
          disk' = [disk EXCEPT !.works = file,
                     !.coordinator = [before |-> disk.works, works |-> w, ledger |-> l]]
    BY <1>5 DEF HalfWritten
  <2>3. disk'.coordinator = [before |-> disk.works, works |-> w, ledger |-> l]
    BY <2>2, Shapes DEF IInv, Disks
  <2>4. Promised' = l
    BY <2>1, <2>3 DEF Promised
  <2> QED BY <1>3, <1>5, <2>4
<1> QED BY <1>2, <1>4, <1>5 DEF CommitFails, CommitDies

\* A crash shows what the disk shows.
LEMMA DiskUntouched ==
  ASSUME landed' = landed, disk' = disk
  PROVE  UNCHANGED Shown
BY SameShown DEF Promised

\* So does every write but that of a commit.
LEMMA CustodyUntouched ==
  ASSUME landed' = landed, disk'.ledger = disk.ledger, disk'.coordinator = disk.coordinator
  PROVE  UNCHANGED Shown
BY SameShown DEF Promised

LEMMA WorksFileReplaced ==
  ASSUME TypeOK, NEW w, landed' = landed, disk' = [disk EXCEPT !.works = w] \/ disk' = disk
  PROVE  UNCHANGED Shown
<1>1. disk'.ledger = disk.ledger /\ disk'.coordinator = disk.coordinator
  BY Shapes DEF Disks
<1> QED BY <1>1, CustodyUntouched

\* Saving the last of an effect delivers what is owed.
LEMMA SaveDelivers ==
  ASSUME IInv, NEW p \in Places, SaveEffect(p)
  PROVE  Promise!Next \/ UNCHANGED Shown
<1> USE DEF IInv
<1>1. cur \in Ids /\ Pending(cur) /\ Up
  BY WorkingsAssumption DEF SaveEffect, TypeOK, Course, Settling, Up
<1>2. disk.ledger[cur] = "spent" /\ Promised[cur] = "spent"
  BY <1>1 DEF Books, MemoryAgrees, CommitAgrees, Agree, Pending, Live, Promised
<1>3. disk'.ledger = disk.ledger /\ disk'.coordinator = disk.coordinator
  BY Shapes DEF SaveEffect, Disks
<1>4. Promised' = Promised
  BY <1>3 DEF Promised
<1>5. landed' = landed \/ landed' = landed \cup {cur}
  BY DEF SaveEffect
<1>6. CASE cur \in landed
  BY <1>4, <1>5, <1>6, SameShown
<1>7. CASE cur \notin landed /\ landed' = landed \cup {cur}
  <2>1. Shown[cur] = "owed"
    BY <1>1, <1>2, <1>7 DEF Shown
  <2>2. Shown' = [Shown EXCEPT ![cur] = "delivered"]
    BY <1>4, <1>7 DEF Shown
  <2>3. Promise!Move(cur, "owed", "delivered")
    BY <2>1, <2>2 DEF Promise!Move
  <2> QED BY <1>1, <2>3 DEF Promise!Next, Promise!Deliver
<1> QED BY <1>4, <1>5, <1>6, <1>7, SameShown

LEMMA StepsMove ==
  ASSUME IInv, Steps
  PROVE  Promise!Next \/ UNCHANGED Shown
<1> USE DEF IInv
<1>1. ASSUME NEW id \in Ids, Open(id), Up
      PROVE  disk.ledger[id] = "held"
  BY <1>1 DEF Books, MemoryAgrees, Agree, Open, Live
<1>2. CASE Complete
  <2>1. cur \in Ids /\ Open(cur) /\ Up /\ landed' = landed
    BY <1>2, WorkingsAssumption DEF Complete, TypeOK, Course, Settling, Up
  <2>2. CASE UNCHANGED disk
    BY <2>1, <2>2, DiskUntouched
  <2>3. Fits(WithPhase(cur, "pending"), cur, "spent")
    BY <2>1, SpendFits
  <2> QED BY <1>1, <1>2, <2>1, <2>2, <2>3, CommitMoves DEF Complete, Commit
<1>3. CASE GiveBack
  <2>1. cur \in Ids /\ Open(cur) /\ Up /\ landed' = landed
    BY <1>3, WorkingsAssumption DEF GiveBack, TypeOK, Course, Settling, Up
  <2>2. Fits(Without(cur), cur, "refunded")
    BY <2>1, GiveBackFits
  <2> QED BY <1>1, <1>3, <2>1, <2>2, CommitMoves DEF GiveBack, Commit
<1>4. CASE InterruptLoaded \/ InterruptActor
  <2>1. landed' = landed /\ Up
    BY <1>4 DEF InterruptLoaded, InterruptActor, Up
  <2>2. CASE UNCHANGED disk
    BY <2>1, <2>2, DiskUntouched
  <2>3. ASSUME NEW id \in Ids, Open(id),
               \/ Committed(Without(id), id, "refunded")
               \/ CommitFails(Without(id), id, "refunded")
               \/ CommitDies(Without(id), id, "refunded")
        PROVE  Promise!Next \/ UNCHANGED Shown
    BY <1>1, <2>1, <2>3, GiveBackFits, CommitMoves
  <2>4. CASE InterruptLoaded
    BY <2>3, <2>4, FirstIsMember DEF InterruptLoaded, Commit
  <2>5. CASE InterruptActor
    BY <2>2, <2>3, <2>5, FirstIsMember DEF InterruptActor, Commit
  <2> QED BY <1>4, <2>4, <2>5
<1>5. CASE Apply \/ Replay
  BY <1>5, DiskUntouched DEF Apply, Replay
<1>6. CASE Finish
  <2>1. landed' = landed /\ (disk' = [disk EXCEPT !.works = works'] \/ disk' = disk)
    BY <1>6 DEF Finish, SaveWorks
  <2> QED BY <2>1, WorksFileReplaced
<1>7. CASE SaveLeaver
  BY <1>7, ProfileSaved, CustodyUntouched DEF SaveLeaver
<1>8. CASE Start
  <2>1. landed' = landed
    BY <1>8 DEF Start
  <2>2. disk' = disk \/ (disk'.coordinator = None /\ disk'.ledger = Promised)
    BY <1>8, StartRecovers
  <2>3. Promised' = Promised
    BY <2>2 DEF Promised
  <2> QED BY <2>1, <2>3, SameShown
<1> QED BY <1>2, <1>3, <1>4, <1>5, <1>6, <1>7, <1>8, SaveDelivers DEF Steps

LEMMA NextMoves ==
  ASSUME IInv, [Next]_vars
  PROVE  Promise!Next \/ UNCHANGED Shown
<1>1. CASE Steps
  BY <1>1, StepsMove
<1>2. ASSUME NEW kind \in Kinds, Begin(kind) PROVE Promise!Next \/ UNCHANGED Shown
  <2>1. landed' = landed /\ Up
    BY <1>2 DEF Begin, Idle, Up
  <2>2. PICK id \in First({i \in Ids : disk.ledger[i] = "free"}) :
          LET w == [works EXCEPT ![id] = Starting(kind)]
          IN  Committed(w, id, "held") \/ CommitFails(w, id, "held") \/ CommitDies(w, id, "held")
    BY <1>2 DEF Begin, Commit, Starting
  <2>3. id \in Ids /\ disk.ledger[id] = "free"
    BY FirstIsMember
  <2>4. Fits([works EXCEPT ![id] = Starting(kind)], id, "held")
    BY <2>1, <2>3, BeginFits
  <2> QED BY <2>1, <2>2, <2>3, <2>4, CommitMoves
<1>3. ASSUME NEW id \in Ids, Hold(id) \/ Release(id) PROVE UNCHANGED Shown
  <2>1. landed' = landed /\ (disk' = [disk EXCEPT !.works = works'] \/ disk' = disk)
    BY <1>3 DEF Hold, Release, Activate, SaveWorks
  <2> QED BY <2>1, WorksFileReplaced DEF IInv
<1>4. ASSUME NEW id \in Ids, Cancel(id) \/ OutOfReach(id) \/ Due(id) \/ Break(id)
      PROVE  UNCHANGED Shown
  BY <1>4, DiskUntouched DEF Cancel, OutOfReach, Due, Break
<1>5. CASE Enter \/ EndSession("leave") \/ EndSession("die")
  BY <1>5, DiskUntouched DEF Enter, EndSession
<1>6. CASE Kick
  BY <1>6, ProfileSaved, CustodyUntouched DEF IInv, Kick
<1>7. ASSUME NEW p \in Places, NEW value \in {0, Other}, Edit(p, value)
      PROVE  UNCHANGED Shown
  BY <1>7, DiskUntouched DEF Edit
<1>8. ASSUME NEW p \in Places, SaveCell(p) PROVE UNCHANGED Shown
  <2>1. disk'.ledger = disk.ledger /\ disk'.coordinator = disk.coordinator
    BY <1>8, Shapes DEF IInv, SaveCell, Disks
  <2> QED BY <1>8, <2>1, CustodyUntouched DEF SaveCell
<1>9. CASE SaveWorld
  BY <1>9, WorksFileReplaced DEF IInv, SaveWorld
<1>10. CASE Crash \/ UNCHANGED vars
  BY <1>10, DiskUntouched DEF Crash, vars
<1> QED BY <1>1, <1>2, <1>3, <1>4, <1>5, <1>6, <1>7, <1>8, <1>9, <1>10 DEF Next

\* magic-workings-plan.md, "write-ahead and exact-once": seen from the disk, a working is
\* reserved once, then either given back or spent, never both, and delivered once and
\* only for Current that was spent, whatever crashes and write errors do to its handlers.
THEOREM PromiseKept == Spec => ImplementsCustody
<1>1. Init => Promise!Init
  BY IdsAreApart DEF Init, Promise!Init, Shown, Promised
<1>2. IInv /\ [Next]_vars => [Promise!Next]_Shown
  BY NextMoves
<1> QED BY <1>1, <1>2, Sound, PTL DEF Spec, ImplementsCustody, Promise!Spec
=================================================================================
