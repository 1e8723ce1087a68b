-------------------------------- MODULE Workings --------------------------------
(***************************************************************************)
(* src/src/workings.rs, src/src/world/workings/: the life of a magical     *)
(* working, over the two durable things it has to keep together: the       *)
(* custody of its Current (workings file and Arcane ledger, replaced in    *)
(* one linked commit) and its effect (chunk files, or a player's profile). *)
(*                                                                         *)
(* Completing a working is a write-ahead: the commit that spends its       *)
(* Current leaves it PendingApply, then the effect is applied in memory,   *)
(* saved file by file, and only then is the working removed.  A start      *)
(* replays what a crash cut short.  One thread runs every handler, so only *)
(* a crash or an I/O error comes between the steps of one; the player, the *)
(* simulation and the saves act between handlers.                          *)
(*                                                                         *)
(* One guest with one wand and one ritual frame.  A place (a cell, or the  *)
(* two inventory slots of Fieldmend) holds 0, the state workings start     *)
(* from, the id of the working whose effect it shows, or Other.  The two   *)
(* cells lie in two chunks.                                                *)
(***************************************************************************)
EXTENDS Naturals

CONSTANTS None,
          MayFail,      \* the writes that may report an I/O error
          MaxWorkings, MaxEdits, MaxFaults, MaxCrashes   \* bounds

Ids     == 1..MaxWorkings
Other   == MaxWorkings + 1
Kinds   == {"kindle", "rootwake", "fieldmend", "bed"}
Ritual  == {"bed"}
Targets == [kindle |-> {"near"}, rootwake |-> {"near", "far"},
            fieldmend |-> {"slots"}, bed |-> {"far"}]
Places  == {"near", "far", "slots"}
Phases  == {"charging", "active", "pending"}
Works   == [Ids -> {None} \cup [kind : Kinds, phase : Phases]]
Custody == [Ids -> {"free", "held", "spent", "refunded"}]

ASSUME WorkingsAssumption ==
  /\ None \notin Nat \cup {"complete", "cancel", "apply", "save"}
  /\ None \notin [kind : Kinds, phase : Phases]
  /\ None \notin [before : Works, works : Works, ledger : Custody]
  /\ MayFail \subseteq {"commit", "workings", "place"}
  /\ {MaxWorkings, MaxEdits, MaxFaults, MaxCrashes} \subseteq Nat

VARIABLES disk,    \* works, ledger, coordinator and the saved places
          works,   \* workings_state.active in memory
          stuck,   \* has a failed commit put the ledger's ids out of step?
          places,  \* the resident chunks and the guest's inventory
          guest,   \* [at, channel]: away, here or kicked; active_working
          call,    \* the handler under way, or "idle", "down", "refused"
          step,    \* where it is in complete_working
          cur,     \* the working it settles
          todo,    \* places of its effect still to be saved
          landed,  \* history: workings whose whole effect has been on disk
          budget   \* what is left of the bounds
vars == <<disk, works, stuck, places, guest, call, step, cur, todo, landed, budget>>

Init ==
  /\ disk = [works |-> [id \in Ids |-> None], ledger |-> [id \in Ids |-> "free"],
             coordinator |-> None, places |-> [p \in Places |-> 0]]
  /\ works = disk.works /\ places = disk.places
  /\ stuck = FALSE
  /\ guest = [at |-> "away", channel |-> None]
  /\ call = "idle" /\ step = None /\ cur = None /\ todo = {} /\ landed = {}
  /\ budget = [edits |-> MaxEdits, faults |-> MaxFaults, crashes |-> MaxCrashes]

-----------------------------------------------------------------------------
(* Helpers. *)

Live(id)    == works[id] # None
Pending(id) == Live(id) /\ works[id].phase = "pending"
Open(id)    == Live(id) /\ works[id].phase # "pending"
Wand(id)    == Live(id) /\ works[id].kind \notin Ritual
Aim(id)     == Targets[works[id].kind]
WithPhase(id, p) == [works EXCEPT ![id] = [@ EXCEPT !.phase = p]]
Without(id)      == [works EXCEPT ![id] = None]

Fault(kind) == kind \in MayFail /\ budget.faults > 0
               /\ budget' = [budget EXCEPT !.faults = @ - 1]
Die         == budget.crashes > 0 /\ budget' = [budget EXCEPT !.crashes = @ - 1]

\* Workings are kept, and gone through, in the order of their ids.
First(S) == {x \in S : \A y \in S : x <= y}

\* WorkingsState::start: one channel per wand, one rite per frame, no shared target.
Conflict(kind, id) ==
  \/ kind \in Ritual <=> works[id].kind \in Ritual
  \/ Targets[kind] \cap Aim(id) # {}

\* A handler that is over; one that goes on with the settlement of a working.
Return(next) == call' = next /\ step' = None /\ cur' = None /\ todo' = {}
GoOn(id, s)  == step' = s /\ cur' = id /\ todo' = {}
Idle         == call = "idle" /\ step = None
Here         == guest.at = "here"
Clear(id)    == guest' = [guest EXCEPT !.channel = IF @ = id THEN None ELSE @]

\* A crash loses everything but the disk.
Down ==
  /\ Die /\ Return("down") /\ stuck' = FALSE
  /\ works' = disk'.works /\ places' = disk'.places
  /\ guest' = [at |-> "away", channel |-> None]

(***************************************************************************)
(* commit_linked_files as its callers see it (ArcaneLedger is a model of   *)
(* its own): the workings file and the ledger change together, and memory  *)
(* after them.  An error leaves an id that the next transaction cannot     *)
(* follow, and perhaps the coordinator, with the workings file replaced or *)
(* not; so does a crash.                                                   *)
(***************************************************************************)
Able == ~stuck /\ disk.coordinator = None

HalfWritten(w, id, to) == \E file \in {disk.works, w} :
  disk' = [disk EXCEPT !.works = file,
             !.coordinator = [before |-> disk.works, works |-> w,
                              ledger |-> [disk.ledger EXCEPT ![id] = to]]]

Committed(w, id, to) ==
  /\ Able /\ disk' = [disk EXCEPT !.works = w, !.ledger[id] = to]
  /\ works' = w /\ UNCHANGED <<stuck, budget, places>>

CommitFails(w, id, to) ==
  /\ \/ ~Able /\ UNCHANGED <<disk, stuck, budget>>
     \/ Able /\ Fault("commit") /\ stuck' = TRUE /\ (UNCHANGED disk \/ HalfWritten(w, id, to))
  /\ UNCHANGED <<works, places>>

CommitDies(w, id, to) == Able /\ HalfWritten(w, id, to) /\ Down

Commit(w, id, to, done, failed) ==
  \/ Committed(w, id, to) /\ done
  \/ CommitFails(w, id, to) /\ failed
  \/ CommitDies(w, id, to)

\* WorkingsState::save: an ordinary replacement of the file.
SaveWorks(done, failed) ==
  \/ disk' = [disk EXCEPT !.works = works'] /\ done /\ UNCHANGED budget
  \/ Fault("workings") /\ failed /\ UNCHANGED disk

-----------------------------------------------------------------------------
(* The guest's requests (operate_guest_working). *)

\* begin_wand_working or a ritual; one begun from its frame is not held.
Begin(kind) ==
  /\ Idle /\ Here /\ guest.channel = None
  /\ \A p \in Targets[kind] : places[p] = 0
  /\ \A other \in Ids : Live(other) => ~Conflict(kind, other)
  /\ \E id \in First({id \in Ids : disk.ledger[id] = "free"}) :
       Commit([works EXCEPT ![id] = [kind |-> kind, phase |-> "charging"]], id, "held",
              /\ Return("idle")
              /\ \/ guest' = [guest EXCEPT !.channel = id]
                 \/ kind \in Ritual /\ UNCHANGED guest,
              Return("idle") /\ UNCHANGED guest)
  /\ UNCHANGED landed

\* Fault: a settled working is made active again.
ActivateAnyPhase(id, done) ==
  /\ works' = WithPhase(id, "active")
  /\ SaveWorks(done, Return("idle") /\ UNCHANGED guest)
  /\ UNCHANGED <<stuck, places, landed>>

\* activate_working: memory keeps the phase even when the save fails.
Activate(id, done) ==
  /\ works[id].phase = "charging" /\ works' = WithPhase(id, "active")
  /\ SaveWorks(done, Return("idle") /\ UNCHANGED guest)
  /\ UNCHANGED <<stuck, places, landed>>

Held(id) == Idle /\ Here /\ guest.channel = id /\ Live(id)

Hold(id) == Held(id) /\ Activate(id, Return("idle") /\ UNCHANGED guest)

\* Too early, a release is a cancellation; a ritual goes on without its holder.
Release(id) ==
  /\ Held(id)
  /\ \/ /\ works[id].kind \notin Ritual
        /\ \/ Activate(id, call' = "guest" /\ GoOn(id, "complete") /\ UNCHANGED guest)
           \/ /\ works[id].phase # "charging" /\ call' = "guest"
              /\ GoOn(id, IF Pending(id) THEN "apply" ELSE "complete")
              /\ UNCHANGED <<disk, works, stuck, places, guest, landed, budget>>
     \/ /\ works[id].kind \in Ritual
        /\ \/ Activate(id, Return("idle") /\ Clear(id))
           \/ /\ works[id].phase # "charging" /\ Clear(id) /\ Return("idle")
              /\ UNCHANGED <<disk, works, stuck, places, landed, budget>>

\* Fault: a settled working can be cancelled.
CancelSettled(id) ==
  /\ Held(id) /\ ~(Pending(id) /\ works[id].kind = "fieldmend")
  /\ call' = "guest" /\ GoOn(id, "cancel")
  /\ UNCHANGED <<disk, works, stuck, places, guest, landed, budget>>

\* A pending Fieldmend has no inventory to go on with here and is refused.
Cancel(id) ==
  /\ Held(id) /\ ~(Pending(id) /\ works[id].kind = "fieldmend")
  /\ call' = "guest" /\ GoOn(id, IF Pending(id) THEN "apply" ELSE "cancel")
  /\ UNCHANGED <<disk, works, stuck, places, guest, landed, budget>>

\* The pump drops a channel whose working is gone or, for an effect on cells, whose
\* path is broken, and interrupts the working; the player feels it only afterwards.
OutOfReach(id) ==
  /\ Idle /\ Here /\ guest.channel = id
  /\ guest' = [guest EXCEPT !.channel = None]
  /\ \/ ~Live(id) /\ Return("idle")
     \/ /\ Wand(id) /\ works[id].kind # "fieldmend" /\ call' = "guest"
        /\ GoOn(id, IF Pending(id) THEN "apply" ELSE "cancel")
  /\ UNCHANGED <<disk, works, stuck, places, landed, budget>>

-----------------------------------------------------------------------------
(* tick_workings: a ritual that is due; one whose frame is broken, and a wand  *)
(* channel whose chunk has been evicted, are interrupted.                      *)

\* Fault: the clock asks only for rituals somebody held to the end.
DueOnceActive(id) ==
  /\ Idle /\ Live(id) /\ works[id] = [kind |-> "bed", phase |-> "active"]
  /\ call' = "tick" /\ GoOn(id, "complete")
  /\ UNCHANGED <<disk, works, stuck, places, guest, landed, budget>>

Due(id) ==
  /\ Idle /\ Open(id) /\ works[id].kind \in Ritual
  /\ call' = "tick" /\ GoOn(id, "complete")
  /\ UNCHANGED <<disk, works, stuck, places, guest, landed, budget>>

Break(id) ==
  /\ Idle /\ Open(id)
  /\ IF Wand(id) THEN works[id].kind # "fieldmend" ELSE works[id].phase = "active"
  /\ call' = "tick" /\ GoOn(id, "cancel")
  /\ UNCHANGED <<disk, works, stuck, places, guest, landed, budget>>

-----------------------------------------------------------------------------
(* settle_working, in the steps a crash can separate. *)

\* A completion the clock asked for and that fails is interrupted, which retries
\* one that is already pending; a failed start ends the process.
OnError(next) ==
  CASE call = "tick" /\ Open(cur)    -> call' = "retry" /\ GoOn(cur, "cancel")
    [] call = "tick" /\ Pending(cur) -> call' = "retry" /\ GoOn(cur, "apply")
    [] call = "boot"                 -> Return(next)
    [] OTHER                         -> Return("idle")

Complete ==
  /\ step = "complete"
  /\ \/ /\ \A p \in Aim(cur) : places[p] = 0
        /\ Commit(WithPhase(cur, "pending"), cur, "spent",
                  GoOn(cur, "apply") /\ UNCHANGED <<call, guest>>,
                  OnError("down") /\ UNCHANGED guest)
     \/ /\ \E p \in Aim(cur) : places[p] # 0
        /\ OnError("down")
        /\ UNCHANGED <<disk, works, stuck, places, guest, budget>>
  /\ UNCHANGED landed

\* Cancelled or interrupted: the reservation goes back, less its dross.  The clock
\* knows no channel: the pump drops the stale pointer later (OutOfReach).
GiveBack ==
  /\ step = "cancel"
  /\ Commit(Without(cur), cur, "refunded",
            Return("idle") /\ IF call = "guest" THEN Clear(cur) ELSE UNCHANGED guest,
            Return("idle") /\ UNCHANGED guest)
  /\ UNCHANGED landed

\* apply_working_effect, apply_inventory_effect: the whole after state is accepted,
\* the whole before state is changed, anything else is an error.
Apply ==
  /\ step = "apply"
  /\ \/ /\ \A p \in Aim(cur) : places[p] = 0
        /\ places' = [p \in Places |-> IF p \in Aim(cur) THEN cur ELSE places[p]]
        /\ step' = "save" /\ todo' = Aim(cur) /\ UNCHANGED <<call, cur>>
     \/ /\ \A p \in Aim(cur) : places[p] = cur
        /\ step' = "save" /\ todo' = Aim(cur) /\ UNCHANGED <<call, cur, places>>
     \/ /\ ~\E value \in {0, cur} : \A p \in Aim(cur) : places[p] = value
        /\ OnError("refused") /\ UNCHANGED places
  /\ UNCHANGED <<disk, works, stuck, guest, landed, budget>>

\* save_effect_chunks chunk by chunk, or the caller's profiles.save.
SaveEffect(p) ==
  /\ step = "save" /\ p \in todo
  /\ \/ /\ disk' = [disk EXCEPT !.places[p] = places[p]]
        /\ todo' = todo \ {p} /\ UNCHANGED <<call, step, cur, budget>>
     \/ Fault("place") /\ OnError("down") /\ UNCHANGED disk
  /\ landed' = landed \cup {id \in {cur} : \A q \in Aim(id) : disk'.places[q] = id}
  /\ UNCHANGED <<works, stuck, places, guest>>

\* Fault: the working is removed before its effect is saved.
FinishUnsaved ==
  /\ step = "save" /\ works' = Without(cur)
  /\ SaveWorks(Return(IF call = "boot" THEN "boot" ELSE "idle") /\ UNCHANGED guest,
               Return("idle") /\ UNCHANGED guest)
  /\ UNCHANGED <<stuck, places, landed>>

\* The working is removed in memory even when the file cannot be written.
Finish ==
  /\ step = "save" /\ todo = {}
  /\ works' = Without(cur)
  /\ SaveWorks(/\ Return(IF call = "boot" THEN "boot" ELSE "idle")
               /\ IF call = "guest" THEN Clear(cur) ELSE UNCHANGED guest,
               /\ Return(IF call = "boot" THEN "down" ELSE "idle") /\ UNCHANGED guest)
  /\ UNCHANGED <<stuck, places, landed>>

-----------------------------------------------------------------------------
(* The guest's session. *)

\* PrepareEntry: the profile is loaded and a pending Fieldmend resumed; whatever
\* becomes of it, the guest comes in.
Enter ==
  /\ Idle /\ guest.at = "away"
  /\ guest' = [at |-> "here", channel |-> None]
  /\ places' = [places EXCEPT !["slots"] = disk.places["slots"]]
  /\ LET owed == {id \in Ids : Pending(id) /\ works[id].kind = "fieldmend"} IN
     \/ owed = {} /\ Return("idle")
     \/ call' = "enter" /\ \E id \in First(owed) : GoOn(id, "apply")
  /\ UNCHANGED <<disk, works, stuck, landed, budget>>

\* Fault: a death forgets the channel and interrupts nothing.
DieQuietly(how) ==
  /\ Idle /\ Here
  /\ guest' = [at |-> IF how = "die" THEN "here" ELSE "away", channel |-> None]
  /\ call' = IF how = "die" THEN "idle" ELSE how
  /\ UNCHANGED <<disk, works, stuck, places, step, cur, todo, landed, budget>>

\* HostEvent::Left, and a death, end every working of the actor that is not pending;
\* the first that cannot be settled ends the attempt.
EndSession(how) ==
  /\ Idle /\ Here
  /\ guest' = [at |-> IF how = "die" THEN "here" ELSE "away", channel |-> None]
  /\ call' = how
  /\ UNCHANGED <<disk, works, stuck, places, step, cur, todo, landed, budget>>

Ended == Return(IF call = "leave" THEN "profile" ELSE "idle")

InterruptActor ==
  LET open == {id \in Ids : Open(id)} IN
  /\ call \in {"leave", "die"}
  /\ \/ \E id \in First(open) :
          Commit(Without(id), id, "refunded",
                 UNCHANGED <<call, step, cur, todo, guest>>, Ended /\ UNCHANGED guest)
     \/ /\ open = {} /\ Ended
        /\ UNCHANGED <<disk, works, stuck, places, guest, budget>>
  /\ UNCHANGED landed

\* profiles.save for a guest who has left; an error is only logged.
SaveProfile ==
  \/ disk' = [disk EXCEPT !.places["slots"] = places["slots"]] /\ UNCHANGED budget
  \/ Fault("place") /\ UNCHANGED disk

SaveLeaver ==
  /\ call = "profile" /\ SaveProfile /\ Return("idle")
  /\ places' = [places EXCEPT !["slots"] = 0]
  /\ UNCHANGED <<works, stuck, guest, landed>>

\* kick_guest: the guest is gone before the connection's Left arrives, and refused
\* for the rest of the session.
Kick ==
  /\ Idle /\ Here /\ SaveProfile
  /\ guest' = [at |-> "kicked", channel |-> None]
  /\ places' = [places EXCEPT !["slots"] = 0]
  /\ UNCHANGED <<works, stuck, call, step, cur, todo, landed>>

-----------------------------------------------------------------------------
(* The rest of the world. *)

\* The simulation and the players change a cell or move the stacks: nothing reserves
\* a target against them.
Edit(p, value) ==
  /\ Idle /\ budget.edits > 0 /\ places[p] # value
  /\ p = "slots" => Here
  /\ places' = [places EXCEPT ![p] = value]
  /\ budget' = [budget EXCEPT !.edits = @ - 1]
  /\ UNCHANGED <<disk, works, stuck, guest, call, step, cur, todo, landed>>

\* A chunk is saved when it leaves the view or the world is saved.
SaveCell(p) ==
  /\ Idle /\ disk.places[p] # places[p]
  /\ disk' = [disk EXCEPT !.places[p] = places[p]]
  /\ UNCHANGED <<works, stuck, places, guest, call, step, cur, todo, landed, budget>>

\* save_modified writes the workings as they are in memory.
SaveWorld ==
  /\ Idle /\ disk.works # works
  /\ disk' = [disk EXCEPT !.works = works]
  /\ UNCHANGED <<works, stuck, places, guest, call, step, cur, todo, landed, budget>>

Crash == call \notin {"down", "refused"} /\ UNCHANGED <<disk, landed>> /\ Down

-----------------------------------------------------------------------------
(* World load. *)

\* recover_linked_commit, then reconcile_transient_owners.
Start ==
  LET c     == disk.coordinator
      found == IF c = None THEN disk ELSE
               [disk EXCEPT !.works = c.works, !.ledger = c.ledger, !.coordinator = None] IN
  /\ call = "down" /\ stuck' = FALSE /\ places' = disk.places
  /\ IF c # None /\ disk.works \notin {c.before, c.works}
     THEN Return("refused") /\ UNCHANGED <<disk, works>>
     ELSE /\ Return("boot") /\ works' = found.works
          /\ disk' = [found EXCEPT !.ledger = [id \in Ids |->
               IF @[id] = "held" /\ found.works[id] = None THEN "refunded" ELSE @[id]]]
  /\ UNCHANGED <<guest, landed, budget>>

\* interrupt_loaded_wand_workings: no session holds a channel any more.
InterruptLoaded ==
  /\ call = "boot" /\ step = None
  /\ \E id \in First({id \in Ids : Wand(id) /\ Open(id)}) :
       Commit(Without(id), id, "refunded",
              UNCHANGED <<call, step, cur, todo, guest>>, Return("down") /\ UNCHANGED guest)
  /\ UNCHANGED landed

\* replay_pending_workings, but for Fieldmend, which waits for its player.
Replay ==
  LET owed == {id \in Ids : Pending(id) /\ works[id].kind # "fieldmend"} IN
  /\ call = "boot" /\ step = None
  /\ ~\E id \in Ids : Wand(id) /\ Open(id)
  /\ \/ owed = {} /\ Return("idle")
     \/ UNCHANGED call /\ \E id \in First(owed) : GoOn(id, "apply")
  /\ UNCHANGED <<disk, works, stuck, places, guest, landed, budget>>

Steps ==
  \/ Complete \/ GiveBack \/ Apply \/ Finish
  \/ \E p \in Places : SaveEffect(p)
  \/ InterruptActor \/ SaveLeaver \/ Start \/ InterruptLoaded \/ Replay

Next ==
  \/ Steps
  \/ \E kind \in Kinds : Begin(kind)
  \/ \E id \in Ids : \/ Hold(id) \/ Release(id) \/ Cancel(id) \/ OutOfReach(id)
                     \/ Due(id) \/ Break(id)
  \/ Enter \/ EndSession("leave") \/ EndSession("die") \/ Kick
  \/ \E p \in Places : \/ \E value \in {0, Other} : Edit(p, value)
                       \/ p # "slots" /\ SaveCell(p)
  \/ SaveWorld \/ Crash

\* The thread finishes the handler it is in, and comes back to its clock whatever
\* the players ask for in between.
Spec == Init /\ [][Next]_vars /\ WF_vars(Steps) /\ \A id \in Ids : SF_vars(Due(id))

-----------------------------------------------------------------------------
(* Properties. *)

TypeOK ==
  /\ disk \in [works : Works, ledger : Custody, places : [Places -> 0..Other],
               coordinator : {None} \cup [before : Works, works : Works, ledger : Custody]]
  /\ works \in Works /\ stuck \in BOOLEAN /\ places \in [Places -> 0..Other]
  /\ guest \in [at : {"away", "here", "kicked"}, channel : {None} \cup Ids]
  /\ call \in {"idle", "guest", "tick", "retry", "enter", "leave", "die", "profile",
               "boot", "down", "refused"}
  /\ step \in {None, "complete", "cancel", "apply", "save"}
  /\ cur \in {None} \cup Ids /\ (step = None <=> cur = None)
  /\ todo \subseteq Places /\ landed \subseteq Ids
  /\ budget \in [edits : 0..MaxEdits, faults : 0..MaxFaults, crashes : 0..MaxCrashes]

\* On disk, whenever no commit is half way, a reservation is held in the ledger for
\* exactly the workings that have not been settled, and none is held for one that is
\* pending (audit_world counts missing, mismatched and orphan accounts).
CurrentAccounted ==
  disk.coordinator = None => \A id \in Ids :
    /\ disk.ledger[id] = "held" <=>
         disk.works[id] # None /\ disk.works[id].phase # "pending"
    /\ disk.works[id] # None /\ disk.works[id].phase = "pending" => disk.ledger[id] = "spent"

\* The two durable records of a working agree whenever no commit is half way.
CustodyInv == TypeOK /\ CurrentAccounted

\* An effect is never seen, in memory or on disk, before its Current is durably spent,
\* and never for Current that went back.
EffectIsPaid ==
  \A id \in Ids, p \in Places :
    id \in {places[p], disk.places[p]} => disk.ledger[id] = "spent"

\* A settled working disappears from the workings file only after the whole of its
\* effect has been on disk: nothing is paid for and lost.
FinishedHasLanded ==
  disk.coordinator = None => \A id \in Ids :
    disk.ledger[id] = "spent" /\ disk.works[id] = None => id \in landed

\* Current is paid for every effect, and an effect comes of every payment.
PaidIsDelivered == EffectIsPaid /\ FinishedHasLanded

\* A wand working is open only while its player channels it.  Whatever takes the channel
\* away (a cancellation, a broken path, the clock, a death, a departure, a restart) has
\* given the Current back when its handler is over, unless the ledger has stopped taking
\* transactions; a player the host kicked is the exception.
Orphans == {id \in Ids : Wand(id) /\ Open(id) /\ guest.channel # id}
Settled == call = "idle" /\ ~stuck /\ disk.coordinator = None
ChannelsAreHeld == Settled /\ guest.at # "kicked" => Orphans = {}

\* The same of every player ("so a stale connection-side channel pointer cannot strand a
\* reservation", lifecycle.rs).  The code does not keep it: the departure of a guest who
\* was kicked finds no guest and interrupts nothing.
NoneIsStranded == Settled => Orphans = {}

\* A world can always be started again: a replay finds a state it knows
\* ("crash-safe completion", lifecycle.rs).
ReplayNeverRefuses == call # "refused"

\* A ritual does not stay reserved for ever, short of an I/O error that stops the ledger.
RitualSettles ==
  \A id \in Ids :
    Open(id) /\ ~Wand(id) ~> ~Open(id) \/ stuck \/ call \in {"down", "refused"}

\* Seen from the disk, with a half-written commit taken as done, every working keeps
\* the promise of WorkingCustody.
Promised == IF disk.coordinator = None THEN disk.ledger ELSE disk.coordinator.ledger
Shown ==
  [id \in Ids |-> IF id \in landed THEN "delivered" ELSE
     [free |-> "free", held |-> "reserved", refunded |-> "returned", spent |-> "owed"]
       [Promised[id]]]
Promise  == INSTANCE WorkingCustody WITH custody <- Shown
ImplementsCustody == Promise!Spec
=================================================================================
