------------------------------ MODULE TerrainJobs ------------------------------
(***************************************************************************)
(* src/src/terrain_jobs: the worker pool that loads or generates terrain.  *)
(* One owner thread asks for positions, cancels them and collects results; *)
(* Workers share a queue under a mutex and sleep on its condition          *)
(* variable.  Chunk contents, read errors' causes and what a caller does   *)
(* with a result are abstracted: a completion is a position, the pool      *)
(* generation that prepared it and whether the read succeeded.             *)
(***************************************************************************)
EXTENDS Queues, FiniteSets

CONSTANTS Workers,        \* threads of one pool
          Positions,      \* chunk positions
          NoPos,          \* "no position in hand"
          Limit,          \* the caller's in-flight budget
          MaxGeneration   \* bound: content changes explored

ASSUME JobsAssumption == /\ IsFiniteSet(Workers) /\ Workers # {}
                         /\ IsFiniteSet(Positions)
                         /\ NoPos \notin Positions
                         /\ Limit \in Nat \ {0}
                         /\ MaxGeneration \in Nat

VARIABLES entry, ordinary,  \* WorkQueue: two FIFO queues
          pending,          \* WorkQueue: everything queued, running or ready
          stopped, failed,  \* WorkQueue: no more work; a worker-wide failure
          worker,           \* where each thread is, what it holds, whose it is
          ready,            \* the completion channel
          generation,       \* identity of the current pool
          failures,         \* positions whose read failed, still of interest
          reported,         \* the failure notification was taken
          phase             \* what the owner thread is doing

queueVars == <<entry, ordinary, pending, stopped, failed>>
ownerVars == <<generation, failures, reported, phase>>
poolVars == <<queueVars, worker, ready, ownerVars>>

Queued  == ToSet(entry) \cup ToSet(ordinary)
Backlog == Len(entry) + Len(ordinary)
At(place) == {w \in Workers : worker[w].at = place}

NewPool(g, place) == [w \in Workers |-> [at |-> place, pos |-> NoPos, gen |-> g]]

PoolInit ==
  /\ entry = <<>> /\ ordinary = <<>> /\ pending = {}
  /\ stopped = FALSE /\ failed = FALSE
  /\ worker = NewPool(0, "awake")
  /\ ready = <<>>
  /\ generation = 0 /\ failures = {} /\ reported = FALSE
  /\ phase = "open"

-----------------------------------------------------------------------------
(* The condition variable. *)

\* Fault: request forgets to notify.
NotifyNobody == UNCHANGED worker

NotifyOne ==
  IF At("asleep") = {} THEN UNCHANGED worker
  ELSE \E w \in At("asleep") : worker' = [worker EXCEPT ![w].at = "awake"]

Woken(ws) == [w \in Workers |-> IF ws[w].at = "asleep"
                                THEN [ws[w] EXCEPT !.at = "awake"] ELSE ws[w]]

\* WorkQueue::stop
EmptyQueue == /\ stopped' = TRUE
              /\ entry' = <<>> /\ ordinary' = <<>> /\ pending' = {}

-----------------------------------------------------------------------------
(* The owner's calls.  Calls that change nothing (a duplicate, a full      *)
(* queue, a stopped queue, a suppressed position) are stuttering steps.    *)

CanRequest(p) == phase = "open" /\ ~stopped /\ p \notin failures

RequestUnchanged == UNCHANGED <<stopped, failed, ready, ownerVars>>

\* request, already pending: entry priority promotes queued ordinary work.
Promote(p) ==
  /\ CanRequest(p)
  /\ \E i \in DOMAIN ordinary :
       /\ ordinary[i] = p /\ \A j \in 1..(i - 1) : ordinary[j] # p
       /\ ordinary' = RemoveAt(ordinary, i)
  /\ entry' = Append(entry, p)
  /\ NotifyOne
  /\ UNCHANGED pending
  /\ RequestUnchanged

Enqueue(p, urgent) ==
  /\ pending' = pending \cup {p}
  /\ entry' = IF urgent THEN Append(entry, p) ELSE entry
  /\ ordinary' = IF urgent THEN ordinary ELSE Append(ordinary, p)

\* Fault: one more than the budget.
AdmitOneMore(p, urgent) ==
  /\ CanRequest(p)
  /\ p \notin pending
  /\ Cardinality(pending) <= Limit
  /\ Enqueue(p, urgent)
  /\ NotifyOne
  /\ RequestUnchanged

\* request, room in the budget.
Admit(p, urgent) ==
  /\ CanRequest(p)
  /\ p \notin pending
  /\ Cardinality(pending) < Limit
  /\ Enqueue(p, urgent)
  /\ NotifyOne
  /\ RequestUnchanged

\* request, budget spent: entry work displaces the newest ordinary request.
Preempt(p) ==
  /\ CanRequest(p)
  /\ p \notin pending
  /\ Cardinality(pending) >= Limit
  /\ ordinary # <<>>
  /\ pending' = (pending \ {Last(ordinary)}) \cup {p}
  /\ ordinary' = Front(ordinary)
  /\ entry' = Append(entry, p)
  /\ NotifyOne
  /\ RequestUnchanged

\* cancel_queued: forget failures and queued work nobody wants any more.
CancelQueued(wanted) ==
  /\ phase = "open"
  /\ failures' = failures \cap wanted
  /\ pending' = pending \ (Queued \ wanted)
  /\ entry' = Only(entry, wanted)
  /\ ordinary' = Only(ordinary, wanted)
  /\ UNCHANGED <<stopped, failed, worker, ready, generation, reported, phase>>

\* try_ready and finish: take one completion off the channel; a completion of
\* another generation or of a stopped queue is dropped without bookkeeping.
TryReady ==
  /\ phase = "open"
  /\ ready # <<>>
  /\ ready' = Tail(ready)
  /\ LET result == Head(ready) IN
     IF result.gen = generation /\ ~stopped
     THEN /\ pending' = pending \ {result.pos}
          /\ failures' = IF result.ok THEN failures ELSE failures \cup {result.pos}
     ELSE UNCHANGED <<pending, failures>>
  /\ UNCHANGED <<entry, ordinary, stopped, failed, worker, generation, reported, phase>>

\* take_failure_notification: one-shot.
TakeFailureNotification ==
  /\ phase = "open" /\ failed /\ ~reported
  /\ reported' = TRUE
  /\ UNCHANGED <<queueVars, worker, ready, generation, failures, phase>>

\* Fault: stop wakes one worker where it must wake all.
ShutdownWakesOne(goal) ==
  /\ phase = "open"
  /\ goal = "reconfiguring" => generation < MaxGeneration
  /\ phase' = goal
  /\ EmptyQueue
  /\ NotifyOne
  /\ UNCHANGED <<failed, ready, generation, failures, reported>>

\* The first half of shutdown (stop), for good or to reconfigure.
BeginShutdown(goal) ==
  /\ phase = "open"
  /\ goal = "reconfiguring" => generation < MaxGeneration
  /\ phase' = goal
  /\ EmptyQueue
  /\ worker' = Woken(worker)
  /\ UNCHANGED <<failed, ready, generation, failures, reported>>

Joined == \A w \in Workers : worker[w].at = "exited"

\* The second half of shutdown: every worker joined, late results drained.
Close ==
  /\ phase = "closing" /\ Joined
  /\ phase' = "closed"
  /\ ready' = <<>>
  /\ UNCHANGED <<queueVars, worker, generation, failures, reported>>

\* reconfigure after the join: a new queue, channel and generation.  When a
\* thread cannot be spawned the pool is replaced by a failed one with none.
Restart(spawned) ==
  /\ phase = "reconfiguring" /\ Joined
  /\ phase' = "open"
  /\ generation' = generation + 1
  /\ worker' = NewPool(generation + 1, IF spawned THEN "awake" ELSE "exited")
  /\ entry' = <<>> /\ ordinary' = <<>> /\ pending' = {}
  /\ stopped' = ~spawned /\ failed' = ~spawned
  /\ ready' = <<>> /\ failures' = {} /\ reported' = FALSE

-----------------------------------------------------------------------------
(* The workers: run, under supervise. *)

\* Fault: the ordinary queue is served first.
TakeOrdinaryFirst(w) ==
  /\ worker[w].at = "awake"
  /\ ~stopped
  /\ \/ /\ ordinary # <<>>
        /\ worker' = [worker EXCEPT ![w].at = "busy", ![w].pos = Head(ordinary)]
        /\ ordinary' = Tail(ordinary)
        /\ UNCHANGED entry
     \/ /\ ordinary = <<>> /\ entry # <<>>
        /\ worker' = [worker EXCEPT ![w].at = "busy", ![w].pos = Head(entry)]
        /\ entry' = Tail(entry)
        /\ UNCHANGED ordinary
  /\ UNCHANGED <<pending, stopped, failed, ready, ownerVars>>

Take(w) ==
  /\ worker[w].at = "awake"
  /\ ~stopped
  /\ \/ /\ entry # <<>>
        /\ worker' = [worker EXCEPT ![w].at = "busy", ![w].pos = Head(entry)]
        /\ entry' = Tail(entry)
        /\ UNCHANGED ordinary
     \/ /\ entry = <<>> /\ ordinary # <<>>
        /\ worker' = [worker EXCEPT ![w].at = "busy", ![w].pos = Head(ordinary)]
        /\ ordinary' = Tail(ordinary)
        /\ UNCHANGED entry
  /\ UNCHANGED <<pending, stopped, failed, ready, ownerVars>>

Sleep(w) ==
  /\ worker[w].at = "awake"
  /\ ~stopped /\ Backlog = 0
  /\ worker' = [worker EXCEPT ![w].at = "asleep"]
  /\ UNCHANGED <<queueVars, ready, ownerVars>>

SpuriousWake(w) ==
  /\ worker[w].at = "asleep"
  /\ worker' = [worker EXCEPT ![w].at = "awake"]
  /\ UNCHANGED <<queueVars, ready, ownerVars>>

Exit(w) ==
  /\ worker[w].at \in {"awake", "busy"}
  /\ stopped
  /\ worker' = [worker EXCEPT ![w].at = "exited", ![w].pos = NoPos]
  /\ UNCHANGED <<queueVars, ready, ownerVars>>

\* The read or generation ends and its result is sent under the queue lock.
PublishResult(w, ok) ==
  /\ worker[w].at = "busy"
  /\ ~stopped
  /\ ready' = Append(ready, [pos |-> worker[w].pos, gen |-> worker[w].gen, ok |-> ok])
  /\ worker' = [worker EXCEPT ![w].at = "awake", ![w].pos = NoPos]
  /\ UNCHANGED <<queueVars, ownerVars>>

\* Fault: the failing worker empties the queue and wakes nobody.
PanicQuietly(w) ==
  /\ worker[w].at = "busy"
  /\ EmptyQueue
  /\ failed' = TRUE
  /\ worker' = [worker EXCEPT ![w].at = "exited", ![w].pos = NoPos]
  /\ UNCHANGED <<ready, ownerVars>>

\* Preparation panics: supervise fails the whole queue and wakes everyone.
Panic(w) ==
  /\ worker[w].at = "busy"
  /\ EmptyQueue
  /\ failed' = TRUE
  /\ worker' = Woken([worker EXCEPT ![w].at = "exited", ![w].pos = NoPos])
  /\ UNCHANGED <<ready, ownerVars>>

WorkerStep(w) ==
  \/ Take(w)
  \/ Sleep(w)
  \/ Exit(w)
  \/ \E ok \in BOOLEAN : PublishResult(w, ok)

-----------------------------------------------------------------------------

Owner ==
  \/ \E p \in Positions : Promote(p) \/ Preempt(p)
  \/ \E p \in Positions, urgent \in BOOLEAN : Admit(p, urgent)
  \/ \E wanted \in SUBSET Positions : CancelQueued(wanted)
  \/ TryReady
  \/ TakeFailureNotification
  \/ \E goal \in {"reconfiguring", "closing"} : BeginShutdown(goal)
  \/ \E spawned \in BOOLEAN : Restart(spawned)
  \/ Close

\* A closed pool stays closed.
Closed == phase = "closed" /\ UNCHANGED poolVars

PoolNext ==
  \/ Owner
  \/ \E w \in Workers : WorkerStep(w) \/ SpuriousWake(w) \/ Panic(w)
  \/ Closed

\* Threads are scheduled, reads end, and the owner pumps the pool each frame.
Fairness ==
  /\ \A w \in Workers : WF_poolVars(WorkerStep(w))
  /\ WF_poolVars(TryReady)
  /\ WF_poolVars(Close \/ \E spawned \in BOOLEAN : Restart(spawned))

PoolSpec == PoolInit /\ [][PoolNext]_poolVars /\ Fairness

-----------------------------------------------------------------------------
(* Properties. *)

PoolTypeOK ==
  /\ entry \in Seq(Positions) /\ ordinary \in Seq(Positions)
  /\ pending \subseteq Positions
  /\ stopped \in BOOLEAN /\ failed \in BOOLEAN
  /\ worker \in [Workers -> [at : {"awake", "asleep", "busy", "exited"},
                             pos : Positions \cup {NoPos},
                             gen : 0..MaxGeneration]]
  /\ ready \in Seq([pos : Positions, gen : 0..MaxGeneration, ok : BOOLEAN])
  /\ generation \in 0..MaxGeneration
  /\ failures \subseteq Positions
  /\ reported \in BOOLEAN
  /\ phase \in {"open", "reconfiguring", "closing", "closed"}

Count(seq, p) == Cardinality({i \in DOMAIN seq : seq[i] = p})
Homes(p) == Count(entry, p) + Count(ordinary, p)
              + Cardinality({w \in Workers : worker[w].pos = p})
              + Cardinality({i \in DOMAIN ready : ready[i].pos = p})

\* The budget is exact: a position counts against it if and only if it is in
\* one, and only one, of the two queues, a worker's hands or the channel.  A
\* position is so never prepared twice at once and never leaks its slot.
OneHome ==
  ~stopped => \A p \in Positions : Homes(p) = IF p \in pending THEN 1 ELSE 0

\* No lost wake-up: while a worker sleeps, each queued position has a worker
\* already awake to take it, although request notifies only one at a time.
NoLostWakeup == At("asleep") # {} => Backlog <= Cardinality(At("awake"))

\* A read that failed is not retried while the caller still wants the position.
FailureSuppressed == ~stopped => failures \cap pending = {}

\* The bookkeeping of the pool is sound at every step.
PoolInv == PoolTypeOK /\ OneHome /\ NoLostWakeup /\ FailureSuppressed

\* Entry terrain is never stuck behind ordinary streaming: once queued with
\* entry priority a position is collected, cancelled or the pool stops.
EntryResolves == \A p \in Positions : (p \in ToSet(entry)) ~> (p \notin pending)

\* shutdown's join returns.
ShutdownCompletes == (phase = "closing") ~> (phase = "closed")

\* One worker's panic ends them all: whether they sleep, look for work or are in the
\* middle of a chunk, the others leave without the owner's help, so that no thread
\* waits for ever on a queue that nobody will fill (supervise: fail, notify_all).
FailureStopsAll == failed ~> Joined

Stage(p) ==
  CASE stopped -> "idle"
    [] ~stopped /\ p \in Queued -> "queued"
    [] ~stopped /\ \E w \in Workers : worker[w].pos = p -> "running"
    [] ~stopped /\ \E i \in DOMAIN ready : ready[i].pos = p -> "ready"
    [] OTHER -> "idle"

Board == INSTANCE JobBoard WITH Jobs <- Positions,
                                job <- [p \in Positions |-> Stage(p)],
                                open <- ~stopped

\* The pool is a JobBoard: jobs move queued, running, ready, and are handed
\* over once; only queued work is displaced or cancelled.
ImplementsBoard == Board!Spec
================================================================================
