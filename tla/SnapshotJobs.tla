----------------------------- MODULE SnapshotJobs -----------------------------
(***************************************************************************)
(* src/src/background/snapshots.rs: the FIFO workers behind the host's     *)
(* chunk encoder, the client's mesher and the preparation of a new world's *)
(* homeland.  Unlike TerrainJobs the queue does not know its jobs: the     *)
(* budget is a bare count, and the caller keeps a key per job so that it   *)
(* never asks for one that is still somewhere in the pool.                 *)
(***************************************************************************)
EXTENDS Queues, FiniteSets

CONSTANTS Workers, Tasks, NoJob,
          Limit    \* requests, work in hand and uncollected results together

ASSUME SnapshotAssumption == /\ IsFiniteSet(Workers) /\ Workers # {}
                             /\ IsFiniteSet(Tasks) /\ NoJob \notin Tasks
                             /\ Limit \in Nat \ {0}

VARIABLES requests, pending, stopped, failure,  \* Queue, under its mutex
          worker,                               \* where each thread is, what it holds
          ready,                                \* the completion channel
          owner                                 \* open, joining, closed
poolVars == <<requests, pending, stopped, failure, worker, ready, owner>>

At(place) == {w \in Workers : worker[w].at = place}
InHand    == {w \in Workers : worker[w].job # NoJob}

PoolInit == /\ requests = <<>> /\ pending = 0 /\ stopped = FALSE /\ failure = FALSE
            /\ worker = [w \in Workers |-> [at |-> "awake", job |-> NoJob]]
            /\ ready = <<>> /\ owner = "open"

-----------------------------------------------------------------------------
NotifyOne ==
  IF At("asleep") = {} THEN UNCHANGED worker
  ELSE \E w \in At("asleep") : worker' = [worker EXCEPT ![w].at = "awake"]

Woken(ws) == [w \in Workers |-> IF ws[w].at = "asleep"
                                THEN [ws[w] EXCEPT !.at = "awake"] ELSE ws[w]]

\* Queue::stop.
Emptied == stopped' = TRUE /\ requests' = <<>> /\ pending' = 0

-----------------------------------------------------------------------------
(* The owner. *)

\* The caller's key: j is nowhere in the pool.
Free(j) == /\ j \notin ToSet(requests) \cup ToSet(ready)
           /\ \A w \in Workers : worker[w].job # j

\* A refused request (stopped or full) changes nothing.
Request(j) ==
  /\ owner = "open" /\ Free(j)
  /\ ~stopped /\ pending < Limit
  /\ requests' = Append(requests, j) /\ pending' = pending + 1
  /\ NotifyOne
  /\ UNCHANGED <<stopped, failure, ready, owner>>

\* Fault: a cancelled request keeps its place in the budget.
CancelKeepsCount(wanted) ==
  /\ owner = "open"
  /\ requests' = Only(requests, wanted)
  /\ UNCHANGED <<pending, stopped, failure, worker, ready, owner>>

CancelQueued(wanted) ==
  /\ owner = "open"
  /\ requests' = Only(requests, wanted)
  /\ pending' = pending - (Len(requests) - Len(requests'))
  /\ UNCHANGED <<stopped, failure, worker, ready, owner>>

\* After a stop the results still in the channel are thrown away.
TryReady ==
  /\ owner = "open" /\ ready # <<>>
  /\ IF stopped THEN ready' = <<>> /\ UNCHANGED pending
                ELSE ready' = Tail(ready) /\ pending' = pending - 1
  /\ UNCHANGED <<requests, stopped, failure, worker, owner>>

Stop ==
  /\ owner = "open"
  /\ Emptied /\ worker' = Woken(worker)
  /\ UNCHANGED <<failure, ready, owner>>

\* Fault: shutdown stops the queue and wakes nobody.
ShutdownQuietly ==
  /\ owner = "open" /\ owner' = "joining"
  /\ Emptied
  /\ UNCHANGED <<failure, ready, worker>>

\* shutdown: stop, then join every worker.
Shutdown ==
  /\ owner = "open" /\ owner' = "joining"
  /\ Emptied /\ worker' = Woken(worker)
  /\ UNCHANGED <<failure, ready>>

JoinAll ==
  /\ owner = "joining" /\ At("exited") = Workers
  /\ ready' = <<>> /\ owner' = "closed"
  /\ UNCHANGED <<requests, pending, stopped, failure, worker>>

-----------------------------------------------------------------------------
(* One worker thread. *)

Take(w) ==
  /\ worker[w].at = "awake" /\ ~stopped /\ requests # <<>>
  /\ requests' = Tail(requests)
  /\ worker' = [worker EXCEPT ![w] = [at |-> "busy", job |-> Head(requests)]]
  /\ UNCHANGED <<pending, stopped, failure, ready, owner>>

\* Fault: a worker sleeps after each job without looking at the queue again.
SleepAnyway(w) ==
  /\ worker[w].at = "awake" /\ ~stopped
  /\ worker' = [worker EXCEPT ![w].at = "asleep"]
  /\ UNCHANGED <<requests, pending, stopped, failure, ready, owner>>

Sleep(w) ==
  /\ worker[w].at = "awake" /\ ~stopped /\ requests = <<>>
  /\ worker' = [worker EXCEPT ![w].at = "asleep"]
  /\ UNCHANGED <<requests, pending, stopped, failure, ready, owner>>

SpuriousWake(w) ==
  /\ worker[w].at = "asleep"
  /\ worker' = [worker EXCEPT ![w].at = "awake"]
  /\ UNCHANGED <<requests, pending, stopped, failure, ready, owner>>

Exit(w) ==
  /\ worker[w].at = "awake" /\ stopped
  /\ worker' = [worker EXCEPT ![w].at = "exited"]
  /\ UNCHANGED <<requests, pending, stopped, failure, ready, owner>>

\* The result is sent under the queue lock, or dropped if the queue has stopped.
Publish(w) ==
  /\ worker[w].at = "busy"
  /\ IF stopped
     THEN worker' = [worker EXCEPT ![w] = [at |-> "exited", job |-> NoJob]] /\ UNCHANGED ready
     ELSE /\ worker' = [worker EXCEPT ![w] = [at |-> "awake", job |-> NoJob]]
          /\ ready' = Append(ready, worker[w].job)
  /\ UNCHANGED <<requests, pending, stopped, failure, owner>>

\* Fault: a panic ends its thread and no one else learns of it.
PanicAlone(w) ==
  /\ worker[w].at = "busy" \/ (worker[w].at = "awake" /\ ~stopped)
  /\ worker' = [worker EXCEPT ![w] = [at |-> "exited", job |-> NoJob]]
  /\ UNCHANGED <<requests, pending, stopped, failure, ready, owner>>

\* A panic in the worker's initialisation or in a job fails the whole pool.
Panic(w) ==
  /\ worker[w].at = "busy" \/ (worker[w].at = "awake" /\ ~stopped)
  /\ Emptied /\ failure' = TRUE
  /\ worker' = Woken([worker EXCEPT ![w] = [at |-> "exited", job |-> NoJob]])
  /\ UNCHANGED <<ready, owner>>

WorkerStep(w) == Take(w) \/ Sleep(w) \/ Exit(w) \/ Publish(w)

-----------------------------------------------------------------------------
Closed == owner = "closed" /\ UNCHANGED poolVars

PoolNext ==
  \/ \E j \in Tasks : Request(j)
  \/ \E wanted \in SUBSET Tasks : CancelQueued(wanted)
  \/ TryReady \/ Stop \/ Shutdown \/ JoinAll \/ Closed
  \/ \E w \in Workers : WorkerStep(w) \/ SpuriousWake(w) \/ Panic(w)

\* Threads are scheduled, jobs end, join returns once it may, and every owner
\* polls its pool each frame or pump.
PoolFairness == /\ \A w \in Workers : WF_poolVars(WorkerStep(w))
                /\ WF_poolVars(TryReady) /\ WF_poolVars(JoinAll)

PoolSpec == PoolInit /\ [][PoolNext]_poolVars /\ PoolFairness

-----------------------------------------------------------------------------
(* Properties. *)

PoolTypeOK == /\ requests \in Seq(Tasks) /\ ready \in Seq(Tasks)
              /\ pending \in 0..Limit
              /\ stopped \in BOOLEAN /\ failure \in BOOLEAN
              /\ worker \in [Workers -> [at : {"awake", "asleep", "busy", "exited"},
                                         job : Tasks \cup {NoJob}]]
              /\ \A w \in Workers : (worker[w].at = "busy") = (worker[w].job # NoJob)
              /\ owner \in {"open", "joining", "closed"}

\* The bare count is exact: it neither drifts up, which would strand the budget,
\* nor below zero, where the subtraction would wrap.
BudgetExact == ~stopped => pending = Len(requests) + Cardinality(InHand) + Len(ready)

\* No lost wake-up: a sleeping worker is not needed by the queue, each request
\* having a worker awake for it.
NoLostWakeup == At("asleep") # {} => Len(requests) <= Cardinality(At("awake"))

\* A failed or stopped pool takes no more work, and nobody sleeps in it.
StoppedIsAwake == stopped => requests = <<>> /\ At("asleep") = {}

\* The bookkeeping of the pool is sound at every step.
PoolInv == PoolTypeOK /\ BudgetExact /\ NoLostWakeup /\ StoppedIsAwake

\* Every request is answered, cancelled, or the pool has stopped.
Answered == \A j \in Tasks : j \in ToSet(requests) ~> (Free(j) \/ stopped)

\* shutdown's join returns, also after a failure.
ShutdownCompletes == owner = "joining" ~> owner = "closed"

Stage(j) == CASE stopped -> "idle"
              [] ~stopped /\ j \in ToSet(requests) -> "queued"
              [] ~stopped /\ (\E w \in Workers : worker[w].job = j) -> "running"
              [] ~stopped /\ j \in ToSet(ready) -> "ready"
              [] OTHER -> "idle"

Board == INSTANCE JobBoard WITH Jobs <- Tasks, job <- [j \in Tasks |-> Stage(j)], open <- ~stopped

\* The pool is a JobBoard that never displaces.
ImplementsBoard == Board!Spec
=============================================================================
