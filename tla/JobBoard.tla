------------------------------- MODULE JobBoard -------------------------------
(***************************************************************************)
(* What a bounded background pool promises its owner: every job is in one  *)
(* place at a time, at most Limit jobs are anywhere in the pool, queued    *)
(* work may be taken back but running work may not, and a result is        *)
(* handed over exactly once.  TerrainJobs and SnapshotJobs are both shown  *)
(* to implement this.                                                      *)
(***************************************************************************)
EXTENDS Naturals, FiniteSets

CONSTANTS Jobs,    \* what can be asked for
          Limit    \* the most jobs the pool holds, finished ones included

VARIABLES job,     \* where each job is
          open     \* whether the pool accepts work

boardVars == <<job, open>>

Stages == {"idle", "queued", "running", "ready"}
Held   == {j \in Jobs : job[j] # "idle"}
AllIdle == [j \in Jobs |-> "idle"]

Init == /\ job = AllIdle
        /\ open = TRUE

Move(j, from, to) == /\ open
                     /\ job[j] = from
                     /\ job' = [job EXCEPT ![j] = to]
                     /\ UNCHANGED open

Request(j) == /\ Cardinality(Held) < Limit
              /\ Move(j, "idle", "queued")

\* Urgent work may take the place of work that has not started.
Displace(j, k) == /\ open
                  /\ job[j] = "idle"
                  /\ job[k] = "queued"
                  /\ job' = [job EXCEPT ![j] = "queued", ![k] = "idle"]
                  /\ UNCHANGED open

Cancel(S) == /\ open
             /\ \A j \in S : job[j] = "queued"
             /\ job' = [j \in Jobs |-> IF j \in S THEN "idle" ELSE job[j]]
             /\ UNCHANGED open

Begin(j)  == Move(j, "queued", "running")
Finish(j) == Move(j, "running", "ready")
Hand(j)   == Move(j, "ready", "idle")

Close  == job' = AllIdle /\ open' = FALSE
Reopen == ~open /\ open' = TRUE /\ job' = AllIdle

Next == \/ \E j \in Jobs : Request(j) \/ Begin(j) \/ Finish(j) \/ Hand(j)
        \/ \E j, k \in Jobs : Displace(j, k)
        \/ \E S \in SUBSET Jobs : Cancel(S)
        \/ Close
        \/ Reopen

Spec == Init /\ [][Next]_boardVars

TypeOK == /\ job \in [Jobs -> Stages]
          /\ open \in BOOLEAN

\* The pool never holds more than its budget, whatever the stage of the work.
WithinLimit == Cardinality(Held) <= Limit
===============================================================================
