-------------------------------- MODULE Queues --------------------------------
(***************************************************************************)
(* The one operation on queues that the worker pools and the streaming of  *)
(* chunks share: keep what is wanted, in its order (retain in src/src/     *)
(* terrain_jobs/queue.rs, cancel_queued in background/snapshots.rs, filter *)
(* in multiplayer/host/streaming.rs).                                      *)
(***************************************************************************)
EXTENDS Naturals, SequencesExt

\* What of a sequence is in S, in its order.
Only(s, S) ==
  LET upTo[n \in 0..Len(s)] ==
        IF n = 0 THEN <<>>
        ELSE IF s[n] \in S THEN Append(upTo[n - 1], s[n]) ELSE upTo[n - 1]
  IN  upTo[Len(s)]
===============================================================================
