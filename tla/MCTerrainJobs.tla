---------------------------- MODULE MCTerrainJobs ----------------------------
(* Small instances of TerrainJobs: two workers, three chunks, a budget of two. *)
EXTENDS TerrainJobs

CONSTANTS w1, w2, a, b, c

MCWorkers   == {w1, w2}
MCPositions == {a, b, c}
===============================================================================
