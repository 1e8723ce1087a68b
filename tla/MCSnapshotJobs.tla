---------------------------- MODULE MCSnapshotJobs ----------------------------
EXTENDS SnapshotJobs
=============================================================================
