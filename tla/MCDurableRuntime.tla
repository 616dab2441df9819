------------------------- MODULE MCDurableRuntime -------------------------
(* Instances of DurableRuntime for TLC. *)
EXTENDS DurableRuntimeClaims, TLC

CONSTANTS w1, w2

\* The deployed setting: every call of the process runs as one worker.
OneWorker == [t \in Tasks |-> w1]

\* The setting leases are made for: each task has a worker of its own.
first == CHOOSE t \in Tasks : TRUE
TwoWorkers == [t \in Tasks |-> IF t = first THEN w1 ELSE w2]
=============================================================================
