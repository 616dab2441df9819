--------------------------- MODULE MCCronExecutor ---------------------------
(* Instances of CronExecutor for TLC. *)
EXTENDS CronExecutor

CONSTANTS a, b

\* Task b is chained to task a.
Chain == [id \in Ids |-> IF id = b THEN {a} ELSE {}]
=============================================================================
