---------------------------- MODULE MCCronTasks ----------------------------
(* Instances of CronTasks for TLC. *)
EXTENDS CronTasks, TLC

CONSTANTS a, b, c

\* Enough to build chains, a shared predecessor in either order, and cycles.
SomeOffers == {[id |-> a, deps |-> <<b, c>>], [id |-> a, deps |-> <<c, b>>],
               [id |-> b, deps |-> <<c>>], [id |-> c, deps |-> <<a>>],
               [id |-> c, deps |-> <<>>]}

Symmetry == Permutations(Slots)
=============================================================================
