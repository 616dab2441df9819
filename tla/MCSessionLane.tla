---------------------------- MODULE MCSessionLane ----------------------------
(* Instances of SessionLane for TLC. *)
EXTENDS SessionLane
=============================================================================
