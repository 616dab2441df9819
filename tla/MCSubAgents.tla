---------------------------- MODULE MCSubAgents ----------------------------
(* Instances of SubAgents for TLC. *)
EXTENDS SubAgents
=============================================================================
