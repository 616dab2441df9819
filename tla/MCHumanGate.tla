---------------------------- MODULE MCHumanGate ----------------------------
(* Instances of HumanGate for TLC. *)
EXTENDS HumanGate

CONSTANTS shell, q1, q2
=============================================================================
