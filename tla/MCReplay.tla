------------------------------ MODULE MCReplay ------------------------------
(* Instances of Replay for TLC. *)
EXTENDS Replay
=============================================================================
