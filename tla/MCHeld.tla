------------------------------- MODULE MCHeld -------------------------------
(* Instances of Held for TLC. *)
EXTENDS Held
=============================================================================
