------------------------------ MODULE MCQuests ------------------------------
(* Instances of Quests for TLC. *)
EXTENDS Quests
=============================================================================
