------------------------------ MODULE MCParty ------------------------------
(* Instances of Party for TLC.                                             *)
EXTENDS Party

Interchangeable == Permutations(Players)

(* Some players have arrived and have read their lists: a state of Spec    *)
(* from which the runs about requests start.                               *)
Arrived(here) ==
  /\ parties = <<>> /\ nextId = 0
  /\ joined = [p \in Players |-> NoParty]
  /\ invitations = [p \in Players |-> NoInvites]
  /\ used = here /\ connected = here /\ online = here
  /\ tick = 1 /\ asked = 0
  /\ view = [p \in Players |-> Outside]
  /\ players = [p \in Players |-> IF p \in here THEN here \ {p} ELSE {}]
  /\ invites = [p \in Players |-> NoInvites]
  /\ up = [p \in Players |-> <<>>]
  /\ news = [p \in Players |-> <<>>]
  /\ mail = [p \in Players |-> <<>>]

AllArrivedInit == Arrived(Players)
AllArrivedSpec == AllArrivedInit /\ [][Next]_vars
=============================================================================
