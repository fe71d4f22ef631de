----------------------------- MODULE Visibility -----------------------------
(* Cells and visibility: which players' bodies each player is shown. The   *)
(* client's DiscoveryService reports the cells its player crosses; the     *)
(* server's PlayerService keeps the cell of every player, CharacterService *)
(* the cell of every character, and both tell players of the bodies that   *)
(* come into their range or leave it.                                      *)
(*                                                                         *)
(* A Player is one connection, used once; he has at most one character,    *)
(* which is named after him. Exterior cells are integers on a line: one    *)
(* worldspace with one coordinate.                                         *)
(*                                                                         *)
(* Definitions marked "mutated form" are plausible bugs of the operator    *)
(* that follows them; no specification uses them.                          *)
EXTENDS Integers, SequencesExt

CONSTANTS
  Players,    \* connections
  Nobody,     \* no player
  Exterior,   \* exterior cells, a set of integers
  Interior,   \* interior cells
  Start,      \* where players are when they connect
  Nowhere,    \* GameId{}, the cell of no player
  Reach,      \* cells loaded on each side of the centre: uGridsToLoad / 2
  Slack,      \* cells a player may be off the centre of what he has loaded
  MaxTrips,   \* bound on the times players go to another cell
  MaxPending, \* bound on the notices on their way to a client
  ZeroTaken   \* entity 0 is not the first player's character

Places == Exterior \cup Interior

ASSUME VisibilityAssumption ==
  /\ Exterior \subseteq Int /\ Interior \cap Int = {} /\ Nobody \notin Players
  /\ Start \subseteq Places /\ Nowhere \notin Places
  /\ Reach \in Nat /\ Slack \in 0..Reach /\ MaxTrips \in Nat /\ MaxPending \in Nat
  /\ ZeroTaken \in BOOLEAN

VARIABLES
  seated,      \* the server's PlayerManager
  cell,        \* Player::m_cell: what Shift and Enter requests say
  characters,  \* players who have a character on the server
  at,          \* CellIdComponent of each character: what movement says
  zero,        \* the player whose character is entity 0
  phase,       \* each client: not connected yet, connected, or gone
  introduced,  \* clients that asked for their character to be assigned
  pos,         \* the cell a client's player is in
  centre,      \* the centre of the cells a client has loaded
  reported,    \* the last cell a client's movement updates told
  knows,       \* characters each client has a body for, with their server id
  up, down,    \* messages on their way to the server, to each client
  trips,       \* what is left of MaxTrips
  \* History, which no step reads.
  loaded,      \* the last centre that reached the server
  missed,      \* pairs <<viewer, character>> that the server judged wrongly
  haunted      \* characters of which the server tells after it destroyed them

serverVars == <<seated, cell, characters, at, zero>>
clientVars == <<phase, introduced, pos, centre, reported, knows>>
history == <<loaded, missed, haunted>>
vars == <<serverVars, clientVars, up, down, trips, history>>

Request == [type : {"Shift", "Enter", "Move", "Assign"}, cell : Places]
Notice == [type : {"Assigned", "Spawn", "Remove"}, who : Players]

Shift(x) == [type |-> "Shift", cell |-> x]
Enter(x) == [type |-> "Enter", cell |-> x]
Move(x) == [type |-> "Move", cell |-> x]
Assign(x) == [type |-> "Assign", cell |-> x]
Assigned(q) == [type |-> "Assigned", who |-> q]
Spawn(q) == [type |-> "Spawn", who |-> q]
Removal(q) == [type |-> "Remove", who |-> q]

TypeOK ==
  /\ seated \subseteq Players /\ characters \subseteq Players
  /\ cell \in [Players -> Places \cup {Nowhere}]
  /\ at \in [Players -> Places \cup {Nowhere}]
  /\ zero \in Players \cup {Nobody}
  /\ phase \in [Players -> {"out", "in", "gone"}]
  /\ introduced \subseteq Players
  /\ pos \in [Players -> Places] /\ centre \in [Players -> Places]
  /\ reported \in [Players -> Places \cup {Nowhere}]
  /\ knows \in [Players -> SUBSET Players]
  /\ up \in [Players -> Seq(Request)] /\ down \in [Players -> Seq(Notice)]
  /\ trips \in 0..MaxTrips
  /\ loaded \in [Players -> Places \cup {Nowhere}]
  /\ missed \subseteq Players \X Players
  /\ haunted \subseteq Players

Init ==
  /\ seated = {} /\ characters = {} /\ zero = Nobody
  /\ cell = [p \in Players |-> Nowhere]
  /\ at = [p \in Players |-> Nowhere]
  /\ phase = [p \in Players |-> "out"]
  /\ introduced = {}
  /\ pos \in [Players -> Start] /\ centre = pos
  /\ reported = [p \in Players |-> Nowhere]
  /\ knows = [p \in Players |-> {}]
  /\ up = [p \in Players |-> <<>>] /\ down = [p \in Players |-> <<>>]
  /\ trips = MaxTrips
  /\ loaded = [p \in Players |-> Nowhere]
  /\ missed = {} /\ haunted = {}

-----------------------------------------------------------------------------
(* Range.                                                                  *)

(* CellIdComponent::IsInRange: the same interior, or exterior cells within *)
(* the grid the game loads.                                                *)
InRange(x, y) ==
  \/ x = y
  \/ x \in Exterior /\ y \in Exterior /\ x - y <= Reach /\ y - x <= Reach

-----------------------------------------------------------------------------
(* The client.                                                             *)

Send(p, ms) == up' = [up EXCEPT ![p] = @ \o ms]

(* What VisitCell reports of a player in cell x: the new centre of the     *)
(* cells he has loaded, if it changed, then his cell.                      *)
Crossing(x, shifts) ==
  (IF x \in Exterior /\ shifts THEN <<Shift(x)>> ELSE <<>>) \o <<Enter(x)>>

(* The server accepts the connection. CharacterService::OnConnected may    *)
(* already have the player's character to assign, or get it later.         *)
Join(p) ==
  /\ phase[p] = "out"
  /\ phase' = [phase EXCEPT ![p] = "in"]
  /\ seated' = seated \cup {p}
  /\ LET visit == (IF centre[p] \in Exterior THEN <<Shift(centre[p])>> ELSE <<>>)
                     \o <<Enter(pos[p])>>
     IN  \/ introduced' = introduced /\ up' = [up EXCEPT ![p] = visit]
         \/ /\ introduced' = introduced \cup {p}
            /\ up' = [up EXCEPT ![p] = <<Assign(pos[p])>> \o visit]
  /\ UNCHANGED <<cell, characters, at, zero, pos, centre, reported, knows, down, trips,
                 history>>

(* RequestServerAssignment for the player's own character. *)
Introduce(p) ==
  /\ phase[p] = "in" /\ p \notin introduced
  /\ introduced' = introduced \cup {p}
  /\ Send(p, <<Assign(pos[p])>>)
  /\ UNCHANGED <<serverVars, phase, pos, centre, reported, knows, down, trips, history>>

(* The player walks, takes a door or travels. While he stays close to the  *)
(* centre of the cells the game has loaded, it may keep them.              *)
Go(p, x) ==
  /\ phase[p] = "in" /\ x # pos[p] /\ trips > 0
  /\ trips' = trips - 1
  /\ pos' = [pos EXCEPT ![p] = x]
  /\ \/ /\ centre' = [centre EXCEPT ![p] = x]
        /\ Send(p, Crossing(x, x # centre[p]))
     \/ /\ {x, centre[p]} \subseteq Exterior /\ x - centre[p] \in -Slack..Slack
        /\ UNCHANGED centre
        /\ Send(p, Crossing(x, FALSE))
  /\ UNCHANGED <<serverVars, phase, introduced, reported, knows, down, history>>

(* The game loads the cells around the one the player is already in. *)
Recentre(p) ==
  /\ phase[p] = "in" /\ centre[p] # pos[p]
  /\ centre' = [centre EXCEPT ![p] = pos[p]]
  /\ Send(p, <<Shift(pos[p])>>)
  /\ UNCHANGED <<serverVars, phase, introduced, pos, reported, knows, down, trips, history>>

(* RunLocalUpdates, every 100 ms for what is assigned; only news counts. *)
Report(p) ==
  /\ phase[p] = "in" /\ p \in knows[p] /\ reported[p] # pos[p]
  /\ reported' = [reported EXCEPT ![p] = pos[p]]
  /\ Send(p, <<Move(pos[p])>>)
  /\ UNCHANGED <<serverVars, phase, introduced, pos, centre, knows, down, trips, history>>

(* Mutated form: a body that the server takes away stays. *)
TakeKept(p, known, m) == IF m.type = "Remove" THEN known ELSE known \cup {m.who}

(* OnCharacterSpawn and OnAssignCharacter; OnRemoveCharacter, which looks   *)
(* among the remote bodies: p's own stays.                                 *)
Take(p, known, m) ==
  IF m.type = "Remove" THEN known \ ({m.who} \ {p}) ELSE known \cup {m.who}

Receive(p) ==
  /\ phase[p] = "in" /\ down[p] # <<>>
  /\ knows' = [knows EXCEPT ![p] = Take(p, @, Head(down[p]))]
  /\ down' = [down EXCEPT ![p] = Tail(@)]
  /\ UNCHANGED <<serverVars, phase, introduced, pos, centre, reported, up, trips, history>>

(* The connection ends; OnDisconnected drops every remote body. *)
Leave(p) ==
  /\ phase[p] = "in"
  /\ phase' = [phase EXCEPT ![p] = "gone"]
  /\ knows' = [knows EXCEPT ![p] = {}]
  /\ down' = [down EXCEPT ![p] = <<>>]
  /\ UNCHANGED <<serverVars, introduced, pos, centre, reported, up, trips, history>>

-----------------------------------------------------------------------------
(* The server.                                                             *)

Others(p) == seated \ {p}

Hears(p, m) == up[p] # <<>> /\ Head(up[p]) = m
Heard(p) == up' = [up EXCEPT ![p] = Tail(@)]

(* notes[v]: the notices for player v. *)
Post(notes) ==
  down' = [v \in Players |-> IF v \in seated /\ phase[v] = "in" THEN down[v] \o notes[v]
                                                                  ELSE down[v]]

Spawns(qs) == SetToSeq({Spawn(q) : q \in qs})

(* Of the pairs judged in this step those in `shown` get a spawn; `others` *)
(* should have got one.                                                    *)
Judged(shown, others) == missed' = (missed \ shown) \cup (others \ shown)

(* HandleGridCellShift. A character that has moved on since its last       *)
(* movement update is judged by where it was.                              *)
HandleGridCellShift(p, x) ==
  LET others == characters \ {p}
      shown == {q \in others : InRange(x, at[q])}
  IN  /\ Hears(p, Shift(x)) /\ Heard(p)
      /\ cell' = [cell EXCEPT ![p] = x]
      /\ Post([v \in Players |-> IF v = p THEN Spawns(shown) ELSE <<>>])
      /\ loaded' = [loaded EXCEPT ![p] = x]
      /\ Judged({p} \X shown, {p} \X {q \in others : InRange(x, cell[q])})
      /\ UNCHANGED <<seated, characters, at, zero, clientVars, trips, haunted>>

(* Mutated form: only players whose own cell is x are shown the character. *)
CrossingNotesExact(p, x) ==
  [v \in Players |-> IF v = p THEN <<>> ELSE IF cell[v] = x THEN <<Spawn(p)>> ELSE <<Removal(p)>>]

(* OnCharacterExteriorCellChange and OnCharacterInteriorCellChange: every  *)
(* other player, by the cell the server has of him.                        *)
CrossingNotes(p, x) ==
  [v \in Players |->
     IF v = p THEN <<>> ELSE IF InRange(cell[v], x) THEN <<Spawn(p)>> ELSE <<Removal(p)>>]

(* Players who have cell x loaded, whatever their own cell. *)
Overlooking(p, x) == {v \in Others(p) : InRange(loaded[v], x)}
Beside(p, x) == {v \in Others(p) : InRange(cell[v], x)}

(* Player::m_character, which stays when entity 0 is destroyed. *)
GetCharacter(p) == p \in characters \/ p = zero

(* HandleExteriorCellEnter. A player without a character is not moved. One *)
(* whose entity was destroyed is announced all the same, from a component  *)
(* that is not there: the server may just as well fall here, and take no   *)
(* further step.                                                           *)
HandleExteriorCellEnter(p, x) ==
  /\ x \in Exterior /\ Hears(p, Enter(x)) /\ Heard(p)
  /\ IF GetCharacter(p)
       THEN /\ IF cell[p] = Nowhere
                 THEN UNCHANGED <<down, missed, haunted>>
                 ELSE /\ Post(CrossingNotes(p, x))
                      /\ Judged(Beside(p, x) \X {p}, Overlooking(p, x) \X {p})
                      /\ haunted' = haunted \cup ({p} \ characters)
            /\ cell' = [cell EXCEPT ![p] = x]
       ELSE UNCHANGED <<cell, down, missed, haunted>>
  /\ UNCHANGED <<seated, characters, at, zero, clientVars, trips, loaded>>

(* HandleInteriorCellEnter, which asks whether the entity still exists. *)
HandleInteriorCellEnter(p, x) ==
  LET others == characters \ {p}
      shown == {q \in others : at[q] = x}
      notes == CrossingNotes(p, x)
      told == IF p \in characters THEN Beside(p, x) \X {p} ELSE {}
  IN  /\ x \in Interior /\ Hears(p, Enter(x)) /\ Heard(p)
      /\ cell' = [cell EXCEPT ![p] = x]
      /\ Post([v \in Players |-> IF v = p THEN Spawns(shown)
                                 ELSE IF p \in characters THEN notes[v] ELSE <<>>])
      /\ loaded' = [loaded EXCEPT ![p] = x]
      /\ Judged(told \cup ({p} \X shown), {p} \X {q \in others : cell[q] = x})
      /\ UNCHANGED <<seated, characters, at, zero, clientVars, trips, haunted>>

(* OnReferencesMoveRequest: nobody is told. *)
OnReferencesMoveRequest(p, x) ==
  /\ Hears(p, Move(x)) /\ Heard(p)
  /\ at' = IF p \in characters THEN [at EXCEPT ![p] = x] ELSE at
  /\ UNCHANGED <<seated, cell, characters, zero, clientVars, down, trips, history>>

(* CreateCharacter and OnCharacterSpawned. *)
OnAssignCharacterRequest(p, x) ==
  /\ Hears(p, Assign(x)) /\ Heard(p)
  /\ zero' = IF ~ZeroTaken /\ zero = Nobody THEN p ELSE zero
  /\ characters' = characters \cup {p}
  /\ at' = [at EXCEPT ![p] = x]
  /\ Post([v \in Players |-> IF v = p THEN <<Assigned(p)>>
                             ELSE IF InRange(x, cell[v]) THEN <<Spawn(p)>> ELSE <<>>])
  /\ Judged(Beside(p, x) \X {p}, Overlooking(p, x) \X {p})
  /\ UNCHANGED <<seated, cell, clientVars, trips, loaded, haunted>>

Own(p) == IF p \in characters THEN p ELSE zero

(* Mutated form: told and destroyed without a look at what exists. *)
DoomedAnyway(p) == {Own(p)}

(* A player without a character is taken to own entity 0. *)
Doomed(p) == {Own(p)} \cap characters

(* OnDisconnection and the OnCharacterRemoveEvent it queues and runs. *)
OnDisconnection(p) ==
  LET doomed == Doomed(p)
  IN  /\ p \in seated /\ phase[p] = "gone"
      /\ seated' = seated \ {p}
      /\ cell' = [cell EXCEPT ![p] = Nowhere]
      /\ up' = [up EXCEPT ![p] = <<>>]
      /\ characters' = characters \ doomed
      /\ at' = [q \in Players |-> IF q \in doomed THEN Nowhere ELSE at[q]]
      /\ Post([v \in Players |-> SetToSeq({Removal(q) : q \in doomed})])
      /\ loaded' = [loaded EXCEPT ![p] = Nowhere]
      /\ missed' = {m \in missed : m[1] # p /\ m[2] \notin doomed}
      /\ UNCHANGED <<zero, clientVars, trips, haunted>>

Handle(p) ==
  /\ \A v \in Players : Len(down[v]) < MaxPending
  /\ \E x \in Places :
       \/ HandleGridCellShift(p, x)
       \/ HandleExteriorCellEnter(p, x)
       \/ HandleInteriorCellEnter(p, x)
       \/ OnReferencesMoveRequest(p, x)
       \/ OnAssignCharacterRequest(p, x)

Next ==
  \E p \in Players :
    \/ Join(p) \/ Introduce(p) \/ Recentre(p) \/ Report(p) \/ Receive(p) \/ Leave(p)
    \/ \E x \in Places : Go(p, x)
    \/ Handle(p) \/ OnDisconnection(p)

Spec == Init /\ [][Next]_vars

-----------------------------------------------------------------------------

(* Nothing is on its way from p or q to the server, or from it to p. *)
Settled(p, q) == up[p] = <<>> /\ up[q] = <<>> /\ down[p] = <<>>

(* The body of q stands in a cell that p's game has loaded. *)
InView(p, q) == q \in characters \ {p} /\ InRange(centre[p], pos[q])

(* NoGhosts: once everything has arrived, a client has a remote body for   *)
(* no player whose character the server does not have, but for a character *)
(* the server announced once more after it had destroyed it.               *)
NoGhosts ==
  \A p \in Players :
    phase[p] = "in" /\ down[p] = <<>> => knows[p] \ {p} \subseteq characters \cup haunted

(* Shown: once everything has arrived, a client has a body for each        *)
(* character in the cells it has loaded, but for those missed for one of   *)
(* two reasons: he came while the server's movement data for the character *)
(* were old, or the character crossed a border while he was off the centre *)
(* of his cells.                                                           *)
Shown ==
  \A p, q \in Players :
    phase[p] = "in" /\ Settled(p, q) /\ InView(p, q) => q \in knows[p] \/ <<p, q>> \in missed
=============================================================================
