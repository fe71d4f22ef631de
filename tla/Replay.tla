------------------------------- MODULE Replay -------------------------------
(* How the animations of one character reach the other players: the       *)
(* server's ActionReplayCache and ProcessMovementChanges, the client's     *)
(* AnimationSystem and the parts of CharacterService that feed it.         *)
(*                                                                         *)
(* The owner's actions come to the server with his movement. It passes     *)
(* them on with the next snapshot to everybody in range, and keeps the     *)
(* last CacheSize of them for those who build the character's body later:  *)
(* these play what the character has done since he last went back to his   *)
(* root state. An action is its number and what the lists of               *)
(* AnimationEventLists say of it:                                          *)
(*   sit     it has an instant counterpart,                                *)
(*   seated  it is one, or has none,                                       *)
(*   exit    it ends what was done before,                                 *)
(*   noise   it is not worth a replay (kIgnore).                           *)
(* A viewer is in range when his cell and the one the character last moved *)
(* to are near each other. Either changes by itself, with a spawn, with a  *)
(* removal or with nothing, and a viewer out of range keeps the body he    *)
(* has.                                                                    *)
(*                                                                         *)
(* Server scripts cancel no action here. Definitions marked "mutated form" *)
(* are plausible bugs of the operator that follows; nothing uses them.     *)
EXTENDS Integers, SequencesExt, FiniteSetsExt

CONSTANTS
  Viewers,     \* players other than the owner
  CacheSize,   \* kReplayCacheMaxSize
  NoBody,      \* of a viewer without the character
  MaxActions,  \* bound on the actions
  MaxMoves,    \* bound on the times the owner or a viewer changes cells
  MaxRespawns  \* bound on the times the owner respawns

ASSUME ReplayAssumption ==
  /\ {CacheSize, MaxActions, MaxMoves, MaxRespawns} \subseteq Nat /\ CacheSize > 0

VARIABLES
  pending,  \* AnimationComponent::Actions
  cache,    \* ActionReplayCache::m_actions
  sent,     \* MovementComponent::Sent
  near,     \* viewers in range of the character, by the cells of both
  up,       \* respawn requests on their way from each viewer, counted
  down,     \* messages on their way to each viewer
  body,     \* RemoteAnimationComponent of each viewer's body, and its pose
  moves, respawns, \* what is left of the bounds
  \* History, which no step reads.
  done,     \* the kinds of all actions the owner has reported
  born,     \* the number of the last action before his latest respawn
  cleared,  \* the number of the last action before the cache was last cleared
  missed,   \* actions no replay tells: trimmed, or cleared at a viewer's request
  late,     \* actions that were not passed on yet when the owner respawned
  stray     \* viewers whose body, there or on its way, missed something while
            \* they were out of range

serverVars == <<pending, cache, sent, near>>
clientVars == <<up, down, body>>
bounds == <<moves, respawns>>
history == <<done, born, cleared, missed, late, stray>>
vars == <<serverVars, clientVars, bounds, history>>

Kinds == {"sit", "exit", "noise"}
Numbers == 1..MaxActions
Action == [n : Numbers, kind : Kinds \cup {"seated"}]

Chains == [reset : BOOLEAN, actions : Seq(Action)]

Message ==
  [type : {"Spawn"}, chain : Chains]
    \cup [type : {"Move"}, acts : Seq(Action)]
    \cup [type : {"Gone", "Reborn"}]

Spawn(chain) == [type |-> "Spawn", chain |-> chain]
Move(acts) == [type |-> "Move", acts |-> acts]
Gone == [type |-> "Gone"]
Reborn == [type |-> "Reborn"]

(* Of a body's actions never more than wait are taken for a replay. *)
Body ==
  {b \in [queue : Seq(Action), replay : Nat, reset : BOOLEAN, pose : Seq(Numbers)] :
     b.replay <= Len(b.queue)}

TypeOK ==
  /\ pending \in Seq(Action) /\ sent \in BOOLEAN
  /\ cache \in Seq(Action) /\ Len(cache) <= CacheSize
  /\ near \subseteq Viewers
  /\ up \in [Viewers -> Nat]
  /\ down \in [Viewers -> Seq(Message)]
  /\ body \in [Viewers -> Body \cup {NoBody}]
  /\ moves \in 0..MaxMoves /\ respawns \in 0..MaxRespawns
  /\ done \in Seq(Kinds) /\ Len(done) <= MaxActions
  /\ {born, cleared} \subseteq 0..Len(done)
  /\ missed \cup late \subseteq Numbers /\ stray \subseteq Viewers

Init ==
  /\ pending = <<>> /\ cache = <<>> /\ sent = TRUE
  /\ near = {}
  /\ up = [v \in Viewers |-> 0] /\ down = [v \in Viewers |-> <<>>]
  /\ body = [v \in Viewers |-> NoBody]
  /\ moves = MaxMoves /\ respawns = MaxRespawns
  /\ done = <<>> /\ born = 0 /\ cleared = 0 /\ missed = {} /\ late = {} /\ stray = {}

NumbersIn(s) == {s[i].n : i \in DOMAIN s}
Tell(vs, m) == [v \in Viewers |-> IF v \in vs THEN Append(down[v], m) ELSE down[v]]

-----------------------------------------------------------------------------
(* ActionReplayCache.                                                      *)

(* The last n of a sequence. *)
LastOf(s, n) == SubSeq(s, Max({1, Len(s) - n + 1}), Len(s))

Trimmed(s) == LastOf(s, CacheSize)

(* ShouldIgnoreAction. *)
Worth(acts) ==
  LET kept[i \in 0..Len(acts)] ==
        IF i = 0 THEN <<>>
        ELSE IF acts[i].kind = "noise" THEN kept[i - 1] ELSE Append(kept[i - 1], acts[i])
  IN  kept[Len(acts)]

AppendAll(acts) == Trimmed(cache \o Worth(acts))

(* FindInstantCounterpartForAction. *)
Instant(a) == IF a.kind = "sit" THEN [a EXCEPT !.kind = "seated"] ELSE a

(* The place of the last exit, 0 if there is none. *)
LastExit(s) == Max({0} \cup {i \in DOMAIN s : s[i].kind = "exit"})

(* Mutated form: the first exit is looked for. *)
RefinedAtFirst(s) ==
  LET exits == {i \in DOMAIN s : s[i].kind = "exit"}
  IN  IF exits = {} THEN s ELSE SubSeq(s, Min(exits), Len(s))

(* RefineReplayCache: from the last exit on, and instant after it. *)
Refined(s) ==
  LET x == Max({1, LastExit(s)})
  IN  [i \in 1..(Len(s) - x + 1) |-> Instant(s[i + x - 1])]

(* FormRefinedReplayChain of a refined cache: the exit itself is dropped. *)
Chain(s) ==
  LET reset == LastExit(s) # 0
  IN  [reset |-> reset, actions |-> IF reset THEN Tail(s) ELSE s]

-----------------------------------------------------------------------------
(* The server.                                                             *)

(* Who has, or is being sent, a body that nothing on its way takes away.   *)
Embodied(v) ==
  \E j \in 0..Len(down[v]) :
    /\ IF j = 0 THEN body[v] # NoBody ELSE down[v][j].type = "Spawn"
    /\ \A i \in j + 1..Len(down[v]) : down[v][i].type \notin {"Gone", "Reborn"}

(* OnReferencesMoveRequest, with the actions of one update and the cell    *)
(* the owner is in by then: in its range are the viewers `in`. Nobody is   *)
(* told of that. An update with neither concerns only the position.        *)
OnReferencesMoveRequest(kinds, in) ==
  /\ Len(done) + Len(kinds) <= MaxActions
  /\ kinds # <<>> \/ in # near
  /\ near' = in
  /\ IF in = near THEN moves' = moves ELSE moves > 0 /\ moves' = moves - 1
  /\ LET acts == [i \in DOMAIN kinds |-> [n |-> Len(done) + i, kind |-> kinds[i]]]
     IN  /\ pending' = pending \o acts
         /\ cache' = AppendAll(acts)
         /\ missed' = missed \cup (NumbersIn(cache \o Worth(acts)) \ NumbersIn(cache'))
  /\ sent' = FALSE
  /\ done' = done \o kinds
  /\ UNCHANGED <<clientVars, respawns, born, cleared, late, stray>>

(* ProcessMovementChanges for this character. *)
ProcessMovementChanges ==
  /\ ~sent
  /\ down' = Tell(near, Move(pending))
  /\ pending' = <<>> /\ sent' = TRUE
  /\ stray' = IF pending = <<>> THEN stray ELSE stray \cup {v \in Viewers \ near : Embodied(v)}
  /\ UNCHANGED <<cache, near, up, body, bounds, done, born, cleared, missed, late>>

(* Serialize for a spawn request: the cache is refined on the way. *)
SendSpawn(vs) ==
  /\ cache' = Refined(cache)
  /\ down' = Tell(vs, Spawn(Chain(Refined(cache))))

(* The viewer's cells shift, or he enters a building: he is sent the       *)
(* character if it is in range now, though he may have it already.         *)
HandleGridCellShift(v) ==
  /\ moves > 0
  /\ moves' = moves - 1
  /\ \/ near' = near \cup {v} /\ SendSpawn({v})
     \/ near' = near \ {v} /\ UNCHANGED <<cache, down>>
  /\ UNCHANGED <<pending, sent, up, body, respawns, history>>

(* The viewer enters a cell out of doors: he is sent nothing. *)
HandleExteriorCellEnter(v) ==
  /\ moves > 0
  /\ moves' = moves - 1
  /\ near' = IF v \in near THEN near \ {v} ELSE near \cup {v}
  /\ UNCHANGED <<pending, cache, sent, clientVars, respawns, history>>

(* OnCharacterExteriorCellChange, or the like for a building: a spawn for  *)
(* everybody who is in range of the cell the owner entered, and a removal  *)
(* for the others. The cell that decides who is in range comes with his    *)
(* next movement.                                                          *)
OnCharacterExteriorCellChange(in) ==
  /\ moves > 0
  /\ moves' = moves - 1
  /\ cache' = Refined(cache)
  /\ down' = [v \in Viewers |->
       Append(down[v], IF v \in in THEN Spawn(Chain(Refined(cache))) ELSE Gone)]
  /\ stray' = stray \cap in
  /\ UNCHANGED <<pending, sent, near, up, body, respawns, done, born, cleared, missed, late>>

(* Mutated form: the cache is kept. *)
RespawnOwnerKept ==
  /\ respawns > 0
  /\ respawns' = respawns - 1
  /\ down' = Tell(near, Reborn)
  /\ born' = Len(done) /\ cleared' = Len(done) /\ late' = late \cup NumbersIn(pending)
  /\ stray' = (stray \ near) \cup {v \in Viewers \ near : Embodied(v)}
  /\ UNCHANGED <<pending, cache, sent, near, up, body, moves, done, missed>>

(* OnRequestRespawn of the owner, whose character takes another form. *)
RespawnOwner ==
  /\ respawns > 0
  /\ respawns' = respawns - 1
  /\ cache' = <<>>
  /\ down' = Tell(near, Reborn)
  /\ born' = Len(done) /\ cleared' = Len(done) /\ late' = late \cup NumbersIn(pending)
  /\ stray' = (stray \ near) \cup {v \in Viewers \ near : Embodied(v)}
  /\ UNCHANGED <<pending, sent, near, up, body, moves, done, missed>>

(* OnPlayerRespawnRequest: the owner has died and stands up again in the   *)
(* form he had; the cache is kept.                                         *)
OnPlayerRespawnRequest ==
  /\ respawns > 0
  /\ respawns' = respawns - 1
  /\ down' = Tell(near, Reborn)
  /\ stray' = stray \ near
  /\ UNCHANGED <<serverVars, up, body, moves, done, born, cleared, missed, late>>

(* OnRequestRespawn of a viewer, who wants the new body. *)
RespawnViewer(v) ==
  /\ up[v] > 0
  /\ up' = [up EXCEPT ![v] = @ - 1]
  /\ cache' = <<>>
  /\ down' = Tell({v}, Spawn(Chain(<<>>)))
  /\ cleared' = Len(done)
  /\ missed' = missed \cup NumbersIn(cache)
  /\ UNCHANGED <<pending, sent, near, body, bounds, done, born, late, stray>>

-----------------------------------------------------------------------------
(* A viewer's client.                                                      *)

(* Mutated form: the exit that the chain left out is counted. *)
FreshBodyCounted(chain) ==
  [queue |-> chain.actions, replay |-> Len(chain.actions) + 1, reset |-> chain.reset,
   pose |-> <<>>]

(* AnimationSystem::Setup and AddActionsForReplay. *)
FreshBody(chain) ==
  [queue |-> chain.actions, replay |-> Len(chain.actions), reset |-> chain.reset,
   pose |-> <<>>]

(* OnCharacterSpawn: a body that is there is left as it is, or built anew  *)
(* if it is a temporary one in another cell.                               *)
OnCharacterSpawn(v, chain) ==
  \/ body' = [body EXCEPT ![v] = FreshBody(chain)]
  \/ /\ body[v] # NoBody
     /\ body' = body

(* OnReferencesMoveRequest of the client: dropped without a body. *)
OnSnapshot(v, acts) ==
  body' = IF body[v] = NoBody THEN body ELSE [body EXCEPT ![v].queue = @ \o acts]

Receive(v) ==
  /\ down[v] # <<>>
  /\ down' = [down EXCEPT ![v] = Tail(@)]
  /\ LET m == Head(down[v])
     IN  \/ m.type = "Spawn" /\ OnCharacterSpawn(v, m.chain) /\ UNCHANGED up
         \/ m.type = "Move" /\ OnSnapshot(v, m.acts) /\ UNCHANGED up
         \* OnRemoveCharacter
         \/ m.type = "Gone" /\ body' = [body EXCEPT ![v] = NoBody] /\ UNCHANGED up
         \* OnNotifyRespawn
         \/ /\ m.type = "Reborn" /\ body' = [body EXCEPT ![v] = NoBody]
            /\ up' = [up EXCEPT ![v] = IF body[v] = NoBody THEN @ ELSE @ + 1]
  /\ UNCHANGED <<serverVars, bounds, history>>

(* AnimationSystem::Update plays the first action that waits. The graph is *)
(* reverted before the first action of a replay, if the chain says so.     *)
Update(v) ==
  /\ body[v] # NoBody /\ body[v].queue # <<>>
  /\ LET b == body[v]
         revert == b.replay > 0 /\ b.reset
     IN  body' = [body EXCEPT ![v] =
           [queue |-> Tail(b.queue), replay |-> Max({0, b.replay - 1}), reset |-> b.reset /\ ~revert,
            pose |-> Append(IF revert THEN <<>> ELSE b.pose, Head(b.queue).n)]]
  /\ UNCHANGED <<serverVars, up, down, bounds, history>>

Next ==
  \/ \E kinds \in BoundedSeq(Kinds, 2), in \in SUBSET Viewers : OnReferencesMoveRequest(kinds, in)
  \/ ProcessMovementChanges
  \/ \E in \in SUBSET Viewers : OnCharacterExteriorCellChange(in)
  \/ RespawnOwner \/ OnPlayerRespawnRequest
  \/ \E v \in Viewers : \/ HandleGridCellShift(v) \/ HandleExteriorCellEnter(v)
                        \/ RespawnViewer(v) \/ Receive(v) \/ Update(v)

Spec == Init /\ [][Next]_vars

-----------------------------------------------------------------------------

(* The numbers of the actions after the k-th that make up a pose: no noise, *)
(* and nothing up to the last exit.                                         *)
Since(k) ==
  {i \in k + 1..Len(done) : /\ done[i] # "noise"
                            /\ \A j \in i..Len(done) : done[j] # "exit"}

(* The places in a pose that count: of an action played twice the last one, *)
(* of noise and of what came before an exit none.                          *)
Counts(pose) ==
  {i \in DOMAIN pose : /\ done[pose[i]] # "noise"
                       /\ \A j \in i..Len(pose) : done[pose[j]] # "exit"
                       /\ \A j \in i + 1..Len(pose) : pose[j] # pose[i]}

(* Viewer v has a body, and all that was meant for it. *)
CaughtUp(v) == body[v] # NoBody /\ pending = <<>> /\ down[v] = <<>> /\ body[v].queue = <<>>

(* PoseAgrees: the body of a viewer who has caught up holds, in the order  *)
(* the owner did them, the actions of the character since he left his root *)
(* state, whenever the viewer came, whether or not he is in range now, and *)
(* however often actions were played twice. Left out may be what the cache *)
(* had no room for, what a viewer's request for a new body cleared, and a  *)
(* body that missed an action or a respawn while the viewer was out of     *)
(* range, until he is told to remove it. An action of the old form that    *)
(* was not passed on when the owner respawned may be played by the new     *)
(* body.                                                                   *)
PoseAgrees ==
  \A v \in Viewers : CaughtUp(v) /\ v \notin stray =>
    LET pose == body[v].pose
        held == {pose[i] : i \in Counts(pose)}
    IN  /\ Since(born) \ missed \subseteq held
        /\ held \subseteq Since(born) \cup late
        /\ \A i, j \in Counts(pose) : i < j => pose[i] < pose[j]

(* ChainIsRecent: a newcomer is given the actions since the last exit of   *)
(* the last CacheSize that are worth it and that came since the cache was  *)
(* cleared, however often it was refined in between; and he is told to     *)
(* reset the body just if that exit is among them.                         *)
ChainIsRecent ==
  LET worth == {n \in cleared + 1..Len(done) : done[n] # "noise"}
      recent == {n \in worth : Cardinality({k \in worth : k >= n}) <= CacheSize}
      chain == Chain(Refined(cache))
  IN  /\ NumbersIn(chain.actions) = recent \cap Since(cleared)
      /\ chain.reset <=> \E n \in recent : done[n] = "exit"
      /\ \A i \in DOMAIN chain.actions : chain.actions[i].kind = "seated"
=============================================================================
