------------------------------- MODULE Quests -------------------------------
(* Quest progress in a party: the QuestServices of server and client and   *)
(* the parts of TESQuest they use.                                         *)
(*                                                                         *)
(* What a player does in a quest goes to the server, which notes it in his *)
(* quest log and passes it on to the rest of his party. A client carries   *)
(* it out in its own game. Nothing tells the game's events of that from    *)
(* the player's own (no ScopedQuestOverride is taken on this path), so it  *)
(* goes to the server again, until a game has nothing left to do.          *)
(*                                                                         *)
(* Membership is PartyService's; here a player just enters and leaves the  *)
(* one party. Connections last: they and the login, which brings a whole   *)
(* log, are Session's. The game is external: it is modelled by what the    *)
(* code relies on. Setting a stage starts a quest that is not running.     *)
(* Definitions marked "mutated form" are plausible bugs of the operator    *)
(* that follows; no specification uses them.                               *)
EXTENDS Integers, SequencesExt, FiniteSetsExt

CONSTANTS
  Players,   \* connected players
  Stages,    \* the stages of the quest, without the initial stage 0
  Shared,    \* the quest is of a type the server passes on
  NoEntry,   \* of a log without the quest
  MaxMoves,  \* bound on what players do in the quest
  MaxChanges \* bound on the times players enter and leave the party

ASSUME QuestsAssumption ==
  /\ Stages \subseteq Nat \ {0} /\ IsFiniteSet(Stages) /\ IsFiniteSet(Players)
  /\ Shared \in BOOLEAN /\ NoEntry \notin Nat
  /\ MaxMoves \in Nat /\ MaxChanges \in Nat

VARIABLES
  members,  \* players whose PartyComponent names the party
  log,      \* the quest in the QuestLogComponent of each player
  inParty,  \* PartyService::m_inParty of each client
  running,  \* does the quest run in the player's game?
  done,     \* stages that are done in the player's game
  up, down, \* messages on their way to the server, to each client
  moves, changes, \* what is left of the bounds
  \* History, which no step reads.
  owed,     \* stages somebody told the server while the player was a member
  crossed,  \* a player went on while a stop, or stopped while anything, was about
  bare      \* a member started the quest, and none has got on or stopped since

serverVars == <<members, log>>
gameVars == <<running, done>>
bounds == <<moves, changes>>
history == <<owed, crossed, bare>>
vars == <<serverVars, inParty, gameVars, up, down, bounds, history>>

Statuses == {"Started", "StageUpdate", "Stopped"}
QuestUpdate == [status : Statuses, stage : Stages \cup {0}]
Joined == [status |-> "Joined"]
Left == [status |-> "Left"]

TypeOK ==
  /\ members \subseteq Players
  /\ log \in [Players -> Stages \cup {0, NoEntry}]
  /\ inParty \in [Players -> BOOLEAN]
  /\ running \in [Players -> BOOLEAN] /\ done \in [Players -> SUBSET Stages]
  /\ up \in [Players -> Seq(QuestUpdate)] /\ down \in [Players -> Seq(QuestUpdate \cup {Joined, Left})]
  /\ moves \in 0..MaxMoves /\ changes \in 0..MaxChanges
  /\ owed \in [Players -> SUBSET Stages] /\ crossed \in BOOLEAN /\ bare \in BOOLEAN

Init ==
  /\ members \in SUBSET Players
  /\ log = [p \in Players |-> NoEntry]
  /\ inParty = [p \in Players |-> p \in members]
  /\ running = [p \in Players |-> FALSE] /\ done = [p \in Players |-> {}]
  /\ up = [p \in Players |-> <<>>] /\ down = [p \in Players |-> <<>>]
  /\ moves = MaxMoves /\ changes = MaxChanges
  /\ owed = [p \in Players |-> {}] /\ crossed = FALSE /\ bare = FALSE

Tell(ps, m) == down' = [p \in Players |-> IF p \in ps THEN Append(down[p], m) ELSE down[p]]

-----------------------------------------------------------------------------
(* The game and what the client tells of it.                               *)

CurrentStage(p) == Max({0} \cup done[p])

(* OnEvent of either kind: what happens outside a party stays there. *)
Report(p, updates) ==
  up' = IF inParty[p] THEN [up EXCEPT ![p] = @ \o updates] ELSE up

Stage(s) == [status |-> "StageUpdate", stage |-> s]

(* The event of the quest's start or end in the game of p. *)
StartStop(p, status) == [status |-> status, stage |-> CurrentStage(p)]

(* The events of stage s being set in the game of p, after that of the     *)
(* quest's start if it did not run.                                        *)
StageEvents(p, s) ==
  IF running[p] THEN <<Stage(s)>> ELSE <<StartStop(p, "Started"), Stage(s)>>

(* Stage s is set in the game of p. *)
SetCurrentStage(p, s) ==
  /\ done' = [done EXCEPT ![p] = @ \cup {s}]
  /\ running' = [running EXCEPT ![p] = TRUE]
  /\ Report(p, StageEvents(p, s))

Quiet == \A p \in Players : up[p] = <<>> /\ down[p] = <<>>

(* A stop is on its way between the server and a client. *)
StopAbout ==
  \E p \in Players : \/ \E i \in DOMAIN up[p] : up[p][i].status = "Stopped"
                     \/ \E i \in DOMAIN down[p] : down[p][i].status = "Stopped"

(* A player gets on in the quest. *)
GetOn(p, s) ==
  /\ moves > 0 /\ s \notin done[p]
  /\ moves' = moves - 1
  /\ SetCurrentStage(p, s)
  /\ crossed' = (crossed \/ StopAbout) /\ bare' = (bare /\ p \notin members)
  /\ UNCHANGED <<serverVars, inParty, down, changes, owed>>

(* His quest starts, for the first time or again, at the stage it has.     *)
Start(p) ==
  /\ moves > 0 /\ ~running[p]
  /\ moves' = moves - 1
  /\ running' = [running EXCEPT ![p] = TRUE]
  /\ Report(p, <<StartStop(p, "Started")>>)
  /\ crossed' = (crossed \/ StopAbout) /\ bare' = (bare \/ p \in members)
  /\ UNCHANGED <<serverVars, inParty, done, down, changes, owed>>

(* A player's quest ends or fails. *)
Stop(p) ==
  /\ moves > 0 /\ running[p]
  /\ moves' = moves - 1
  /\ running' = [running EXCEPT ![p] = FALSE]
  /\ Report(p, <<StartStop(p, "Stopped")>>)
  /\ crossed' = (crossed \/ ~Quiet) /\ bare' = (bare /\ p \notin members)
  /\ UNCHANGED <<serverVars, inParty, done, down, changes, owed>>

(* Mutated form: the stage is set whether it is done or not. *)
ScriptSetStageAlways(p, s) == SetCurrentStage(p, s)

(* Mutated form: stage 0 is taken for one that is not done. *)
ScriptSetStageZero(p, s) ==
  IF s \in done[p] THEN UNCHANGED <<gameVars, up>> ELSE SetCurrentStage(p, s)

(* Mutated form: what is carried out for others is not told. *)
ScriptSetStageQuietly(p, s) ==
  /\ done' = [done EXCEPT ![p] = @ \cup ({s} \ {0})]
  /\ running' = [running EXCEPT ![p] = @ \/ (s \notin done[p] \cup {0})]
  /\ UNCHANGED up

(* ScriptSetStage. Stage 0 is where every quest starts: setting it changes *)
(* nothing. A quest that stands where the other's started does not start.  *)
ScriptSetStage(p, s) ==
  IF s \in done[p] \cup {0} THEN UNCHANGED <<gameVars, up>> ELSE SetCurrentStage(p, s)

(* Mutated form: the quest is no longer shown, but runs on. *)
StopQuestHidden(p) == UNCHANGED <<gameVars, up>>

(* StopQuest: flags are written, the game sends no event. *)
StopQuest(p) ==
  /\ running' = [running EXCEPT ![p] = FALSE]
  /\ UNCHANGED <<done, up>>

(* OnQuestUpdate, and what PartyService does with Joined and Left. *)
Receive(p) ==
  /\ down[p] # <<>>
  /\ down' = [down EXCEPT ![p] = Tail(@)]
  /\ LET m == Head(down[p])
     IN  \/ /\ m.status \in {"Joined", "Left"}
            /\ inParty' = [inParty EXCEPT ![p] = m = Joined]
            /\ UNCHANGED <<gameVars, up>>
         \/ /\ m.status \in {"Started", "StageUpdate"}
            /\ ScriptSetStage(p, m.stage) /\ UNCHANGED inParty
         \/ /\ m.status = "Stopped"
            /\ StopQuest(p) /\ UNCHANGED inParty
  /\ UNCHANGED <<serverVars, bounds, history>>

-----------------------------------------------------------------------------
(* The server.                                                             *)

(* SendToParty, but to the sender. *)
Audience(p) == IF p \in members THEN members \ {p} ELSE {}

(* Mutated form: only what is new to the sender's log is passed on. *)
PassedOnOnce(p) == IF log[p] = NoEntry THEN Audience(p) ELSE {}

PassedOn(p) == Audience(p)

(* OnQuestChanges. Of a type that is not passed on nothing is noted. *)
OnQuestChanges(p) ==
  /\ up[p] # <<>>
  /\ up' = [up EXCEPT ![p] = Tail(@)]
  /\ LET m == Head(up[p])
     IN  IF ~Shared THEN UNCHANGED <<log, down, owed>>
         ELSE /\ log' = [log EXCEPT ![p] = IF m.status = "Stopped" THEN NoEntry ELSE m.stage]
              /\ Tell(PassedOn(p),
                      IF m.status = "Started" /\ log[p] # NoEntry THEN Stage(m.stage) ELSE m)
              /\ owed' = [q \in Players |->
                   IF q \in Audience(p) /\ m.status # "Stopped" THEN owed[q] \cup ({m.stage} \ {0})
                                                                ELSE owed[q]]
  /\ UNCHANGED <<members, inParty, gameVars, bounds, crossed, bare>>

(* PartyService takes a player in ... *)
Enter(p) ==
  /\ changes > 0 /\ p \notin members
  /\ changes' = changes - 1
  /\ members' = members \cup {p}
  /\ Tell({p}, Joined)
  /\ UNCHANGED <<log, inParty, gameVars, up, moves, history>>

(* ... and removes him. *)
Leave(p) ==
  /\ changes > 0 /\ p \in members
  /\ changes' = changes - 1
  /\ members' = members \ {p}
  /\ Tell({p}, Left)
  /\ UNCHANGED <<log, inParty, gameVars, up, moves, history>>

Next ==
  \E p \in Players :
    \/ \E s \in Stages : GetOn(p, s)
    \/ Start(p) \/ Stop(p) \/ Receive(p) \/ OnQuestChanges(p) \/ Enter(p) \/ Leave(p)

Spec == Init /\ [][Next]_vars

(* Clients and the server read what they are sent; players need do nothing. *)
FairSpec == Spec /\ \A p \in Players : WF_vars(Receive(p)) /\ WF_vars(OnQuestChanges(p))

-----------------------------------------------------------------------------

(* EchoDies: what a client carries out for another comes back to the       *)
(* server, but not for ever: once the players rest, so do the messages.    *)
EchoDies == <>[]Quiet

(* StagesSpread: a stage that somebody told while a player was in the      *)
(* party gets done in his game.                                            *)
StagesSpread == \A p \in Players, s \in Stages : [](s \in owed[p] => <>(s \in done[p]))

(* MembersAgree: as long as nobody has come or gone, members who have      *)
(* heard everything have done the same stages, and all have the quest      *)
(* running or none, unless a stop crossed with something else or a member  *)
(* started it and nobody has got on or stopped since.                      *)
MembersAgree ==
  Quiet /\ changes = MaxChanges /\ Shared =>
    \A p, q \in members : /\ done[p] = done[q]
                          /\ ~crossed /\ ~bare => running[p] = running[q]

(* LogFollows: a member's log at the server names a quest that was told to *)
(* be running, with a stage that is done in his game; it has no entry for  *)
(* a quest he runs unless somebody came or went.                           *)
LogFollows ==
  Quiet => \A p \in members :
    /\ log[p] \in done[p] \cup {0, NoEntry}
    /\ changes = MaxChanges /\ Shared /\ running[p] => log[p] # NoEntry
=============================================================================
