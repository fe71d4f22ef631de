# Verification of Skyrim Together VR: who is right about the shared world

Skyrim Together VR (Tilted Evolution VR) lets several copies of a single-player
game pretend to be one world. A server keeps an ECS registry of characters and
objects; every client runs the real game and a mirror of that registry; each
change travels as a message on one reliable, ordered connection per player.
Nothing in the game was made for this, so the code that matters is the code
that decides *who is right*: which client simulates an actor, which players
form a party and who leads it, what time it is. This directory models that
code in TLA+, checks it with TLC and proves its main properties with TLAPS.

Paths below are relative to `src/Code`; `S/` is `server/Services`, `G/` is
`client/Services/Generic`.

## 1. The system

The server (`server/`) is one game thread: `GameServer::OnUpdate` triggers an
`UpdateEvent`, incoming packets become `PacketEvent<T>`s, connections coming and
going call `OnConnection` and `OnDisconnection`. Services subscribe to those
events through an `entt` dispatcher (`trigger` runs at once, `enqueue` waits for
`update`). So each server handler is atomic, and everything hard lies between
handlers: what another client did, or was not told yet, while a message was
under way. A client (`client/`) has the same structure on the game's main
thread, with the game itself as a further, uncooperative actor that loads and
unloads references as it likes.

| component | state | operations | interacts with |
|---|---|---|---|
| **Character ownership** (`S/CharacterService`, `server/Components/OwnerComponent.h`; `G/CharacterService`, `G/DiscoveryService`) | per actor: owner, `OwnershipEpoch`, `InvalidOwners`, dead; per client: Form/Local/Remote/WaitingFor components, cancelled cookies | assign, create, transfer, claim, release, decline, mount, remove; load, unload, sweep | cells (range), parties (leader may claim), disconnects |
| **Deaths** (`S/ActorValueService`, `G/ActorValueService`) | dead flag on both sides | one-shot notice to everybody | ownership epochs |
| **Parties** (`S/PartyService`, `G/PartyService`) | parties with leader and members, invitations; each client's view | create, invite, accept, kick, change leader, leave, auto-join | join and leave of players; read by ownership, weather, quests, time |
| **Calendar** (`S/CalendarService`, `S/CommandService`, `G/CalendarService`, `common/DateTime`) | shared clock; each client's clock, lock and last tick | tick, join, set time and date, sleep | parties (who may), cells (who is told) |
| **Players and connections** (`server/GameServer.cpp`, `server/Game/PlayerManager.cpp`, `S/PlayerService`, `G/TransportService`, `G/OverlayService`) | connected players, sessions; each client's list of players | authenticate, accept, refuse, cancel, join, disconnect, restart | everything |
| **String cache** (`encoding/StringCache.cpp`, `encoding/Structs/CachedString.cpp`, `S/StringCacheService`, `G/StringCacheService`) | id table on the server, a copy on each client, wanted strings | snapshots every two seconds, whole table to a newcomer, lookup in messages | joins; every message with an animation variable or event |
| **Cells and visibility** (`S/PlayerService`, `S/CharacterService`, `CellIdComponent.h`, `G/DiscoveryService`) | cell and grid centre of players, cell of each character; bodies on each client | grid shift, interior and exterior enter, movement, spawn, remove | spawns and removals, objects |
| **Objects and inventories** (`S/ObjectService`, `S/InventoryService`, `encoding/Structs/Inventory.cpp`, `G/ObjectService`, `G/InventoryService`) | records per cell with locks and contents; ids and contents on each client | assign, destroy, add or remove entries, lock, activate | cells, epochs |
| **Objects in hands (VR)** (`G/HiggsService`, `G/ObjectService`, `G/InventoryService`; relays in `S/ObjectService`) | what each hand holds, streams, warped objects, names of drops | grab, let go, stream, settle, give up, drop, pick up | cells |
| **Animation replay** (`server/Game/Animation`, `S/CharacterService`, `client/Systems/AnimationSystem.cpp`) | bounded list of actions per character, actions to pass on, queue of each body | append, refine, clear, replay | spawns, movement |
| **Quests** (`S/QuestService`, `G/QuestService`, `TESQuest.cpp`) | quest log per player; each game's quests | start, stage, stop; relay and echo | parties |
| **Weather** (`S/WeatherService`) | weather per party | relay of the leader's weather | parties |
| **Relays** (magic, combat, map, chat, equipment, dialogue) | none or last value | forward to players in range | ownership checks |
| **Scripting, administration, server list, console, encoding, launcher, interfaces** | — | I/O and presentation | — |

`PROJECT.json` gives the status of each, and lists the hazards by line.

### What is hard, and what makes each component correct

* *Ownership.* Any number of grants, releases, claims and spawns for one actor
  are in flight to and from clients that load and unload it meanwhile. Correct
  means: no two clients simulate it under the same authority; what the server
  accepts comes from the owner it knows; it never stays without a simulator;
  nothing is taken from a player against the rules; a death is not lost.
* *Parties.* Three records of the same fact (member list, leader, each player's
  own record) and a fourth on each client. Correct means they agree, always on
  the server and eventually on the clients; an invitation or a kick that comes
  late does no harm.
* *Calendar.* Every client runs its own clock between messages and, when its
  player sleeps, moves it before asking. Correct means: time is conserved, only
  a command turns it back, and clients that were told everything agree.
* *Sessions and strings.* A login has many ways to fail, one of them after the
  player was made, and what a newcomer is told in one message meets what is told
  to everybody around it. Correct means: every login ends, each list of players
  shows everybody else once, and a client's string table is what the server
  thinks it is, whatever snapshots, joins and reconnections came in between.
* *Cells, objects.* State follows players across borders whose shape differs
  between interiors and the exterior grid, and is kept in several copies (the
  cell a player reported, the one his movement says, the ones he has loaded).
  Correct means each client is shown what it has loaded and told of every
  removal, and a watcher's container holds what the server's record says.
* *Replay.* A newcomer gets a character's past from a cache that is cut, refined
  and cleared while the present goes on in another message. Correct means that
  his body ends in the pose of the original.
* *Quests.* What a client carries out for another raises the game's own events
  and is sent again. Correct means that the echo dies out and members agree.
* *Objects in hands.* Two streams of one object, releases that HIGGS does not
  report, streams that just stop. Correct means that an object comes to rest, in
  one place, and that a drop somebody picked up is gone for all.

## 2. Modules

| module | what it is |
|---|---|
| `Ownership` | one actor, all players, both ends of the ownership protocol, with deaths |
| `OwnershipLease` | abstract specification: a lease that has one holder per token |
| `OwnershipRefinement` | `Ownership` mapped to `OwnershipLease` (`ImplementsLease`) |
| `OwnershipProofs` | proofs about both, and of the rules by which the server hands an actor on |
| `Party` | parties, invitations and player lists, server and clients |
| `PartyProofs` | proofs about `Party` |
| `Calendar` | the shared clock, server and clients |
| `Session` | connections, logins, player lists and the string cache |
| `StringLog` | abstract specification of the string cache: an append-only log and its readers |
| `SessionProofs` | proofs about `Session`, with the refinement of `StringLog` |
| `Visibility` | cells, and the bodies each client is shown |
| `VisibilityProofs` | proofs about `Visibility` |
| `Objects` | objects registered per cell, and their contents |
| `ObjectsProofs` | proofs about `Objects` |
| `Replay` | the replay cache of one character and the bodies of its viewers |
| `ReplayProofs` | proofs about `Replay` |
| `Quests` | one quest in a party |
| `WorldProofs` | proofs about `Quests` and about `Calendar` |
| `Held` | objects in players' hands, and drops |
| `HeldProofs` | proofs about `Held` |
| `MC...` | instances of each for TLC |

Names of actions are those of the handlers they model; `PROJECT.json` maps every
definition to its lines. Each action is a whole handler with everything it
sends. A definition marked as a *mutated form* is a plausible bug of another
operator; no specification uses it. Variables called *history* are read by
properties only: they name the cases in which the code does not keep a promise,
so that the promise can be checked for all others.

The modules meet at four seams. *Who is connected* is the subject of `Session`;
the others begin with a player who has joined and repeat only the clean-up they
are about. *Who is in range* is computed in `Visibility`, from messages that may
be late; `Ownership` and `Replay` take range as an input. In both it changes at
any time, and in `Replay` in each way the server changes it: with a spawn (a grid
shift, an entry indoors), with nothing (an entry outdoors, a shift out of range,
the owner's next movement), while the spawns and removals of a crossing leave it
as it is. *Who leads or is a member* is
`Party`'s; `Ownership`, `Calendar` and `Quests` take it as an input that changes
at any time. *Who simulates an actor* is `Ownership`'s; `Replay` follows one
owner. A module of all of them together would be out of TLC's reach, and with
inputs that may do more than their neighbours nothing is lost for safety.

### Ownership

`actor` is the server entity (`OwnerComponent` and the death flag); `client[c]`
is c's ECS entity for the same reference: `form` (it has a `FormIdComponent`),
`loc` and `rem` (the token in its `LocalComponent` or `RemoteComponent`), `wait`
(the cookie of the assignment it waits for), `cancelled` (cookies of entities it
gave up while waiting). `near` is who is in range, as the server sees it.
`toServer` and `toClient` are the connections. Each end notices a broken
connection on its own (`up`, `online`), and what is in flight is then lost.

Abstractions, each towards more behaviours than the code has unless noted:

* One persistent reference. Actors do not interact in the modelled handlers, so
  several of them are several copies; summons and other temporary actors are
  left out.
* A client's idea of leading its party when it meets an actor is arbitrary; the
  server checks again (`CanClaimOwnership`).
* The hash order in which the server tries next owners is arbitrary, and so is
  whether a new `Player` gets the address of an old one remembered in
  `InvalidOwners`.
* The answer to an assignment may find its form unresolvable; a transfer may
  find its actor without 3D.
* A message about cells arrives at any time; `HandleGridCellShift` is atomic.
* An entity left with a `LocalComponent` but no form is inert: it is dropped.
* The build is the VR one (`TP_SKYRIMVR`).
* The epoch is a `uint32_t` that skips 0; `NextEpoch` has the wrap, but bounds
  and proofs stay below it: at the wrap the client's `<=` comparison would refuse
  every later grant, which takes 2^32 transfers of one actor.

`Budget` bounds spontaneous events (loads, unloads, sweeps, cell and party
changes, drops, rejoins, deaths); everything that *answers* an event is
unbounded. Runs stop when budgets are spent, hence `CHECK_DEADLOCK FALSE`.

### Parties

The server half: `parties` (`m_parties`), `joined` and `invitations`
(`PartyComponent`). The client half: `view`, `players`, `invites`. What a client
is sent is split in two queues, `news` (its party) and `mail` (player lists and
invitations), because the two sets of handlers share no state; order within each
is kept.

* A player is a session: ids are counted up and never reused. The address of a
  `Player` may be reused, and invitations are keyed by it
  (`InheritInvitations`).
* The order in which a sweep adds players (hash map) is arbitrary.
* `IsLeader` in a message is `leader = recipient` and not a field of its own.
* Requests are guarded as the interface guards them: kick and change leader by
  the leader beside another member, invite for a listed player, accept for a
  held invitation.
* A tick is the time between two purges of expired invitations; clients follow
  the server's tick.
* `PurgedHolders` is empty because the loop in `OnUpdate` runs over entities
  with a `PartyComponent`, and no entity has one.

`MaxRequests` bounds what users ask, `MaxTick` the clock.

### Calendar

`clock` is `m_dateTime`; `game[c]` the clock of the game of c's player, which is
also `m_onlineTime` while the client drives it (`locked`); `last` is `m_lastTick`;
`sleeping` and `before` the sleep in progress. The calendar itself (month
lengths, days from 1, months from 0) is the code's. The specification is
`ClockSpec`, in names apart from those of `Quests`, so that one module can hold the
proofs about both.

* Hours instead of milliseconds; a tick is an hour at scale 1. Both sides tick
  together, and no tick falls while a clock is on its way to a client, because
  a delivery is short beside an hour of game time (three minutes at the default
  scale). Sleep requests may be overtaken by any number of ticks.
* Whether a player may move the clock is decided anew at each request: that is
  the party model's business.
* `GetTimeInDays` is exact in the model. As a `float` it resolves about eleven
  minutes around year 201, less than the model's hour.
* The fade of the displayed hour in the five seconds after a (dis)connect is
  left out, and so is a reconnect to another server with a lower tick.
* `astray` is a history variable. It names the three ways in which the code
  leaves a client with another clock than the server: a refused sleep, a change
  while the client is in no cell, and a clock taken up with a stale
  `m_lastTick`. `InStep` says that there is no fourth.

### Session and StringLog

Server: `open` (sockets), `players` (`PlayerManager`), `table` and `wanted`
(`StringCache` and the set of strings to add), `cacheId` (`Player::m_stringCacheId`).
Client: `conn`, `online`, `cache`, `roster`. `up` and `down` are one connection's
two directions; `HandleUpdate` is the server's snapshot, with the strings wanted
since the last one.

* The reasons to refuse a request (version, password, mods, a name twice) are
  one bit of it (`fit`), beside the capacity. A script's refusal comes after the
  `Player` was made, as in the code.
* A newcomer hears of those who are there by one `NotifyPlayerJoined` each, sent
  in a row; that is one message with a set.
* What is still under way when an end gives up a connection is lost. That a
  client reads some of it first is the same as reading it before.
* A client's own `wanted` set exists in the code too but is never processed.
* A `Restart` is a crash of the server: nothing of this state is persisted.
* Nothing is sent while nothing is wanted. When what is wanted is known already,
  the snapshot goes out without strings, as `HandleUpdate` does here.
* `StringCacheUpdate` has 16 bits for the start and the number of strings; the
  model's tables stay below.

`StringLog` is what the cache promises: a log that only grows, until it begins
anew, and readers that copy it in order. `ImplementsLog` maps the server's table
to the log and the caches of those who play to the readers.

### Visibility

Server: `seated`, `cell` (`Player::m_cell`, what Shift and Enter requests say),
`at` (`CellIdComponent`, what movement says), `characters`. Client: where the
player is (`pos`), what his game has loaded (`centre`), what he last reported
and the bodies he has (`knows`).

* One worldspace with one coordinate. When the game moves the centre of what it
  has loaded is external: any time before the player is `Slack` cells off.
* Only the players' characters: non-player characters are assigned and spawned by
  the same handlers, dragons have a longer range.
* A `Player` is one connection and is used once. Bodies that the game itself
  deletes are not modelled.
* `ZeroTaken = FALSE` makes entity 0 a player's character, which is what the
  server takes a player without a character to own.
* `missed` names the two ways in which a player is not shown a body he should
  see: he arrived while the server's cell of that character was old, or the
  character crossed a border while he was off the centre of his cells.
* `knows` holds a player's own character too, once it is assigned. A removal takes
  remote bodies only (`OnRemoveCharacter` looks for a `RemoteComponent`), so he keeps
  it when the server destroys it, and `NoGhosts` speaks of the bodies of others.
* `Player::m_character` outlives the entity. Such a player's entry into an exterior
  cell announces the character once more, from a component that is no longer
  there, which is undefined: the model has the announcement, or a server that
  takes no further step. `haunted` names such characters.

### Objects

`id` and `count` are the server's record of each object, `held` the ids a client's
entity has had, `content` what is in the object in each game. A container holds
one kind of item, and the number in a record may fall below 0, as in
`Inventory::AddOrRemoveEntry`.

* In which order a client asks for its cell and for its objects is left open.
* A client keeps the entities of its objects when it reconnects.
* Locks, activation, doors and a restart of the server are not modelled.
* `watched` is who stands by an object, has not touched it before the answer and
  has it registered; `unheard` and `overdrawn` are the two exceptions: a change
  between a player's two messages, and an object of which more was taken than
  there was.

### Replay

One character with its owner, any number of viewers. Server: `cache`
(`ActionReplayCache`), `pending` (the actions to pass on), whether movement is still
to be sent, and `near`, whom `ProcessMovementChanges` sends to: those whose own
cell and the cell of the character's last movement are near each other. Viewer: `body` with the queue of actions that
`AnimationSystem::Update` works off and the actions it has played. Actions are
of three kinds: one that changes the pose, one that leaves it for the root
state, and one not worth replaying.

* The owner's channel is merged with the server's handler.
* Scripts cancel nothing, and updates that bring neither an action nor a new cell
  are left out.
* A viewer's own entry outdoors and a shift out of range change `near` and send
  nothing; a shift or an entry indoors into range sends the character, which a
  client with a body may ignore; the owner's crossing sends spawns and removals,
  and `near` follows with his next movement. So a viewer may keep a body that is no
  longer told anything, and may be sent a body he is out of range of.
* A new body is asked for after a change of form (`RespawnOwner`, which clears the
  cache) and after a death (`OnPlayerRespawnRequest`, which does not).
* `missed` (cleared by a viewer's request for a new body, or cut), `late` (passed
  on after a respawn) and `stray` (a body, there or on its way, that missed an
  action or a respawn while its viewer was out of range) are the exceptions that
  `PoseAgrees` names.

### Quests

One quest of a type that is passed on. `log` is each player's quest log on the
server; `running` and `done` are the quest in each player's game. The game is
external: setting a stage that is not done raises a stage event and, if the
quest does not run, a start event, which is what `TESQuest.cpp` and the event
sinks rely on. `TESQuest::ScriptSetStage` does nothing for a stage that is done.

* Stage 0 is the start. The active flag, the interface and the list of quests
  that are never passed on are left out.
* A quest also starts without a new stage, for the first time or again (`Start`).
  The client reports it; the others' `ScriptSetStage` finds the stage done, or
  current, and returns.
* Connections last. `crossed` marks runs in which somebody stopped the quest
  while others went on, or the reverse; `bare` those in which a member started it
  without a stage and none has got on or stopped since; `owed` the stages a member
  was told of.

### Held

What HIGGS reports (`queue`), what `HiggsService` makes of it (`told`) and what
`ObjectService` does (`slots`, `settling`, `driven`) are separate pieces of state, as
in the code; `grip` is what the hand really holds. A drop has a copy in each
game that learnt of it (`copy`), which has a name (`named`) once it is paired.

* The build is the VR one. HIGGS is external, and may fail to report that an
  object held in both hands was let go (`LetGo`).
* One cell; nobody leaves it with something in his hands.
* Easing between two packets, the snap at the end and the drift watch are motion
  or diagnostics: a place is one of `Spots`.
* The way up is merged with the relay, and the dropper's own pairing with his
  drop. `bEnableItemDrops` off, or no reference for the drop, is the branch
  without a copy. The cap of the registry (256 names) is not reached.
* What nothing streams or drives may move under its client's own physics
  (`MoveUnseen`): a throw given up at `kMaxSettleTime`, at both ends; what a silent
  stream left in the air; a HIGGS pull that ends in no grab; a kick.
* `behind` and `spared` name the exceptions of `RestAgrees` and `PickupClears`:
  streams that crossed and copies that moved unseen, until the next stream, and
  copies that a removal could not reach.

## 3. Runs

| run | question | bounds |
|---|---|---|
| `ownership_safety` | `OneAuthorityPerEpoch`, `AuthorityIsServers`, `OwnerNotRejected`, `NoTheft`, `ImplementsLease` | two players; two loads, an unload, a sweep, a party change, a drop, a rejoin and a death |
| `ownership_reconnect` | `OwnerConnected` for a horse, in and out of range | two players; drop, rejoin, roam, two loads, unload, ride or claim |
| `ownership_liveness` | `OwnershipSettles`, `DeathSettles` under fairness | two players; load twice, unload, sweep, drop, death |
| `party_invite` | `Membership`, `ViewAgrees`, `NoPoaching` | three players who have arrived; four requests in all, any drops |
| `party_settle` | `PartiesSettle` on a server with auto-join | two players who arrive and drop; three requests, two ticks |
| `calendar` | types (`ClockTypes`), `InStep`, `ClockForward`, `ClockRuns` | two players around the ends of February and of December; four moves, two ticks, scales 1 and 2 |
| `session` | `Contiguous`, `Decodable`, `RosterAgrees`, `ImplementsLog`, `LoginSettles`, `WordSpreads` | two clients, two connections, two strings said twice, one restart |
| `visibility` | `NoGhosts`, `Shown` | two players; a road of three cells and an inn, two trips, two notices under way |
| `objects` | types, `WatchersAgree`, `OneObjectPerId` | two players, two containers with one item each, two cells and an inn; two trips, two changes, two joins, three ids |
| `replay` | types, `PoseAgrees`, `ChainIsRecent` | one viewer; a cache of two actions, four actions, two changes of cells by the owner or the viewer, a respawn |
| `quests` | types, `MembersAgree`, `LogFollows`, `EchoDies`, `StagesSpread` | two players, two stages; four moves, one who comes or goes |
| `held` | types, `RestAgrees`, `PickupClears`, `ComesToRest`, `HoldShown` | two clients, one cup, two places; two turns (grabs, absences, broken connections, unseen motion), one message under way to each |

The types of `Ownership`, `Party`, `Session` and `Visibility` are theorems (section 4)
and not checked again; so are `Membership` and `ViewAgrees` with auto-join, which
`party_invite` leaves out.

Why these bounds are enough to be interesting: a disagreement about an actor
needs a second client that learns late, which two players and two loads give.
In `party_invite`, one party each for two players takes two requests, an
invitation the third, an answer the fourth; the proofs cover the rest. In
`session`, the second string and the second connection put a join between two
snapshots, and the restart gives an id of the first table to a string of the
second. In `visibility`, three cells make two that do not see each other, and two
trips let both players cross a border, or one come back. A cache of two is cut
by the third action of `replay`, with a fourth to show what was needed of the
first; two changes of cells take a viewer out of range with his body and back, or
the owner away and after him the range. In `held`, two turns are a grab by each
client, or a grab and a broken connection, an absence or a roll that nobody
streams; drops cost none. A character announced after its end (`haunted`) leaves
somebody a ghost only beside two others; `visibility` has two players, and the
proof covers any number. That the bounds reach the interesting
cases is shown by mutants: for every property `PROJECT.json` names a plausible bug
of the code with which TLC violates it under the run's own bounds.

`party_invite` starts from a state in which everybody has arrived and read his
lists, a reachable state of `Spec`; the others start from nothing. Symmetry is
used in runs without liveness only. Bounded inputs run out and players may rest,
hence `CHECK_DEADLOCK FALSE`.

### Fairness

It is never assumed that a player does something: nobody has to ask, load, die,
take a stage or open a hand.

* `Ownership`, `Party`, `Quests`: each end processes the messages it has (the server
  in `OnConsume` on every tick of its thread, the client in
  `TransportService::HandleUpdate` on every frame), and an end notices a connection
  whose other end is gone (the transport's timeout). A client that is sent a
  grant need not be able to take it.
* `Session`: the same, and the snapshot of the string cache every two seconds.
* `Held`: clients go on drawing frames, so events are drained, hands are
  reconciled, messages are read, pairings and pickups handled and silent streams
  given up (`kDrivenTimeout`). Strong fairness is needed for `ComeToRest` alone: an
  object that is let go of again and again reaches `kMaxSettleTime`.
* `Calendar`, `Visibility`, `Objects` and `Replay` state no liveness.

### Divergences met while reading and modelling

What the code does here differs from what a comment, a name or the interface
suggests. The models do what the code does, and properties that such a step
would break name it.

1. A client that unloads an actor while its assignment is awaited and loads it
   again declines the first answer and installs the second, which carries the
   same token (`G/CharacterService.cpp:593`): until the next transfer it simulates
   what it has just given up.
2. A client out of range misses ownership changes and keeps an old epoch on its
   mirrored actor, so it drops the death that the server sends to everybody on
   purpose (`G/ActorValueService.cpp:553`).
3. The purge of expired invitations loops over entities with a `PartyComponent`,
   which no entity has, and no handler looks at the expiry (`S/PartyService.cpp:82`).
4. A kick hides the kicked, still connected player from every player list
   (`S/PartyService.cpp:193`), and one that arrives after its target has joined
   another party removes him from that one (`S/PartyService.cpp:192`).
5. The last day of every month is refused as a date, and the refused sleeper's
   clock is not put back (`S/CommandService.cpp:86`, `S/CalendarService.cpp:111`).
6. A client that reconnects adds the time it was away to its clock
   (`G/CalendarService.cpp:233`); one that has no cell yet misses changes of the
   clock (`S/CalendarService.cpp:135`).
7. A player who leaves without a character is taken to own entity 0, whoever's it
   is (`server/GameServer.cpp:652`, below the comment "Cleanup all entities that we
   own"). The one whose it is keeps his character and his `Player` the handle
   (`G/CharacterService.cpp:1125`), and his next entry into an exterior cell
   serializes the destroyed entity (`S/PlayerService.cpp:93`).
8. Who is shown to an arriving player is judged by the cells other characters
   last reported, and later crossings by the cell he is in (`S/PlayerService.cpp:59`):
   the two kinds of `missed`.
9. A respawn clears the replay cache but not the actions that wait to be passed
   on (`S/CharacterService.cpp:504`), and a viewer's request for the new body
   clears the cache again.
10. The objects of a cell are destroyed when the last player leaves it though
    others still see it, and none are when a player walks into an exterior cell
    (`S/PlayerService.cpp:88`).
11. Two players who take the last item of a container both get it, and the record
    goes below zero (`encoding/Structs/Inventory.cpp:147`).
12. The server subtracts the health change that the clients it passes it to add
    (`S/ActorValueService.cpp:90`): a newcomer's health is wrong until the next full
    update.
13. Two clients that stream one object at once may leave it in different places
    until it is streamed again (`G/ObjectService.cpp:1592`). So may one that is given
    up at `kMaxSettleTime` and rolls on ("a small disagreement at worst",
    `G/ObjectService.cpp:1396`), or that a pull without a grab has moved
    (`G/HiggsService.cpp:132`).
14. A start of a quest is reported without a new stage (`G/QuestService.cpp:56`), but
    the receiver's `ScriptSetStage` returns at once for a stage that is done or
    current (`client/Games/Skyrim/Forms/TESQuest.cpp:102`): the quest runs for one
    member and not for the other.
15. Who is sent a character's movement may change without a spawn or a removal
    (`S/PlayerService.cpp:88`, `S/CharacterService.cpp:389`): a viewer keeps his body,
    misses actions and comes back to a pose that is old until he has to remove it.

## 4. Proofs

All theorems hold for any number of players and any bounds, under the modules'
named assumptions (`NoPlayer` is not a player; bounds are naturals; the epoch
bound is below the modulus; there is a place for objects to lie; the replay cache
has room for an action; `Players` of `Party`, `Objects` of `Objects`, and `Players`
and `Stages` of `Quests` are finite, for the sequences made of them and the highest
of them).

**The lease** (`OwnershipProofs`). `LeaseSafe`: a token has one holder and
nobody holds a token the lease has not reached. `LeaseStep` says of any two states
of a lease, whatever they are states of, that the second is sound if the first is.

**Ownership** (`OwnershipProofs`). `TypeCorrect`; `SingleAuthority`
(`OneAuthorityPerEpoch`); `ServerAuthority` (`AuthorityIsServers`);
`Implementation` (`ImplementsLease`). The safety properties are not inductive:
what a client installs depends on what is in flight to it. So they are proved
through the refinement. A *grant* of a player is a token he holds, or one in an
assignment answer or a transfer under way to him; the concrete invariant `Ready`
(the types, and that an actor that does not exist has no owner) suffices to show
that every step of `Ownership` is a step of the lease or a stutter. Messages that
bestow nothing (spawn, removal, death, an answer to somebody else) create no
grant, so one lemma on replacing a client's entity covers most client steps; the
only sources of a new token are `TransferOwnership`, with the next epoch, and
`CreateCharacter`, with a fresh id. The lease's own invariant `Leasing` (every
grant bears a token the lease has reached, two players never hold grants of one
token, a grant of the current token is the current owner's) is proved once, for
the lease alone (`LeaseInv`), and holds of the mapped state by the same lemma
(`LeaseHeld`).

**The server's rules** (`OwnershipProofs`). `OwnersConnected`
(`OwnerConnected`); `OwnersNotRejected` (`OwnerNotRejected`); `NobodyRobbed`
(`NoTheft`). The first two hold together or not at all: a claim makes its sender
the owner, so it matters that requests still to be read come from connected
players, and a hand-over picks among those connected, in range and not among the
decliners, or removes the actor. `Ruled` says the three and is carried beside
`Ready`. `NoTheft` then follows step by step: a lemma per handler says who may
have become the owner.

**Parties** (`PartyProofs`). `PartyTypes`; `MembershipHolds` (`Membership`);
`ViewsAgree` (`ViewAgrees`); `NobodyPoached` (`NoPoaching`). `PartyInv` adds
two bookkeeping facts to the types and `Membership` (party ids are below `nextId`;
a session that has not begun knows nothing) and one that matters, `NewsTell`.
`ViewAgrees` speaks only of clients that have read everything, so the
strengthening says what a client *will* see when it has read the queue it has:
the last message shows the party as it is, and no `Info` is ever read outside a
party, where the client would ignore it. Each handler is shown, once, to leave
every reachable client so informed (`Done`), whatever it was doing before.

**Sessions and strings** (`SessionProofs`). `Inductive` (the invariant below);
`SessionTypes` (`TypeOK`); `UpdatesContiguous` (`Contiguous`); `StringsDecodable`
(`Decodable`); `RosterCorrect` (`RosterAgrees`); `LogImplemented` (`ImplementsLog`).
What `Contiguous` and `Decodable` say of the message a client reads next depends on
everything that was sent before it. The strengthening therefore speaks of each
position in a connection's queue: reading what comes before leaves the cache at
a known prefix of the server's table, so an update there starts where the prefix
ends and an id there lies below it; and reading all of it leads to `cacheId`. In
the same way, reading the whole queue leads to the list of players that the
server has. Each handler appends in one of three ways (nothing, one message that
keeps the table, an update that moves it to its end), and a connection's queue
begins with the answer that resets both.

**Cells and visibility** (`VisibilityProofs`). `VisibilityTypes`; `NobodyHaunts`
(`NoGhosts`); `EverybodyShown` (`Shown`). `NoGhosts` speaks of clients that have read everything; the
strengthening `GhostsGo` speaks of the notices still to be read: of another's
character that does not exist and was not announced again (`Departed`), every spawn
under way is followed by a removal, and so is every body a client still has. The step that matters is the removal itself,
which must reach every seated player, in range or not; hence `Seats` (a player
who can be shown anything is seated). The lists of spawns a handler sends are
made from finite sets, so the invariant carries that the characters are finite.
`Shown` speaks of players who have nothing more to say, and its strengthening
`ShownInv` of what they still will: the requests of each lead the server from the
cells it believes he has loaded to those he has (`Routed`); indoors it has his cell
(`Recorded`); a character about whom no more is said is where one of its two places
says (`Located`); and who has its cell loaded has a body for it, or a spawn under way
with no removal behind it (`Told`).

**Objects** (`ObjectsProofs`). `ObjectTypes` (`TypeOK`); `IdsAreOwn`
(`OneObjectPerId`). Records come and go and clients keep the ids of those that
went, so what the server has and what clients hold is not enough: an answer
under way may still bring an old id. `Bears` gathers the three places where an
object has an id, and `OwnIds` says that no id is above the last one given and
none is borne by two objects. Only an assignment adds to it, by ids that are new
and differ from each other (`FreshOnes`, for the finitely many objects of a
request). `TheWatchersAgree` (`WatchersAgree`) says what a client is *about* to see:
while a request of his about the object is open, the last one tells what he has
(`AskedIn`); once it was handled, the last answer under way and the changes behind
it lead from what he sees to what the record says (`SeesIn`, by one value per
message). Changes about other objects do not disturb it, thanks to `OwnIds`; his
own changes come before his request; and a record that went, or changed while he
was out of reach, has been counted in `unheard` (`Lasts`).

**The clock** (`WorldProofs`). `CalendarTypes` (`ClockTypes`); `TheClockRuns`
(`ClockRuns`); `TheClockGoesForward` (`ClockForward`); `ClocksInStep` (`InStep`).
Everything rests on what `Update` computes: `UpdateIs` says that the clock gains
exactly the hours that pass and the hour of the day is theirs modulo 24, and the
date is a date of the calendar. The carry over days is a recursive function on
the number of days left. Induction is done over sets of naturals, with the least
element of the counterexamples (`Induction`): first that a function with this
recursion exists (`CarriesSome`, `CarryExists`), then what it computes one day at
a time (`CarryRuns`). `InStep` is not inductive. `Follows` says what each client is
*about* to show: who drives his own clock has ticked with the server (`Drives`); the
last clock under way to a client is the server's, if all were sent (`Heard`); who
neither drives his clock nor is told of one is asleep, and will ask when he wakes
(`Woken`); who has nothing under way shows the server's clock already (`Shows`). That
two clocks which agree go on agreeing (`AgreeLater`) needs `UpdateIs` again.

**Quests** (`WorldProofs`). `QuestTypes` (`TypeOK`); `LogsFollow` (`LogFollows`);
`TheMembersAgree` (`MembersAgree`). The log of a player and the updates he has sent
are of stages he has done (`Known`), and the last update he sent, or else his log,
tells that his quest runs (`Noted`). Members agree when nothing is under way because
a stage that p has done and q has not is always under way to q, in q's queue or
in that of another member whom the server is still to hear (`Spreads`). Whether the
quest *runs* has two regimes, and `crossed` is the history of leaving them: only
stops are about, and every member who still runs the quest is going to be told
(`Halting`); or no stop is about, and who runs the quest is ahead of who does not
(`Going`), so that it is under way to him, unless a start without a stage came last
(`bare`). The next stage or stop that a member takes is told to all, and ends that
exception.

**Objects in hands** (`HeldProofs`). `HeldTypes` (`TypeOK`); `ObjectsRest`
(`RestAgrees`); `PickupsClear` (`PickupClears`). What a client knows of its hands is
typed by `Minds`, which every report, release and reconciliation preserves; the whole
queue is a recursive function, by the same induction as the calendar's. `RestAgrees`
speaks of an object nobody says anything about. `Settles` says of any object that
there is one place at which it *will* lie, once all has been read, for every client
not `behind`: the place of the last transform under way to him, or else where it
lies. A stream moves that place for all, or, if it crosses another, puts all
`behind`; a copy that moves unseen puts its own client there (`SettlesUnseen`). `Drops` is about what was dropped: a drop is told once, before its removal,
and to nobody who has a copy (`Dropping`); what is in a pocket is in the world of him
who picked it up no more and will not come back (`Pocketing`); and of what was picked
up every client is rid, is going to be told, or is `spared`, unless the picker is
still to tell and has its name (`Announced`). The type invariant needs `Drops`: that
only what was made is taken follows from it.

**Animation replay** (`ReplayProofs`). `ReplayTypes` (`TypeOK`);
`TheChainIsRecent` (`ChainIsRecent`); `ThePoseAgrees` (`PoseAgrees`). What the cache
holds after any number of trims and refinements is `Cached`: its actions were done
since it was cleared, in order and without noise; after its first action none is
left out; and what is left out before that was not needed (the cache has an exit)
or had no room (the cache is full). Then a chain tells just what it should, and
whatever it does not tell is in `missed`. `PoseAgrees` speaks of a viewer who has
read and played everything, so the strengthening `Flows` follows his messages. It
gives each of them a *mark*, the last action he will know of once he has read it:
a snapshot leads from one mark to the next by just the actions between (`IsRun`),
the last mark is the last action passed on, and what a body will show once its
queue is played (`Shown`) is up to its mark. The same holds of every chain under
way, unless the body it makes is taken away again. `Tells` says what "up to a mark"
means for a body that begins with a replay and goes on with snapshots: the two may
overlap, so an action may be played twice; what of the replay came before an exit
no longer counts; what the new form plays of the old one is in `late`. All this is
asked of a body that *stays* (`Lasts`: it is there, or under way, and nothing behind
it takes it away) and is not `stray`; whether its viewer is in range does not
matter. A removal or a
respawn leaves no such body, and nothing to show (`FlowEnds`); a viewer out of
range has none (`Bodiless`), has missed nothing, or has become `stray` with this
step.

Left to TLC: liveness (`OwnershipSettles`, `DeathSettles`, `PartiesSettle`,
`LoginSettles`, `WordSpreads`, `EchoDies`, `StagesSpread`, `ComesToRest`, `HoldShown`),
which TLAPS does not reach. Every invariant and every action property that a run
checks is a theorem, and so are both refinements.

## 5. Plan

1. *Weather* with changes of the leader, and *actor values* with a newcomer's
   state against the deltas he missed.
2. *Objects*: locks, and a restart of the server against clients that keep ids.
3. *Interpolation*: points in time order, and a clock that is set back.

## 6. Not modelled, and why

Rendering, interpolation, animation graphs, Havok and the game's own structures
(`client/Games`, `client/Systems`) are state of an external program reached by
hooks; they make up most of the client. Hand poses and the skeleton probe
(`HandPoseService`, `SkeletonProbeService`) are geometry that is sent and drawn.
The bit layout of messages (`encoding/Messages`) is covered by
`tests/encoding.cpp`; models take a message as a record. Magic, combat, map
markers and chat are relays without state. Lua scripts are not part of the
repository. The launcher, the web interface, the administration tool and the
server list are I/O and presentation; the list's detached thread reads a player
count while the game thread changes it, which affects only what is reported.
`PROJECT.json` lists each with its reason.

Hazards the models stay clear of, with their lines: the ownership epoch wraps
after 2^32 transfers of one actor (`S/CharacterService.cpp:815`); `GetTimeInDays` is
a float, and around year 201 a sleep shorter than eleven minutes may look like
none (`common/DateTime.cpp:38`); a string table of 65536 strings does not fit a
`StringCacheUpdate` (`encoding/Messages/StringCacheUpdate.h:19`); an action that a
script cancels enters the replay cache all the same (`S/CharacterService.cpp:397`);
the registry of drops gives up its oldest name after 256
(`G/ObjectService.cpp:1219`); movement is accepted from the owner without an epoch,
so updates sent before an actor was taken away and given back count as new, until
the next (`S/CharacterService.cpp:356`; `Replay` has one owner); two players who pick up their copies of one drop at
once both have the item (`client/Games/Skyrim/PlayerCharacter.cpp:204`).
