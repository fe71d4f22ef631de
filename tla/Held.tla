-------------------------------- MODULE Held --------------------------------
(* Objects in the hands of players: the client's HiggsService, the parts   *)
(* of its ObjectService that stream an object somebody holds or threw, and *)
(* the drops that its InventoryService names; the server relays.           *)
(*                                                                         *)
(* HIGGS, a mod of the game, calls the client from any thread when a hand  *)
(* takes something or opens. The client that holds an object streams where *)
(* it is until it lies still, and says so with the last message; the       *)
(* others drive their own copy after the stream, which detaches it from    *)
(* physics until it is released or the stream has been silent for long.    *)
(* An item dropped from an inventory is a copy of its own in every game,   *)
(* which all name after the drop.                                          *)
(*                                                                         *)
(* There is one cell, and nobody leaves it with something in his hands.    *)
(* Definitions marked "mutated form" are plausible bugs of the operator    *)
(* that follows; nothing uses them.                                        *)
EXTENDS Integers, Sequences

CONSTANTS
  Clients,
  Objects,
  None,        \* of an empty hand
  Spots,       \* places an object may lie at
  MaxTurns,    \* bound on the times hands take something, objects move unseen,
               \* clients leave the cell and connections break
  MaxPending   \* bound on the messages on their way to a client

ASSUME HeldAssumption ==
  None \notin Objects /\ Spots # {} /\ {MaxTurns, MaxPending} \subseteq Nat

Hands == {0, 1}

VARIABLES
  temporary, \* objects that are made by a drop; the others are always there
  grip,      \* what each hand really holds
  queue,     \* s_queue: what HIGGS reported and no update has read
  told,      \* s_held: what ObjectService was told of each hand
  slots,     \* m_heldByHand
  settling,  \* m_settling: let go of and still moving
  driven,    \* m_driven: warped after somebody's stream
  copy,      \* objects that each client's game has
  named,     \* those it can name to others: static, or in m_dynamicObjects
  pairing,   \* copies that get their name with the next update
  pocketed,  \* picked up, which the next update will tell ObjectService
  pos,       \* where each client's copy is
  here,      \* clients in the cell, for the server
  link,      \* each client's connection: up, dead without its knowledge, off
  down,      \* messages on their way to each client
  turns,     \* what is left of MaxTurns
  \* History, which no step reads.
  made,      \* drops that were made
  taken,     \* drops somebody picked up
  behind,    \* pairs of a client and an object whose latest news it missed, or
             \* whose latest news crossed a stream by somebody else, or that
             \* moved in its game alone since the latest news came
  spared     \* pairs of a client and a drop whose removal could not reach it

handVars == <<grip, queue, told, slots>>
objectVars == <<settling, driven, pos>>
dropVars == <<temporary, copy, named, pairing, pocketed>>
netVars == <<here, link, down>>
history == <<made, taken, behind, spared>>
vars == <<handVars, objectVars, dropVars, netVars, turns, history>>

Event == [kind : {"Grabbed", "Dropped"}, hand : Hands, obj : Objects]

Transform(o, x, released) == [type |-> "Transform", obj |-> o, at |-> x, released |-> released]
Drop(o) == [type |-> "Drop", obj |-> o]
Removal(o) == [type |-> "Remove", obj |-> o]

Message ==
  [type : {"Transform"}, obj : Objects, at : Spots, released : BOOLEAN]
    \cup [type : {"Drop", "Remove"}, obj : Objects]

(* An object in a hand is not settling. *)
TypeOK ==
  /\ temporary \subseteq Objects
  /\ grip \in [Clients -> [Hands -> Objects \cup {None}]]
  /\ queue \in [Clients -> Seq(Event)]
  /\ told \in [Clients -> [Hands -> Objects \cup {None}]]
  /\ slots \in [Clients -> [Hands -> Objects \cup {None}]]
  /\ \A c \in Clients, h \in Hands : slots[c][h] \in {None, told[c][h]} \ settling[c]
  /\ {settling, driven, copy, named, pairing, pocketed} \subseteq [Clients -> SUBSET Objects]
  /\ pos \in [Clients -> [Objects -> Spots]]
  /\ here \subseteq Clients /\ link \in [Clients -> {"up", "dead", "off"}]
  /\ down \in [Clients -> Seq(Message)]
  /\ turns \in 0..MaxTurns
  /\ taken \subseteq made /\ made \subseteq temporary
  /\ behind \cup spared \subseteq Clients \X Objects

Nothing == [h \in Hands |-> None]

Init ==
  /\ temporary \in SUBSET Objects
  /\ grip = [c \in Clients |-> Nothing] /\ queue = [c \in Clients |-> <<>>]
  /\ told = grip /\ slots = grip
  /\ settling = [c \in Clients |-> {}] /\ driven = settling
  /\ copy = [c \in Clients |-> Objects \ temporary] /\ named = copy
  /\ pairing = settling /\ pocketed = settling
  /\ pos = [c \in Clients |-> [o \in Objects |-> CHOOSE x \in Spots : TRUE]]
  /\ here = Clients /\ link = [c \in Clients |-> "up"] /\ down = [c \in Clients |-> <<>>]
  /\ turns = MaxTurns
  /\ made = {} /\ taken = {} /\ behind = {} /\ spared = {}

-----------------------------------------------------------------------------
(* The network.                                                            *)

(* Clients the server relays c's message to, and whom it reaches. *)
Audience(c) == {v \in here \ {c} : link[c] = "up" /\ link[v] = "up"}
Others(c) == Clients \ {c}

Room(c) == \A v \in Audience(c) : Len(down[v]) < MaxPending

Relay(c, m) == [v \in Clients |-> IF v \in Audience(c) THEN Append(down[v], m) ELSE down[v]]

LeaveCell(c) ==
  /\ c \in here /\ grip[c] = Nothing /\ turns > 0
  /\ turns' = turns - 1
  /\ here' = here \ {c}
  /\ UNCHANGED <<handVars, objectVars, dropVars, link, down, history>>

EnterCell(c) ==
  /\ here' = here \cup {c}
  /\ UNCHANGED <<handVars, objectVars, dropVars, link, down, turns, history>>

(* The connection breaks, which the client finds out later. *)
Break(c) ==
  /\ link[c] = "up" /\ turns > 0
  /\ turns' = turns - 1
  /\ link' = [link EXCEPT ![c] = "dead"]
  /\ down' = [down EXCEPT ![c] = <<>>]
  /\ behind' = behind \cup ({c} \X Objects)
  /\ spared' = spared \cup ({c} \X Objects)
  /\ UNCHANGED <<handVars, objectVars, dropVars, here, made, taken>>

(* OnDisconnected changes nothing of objects. *)
OnDisconnected(c) ==
  /\ link[c] = "dead"
  /\ link' = [link EXCEPT ![c] = "off"]
  /\ UNCHANGED <<handVars, objectVars, dropVars, here, down, turns, history>>

Reconnect(c) ==
  /\ link[c] = "off"
  /\ link' = [link EXCEPT ![c] = "up"]
  /\ UNCHANGED <<handVars, objectVars, dropVars, here, down, turns, history>>

-----------------------------------------------------------------------------
(* The hands: HIGGS and HiggsService.                                      *)

Report(c, kind, h, o) == Append(queue[c], [kind |-> kind, hand |-> h, obj |-> o])

Grab(c, h, o) ==
  /\ c \in here /\ grip[c][h] = None /\ o \in copy[c] /\ turns > 0
  /\ turns' = turns - 1
  /\ grip' = [grip EXCEPT ![c][h] = o]
  /\ queue' = [queue EXCEPT ![c] = Report(c, "Grabbed", h, o)]
  /\ UNCHANGED <<told, slots, objectVars, dropVars, netVars, history>>

(* The dropped callback is not reliable for a two handed hold. *)
LetGo(c, h) ==
  /\ grip[c][h] # None
  /\ grip' = [grip EXCEPT ![c][h] = None]
  /\ \/ queue' = [queue EXCEPT ![c] = Report(c, "Dropped", h, grip[c][h])]
     \/ grip[c][1 - h] = grip[c][h] /\ UNCHANGED queue
  /\ UNCHANGED <<told, slots, objectVars, dropVars, netVars, turns, history>>

(* What HiggsService and ObjectService of a client know of its hands. *)
Known(c) == [told |-> told[c], slots |-> slots[c], settling |-> settling[c]]

(* OnObjectHold of a hand that closes around o. *)
Hold(k, h, o) == [k EXCEPT !.slots[h] = o, !.settling = @ \ {o}]

(* Mutated form: opening one of two hands is a release. *)
ReleaseEither(c, k, h, o) ==
  IF k.slots[h] # o THEN k
  ELSE [k EXCEPT !.slots[h] = None, !.settling = IF o \in copy[c] THEN @ \cup {o} ELSE @]

(* OnObjectHold of a hand that opens. *)
Release(c, k, h, o) ==
  IF k.slots[h] # o THEN k
  ELSE [k EXCEPT !.slots[h] = None,
                 !.settling = IF k.slots[1 - h] # o /\ o \in copy[c] THEN @ \cup {o} ELSE @]

(* HandleEvent. *)
HandleEvent(c, k, e) ==
  IF e.obj \notin copy[c] THEN k
  ELSE IF e.kind = "Grabbed" THEN Hold([k EXCEPT !.told[e.hand] = e.obj], e.hand, e.obj)
  ELSE Release(c, [k EXCEPT !.told[e.hand] = IF @ = e.obj THEN None ELSE @], e.hand, e.obj)

Learn(c, k) ==
  /\ told' = [told EXCEPT ![c] = k.told]
  /\ slots' = [slots EXCEPT ![c] = k.slots]
  /\ settling' = [settling EXCEPT ![c] = k.settling]

(* What the client knows after the whole queue. *)
Heard(c) ==
  LET known[n \in 0..Len(queue[c])] ==
        IF n = 0 THEN Known(c) ELSE HandleEvent(c, known[n - 1], queue[c][n])
  IN  known[Len(queue[c])]

(* OnUpdate takes the whole queue. *)
Drain(c) ==
  /\ queue[c] # <<>>
  /\ queue' = [queue EXCEPT ![c] = <<>>]
  /\ Learn(c, Heard(c))
  /\ UNCHANGED <<grip, driven, pos, dropVars, netVars, turns, history>>

(* What the hands report when they are asked: of an object in both, only   *)
(* one of them may know.                                                   *)
Answers(c) ==
  {a \in [Hands -> {None, grip[c][0], grip[c][1]}] :
     \A h \in Hands : a[h] = grip[c][h] \/ (a[h] = None /\ a[1 - h] = grip[c][h])}

(* Mutated form: each hand is asked for itself. *)
EndedPerHand(c, answer) == {h \in Hands : told[c][h] \notin {None, answer[h]}}

(* Mutated form: a hold ends when HIGGS says so. *)
EndedNever(c, answer) == {}

(* The holds that ended and were never reported. *)
Ended(c, answer) == {h \in Hands : told[c][h] \notin {None, answer[0], answer[1]}}

(* ReconcileHolds. *)
Reconcile(c) ==
  \E answer \in Answers(c) :
    LET ended == Ended(c, answer)
        End(k, h) == IF h \in ended
                       THEN Release(c, [k EXCEPT !.told[h] = None], h, k.told[h]) ELSE k
    IN  /\ ended # {}
        /\ Learn(c, End(End(Known(c), 0), 1))
        /\ UNCHANGED <<grip, queue, driven, pos, dropVars, netVars, turns, history>>

-----------------------------------------------------------------------------
(* Streams: ObjectService.                                                 *)

OnItsWay(o, ms) == \E i \in DOMAIN ms : ms[i].type = "Transform" /\ ms[i].obj = o

(* SendObjectTransform, once the object has moved to x. What has no name   *)
(* is not sent.                                                            *)
SendObjectTransform(c, o, x, released) ==
  /\ Room(c)
  /\ pos' = [pos EXCEPT ![c][o] = x]
  /\ LET reached == IF o \in named[c] THEN Audience(c) ELSE {}
     IN  /\ down' = IF o \in named[c] THEN Relay(c, Transform(o, x, released)) ELSE down
         /\ behind' = IF OnItsWay(o, down[c])
                        THEN behind \cup (Clients \X {o})
                        ELSE (behind \ ((reached \cup {c}) \X {o}))
                               \cup ((Others(c) \ reached) \X {o})

Connected(c) == link[c] # "off"

(* RunHeldObjectUpdates for an object in a hand. *)
Stream(c, o) ==
  /\ Connected(c) /\ \E h \in Hands : slots[c][h] = o
  /\ o \in copy[c]
  /\ \E x \in Spots : SendObjectTransform(c, o, x, FALSE)
  /\ UNCHANGED <<handVars, settling, driven, dropVars, here, link, turns, made, taken, spared>>

(* RunHeldObjectUpdates for one that was let go and still moves. *)
Fly(c, o) ==
  /\ Connected(c) /\ o \in settling[c] \cap copy[c]
  /\ \E x \in Spots : SendObjectTransform(c, o, x, FALSE)
  /\ UNCHANGED <<handVars, settling, driven, dropVars, here, link, turns, made, taken, spared>>

(* The same when it lies still, or has flown for kMaxSettleTime and goes   *)
(* on to MoveUnseen.                                                       *)
ComeToRest(c, o) ==
  /\ Connected(c) /\ o \in settling[c]
  /\ settling' = [settling EXCEPT ![c] = @ \ {o}]
  /\ IF o \in copy[c] THEN \E x \in Spots : SendObjectTransform(c, o, x, TRUE)
                      ELSE UNCHANGED <<pos, down, behind>>
  /\ UNCHANGED <<handVars, driven, dropVars, here, link, turns, made, taken, spared>>

(* GetDynamicFormId of a name whose reference is gone drops the entry. *)
Resolves(c, o) == o \in named[c] \cap copy[c]
Lookup(c, o) == named' = [named EXCEPT ![c] = IF Resolves(c, o) THEN @ ELSE @ \ {o}]

(* StopSettling. *)
TakeOver(c, o) == settling' = [settling EXCEPT ![c] = @ \ {o}]

(* MarkDriving, or StopDriving and RestoreObjectPhysics. *)
Drive(c, m) ==
  driven' = [driven EXCEPT ![c] = IF m.released THEN @ \ {m.obj} ELSE @ \cup {m.obj}]

(* Mutated form: a release leaves the object where its motion had got to. *)
PlaceEased(c, m) == pos' = IF m.released THEN pos ELSE [pos EXCEPT ![c][m.obj] = m.at]

(* The object's own motion towards the place is left out. *)
Place(c, m) == pos' = [pos EXCEPT ![c][m.obj] = m.at]

OnObjectTransformNotify(c, m) ==
  /\ Lookup(c, m.obj)
  /\ IF Resolves(c, m.obj)
       THEN /\ TakeOver(c, m.obj) /\ Drive(c, m) /\ Place(c, m)
            /\ UNCHANGED <<behind, spared>>
       ELSE /\ UNCHANGED <<settling, driven, pos>>
            /\ behind' = behind \cup {<<c, m.obj>>}
            \* A pickup that was not told yet has lost its name.
            /\ spared' = IF m.obj \in pocketed[c] THEN spared \cup (Others(c) \X {m.obj}) ELSE spared
  /\ UNCHANGED <<handVars, copy, pairing>>

(* RunDrivenObjectTimeouts. *)
Timeout(c, o) ==
  /\ o \in driven[c]
  /\ driven' = [driven EXCEPT ![c] = @ \ {o}]
  /\ UNCHANGED <<handVars, settling, pos, dropVars, netVars, turns, history>>

(* The game's own physics moves a copy that nothing streams or drives: a   *)
(* throw that was given up at kMaxSettleTime rolls on, at both ends; so    *)
(* does what a silent stream left in the air; a pull that HIGGS does not   *)
(* end in a grab, or a kick, starts it. Nobody tells the others.           *)
MoveUnseen(c, o) ==
  /\ o \in copy[c] \ (driven[c] \cup settling[c])
  /\ \A h \in Hands : slots[c][h] # o
  /\ turns > 0 /\ turns' = turns - 1
  /\ \E x \in Spots : pos' = [pos EXCEPT ![c][o] = x]
  /\ behind' = IF OnItsWay(o, down[c]) THEN behind ELSE behind \cup {<<c, o>>}
  /\ UNCHANGED <<handVars, settling, driven, dropVars, netVars, made, taken, spared>>

-----------------------------------------------------------------------------
(* Drops.                                                                  *)

(* OnInventoryChangeEvent of a drop: the dropper names his copy at once. *)
DropItem(c, o) ==
  /\ o \in temporary \ made /\ c \in here /\ Room(c) /\ link[c] = "up"
  /\ made' = made \cup {o}
  /\ copy' = [copy EXCEPT ![c] = @ \cup {o}]
  /\ named' = [named EXCEPT ![c] = @ \cup {o}]
  /\ down' = Relay(c, Drop(o))
  /\ behind' = behind \cup (Others(c) \X {o})
  /\ UNCHANGED <<handVars, objectVars, temporary, pairing, pocketed, here, link, turns, taken,
                 spared>>

(* OnNotifyInventoryChanges of a drop, which may make no reference. *)
OnNotifyDrop(c, o) ==
  /\ \/ copy' = [copy EXCEPT ![c] = @ \cup {o}] /\ pairing' = [pairing EXCEPT ![c] = @ \cup {o}]
     \/ UNCHANGED <<copy, pairing>>
  /\ UNCHANGED <<handVars, objectVars, named, behind, spared>>

(* OnDynamicObjectCreated on the next update. *)
Pair(c, o) ==
  /\ o \in pairing[c]
  /\ pairing' = [pairing EXCEPT ![c] = @ \ {o}]
  /\ named' = [named EXCEPT ![c] = IF o \in copy[c] THEN @ \cup {o} ELSE @]
  /\ UNCHANGED <<handVars, objectVars, temporary, copy, pocketed, netVars, turns, history>>

(* The copy leaves c's game and his hands. If HIGGS reports that, nothing  *)
(* comes of it, for the object is gone.                                    *)
Vanish(c, o) ==
  /\ copy' = [copy EXCEPT ![c] = @ \ {o}]
  /\ grip' = [grip EXCEPT ![c] = [h \in Hands |-> IF @[h] = o THEN None ELSE @[h]]]
  /\ queue' = queue

(* The player puts a drop into his inventory. *)
PickUp(c, o) ==
  /\ c \in here /\ o \in temporary \cap copy[c]
  /\ Vanish(c, o)
  /\ pocketed' = [pocketed EXCEPT ![c] = @ \cup {o}]
  /\ taken' = taken \cup {o}
  /\ spared' = IF o \in named[c] THEN spared ELSE spared \cup (Others(c) \X {o})
  /\ UNCHANGED <<told, slots, objectVars, temporary, named, pairing, netVars, turns, made,
                 behind>>

(* Mutated form: GetDropId, which wants the reference to be there still. *)
DropOfLive(c, o) == o \in named[c] \cap copy[c]

(* The drop that made o, by its form id and base form. *)
DropOf(c, o) == o \in named[c]

(* OnObjectPickedUp, with the update that follows. *)
OnObjectPickedUp(c, o) ==
  /\ o \in pocketed[c] /\ Room(c)
  /\ pocketed' = [pocketed EXCEPT ![c] = @ \ {o}]
  /\ IF DropOf(c, o)
       THEN /\ settling' = [settling EXCEPT ![c] = @ \ {o}]
            /\ driven' = [driven EXCEPT ![c] = @ \ {o}]
            /\ slots' = [slots EXCEPT ![c] = [h \in Hands |-> IF @[h] = o THEN None ELSE @[h]]]
            /\ down' = IF Connected(c) THEN Relay(c, Removal(o)) ELSE down
            /\ named' = [named EXCEPT ![c] = @ \ {o}]
            /\ spared' = spared \cup ((Others(c) \ Audience(c)) \X {o})
       ELSE UNCHANGED <<settling, driven, slots, down, named, spared>>
  /\ UNCHANGED <<grip, queue, told, pos, temporary, copy, pairing, here, link, turns, made,
                 taken, behind>>

OnObjectRemoveNotify(c, o) ==
  /\ IF Resolves(c, o)
       THEN /\ TakeOver(c, o)
            /\ driven' = [driven EXCEPT ![c] = @ \ {o}]
            /\ Vanish(c, o)
            /\ UNCHANGED spared
       ELSE /\ UNCHANGED <<settling, driven, copy, grip, queue>>
            /\ spared' = spared \cup {<<c, o>>}
  /\ named' = [named EXCEPT ![c] = @ \ {o}]
  /\ UNCHANGED <<told, slots, pos, pairing, behind>>

Receive(c) ==
  /\ down[c] # <<>>
  /\ down' = [down EXCEPT ![c] = Tail(@)]
  /\ LET m == Head(down[c])
     IN  CASE m.type = "Transform" -> OnObjectTransformNotify(c, m)
           [] m.type = "Drop" -> OnNotifyDrop(c, m.obj)
           [] m.type = "Remove" -> OnObjectRemoveNotify(c, m.obj)
  /\ UNCHANGED <<temporary, pocketed, here, link, turns, made, taken>>

-----------------------------------------------------------------------------

Next ==
  \E c \in Clients :
    \/ LeaveCell(c) \/ EnterCell(c) \/ Break(c) \/ OnDisconnected(c) \/ Reconnect(c)
    \/ Drain(c) \/ Reconcile(c) \/ Receive(c)
    \/ \E h \in Hands : LetGo(c, h)
    \/ \E o \in Objects :
         \/ Stream(c, o) \/ Fly(c, o) \/ ComeToRest(c, o) \/ Timeout(c, o)
         \/ MoveUnseen(c, o)
         \/ DropItem(c, o) \/ Pair(c, o) \/ PickUp(c, o) \/ OnObjectPickedUp(c, o)
         \/ \E h \in Hands : Grab(c, h, o)

Spec == Init /\ [][Next]_vars

(* Every client goes on drawing frames, which read what has arrived, ask   *)
(* the hands and look after the objects. A throw that is streamed again    *)
(* and again reaches kMaxSettleTime.                                       *)
Fairness ==
  \A c \in Clients :
    /\ WF_vars(Drain(c)) /\ WF_vars(Reconcile(c)) /\ WF_vars(Receive(c))
    /\ \A o \in Objects :
         /\ SF_vars(ComeToRest(c, o))
         /\ WF_vars(Timeout(c, o)) /\ WF_vars(Pair(c, o)) /\ WF_vars(OnObjectPickedUp(c, o))

FairSpec == Spec /\ Fairness

-----------------------------------------------------------------------------

Grips(c, o) == \E h \in Hands : grip[c][h] = o
Streams(c, o) == o \in settling[c] \/ \E h \in Hands : slots[c][h] = o

(* Nothing of o is going on: nobody streams it or is told of it. *)
Idle(o) ==
  \A c \in Clients :
    /\ ~Grips(c, o) /\ ~Streams(c, o)
    /\ o \notin driven[c] \cup pairing[c] \cup pocketed[c]
    /\ \A i \in DOMAIN queue[c] : queue[c][i].obj # o
    /\ \A i \in DOMAIN down[c] : down[c][i].obj # o

(* RestAgrees: when an object is left alone again, it is in the same place *)
(* for all clients that have heard where it was left, however often it     *)
(* went from hand to hand. Left out are, until somebody streams the object *)
(* again, all clients after a stream that crossed one by somebody else,    *)
(* and a client whose copy moved since without a stream, as it does when a *)
(* throw is given up at kMaxSettleTime.                                    *)
RestAgrees ==
  \A o \in Objects : Idle(o) =>
    \A c, v \in {w \in Clients : o \in copy[w] /\ <<w, o>> \notin behind} : pos[c][o] = pos[v][o]

(* PickupClears: a drop that somebody picked up lies in nobody else's      *)
(* world once the news has spread, unless it could not reach him: he was   *)
(* in another cell or not connected, his copy had no name yet, or the      *)
(* picker's had none or lost it to a transform that came in between.       *)
PickupClears ==
  \A o \in taken : Idle(o) => \A c \in Clients : o \in copy[c] => <<c, o>> \in spared

(* ComesToRest: an object that is not taken up for ever is left alone in   *)
(* the end by all who are connected: nobody streams it, and nobody keeps   *)
(* it warped after a stream that ended, with or without a release.         *)
ComesToRest ==
  \A o \in Objects, c \in Clients :
    \/ []<>(\E v \in Clients : Grips(v, o))
    \/ []<>(link[c] = "off")
    \/ <>[](~Streams(c, o) /\ o \notin driven[c])

(* HoldShown: who keeps hold of an object is streaming it in the end,      *)
(* whatever HIGGS reported of his hands.                                   *)
HoldShown ==
  \A o \in Objects, c \in Clients :
    <>[](Grips(c, o) /\ queue[c] = <<>>) => <>[](\E h \in Hands : slots[c][h] = o)
=============================================================================
