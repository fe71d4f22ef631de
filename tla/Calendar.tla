------------------------------ MODULE Calendar ------------------------------
(* The shared clock: server CalendarService and CommandService, the        *)
(* client's CalendarService and DateTime, which both sides advance.        *)
(*                                                                         *)
(* A tick is one hour of game time at scale 1, and the unit of time;       *)
(* fractions of an hour are left out. Both sides take a tick together, at  *)
(* a moment when no clock is on its way to a client: an hour of game time  *)
(* is long beside a delivery. Requests may be overtaken by any number of   *)
(* ticks.                                                                  *)
(*                                                                         *)
(* Definitions marked "mutated form" are plausible bugs of the operator    *)
(* that follows them; no specification uses them.                          *)
(*                                                                         *)
(* `astray` is not in the code. It records, for each client, why its clock *)
(* may differ from the server's:                                           *)
(*   "refused"   it slept, and the calendar refused the time it woke at    *)
(*   "unloaded"  it was in no cell when the clock was changed              *)
(*   "late"      it took up a clock with a last tick from before, when its *)
(*               clock was free, and added the time since then             *)
EXTENDS Integers, Sequences

CONSTANTS
  Clients,             \* clients, each with its player and his game
  SyncPlayerCalendar,  \* the setting of that name: dates are shared too
  Starts,              \* clocks that players' own games may show
  Hours,               \* hours of the day a command may set
  Dates,               \* dates a command may set
  Scales,              \* time scales: 1 is the speed of the tick
  Sleeps,              \* hours a player may sleep
  MaxTick,             \* bound on the ticks
  MaxActs              \* bound on what players and commands do

VARIABLES
  clock,     \* m_dateTime of the server
  first,     \* m_timeSetFromFirstPlayer
  now,       \* the tick both sides are at
  connected, \* clients whose players are connected
  loaded,    \* players with a cell
  game,      \* the clock of each player's game
  last,      \* m_lastTick of each client
  locked,    \* s_gameClockLocked of each client
  sleeping,  \* m_sleeping of each client, when it released its clock
  before,    \* m_beforeSleep, in hours
  toClient,  \* ServerTimeSettings on their way
  toServer,  \* RequestSleepTime on their way
  acts,      \* what players and commands have done so far
  astray

(* What a clock shows. *)
Clocks == [scale : Scales, time : 0..23, day : 0..31, month : 0..11, year : Nat]

ASSUME CalendarAssumption ==
  /\ SyncPlayerCalendar \in BOOLEAN
  /\ Scales \subseteq Nat /\ Starts \subseteq Clocks /\ Hours \subseteq 0..23 /\ Sleeps \subseteq Nat
  /\ Dates \subseteq [day : Nat, month : Nat, year : Nat]
  /\ MaxTick \in Nat /\ MaxActs \in Nat

serviceVars == <<clock, first, loaded>>
clientVars == <<game, last, locked, sleeping, before>>
clockVars == <<serviceVars, clientVars, now, connected, toClient, toServer, acts, astray>>

-----------------------------------------------------------------------------
(* DateTime. Months count from 0; days count from 1, as in the game.       *)

MonthLengths == <<31, 28, 31, 30, 31, 30, 31, 31, 30, 31, 30, 31>>
NumberOfDays(m) == MonthLengths[(m % 12) + 1]

DaysBefore[m \in 0..12] == IF m = 0 THEN 0 ELSE DaysBefore[m - 1] + NumberOfDays(m - 1)

(* GetTimeInDays, in hours. *)
TimeInHours(t) == 24 * (365 * t.year + DaysBefore[t.month] + t.day) + t.time

(* Mutated form: the year stays. *)
WrapMonthOnly(t, d, m) == [t EXCEPT !.day = d, !.month = m % 12]

(* Mutated form: months are not wrapped. *)
WrapNothing(t, d, m) == [t EXCEPT !.day = d, !.month = m]

WrapYear(t, d, m) == [t EXCEPT !.day = d, !.month = m % 12, !.year = @ + (m \div 12)]

Carry(t, days) ==
  LET carry[d \in Nat] ==
        [m \in Nat |-> IF d > NumberOfDays(m) THEN carry[d - NumberOfDays(m)][m + 1]
                                             ELSE WrapYear(t, d, m)]
  IN  carry[t.day + days][t.month]

(* Update by a number of hours. *)
Advance(t, hours) == Carry([t EXCEPT !.time = (t.time + hours) % 24], (t.time + hours) \div 24)
Update(t, ticks) == Advance(t, ticks * t.scale)

-----------------------------------------------------------------------------
ClockTypes ==
  /\ clock \in Clocks /\ first \in BOOLEAN /\ now \in Nat
  /\ loaded \subseteq connected /\ connected \subseteq Clients
  /\ game \in [Clients -> Clocks] /\ last \in [Clients -> Nat]
  /\ locked \in [Clients -> BOOLEAN] /\ sleeping \in [Clients -> BOOLEAN]
  /\ before \in [Clients -> Nat]
  /\ toClient \in [Clients -> Seq(Clocks)] /\ toServer \in [Clients -> Seq(Clocks)]
  /\ acts \in 0..MaxActs
  /\ astray \in [Clients -> SUBSET {"refused", "unloaded", "late"}]

(* A server starts at noon of the first day of month 1 of year 1. *)
ClockInit ==
  /\ clock \in {[scale |-> s, time |-> 12, day |-> 1, month |-> 1, year |-> 1] : s \in Scales}
  /\ first = FALSE /\ now = 1
  /\ connected = {} /\ loaded = {}
  /\ game \in [Clients -> Starts]
  /\ last = [c \in Clients |-> 0]
  /\ locked = [c \in Clients |-> FALSE] /\ sleeping = [c \in Clients |-> FALSE]
  /\ before = [c \in Clients |-> 0]
  /\ toClient = [c \in Clients |-> <<>>] /\ toServer = [c \in Clients |-> <<>>]
  /\ acts = 0
  /\ astray = [c \in Clients |-> {}]

Act == acts < MaxActs /\ acts' = acts + 1

-----------------------------------------------------------------------------
(* The server.                                                             *)

(* Send t to the players of `audience`; `missed` are connected players     *)
(* that should have it and are left out.                                   *)
SendClock(t, audience, missed) ==
  /\ toClient' = [c \in Clients |-> IF c \in audience THEN Append(toClient[c], t) ELSE toClient[c]]
  /\ astray' = [c \in Clients |-> IF c \in audience THEN {}
                                  ELSE IF c \in missed THEN astray[c] \cup {"unloaded"}
                                  ELSE astray[c]]

(* SendTimeResync of the new clock: to the players that have a cell. *)
SetClock(t) == clock' = t /\ SendClock(t, loaded, connected \ loaded)

(* Mutated form: only the day of the month is compared. *)
FurthestDay(t) == t.day > clock.day

Furthest(t) == TimeInHours(t) > TimeInHours(clock)

(* A player joins with the clock of his game. The first who is ahead gives *)
(* the hour of the day, each who is ahead the date.                        *)
OnPlayerJoin(c) ==
  /\ c \notin connected /\ Act
  /\ connected' = connected \cup {c}
  /\ LET g == game[c]
         t == [clock EXCEPT !.time = IF first THEN @ ELSE g.time,
                            !.day = g.day, !.month = g.month, !.year = g.year]
     IN  IF Furthest(g)
         THEN clock' = t /\ first' = TRUE /\ SendClock(t, connected', {})
         ELSE UNCHANGED <<clock, first>> /\ SendClock(clock, {c}, {})
  /\ UNCHANGED <<loaded, now, clientVars, toServer>>

EnterCell(c) ==
  /\ c \in connected \ loaded
  /\ loaded' = loaded \cup {c}
  /\ UNCHANGED <<clock, first, now, connected, clientVars, toClient, toServer, acts, astray>>

(* By the console, a script or a player's command; scripts set the scale.  *)
SetTime(h, s) ==
  /\ Act
  /\ SetClock([clock EXCEPT !.time = h, !.scale = s])
  /\ UNCHANGED <<first, loaded, now, connected, clientVars, toServer>>

SetDate(d) ==
  /\ Act
  /\ d.month \in 0..11 /\ d.year \in 0..999
  /\ d.day >= 0 /\ d.day < NumberOfDays(d.month)
  /\ SetClock([clock EXCEPT !.day = d.day, !.month = d.month, !.year = d.year])
  /\ UNCHANGED <<first, loaded, now, connected, clientVars, toServer>>

(* SetTimeAndDate refuses what the calendar takes for no date, and what is *)
(* not ahead of the clock.                                                 *)
Acceptable(t) ==
  /\ t.month < 12 /\ t.year <= 999
  /\ t.day < NumberOfDays(t.month)
  /\ TimeInHours(t) > TimeInHours(clock)

(* A player who may not move the clock (he leads no party, or it is a      *)
(* public server) is sent the clock as it is; one whose time is refused is *)
(* sent nothing.                                                           *)
OnSleepTimeRequest(c) ==
  /\ c \in connected /\ toServer[c] # <<>>
  /\ toServer' = [toServer EXCEPT ![c] = Tail(@)]
  /\ LET t == [Head(toServer[c]) EXCEPT !.scale = clock.scale] IN
     \/ SendClock(clock, {c}, {}) /\ UNCHANGED clock
     \/ Acceptable(t) /\ SetClock(t)
     \/ /\ ~Acceptable(t)
        /\ astray' = [astray EXCEPT ![c] = @ \cup {"refused"}]
        /\ UNCHANGED <<clock, toClient>>
  /\ UNCHANGED <<first, loaded, now, connected, clientVars, acts>>

-----------------------------------------------------------------------------
(* The clients.                                                            *)

(* m_lastTick is set by the first update that finds it unset. *)
LastTick(c, t) == IF last[c] = 0 THEN t ELSE last[c]

(* Mutated form: the date is never taken over. *)
AdoptTimeOnly(t, m) == [t EXCEPT !.scale = m.scale, !.time = m.time]

Adopt(t, m) == IF SyncPlayerCalendar THEN m ELSE [t EXCEPT !.scale = m.scale, !.time = m.time]

(* The server's clock arrives; the update of the same frame adds the time  *)
(* since the last one.                                                     *)
OnTimeUpdate(c) ==
  /\ c \in connected /\ toClient[c] # <<>>
  /\ toClient' = [toClient EXCEPT ![c] = Tail(@)]
  /\ locked' = [locked EXCEPT ![c] = TRUE]
  /\ game' = [game EXCEPT ![c] = Update(Adopt(@, Head(toClient[c])), now - LastTick(c, now))]
  /\ last' = [last EXCEPT ![c] = now]
  /\ astray' = [astray EXCEPT ![c] = (@ \ {"late"}) \cup
                                     IF LastTick(c, now) < now THEN {"late"} ELSE {}]
  /\ UNCHANGED <<serviceVars, now, connected, sleeping, before, toServer, acts>>

(* The sleep menu opens on a client that leads its party, and the clock is *)
(* given back to the game.                                                 *)
SleepBegins(c) ==
  /\ c \in connected /\ ~sleeping[c] /\ Act
  /\ sleeping' = [sleeping EXCEPT ![c] = TRUE]
  /\ before' = [before EXCEPT ![c] = TimeInHours(game[c])]
  /\ locked' = [locked EXCEPT ![c] = FALSE]
  /\ UNCHANGED <<serviceVars, now, connected, game, last, toClient, toServer, astray>>

(* The menu is closed and the game has moved its clock, by nothing if the  *)
(* sleep was cancelled or the clock locked in between. A sleep that was    *)
(* begun before the connection ended ends after the next one has begun.    *)
SleepEnds(c, h) ==
  /\ c \in connected /\ sleeping[c]
  /\ h > 0 => ~locked[c]
  /\ LET after == Advance(game[c], h) IN
     /\ game' = [game EXCEPT ![c] = after]
     /\ toServer' = IF TimeInHours(after) > before[c]
                    THEN [toServer EXCEPT ![c] = Append(@, after)] ELSE toServer
  /\ sleeping' = [sleeping EXCEPT ![c] = FALSE]
  /\ last' = [last EXCEPT ![c] = now]
  /\ locked' = [locked EXCEPT ![c] = TRUE]
  /\ UNCHANGED <<serviceVars, now, connected, before, toClient, acts, astray>>

(* Both ends see the connection end; the game has its clock again. *)
OnDisconnected(c) ==
  /\ c \in connected /\ Act
  /\ connected' = connected \ {c} /\ loaded' = loaded \ {c}
  /\ locked' = [locked EXCEPT ![c] = FALSE]
  /\ toClient' = [toClient EXCEPT ![c] = <<>>]
  /\ toServer' = [toServer EXCEPT ![c] = <<>>]
  /\ astray' = [astray EXCEPT ![c] = {}]
  /\ UNCHANGED <<clock, first, now, game, last, sleeping, before>>

ServerUpdate == clock' = Update(clock, 1)

(* Time passes: on the server, on clients whose clock is locked by the     *)
(* ticks since their last update, elsewhere as the game has it.            *)
OnUpdate ==
  /\ now < MaxTick
  /\ \A c \in Clients : toClient[c] = <<>>
  /\ now' = now + 1
  /\ ServerUpdate
  /\ game' = [c \in Clients |-> Update(game[c], IF locked[c] THEN now' - LastTick(c, now') ELSE 1)]
  /\ last' = [c \in Clients |-> IF locked[c] THEN now' ELSE last[c]]
  /\ UNCHANGED <<first, loaded, connected, locked, sleeping, before, toClient, toServer, acts, astray>>

-----------------------------------------------------------------------------
Commanded == (\E h \in Hours, s \in Scales : SetTime(h, s)) \/ (\E d \in Dates : SetDate(d))

ClockNext ==
  \/ OnUpdate \/ Commanded
  \/ \E c \in Clients :
       \/ OnPlayerJoin(c) \/ EnterCell(c) \/ OnSleepTimeRequest(c) \/ OnDisconnected(c)
       \/ OnTimeUpdate(c) \/ SleepBegins(c) \/ \E h \in Sleeps \cup {0} : SleepEnds(c, h)

ClockSpec == ClockInit /\ [][ClockNext]_clockVars

-----------------------------------------------------------------------------
(* Properties.                                                             *)

(* Only a command takes the shared clock back: neither a player who joins  *)
(* with his own date, nor one who slept while others moved it, nor the     *)
(* carry at the end of a day, a month or a year.                           *)
ClockForward == [][Commanded \/ TimeInHours(clock') >= TimeInHours(clock)]_clock

(* The clock gains exactly the time that passes, across every carry.       *)
ClockRuns ==
  [][now' # now => TimeInHours(clock') = TimeInHours(clock) + (now' - now) * clock.scale]_clockVars

(* The clocks differ at all. *)
Differ(t, u) ==
  \/ t.time # u.time \/ t.scale # u.scale
  \/ SyncPlayerCalendar /\ TimeInHours(t) # TimeInHours(u)

(* No message about the clock is on its way to or from c, and it is c's    *)
(* client that drives the clock of c's game.                               *)
Silent(c) == c \in connected /\ toClient[c] = <<>> /\ toServer[c] = <<>> /\ locked[c]

(* A client that has heard all and of which all was heard shows the clock  *)
(* of the server, unless one of the three things happened that make it go  *)
(* astray; nothing else does, however joins, sleeps and commands cross.    *)
InStep == \A c \in Clients : Silent(c) /\ Differ(game[c], clock) => astray[c] # {}
=============================================================================
