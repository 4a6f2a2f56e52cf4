-------------------------------- MODULE Weather --------------------------------
(***************************************************************************)
(* The weather: TimeManager counts it down, the game loop copies it to     *)
(* server.weather and tells the clients of changes, /weather writes        *)
(* server.weather, and server.set_weather() is there for plugins.  Whoever *)
(* tells the clients goes on until it has written to one that does not     *)
(* read: then drain() suspends it and others run.                          *)
(***************************************************************************)
EXTENDS Naturals, Sequences, FiniteSets, SequencesExt

CONSTANTS Conn, Slow,       \* players; those whose client may stop reading
          Loop, Caller, Nobody,
          Durations,        \* ticks: the argument of set_weather
          CommandDuration,  \* ticks: that of /weather
          MaxChanges        \* bound: commands and calls

\* What the constants must be; the suite that instantiates this module assumes it.
WeatherAssumption ==
    /\ IsFiniteSet(Conn)
    /\ Loop \notin Conn /\ Caller \notin Conn /\ Loop # Caller
    /\ Nobody \notin Conn \cup {Loop, Caller}

Kinds == {"clear", "rain", "thunder"}
Raining == {"rain", "thunder"}
Task == {Loop, Caller} \cup Conn

VARIABLES tmWeather, duration, thunder,   \* TimeManager
          cycle,                          \* the game rule doWeatherCycle
          weather,                        \* server.weather
          online,                         \* players in the state PLAY
          told,                           \* those whose join has told them of it
          sky,                            \* at the client: [raining, rain, thunder]
          todo,                           \* game events every task is to send
          runner,                         \* the task that runs, or Nobody
          changes,
          ordered,                        \* history: what the last /weather asked for ...
          left,                           \* ... and the ticks it has left
          mixed                           \* history: events of two tasks overlapped, or
                                          \* /weather wrote the weather of the server

manager == <<tmWeather, duration, thunder>>
people == <<online, told>>
history == <<ordered, left, mixed>>
vars == <<manager, cycle, weather, people, sky, todo, runner, changes, history>>

Init ==
    /\ tmWeather = "clear" /\ duration = 0 /\ thunder = 0
    /\ cycle = TRUE
    /\ weather = "clear"
    /\ online = {} /\ told = {}
    /\ sky = [c \in Conn |-> [raining |-> FALSE, rain |-> 0, thunder |-> 0]]
    /\ todo = [t \in Task |-> <<>>]
    /\ runner = Nobody
    /\ changes = 0
    /\ ordered = "clear" /\ left = 0
    /\ mixed = FALSE

-------------------------------------------------------------------------------
Strength(on) == IF on THEN 1 ELSE 0
Event(c, field, value) == [to |-> c, field |-> field, value |-> value]

Begin(c) == <<Event(c, "raining", TRUE)>>
Ended(c) == <<Event(c, "raining", FALSE)>>
Levels(c, w) == <<Event(c, "rain", Strength(w \in Raining)),
                  Event(c, "thunder", Strength(w = "thunder"))>>

\* broadcast_weather_change().
Change(c, old, new) ==
    (IF new \in Raining /\ old \notin Raining THEN Begin(c)
     ELSE IF old \in Raining /\ new \notin Raining THEN Ended(c) ELSE <<>>) \o Levels(c, new)

Broadcast(old, new) ==
    LET order == SetToSeq(online)
    IN  FlattenSeq([i \in 1..Len(order) |-> Change(order[i], old, new)])

\* Mutant: only a thunderstorm is told to a player who joins.
StateOfThunder(c) == IF weather = "thunder" THEN Begin(c) \o Levels(c, weather) ELSE <<>>

\* send_weather_state().
State(c) == IF weather \in Raining THEN Begin(c) \o Levels(c, weather) ELSE <<>>

\* Task t starts to send events; it must not overlap another one to be understood.
Sends(t, events) ==
    /\ todo' = [todo EXCEPT ![t] = events]
    /\ runner' = IF events = <<>> THEN Nobody ELSE t
    /\ mixed' = (mixed \/ (events # <<>> /\ \E u \in Task : todo[u] # <<>>))

Free(t) == runner = Nobody /\ todo[t] = <<>>

-------------------------------------------------------------------------------
(* The operations. *)

\* TimeManager.tick().
Count ==
    LET d == IF duration > 0 THEN duration - 1 ELSE 0
        t == IF thunder > 0 THEN thunder - 1 ELSE 0
        w == IF duration = 1 THEN "clear" ELSE tmWeather
    IN  /\ duration' = d
        /\ thunder' = t
        /\ tmWeather' = IF thunder = 1 /\ w = "thunder" THEN "rain" ELSE w

\* A tick of the game loop.
Tick ==
    /\ Free(Loop)
    /\ IF cycle THEN Count ELSE UNCHANGED manager
    /\ weather' = tmWeather'
    /\ Sends(Loop, IF weather' # weather THEN Broadcast(weather, weather') ELSE <<>>)
    /\ left' = IF left > 0 THEN left - 1 ELSE 0
    /\ UNCHANGED <<cycle, people, sky, changes, ordered>>

\* server.set_weather().
SetWeather(w, d) ==
    /\ Free(Caller) /\ changes < MaxChanges
    /\ tmWeather' = w
    /\ duration' = d
    /\ thunder' = IF w = "thunder" THEN d ELSE thunder
    /\ weather' = w
    /\ Sends(Caller, IF w # weather THEN Broadcast(weather, w) ELSE <<>>)
    /\ changes' = changes + 1
    /\ left' = 0
    /\ UNCHANGED <<cycle, people, sky, ordered>>

\* The command /weather, as it is registered.
Command(w) ==
    /\ Free(Caller) /\ changes < MaxChanges
    /\ weather' = w
    /\ changes' = changes + 1
    /\ ordered' = w
    /\ left' = CommandDuration
    /\ mixed' = TRUE
    /\ UNCHANGED <<manager, cycle, people, sky, todo, runner>>

\* /gamerule doWeatherCycle.
SwitchCycle ==
    /\ Free(Caller) /\ changes < MaxChanges
    /\ cycle' = ~cycle
    /\ changes' = changes + 1
    /\ UNCHANGED <<manager, weather, people, sky, todo, runner, history>>

\* A player is in the state PLAY, and later its join comes to the weather.
Enter(c) ==
    /\ runner = Nobody
    /\ c \notin online
    /\ online' = online \cup {c}
    /\ UNCHANGED <<manager, cycle, weather, told, sky, todo, runner, changes, history>>

Join(c) ==
    /\ Free(c)
    /\ c \in online \ told
    /\ told' = told \cup {c}
    /\ Sends(c, State(c))
    /\ UNCHANGED <<manager, cycle, weather, online, sky, changes, ordered, left>>

\* One game event is written, and drain() awaited.
Send(t) ==
    /\ runner \in {t, Nobody}
    /\ todo[t] # <<>>
    /\ LET e == Head(todo[t])
       IN  /\ sky' = [sky EXCEPT ![e.to][e.field] = e.value]
           /\ runner' \in (IF Len(todo[t]) = 1 THEN {Nobody}
                           ELSE IF e.to \in Slow THEN {t, Nobody} ELSE {t})
    /\ todo' = [todo EXCEPT ![t] = Tail(@)]
    /\ UNCHANGED <<manager, cycle, weather, people, changes, history>>

Next ==
    \/ Tick \/ SwitchCycle
    \/ \E w \in Kinds : Command(w) \/ \E d \in Durations : SetWeather(w, d)
    \/ \E c \in Conn : Enter(c) \/ Join(c)
    \/ \E t \in Task : Send(t)

Spec == Init /\ [][Next]_vars

-------------------------------------------------------------------------------
(* Properties *)

Quiet == \A t \in Task : todo[t] = <<>>
Sky(w) == [raining |-> w \in Raining, rain |-> Strength(w \in Raining),
           thunder |-> Strength(w = "thunder")]

\* "The weather is synchronised when a player joins" (README.md:26): when nobody is
\* sending game events, everyone in the game sees the weather of the server, whether
\* it changed before, while or after they joined; as long as the events of two tasks
\* never overlapped and /weather was not used.
SkyIsWeather ==
    Quiet /\ ~mixed => \A c \in told : sky[c] = Sky(weather)

\* "The duration of /weather takes effect" (README.md:26).
CommandLasts == left > 0 => weather = ordered
===============================================================================
