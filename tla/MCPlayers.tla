------------------------------- MODULE MCPlayers -------------------------------
(***************************************************************************)
(* Sessions of players and what their clients are told, for TLC: the       *)
(* players' files, the other players, the entities and the weather.  The   *)
(* parts share no variable here, so a behaviour follows one of them,       *)
(* chosen at the start, and leaves the others in their initial states.     *)
(***************************************************************************)
EXTENDS PlayerSession

CONSTANTS Peer, SlowPeer, KickedPeer, OldPeer,           \* of PlayerVisibility
          Entity, Known, Viewer, Loop, MaxMoves,         \* of EntityTracking
          Caller, Durations, CommandDuration, MaxOrders, SlowConn \* of Weather

VARIABLES part,
    pTask, pAlive, pTodo, pRunner, pTracked, pListed, pShown, pUnlisted, pMissed,
    eEntities, eFresh, eRemoved, eNear, eOnline, eJoined, eTracked, eShown,
    eJobs, eSyncing, eRunner, eMoves, eCalm, eLate,
    wManager, wDuration, wThunder, wCycle, wWeather, wOnline, wTold, wSky,
    wTodo, wRunner, wChanges, wOrdered, wLeft, wMixed

Peers == INSTANCE PlayerVisibility WITH
    Conn <- Peer, Slow <- SlowPeer, Kicked <- KickedPeer, Old <- OldPeer,
    task <- pTask, alive <- pAlive, todo <- pTodo, runner <- pRunner,
    tracked <- pTracked, listed <- pListed, shown <- pShown,
    unlisted <- pUnlisted, missed <- pMissed

peerVars == <<pTask, pAlive, pTodo, pRunner, pTracked, pListed, pShown, pUnlisted, pMissed>>

Things == INSTANCE EntityTracking WITH
    Conn <- Viewer, Slow <- Viewer,
    entities <- eEntities, fresh <- eFresh, removed_ids <- eRemoved,
    near <- eNear, online <- eOnline, joined <- eJoined, tracked <- eTracked,
    shown <- eShown, jobs <- eJobs, syncing <- eSyncing, runner <- eRunner,
    moves <- eMoves, calm <- eCalm, late <- eLate

thingVars == <<eEntities, eFresh, eRemoved, eNear, eOnline, eJoined, eTracked,
               eShown, eJobs, eSyncing, eRunner, eMoves, eCalm, eLate>>

Skies == INSTANCE Weather WITH
    Slow <- SlowConn, MaxChanges <- MaxOrders,
    tmWeather <- wManager, duration <- wDuration, thunder <- wThunder,
    cycle <- wCycle, weather <- wWeather, online <- wOnline, told <- wTold,
    sky <- wSky, todo <- wTodo, runner <- wRunner, changes <- wChanges,
    ordered <- wOrdered, left <- wLeft, mixed <- wMixed

ASSUME SkyAssumption == Skies!WeatherAssumption
ASSUME PeerAssumption == Peers!VisibilityAssumption
ASSUME ThingAssumption == Things!TrackingAssumption

skyVars == <<wManager, wDuration, wThunder, wCycle, wWeather, wOnline, wTold,
             wSky, wTodo, wRunner, wChanges, wOrdered, wLeft, wMixed>>

-------------------------------------------------------------------------------
AllInit ==
    /\ Init /\ Peers!Init /\ Things!Init /\ Skies!Init
    /\ part \in {"session", "peers", "things", "sky"}

AllNext ==
    /\ UNCHANGED part
    /\ \/ part = "session" /\ Next /\ UNCHANGED <<peerVars, thingVars, skyVars>>
       \/ part = "peers" /\ Peers!Next /\ UNCHANGED <<vars, thingVars, skyVars>>
       \/ part = "things" /\ Things!Next /\ UNCHANGED <<vars, peerVars, skyVars>>
       \/ part = "sky" /\ Skies!Next /\ UNCHANGED <<vars, peerVars, thingVars>>

AllSpec == AllInit /\ [][AllNext]_<<vars, peerVars, thingVars, skyVars, part>>

-------------------------------------------------------------------------------
\* PlayerVisibility.SeenAreOnline: when nobody joins or leaves, clients show exactly
\* the players who are there.
SeenAreOnline == Peers!SeenAreOnline

\* EntityTracking.ClientsInSync: after a pass that nobody disturbed the clients
\* show the entities around them.
ClientsInSync == Things!ClientsInSync

\* Weather.SkyIsWeather: when nobody is being told, everyone sees the weather.
SkyIsWeather == Skies!SkyIsWeather
===============================================================================
