----------------------------- MODULE MCConnections -----------------------------
(***************************************************************************)
(* What the server does for its connections, for TLC: keep-alives and the  *)
(* queues of the network optimizer.  They share no state, so a behaviour   *)
(* follows one of them, chosen at the start, and leaves the other in its   *)
(* initial state.                                                          *)
(***************************************************************************)
EXTENDS KeepAlive

CONSTANTS Conn, Name, Nobody, Slow, MaxFrames, MaxJoins   \* of NetworkOptimizer

VARIABLES part,                                           \* what is followed
          oRunning, oPlayer, oOnline, oKeys, oQueue, oSent, oPc, oTodo, oTarget,
          oFrames, oDropped, oDelayed, oJoins             \* of NetworkOptimizer

Optimizer == INSTANCE NetworkOptimizer WITH
    running <- oRunning, player <- oPlayer, online <- oOnline, keys <- oKeys,
    queue <- oQueue, sent <- oSent, pc <- oPc, todo <- oTodo, target <- oTarget,
    frames <- oFrames, dropped <- oDropped, delayed <- oDelayed, joins <- oJoins

ASSUME FramesAssumption == Optimizer!OptimizerAssumption

optimizerVars == <<oRunning, oPlayer, oOnline, oKeys, oQueue, oSent, oPc, oTodo,
                   oTarget, oFrames, oDropped, oDelayed, oJoins>>

ConnectionsInit == Init /\ Optimizer!Init /\ part \in {"keepalive", "optimizer"}

ConnectionsNext ==
    \/ part = "keepalive" /\ Next /\ UNCHANGED <<optimizerVars, part>>
    \/ part = "optimizer" /\ Optimizer!Next /\ UNCHANGED <<vars, part>>

ConnectionsSpec ==
    /\ ConnectionsInit
    /\ [][ConnectionsNext]_<<vars, optimizerVars, part>>
    /\ Optimizer!Fairness

-------------------------------------------------------------------------------
\* NetworkOptimizer.FirstInOrder: a client first sees queued frames in order.
FramesFirstInOrder == Optimizer!FirstInOrder
\* NetworkOptimizer.NothingLost: frames are written, discarded or still wait.
FramesNothingLost == Optimizer!NothingLost
\* NetworkOptimizer.QueuesEmpty: what waits is written or discarded in the end.
FramesQueuesEmpty == Optimizer!QueuesEmpty
===============================================================================
