---------------------------- MODULE NetworkOptimizer ---------------------------
(***************************************************************************)
(* PlayerNetworkOptimizer (watchdog/network_optimizer.py): frames are      *)
(* queued per player name and written in batches, by the flush loop every  *)
(* 50 ms, by the game loop at the end of a tick, and by stop().  All three *)
(* run flush_all on the one asyncio loop and can be suspended in           *)
(* writer.drain() while the transport's buffer is full.                    *)
(*                                                                         *)
(* Frames are numbered in the order they are handed over.  flush_all looks *)
(* at the names in dictionary order; here it is any order.                 *)
(***************************************************************************)
EXTENDS Integers, Sequences, SequencesExt

CONSTANTS Conn,       \* connections
          Name,       \* player names, the keys of packet_queues
          Nobody,     \* no player, no connection
          Slow,       \* connections on which drain() may suspend
          MaxFrames,  \* bound: frames handed over
          MaxJoins    \* bound: logins

\* What the constants must be; the suite that instantiates this module assumes it.
OptimizerAssumption ==
    /\ Nobody \notin Name \cup Conn
    /\ MaxFrames \in Nat
    /\ MaxJoins \in Nat

\* The tasks that run flush_all: _flush_loop, _game_loop, stop().
Task == {"loop", "tick", "stop"}

VARIABLES running,  \* _running
          player,   \* player[c]: username
          online,   \* connections in get_online_players()
          keys,     \* the keys of packet_queues
          queue,    \* queue[n]: frames that wait for n
          sent,     \* sent[c]: frames written to c, in order
          pc,       \* pc[f]: what task f does
          todo,     \* todo[f]: the names flush_all has still to visit
          target,   \* target[f]: the name and connection whose drain() f awaits
          frames,   \* history: the frames handed over so far
          dropped,  \* history: frames discarded because nobody is there
          delayed,  \* history: names some drain() has waited for
          joins

players == <<player, online, joins>>
queues == <<keys, queue, dropped>>
tasks == <<pc, todo, target>>
history == <<frames, delayed>>
vars == <<running, players, queues, sent, tasks, history>>

Frame == 1..MaxFrames
Nowhere == [name |-> Nobody, conn |-> Nobody]

TypeOK ==
    /\ running \in BOOLEAN
    /\ player \in [Conn -> Name \cup {Nobody}]
    /\ online \subseteq Conn
    /\ keys \subseteq Name
    /\ queue \in [Name -> Seq(Frame)]
    /\ \A n \in Name \ keys : queue[n] = <<>>
    /\ sent \in [Conn -> Seq(Frame)]
    /\ pc \in [Task -> {"idle", "flush", "drain", "ended"}]
    /\ todo \in [Task -> SUBSET Name]
    /\ target \in [Task -> [name : Name \cup {Nobody}, conn : Conn \cup {Nobody}]]
    /\ \A f \in Task : pc[f] = "drain" <=> target[f] # Nowhere
    /\ frames \in Seq([name : Name, queued : BOOLEAN]) /\ Len(frames) <= MaxFrames
    /\ dropped \subseteq Frame
    /\ delayed \subseteq Name
    /\ joins \in 0..MaxJoins

Init ==
    /\ running = TRUE
    /\ player = [c \in Conn |-> Nobody]
    /\ online = {}
    /\ keys = {}
    /\ queue = [n \in Name |-> <<>>]
    /\ sent = [c \in Conn |-> <<>>]
    /\ pc = [f \in Task |-> "idle"]
    /\ todo = [f \in Task |-> {}]
    /\ target = [f \in Task |-> Nowhere]
    /\ frames = <<>>
    /\ dropped = {}
    /\ delayed = {}
    /\ joins = 0

-------------------------------------------------------------------------------
(* Players.                                                                *)

\* A new connection logs in; the code lets it use a name that is taken.
Join(c, n) ==
    /\ joins < MaxJoins
    /\ player[c] = Nobody
    /\ joins' = joins + 1
    /\ player' = [player EXCEPT ![c] = n]
    /\ online' = online \cup {c}
    /\ UNCHANGED <<running, queues, sent, tasks, history>>

\* A connection breaks; its name may be used by another one from now on.
Quit(c) ==
    /\ c \in online
    /\ online' = online \ {c}
    /\ UNCHANGED <<running, player, joins, queues, sent, tasks, history>>

-------------------------------------------------------------------------------
(* Handing frames over.                                                    *)

Handed(n, queued) == frames' = Append(frames, [name |-> n, queued |-> queued])

\* queue_or_send from _tick_entity_sync, in the game loop before its flush.
\* The list of players is older than the last await: c may be gone by now.
Queue(c) ==
    /\ running
    /\ pc["tick"] = "idle"
    /\ player[c] # Nobody
    /\ Len(frames) < MaxFrames
    /\ Handed(player[c], TRUE)
    /\ keys' = keys \cup {player[c]}
    /\ queue' = [queue EXCEPT ![player[c]] = Append(@, Len(frames) + 1)]
    /\ UNCHANGED <<running, players, sent, tasks, dropped, delayed>>

\* Once the optimizer is stopped queue_packet refuses and the frame is sent at
\* once; send_packet does nothing for a connection that is gone.
SendDirect(c) ==
    /\ ~running
    /\ pc["tick"] = "idle"
    /\ player[c] # Nobody
    /\ Len(frames) < MaxFrames
    /\ Handed(player[c], FALSE)
    /\ IF c \in online
       THEN /\ sent' = [sent EXCEPT ![c] = Append(@, Len(frames) + 1)]
            /\ UNCHANGED dropped
       ELSE /\ dropped' = dropped \cup {Len(frames) + 1}
            /\ UNCHANGED sent
    /\ UNCHANGED <<running, players, keys, queue, tasks, delayed>>

-------------------------------------------------------------------------------
(* flush_all.                                                              *)

MayFlush(f) == f = "stop" <=> ~running /\ pc["loop"] = "ended"

StartFlush(f) ==
    /\ pc[f] = "idle"
    /\ f \in {"loop", "stop"} => MayFlush(f)
    /\ pc' = [pc EXCEPT ![f] = "flush"]
    /\ todo' = [todo EXCEPT ![f] = keys]
    /\ UNCHANGED <<running, players, queues, sent, target, history>>

\* Nothing is queued for n.
FlushSkip(f, n) ==
    /\ pc[f] = "flush"
    /\ n \in todo[f]
    /\ queue[n] = <<>>
    /\ todo' = [todo EXCEPT ![f] = @ \ {n}]
    /\ UNCHANGED <<running, players, queues, sent, pc, target, history>>

\* Nobody of that name is online: what is queued is discarded.
FlushGone(f, n) ==
    /\ pc[f] = "flush"
    /\ n \in todo[f]
    /\ queue[n] # <<>>
    /\ \A c \in online : player[c] # n
    /\ dropped' = dropped \cup Range(queue[n])
    /\ queue' = [queue EXCEPT ![n] = <<>>]
    /\ keys' = keys \ {n}
    /\ todo' = [todo EXCEPT ![f] = @ \ {n}]
    /\ UNCHANGED <<running, players, sent, pc, target, history>>

\* The connection flush_all finds for a name.
Lookup(n, c) == c \in online /\ player[c] = n

\* Mutant: a batch is put together from the newest frame back.
BatchReversed(n) == Reverse(queue[n])

\* Mutant: only the newest frame of a queue is worth a write.
BatchNewest(n) == <<Last(queue[n])>>

\* All frames of a queue in one write.
Batch(n) == queue[n]

\* Mutant: the queue is left alone after a batch was written.
ClearNothing(n) == UNCHANGED <<keys, queue>>

\* The queue of n is replaced by an empty one.
Clear(n) ==
    /\ keys' = keys \cup {n}
    /\ queue' = [queue EXCEPT ![n] = <<>>]

\* One write, and a drain() that returns at once.
FlushSend(f, n, c) ==
    /\ pc[f] = "flush"
    /\ n \in todo[f]
    /\ queue[n] # <<>>
    /\ Lookup(n, c)
    /\ sent' = [sent EXCEPT ![c] = @ \o Batch(n)]
    /\ Clear(n)
    /\ todo' = [todo EXCEPT ![f] = @ \ {n}]
    /\ UNCHANGED <<running, players, pc, target, history, dropped>>

\* One write, and a drain() that waits for a slow client.
FlushSendSlow(f, n, c) ==
    /\ pc[f] = "flush"
    /\ n \in todo[f]
    /\ queue[n] # <<>>
    /\ Lookup(n, c) /\ c \in Slow
    /\ sent' = [sent EXCEPT ![c] = @ \o Batch(n)]
    /\ pc' = [pc EXCEPT ![f] = "drain"]
    /\ target' = [target EXCEPT ![f] = [name |-> n, conn |-> c]]
    /\ todo' = [todo EXCEPT ![f] = @ \ {n}]
    /\ delayed' = delayed \cup {n}
    /\ UNCHANGED <<running, players, queues, frames>>

\* The write raises: the connection is broken, the queue is cleared.
FlushFails(f, n, c) ==
    /\ pc[f] = "flush"
    /\ n \in todo[f]
    /\ queue[n] # <<>>
    /\ Lookup(n, c)
    /\ online' = online \ {c}
    /\ dropped' = dropped \cup Range(queue[n])
    /\ Clear(n)
    /\ todo' = [todo EXCEPT ![f] = @ \ {n}]
    /\ UNCHANGED <<running, player, joins, sent, pc, target, history>>

\* drain() returns, or raises because the connection is broken by now.
Drained(f) ==
    /\ pc[f] = "drain"
    /\ Clear(target[f].name)
    /\ pc' = [pc EXCEPT ![f] = "flush"]
    /\ target' = [target EXCEPT ![f] = Nowhere]
    /\ UNCHANGED <<running, players, sent, todo, history, dropped>>

FlushDone(f) ==
    /\ pc[f] = "flush"
    /\ todo[f] = {}
    /\ pc' = [pc EXCEPT ![f] = IF f = "stop" THEN "ended" ELSE "idle"]
    /\ UNCHANGED <<running, players, queues, sent, todo, target, history>>

\* stop(): the flush loop is cancelled wherever it is.  CancelledError leaves
\* flush_all without clearing the queue it was draining.
Stop ==
    /\ running
    /\ running' = FALSE
    /\ pc' = [pc EXCEPT !["loop"] = "ended"]
    /\ todo' = [todo EXCEPT !["loop"] = {}]
    /\ target' = [target EXCEPT !["loop"] = Nowhere]
    /\ UNCHANGED <<players, queues, sent, history>>

Flush(f) ==
    \/ StartFlush(f) \/ Drained(f) \/ FlushDone(f)
    \/ \E n \in Name :
          \/ FlushSkip(f, n) \/ FlushGone(f, n)
          \/ \E c \in Conn :
                FlushSend(f, n, c) \/ FlushSendSlow(f, n, c) \/ FlushFails(f, n, c)

Next ==
    \/ \E c \in Conn :
          \/ Quit(c) \/ Queue(c) \/ SendDirect(c)
          \/ \E n \in Name : Join(c, n)
    \/ \E f \in Task : Flush(f)
    \/ Stop

Spec == Init /\ [][Next]_vars

\* The flush loop comes back every 50 ms and stop() is run to its end; drain()
\* ends, because a client reads or its connection breaks.
Fairness == WF_vars(Flush("loop")) /\ WF_vars(Flush("stop"))

FairSpec == Spec /\ Fairness

-------------------------------------------------------------------------------
(* Properties.                                                             *)

Written == UNION {Range(sent[c]) : c \in Conn}
Waiting == UNION {Range(queue[n]) : n \in Name}

\* Whatever tasks flush at the same time, a client never sees a queued frame
\* for the first time after it has seen a newer one.  A frame that is sent
\* directly may overtake what is queued.
FirstInOrder ==
    \A c \in Conn : \A i, j \in 1..Len(sent[c]) :
        /\ i < j /\ sent[c][j] < sent[c][i]
        /\ frames[sent[c][i]].queued /\ frames[sent[c][j]].queued
        => \E k \in 1..i : sent[c][k] = sent[c][j]

\* "all queued packets are flushed": a frame for a name no drain() has waited
\* for is written, still waits, or was meant for a player who was not there.
\* While drain() waits the code loses the frames that are queued.
NothingLost ==
    \A i \in 1..Len(frames) :
        frames[i].name \in delayed \/ i \in Written \cup Waiting \cup dropped

\* What waits is written or discarded in the end.
QueuesEmpty == \A n \in Name : queue[n] # <<>> ~> queue[n] = <<>>
===============================================================================
