-------------------------------- MODULE KeepAlive ------------------------------
(***************************************************************************)
(* The keep-alive of one connection: MinecraftServer._send_keepalive, run  *)
(* by the game loop every 200 ticks, and _handle_keepalive, run when the   *)
(* client's answer arrives.  Connections do not touch each other's fields. *)
(*                                                                         *)
(* One step of time is the 10 s the game loop takes for 200 ticks when it  *)
(* keeps up.  A keep-alive is known by its age: ids are milliseconds, so   *)
(* two of one connection never have the same.                              *)
(***************************************************************************)
EXTENDS Integers

CONSTANTS Timeout,   \* the 30 s of _send_keepalive
          MaxDelay,  \* an answer of a healthy client arrives within this
          MaxStall,  \* the game loop comes back within this
          NoTime     \* keepalive_rtt_ms is None

ASSUME TimeAssumption ==
    /\ Timeout \in Nat /\ MaxDelay \in 0..Timeout /\ MaxStall \in Nat \ {0}
    /\ NoTime \notin Nat

VARIABLES alive,    \* conn.alive
          pending,  \* keepalive_pending
          ago,      \* time since keepalive_sent_at; the age of keepalive_id
          rtt,      \* keepalive_rtt_ms
          wire,     \* ages of the keep-alives the client's answer is underway for
          silent,   \* the client has vanished without closing the connection
          round     \* time since the last round of the game loop

vars == <<alive, pending, ago, rtt, wire, silent, round>>

\* What is older than the timeout makes no difference any more.
Ages == 0..Timeout + 1

TypeOK ==
    /\ alive \in BOOLEAN /\ pending \in BOOLEAN /\ silent \in BOOLEAN
    /\ ago \in Ages
    /\ rtt \in Ages \cup {NoTime}
    /\ wire \subseteq 0..MaxDelay
    /\ round \in 0..MaxStall

Init ==
    /\ alive = TRUE
    /\ pending = FALSE
    /\ ago = Timeout + 1
    /\ rtt = NoTime
    /\ wire = {}
    /\ silent = FALSE
    /\ round = 0

Older(a) == IF a > Timeout THEN a ELSE a + 1

\* Time passes, as far as answers and the game loop are not overdue.
Elapse ==
    /\ round < MaxStall
    /\ MaxDelay \notin wire
    /\ round' = round + 1
    /\ ago' = Older(ago)
    /\ wire' = {a + 1 : a \in wire}
    /\ UNCHANGED <<alive, pending, rtt, silent>>

\* Mutant: a client is given up after 30 s, not after more than 30 s.
TimedOutAtOnce == pending /\ ago >= Timeout

TimedOut == pending /\ ago > Timeout

\* _send_keepalive for a connection whose answer is overdue.
Expire ==
    /\ alive
    /\ round > 0
    /\ TimedOut
    /\ alive' = FALSE
    /\ round' = 0
    /\ UNCHANGED <<pending, ago, rtt, wire, silent>>

\* Mutant: the time of the first unanswered keep-alive is kept, with the id of
\* the last one.
SendLater ==
    /\ alive
    /\ round > 0
    /\ ~TimedOut
    /\ pending' = TRUE
    /\ ago' = IF pending THEN ago ELSE 0
    /\ wire' = IF silent THEN wire ELSE wire \cup {0}
    /\ round' = 0
    /\ UNCHANGED <<alive, rtt, silent>>

\* _send_keepalive for any other connection: whatever is still pending is
\* forgotten for the new one.
Send ==
    /\ alive
    /\ round > 0
    /\ ~TimedOut
    /\ pending' = TRUE
    /\ ago' = 0
    /\ wire' = IF silent THEN wire ELSE wire \cup {0}
    /\ round' = 0
    /\ UNCHANGED <<alive, rtt, silent>>

\* The id of an answer is the last one that was sent.
IsLast(a) == a = ago

\* _handle_keepalive.
Answer(a) ==
    /\ alive
    /\ a \in wire
    /\ wire' = wire \ {a}
    /\ IF pending /\ IsLast(a)
       THEN pending' = FALSE /\ rtt' = ago
       ELSE UNCHANGED <<pending, rtt>>
    /\ UNCHANGED <<alive, ago, silent, round>>

\* The client is gone and no answer of it arrives any more.
GoSilent ==
    /\ alive
    /\ ~silent
    /\ silent' = TRUE
    /\ wire' = {}
    /\ UNCHANGED <<alive, pending, ago, rtt, round>>

Next == Elapse \/ Expire \/ Send \/ GoSilent \/ \E a \in 0..MaxDelay : Answer(a)

Spec == Init /\ [][Next]_vars

-------------------------------------------------------------------------------
(* Properties.                                                             *)

\* A client whose answers arrive within the timeout is never disconnected,
\* even if they arrive after the next keep-alives have been sent and however
\* long the game loop stalls.
HealthyStays == ~silent => alive

\* A connection is dropped only when the game loop itself has been away for
\* longer than the timeout: keepalive_sent_at is new after every round, so a
\* client that has vanished is not dropped by a loop that keeps up.
OnlyStallDrops == [][alive /\ ~alive' => round > Timeout]_vars
===============================================================================
