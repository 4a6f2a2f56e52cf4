--------------------------- MODULE Connections_proofs --------------------------
(***************************************************************************)
(* Proofs about what the server does for its connections: keep-alives, for *)
(* every timeout, delay and stall, and the order of queued frames, for     *)
(* any connections, names and numbers of frames and logins.                *)
(***************************************************************************)
EXTENDS MCConnections, DataTheorems, SequenceTheorems, TLAPS

\* The answer to what a healthy client has still to answer is underway, and so
\* younger than the timeout.
Underway == pending /\ ~silent => ago \in wire

\* What a connection has still to answer was sent in the last round.
SentLastRound == alive /\ pending => ago <= round

KeepAliveInv == TypeOK /\ Underway /\ SentLastRound /\ HealthyStays

LEMMA InitInv == Init => KeepAliveInv
<1> SUFFICES ASSUME Init PROVE KeepAliveInv
  OBVIOUS
<1>1. alive \in BOOLEAN /\ pending \in BOOLEAN /\ silent \in BOOLEAN
  BY Zenon DEF Init
<1>2. ago \in Ages /\ round \in 0..MaxStall
  BY TimeAssumption DEF Init, Ages
<1>3. rtt \in Ages \cup {NoTime} /\ wire \subseteq 0..MaxDelay
  BY Zenon DEF Init
<1>4. Underway /\ SentLastRound /\ HealthyStays
  BY Zenon DEF Init, Underway, SentLastRound, HealthyStays
<1> QED
  BY <1>1, <1>2, <1>3, <1>4 DEF KeepAliveInv, TypeOK

\* While time passes, a keep-alive and the answer to it grow old together.
LEMMA ElapseInv == KeepAliveInv /\ Elapse => KeepAliveInv'
<1> SUFFICES ASSUME KeepAliveInv, Elapse PROVE KeepAliveInv'
  OBVIOUS
<1> USE TimeAssumption
<1>1. round' = round + 1 /\ round' \in 0..MaxStall /\ round \in Nat
  BY DEF Elapse, KeepAliveInv, TypeOK
<1>2. ago' = Older(ago) /\ ago \in Ages /\ ago' \in Ages
  BY DEF Elapse, Older, KeepAliveInv, TypeOK, Ages
<1>3. \A a \in wire : a \in 0..MaxDelay /\ a + 1 \in 0..MaxDelay /\ a + 1 \in wire'
  BY DEF Elapse, KeepAliveInv, TypeOK
<1>4. wire' \subseteq 0..MaxDelay
  BY <1>3 DEF Elapse
<1>5. UNCHANGED <<alive, pending, rtt, silent>>
  BY DEF Elapse
<1>6. TypeOK'
  BY <1>1, <1>2, <1>4, <1>5 DEF KeepAliveInv, TypeOK
<1>7. Underway'
  BY <1>2, <1>3, <1>5 DEF KeepAliveInv, Underway, Older, Ages
<1>8. SentLastRound'
  BY <1>1, <1>2, <1>5 DEF KeepAliveInv, SentLastRound, Older, Ages
<1>9. HealthyStays'
  BY <1>5 DEF KeepAliveInv, HealthyStays
<1> QED
  BY <1>6, <1>7, <1>8, <1>9 DEF KeepAliveInv

LEMMA NextInv == KeepAliveInv /\ [Next]_vars => KeepAliveInv'
<1> SUFFICES ASSUME KeepAliveInv, [Next]_vars PROVE KeepAliveInv'
  OBVIOUS
<1> USE TimeAssumption
<1>1. CASE Elapse
  BY <1>1, ElapseInv
<1>2. CASE Expire
  <2>1. silent
    BY <1>2 DEF Expire, TimedOut, KeepAliveInv, TypeOK, Ages, Underway
  <2>2. ~alive' /\ silent' /\ alive' \in BOOLEAN
    BY <1>2, <2>1, Zenon DEF Expire
  <2>3. round' \in 0..MaxStall
    BY <1>2 DEF Expire
  <2>4. UNCHANGED <<pending, ago, rtt, wire, silent>>
    BY <1>2 DEF Expire
  <2>5. TypeOK'
    BY <2>2, <2>3, <2>4 DEF KeepAliveInv, TypeOK
  <2>6. Underway' /\ SentLastRound' /\ HealthyStays'
    BY <2>2, Zenon DEF Underway, SentLastRound, HealthyStays
  <2> QED
    BY <2>5, <2>6, Zenon DEF KeepAliveInv
<1>3. CASE Send
  <2>1. 0 \in Ages /\ 0 \in 0..MaxDelay /\ 0 \in 0..MaxStall
    BY DEF Ages
  <2>2. pending' \in BOOLEAN /\ alive' \in BOOLEAN /\ silent' \in BOOLEAN
    BY <1>3, Zenon DEF Send, KeepAliveInv, TypeOK
  <2>3. ago' \in Ages /\ round' \in 0..MaxStall /\ rtt' \in Ages \cup {NoTime}
    BY <1>3, <2>1 DEF Send, KeepAliveInv, TypeOK
  <2>4. wire' \subseteq 0..MaxDelay
    BY <1>3, <2>1 DEF Send, KeepAliveInv, TypeOK
  <2>5. TypeOK'
    BY <2>2, <2>3, <2>4 DEF TypeOK
  <2>6. Underway'
    BY <1>3, Zenon DEF Send, Underway
  <2>7. SentLastRound'
    BY <1>3 DEF Send, SentLastRound
  <2>8. HealthyStays'
    BY <1>3, Zenon DEF Send, HealthyStays
  <2> QED
    BY <2>5, <2>6, <2>7, <2>8, Zenon DEF KeepAliveInv
<1>4. ASSUME NEW a \in 0..MaxDelay, Answer(a) PROVE KeepAliveInv'
  BY <1>4 DEF Answer, IsLast, KeepAliveInv, TypeOK, Underway, SentLastRound, HealthyStays
<1>5. CASE GoSilent
  BY <1>5 DEF GoSilent, KeepAliveInv, TypeOK, Underway, SentLastRound, HealthyStays
<1>6. CASE UNCHANGED vars
  BY <1>6 DEF vars, KeepAliveInv, TypeOK, Underway, SentLastRound, HealthyStays
<1> QED
  BY <1>1, <1>2, <1>3, <1>4, <1>5, <1>6 DEF Next

LEMMA Invariant == Spec => []KeepAliveInv
BY InitInv, NextInv, PTL DEF Spec

\* A client that answers within the timeout is never disconnected.
THEOREM HealthyNeverDropped == Spec => []HealthyStays
<1>1. KeepAliveInv => HealthyStays
  BY DEF KeepAliveInv
<1> QED
  BY Invariant, <1>1, PTL

\* Nobody is disconnected but after a stall of the game loop.
THEOREM DropsNeedStall == Spec => OnlyStallDrops
<1>1. ASSUME KeepAliveInv, [Next]_vars, alive, ~alive' PROVE round > Timeout
  <2>1. Expire
    BY <1>1 DEF Next, Elapse, Send, Answer, GoSilent, vars
  <2> QED
    BY <1>1, <2>1, TimeAssumption
    DEF Expire, TimedOut, KeepAliveInv, TypeOK, Ages, SentLastRound
<1>2. KeepAliveInv /\ [Next]_vars => [alive /\ ~alive' => round > Timeout]_vars
  BY <1>1
<1> QED
  BY Invariant, <1>2, PTL DEF Spec, OnlyStallDrops

-------------------------------------------------------------------------------
(* NetworkOptimizer: the order of frames and none lost, whatever tasks     *)
(* flush at the same time.                                                 *)

LEMMA FramesBounds == Nobody \notin Name /\ Nobody \notin Conn /\ MaxFrames \in Nat /\ MaxJoins \in Nat
BY FramesAssumption DEF Optimizer!OptimizerAssumption

\* Who waits in drain() waits for a name that is counted as delayed.
Aimed == \A f \in Optimizer!Task :
    oTarget[f] # Optimizer!Nowhere => oTarget[f].name \in Name \cap oDelayed

-------------------------------------------------------------------------------
(* Lists of frames; a frame is the number under which the list fr of all   *)
(* frames knows it.                                                        *)

LEMMA FrameAdded ==
    ASSUME NEW s \in Seq(Nat), NEW x \in Nat, NEW y
    PROVE  Listed(Append(s, x), y) <=> Listed(s, y) \/ y = x
BY AppendLists

LEMMA FramesAdded ==
    ASSUME NEW s \in Seq(Nat), NEW t \in Seq(Nat), NEW y
    PROVE  Listed(s \o t, y) <=> Listed(s, y) \/ Listed(t, y)
BY ConcatLists

\* A queue: its frames are old ones of name n, each once, the oldest first.
Queued(q, n, fr) ==
    /\ \A i, j \in 1..Len(q) : i < j => q[i] < q[j]
    /\ \A i \in 1..Len(q) : q[i] \in 1..Len(fr) /\ fr[q[i]].name = n

\* What was sent to a connection of name n.
Delivered(s, n, fr) ==
    \A i \in 1..Len(s) : s[i] \in 1..Len(fr) /\ fr[s[i]].name = n

\* A queued frame is first seen before any newer one.
Ordered(s, fr) == \A i, j \in 1..Len(s) :
    /\ i < j /\ s[j] < s[i]
    /\ fr[s[i]].queued /\ fr[s[j]].queued
    => \E k \in 1..i : s[k] = s[j]

\* The same of what is in the queue q.
Waits(s, q, fr) == \A i \in 1..Len(s), j \in 1..Len(q) :
    fr[s[i]].queued /\ q[j] < s[i] => \E k \in 1..i : s[k] = q[j]

\* fr is continued by one frame.
Longer(fr, new) ==
    /\ Len(fr) \in Nat /\ Len(new) = Len(fr) + 1
    /\ \A i \in 1..Len(fr) : new[i] = fr[i]

LEMMA LongerKeeps ==
    ASSUME NEW s \in Seq(Nat), NEW q \in Seq(Nat), NEW n, NEW m, NEW fr, NEW new, Longer(fr, new)
    PROVE  /\ Queued(q, n, fr) => Queued(q, n, new)
           /\ Delivered(s, n, fr) => Delivered(s, n, new)
           /\ Delivered(s, n, fr) /\ Ordered(s, fr) => Ordered(s, new)
           /\ Delivered(s, n, fr) /\ Waits(s, q, fr) => Waits(s, q, new)
<1>0. \A x \in 1..Len(fr) : x \in 1..Len(new) /\ new[x] = fr[x]
  BY DEF Longer
<1>1. Queued(q, n, fr) => Queued(q, n, new)
  BY <1>0 DEF Queued
<1>2. Delivered(s, n, fr) => Delivered(s, n, new)
  BY <1>0 DEF Delivered
<1>3. Delivered(s, n, fr) => \A i \in 1..Len(s) : new[s[i]] = fr[s[i]]
  BY <1>0 DEF Delivered
<1>4. Delivered(s, n, fr) /\ Ordered(s, fr) => Ordered(s, new)
  BY <1>3 DEF Ordered
<1>5. Delivered(s, n, fr) /\ Waits(s, q, fr) => Waits(s, q, new)
  BY <1>3 DEF Waits
<1> QED
  BY <1>1, <1>2, <1>4, <1>5

LEMMA SeqOfNat ==
    ASSUME NEW s \in Seq(Nat)
    PROVE  Len(s) \in Nat /\ \A i \in 1..Len(s) : s[i] \in Nat
BY ElementOfSeq, LenProperties

\* The newest frame is queued.
LEMMA NewQueued ==
    ASSUME NEW s \in Seq(Nat), NEW q \in Seq(Nat), NEW n, NEW fr, NEW new, Longer(fr, new),
           new[Len(fr) + 1].name = n,
           Queued(q, n, fr), Delivered(s, n, fr), Waits(s, q, fr)
    PROVE  /\ Queued(Append(q, Len(fr) + 1), n, new)
           /\ Waits(s, Append(q, Len(fr) + 1), new)
<1> DEFINE top == Len(fr) + 1
           r == Append(q, top)
<1>1. top \in Nat /\ Len(fr) \in Nat /\ Len(new) = top
  BY DEF Longer
<1>2. /\ Len(r) = Len(q) + 1 /\ r[Len(q) + 1] = top
      /\ \A i \in 1..Len(q) : r[i] = q[i]
  BY <1>1, AppendLists
<1>3. /\ Len(q) \in Nat /\ \A i \in 1..Len(q) : q[i] \in Nat
      /\ Len(s) \in Nat /\ \A i \in 1..Len(s) : s[i] \in Nat
  BY SeqOfNat
<1> HIDE DEF r
<1>4. \A i \in 1..Len(q) : q[i] \in 1..Len(fr) /\ fr[q[i]].name = n /\ q[i] < top
  BY <1>1, <1>3 DEF Queued
<1>5. \A i \in 1..Len(r) : r[i] \in 1..Len(new) /\ new[r[i]].name = n
  <2> SUFFICES ASSUME NEW i \in 1..Len(r) PROVE r[i] \in 1..Len(new) /\ new[r[i]].name = n
    OBVIOUS
  <2>1. CASE i \in 1..Len(q)
    <3>1. r[i] = q[i] /\ q[i] \in 1..Len(fr) /\ fr[q[i]].name = n
      BY <1>2, <1>4, <2>1
    <3>2. \A x \in 1..Len(fr) : x \in 1..Len(new) /\ new[x] = fr[x]
      BY DEF Longer
    <3> QED
      BY <3>1, <3>2
  <2>2. CASE i = Len(q) + 1
    BY <1>1, <1>2, <2>2
  <2> QED
    BY <1>2, <1>3, <2>1, <2>2
<1>6. ASSUME NEW i \in 1..Len(r), NEW j \in 1..Len(r), i < j PROVE r[i] < r[j]
  <2>1. i \in 1..Len(q) /\ r[i] = q[i]
    BY <1>2, <1>3, <1>6
  <2>2. CASE j \in 1..Len(q)
    BY <1>2, <1>6, <2>1, <2>2 DEF Queued
  <2>3. CASE j = Len(q) + 1
    BY <1>2, <1>4, <2>1, <2>3
  <2> QED
    BY <1>2, <1>3, <2>2, <2>3
<1>7. Waits(s, r, new)
  <2> SUFFICES ASSUME NEW i \in 1..Len(s), NEW j \in 1..Len(r), new[s[i]].queued, r[j] < s[i]
               PROVE  \E k \in 1..i : s[k] = r[j]
    BY DEF Waits
  <2>1. s[i] \in 1..Len(fr) /\ s[i] \in Nat /\ new[s[i]] = fr[s[i]]
    <3>1. s[i] \in 1..Len(fr)
      BY DEF Delivered
    <3> QED
      BY <1>3, <3>1 DEF Longer
  <2>2. CASE j \in 1..Len(q)
    <3>1. r[j] = q[j]
      BY <1>2, <2>2
    <3> QED
      BY <2>1, <2>2, <3>1 DEF Waits
  <2>3. CASE j = Len(q) + 1
    BY <1>1, <1>2, <2>1, <2>3
  <2>4. j \in 1..Len(q) \/ j = Len(q) + 1
    BY <1>2, <1>3
  <2> QED
    BY <2>2, <2>3, <2>4
<1> QED
  BY <1>5, <1>6, <1>7 DEF Queued, r

\* The newest frame is sent without being queued.
LEMMA NewSent ==
    ASSUME NEW s \in Seq(Nat), NEW q \in Seq(Nat), NEW n, NEW fr, NEW new, Longer(fr, new),
           new[Len(fr) + 1].name = n, ~new[Len(fr) + 1].queued,
           Delivered(s, n, fr), Ordered(s, fr), Waits(s, q, fr)
    PROVE  /\ Delivered(Append(s, Len(fr) + 1), n, new)
           /\ Ordered(Append(s, Len(fr) + 1), new)
           /\ Waits(Append(s, Len(fr) + 1), q, new)
<1> DEFINE top == Len(fr) + 1
           t == Append(s, top)
<1>1. top \in Nat /\ Len(fr) \in Nat /\ Len(new) = top
  BY DEF Longer
<1>2. /\ Len(t) = Len(s) + 1 /\ t[Len(s) + 1] = top
      /\ \A i \in 1..Len(s) : t[i] = s[i]
  BY <1>1, AppendLists
<1>3. Len(s) \in Nat /\ Len(t) \in Nat
  BY <1>2, SeqOfNat
<1> HIDE DEF t, top
<1>4. \A i \in 1..Len(t) : i \in 1..Len(s) \/ i = Len(s) + 1
  BY <1>2, <1>3
<1>5. \A i \in 1..Len(s) : s[i] \in 1..Len(fr) /\ new[s[i]] = fr[s[i]] /\ fr[s[i]].name = n
  BY DEF Delivered, Longer
<1>6. Delivered(t, n, new)
  <2> SUFFICES ASSUME NEW i \in 1..Len(t) PROVE t[i] \in 1..Len(new) /\ new[t[i]].name = n
    BY DEF Delivered
  <2>1. CASE i \in 1..Len(s)
    <3>1. t[i] = s[i] /\ s[i] \in 1..Len(fr) /\ new[s[i]].name = n
      BY <1>2, <1>5, <2>1
    <3>2. \A x \in 1..Len(fr) : x \in 1..Len(new)
      BY <1>1 DEF top
    <3> QED
      BY <3>1, <3>2
  <2>2. CASE i = Len(s) + 1
    BY <1>1, <1>2, <2>2 DEF top
  <2> QED
    BY <1>4, <2>1, <2>2
<1>7. \A i \in 1..Len(t) : new[t[i]].queued => i \in 1..Len(s)
  BY <1>2, <1>4 DEF top
<1>8. Ordered(t, new)
  <2> SUFFICES ASSUME NEW i \in 1..Len(t), NEW j \in 1..Len(t), i < j, t[j] < t[i],
                      new[t[i]].queued, new[t[j]].queued
               PROVE  \E k \in 1..i : t[k] = t[j]
    BY DEF Ordered
  <2>1. i \in 1..Len(s) /\ j \in 1..Len(s) /\ t[i] = s[i] /\ t[j] = s[j]
    <3>1. i \in 1..Len(s) /\ j \in 1..Len(s)
      BY <1>7
    <3>2. \A x \in 1..Len(s) : t[x] = s[x]
      BY <1>2
    <3> QED
      BY <3>1, <3>2, Zenon
  <2>2. fr[s[i]].queued /\ fr[s[j]].queued
    <3>1. new[s[i]] = fr[s[i]] /\ new[s[j]] = fr[s[j]]
      BY <1>5, <2>1
    <3>2. new[s[i]].queued /\ new[s[j]].queued
      BY <2>1
    <3> QED
      BY <3>1, <3>2
  <2>3. PICK k \in 1..i : s[k] = s[j]
    BY <2>1, <2>2 DEF Ordered
  <2>4. t[k] = s[k]
    BY <1>2, <1>3, <2>1
  <2> QED
    BY <2>1, <2>3, <2>4
<1>9. Waits(t, q, new)
  <2> SUFFICES ASSUME NEW i \in 1..Len(t), NEW j \in 1..Len(q), new[t[i]].queued, q[j] < t[i]
               PROVE  \E k \in 1..i : t[k] = q[j]
    BY DEF Waits
  <2>1. i \in 1..Len(s) /\ t[i] = s[i] /\ fr[s[i]].queued
    BY <1>2, <1>5, <1>7
  <2>2. PICK k \in 1..i : s[k] = q[j]
    BY <2>1 DEF Waits
  <2>3. t[k] = s[k]
    BY <1>2, <1>3, <2>1
  <2> QED
    BY <2>2, <2>3
<1> QED
  BY <1>6, <1>8, <1>9 DEF t, top

\* A queue is written.
LEMMA WriteQueue ==
    ASSUME NEW s \in Seq(Nat), NEW q \in Seq(Nat), NEW n, NEW fr,
           Queued(q, n, fr), Delivered(s, n, fr), Ordered(s, fr), Waits(s, q, fr)
    PROVE  /\ Delivered(s \o q, n, fr)
           /\ Ordered(s \o q, fr)
           /\ Waits(s \o q, q, fr)
<1> DEFINE t == s \o q
           len == Len(s)
<1>1. /\ Len(q) \in Nat /\ \A i \in 1..Len(q) : q[i] \in Nat
      /\ len \in Nat /\ \A i \in 1..len : s[i] \in Nat
  BY SeqOfNat
<1>2. /\ Len(t) = len + Len(q)
      /\ \A i \in 1..len + Len(q) : t[i] = IF i <= len THEN s[i] ELSE q[i - len]
  BY ConcatProperties
<1> HIDE DEF t, len
<1>3. \A i \in 1..len : t[i] = s[i]
  BY <1>1, <1>2
<1>4. ASSUME NEW j \in 1..Len(q) PROVE t[len + j] = q[j]
  <2>1. len + j \in 1..len + Len(q) /\ ~(len + j <= len) /\ (len + j) - len = j
    BY <1>1
  <2> QED
    BY <1>2, <2>1
<1>5. ASSUME NEW i \in 1..Len(t), i \notin 1..len
      PROVE  i - len \in 1..Len(q) /\ t[i] = q[i - len]
  BY <1>1, <1>2, <1>5
<1>6. Delivered(t, n, fr)
  <2> SUFFICES ASSUME NEW i \in 1..Len(t) PROVE t[i] \in 1..Len(fr) /\ fr[t[i]].name = n
    BY DEF Delivered
  <2>1. CASE i \in 1..len
    BY <1>3, <2>1 DEF Delivered, len
  <2>2. CASE i \notin 1..len
    BY <1>5, <2>2 DEF Queued
  <2> QED
    BY <2>1, <2>2
<1>7. Ordered(t, fr)
  <2> SUFFICES ASSUME NEW i \in 1..Len(t), NEW j \in 1..Len(t), i < j, t[j] < t[i],
                      fr[t[i]].queued, fr[t[j]].queued
               PROVE  \E k \in 1..i : t[k] = t[j]
    BY DEF Ordered
  <2>0. i \in Nat /\ j \in Nat
    BY <1>1, <1>2, <1>3, <1>4, <1>5
  <2>1. CASE i \in 1..len /\ j \in 1..len
    <3>1. t[i] = s[i] /\ t[j] = s[j]
      BY <1>1, <1>2, <1>3, <1>4, <1>5, <2>1
    <3>2. PICK k \in 1..i : s[k] = s[j]
      BY <2>1, <3>1 DEF Ordered, len
    <3>3. t[k] = s[k]
      BY <1>1, <1>2, <1>3, <1>4, <1>5, <2>1
    <3> QED
      BY <3>1, <3>2, <3>3
  <2>2. CASE i \in 1..len /\ j \notin 1..len
    <3>1. t[i] = s[i] /\ j - len \in 1..Len(q) /\ t[j] = q[j - len]
      BY <1>1, <1>2, <1>3, <1>4, <1>5, <2>2
    <3>2. PICK k \in 1..i : s[k] = q[j - len]
      BY <2>2, <3>1 DEF Waits, len
    <3>3. t[k] = s[k]
      BY <1>1, <1>2, <1>3, <1>4, <1>5, <2>2
    <3> QED
      BY <3>1, <3>2, <3>3
  <2>3. CASE i \notin 1..len
    <3>1. /\ i - len \in 1..Len(q) /\ t[i] = q[i - len]
          /\ j - len \in 1..Len(q) /\ t[j] = q[j - len]
      BY <1>1, <1>2, <1>3, <1>4, <1>5, <2>0, <2>3
    <3>2. i - len < j - len
      BY <1>1, <1>2, <2>0
    <3>3. q[i - len] < q[j - len]
      BY <3>1, <3>2 DEF Queued
    <3>4. q[i - len] \in Nat /\ q[j - len] \in Nat
      BY <1>1, <1>2, <3>1
    <3> QED
      BY <3>1, <3>3, <3>4
  <2> QED
    BY <2>1, <2>2, <2>3
<1>8. Waits(t, q, fr)
  <2> SUFFICES ASSUME NEW i \in 1..Len(t), NEW j \in 1..Len(q), fr[t[i]].queued, q[j] < t[i]
               PROVE  \E k \in 1..i : t[k] = q[j]
    BY DEF Waits
  <2>0. i \in Nat /\ j \in Nat /\ len + j \in Nat
    BY <1>1, <1>2, <1>3, <1>4, <1>5
  <2>1. CASE i \in 1..len
    <3>1. t[i] = s[i]
      BY <1>1, <1>2, <1>3, <1>4, <1>5, <2>1
    <3>2. PICK k \in 1..i : s[k] = q[j]
      BY <2>1, <3>1 DEF Waits, len
    <3>3. t[k] = s[k]
      BY <1>1, <1>2, <1>3, <1>4, <1>5, <2>1
    <3> QED
      BY <3>1, <3>2, <3>3
  <2>2. CASE i \notin 1..len
    <3>1. i - len \in 1..Len(q) /\ t[i] = q[i - len]
      BY <1>1, <1>2, <1>3, <1>4, <1>5, <2>2
    <3>2. q[i - len] \in Nat /\ q[j] \in Nat
      BY <1>1, <1>2, <3>1
    <3>3. ~(i - len < j) /\ i - len # j => j < i - len
      BY <1>1, <1>2, <2>0
    <3>4. i - len < j => q[i - len] < q[j]
      BY <3>1 DEF Queued
    <3>5. len + j \in 1..i
      BY <1>1, <1>2, <2>0, <3>1, <3>2, <3>3, <3>4
    <3>6. t[len + j] = q[j]
      BY <1>1, <1>2, <1>3, <1>4, <1>5
    <3> QED
      BY <3>5, <3>6
  <2> QED
    BY <2>1, <2>2
<1> QED
  BY <1>6, <1>7, <1>8 DEF t

-------------------------------------------------------------------------------
(* The inductive invariant.                                                *)

InOrder ==
    /\ \A n \in Name : Queued(oQueue[n], n, oFrames)
    /\ \A c \in Conn : Delivered(oSent[c], oPlayer[c], oFrames) /\ Ordered(oSent[c], oFrames)
    /\ \A c \in Conn, n \in Name : oPlayer[c] = n => Waits(oSent[c], oQueue[n], oFrames)

FramesInv == Optimizer!TypeOK /\ Aimed /\ InOrder /\ FramesNothingLost

LEMMA OrderedIsFirst == FramesFirstInOrder <=> \A c \in Conn : Ordered(oSent[c], oFrames)
BY DEF FramesFirstInOrder, Optimizer!FirstInOrder, Ordered

\* What the sequences of the type invariant are.
LEMMA FramesTypes ==
    ASSUME Optimizer!TypeOK
    PROVE  /\ Len(oFrames) \in Nat /\ Len(oFrames) <= MaxFrames
           /\ \A i \in 1..Len(oFrames) :
                 oFrames[i] \in [name : Name, queued : BOOLEAN]
           /\ \A n \in Name : oQueue[n] \in Seq(Optimizer!Frame) /\ oQueue[n] \in Seq(Nat)
           /\ \A c \in Conn : oSent[c] \in Seq(Optimizer!Frame) /\ oSent[c] \in Seq(Nat)
           /\ oFrames \in Seq([name : Name, queued : BOOLEAN])
           /\ oPlayer \in [Conn -> Name \cup {Nobody}]
           /\ oQueue \in [Name -> Seq(Optimizer!Frame)]
           /\ oSent \in [Conn -> Seq(Optimizer!Frame)]
<1>1. Optimizer!Frame \subseteq Nat
  BY FramesBounds DEF Optimizer!Frame
<1>2. /\ oFrames \in Seq([name : Name, queued : BOOLEAN]) /\ Len(oFrames) <= MaxFrames
      /\ oPlayer \in [Conn -> Name \cup {Nobody}]
      /\ oQueue \in [Name -> Seq(Optimizer!Frame)]
      /\ oSent \in [Conn -> Seq(Optimizer!Frame)]
  BY DEF Optimizer!TypeOK
<1>3. /\ Len(oFrames) \in Nat
      /\ \A i \in 1..Len(oFrames) : oFrames[i] \in [name : Name, queued : BOOLEAN]
  BY <1>2, ElementOfSeq, LenProperties
<1>4. Seq(Optimizer!Frame) \subseteq Seq(Nat)
  BY <1>1, SeqMonotonic
<1> QED
  BY <1>2, <1>3, <1>4

LEMMA FramesInit == Optimizer!Init => FramesInv
<1> SUFFICES ASSUME Optimizer!Init PROVE FramesInv
  OBVIOUS
<1>1. Optimizer!TypeOK
  <2>1. oRunning \in BOOLEAN
    BY Zenon DEF Optimizer!Init
  <2>2. /\ oPlayer \in [Conn -> Name \cup {Nobody}] /\ oOnline \subseteq Conn
        /\ oKeys \subseteq Name /\ oQueue \in [Name -> Seq(Optimizer!Frame)]
        /\ \A n \in Name \ oKeys : oQueue[n] = <<>>
        /\ oSent \in [Conn -> Seq(Optimizer!Frame)]
    BY DEF Optimizer!Init
  <2>3. /\ oPc \in [Optimizer!Task -> {"idle", "flush", "drain", "ended"}]
        /\ oTodo \in [Optimizer!Task -> SUBSET Name]
        /\ oTarget \in [Optimizer!Task ->
                          [name : Name \cup {Nobody}, conn : Conn \cup {Nobody}]]
        /\ \A f \in Optimizer!Task : oPc[f] = "drain" <=> oTarget[f] # Optimizer!Nowhere
    BY DEF Optimizer!Init, Optimizer!Nowhere
  <2>4. /\ oFrames \in Seq([name : Name, queued : BOOLEAN]) /\ Len(oFrames) <= MaxFrames
        /\ oDropped \subseteq Optimizer!Frame /\ oDelayed \subseteq Name
        /\ oJoins \in 0..MaxJoins
    BY FramesBounds DEF Optimizer!Init
  <2> QED
    BY <2>1, <2>2, <2>3, <2>4 DEF Optimizer!TypeOK
<1>2. /\ \A c \in Conn : oSent[c] = <<>>
      /\ \A n \in Name : oQueue[n] = <<>>
      /\ \A f \in Optimizer!Task : oTarget[f] = Optimizer!Nowhere
      /\ oFrames = <<>>
  BY DEF Optimizer!Init
<1>3. Aimed /\ InOrder
  BY <1>2 DEF Aimed, InOrder, Queued, Delivered, Ordered, Waits
<1>4. FramesNothingLost
  BY <1>2 DEF FramesNothingLost, Optimizer!NothingLost
<1> QED
  BY <1>1, <1>3, <1>4 DEF FramesInv

-------------------------------------------------------------------------------
(* The order of frames.                                                    *)

\* A step that leaves queues, what was sent, players and frames alone.
LEMMA OrderStays ==
    ASSUME InOrder, UNCHANGED <<oQueue, oSent, oPlayer, oFrames>>
    PROVE  InOrder'
BY DEF InOrder

\* A login: the connection was sent nothing before.
LEMMA OrderJoin ==
    \A c \in Conn, n \in Name :
        Optimizer!TypeOK /\ InOrder /\ Optimizer!Join(c, n) => InOrder'
<1> SUFFICES ASSUME NEW c \in Conn, NEW n \in Name, Optimizer!TypeOK, InOrder,
                    Optimizer!Join(c, n)
             PROVE  InOrder'
  OBVIOUS
<1>1. UNCHANGED <<oQueue, oSent, oFrames>> /\ oPlayer' = [oPlayer EXCEPT ![c] = n]
  BY DEF Optimizer!Join, Optimizer!queues, Optimizer!history
<1>2. oPlayer[c] = Nobody
  BY DEF Optimizer!Join
<1>3. 1..Len(oSent[c]) = {}
  <2>1. \A i \in 1..Len(oSent[c]) :
           oFrames[oSent[c][i]].name = Nobody /\ oFrames[oSent[c][i]].name \in Name
    BY <1>2, FramesTypes DEF InOrder, Delivered
  <2> QED
    BY <2>1, FramesBounds
<1>4. \A d \in Conn : d # c => oPlayer'[d] = oPlayer[d]
  BY <1>1, FramesTypes
<1>5. \A d \in Conn : Delivered(oSent[d], oPlayer'[d], oFrames)
  BY <1>3, <1>4 DEF InOrder, Delivered
<1>6. \A d \in Conn, m \in Name : oPlayer'[d] = m => Waits(oSent[d], oQueue[m], oFrames)
  BY <1>3, <1>4 DEF InOrder, Waits
<1> QED
  BY <1>1, <1>5, <1>6 DEF InOrder

\* A queue is emptied.
LEMMA OrderEmptied ==
    ASSUME Optimizer!TypeOK, InOrder, NEW n \in Name, oQueue' = [oQueue EXCEPT ![n] = <<>>],
           UNCHANGED <<oSent, oPlayer, oFrames>>
    PROVE  InOrder'
<1>1. \A m \in Name : oQueue'[m] = IF m = n THEN <<>> ELSE oQueue[m]
  BY FramesTypes
<1>2. /\ \A m, fr : Queued(<<>>, m, fr)
      /\ \A s, fr : Waits(s, <<>>, fr)
  BY DEF Queued, Waits
<1> QED
  BY <1>1, <1>2 DEF InOrder

\* One more frame is handed over, and is the newest.
LEMMA NewFrame ==
    ASSUME Optimizer!TypeOK, NEW n \in Name, NEW q \in BOOLEAN,
           oFrames' = Append(oFrames, [name |-> n, queued |-> q])
    PROVE  /\ Longer(oFrames, oFrames')
           /\ oFrames'[Len(oFrames) + 1] = [name |-> n, queued |-> q]
<1>1. [name |-> n, queued |-> q] \in [name : Name, queued : BOOLEAN]
  OBVIOUS
<1> QED
  BY <1>1, FramesTypes, AppendLists DEF Longer

LEMMA OrderQueue ==
    \A c \in Conn : Optimizer!TypeOK /\ InOrder /\ Optimizer!Queue(c) => InOrder'
<1> SUFFICES ASSUME NEW c \in Conn, Optimizer!TypeOK, InOrder, Optimizer!Queue(c)
             PROVE  InOrder'
  OBVIOUS
<1> DEFINE n == oPlayer[c]
           top == Len(oFrames) + 1
<1>1. n \in Name
  BY FramesTypes DEF Optimizer!Queue
<1>2. /\ oQueue' = [oQueue EXCEPT ![n] = Append(@, top)]
      /\ UNCHANGED <<oSent, oPlayer>>
      /\ oFrames' = Append(oFrames, [name |-> n, queued |-> TRUE])
  BY DEF Optimizer!Queue, Optimizer!Handed, Optimizer!players
<1> HIDE DEF n
<1>3. Longer(oFrames, oFrames') /\ oFrames'[top].name = n
  <2>1. Longer(oFrames, oFrames') /\ oFrames'[top] = [name |-> n, queued |-> TRUE]
    BY <1>1, <1>2, NewFrame
  <2> QED
    BY <2>1
<1>4. /\ oQueue'[n] = Append(oQueue[n], top)
      /\ \A m \in Name : m # n => oQueue'[m] = oQueue[m]
  BY <1>1, <1>2, FramesTypes
<1>5. /\ \A m \in Name : oQueue[m] \in Seq(Nat)
      /\ \A d \in Conn : oSent[d] \in Seq(Nat)
  BY FramesTypes
<1> HIDE DEF top
<1>6. ASSUME NEW m \in Name PROVE Queued(oQueue'[m], m, oFrames')
  <2>1. CASE m # n
    BY <1>3, <1>4, <1>5, <2>1, LongerKeeps DEF InOrder
  <2>2. CASE m = n
    <3>1. Queued(oQueue[n], n, oFrames) /\ Delivered(<<>>, n, oFrames) /\ Waits(<<>>, oQueue[n], oFrames)
      BY <1>1 DEF InOrder, Delivered, Waits
    <3>2. <<>> \in Seq(Nat) /\ oQueue[n] \in Seq(Nat)
      BY <1>1, <1>5
    <3>3. Queued(Append(oQueue[n], top), n, oFrames')
      BY <1>3, <3>1, <3>2, NewQueued DEF top
    <3> QED
      BY <1>4, <2>2, <3>3
  <2> QED
    BY <2>1, <2>2
<1>7. ASSUME NEW d \in Conn
      PROVE  Delivered(oSent[d], oPlayer[d], oFrames') /\ Ordered(oSent[d], oFrames')
  BY <1>3, <1>5, LongerKeeps DEF InOrder
<1>8. ASSUME NEW d \in Conn, NEW m \in Name, oPlayer[d] = m
      PROVE  Waits(oSent[d], oQueue'[m], oFrames')
  <2>1. Delivered(oSent[d], m, oFrames) /\ Waits(oSent[d], oQueue[m], oFrames) /\ Queued(oQueue[m], m, oFrames)
    BY <1>8 DEF InOrder
  <2>2. CASE m # n
    BY <1>3, <1>4, <1>5, <2>1, <2>2, LongerKeeps
  <2>3. CASE m = n
    <3>1. oSent[d] \in Seq(Nat) /\ oQueue[n] \in Seq(Nat)
      BY <1>1, <1>5
    <3>2. Waits(oSent[d], Append(oQueue[n], top), oFrames')
      BY <1>3, <2>1, <2>3, <3>1, NewQueued DEF top
    <3> QED
      BY <1>4, <2>3, <3>2
  <2> QED
    BY <2>2, <2>3
<1> QED
  BY <1>2, <1>6, <1>7, <1>8 DEF InOrder

LEMMA OrderSendDirect ==
    \A c \in Conn : Optimizer!TypeOK /\ InOrder /\ Optimizer!SendDirect(c) => InOrder'
<1> SUFFICES ASSUME NEW c \in Conn, Optimizer!TypeOK, InOrder, Optimizer!SendDirect(c)
             PROVE  InOrder'
  OBVIOUS
<1> DEFINE n == oPlayer[c]
           top == Len(oFrames) + 1
<1>1. n \in Name
  BY FramesTypes DEF Optimizer!SendDirect
<1>2. /\ UNCHANGED <<oQueue, oPlayer>>
      /\ oFrames' = Append(oFrames, [name |-> n, queued |-> FALSE])
      /\ oSent' = [oSent EXCEPT ![c] = Append(@, top)] \/ UNCHANGED oSent
  BY DEF Optimizer!SendDirect, Optimizer!Handed, Optimizer!players
<1> HIDE DEF n
<1>3. Longer(oFrames, oFrames') /\ oFrames'[top].name = n /\ ~oFrames'[top].queued
  <2>1. Longer(oFrames, oFrames') /\ oFrames'[top] = [name |-> n, queued |-> FALSE]
    BY <1>1, <1>2, NewFrame
  <2> QED
    BY <2>1
<1>4. \A d \in Conn : oSent'[d] = oSent[d] \/ (d = c /\ oSent'[d] = Append(oSent[d], top))
  BY <1>2, FramesTypes
<1>5. /\ \A m \in Name : oQueue[m] \in Seq(Nat)
      /\ \A d \in Conn : oSent[d] \in Seq(Nat)
  BY FramesTypes
<1> HIDE DEF top
<1>6. ASSUME NEW m \in Name PROVE Queued(oQueue[m], m, oFrames')
  BY <1>3, <1>5, LongerKeeps DEF InOrder
<1>7. ASSUME NEW d \in Conn
      PROVE  Delivered(oSent'[d], oPlayer[d], oFrames') /\ Ordered(oSent'[d], oFrames')
  <2>1. CASE oSent'[d] = oSent[d]
    BY <1>3, <1>5, <2>1, LongerKeeps DEF InOrder
  <2>2. CASE d = c /\ oSent'[d] = Append(oSent[d], top)
    <3>1. Delivered(oSent[c], n, oFrames) /\ Ordered(oSent[c], oFrames) /\ Waits(oSent[c], oQueue[n], oFrames)
      BY <1>1 DEF InOrder, n
    <3>2. Delivered(Append(oSent[c], top), n, oFrames') /\ Ordered(Append(oSent[c], top), oFrames')
      BY <1>1, <1>3, <1>5, <3>1, NewSent DEF top
    <3> QED
      BY <2>2, <3>2 DEF n
  <2> QED
    BY <1>4, <2>1, <2>2
<1>8. ASSUME NEW d \in Conn, NEW m \in Name, oPlayer[d] = m
      PROVE  Waits(oSent'[d], oQueue[m], oFrames')
  <2>1. Delivered(oSent[d], m, oFrames) /\ Ordered(oSent[d], oFrames) /\ Waits(oSent[d], oQueue[m], oFrames)
    BY <1>8 DEF InOrder
  <2>2. CASE oSent'[d] = oSent[d]
    BY <1>3, <1>5, <2>1, <2>2, LongerKeeps
  <2>3. CASE d = c /\ oSent'[d] = Append(oSent[d], top)
    <3>1. m = n
      BY <1>8, <2>3 DEF n
    <3> QED
      BY <1>3, <1>5, <2>1, <2>3, <3>1, NewSent DEF top
  <2> QED
    BY <1>4, <2>2, <2>3
<1> QED
  BY <1>2, <1>6, <1>7, <1>8 DEF InOrder

\* A queue is written, and then emptied or left as it is until drain() ends.
LEMMA OrderWrite ==
    ASSUME Optimizer!TypeOK, InOrder, NEW c \in Conn, NEW n \in Name, oPlayer[c] = n,
           oSent' = [oSent EXCEPT ![c] = @ \o oQueue[n]],
           UNCHANGED oQueue \/ oQueue' = [oQueue EXCEPT ![n] = <<>>],
           UNCHANGED <<oPlayer, oFrames>>
    PROVE  InOrder'
<1>1. oSent'[c] = oSent[c] \o oQueue[n] /\ \A d \in Conn : d # c => oSent'[d] = oSent[d]
  BY FramesTypes
<1>2. \A m \in Name : oQueue'[m] = oQueue[m] \/ oQueue'[m] = <<>>
  BY FramesTypes
<1>3. /\ Queued(oQueue[n], n, oFrames) /\ Delivered(oSent[c], n, oFrames)
      /\ Ordered(oSent[c], oFrames) /\ Waits(oSent[c], oQueue[n], oFrames)
  BY DEF InOrder
<1>4. /\ Delivered(oSent'[c], n, oFrames) /\ Ordered(oSent'[c], oFrames)
      /\ Waits(oSent'[c], oQueue[n], oFrames)
  <2>1. oSent[c] \in Seq(Nat) /\ oQueue[n] \in Seq(Nat)
    BY FramesTypes
  <2> QED
    BY <1>1, <1>3, <2>1, WriteQueue
<1>5. /\ \A m, fr : Queued(<<>>, m, fr)
      /\ \A s, fr : Waits(s, <<>>, fr)
  BY DEF Queued, Waits
<1>6. ASSUME NEW d \in Conn
      PROVE  Delivered(oSent'[d], oPlayer[d], oFrames) /\ Ordered(oSent'[d], oFrames)
  BY <1>1, <1>4 DEF InOrder
<1>7. ASSUME NEW d \in Conn, NEW m \in Name, oPlayer[d] = m
      PROVE  Waits(oSent'[d], oQueue[m], oFrames)
  BY <1>1, <1>4, <1>7 DEF InOrder
<1> QED
  BY <1>2, <1>5, <1>6, <1>7 DEF InOrder

LEMMA OrderNext ==
    Optimizer!TypeOK /\ Aimed /\ InOrder /\ [Optimizer!Next]_(Optimizer!vars) => InOrder'
<1> SUFFICES ASSUME Optimizer!TypeOK, Aimed, InOrder, [Optimizer!Next]_(Optimizer!vars)
             PROVE  InOrder'
  OBVIOUS
<1>1. CASE UNCHANGED Optimizer!vars
  BY <1>1, OrderStays DEF Optimizer!vars, Optimizer!players, Optimizer!queues, Optimizer!history
<1>2. CASE Optimizer!Stop
  BY <1>2, OrderStays
  DEF Optimizer!Stop, Optimizer!players, Optimizer!queues, Optimizer!history
<1>3. ASSUME NEW c \in Conn, Optimizer!Quit(c) PROVE InOrder'
  BY <1>3, OrderStays DEF Optimizer!Quit, Optimizer!queues, Optimizer!history
<1>4. ASSUME NEW f \in Optimizer!Task, Optimizer!StartFlush(f) \/ Optimizer!FlushDone(f)
      PROVE  InOrder'
  BY <1>4, OrderStays DEF Optimizer!StartFlush, Optimizer!FlushDone, Optimizer!players,
                          Optimizer!queues, Optimizer!history
<1>5. ASSUME NEW f \in Optimizer!Task, Optimizer!Drained(f) PROVE InOrder'
  <2>1. oTarget[f].name \in Name
    BY <1>5 DEF Optimizer!Drained, Optimizer!TypeOK, Aimed
  <2> QED
    BY <1>5, <2>1, OrderEmptied
    DEF Optimizer!Drained, Optimizer!Clear, Optimizer!players, Optimizer!history
<1>6. ASSUME NEW f \in Optimizer!Task, NEW n \in Name, Optimizer!FlushSkip(f, n) PROVE InOrder'
  BY <1>6, OrderStays
  DEF Optimizer!FlushSkip, Optimizer!players, Optimizer!queues, Optimizer!history
<1>7. ASSUME NEW f \in Optimizer!Task, NEW n \in Name, Optimizer!FlushGone(f, n) PROVE InOrder'
  BY <1>7, OrderEmptied DEF Optimizer!FlushGone, Optimizer!players, Optimizer!history
<1>8. ASSUME NEW f \in Optimizer!Task, NEW n \in Name, NEW c \in Conn,
             Optimizer!FlushFails(f, n, c)
      PROVE  InOrder'
  BY <1>8, OrderEmptied DEF Optimizer!FlushFails, Optimizer!Clear, Optimizer!history
<1>9. ASSUME NEW f \in Optimizer!Task, NEW n \in Name, NEW c \in Conn,
             Optimizer!FlushSend(f, n, c) \/ Optimizer!FlushSendSlow(f, n, c)
      PROVE  InOrder'
  BY <1>9, OrderWrite
  DEF Optimizer!FlushSend, Optimizer!FlushSendSlow, Optimizer!Lookup, Optimizer!Batch,
      Optimizer!Clear, Optimizer!players, Optimizer!queues, Optimizer!history
<1> QED
  BY <1>1, <1>2, <1>3, <1>4, <1>5, <1>6, <1>7, <1>8, <1>9,
     OrderJoin, OrderQueue, OrderSendDirect DEF Optimizer!Next, Optimizer!Flush

-------------------------------------------------------------------------------
(* Types, and who waits for whom.                                          *)

LEMMA FramesTypesNext ==
    Optimizer!TypeOK /\ Aimed /\ [Optimizer!Next]_(Optimizer!vars)
    => Optimizer!TypeOK' /\ Aimed'
<1> SUFFICES ASSUME Optimizer!TypeOK, Aimed, [Optimizer!Next]_(Optimizer!vars)
             PROVE  Optimizer!TypeOK' /\ Aimed'
  OBVIOUS
<1> USE DEF Optimizer!players, Optimizer!queues, Optimizer!tasks, Optimizer!history
<1>1. CASE UNCHANGED Optimizer!vars
  BY <1>1 DEF Optimizer!vars, Optimizer!TypeOK, Aimed
<1>2. CASE Optimizer!Stop
  <2>1. oRunning' \in BOOLEAN
    BY <1>2, Zenon DEF Optimizer!Stop
  <2>2. /\ oPc' \in [Optimizer!Task -> {"idle", "flush", "drain", "ended"}]
        /\ oTodo' \in [Optimizer!Task -> SUBSET Name]
        /\ oTarget' \in [Optimizer!Task ->
                           [name : Name \cup {Nobody}, conn : Conn \cup {Nobody}]]
        /\ \A f \in Optimizer!Task : oPc'[f] = "drain" <=> oTarget'[f] # Optimizer!Nowhere
        /\ \A f \in Optimizer!Task :
              oTarget'[f] = oTarget[f] \/ oTarget'[f] = Optimizer!Nowhere
    BY <1>2 DEF Optimizer!Stop, Optimizer!TypeOK, Optimizer!Task, Optimizer!Nowhere
  <2>3. UNCHANGED <<oPlayer, oOnline, oJoins, oKeys, oQueue, oDropped, oSent, oFrames, oDelayed>>
    BY <1>2 DEF Optimizer!Stop
  <2> QED
    BY <2>1, <2>2, <2>3 DEF Optimizer!TypeOK, Aimed
<1>3. ASSUME NEW c \in Conn, Optimizer!Quit(c) PROVE Optimizer!TypeOK' /\ Aimed'
  BY <1>3 DEF Optimizer!Quit, Optimizer!TypeOK, Aimed
<1>4. ASSUME NEW c \in Conn, NEW n \in Name, Optimizer!Join(c, n)
      PROVE  Optimizer!TypeOK' /\ Aimed'
  BY <1>4, FramesBounds DEF Optimizer!Join, Optimizer!TypeOK, Aimed
\* What a frame that is handed over does to the types.
<1>5. ASSUME NEW c \in Conn, Optimizer!Queue(c) PROVE Optimizer!TypeOK' /\ Aimed'
  <2>1. oPlayer[c] \in Name /\ Len(oFrames) \in Nat /\ Len(oFrames) + 1 \in Optimizer!Frame
    BY <1>5, FramesTypes, FramesBounds DEF Optimizer!Queue, Optimizer!Frame
  <2>2. oFrames' \in Seq([name : Name, queued : BOOLEAN]) /\ Len(oFrames') <= MaxFrames
    BY <1>5, <2>1, FramesTypes, FramesBounds, AppendProperties
    DEF Optimizer!Queue, Optimizer!Handed
  <2>3. oQueue' \in [Name -> Seq(Optimizer!Frame)]
    BY <1>5, <2>1, FramesTypes DEF Optimizer!Queue
  <2>4. oKeys' \subseteq Name /\ \A n \in Name \ oKeys' : oQueue'[n] = <<>>
    BY <1>5, <2>1, FramesTypes DEF Optimizer!Queue, Optimizer!TypeOK
  <2>5. UNCHANGED <<oRunning, oPlayer, oOnline, oJoins, oSent, oPc, oTodo, oTarget,
                    oDropped, oDelayed>>
    BY <1>5 DEF Optimizer!Queue
  <2> QED
    BY <2>2, <2>3, <2>4, <2>5 DEF Optimizer!TypeOK, Aimed
<1>6. ASSUME NEW c \in Conn, Optimizer!SendDirect(c) PROVE Optimizer!TypeOK' /\ Aimed'
  <2>1. oPlayer[c] \in Name /\ Len(oFrames) \in Nat /\ Len(oFrames) + 1 \in Optimizer!Frame
    BY <1>6, FramesTypes, FramesBounds DEF Optimizer!SendDirect, Optimizer!Frame
  <2>2. oFrames' \in Seq([name : Name, queued : BOOLEAN]) /\ Len(oFrames') <= MaxFrames
    BY <1>6, <2>1, FramesTypes, FramesBounds, AppendProperties
    DEF Optimizer!SendDirect, Optimizer!Handed
  <2>3. oSent' \in [Conn -> Seq(Optimizer!Frame)]
    <3>1. Append(oSent[c], Len(oFrames) + 1) \in Seq(Optimizer!Frame)
      BY <2>1, FramesTypes, AppendLists
    <3> QED
      BY <1>6, <3>1, FramesTypes DEF Optimizer!SendDirect
  <2>4. oDropped' \subseteq Optimizer!Frame
    BY <1>6, <2>1 DEF Optimizer!SendDirect, Optimizer!TypeOK
  <2>5. UNCHANGED <<oRunning, oPlayer, oOnline, oJoins, oKeys, oQueue, oPc, oTodo, oTarget,
                    oDelayed>>
    BY <1>6 DEF Optimizer!SendDirect
  <2> QED
    BY <2>2, <2>3, <2>4, <2>5 DEF Optimizer!TypeOK, Aimed
<1>7. ASSUME NEW f \in Optimizer!Task, Optimizer!StartFlush(f) PROVE Optimizer!TypeOK' /\ Aimed'
  BY <1>7 DEF Optimizer!StartFlush, Optimizer!TypeOK, Aimed
<1>8. ASSUME NEW f \in Optimizer!Task, Optimizer!FlushDone(f) PROVE Optimizer!TypeOK' /\ Aimed'
  BY <1>8 DEF Optimizer!FlushDone, Optimizer!TypeOK, Aimed
<1>9. ASSUME NEW f \in Optimizer!Task, NEW n \in Name, Optimizer!FlushSkip(f, n)
      PROVE  Optimizer!TypeOK' /\ Aimed'
  BY <1>9 DEF Optimizer!FlushSkip, Optimizer!TypeOK, Aimed
<1>10. ASSUME NEW n \in Name,
              oQueue' = [oQueue EXCEPT ![n] = <<>>],
              oKeys' = oKeys \ {n} \/ oKeys' = oKeys \cup {n}
       PROVE  /\ oQueue' \in [Name -> Seq(Optimizer!Frame)]
              /\ oKeys' \subseteq Name /\ \A m \in Name \ oKeys' : oQueue'[m] = <<>>
  <2>1. <<>> \in Seq(Optimizer!Frame)
    OBVIOUS
  <2> QED
    BY <1>10, <2>1 DEF Optimizer!TypeOK
<1>11. \A n \in Name : Optimizer!Range(oQueue[n]) \subseteq Optimizer!Frame
  BY FramesTypes, ElementOfSeq, LenProperties DEF Optimizer!Range
<1>12. ASSUME NEW f \in Optimizer!Task, NEW n \in Name, Optimizer!FlushGone(f, n)
       PROVE  Optimizer!TypeOK' /\ Aimed'
  <2>1. /\ oQueue' \in [Name -> Seq(Optimizer!Frame)]
        /\ oKeys' \subseteq Name /\ \A m \in Name \ oKeys' : oQueue'[m] = <<>>
    BY <1>10, <1>12 DEF Optimizer!FlushGone
  <2>2. oDropped' \subseteq Optimizer!Frame /\ oTodo' \in [Optimizer!Task -> SUBSET Name]
    BY <1>11, <1>12 DEF Optimizer!FlushGone, Optimizer!TypeOK
  <2>3. UNCHANGED <<oRunning, oPlayer, oOnline, oJoins, oSent, oPc, oTarget, oFrames, oDelayed>>
    BY <1>12 DEF Optimizer!FlushGone
  <2> QED
    BY <2>1, <2>2, <2>3 DEF Optimizer!TypeOK, Aimed
<1>13. ASSUME NEW f \in Optimizer!Task, NEW n \in Name, NEW c \in Conn,
              Optimizer!FlushFails(f, n, c)
       PROVE  Optimizer!TypeOK' /\ Aimed'
  <2>1. /\ oQueue' \in [Name -> Seq(Optimizer!Frame)]
        /\ oKeys' \subseteq Name /\ \A m \in Name \ oKeys' : oQueue'[m] = <<>>
    BY <1>10, <1>13 DEF Optimizer!FlushFails, Optimizer!Clear
  <2>2. /\ oDropped' \subseteq Optimizer!Frame /\ oTodo' \in [Optimizer!Task -> SUBSET Name]
        /\ oOnline' \subseteq Conn
    BY <1>11, <1>13 DEF Optimizer!FlushFails, Optimizer!TypeOK
  <2>3. UNCHANGED <<oRunning, oPlayer, oJoins, oSent, oPc, oTarget, oFrames, oDelayed>>
    BY <1>13 DEF Optimizer!FlushFails
  <2> QED
    BY <2>1, <2>2, <2>3 DEF Optimizer!TypeOK, Aimed
<1>14. ASSUME NEW n \in Name, NEW c \in Conn, oSent' = [oSent EXCEPT ![c] = @ \o oQueue[n]]
       PROVE  oSent' \in [Conn -> Seq(Optimizer!Frame)]
  <2>1. oSent[c] \o oQueue[n] \in Seq(Optimizer!Frame)
    BY FramesTypes, ConcatProperties
  <2> QED
    BY <1>14, <2>1, FramesTypes
<1>15. ASSUME NEW f \in Optimizer!Task, NEW n \in Name, NEW c \in Conn,
              Optimizer!FlushSend(f, n, c)
       PROVE  Optimizer!TypeOK' /\ Aimed'
  <2>1. /\ oQueue' \in [Name -> Seq(Optimizer!Frame)]
        /\ oKeys' \subseteq Name /\ \A m \in Name \ oKeys' : oQueue'[m] = <<>>
    BY <1>10, <1>15 DEF Optimizer!FlushSend, Optimizer!Clear
  <2>2. oSent' \in [Conn -> Seq(Optimizer!Frame)]
    BY <1>14, <1>15 DEF Optimizer!FlushSend, Optimizer!Batch
  <2>3. oTodo' \in [Optimizer!Task -> SUBSET Name]
    BY <1>15 DEF Optimizer!FlushSend, Optimizer!TypeOK
  <2>4. UNCHANGED <<oRunning, oPlayer, oOnline, oJoins, oPc, oTarget, oFrames, oDelayed, oDropped>>
    BY <1>15 DEF Optimizer!FlushSend
  <2> QED
    BY <2>1, <2>2, <2>3, <2>4 DEF Optimizer!TypeOK, Aimed
<1>16. ASSUME NEW f \in Optimizer!Task, NEW n \in Name, NEW c \in Conn,
              Optimizer!FlushSendSlow(f, n, c)
       PROVE  Optimizer!TypeOK' /\ Aimed'
  <2>1. oSent' \in [Conn -> Seq(Optimizer!Frame)]
    BY <1>14, <1>16 DEF Optimizer!FlushSendSlow, Optimizer!Batch
  <2>2. oTodo' \in [Optimizer!Task -> SUBSET Name] /\ oDelayed' = oDelayed \cup {n}
    BY <1>16 DEF Optimizer!FlushSendSlow, Optimizer!TypeOK
  <2>3. [name |-> n, conn |-> c] # Optimizer!Nowhere
    BY FramesBounds DEF Optimizer!Nowhere
  <2>4. /\ oPc' \in [Optimizer!Task -> {"idle", "flush", "drain", "ended"}]
        /\ oTarget' \in [Optimizer!Task ->
                           [name : Name \cup {Nobody}, conn : Conn \cup {Nobody}]]
        /\ \A g \in Optimizer!Task : oPc'[g] = "drain" <=> oTarget'[g] # Optimizer!Nowhere
        /\ \A g \in Optimizer!Task :
              oTarget'[g] = oTarget[g] \/ oTarget'[g] = [name |-> n, conn |-> c]
    BY <1>16, <2>3 DEF Optimizer!FlushSendSlow, Optimizer!TypeOK
  <2>5. UNCHANGED <<oRunning, oPlayer, oOnline, oJoins, oKeys, oQueue, oFrames, oDropped>>
    BY <1>16 DEF Optimizer!FlushSendSlow
  <2>6. Optimizer!TypeOK'
    BY <2>1, <2>2, <2>4, <2>5 DEF Optimizer!TypeOK
  <2>7. Aimed'
    BY <2>2, <2>4 DEF Aimed
  <2> QED
    BY <2>6, <2>7
<1>17. ASSUME NEW f \in Optimizer!Task, Optimizer!Drained(f) PROVE Optimizer!TypeOK' /\ Aimed'
  <2>1. oTarget[f].name \in Name
    BY <1>17 DEF Optimizer!Drained, Optimizer!TypeOK, Aimed
  <2>2. /\ oQueue' \in [Name -> Seq(Optimizer!Frame)]
        /\ oKeys' \subseteq Name /\ \A m \in Name \ oKeys' : oQueue'[m] = <<>>
    BY <1>10, <1>17, <2>1 DEF Optimizer!Drained, Optimizer!Clear
  <2>3. /\ oPc' \in [Optimizer!Task -> {"idle", "flush", "drain", "ended"}]
        /\ oTarget' \in [Optimizer!Task ->
                           [name : Name \cup {Nobody}, conn : Conn \cup {Nobody}]]
        /\ \A g \in Optimizer!Task : oPc'[g] = "drain" <=> oTarget'[g] # Optimizer!Nowhere
        /\ \A g \in Optimizer!Task :
              oTarget'[g] = oTarget[g] \/ oTarget'[g] = Optimizer!Nowhere
    BY <1>17 DEF Optimizer!Drained, Optimizer!TypeOK, Optimizer!Nowhere
  <2>4. UNCHANGED <<oRunning, oPlayer, oOnline, oJoins, oSent, oTodo, oFrames, oDelayed, oDropped>>
    BY <1>17 DEF Optimizer!Drained
  <2> QED
    BY <2>2, <2>3, <2>4 DEF Optimizer!TypeOK, Aimed
<1> QED
  BY <1>1, <1>2, <1>3, <1>4, <1>5, <1>6, <1>7, <1>8, <1>9, <1>12, <1>13, <1>15, <1>16, <1>17
  DEF Optimizer!Next, Optimizer!Flush

-------------------------------------------------------------------------------
(* No frame is lost without a reason.                                      *)

Accounted(i) ==
    \/ oFrames[i].name \in oDelayed
    \/ \E c \in Conn : Listed(oSent[c], i)
    \/ \E n \in Name : Listed(oQueue[n], i)
    \/ i \in oDropped

LEMMA LostTerms ==
    Optimizer!TypeOK => (FramesNothingLost <=> \A i \in 1..Len(oFrames) : Accounted(i))
<1> SUFFICES ASSUME Optimizer!TypeOK
             PROVE  FramesNothingLost <=> \A i \in 1..Len(oFrames) : Accounted(i)
  OBVIOUS
<1>1. \A c \in Conn : DOMAIN oSent[c] = 1..Len(oSent[c])
  BY FramesTypes, LenProperties
<1>2. \A n \in Name : DOMAIN oQueue[n] = 1..Len(oQueue[n])
  BY FramesTypes, LenProperties
<1>3. \A i : i \in Optimizer!Written <=> \E c \in Conn : Listed(oSent[c], i)
  BY <1>1 DEF Optimizer!Written, Optimizer!Range, Listed
<1>4. \A i : i \in Optimizer!Waiting <=> \E n \in Name : Listed(oQueue[n], i)
  BY <1>2 DEF Optimizer!Waiting, Optimizer!Range, Listed
<1> QED
  BY <1>3, <1>4 DEF FramesNothingLost, Optimizer!NothingLost, Accounted

LEMMA LostTermsNext ==
    Optimizer!TypeOK' => (FramesNothingLost <=> \A i \in 1..Len(oFrames) : Accounted(i))'
BY LostTerms, PTL

\* Nothing is taken back from what was sent, dropped or delayed.
LEMMA LostNext ==
    ASSUME FramesInv, [Optimizer!Next]_(Optimizer!vars),
           NEW i \in 1..Len(oFrames), Accounted(i), oFrames'[i] = oFrames[i]
    PROVE  Accounted(i)'
<1> USE DEF Optimizer!players, Optimizer!queues, Optimizer!tasks, Optimizer!history
<1>1. Optimizer!TypeOK /\ InOrder /\ Aimed
  BY DEF FramesInv
<1>2. CASE UNCHANGED Optimizer!vars
  BY <1>2 DEF Optimizer!vars, Accounted
<1>3. CASE Optimizer!Stop
  BY <1>3 DEF Optimizer!Stop, Accounted
<1>4. ASSUME NEW c \in Conn, Optimizer!Quit(c) PROVE Accounted(i)'
  BY <1>4 DEF Optimizer!Quit, Accounted
<1>5. ASSUME NEW c \in Conn, NEW n \in Name, Optimizer!Join(c, n) PROVE Accounted(i)'
  BY <1>5 DEF Optimizer!Join, Accounted
<1>6. ASSUME NEW f \in Optimizer!Task, Optimizer!StartFlush(f) \/ Optimizer!FlushDone(f)
      PROVE  Accounted(i)'
  BY <1>6 DEF Optimizer!StartFlush, Optimizer!FlushDone, Accounted
<1>7. ASSUME NEW f \in Optimizer!Task, NEW n \in Name, Optimizer!FlushSkip(f, n)
      PROVE  Accounted(i)'
  BY <1>7 DEF Optimizer!FlushSkip, Accounted
<1>8. ASSUME NEW c \in Conn, Optimizer!Queue(c) PROVE Accounted(i)'
  <2>1. /\ oQueue' = [oQueue EXCEPT ![oPlayer[c]] = Append(@, Len(oFrames) + 1)]
        /\ UNCHANGED <<oSent, oDropped, oDelayed>>
    BY <1>8 DEF Optimizer!Queue
  <2>2. ASSUME NEW n \in Name, Listed(oQueue[n], i) PROVE Listed(oQueue'[n], i)
    <3>1. oQueue[n] \in Seq(Nat) /\ Len(oFrames) + 1 \in Nat
      BY <1>1, FramesTypes
    <3>2. oQueue'[n] = oQueue[n] \/ oQueue'[n] = Append(oQueue[n], Len(oFrames) + 1)
      BY <1>1, <2>1, FramesTypes
    <3>3. Listed(Append(oQueue[n], Len(oFrames) + 1), i)
      BY <2>2, <3>1, FrameAdded
    <3> QED
      BY <2>2, <3>2, <3>3
  <2> QED
    BY <2>1, <2>2 DEF Accounted
<1>9. ASSUME NEW c \in Conn, Optimizer!SendDirect(c) PROVE Accounted(i)'
  <2>1. /\ UNCHANGED <<oQueue, oDelayed>> /\ oDropped \subseteq oDropped'
        /\ UNCHANGED oSent \/ oSent' = [oSent EXCEPT ![c] = Append(@, Len(oFrames) + 1)]
    BY <1>9 DEF Optimizer!SendDirect
  <2>2. ASSUME NEW d \in Conn, Listed(oSent[d], i) PROVE Listed(oSent'[d], i)
    <3>1. oSent[d] \in Seq(Nat) /\ Len(oFrames) + 1 \in Nat
      BY <1>1, FramesTypes
    <3>2. oSent'[d] = oSent[d] \/ oSent'[d] = Append(oSent[d], Len(oFrames) + 1)
      BY <1>1, <2>1, FramesTypes
    <3>3. Listed(Append(oSent[d], Len(oFrames) + 1), i)
      BY <2>2, <3>1, FrameAdded
    <3> QED
      BY <2>2, <3>2, <3>3
  <2> QED
    BY <2>1, <2>2 DEF Accounted
<1>10. ASSUME NEW n \in Name, oQueue' = [oQueue EXCEPT ![n] = <<>>],
              NEW m \in Name, Listed(oQueue[m], i)
       PROVE  m = n \/ Listed(oQueue'[m], i)
  BY <1>1, <1>10, FramesTypes
<1>11. ASSUME NEW n \in Name, Listed(oQueue[n], i) PROVE i \in Optimizer!Range(oQueue[n])
  BY <1>1, <1>11, FramesTypes, LenProperties DEF Listed, Optimizer!Range
<1>12. ASSUME NEW f \in Optimizer!Task, NEW n \in Name, Optimizer!FlushGone(f, n)
       PROVE  Accounted(i)'
  BY <1>10, <1>11, <1>12 DEF Optimizer!FlushGone, Accounted
<1>13. ASSUME NEW f \in Optimizer!Task, NEW n \in Name, NEW c \in Conn,
              Optimizer!FlushFails(f, n, c)
       PROVE  Accounted(i)'
  BY <1>10, <1>11, <1>13 DEF Optimizer!FlushFails, Optimizer!Clear, Accounted
<1>14. ASSUME NEW n \in Name, NEW c \in Conn, oSent' = [oSent EXCEPT ![c] = @ \o oQueue[n]]
       PROVE  /\ \A d \in Conn : Listed(oSent[d], i) => Listed(oSent'[d], i)
              /\ Listed(oQueue[n], i) => Listed(oSent'[c], i)
  <2>1. /\ oSent[c] \in Seq(Nat) /\ oQueue[n] \in Seq(Nat)
        /\ oSent'[c] = oSent[c] \o oQueue[n] /\ \A d \in Conn : d # c => oSent'[d] = oSent[d]
    BY <1>1, <1>14, FramesTypes
  <2>2. /\ Listed(oSent[c], i) => Listed(oSent[c] \o oQueue[n], i)
        /\ Listed(oQueue[n], i) => Listed(oSent[c] \o oQueue[n], i)
    BY <2>1, FramesAdded
  <2> QED
    BY <2>1, <2>2
<1>15. ASSUME NEW f \in Optimizer!Task, NEW n \in Name, NEW c \in Conn,
              Optimizer!FlushSend(f, n, c)
       PROVE  Accounted(i)'
  BY <1>10, <1>14, <1>15 DEF Optimizer!FlushSend, Optimizer!Batch, Optimizer!Clear, Accounted
<1>16. ASSUME NEW f \in Optimizer!Task, NEW n \in Name, NEW c \in Conn,
              Optimizer!FlushSendSlow(f, n, c)
       PROVE  Accounted(i)'
  BY <1>14, <1>16 DEF Optimizer!FlushSendSlow, Optimizer!Batch, Accounted
<1>17. ASSUME NEW f \in Optimizer!Task, Optimizer!Drained(f) PROVE Accounted(i)'
  <2>1. oTarget[f].name \in Name /\ oTarget[f].name \in oDelayed
    BY <1>1, <1>17 DEF Optimizer!Drained, Optimizer!TypeOK, Aimed
  <2>2. Listed(oQueue[oTarget[f].name], i) => oFrames[i].name \in oDelayed
    BY <1>1, <2>1 DEF InOrder, Queued, Listed
  <2>3. UNCHANGED <<oSent, oDropped, oDelayed>>
    BY <1>17 DEF Optimizer!Drained
  <2>4. oQueue' = [oQueue EXCEPT ![oTarget[f].name] = <<>>]
    BY <1>17 DEF Optimizer!Drained, Optimizer!Clear
  <2>5. \A m \in Name : Listed(oQueue[m], i) => m = oTarget[f].name \/ Listed(oQueue'[m], i)
    BY <1>10, <2>1, <2>4
  <2> QED
    BY <2>2, <2>3, <2>5 DEF Accounted
<1> QED
  BY <1>2, <1>3, <1>4, <1>5, <1>6, <1>7, <1>8, <1>9, <1>12, <1>13, <1>15, <1>16, <1>17
  DEF Optimizer!Next, Optimizer!Flush

\* The newest frame is queued, written or dropped as it is handed over.
LEMMA NewAccounted ==
    \A c \in Conn : FramesInv /\ (Optimizer!Queue(c) \/ Optimizer!SendDirect(c))
                    => Longer(oFrames, oFrames') /\ Accounted(Len(oFrames))'
<1> SUFFICES ASSUME NEW c \in Conn, FramesInv, Optimizer!Queue(c) \/ Optimizer!SendDirect(c)
             PROVE  Longer(oFrames, oFrames') /\ Accounted(Len(oFrames))'
  OBVIOUS
<1>1. Optimizer!TypeOK /\ oPlayer[c] \in Name
  BY FramesTypes DEF FramesInv, Optimizer!Queue, Optimizer!SendDirect
<1>2. Longer(oFrames, oFrames')
  BY <1>1, NewFrame DEF Optimizer!Queue, Optimizer!SendDirect, Optimizer!Handed
<1>3. Len(oFrames') = Len(oFrames) + 1 /\ Len(oFrames') \in Nat
  BY <1>2 DEF Longer
<1>4. CASE Optimizer!Queue(c)
  <2>1. oQueue'[oPlayer[c]] = Append(oQueue[oPlayer[c]], Len(oFrames'))
    BY <1>1, <1>3, <1>4, FramesTypes DEF Optimizer!Queue
  <2>2. oQueue[oPlayer[c]] \in Seq(Nat)
    BY <1>1, FramesTypes
  <2>3. Listed(Append(oQueue[oPlayer[c]], Len(oFrames')), Len(oFrames'))
    BY <1>3, <2>2, FrameAdded
  <2>4. Listed(oQueue'[oPlayer[c]], Len(oFrames'))
    BY <2>1, <2>3
  <2> QED
    BY <1>1, <1>2, <2>4 DEF Accounted
<1>5. CASE Optimizer!SendDirect(c) /\ c \in oOnline
  <2>1. oSent'[c] = Append(oSent[c], Len(oFrames'))
    BY <1>1, <1>3, <1>5, FramesTypes DEF Optimizer!SendDirect
  <2>2. oSent[c] \in Seq(Nat)
    BY <1>1, FramesTypes
  <2>3. Listed(Append(oSent[c], Len(oFrames')), Len(oFrames'))
    BY <1>3, <2>2, FrameAdded
  <2>4. Listed(oSent'[c], Len(oFrames'))
    BY <2>1, <2>3
  <2> QED
    BY <1>2, <2>4 DEF Accounted
<1>6. CASE Optimizer!SendDirect(c) /\ c \notin oOnline
  <2>1. Len(oFrames') \in oDropped'
    BY <1>3, <1>6 DEF Optimizer!SendDirect
  <2> QED
    BY <1>2, <2>1 DEF Accounted
<1> QED
  BY <1>4, <1>5, <1>6

\* Only Queue and SendDirect touch the frames.
LEMMA SameFrames ==
    ASSUME [Optimizer!Next]_(Optimizer!vars),
           \A c \in Conn : ~Optimizer!Queue(c) /\ ~Optimizer!SendDirect(c)
    PROVE  UNCHANGED oFrames
BY DEF Optimizer!Next, Optimizer!Flush, Optimizer!vars, Optimizer!Stop, Optimizer!Quit,
       Optimizer!Join, Optimizer!StartFlush, Optimizer!Drained, Optimizer!FlushDone,
       Optimizer!FlushSkip, Optimizer!FlushGone, Optimizer!FlushSend, Optimizer!FlushSendSlow,
       Optimizer!FlushFails, Optimizer!history

LEMMA FramesNext == FramesInv /\ [Optimizer!Next]_(Optimizer!vars) => FramesInv'
<1> SUFFICES ASSUME FramesInv, [Optimizer!Next]_(Optimizer!vars) PROVE FramesInv'
  OBVIOUS
<1>1. Optimizer!TypeOK' /\ Aimed'
  BY FramesTypesNext DEF FramesInv
<1>2. InOrder'
  BY OrderNext DEF FramesInv
<1>3. Optimizer!TypeOK /\ \A i \in 1..Len(oFrames) : Accounted(i)
  BY LostTerms DEF FramesInv
<1>4. \A i \in 1..Len(oFrames') : Accounted(i)'
  <2>1. CASE \E c \in Conn : Optimizer!Queue(c) \/ Optimizer!SendDirect(c)
    <3>1. Longer(oFrames, oFrames') /\ Accounted(Len(oFrames))'
      BY <2>1, NewAccounted
    <3>2. \A i \in 1..Len(oFrames) : Accounted(i)'
      BY <1>3, <3>1, LostNext DEF Longer
    <3>3. \A i \in 1..Len(oFrames') : i \in 1..Len(oFrames) \/ i = Len(oFrames')
      BY <3>1 DEF Longer
    <3> QED
      BY <3>1, <3>2, <3>3
  <2>2. CASE \A c \in Conn : ~Optimizer!Queue(c) /\ ~Optimizer!SendDirect(c)
    <3>1. UNCHANGED oFrames
      BY <2>2, SameFrames
    <3> QED
      BY <1>3, <3>1, LostNext
  <2> QED
    BY <2>1, <2>2
<1>5. FramesNothingLost'
  <2>1. (FramesNothingLost <=> \A i \in 1..Len(oFrames) : Accounted(i))'
    BY <1>1, LostTermsNext
  <2> QED
    BY <1>4, <2>1
<1> QED
  BY <1>1, <1>2, <1>5 DEF FramesInv

LEMMA FramesInvariant == Optimizer!Spec => []FramesInv
BY FramesInit, FramesNext, PTL DEF Optimizer!Spec

\* Whatever tasks flush at the same time, a client first sees queued frames in the
\* order in which they were handed over.
THEOREM FramesInOrder == Optimizer!Spec => []FramesFirstInOrder
<1>1. FramesInv => FramesFirstInOrder
  BY OrderedIsFirst DEF FramesInv, InOrder
<1> QED
  BY FramesInvariant, <1>1, PTL

\* A frame is written, waits or was dropped, but for players some drain() has
\* waited for.
THEOREM FramesAccounted == Optimizer!Spec => []FramesNothingLost
<1>1. FramesInv => FramesNothingLost
  BY DEF FramesInv
<1> QED
  BY FramesInvariant, <1>1, PTL
===============================================================================
