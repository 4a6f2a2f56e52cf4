----------------------------- MODULE Players_proofs ----------------------------
(***************************************************************************)
(* Proofs about what MCPlayers is made of, for any number of connections,  *)
(* players and entities: the sessions and files of players, the sky, the   *)
(* other players and the entities a client shows.                          *)
(*                                                                         *)
(* Remembered is not inductive: that a file is right when the last session *)
(* of a player ends needs that the session was the only one (Alone), that  *)
(* what it had is what is remembered (Playing), and that its file did not  *)
(* change under its feet while it joined (Joined).  The other three say    *)
(* what holds when nobody is being told anything; what carries them says   *)
(* what is still going to be told while somebody is.                       *)
(***************************************************************************)
EXTENDS MCPlayers, DataTheorems, FiniteSetTheorems, TLAPS

\* A player nothing has spoilt has one session at a time.
Alone ==
    \A c, d \in Conn :
        InPlay(c) /\ player[d] = player[c] /\ player[c] \notin spoilt => d = c

\* A session that was joined has in memory what is remembered of its player,
\* and the file is at most behind.
Playing ==
    \A c \in Conn :
        phase[c] = "playing" /\ player[c] \notin spoilt =>
            /\ known[player[c]] = [stats |-> stats[c], items |-> items[c]]
            /\ OnDisk(player[c]).stats <= stats[c]
            /\ OnDisk(player[c]).items <= items[c]

\* While a session joins, the file has everything that is remembered, and once
\* it was loaded it is still the file that was loaded.
Joined ==
    \A c \in Joining :
        player[c] \notin spoilt =>
            /\ OnDisk(player[c]) = known[player[c]]
            /\ phase[c] = "restoring" =>
                  /\ loaded[c] = file[player[c]]
                  /\ OnDisk(player[c]).items <= items[c]

SessionInv == TypeOK /\ Alone /\ Playing /\ Joined /\ Remembered

-------------------------------------------------------------------------------
(* What a file gives back.                                                 *)

LEMMA OnDiskType ==
    ASSUME TypeOK, NEW p \in Player
    PROVE  OnDisk(p) \in [stats : Changes, items : Changes]
BY SessionAssumption DEF TypeOK, OnDisk, ItemsOf, Saved, Changes

LEMMA OnDiskOfDump ==
    ASSUME TypeOK, NEW c \in Conn, NEW p \in Player, phase[c] = "playing", file'[p] = Dump(c)
    PROVE  /\ file'[p] # NoFile
           /\ OnDisk(p)' = [stats |-> stats[c], items |-> items[c]]
           /\ ItemsOf(file'[p]) = items[c]
<1>1. stats[c] \in Nat /\ items[c] \in Nat
  BY SessionAssumption DEF TypeOK, Changes
<1>2. Dump(c) \in [stats : Nat, items : Nat \cup {NoItems}]
  BY <1>1 DEF Dump
<1> QED
  BY <1>1, <1>2, SessionAssumption DEF OnDisk, ItemsOf, Dump

-------------------------------------------------------------------------------
(* Type correctness.                                                       *)

LEMMA InitType == Init => TypeOK
BY SessionAssumption DEF Init, TypeOK, Phases, Changes, Saved

LEMMA DiscardType ==
    ASSUME TypeOK, NEW c \in Conn, Discard(c)
    PROVE  /\ phase' \in [Conn -> Phases]
           /\ alive' \in [Conn -> BOOLEAN]
           /\ player' \in [Conn -> Player \cup {Nobody}]
           /\ stats' \in [Conn -> Changes]
           /\ items' \in [Conn -> Changes \cup {NoItems}]
           /\ loaded' \in [Conn -> Saved \cup {NoFile}]
           /\ \A d \in Conn : phase'[d] = "off" <=> player'[d] = Nobody
           /\ \A d \in Conn : phase'[d] \in {"restoring", "playing"} => items'[d] # NoItems
BY SessionAssumption DEF TypeOK, Discard, Phases, Changes

LEMMA PlayerOf ==
    ASSUME TypeOK, NEW c \in Conn, InPlay(c)
    PROVE  player[c] \in Player
BY DEF TypeOK, InPlay

LEMMA DumpType ==
    ASSUME TypeOK, NEW c \in Conn
    PROVE  Dump(c) \in Saved
BY DEF TypeOK, Dump, Saved

LEMMA SaveAllType ==
    ASSUME TypeOK, SaveAll
    PROVE  /\ file' \in [Player -> Saved \cup {NoFile}]
           /\ spoilt' \subseteq Player
           /\ faults' \in 0..MaxFaults
<1>1. PICK last \in [Player -> Conn], failed \in SUBSET Player :
        LET saved(p) == p \notin failed /\ Online(last[p]) /\ player[last[p]] = p
        IN  /\ faults + Cardinality(failed) <= MaxFaults
            /\ faults' = faults + Cardinality(failed)
            /\ file' = [p \in Player |-> IF saved(p) THEN Dump(last[p]) ELSE file[p]]
            /\ spoilt' = spoilt \cup {player[c] : c \in Joining}
  BY DEF SaveAll
<1>2. file' \in [Player -> Saved \cup {NoFile}]
  BY <1>1, DumpType DEF TypeOK
<1>3. spoilt' \subseteq Player
  BY <1>1, PlayerOf DEF Joining, TypeOK, InPlay
<1>4. Cardinality(failed) \in Nat
  BY SessionAssumption, FS_Subset, FS_CardinalityType
<1>5. faults' \in 0..MaxFaults
  BY <1>1, <1>4, SessionAssumption DEF TypeOK
<1> QED
  BY <1>2, <1>3, <1>5

LEMMA NextType == TypeOK /\ [Next]_vars => TypeOK'
<1> SUFFICES ASSUME TypeOK, [Next]_vars PROVE TypeOK'
  OBVIOUS
<1> USE SessionAssumption
<1>1. ASSUME NEW c \in Conn, NEW p \in Player, Login(c, p) PROVE TypeOK'
  BY <1>1 DEF TypeOK, Login, InPlay, Phases, limits
<1>2. ASSUME NEW c \in Conn, LoadFile(c) PROVE TypeOK'
  <2>1. player[c] \in Player
    BY <1>2, PlayerOf DEF LoadFile, InPlay
  <2>2. ItemsOf(file[player[c]]) \in Changes
    BY <2>1 DEF TypeOK, ItemsOf, Saved, Changes
  <2> QED
    BY <1>2, <2>1, <2>2 DEF TypeOK, LoadFile, Phases, Changes, limits
<1>3. ASSUME NEW c \in Conn, Restore(c) PROVE TypeOK'
  <2>1. player[c] \in Player /\ items[c] \in Changes
    BY <1>3, PlayerOf DEF TypeOK, Restore, InPlay
  <2>2. stats' \in [Conn -> Changes]
    BY <1>3 DEF TypeOK, Restore, Saved
  <2>3. known' \in [Player -> [stats : Changes, items : Changes]]
    BY <1>3, <2>1, <2>2 DEF TypeOK, Restore
  <2> QED
    BY <1>3, <2>2, <2>3 DEF TypeOK, Restore, Phases, limits
<1>4. ASSUME NEW c \in Conn, ChangeStats(c) PROVE TypeOK'
  <2>1. stats' \in [Conn -> Changes] /\ stats[c] + 1 \in Changes
    BY <1>4 DEF TypeOK, ChangeStats, Changes
  <2>2. known' \in [Player -> [stats : Changes, items : Changes]]
    BY <1>4, <2>1, PlayerOf DEF TypeOK, ChangeStats
  <2> QED
    BY <1>4, <2>1, <2>2 DEF TypeOK, ChangeStats, limits
<1>5. ASSUME NEW c \in Conn, ChangeItems(c) PROVE TypeOK'
  <2>1. items[c] + 1 \in Changes
    BY <1>5 DEF TypeOK, ChangeItems, Changes
  <2>2. items' \in [Conn -> Changes \cup {NoItems}]
    BY <1>5, <2>1 DEF TypeOK, ChangeItems
  <2>3. known' \in [Player -> [stats : Changes, items : Changes]]
    BY <1>5, <2>1, PlayerOf DEF TypeOK, ChangeItems
  <2>4. \A d \in Conn : phase'[d] \in {"restoring", "playing"} => items'[d] # NoItems
    BY <1>5, <2>1 DEF TypeOK, ChangeItems, Changes
  <2> QED
    BY <1>5, <2>2, <2>3, <2>4 DEF TypeOK, ChangeItems, limits
<1>6. ASSUME NEW c \in Conn, Vanish(c) PROVE TypeOK'
  BY <1>6 DEF TypeOK, Vanish, limits
<1>7. ASSUME NEW c \in Conn, Leave(c) PROVE TypeOK'
  BY <1>7, DiscardType, DumpType DEF TypeOK, Leave, limits
<1>8. ASSUME NEW c \in Conn, LeaveFails(c) PROVE TypeOK'
  <2>1. player[c] \in Player
    BY <1>8, PlayerOf DEF LeaveFails, InPlay
  <2>2. OnDisk(player[c]) \in [stats : Changes, items : Changes]
    BY <2>1, OnDiskType
  <2>3. known' \in [Player -> [stats : Changes, items : Changes]]
    BY <1>8, <2>1, <2>2 DEF TypeOK, LeaveFails
  <2> QED
    BY <1>8, <2>3, DiscardType DEF TypeOK, LeaveFails
<1>9. ASSUME NEW c \in Conn, JoinFails(c) PROVE TypeOK'
  <2>1. player[c] \in Player
    BY <1>9, PlayerOf DEF JoinFails, Joining, InPlay
  <2> QED
    BY <1>9, <2>1, DiscardType, DumpType DEF TypeOK, JoinFails, limits
<1>10. ASSUME Autosave PROVE TypeOK'
  BY <1>10, SaveAllType DEF TypeOK, Autosave, session
<1>11. ASSUME Stop PROVE TypeOK'
  BY <1>11, SaveAllType DEF TypeOK, Stop, session
<1>12. ASSUME Restart PROVE TypeOK'
  BY <1>12 DEF TypeOK, Restart, session, limits
<1>13. ASSUME Crash PROVE TypeOK'
  <2>1. known' \in [Player -> [stats : Changes, items : Changes]]
    BY <1>13, OnDiskType DEF Crash
  <2> QED
    BY <1>13, <2>1 DEF TypeOK, Crash, Phases, Changes
<1>14. ASSUME UNCHANGED vars PROVE TypeOK'
  BY <1>14 DEF TypeOK, vars, session, limits
<1> QED
  BY <1>1, <1>2, <1>3, <1>4, <1>5, <1>6, <1>7, <1>8, <1>9, <1>10, <1>11,
     <1>12, <1>13, <1>14 DEF Next

\* The state of sessions, files and memories keeps its types.
THEOREM TypeCorrect == Spec => []TypeOK
BY InitType, NextType, PTL DEF Spec

-------------------------------------------------------------------------------
(* The inductive invariant.                                                *)

LEMMA InitInv == Init => SessionInv
<1> SUFFICES ASSUME Init PROVE SessionInv
  OBVIOUS
<1>1. TypeOK
  BY InitType
<1>2. \A c \in Conn : phase[c] = "off"
  BY DEF Init
<1>3. Remembered
  BY DEF Init, Remembered, OnDisk, ItemsOf
<1> QED
  BY <1>1, <1>2, <1>3 DEF SessionInv, Alone, Playing, Joined, Joining, InPlay

\* An unspoilt player's file after save_all_player_states: untouched, or what
\* the one session has that plays under the name.
LEMMA SaveAllEffect ==
    ASSUME SessionInv, SaveAll, NEW p \in Player, p \notin spoilt'
    PROVE  /\ p \notin spoilt
           /\ \A c \in Joining : player[c] # p
           /\ \/ file'[p] = file[p]
              \/ \E c \in Conn : phase[c] = "playing" /\ player[c] = p /\ file'[p] = Dump(c)
<1>1. PICK last \in [Player -> Conn], failed \in SUBSET Player :
        LET saved(q) == q \notin failed /\ Online(last[q]) /\ player[last[q]] = q
        IN  /\ file' = [q \in Player |-> IF saved(q) THEN Dump(last[q]) ELSE file[q]]
            /\ spoilt' = spoilt \cup {player[c] : c \in Joining}
  BY DEF SaveAll
<1>2. p \notin spoilt /\ \A c \in Joining : player[c] # p
  BY <1>1
<1>3. CASE p \notin failed /\ Online(last[p]) /\ player[last[p]] = p
  <2>1. phase[last[p]] = "playing"
    BY <1>2, <1>3 DEF SessionInv, TypeOK, Phases, Joining, Online, InPlay
  <2>2. file'[p] = Dump(last[p])
    BY <1>1, <1>3
  <2> QED
    BY <1>2, <1>3, <2>1, <2>2
<1>4. CASE ~(p \notin failed /\ Online(last[p]) /\ player[last[p]] = p)
  BY <1>1, <1>2, <1>4
<1> QED
  BY <1>3, <1>4

\* OnDisk is all that matters of a file that is not written.
LEMMA SameFile ==
    ASSUME NEW p \in Player, file'[p] = file[p]
    PROVE  OnDisk(p)' = OnDisk(p)
BY DEF OnDisk

\* save_all_player_states, whoever called it.
LEMMA SaveAllInv ==
    ASSUME SessionInv, SaveAll, UNCHANGED <<session, known>>
    PROVE  (Alone /\ Playing /\ Joined /\ Remembered)'
<1> USE DEF SessionInv
<1>1. Alone'
  BY SaveAllEffect, PlayerOf DEF Alone, InPlay, session
<1>2. ASSUME NEW p \in Player, p \notin spoilt',
             NEW c \in Conn, phase[c] = "playing", player[c] = p
      PROVE  OnDisk(p)' = OnDisk(p) \/ OnDisk(p)' = known[p]
  <2>1. CASE file'[p] = file[p]
    BY <2>1, SameFile
  <2>2. CASE file'[p] # file[p]
    <3>1. PICK d \in Conn : phase[d] = "playing" /\ player[d] = p /\ file'[p] = Dump(d)
      BY <1>2, <2>2, SaveAllEffect
    <3>2. OnDisk(p)' = [stats |-> stats[d], items |-> items[d]]
      BY <3>1, OnDiskOfDump
    <3>3. known[p] = [stats |-> stats[d], items |-> items[d]]
      BY <1>2, <3>1, SaveAllEffect DEF Playing
    <3> QED
      BY <3>2, <3>3
  <2> QED
    BY <2>1, <2>2
<1>3. Playing'
  <2> SUFFICES ASSUME NEW c \in Conn, phase[c] = "playing", player[c] \notin spoilt'
               PROVE  /\ known[player[c]] = [stats |-> stats[c], items |-> items[c]]
                      /\ OnDisk(player[c])'.stats <= stats[c]
                      /\ OnDisk(player[c])'.items <= items[c]
    BY DEF Playing, session
  <2>1. player[c] \in Player /\ stats[c] \in Nat /\ items[c] \in Nat
    BY PlayerOf, SessionAssumption DEF InPlay, TypeOK, Changes
  <2>2. player[c] \notin spoilt
    BY <2>1, SaveAllEffect
  <2>3. OnDisk(player[c])' = OnDisk(player[c]) \/ OnDisk(player[c])' = known[player[c]]
    BY <1>2, <2>1 DEF session
  <2> QED
    BY <2>1, <2>2, <2>3 DEF Playing
<1>4. Joined'
  BY SaveAllEffect, PlayerOf DEF Joined, Joining, InPlay, session
<1>5. Remembered'
  <2> SUFFICES ASSUME NEW p \in Player \ spoilt', \A c \in Conn : InPlay(c) => player[c] # p
               PROVE  OnDisk(p)' = known[p]
    BY DEF Remembered, InPlay, session
  <2>1. p \notin spoilt /\ file'[p] = file[p]
    BY SaveAllEffect DEF InPlay
  <2> QED
    BY <2>1, SameFile DEF Remembered
<1> QED
  BY <1>1, <1>3, <1>4, <1>5

\* The end of a connection, with a save of what was joined (Leave), a save that
\* fails (LeaveFails) or a save that falls into the join (JoinFails).
LEMMA LeaveInv ==
    ASSUME SessionInv, NEW c \in Conn, InPlay(c), Discard(c), spoilt \subseteq spoilt',
           \A q \in Player : q # player[c] => file'[q] = file[q] /\ known'[q] = known[q],
           \/ player[c] \in spoilt'
           \/ phase[c] = "playing" /\ file'[player[c]] = Dump(c) /\ known' = known
           \/ file' = file /\ known'[player[c]] = OnDisk(player[c])
    PROVE  (Alone /\ Playing /\ Joined /\ Remembered)'
<1>0. TypeOK /\ player[c] \in Player
  BY PlayerOf DEF SessionInv
<1>1. /\ phase' = [phase EXCEPT ![c] = "off"] /\ player' = [player EXCEPT ![c] = Nobody]
      /\ \A d \in Conn : d # c => stats'[d] = stats[d] /\ items'[d] = items[d] /\ loaded'[d] = loaded[d]
  BY <1>0 DEF Discard, TypeOK
<1>2. \A q \in Player : q # player[c] => OnDisk(q)' = OnDisk(q)
  BY SameFile
<1>3. ASSUME NEW d \in Conn, InPlay(d)', player'[d] \notin spoilt'
      PROVE  /\ d # c /\ InPlay(d) /\ player'[d] = player[d] /\ player[d] \notin spoilt
             /\ player[d] \in Player /\ player[d] # player[c] /\ phase'[d] = phase[d]
  <2>1. d # c /\ phase'[d] = phase[d] /\ player'[d] = player[d]
    BY <1>0, <1>1, <1>3 DEF InPlay, TypeOK
  <2>2. InPlay(d) /\ player[d] \notin spoilt
    BY <1>3, <2>1 DEF InPlay
  <2>3. player[d] # player[c]
    BY <2>1, <2>2 DEF SessionInv, Alone
  <2> QED
    BY <1>0, <2>1, <2>2, <2>3, PlayerOf
<1>4. Alone'
  <2> SUFFICES ASSUME NEW d \in Conn, NEW e \in Conn, InPlay(d)', player'[e] = player'[d],
                      player'[d] \notin spoilt'
               PROVE  e = d
    BY DEF Alone
  <2>1. e # c
    BY <1>0, <1>1, <1>3, SessionAssumption DEF TypeOK
  <2> QED
    BY <1>0, <1>1, <1>3, <2>1 DEF SessionInv, Alone, TypeOK
<1>5. Playing'
  <2> SUFFICES ASSUME NEW d \in Conn, phase'[d] = "playing", player'[d] \notin spoilt'
               PROVE  /\ known'[player'[d]] = [stats |-> stats'[d], items |-> items'[d]]
                      /\ OnDisk(player[d])'.stats <= stats'[d]
                      /\ OnDisk(player[d])'.items <= items'[d]
    BY DEF Playing
  <2>1. InPlay(d)'
    BY DEF InPlay
  <2>2. /\ d # c /\ player'[d] = player[d] /\ player[d] \notin spoilt
        /\ player[d] \in Player /\ player[d] # player[c] /\ phase[d] = "playing"
    BY <1>3, <2>1
  <2>3. /\ known[player[d]] = [stats |-> stats[d], items |-> items[d]]
        /\ OnDisk(player[d]).stats <= stats[d] /\ OnDisk(player[d]).items <= items[d]
    BY <2>2 DEF SessionInv, Playing
  <2>4. /\ OnDisk(player[d])' = OnDisk(player[d]) /\ known'[player[d]] = known[player[d]]
        /\ stats'[d] = stats[d] /\ items'[d] = items[d]
    BY <1>1, <1>2, <2>2
  <2> QED
    BY ONLY <2>2, <2>3, <2>4
<1>6. Joined'
  <2> SUFFICES ASSUME NEW d \in Joining', player'[d] \notin spoilt'
               PROVE  /\ OnDisk(player[d])' = known'[player'[d]]
                      /\ phase'[d] = "restoring" =>
                            /\ loaded'[d] = file'[player'[d]]
                            /\ OnDisk(player[d])'.items <= items'[d]
    BY DEF Joined
  <2>1. InPlay(d)' /\ d \in Conn /\ (phase'[d] = phase[d] => d \in Joining)
    BY DEF InPlay, Joining
  <2> QED
    BY <1>1, <1>2, <1>3, <2>1 DEF SessionInv, Joined
<1>7. Remembered'
  <2> SUFFICES ASSUME NEW p \in Player \ spoilt', \A d \in Conn : InPlay(d)' => player'[d] # p
               PROVE  OnDisk(p)' = known'[p]
    BY DEF Remembered
  <2>1. CASE p # player[c]
    <3>1. \A d \in Conn : InPlay(d) => player[d] # p
      BY <1>0, <1>1, <2>1 DEF InPlay, TypeOK
    <3> QED
      BY <1>2, <2>1, <3>1 DEF SessionInv, Remembered
  <2>2. CASE p = player[c] /\ phase[c] = "playing" /\ file'[p] = Dump(c) /\ known' = known
    <3>1. OnDisk(p)' = [stats |-> stats[c], items |-> items[c]]
      BY <1>0, <2>2, OnDiskOfDump
    <3> QED
      BY <2>2, <3>1 DEF SessionInv, Playing
  <2>3. CASE p = player[c] /\ file' = file /\ known'[p] = OnDisk(p)
    BY <2>3, SameFile
  <2> QED
    BY <2>1, <2>2, <2>3
<1> QED
  BY <1>4, <1>5, <1>6, <1>7

LEMMA NextInv == SessionInv /\ [Next]_vars => SessionInv'
<1> SUFFICES ASSUME SessionInv, [Next]_vars PROVE (Alone /\ Playing /\ Joined /\ Remembered)'
  BY NextType DEF SessionInv
<1>0. TypeOK /\ TypeOK'
  BY NextType DEF SessionInv
<1> DEFINE Rest == Alone /\ Playing /\ Joined /\ Remembered
<1>1. ASSUME NEW c \in Conn, NEW p \in Player, Login(c, p) PROVE Rest'
  <2>1. \A q \in Player : OnDisk(q)' = OnDisk(q)
    BY <1>1, SameFile DEF Login
  <2>2. /\ phase[c] = "off" /\ player[c] = Nobody
        /\ phase' = [phase EXCEPT ![c] = "joining"] /\ player' = [player EXCEPT ![c] = p]
        /\ UNCHANGED <<stats, items, loaded, file, known>>
        /\ spoilt \subseteq spoilt'
        /\ p \notin spoilt' => \A d \in Conn : player[d] # p
    BY <1>1, <1>0, SessionAssumption DEF Login, InPlay, TypeOK
  <2>3. Alone'
    BY <2>2, <1>0, SessionAssumption DEF SessionInv, Alone, InPlay, TypeOK
  <2>4. Playing'
    BY <2>1, <2>2, <1>0, PlayerOf, SessionAssumption DEF SessionInv, Playing, InPlay, TypeOK
  <2>5. Joined'
    <3> SUFFICES ASSUME NEW d \in Joining', player'[d] \notin spoilt'
                 PROVE  /\ OnDisk(player[d])' = known[player'[d]]
                        /\ phase'[d] = "restoring" =>
                              /\ loaded[d] = file[player'[d]]
                              /\ OnDisk(player[d])'.items <= items[d]
      BY <2>2 DEF Joined
    <3>1. CASE d = c
      BY <2>1, <2>2, <3>1, <1>0 DEF SessionInv, Remembered, InPlay, TypeOK
    <3>2. CASE d # c
      BY <2>1, <2>2, <3>2, <1>0, PlayerOf DEF SessionInv, Joined, Joining, InPlay, TypeOK
    <3> QED
      BY <3>1, <3>2
  <2>6. Remembered'
    BY <2>1, <2>2, <1>0, SessionAssumption DEF SessionInv, Remembered, InPlay, TypeOK
  <2> QED
    BY <2>3, <2>4, <2>5, <2>6
<1>2. ASSUME NEW c \in Conn, LoadFile(c) PROVE Rest'
  <2>1. \A q \in Player : OnDisk(q)' = OnDisk(q)
    BY <1>2, SameFile DEF LoadFile
  <2>2. player[c] \in Player
    BY <1>0, <1>2, PlayerOf DEF LoadFile, InPlay
  <2>3. OnDisk(player[c]).items = ItemsOf(file[player[c]]) /\ ItemsOf(file[player[c]]) \in Nat
    BY <1>0, <2>2, OnDiskType, SessionAssumption DEF OnDisk, Changes
  <2>4. Alone'
    BY <1>2, <1>0 DEF LoadFile, SessionInv, Alone, InPlay, TypeOK
  <2>5. Playing'
    BY <1>2, <2>1, <1>0, PlayerOf DEF LoadFile, SessionInv, Playing, InPlay, TypeOK
  <2>6. Joined'
    <3> SUFFICES ASSUME NEW d \in Joining, player[d] \notin spoilt
                 PROVE  /\ OnDisk(player[d])' = known[player[d]]
                        /\ phase'[d] = "restoring" =>
                              /\ loaded'[d] = file[player[d]]
                              /\ OnDisk(player[d])'.items <= items'[d]
      BY <1>2, <1>0 DEF Joined, Joining, LoadFile, TypeOK
    <3>1. player[d] \in Player
      BY <1>0, PlayerOf DEF Joining, InPlay
    <3>2. CASE d = c
      BY <1>2, <1>0, <2>1, <2>3, <3>1, <3>2 DEF LoadFile, SessionInv, Joined, TypeOK
    <3>3. CASE d # c
      BY <1>2, <1>0, <2>1, <3>1, <3>3 DEF LoadFile, SessionInv, Joined, TypeOK
    <3> QED
      BY <3>2, <3>3
  <2>7. Remembered'
    BY <1>2, <2>1, <1>0 DEF LoadFile, SessionInv, Remembered, InPlay, TypeOK
  <2> QED
    BY <2>4, <2>5, <2>6, <2>7
<1>3. ASSUME NEW c \in Conn, Restore(c) PROVE Rest'
  <2>1. \A q \in Player : OnDisk(q)' = OnDisk(q)
    BY <1>3, SameFile DEF Restore
  <2>2. player[c] \in Player
    BY <1>0, <1>3, PlayerOf DEF Restore, InPlay
  <2>3. /\ phase[c] = "restoring" /\ phase' = [phase EXCEPT ![c] = "playing"]
        /\ UNCHANGED <<player, items, file, spoilt>>
        /\ stats' = [stats EXCEPT ![c] = IF loaded[c] = NoFile THEN @ ELSE loaded[c].stats]
        /\ loaded' = [loaded EXCEPT ![c] = NoFile]
        /\ known' = [known EXCEPT ![player[c]] = [stats |-> stats'[c], items |-> items[c]]]
    BY <1>3 DEF Restore
  <2>4. Alone'
    BY <2>3, <1>0 DEF SessionInv, Alone, InPlay, TypeOK
  <2>5. ASSUME player[c] \notin spoilt
        PROVE  OnDisk(player[c]).stats <= stats'[c] /\ OnDisk(player[c]).items <= items[c]
    <3>1. loaded[c] = file[player[c]] /\ OnDisk(player[c]).items <= items[c]
      BY <2>3, <2>5 DEF SessionInv, Joined, Joining
    <3>2. OnDisk(player[c]).stats = IF loaded[c] = NoFile THEN 0 ELSE loaded[c].stats
      BY <3>1 DEF OnDisk
    <3>3. OnDisk(player[c]).stats \in Nat /\ stats[c] \in Nat
      BY <1>0, <2>2, OnDiskType, SessionAssumption DEF TypeOK, Changes
    <3> QED
      BY <1>0, <2>3, <3>1, <3>2, <3>3 DEF TypeOK
  <2>6. Playing'
    <3> SUFFICES ASSUME NEW d \in Conn, phase'[d] = "playing", player[d] \notin spoilt
                 PROVE  /\ known'[player[d]] = [stats |-> stats'[d], items |-> items[d]]
                        /\ OnDisk(player[d])'.stats <= stats'[d]
                        /\ OnDisk(player[d])'.items <= items[d]
      BY <2>3 DEF Playing
    <3>1. player[d] \in Player
      BY <1>0, <2>3, PlayerOf DEF TypeOK, InPlay
    <3>2. CASE d = c
      BY <1>0, <2>1, <2>3, <2>5, <3>1, <3>2 DEF TypeOK
    <3>3. CASE d # c
      <4>1. player[d] # player[c]
        BY <1>0, <2>3, <3>3 DEF SessionInv, Alone, InPlay, TypeOK
      <4>2. /\ phase[d] = "playing" /\ stats'[d] = stats[d] /\ known'[player[d]] = known[player[d]]
        BY <1>0, <2>3, <3>1, <3>3, <4>1 DEF TypeOK
      <4>3. /\ known[player[d]] = [stats |-> stats[d], items |-> items[d]]
            /\ OnDisk(player[d]).stats <= stats[d] /\ OnDisk(player[d]).items <= items[d]
        BY <4>2 DEF SessionInv, Playing
      <4>4. OnDisk(player[d])' = OnDisk(player[d])
        BY <2>3, <3>1, SameFile
      <4> QED
        BY ONLY <4>2, <4>3, <4>4
    <3> QED
      BY <3>2, <3>3
  <2>7. Joined'
    <3> SUFFICES ASSUME NEW d \in Joining, d # c, player[d] \notin spoilt
                 PROVE  /\ OnDisk(player[d])' = known'[player[d]]
                        /\ phase[d] = "restoring" =>
                              /\ loaded[d] = file[player[d]]
                              /\ OnDisk(player[d])'.items <= items[d]
      BY <1>0, <2>3 DEF Joined, Joining, TypeOK
    <3>1. player[d] \in Player
      BY <1>0, PlayerOf DEF Joining, InPlay
    <3>2. player[d] # player[c]
      BY <2>3 DEF SessionInv, Alone, Joining, InPlay
    <3> QED
      BY <1>0, <2>1, <2>2, <2>3, <3>1, <3>2 DEF SessionInv, Joined, TypeOK
  <2>8. Remembered'
    BY <1>0, <2>1, <2>3 DEF SessionInv, Remembered, InPlay, TypeOK
  <2> QED
    BY <2>4, <2>6, <2>7, <2>8
<1>4. ASSUME NEW c \in Conn, ChangeStats(c) PROVE Rest'
  <2>1. \A q \in Player : OnDisk(q)' = OnDisk(q)
    BY <1>4, SameFile DEF ChangeStats
  <2>2. player[c] \in Player
    BY <1>0, <1>4, PlayerOf DEF ChangeStats
  <2>3. /\ InPlay(c)
        /\ UNCHANGED <<phase, player, items, loaded, file, spoilt>>
        /\ stats' = [stats EXCEPT ![c] = @ + 1]
        /\ phase[c] = "playing" => known' = [known EXCEPT ![player[c]].stats = stats[c] + 1]
        /\ phase[c] # "playing" => known' = known
    BY <1>4 DEF ChangeStats
  <2>4. Alone'
    BY <2>3 DEF SessionInv, Alone, InPlay
  <2>5. ASSUME NEW d \in Conn, InPlay(d), d # c, player[d] \notin spoilt
        PROVE  player[d] \in Player /\ known'[player[d]] = known[player[d]] /\ stats'[d] = stats[d]
    <3>1. player[d] \in Player /\ player[d] # player[c]
      BY <1>0, <2>3, <2>5, PlayerOf DEF SessionInv, Alone
    <3> QED
      BY <1>0, <2>3, <2>5, <3>1 DEF TypeOK
  <2>6. Playing'
    <3> SUFFICES ASSUME NEW d \in Conn, phase[d] = "playing", player[d] \notin spoilt
                 PROVE  /\ known'[player[d]] = [stats |-> stats'[d], items |-> items[d]]
                        /\ OnDisk(player[d])'.stats <= stats'[d]
                        /\ OnDisk(player[d])'.items <= items[d]
      BY <2>3 DEF Playing
    <3>1. CASE d = c
      <4>1. known[player[c]] = [stats |-> stats[c], items |-> items[c]]
        BY <3>1 DEF SessionInv, Playing
      <4>2. known'[player[c]] = [stats |-> stats[c] + 1, items |-> items[c]]
        BY <1>0, <2>2, <2>3, <3>1, <4>1 DEF TypeOK
      <4>3. OnDisk(player[c]).stats \in Nat /\ stats[c] \in Nat
        BY <1>0, <2>2, OnDiskType, SessionAssumption DEF TypeOK, Changes
      <4>4. OnDisk(player[c])' = OnDisk(player[c])
        BY <2>1, <2>2, <2>3
      <4>5. /\ OnDisk(player[c]).stats <= stats[c] /\ OnDisk(player[c]).items <= items[c]
            /\ stats'[c] = stats[c] + 1
        BY <1>0, <2>3, <3>1 DEF SessionInv, Playing, TypeOK
      <4>6. OnDisk(player[c]).stats <= stats'[c]
        BY <4>3, <4>5
      <4> QED
        BY <2>3, <3>1, <4>2, <4>4, <4>5, <4>6
    <3>2. CASE d # c
      BY <2>1, <2>3, <2>5, <3>2 DEF SessionInv, Playing, InPlay
    <3> QED
      BY <3>1, <3>2
  <2>7. Joined'
    <3> SUFFICES ASSUME NEW d \in Joining, player[d] \notin spoilt
                 PROVE  player[d] \in Player /\ known'[player[d]] = known[player[d]]
      BY <2>1, <2>3 DEF SessionInv, Joined, Joining
    <3>1. CASE d = c
      BY <2>2, <2>3, <3>1 DEF Joining
    <3>2. CASE d # c
      BY <2>5, <3>2 DEF Joining, InPlay
    <3> QED
      BY <3>1, <3>2
  <2>8. Remembered'
    BY <1>0, <2>1, <2>2, <2>3 DEF SessionInv, Remembered, InPlay, TypeOK
  <2> QED
    BY <2>4, <2>6, <2>7, <2>8
<1>5. ASSUME NEW c \in Conn, ChangeItems(c) PROVE Rest'
  <2>1. \A q \in Player : OnDisk(q)' = OnDisk(q)
    BY <1>5, SameFile DEF ChangeItems
  <2>2. player[c] \in Player
    BY <1>0, <1>5, PlayerOf DEF ChangeItems
  <2>3. /\ InPlay(c) /\ items[c] \in Nat
        /\ UNCHANGED <<phase, player, stats, loaded, file, spoilt>>
        /\ items' = [items EXCEPT ![c] = @ + 1]
        /\ phase[c] = "playing" => known' = [known EXCEPT ![player[c]].items = items[c] + 1]
        /\ phase[c] # "playing" => known' = known
    BY <1>5, SessionAssumption DEF ChangeItems
  <2>4. Alone'
    BY <2>3 DEF SessionInv, Alone, InPlay
  <2>5. ASSUME NEW d \in Conn, InPlay(d), d # c, player[d] \notin spoilt
        PROVE  player[d] \in Player /\ known'[player[d]] = known[player[d]] /\ items'[d] = items[d]
    <3>1. player[d] \in Player /\ player[d] # player[c]
      BY <1>0, <2>3, <2>5, PlayerOf DEF SessionInv, Alone
    <3> QED
      BY <1>0, <2>3, <2>5, <3>1 DEF TypeOK
  <2>6. OnDisk(player[c]).items \in Nat /\ items'[c] = items[c] + 1
    BY <1>0, <2>2, <2>3, OnDiskType, SessionAssumption DEF TypeOK, Changes
  <2>7. Playing'
    <3> SUFFICES ASSUME NEW d \in Conn, phase[d] = "playing", player[d] \notin spoilt
                 PROVE  /\ known'[player[d]] = [stats |-> stats[d], items |-> items'[d]]
                        /\ OnDisk(player[d])'.stats <= stats[d]
                        /\ OnDisk(player[d])'.items <= items'[d]
      BY <2>3 DEF Playing
    <3>1. CASE d = c
      <4>1. known[player[c]] = [stats |-> stats[c], items |-> items[c]]
        BY <3>1 DEF SessionInv, Playing
      <4>2. known'[player[c]] = [stats |-> stats[c], items |-> items[c] + 1]
        BY <1>0, <2>2, <2>3, <3>1, <4>1 DEF TypeOK
      <4>3. OnDisk(player[c])' = OnDisk(player[c])
        BY <2>1, <2>2, <2>3
      <4>4. OnDisk(player[c]).stats <= stats[c] /\ OnDisk(player[c]).items <= items[c]
        BY <3>1 DEF SessionInv, Playing
      <4>5. OnDisk(player[c]).items <= items'[c]
        BY <2>3, <2>6, <4>4
      <4> QED
        BY <2>3, <2>6, <3>1, <4>2, <4>3, <4>4, <4>5
    <3>2. CASE d # c
      BY <2>1, <2>3, <2>5, <3>2 DEF SessionInv, Playing, InPlay
    <3> QED
      BY <3>1, <3>2
  <2>8. Joined'
    <3> SUFFICES ASSUME NEW d \in Joining, player[d] \notin spoilt
                 PROVE  /\ player[d] \in Player /\ known'[player[d]] = known[player[d]]
                        /\ OnDisk(player[d]).items <= items[d] => OnDisk(player[d]).items <= items'[d]
      BY <2>1, <2>3 DEF SessionInv, Joined, Joining
    <3>1. CASE d = c
      BY <2>2, <2>3, <2>6, <3>1 DEF Joining
    <3>2. CASE d # c
      BY <2>5, <3>2 DEF Joining, InPlay
    <3> QED
      BY <3>1, <3>2
  <2>9. Remembered'
    BY <1>0, <2>1, <2>2, <2>3 DEF SessionInv, Remembered, InPlay, TypeOK
  <2> QED
    BY <2>4, <2>7, <2>8, <2>9
<1>6. ASSUME NEW c \in Conn, Vanish(c) PROVE Rest'
  <2>1. \A q \in Player : OnDisk(q)' = OnDisk(q)
    BY <1>6, SameFile DEF Vanish
  <2>2. UNCHANGED <<phase, player, stats, items, loaded, file, known, spoilt>>
    BY <1>6 DEF Vanish
  <2> QED
    BY <1>0, <2>1, <2>2, PlayerOf
    DEF SessionInv, Alone, Playing, Joined, Joining, Remembered, InPlay
<1>7. ASSUME NEW c \in Conn, Leave(c) PROVE Rest'
  BY <1>7, LeaveInv DEF Leave, InPlay, SessionInv, TypeOK
<1>8. ASSUME NEW c \in Conn, LeaveFails(c) PROVE Rest'
  BY <1>8, LeaveInv DEF LeaveFails, InPlay, SessionInv, TypeOK
<1>9. ASSUME NEW c \in Conn, JoinFails(c) PROVE Rest'
  BY <1>9, LeaveInv DEF JoinFails, Joining, InPlay, SessionInv, TypeOK
<1>10. ASSUME Autosave PROVE Rest'
  BY <1>10, SaveAllInv DEF Autosave
<1>11. ASSUME Stop PROVE Rest'
  BY <1>11, SaveAllInv DEF Stop
<1>12. ASSUME Restart \/ UNCHANGED vars PROVE Rest'
  <2>1. UNCHANGED <<phase, player, stats, items, loaded, file, known, spoilt>>
    BY <1>12 DEF Restart, session, vars
  <2>2. \A q \in Player : OnDisk(q)' = OnDisk(q)
    BY <2>1, SameFile
  <2> QED
    BY <1>0, <2>1, <2>2, PlayerOf
    DEF SessionInv, Alone, Playing, Joined, Joining, Remembered, InPlay
<1>13. ASSUME Crash PROVE Rest'
  <2>1. \A c \in Conn : phase'[c] = "off"
    BY <1>13 DEF Crash
  <2>2. Remembered'
    BY <1>13, SameFile DEF Crash, Remembered
  <2> QED
    BY <2>1, <2>2 DEF Alone, Playing, Joined, Joining, InPlay
<1> QED
  BY <1>1, <1>2, <1>3, <1>4, <1>5, <1>6, <1>7, <1>8, <1>9, <1>10, <1>11,
     <1>12, <1>13 DEF Next

\* SessionInv is an invariant of the specification.
LEMMA Invariant == Spec => []SessionInv
BY InitInv, NextInv, PTL DEF Spec

\* When nobody plays under a name, its file gives back what the last session
\* had that was joined.
THEOREM FileRemembers == Spec => []Remembered
<1>1. SessionInv => Remembered
  BY DEF SessionInv
<1> QED
  BY Invariant, <1>1, PTL

\* What a step does to the file of an unspoilt player.
LEMMA StepForward ==
    ASSUME SessionInv, [Next]_vars, NEW p \in Player, p \notin spoilt'
    PROVE  Forward(p)
<1>0. TypeOK
  BY DEF SessionInv
<1>1. ASSUME NEW c \in Conn, phase[c] = "playing", player[c] = p, p \notin spoilt, file'[p] = Dump(c)
      PROVE  Forward(p)
  <2>1. /\ file'[p] # NoFile /\ ItemsOf(file'[p]) = items[c]
        /\ OnDisk(p)' = [stats |-> stats[c], items |-> items[c]]
    BY <1>0, <1>1, OnDiskOfDump
  <2>2. OnDisk(p).stats <= stats[c] /\ OnDisk(p).items <= items[c]
    BY <1>1 DEF SessionInv, Playing
  <2> QED
    BY <2>1, <2>2 DEF Forward, OnDisk
<1>2. ASSUME file'[p] = file[p] PROVE Forward(p)
  <2>1. file[p] # NoFile => file[p].stats \in Nat /\ ItemsOf(file[p]) \in Nat
    BY <1>0, SessionAssumption DEF TypeOK, Saved, Changes, ItemsOf
  <2> QED
    BY <1>2, <2>1 DEF Forward
<1>3. ASSUME SaveAll PROVE Forward(p)
  BY <1>1, <1>2, <1>3, SaveAllEffect
<1>4. ASSUME NEW c \in Conn, Leave(c) PROVE Forward(p)
  BY <1>0, <1>1, <1>2, <1>4 DEF Leave, TypeOK
<1>5. ASSUME NEW c \in Conn, JoinFails(c) PROVE Forward(p)
  BY <1>0, <1>2, <1>5 DEF JoinFails, TypeOK
<1>6. CASE Autosave \/ Stop
  BY <1>3, <1>6 DEF Autosave, Stop
<1>7. CASE file' = file
  BY <1>2, <1>7
<1> QED
  BY <1>4, <1>5, <1>6, <1>7
  DEF Next, vars, Login, LoadFile, Restore, ChangeStats, ChangeItems, Vanish,
      LeaveFails, Restart, Crash

\* No save takes a player's progress back.
THEOREM ProgressMovesForward == Spec => SavesMoveForward
<1>1. SessionInv /\ [Next]_vars => [\A p \in Player \ spoilt' : Forward(p)]_vars
  BY StepForward
<1> QED
  BY Invariant, <1>1, PTL DEF Spec, SavesMoveForward

-------------------------------------------------------------------------------
(* Weather.  While the events of no two tasks overlap, whatever is still   *)
(* to be sent says what the weather is, and a client that does not show it *)
(* yet is going to be told.                                                *)

SkyFields == {"raining", "rain", "thunder"}
SkyValue == BOOLEAN \cup {0, 1}
SkyEvent == [to : Conn, field : SkyFields, value : SkyValue]

SkyType ==
    /\ wManager \in Skies!Kinds /\ wWeather \in Skies!Kinds
    /\ wOnline \in SUBSET Conn /\ wTold \in SUBSET wOnline
    /\ wSky \in [Conn -> [SkyFields -> SkyValue]]
    /\ wTodo \in [Skies!Task -> Seq(SkyEvent)]
    /\ wMixed \in BOOLEAN

\* Nothing was sent to those who have not come.
SkyFresh ==
    /\ \A c \in Conn \ wOnline : wSky[c] = Skies!Sky("clear")
    /\ \A t \in Skies!Task : \A e \in SkyEvent : Listed(wTodo[t], e) => e.to \in wOnline

Announces(s, c, f) == \E e \in SkyEvent : Listed(s, e) /\ e.to = c /\ e.field = f
Says(s, w) == \A e \in SkyEvent : Listed(s, e) => e.value = Skies!Sky(w)[e.field]

SkyTrue ==
    ~wMixed =>
        /\ \A t \in Skies!Task : Says(wTodo[t], wWeather)
        /\ \A c \in Conn, f \in SkyFields :
              c \in wTold \/ wWeather = "clear" =>
                 \/ wSky[c][f] = Skies!Sky(wWeather)[f]
                 \/ \E t \in Skies!Task : Announces(wTodo[t], c, f)

SkyInv == SkyType /\ SkyFresh /\ SkyTrue

\* The library's lists, as Weather has them.
LEMMA SkyLists ==
    /\ \A S : Skies!SetToSeq(S) = SetToSeq(S)
    /\ \A q : Skies!FlattenSeq(q) = FlattenSeq(q)
    /\ \A S : Skies!IsFiniteSet(S) = IsFiniteSet(S)
<1>1. \A S : Skies!SetToSeq(S) = SetToSeq(S)
  BY DEF Skies!SetToSeq, SetToSeq, Skies!IsInjective, IsInjective,
         Skies!Cardinality, Cardinality, Skies!IsFiniteSet, IsFiniteSet
<1>2. \A q : Skies!FlattenSeq(q) = FlattenSeq(q)
  BY DEF Skies!FlattenSeq, FlattenSeq
<1>3. \A S : Skies!IsFiniteSet(S) = IsFiniteSet(S)
  BY DEF Skies!IsFiniteSet, IsFiniteSet
<1> QED
  BY <1>1, <1>2, <1>3

LEMMA SkyOf ==
    ASSUME NEW w \in Skies!Kinds
    PROVE  /\ Skies!Sky(w) \in [SkyFields -> SkyValue]
           /\ w \in Skies!Raining => Skies!Sky(w)["raining"] = TRUE
           /\ w \notin Skies!Raining => Skies!Sky(w)["raining"] = FALSE
           /\ Skies!Sky(w)["rain"] = Skies!Strength(w \in Skies!Raining)
           /\ Skies!Sky(w)["thunder"] = Skies!Strength(w = "thunder")
<1> DEFINE r == Skies!Strength(w \in Skies!Raining)
           t == Skies!Strength(w = "thunder")
           u == (w \in Skies!Raining)
<1>1. Skies!Sky(w) = [raining |-> u, rain |-> r, thunder |-> t]
  BY DEF Skies!Sky
<1>2. r \in SkyValue /\ t \in SkyValue
  BY DEF Skies!Strength, SkyValue
<1>3. u \in BOOLEAN /\ u \in SkyValue
  BY DEF SkyValue
<1>4. /\ w \in Skies!Raining => u = TRUE
      /\ w \notin Skies!Raining => u = FALSE
  OBVIOUS
<1> HIDE DEF r, t, u
<1>5. /\ Skies!Sky(w) \in [SkyFields -> SkyValue]
      /\ Skies!Sky(w)["raining"] = u
      /\ Skies!Sky(w)["rain"] = r
      /\ Skies!Sky(w)["thunder"] = t
  BY <1>1, <1>2, <1>3 DEF SkyFields
<1> QED
  BY <1>4, <1>5 DEF r, t

\* The events that say a weather.
LEMMA EventsOf ==
    ASSUME NEW c \in Conn, NEW w \in Skies!Kinds
    PROVE  /\ Skies!Levels(c, w) \in Seq(SkyEvent)
           /\ Says(Skies!Levels(c, w), w)
           /\ \A e : Listed(Skies!Levels(c, w), e) => e.to = c
           /\ Announces(Skies!Levels(c, w), c, "rain")
           /\ Announces(Skies!Levels(c, w), c, "thunder")
           /\ w \in Skies!Raining =>
                 /\ Skies!Begin(c) \in Seq(SkyEvent)
                 /\ Says(Skies!Begin(c), w)
                 /\ \A e : Listed(Skies!Begin(c), e) => e.to = c
                 /\ Announces(Skies!Begin(c), c, "raining")
           /\ w \notin Skies!Raining =>
                 /\ Skies!Ended(c) \in Seq(SkyEvent)
                 /\ Says(Skies!Ended(c), w)
                 /\ \A e : Listed(Skies!Ended(c), e) => e.to = c
                 /\ Announces(Skies!Ended(c), c, "raining")
<1> DEFINE r == Skies!Event(c, "rain", Skies!Strength(w \in Skies!Raining))
           t == Skies!Event(c, "thunder", Skies!Strength(w = "thunder"))
           b == Skies!Event(c, "raining", TRUE)
           n == Skies!Event(c, "raining", FALSE)
<1>1. /\ r \in SkyEvent /\ r.to = c /\ r.field = "rain" /\ r.value = Skies!Sky(w)["rain"]
      /\ t \in SkyEvent /\ t.to = c /\ t.field = "thunder" /\ t.value = Skies!Sky(w)["thunder"]
  BY SkyOf DEF Skies!Event, SkyEvent, SkyFields, SkyValue, Skies!Strength
<1>2. /\ b \in SkyEvent /\ b.to = c /\ b.field = "raining" /\ b.value = TRUE
      /\ n \in SkyEvent /\ n.to = c /\ n.field = "raining" /\ n.value = FALSE
  BY DEF Skies!Event, SkyEvent, SkyFields, SkyValue
<1>3. Skies!Levels(c, w) = <<r, t>> /\ Skies!Begin(c) = <<b>> /\ Skies!Ended(c) = <<n>>
  BY DEF Skies!Levels, Skies!Begin, Skies!Ended
<1> HIDE DEF r, t, b, n
<1>4. <<r, t>> \in Seq(SkyEvent) /\ \A e : Listed(<<r, t>>, e) <=> e = r \/ e = t
  BY <1>1, TwoListed
<1>5. /\ <<b>> \in Seq(SkyEvent) /\ \A e : Listed(<<b>>, e) <=> e = b
      /\ <<n>> \in Seq(SkyEvent) /\ \A e : Listed(<<n>>, e) <=> e = n
  BY <1>2, OneListed
<1>6. w \in Skies!Raining => Skies!Sky(w)["raining"] = TRUE
  BY SkyOf
<1>7. w \notin Skies!Raining => Skies!Sky(w)["raining"] = FALSE
  BY SkyOf
<1>8. /\ Skies!Levels(c, w) \in Seq(SkyEvent)
      /\ Says(Skies!Levels(c, w), w)
      /\ \A e : Listed(Skies!Levels(c, w), e) => e.to = c
      /\ Announces(Skies!Levels(c, w), c, "rain")
      /\ Announces(Skies!Levels(c, w), c, "thunder")
  BY <1>1, <1>3, <1>4 DEF Says, Announces
<1>9. w \in Skies!Raining =>
                 /\ Skies!Begin(c) \in Seq(SkyEvent)
                 /\ Says(Skies!Begin(c), w)
                 /\ \A e : Listed(Skies!Begin(c), e) => e.to = c
                 /\ Announces(Skies!Begin(c), c, "raining")
  BY <1>2, <1>3, <1>5, <1>6 DEF Says, Announces
<1>10. w \notin Skies!Raining =>
                 /\ Skies!Ended(c) \in Seq(SkyEvent)
                 /\ Says(Skies!Ended(c), w)
                 /\ \A e : Listed(Skies!Ended(c), e) => e.to = c
                 /\ Announces(Skies!Ended(c), c, "raining")
  BY <1>2, <1>3, <1>5, <1>7 DEF Says, Announces
<1> QED
  BY <1>8, <1>9, <1>10

LEMMA ChangeOf ==
    ASSUME NEW c \in Conn, NEW v \in Skies!Kinds, NEW w \in Skies!Kinds
    PROVE  /\ Skies!Change(c, v, w) \in Seq(SkyEvent)
           /\ Says(Skies!Change(c, v, w), w)
           /\ \A e : Listed(Skies!Change(c, v, w), e) => e.to = c
           /\ \A f \in SkyFields :
                 \/ Announces(Skies!Change(c, v, w), c, f)
                 \/ f = "raining" /\ (v \in Skies!Raining <=> w \in Skies!Raining)
<1> DEFINE first == IF w \in Skies!Raining /\ v \notin Skies!Raining THEN Skies!Begin(c)
                    ELSE IF v \in Skies!Raining /\ w \notin Skies!Raining THEN Skies!Ended(c)
                    ELSE <<>>
           levels == Skies!Levels(c, w)
<1>1. Skies!Change(c, v, w) = first \o levels
  BY DEF Skies!Change
<1>2. /\ levels \in Seq(SkyEvent)
      /\ Says(levels, w)
      /\ \A e : Listed(levels, e) => e.to = c
      /\ Announces(levels, c, "rain")
      /\ Announces(levels, c, "thunder")
  BY EventsOf
<1>3. /\ first \in Seq(SkyEvent)
      /\ Says(first, w)
      /\ \A e : Listed(first, e) => e.to = c
      /\ (v \in Skies!Raining <=> w \in Skies!Raining) \/ Announces(first, c, "raining")
  BY EventsOf, NoneListed DEF Says, Announces
<1> HIDE DEF first, levels
<1>4. first \o levels \in Seq(SkyEvent)
      /\ \A e : Listed(first \o levels, e) <=> Listed(first, e) \/ Listed(levels, e)
  BY <1>2, <1>3, ConcatLists
<1>5. Says(first \o levels, w)
  BY <1>2, <1>3, <1>4 DEF Says
<1>6. ASSUME NEW f \in SkyFields
      PROVE  \/ Announces(first \o levels, c, f)
             \/ f = "raining" /\ (v \in Skies!Raining <=> w \in Skies!Raining)
  BY <1>2, <1>3, <1>4 DEF Announces, SkyFields
<1> QED
  BY <1>1, <1>2, <1>3, <1>4, <1>5, <1>6

LEMMA StateOf ==
    ASSUME SkyType, NEW c \in Conn
    PROVE  /\ Skies!State(c) \in Seq(SkyEvent)
           /\ Says(Skies!State(c), wWeather)
           /\ \A e : Listed(Skies!State(c), e) => e.to = c
           /\ IF wWeather = "clear" THEN Skies!State(c) = <<>>
              ELSE \A f \in SkyFields : Announces(Skies!State(c), c, f)
<1> DEFINE b == Skies!Begin(c)
           l == Skies!Levels(c, wWeather)
<1>1. wWeather \in Skies!Kinds
  BY DEF SkyType
<1>2. wWeather \in Skies!Raining <=> wWeather # "clear"
  BY <1>1 DEF Skies!Kinds, Skies!Raining
<1>3. CASE wWeather = "clear"
  <2>1. Skies!State(c) = <<>>
    BY <1>2, <1>3 DEF Skies!State
  <2> QED
    BY <1>3, <2>1, NoneListed DEF Says
<1>4. CASE wWeather # "clear"
  <2>1. Skies!State(c) = b \o l
    BY <1>2, <1>4 DEF Skies!State
  <2>2. /\ b \in Seq(SkyEvent) /\ l \in Seq(SkyEvent)
        /\ Says(b, wWeather) /\ Says(l, wWeather)
        /\ \A e : Listed(b, e) \/ Listed(l, e) => e.to = c
        /\ Announces(b, c, "raining") /\ Announces(l, c, "rain") /\ Announces(l, c, "thunder")
    BY <1>1, <1>2, <1>4, EventsOf
  <2> HIDE DEF b, l
  <2>3. b \o l \in Seq(SkyEvent) /\ \A e : Listed(b \o l, e) <=> Listed(b, e) \/ Listed(l, e)
    BY <2>2, ConcatLists
  <2> QED
    BY <1>4, <2>1, <2>2, <2>3 DEF Says, Announces, SkyFields
<1> QED
  BY <1>3, <1>4

LEMMA BroadcastOf ==
    ASSUME SkyType, NEW v \in Skies!Kinds, NEW w \in Skies!Kinds
    PROVE  /\ Skies!Broadcast(v, w) \in Seq(SkyEvent)
           /\ Says(Skies!Broadcast(v, w), w)
           /\ \A e : Listed(Skies!Broadcast(v, w), e) => e.to \in wOnline
           /\ \A c \in wOnline, f \in SkyFields :
                 \/ Announces(Skies!Broadcast(v, w), c, f)
                 \/ f = "raining" /\ (v \in Skies!Raining <=> w \in Skies!Raining)
           /\ wOnline # {} => Skies!Broadcast(v, w) # <<>>
<1> DEFINE F == [c \in wOnline |-> Skies!Change(c, v, w)]
           l == SetToSeq(wOnline)
           q == [i \in 1..Len(l) |-> F[l[i]]]
           s == Skies!Broadcast(v, w)
<1>1. wOnline \in SUBSET Conn /\ IsFiniteSet(wOnline)
  BY SkyAssumption, SkyLists, FS_Subset DEF SkyType, Skies!WeatherAssumption
<1>2. l \in Seq(wOnline)
  BY <1>1, SetAsList
<1>3. F \in [wOnline -> Seq(SkyEvent)]
  BY <1>1, ChangeOf
<1>4. s = FlattenSeq([i \in 1..Len(l) |-> Skies!Change(l[i], v, w)])
  BY SkyLists DEF Skies!Broadcast
<1>5. \A i \in 1..Len(l) : l[i] \in wOnline
  BY <1>2
<1>6. s = FlattenSeq(q)
  BY <1>4, <1>5
<1>7. /\ FlattenSeq(q) \in Seq(SkyEvent)
      /\ \A e : Listed(FlattenSeq(q), e) <=> \E c \in wOnline : Listed(F[c], e)
  <2> HIDE DEF F
  <2> QED
    BY <1>1, <1>3, RoundLists
<1>8. /\ s \in Seq(SkyEvent)
      /\ \A e : Listed(s, e) <=> \E c \in wOnline : Listed(Skies!Change(c, v, w), e)
  BY <1>6, <1>7
<1> HIDE DEF s
<1>9. Says(s, w) /\ \A e : Listed(s, e) => e.to \in wOnline
  BY <1>1, <1>8, ChangeOf DEF Says
<1>10. ASSUME NEW c \in wOnline, NEW f \in SkyFields
       PROVE  \/ Announces(s, c, f)
              \/ f = "raining" /\ (v \in Skies!Raining <=> w \in Skies!Raining)
  BY <1>1, <1>8, ChangeOf DEF Announces
<1>11. wOnline # {} => s # <<>>
  <2>1. \A c \in wOnline : Announces(s, c, "rain")
    BY <1>10 DEF SkyFields
  <2> QED
    BY <2>1, NoneListed DEF Announces
<1> QED
  BY <1>8, <1>9, <1>10, <1>11 DEF s

\* A task that sends events begins with them.
LEMMA SendsTodo ==
    ASSUME SkyType, NEW t \in Skies!Task, NEW s \in Seq(SkyEvent), wTodo[t] = <<>>, Skies!Sends(t, s)
    PROVE  /\ wTodo' \in [Skies!Task -> Seq(SkyEvent)]
           /\ wTodo'[t] = s
           /\ \A u \in Skies!Task : u # t => wTodo'[u] = wTodo[u]
           /\ s = <<>> => \A u \in Skies!Task : wTodo'[u] = wTodo[u]
           /\ wMixed' \in BOOLEAN
           /\ ~wMixed' => ~wMixed /\ (s # <<>> => \A u \in Skies!Task : wTodo[u] = <<>>)
<1>1. wTodo' = [wTodo EXCEPT ![t] = s] /\ wTodo \in [Skies!Task -> Seq(SkyEvent)] /\ wMixed \in BOOLEAN
  BY DEF SkyType, Skies!Sends
<1>2. wMixed' = (wMixed \/ (s # <<>> /\ \E u \in Skies!Task : wTodo[u] # <<>>))
  BY DEF Skies!Sends
<1>3. wMixed' \in BOOLEAN /\ (~wMixed' => ~wMixed /\ (s # <<>> => \A u \in Skies!Task : wTodo[u] = <<>>))
  BY <1>1, <1>2, Zenon
<1> QED
  BY <1>1, <1>3

\* Whoever changes the weather and tells everyone of it.
LEMMA WeatherChanges ==
    ASSUME SkyInv, NEW t \in Skies!Task, wTodo[t] = <<>>, wWeather' \in Skies!Kinds, wManager' \in Skies!Kinds,
           Skies!Sends(t, IF wWeather' # wWeather THEN Skies!Broadcast(wWeather, wWeather') ELSE <<>>),
           UNCHANGED <<wOnline, wTold, wSky>>
    PROVE  SkyInv'
<1>1. SkyType /\ SkyFresh /\ SkyTrue /\ wWeather \in Skies!Kinds
  BY DEF SkyInv, SkyType
<1>2. CASE wWeather' = wWeather
  <2>1. Skies!Sends(t, <<>>)
    BY <1>2
  <2>2. wTodo' \in [Skies!Task -> Seq(SkyEvent)] /\ wMixed' \in BOOLEAN
    BY <1>1, <2>1, SendsTodo, NoneListed
  <2>3. (\A u \in Skies!Task : wTodo'[u] = wTodo[u]) /\ (~wMixed' => ~wMixed)
    BY <1>1, <2>1, SendsTodo, NoneListed
  <2>4. SkyType'
    BY <1>1, <2>2 DEF SkyType
  <2>5. SkyFresh'
    BY <1>1, <2>3 DEF SkyFresh
  <2>6. SkyTrue'
    BY <1>1, <1>2, <2>3 DEF SkyTrue
  <2> QED
    BY <2>4, <2>5, <2>6 DEF SkyInv
<1>3. CASE wWeather' # wWeather
  <2> DEFINE v == wWeather
  <2>0. PICK w \in Skies!Kinds : w = wWeather'
    OBVIOUS
  <2>10. PICK s : s = Skies!Broadcast(v, w)
    OBVIOUS
  <2>1. Skies!Sends(t, s)
    BY <1>3, <2>0, <2>10
  <2>11. /\ Skies!Broadcast(v, w) \in Seq(SkyEvent)
         /\ Says(Skies!Broadcast(v, w), w)
         /\ \A e : Listed(Skies!Broadcast(v, w), e) => e.to \in wOnline
         /\ \A c \in wOnline, f \in SkyFields :
               \/ Announces(Skies!Broadcast(v, w), c, f)
               \/ f = "raining" /\ (v \in Skies!Raining <=> w \in Skies!Raining)
         /\ wOnline # {} => Skies!Broadcast(v, w) # <<>>
    BY <1>1, BroadcastOf
  <2>2. /\ s \in Seq(SkyEvent)
        /\ Says(s, w)
        /\ \A e : Listed(s, e) => e.to \in wOnline
        /\ \A c \in wOnline, f \in SkyFields :
              \/ Announces(s, c, f)
              \/ f = "raining" /\ (v \in Skies!Raining <=> w \in Skies!Raining)
        /\ wOnline # {} => s # <<>>
    BY <2>10, <2>11
  <2>3. /\ wTodo' \in [Skies!Task -> Seq(SkyEvent)]
        /\ wTodo'[t] = s
        /\ \A u \in Skies!Task : u # t => wTodo'[u] = wTodo[u]
        /\ wMixed' \in BOOLEAN
        /\ ~wMixed' => ~wMixed /\ (s # <<>> => \A u \in Skies!Task : wTodo[u] = <<>>)
    BY <1>1, <2>1, <2>2, SendsTodo
  <2>4. SkyType'
    BY <1>1, <2>3 DEF SkyType
  <2>5. SkyFresh'
    BY <1>1, <2>2, <2>3 DEF SkyFresh
  <2>6. ASSUME ~wMixed'
        PROVE  /\ \A u \in Skies!Task : wTodo[u] = <<>>
               /\ \A u \in Skies!Task : \A e : ~Listed(wTodo[u], e)
    <3>1. ~wMixed /\ (s # <<>> => \A u \in Skies!Task : wTodo[u] = <<>>)
      BY <2>3, <2>6
    <3>2. CASE wOnline # {}
      BY <2>2, <3>1, <3>2, NoneListed
    <3>3. CASE wOnline = {}
      <4>1. ASSUME NEW u \in Skies!Task PROVE wTodo[u] = <<>>
        <5>1. wTodo[u] \in Seq(SkyEvent) /\ \A e \in SkyEvent : ~Listed(wTodo[u], e)
          BY <1>1, <3>3 DEF SkyType, SkyFresh
        <5> QED
          BY <5>1, ListedIn
      <4> QED
        BY <4>1, NoneListed
    <3> QED
      BY <3>2, <3>3
  <2>7. ASSUME ~wMixed', NEW u \in Skies!Task PROVE Says(wTodo'[u], w)
    BY <2>2, <2>3, <2>6, <2>7, NoneListed DEF Says
  <2>8. ASSUME ~wMixed', NEW c \in Conn, NEW f \in SkyFields, c \in wTold \/ w = "clear",
               ~Announces(s, c, f)
        PROVE  wSky[c][f] = Skies!Sky(w)[f]
    <3>1. ~wMixed
      BY <2>3, <2>8
    <3>2. CASE c \notin wOnline
      <4>1. w = "clear"
        BY <1>1, <2>8, <3>2 DEF SkyType
      <4> QED
        BY <1>1, <3>2, <4>1 DEF SkyFresh
    <3>3. CASE c \in wOnline
      <4>1. f = "raining" /\ (v \in Skies!Raining <=> w \in Skies!Raining)
        BY <2>2, <2>8, <3>3
      <4>2. c \in wTold
        <5>1. w = "clear" => v = "clear"
          BY <1>1, <4>1 DEF Skies!Kinds, Skies!Raining
        <5> QED
          BY <1>3, <2>0, <2>8, <5>1
      <4>3. ~Announces(wTodo[t], c, f) /\ \A u \in Skies!Task : ~Announces(wTodo[u], c, f)
        BY <2>6, <2>8 DEF Announces
      <4>4. wSky[c][f] = Skies!Sky(v)[f]
        BY <1>1, <3>1, <4>2, <4>3 DEF SkyTrue
      <4>5. Skies!Sky(v)["raining"] = Skies!Sky(w)["raining"]
        BY <1>1, <4>1, SkyOf
      <4> QED
        BY <4>1, <4>4, <4>5
    <3> QED
      BY <3>2, <3>3
  <2>9. SkyTrue'
    <3> SUFFICES ASSUME ~wMixed' PROVE
           /\ \A u \in Skies!Task : Says(wTodo'[u], wWeather')
           /\ \A c \in Conn, f \in SkyFields :
                 c \in wTold' \/ wWeather' = "clear" =>
                    \/ wSky'[c][f] = Skies!Sky(wWeather')[f]
                    \/ \E u \in Skies!Task : Announces(wTodo'[u], c, f)
      BY DEF SkyTrue, Says, Announces, Skies!Sky, Skies!Strength, Skies!Raining
    <3>1. \A u \in Skies!Task : Says(wTodo'[u], wWeather')
      BY <2>0, <2>7
    <3>2. ASSUME NEW c \in Conn, NEW f \in SkyFields, c \in wTold' \/ wWeather' = "clear"
          PROVE  \/ wSky'[c][f] = Skies!Sky(wWeather')[f]
                 \/ \E u \in Skies!Task : Announces(wTodo'[u], c, f)
      BY <2>0, <2>3, <2>8, <3>2
    <3> QED
      BY <3>1, <3>2
  <2> QED
    BY <2>4, <2>5, <2>9 DEF SkyInv
<1> QED
  BY <1>2, <1>3

LEMMA SkyTick == SkyInv /\ Skies!Tick => SkyInv'
<1> SUFFICES ASSUME SkyInv, Skies!Tick PROVE SkyInv'
  OBVIOUS
<1>1. wManager' \in Skies!Kinds
  BY DEF SkyInv, SkyType, Skies!Tick, Skies!Count, Skies!Kinds, Skies!manager
<1>2. wWeather' \in Skies!Kinds
  BY <1>1 DEF Skies!Tick
<1>3. Loop \in Skies!Task /\ wTodo[Loop] = <<>>
  BY DEF Skies!Tick, Skies!Free, Skies!Task
<1>4. /\ Skies!Sends(Loop, IF wWeather' # wWeather THEN Skies!Broadcast(wWeather, wWeather') ELSE <<>>)
      /\ UNCHANGED <<wOnline, wTold, wSky>>
  BY DEF Skies!Tick, Skies!people
<1> QED
  BY <1>1, <1>2, <1>3, <1>4, WeatherChanges

LEMMA SkySet ==
    \A w \in Skies!Kinds, d \in Durations : SkyInv /\ Skies!SetWeather(w, d) => SkyInv'
<1> SUFFICES ASSUME NEW w \in Skies!Kinds, NEW d \in Durations, SkyInv, Skies!SetWeather(w, d)
             PROVE SkyInv'
  OBVIOUS
<1>1. wManager' \in Skies!Kinds /\ wWeather' = w
  BY DEF Skies!SetWeather
<1>2. Caller \in Skies!Task /\ wTodo[Caller] = <<>>
  BY DEF Skies!SetWeather, Skies!Free, Skies!Task
<1>3. /\ Skies!Sends(Caller, IF wWeather' # wWeather THEN Skies!Broadcast(wWeather, wWeather') ELSE <<>>)
      /\ UNCHANGED <<wOnline, wTold, wSky>>
  BY <1>1 DEF Skies!SetWeather, Skies!people
<1> QED
  BY <1>1, <1>2, <1>3, WeatherChanges

LEMMA SkyCommand == \A w \in Skies!Kinds : SkyInv /\ Skies!Command(w) => SkyInv'
<1> SUFFICES ASSUME NEW w \in Skies!Kinds, SkyInv, Skies!Command(w) PROVE SkyInv'
  OBVIOUS
<1>1. SkyType' /\ SkyFresh'
  BY DEF SkyInv, SkyType, SkyFresh, Skies!Command, Skies!manager, Skies!people
<1>2. wMixed'
  BY DEF Skies!Command
<1> QED
  BY <1>1, <1>2 DEF SkyInv, SkyTrue

LEMMA SkyCycle == SkyInv /\ Skies!SwitchCycle => SkyInv'
BY DEF SkyInv, SkyType, SkyFresh, SkyTrue, Skies!SwitchCycle, Skies!manager, Skies!people, Skies!history

LEMMA SkyEnter == \A c \in Conn : SkyInv /\ Skies!Enter(c) => SkyInv'
<1> SUFFICES ASSUME NEW c \in Conn, SkyInv, Skies!Enter(c) PROVE SkyInv'
  OBVIOUS
<1>1. /\ wOnline' = wOnline \cup {c}
      /\ UNCHANGED <<wManager, wWeather, wTold, wSky, wTodo, wMixed>>
  BY DEF Skies!Enter, Skies!manager, Skies!history
<1>2. SkyType' /\ SkyFresh'
  BY <1>1 DEF SkyInv, SkyType, SkyFresh
<1>3. SkyTrue'
  BY <1>1 DEF SkyInv, SkyTrue
<1> QED
  BY <1>2, <1>3 DEF SkyInv

LEMMA SkyJoin == \A c \in Conn : SkyInv /\ Skies!Join(c) => SkyInv'
<1> SUFFICES ASSUME NEW c \in Conn, SkyInv, Skies!Join(c) PROVE SkyInv'
  OBVIOUS
<1> DEFINE s == Skies!State(c)
<1>1. /\ wTold' = wTold \cup {c} /\ c \in wOnline /\ wTodo[c] = <<>> /\ c \in Skies!Task
      /\ Skies!Sends(c, s)
      /\ UNCHANGED <<wManager, wWeather, wOnline, wSky>>
  BY DEF Skies!Join, Skies!Free, Skies!manager, Skies!Task
<1>2. SkyType /\ SkyFresh /\ SkyTrue
  BY DEF SkyInv
<1>3. /\ s \in Seq(SkyEvent)
      /\ Says(s, wWeather)
      /\ \A e : Listed(s, e) => e.to = c
      /\ IF wWeather = "clear" THEN s = <<>> ELSE \A f \in SkyFields : Announces(s, c, f)
  BY <1>2, StateOf
<1> HIDE DEF s
<1>4. /\ wTodo' \in [Skies!Task -> Seq(SkyEvent)]
      /\ wTodo'[c] = s
      /\ \A u \in Skies!Task : u # c => wTodo'[u] = wTodo[u]
      /\ wMixed' \in BOOLEAN
      /\ ~wMixed' => ~wMixed
  BY <1>1, <1>2, <1>3, SendsTodo
<1>5. SkyType'
  BY <1>1, <1>2, <1>4 DEF SkyType
<1>6. SkyFresh'
  BY <1>1, <1>2, <1>3, <1>4 DEF SkyFresh
<1>7. ASSUME ~wMixed', NEW u \in Skies!Task PROVE Says(wTodo'[u], wWeather)
  BY <1>2, <1>3, <1>4, <1>7 DEF SkyTrue
<1>8. ASSUME ~wMixed', NEW d \in Conn, NEW f \in SkyFields, d \in wTold' \/ wWeather = "clear"
      PROVE  \/ wSky[d][f] = Skies!Sky(wWeather)[f]
             \/ \E u \in Skies!Task : Announces(wTodo'[u], d, f)
  <2>1. CASE d = c /\ wWeather # "clear"
    BY <1>1, <1>3, <1>4, <2>1
  <2>2. CASE ~(d = c /\ wWeather # "clear")
    <3>1. d \in wTold \/ wWeather = "clear"
      BY <1>1, <1>8, <2>2
    <3>2. \/ wSky[d][f] = Skies!Sky(wWeather)[f]
          \/ \E u \in Skies!Task : Announces(wTodo[u], d, f)
      BY <1>2, <1>4, <1>8, <3>1 DEF SkyTrue
    <3>3. ~Announces(wTodo[c], d, f)
      BY <1>1, NoneListed DEF Announces
    <3> QED
      BY <1>4, <3>2, <3>3
  <2> QED
    BY <2>1, <2>2
<1>9. SkyTrue'
  BY <1>1, <1>7, <1>8 DEF SkyTrue
<1> QED
  BY <1>5, <1>6, <1>9 DEF SkyInv

LEMMA SkySend == \A t \in Skies!Task : SkyInv /\ Skies!Send(t) => SkyInv'
<1> SUFFICES ASSUME NEW t \in Skies!Task, SkyInv, Skies!Send(t) PROVE SkyInv'
  OBVIOUS
<1> DEFINE e == Head(wTodo[t])
<1>1. SkyType /\ SkyFresh /\ SkyTrue
  BY DEF SkyInv
<1>2. /\ wTodo[t] # <<>>
      /\ wSky' = [wSky EXCEPT ![e.to][e.field] = e.value]
      /\ wTodo' = [wTodo EXCEPT ![t] = Tail(wTodo[t])]
      /\ UNCHANGED <<wManager, wWeather, wOnline, wTold, wMixed>>
  BY DEF Skies!Send, Skies!manager, Skies!people, Skies!history
<1>3. wTodo[t] \in Seq(SkyEvent)
  BY <1>1 DEF SkyType
<1>4. /\ Tail(wTodo[t]) \in Seq(SkyEvent)
      /\ e \in SkyEvent /\ Listed(wTodo[t], e)
      /\ \A x : Listed(wTodo[t], x) <=> x = e \/ Listed(Tail(wTodo[t]), x)
  BY <1>2, <1>3, TailLists
<1> HIDE DEF e
<1>5. /\ wTodo' \in [Skies!Task -> Seq(SkyEvent)]
      /\ \A u \in Skies!Task : \A x :
            /\ Listed(wTodo'[u], x) => Listed(wTodo[u], x)
            /\ Listed(wTodo[u], x) => x = e \/ Listed(wTodo'[u], x)
  BY <1>1, <1>2, <1>4 DEF SkyType
<1>6. e.to \in Conn /\ e.field \in SkyFields /\ e.value \in SkyValue
  BY <1>4 DEF SkyEvent
<1>7. wSky \in [Conn -> [SkyFields -> SkyValue]]
  BY <1>1 DEF SkyType
<1>8. /\ wSky' \in [Conn -> [SkyFields -> SkyValue]]
      /\ \A c \in Conn : \A f \in SkyFields :
            wSky'[c][f] = IF c = e.to /\ f = e.field THEN e.value ELSE wSky[c][f]
      /\ \A c \in Conn : c # e.to => wSky'[c] = wSky[c]
  BY <1>2, <1>6, <1>7
<1>9. e.to \in wOnline
  BY <1>1, <1>4 DEF SkyFresh
<1>10. SkyType'
  BY <1>1, <1>2, <1>5, <1>8 DEF SkyType
<1>11. SkyFresh'
  BY <1>1, <1>2, <1>5, <1>8, <1>9 DEF SkyFresh
<1>12. ASSUME ~wMixed, NEW u \in Skies!Task PROVE Says(wTodo'[u], wWeather)
  <2>1. Says(wTodo[u], wWeather)
    BY <1>1, <1>12 DEF SkyTrue
  <2> QED
    BY <1>5, <2>1 DEF Says
<1>13. ASSUME ~wMixed PROVE e.value = Skies!Sky(wWeather)[e.field]
  BY <1>1, <1>4, <1>13 DEF SkyTrue, Says
<1>14. ASSUME ~wMixed, NEW c \in Conn, NEW f \in SkyFields, c \in wTold \/ wWeather = "clear"
       PROVE  \/ wSky'[c][f] = Skies!Sky(wWeather)[f]
              \/ \E u \in Skies!Task : Announces(wTodo'[u], c, f)
  <2>1. CASE c = e.to /\ f = e.field
    BY <1>8, <1>13, <1>14, <2>1
  <2>2. CASE ~(c = e.to /\ f = e.field)
    <3>1. \/ wSky[c][f] = Skies!Sky(wWeather)[f]
          \/ \E u \in Skies!Task : Announces(wTodo[u], c, f)
      BY <1>1, <1>14 DEF SkyTrue
    <3>2. \A u \in Skies!Task : Announces(wTodo[u], c, f) => Announces(wTodo'[u], c, f)
      BY <1>5, <2>2 DEF Announces
    <3> QED
      BY <1>8, <2>2, <3>1, <3>2
  <2> QED
    BY <2>1, <2>2
<1>15. SkyTrue'
  BY <1>2, <1>12, <1>14 DEF SkyTrue
<1> QED
  BY <1>10, <1>11, <1>15 DEF SkyInv

LEMMA SkyInit == Skies!Init => SkyInv
<1> SUFFICES ASSUME Skies!Init PROVE SkyInv
  OBVIOUS
<1>1. \A c \in Conn : wSky[c] = Skies!Sky("clear")
  <2>1. "clear" \notin Skies!Raining /\ "clear" # "thunder"
    BY DEF Skies!Raining
  <2>2. Skies!Strength("clear" \in Skies!Raining) = 0 /\ Skies!Strength("clear" = "thunder") = 0
    BY <2>1 DEF Skies!Strength
  <2>3. ("clear" \in Skies!Raining) = FALSE
    BY <2>1
  <2>4. Skies!Sky("clear") = [raining |-> FALSE, rain |-> 0, thunder |-> 0]
    BY <2>2, <2>3 DEF Skies!Sky
  <2> QED
    BY <2>4 DEF Skies!Init
<1>2. Skies!Sky("clear") \in [SkyFields -> SkyValue]
  BY SkyOf DEF Skies!Kinds
<1>3. wSky \in [Conn -> [SkyFields -> SkyValue]]
  BY <1>1, <1>2 DEF Skies!Init
<1>4. \A t \in Skies!Task : wTodo[t] = <<>>
  BY DEF Skies!Init
<1>5. SkyType
  BY <1>3, NoneListed DEF Skies!Init, SkyType, Skies!Kinds
<1>6. SkyFresh
  BY <1>1, <1>4, NoneListed DEF SkyFresh
<1>7. SkyTrue
  <2>1. \A t \in Skies!Task : Says(wTodo[t], wWeather)
    BY <1>4, NoneListed DEF Says
  <2> QED
    BY <1>1, <2>1 DEF SkyTrue, Skies!Init
<1> QED
  BY <1>5, <1>6, <1>7 DEF SkyInv

LEMMA SkyStep == SkyInv /\ [Skies!Next]_(Skies!vars) => SkyInv'
<1> SUFFICES ASSUME SkyInv, [Skies!Next]_(Skies!vars) PROVE SkyInv'
  OBVIOUS
<1>1. CASE UNCHANGED Skies!vars
  BY <1>1 DEF SkyInv, SkyType, SkyFresh, SkyTrue, Skies!vars, Skies!manager, Skies!people, Skies!history
<1>2. CASE Skies!Tick
  BY <1>2, SkyTick
<1>3. CASE Skies!SwitchCycle
  BY <1>3, SkyCycle
<1>4. ASSUME NEW w \in Skies!Kinds, Skies!Command(w) PROVE SkyInv'
  BY <1>4, SkyCommand
<1>5. ASSUME NEW w \in Skies!Kinds, NEW d \in Durations, Skies!SetWeather(w, d) PROVE SkyInv'
  BY <1>5, SkySet
<1>6. ASSUME NEW c \in Conn, Skies!Enter(c) PROVE SkyInv'
  BY <1>6, SkyEnter
<1>7. ASSUME NEW c \in Conn, Skies!Join(c) PROVE SkyInv'
  BY <1>7, SkyJoin
<1>8. ASSUME NEW t \in Skies!Task, Skies!Send(t) PROVE SkyInv'
  BY <1>8, SkySend
<1> QED
  BY <1>1, <1>2, <1>3, <1>4, <1>5, <1>6, <1>7, <1>8 DEF Skies!Next

LEMMA SkyInvShows == SkyInv => SkyIsWeather
<1> SUFFICES ASSUME SkyInv, Skies!Quiet, ~wMixed, NEW c \in wTold
             PROVE  wSky[c] = Skies!Sky(wWeather)
  BY DEF SkyIsWeather, Skies!SkyIsWeather
<1>1. c \in Conn /\ wSky[c] \in [SkyFields -> SkyValue]
  BY DEF SkyInv, SkyType
<1>2. \A t \in Skies!Task : \A f \in SkyFields : ~Announces(wTodo[t], c, f)
  BY NoneListed DEF Skies!Quiet, Announces
<1>3. \A f \in SkyFields : wSky[c][f] = Skies!Sky(wWeather)[f]
  BY <1>1, <1>2 DEF SkyInv, SkyTrue
<1>4. Skies!Sky(wWeather) \in [SkyFields -> SkyValue]
  BY SkyOf DEF SkyInv, SkyType
<1> QED
  BY <1>1, <1>3, <1>4

\* The weather a player sees is the server's as soon as nobody is telling of it,
\* whoever joined while it changed; unless the events of two tasks overlapped or
\* /weather was used (time_weather.py, join.py, server.py).
THEOREM SkyTold == Skies!Spec => []SkyIsWeather
BY SkyInit, SkyStep, SkyInvShows, PTL DEF Skies!Spec

-------------------------------------------------------------------------------
(* PlayerVisibility. *)

PeerTasks == {"away", "loading", "tell", "list", "spawn", "playing", "leaving", "gone"}
PeerPackets == [what : {"info", "spawn", "track", "forget", "remove"}, to : Peer, of : Peer]

PeerType ==
    /\ pTask \in [Peer -> PeerTasks]
    /\ pAlive \in [Peer -> BOOLEAN]
    /\ pTodo \in [Peer -> Seq(PeerPackets)]
    /\ pTracked \in [Peer -> SUBSET Peer]
    /\ pListed \in [Peer -> SUBSET Peer]
    /\ pShown \in [Peer -> SUBSET Peer]
    /\ pUnlisted \in [Peer -> SUBSET Peer]
    /\ pMissed \in [Peer -> SUBSET Peer]

\* What a task may have to send, given what it does.
Fits(c, p) ==
    /\ pTask[p.to] # "away" /\ pTask[p.of] # "away"
    /\ p.what \in {"spawn", "track"} => pTask[c] = "spawn" /\ p.to # p.of /\ (c = p.to \/ c = p.of)
    /\ p.what \in {"forget", "remove"} => pTask[c] = "leaving" /\ p.of = c /\ p.to # c

PeerTodo ==
    /\ \A c \in Peer : pTodo[c] # <<>> => pTask[c] \in {"tell", "list", "spawn", "leaving"}
    /\ \A c \in Peer : \A p \in PeerPackets : Listed(pTodo[c], p) => Fits(c, p)

PeerLife ==
    \A c \in Peer :
        /\ pAlive[c] => pTask[c] \in {"loading", "tell", "list", "spawn", "playing"}
        /\ pTask[c] = "away" => pTracked[c] = {} /\ pShown[c] = {}
        /\ \A d \in pTracked[c] : pTask[d] # "away"

SpawnOf(o, c) == Peers!Packet("spawn", o, c)
TrackOf(o, c) == Peers!Packet("track", o, c)
ForgetOf(o, c) == Peers!Packet("forget", o, c)
RemoveOf(o, c) == Peers!Packet("remove", o, c)

\* A spawn is followed by what tracks the player; the first packet may be the second
\* one of the two.
Paired(s) ==
    \A i \in 1..Len(s) :
        /\ s[i].what = "spawn" => i + 1 \in 1..Len(s) /\ s[i+1] = TrackOf(s[i].to, s[i].of)
        /\ s[i].what = "track" /\ i # 1 => s[i-1] = SpawnOf(s[i].to, s[i].of)

PeerPairs == \A c \in Peer : Paired(pTodo[c])

Sees(o, c) == c \in pShown[o] \cup pUnlisted[o]

\* Whoever is tracked for a client was spawned at it, or dropped by it.
PeerSeen ==
    \A o, c \in Peer :
        o # c /\ o \notin OldPeer /\ pAlive[o] /\ pAlive[c] =>
            /\ c \in pTracked[o] => Sees(o, c)
            /\ \A d \in Peer : pTodo[d] # <<>> /\ pTodo[d][1] = TrackOf(o, c) => Sees(o, c)

\* Of two players the one that came later into its last round tells both.
PeerMet ==
    \A o, c \in Peer :
        /\ o # c /\ o \notin OldPeer /\ pAlive[o] /\ pAlive[c]
        /\ pTask[o] \in {"spawn", "playing"} /\ pTask[c] \in {"spawn", "playing"}
        => c \in pTracked[o] \/ \E d \in Peer : Listed(pTodo[d], TrackOf(o, c))

\* Nobody is going to show a player who leaves, and those who do will be told.
PeerLeft ==
    \A o, c \in Peer :
        o # c /\ pAlive[o] /\ pTask[c] \in {"leaving", "gone"} /\ c \notin pMissed[o] =>
            /\ \A d \in Peer : ~Listed(pTodo[d], SpawnOf(o, c)) /\ ~Listed(pTodo[d], TrackOf(o, c))
            /\ c \in pTracked[o] => Listed(pTodo[c], ForgetOf(o, c))
            /\ c \in pShown[o] => Listed(pTodo[c], RemoveOf(o, c))

PeerInv == PeerType /\ PeerTodo /\ PeerLife /\ PeerPairs /\ PeerSeen /\ PeerMet /\ PeerLeft

-------------------------------------------------------------------------------
(* The rounds. *)

LEMMA PeerLists ==
    /\ \A S : Peers!SetToSeq(S) = SetToSeq(S)
    /\ \A q : Peers!FlattenSeq(q) = FlattenSeq(q)
    /\ \A S : Peers!IsFiniteSet(S) = IsFiniteSet(S)
<1>1. \A S : Peers!SetToSeq(S) = SetToSeq(S)
  BY DEF Peers!SetToSeq, SetToSeq, Peers!IsInjective, IsInjective,
         Peers!Cardinality, Cardinality, Peers!IsFiniteSet, IsFiniteSet
<1>2. \A q : Peers!FlattenSeq(q) = FlattenSeq(q)
  BY DEF Peers!FlattenSeq, FlattenSeq
<1>3. \A S : Peers!IsFiniteSet(S) = IsFiniteSet(S)
  BY DEF Peers!IsFiniteSet, IsFiniteSet
<1> QED
  BY <1>1, <1>2, <1>3

LEMMA OnlinePeers == Peers!Online \in SUBSET Peer
BY DEF Peers!Online

LEMMA PacketType ==
    ASSUME NEW o \in Peer, NEW c \in Peer
    PROVE  /\ SpawnOf(o, c) \in PeerPackets /\ TrackOf(o, c) \in PeerPackets
           /\ ForgetOf(o, c) \in PeerPackets /\ RemoveOf(o, c) \in PeerPackets
           /\ SpawnOf(o, c).what = "spawn" /\ SpawnOf(o, c).to = o /\ SpawnOf(o, c).of = c
           /\ TrackOf(o, c).what = "track" /\ TrackOf(o, c).to = o /\ TrackOf(o, c).of = c
           /\ ForgetOf(o, c).what = "forget" /\ ForgetOf(o, c).to = o /\ ForgetOf(o, c).of = c
           /\ RemoveOf(o, c).what = "remove" /\ RemoveOf(o, c).to = o /\ RemoveOf(o, c).of = c
           /\ Peers!Packet("info", o, c) \in PeerPackets
           /\ Peers!Packet("info", o, c).what = "info"
           /\ Peers!Packet("info", o, c).to = o /\ Peers!Packet("info", o, c).of = c
BY DEF SpawnOf, TrackOf, ForgetOf, RemoveOf, Peers!Packet, PeerPackets

\* Of what kind a packet is says which one it is.
LEMMA PacketIs ==
    ASSUME NEW p \in PeerPackets
    PROVE  /\ p.to \in Peer /\ p.of \in Peer
           /\ p.what = "spawn" => p = SpawnOf(p.to, p.of)
           /\ p.what = "track" => p = TrackOf(p.to, p.of)
           /\ p.what = "forget" => p = ForgetOf(p.to, p.of)
           /\ p.what = "remove" => p = RemoveOf(p.to, p.of)
BY DEF SpawnOf, TrackOf, ForgetOf, RemoveOf, Peers!Packet, PeerPackets

LEMMA PacketMeans ==
    ASSUME NEW p \in PeerPackets, NEW o \in Peer, NEW c \in Peer
    PROVE  /\ p = SpawnOf(o, c) <=> p.what = "spawn" /\ p.to = o /\ p.of = c
           /\ p = TrackOf(o, c) <=> p.what = "track" /\ p.to = o /\ p.of = c
           /\ p = ForgetOf(o, c) <=> p.what = "forget" /\ p.to = o /\ p.of = c
           /\ p = RemoveOf(o, c) <=> p.what = "remove" /\ p.to = o /\ p.of = c
<1>1. p.what = "spawn" => p = SpawnOf(p.to, p.of)
  BY PacketIs
<1>2. p.what = "track" => p = TrackOf(p.to, p.of)
  BY PacketIs
<1>3. p.what = "forget" => p = ForgetOf(p.to, p.of)
  BY PacketIs
<1>4. p.what = "remove" => p = RemoveOf(p.to, p.of)
  BY PacketIs
<1> QED
  BY <1>1, <1>2, <1>3, <1>4, PacketType

\* Two of a kind are the same if they tell the same client of the same player.
LEMMA PacketsDiffer ==
    ASSUME NEW o \in Peer, NEW c \in Peer, NEW p \in Peer, NEW q \in Peer
    PROVE  /\ TrackOf(o, c) # SpawnOf(p, q)
           /\ TrackOf(o, c) = TrackOf(p, q) => o = p /\ c = q
<1>1. TrackOf(p, q) \in PeerPackets /\ SpawnOf(p, q) \in PeerPackets /\ SpawnOf(p, q).what = "spawn"
      /\ TrackOf(p, q).to = p /\ TrackOf(p, q).of = q
  BY PacketType
<1>2. TrackOf(p, q) = TrackOf(o, c) => p = o /\ q = c
  BY <1>1, PacketMeans
<1>3. SpawnOf(p, q) # TrackOf(o, c)
  BY <1>1, PacketMeans
<1> QED
  BY <1>2, <1>3

\* Lists of pairs behind each other are pairs.
LEMMA FlattenPairs ==
    ASSUME NEW q \in Seq(Seq(PeerPackets)),
           \A i \in 1..Len(q) : Paired(q[i]) /\ (q[i] # <<>> => q[i][1].what # "track")
    PROVE  /\ Paired(FlattenSeq(q))
           /\ FlattenSeq(q) # <<>> => FlattenSeq(q)[1].what # "track"
<1> DEFINE f == FlattenSeq(q)
<1>1. f \in Seq(PeerPackets) /\ MadeOf(f, q, Len(q))
  BY FlattenMadeOf
<1> HIDE DEF f
<1> SUFFICES ASSUME NEW k \in 1..Len(f)
             PROVE  /\ k = 1 => f[1].what # "track"
                    /\ f[k].what = "spawn" => k + 1 \in 1..Len(f) /\ f[k+1] = TrackOf(f[k].to, f[k].of)
                    /\ f[k].what = "track" /\ k # 1 => f[k-1] = SpawnOf(f[k].to, f[k].of)
  <2>1. f # <<>> => 1 \in 1..Len(f)
    BY <1>1
  <2> QED
    BY <2>1 DEF Paired, f
<1>2. PICK i \in 1..Len(q) : \E j \in 1..Len(q[i]) :
         \A d \in 1..Len(q[i]) : k - j + d \in 1..Len(f) /\ f[k - j + d] = q[i][d]
  BY <1>1 DEF MadeOf
<1>3. PICK j \in 1..Len(q[i]) :
         \A d \in 1..Len(q[i]) : k - j + d \in 1..Len(f) /\ f[k - j + d] = q[i][d]
  BY <1>2
<1>4. q[i] \in Seq(PeerPackets) /\ Len(q[i]) \in Nat /\ Paired(q[i])
  OBVIOUS
<1>5. k - j + j = k /\ f[k] = q[i][j] /\ k - j + (j + 1) = k + 1 /\ k - j + (j - 1) = k - 1
  BY <1>3, <1>4
<1>6. ASSUME f[k].what = "spawn"
      PROVE  k + 1 \in 1..Len(f) /\ f[k+1] = TrackOf(f[k].to, f[k].of)
  <2>1. j + 1 \in 1..Len(q[i]) /\ q[i][j+1] = TrackOf(f[k].to, f[k].of)
    BY <1>4, <1>5, <1>6 DEF Paired
  <2> QED
    BY <1>3, <1>5, <2>1
<1>7. ASSUME f[k].what = "track"
      PROVE  f[k-1] = SpawnOf(f[k].to, f[k].of)
  <2>3. q[i] # <<>>
    BY <1>4
  <2>1. j # 1
    BY <1>5, <1>7, <2>3
  <2>2. j - 1 \in 1..Len(q[i]) /\ q[i][j-1] = SpawnOf(f[k].to, f[k].of)
    BY <1>4, <1>5, <1>7, <2>1 DEF Paired
  <2> QED
    BY <1>3, <1>5, <2>2
<1>8. ASSUME k = 1 PROVE f[1].what # "track"
  <2>1. 1 \in 1..Len(q[i]) /\ k - j + 1 \in 1..Len(f)
    BY <1>3, <1>4
  <2>2. j = 1
    BY <1>8, <2>1
  <2>3. q[i] # <<>>
    BY <1>4
  <2> QED
    BY <1>5, <1>8, <2>2, <2>3
<1> QED
  BY <1>6, <1>7, <1>8

\* The pair of packets of a round, and the two pairs of the last one.
LEMMA SpawnPair ==
    ASSUME NEW o \in Peer, NEW c \in Peer
    PROVE  /\ Peers!Spawn(o, c) \in Seq(PeerPackets)
           /\ Len(Peers!Spawn(o, c)) = 2
           /\ Peers!Spawn(o, c)[1] = SpawnOf(o, c) /\ Peers!Spawn(o, c)[2] = TrackOf(o, c)
           /\ \A p : Listed(Peers!Spawn(o, c), p) <=> p = SpawnOf(o, c) \/ p = TrackOf(o, c)
<1>1. Peers!Spawn(o, c) = <<SpawnOf(o, c), TrackOf(o, c)>>
  BY DEF Peers!Spawn, SpawnOf, TrackOf
<1> QED
  BY <1>1, PacketType, TwoListed

SpawnBoth(c, o) == Peers!Spawn(c, o) \o Peers!Spawn(o, c)

LEMMA SpawnPairs ==
    ASSUME NEW o \in Peer, NEW c \in Peer
    PROVE  /\ SpawnBoth(c, o) \in Seq(PeerPackets)
           /\ Paired(SpawnBoth(c, o)) /\ SpawnBoth(c, o)[1].what # "track"
           /\ \A p : Listed(SpawnBoth(c, o), p) <=>
                     p \in {SpawnOf(c, o), TrackOf(c, o), SpawnOf(o, c), TrackOf(o, c)}
<1> DEFINE a == Peers!Spawn(c, o)
           b == Peers!Spawn(o, c)
           s == a \o b
<1>1. /\ a \in Seq(PeerPackets) /\ Len(a) = 2 /\ a[1] = SpawnOf(c, o) /\ a[2] = TrackOf(c, o)
      /\ b \in Seq(PeerPackets) /\ Len(b) = 2 /\ b[1] = SpawnOf(o, c) /\ b[2] = TrackOf(o, c)
      /\ \A p : Listed(a, p) <=> p = SpawnOf(c, o) \/ p = TrackOf(c, o)
      /\ \A p : Listed(b, p) <=> p = SpawnOf(o, c) \/ p = TrackOf(o, c)
  BY SpawnPair
<1> HIDE DEF a, b
<1>0. a \in Seq(PeerPackets) /\ b \in Seq(PeerPackets)
  BY <1>1
<1>2. /\ a \o b \in Seq(PeerPackets)
      /\ Len(a \o b) = Len(a) + Len(b)
      /\ \A i \in 1..Len(a) : (a \o b)[i] = a[i]
      /\ \A j \in 1..Len(b) : (a \o b)[Len(a) + j] = b[j]
      /\ \A x : Listed(a \o b, x) <=> Listed(a, x) \/ Listed(b, x)
  BY <1>0, ConcatLists
<1>3. 1 \in 1..Len(a) /\ 2 \in 1..Len(a) /\ 1 \in 1..Len(b) /\ 2 \in 1..Len(b)
      /\ Len(a) + 1 = 3 /\ Len(a) + 2 = 4
  BY <1>1
<1>4. /\ s \in Seq(PeerPackets) /\ Len(s) = 4
      /\ s[1] = SpawnOf(c, o) /\ s[2] = TrackOf(c, o)
      /\ s[3] = SpawnOf(o, c) /\ s[4] = TrackOf(o, c)
  BY <1>1, <1>2, <1>3
<1>5. \A p : Listed(s, p) <=> p \in {SpawnOf(c, o), TrackOf(c, o), SpawnOf(o, c), TrackOf(o, c)}
  BY <1>1, <1>2
<1> HIDE DEF s
<1>6. \A i \in 1..Len(s) : i = 1 \/ i = 2 \/ i = 3 \/ i = 4
  BY <1>4
<1>7. Paired(s)
  <2> SUFFICES ASSUME NEW i \in 1..Len(s)
               PROVE  /\ s[i].what = "spawn" => i + 1 \in 1..Len(s) /\ s[i+1] = TrackOf(s[i].to, s[i].of)
                      /\ s[i].what = "track" /\ i # 1 => s[i-1] = SpawnOf(s[i].to, s[i].of)
    BY DEF Paired
  <2> USE PacketType
  <2>1. CASE i = 1
    BY <1>4, <2>1
  <2>2. CASE i = 2
    BY <1>4, <2>2
  <2>3. CASE i = 3
    BY <1>4, <2>3
  <2>4. CASE i = 4
    BY <1>4, <2>4
  <2> QED
    BY <1>6, <2>1, <2>2, <2>3, <2>4
<1>8. s[1].what # "track"
  BY <1>4, PacketType
<1>9. SpawnBoth(c, o) = s
  BY DEF s, a, b, SpawnBoth
<1> QED
  BY <1>4, <1>5, <1>7, <1>8, <1>9

\* What the last round of a join sends.
LEMMA LastRound ==
    ASSUME NEW c \in Peer
    PROVE  /\ Peers!SyncVisibility(c) \in Seq(PeerPackets)
           /\ Paired(Peers!SyncVisibility(c))
           /\ Peers!SyncVisibility(c) # <<>> => Peers!SyncVisibility(c)[1].what # "track"
           /\ \A p : Listed(Peers!SyncVisibility(c), p) <=>
                     \E o \in Peers!Online \ {c} :
                        p \in {SpawnOf(c, o), TrackOf(c, o), SpawnOf(o, c), TrackOf(o, c)}
<1> DEFINE S == Peers!Online \ {c}
           l == SetToSeq(S)
           F == [o \in S |-> SpawnBoth(c, o)]
           q == [i \in 1..Len(l) |-> F[l[i]]]
<1>1. S \in SUBSET Peer /\ IsFiniteSet(S)
  BY OnlinePeers, PeerAssumption, PeerLists, FS_Subset DEF Peers!VisibilityAssumption
<1>2. l \in Seq(S)
  BY <1>1, SetAsList
<1>3. F \in [S -> Seq(PeerPackets)]
  BY <1>1, SpawnPairs
<1>4. Peers!SyncVisibility(c) = FlattenSeq([i \in 1..Len(l) |-> SpawnBoth(c, l[i])])
  BY PeerLists DEF Peers!SyncVisibility, Peers!SpawnAll, Peers!Each, SpawnBoth
<1>5. \A i \in 1..Len(l) : l[i] \in S
  BY <1>2
<1>6. Peers!SyncVisibility(c) = FlattenSeq(q)
  BY <1>4, <1>5
<1>7. /\ q \in Seq(Seq(PeerPackets))
      /\ \A i \in 1..Len(q) : \E o \in S : q[i] = F[o]
      /\ FlattenSeq(q) \in Seq(PeerPackets)
      /\ \A p : Listed(FlattenSeq(q), p) <=> \E o \in S : Listed(F[o], p)
  <2> HIDE DEF F, S
  <2> QED
    BY <1>1, <1>3, RoundLists
<1>8. \A o \in S : F[o] = SpawnBoth(c, o)
  OBVIOUS
<1> HIDE DEF F, q, l
<1>9. \A o \in S : /\ Paired(F[o]) /\ F[o][1].what # "track"
                   /\ \A p : Listed(F[o], p) <=> p \in {SpawnOf(c, o), TrackOf(c, o), SpawnOf(o, c), TrackOf(o, c)}
  BY <1>1, <1>8, SpawnPairs
<1>10. \A i \in 1..Len(q) : Paired(q[i]) /\ (q[i] # <<>> => q[i][1].what # "track")
  BY <1>7, <1>9
<1>11. Paired(FlattenSeq(q)) /\ (FlattenSeq(q) # <<>> => FlattenSeq(q)[1].what # "track")
  BY <1>7, <1>10, FlattenPairs
<1>12. ASSUME NEW p
       PROVE  Listed(FlattenSeq(q), p) <=>
              \E o \in S : p \in {SpawnOf(c, o), TrackOf(c, o), SpawnOf(o, c), TrackOf(o, c)}
  BY <1>7, <1>9
<1> QED
  BY <1>6, <1>7, <1>11, <1>12

LeavePair(o, c) == <<ForgetOf(o, c), RemoveOf(o, c)>>

LEMMA LeaveRound ==
    ASSUME NEW c \in Peer
    PROVE  /\ Peers!LeaveAll(c) \in Seq(PeerPackets)
           /\ \A p : Listed(Peers!LeaveAll(c), p) <=>
                     \E o \in Peers!Online \ {c} : p = ForgetOf(o, c) \/ p = RemoveOf(o, c)
<1> DEFINE S == Peers!Online \ {c}
           l == SetToSeq(S)
           F == [o \in S |-> LeavePair(o, c)]
           q == [i \in 1..Len(l) |-> F[l[i]]]
<1>1. S \in SUBSET Peer /\ IsFiniteSet(S)
  BY OnlinePeers, PeerAssumption, PeerLists, FS_Subset DEF Peers!VisibilityAssumption
<1>2. l \in Seq(S)
  BY <1>1, SetAsList
<1>3. \A o \in S : /\ LeavePair(o, c) \in Seq(PeerPackets)
                   /\ \A p : Listed(LeavePair(o, c), p) <=>
                             p = ForgetOf(o, c) \/ p = RemoveOf(o, c)
  BY <1>1, PacketType, TwoListed DEF LeavePair
<1>4. Peers!LeaveAll(c) = FlattenSeq([i \in 1..Len(l) |-> LeavePair(l[i], c)])
  BY PeerLists DEF Peers!LeaveAll, Peers!Each, ForgetOf, RemoveOf, LeavePair
<1>5. \A i \in 1..Len(l) : l[i] \in S
  BY <1>2
<1>6. Peers!LeaveAll(c) = FlattenSeq(q)
  BY <1>4, <1>5
<1>7. F \in [S -> Seq(PeerPackets)]
  BY <1>3
<1>8. /\ FlattenSeq(q) \in Seq(PeerPackets)
      /\ \A p : Listed(FlattenSeq(q), p) <=> \E o \in S : Listed(F[o], p)
  <2> HIDE DEF F, S
  <2> QED
    BY <1>1, <1>7, RoundLists
<1>9. \A o \in S : F[o] = LeavePair(o, c)
  OBVIOUS
<1> HIDE DEF F, q, l, S
<1>10. ASSUME NEW p
       PROVE  Listed(FlattenSeq(q), p) <=> \E o \in S : p = ForgetOf(o, c) \/ p = RemoveOf(o, c)
  BY <1>3, <1>8, <1>9
<1> QED
  BY <1>6, <1>8, <1>10 DEF S

\* The first two rounds only put players into the lists.
InfoOnly(s, c) ==
    \A p \in PeerPackets : Listed(s, p) =>
        p.what = "info" /\ p.to \in Peers!Online \cup {c} /\ p.of \in Peers!Online \cup {c}

InfoOf(o, c) == <<Peers!Packet("info", o, c)>>

LEMMA InfoRounds ==
    ASSUME NEW c \in Peer
    PROVE  /\ Peers!TellAll(c) \in Seq(PeerPackets) /\ InfoOnly(Peers!TellAll(c), c)
           /\ Peers!ListAll(c) \in Seq(PeerPackets) /\ InfoOnly(Peers!ListAll(c), c)
<1> DEFINE S == Peers!Online
           F == [o \in S |-> InfoOf(o, c)]
           l == SetToSeq(S)
           q == [i \in 1..Len(l) |-> F[l[i]]]
           T == Peers!Online \ {c}
           G == [o \in T |-> InfoOf(c, o)]
           m == SetToSeq(T)
           r == [i \in 1..Len(m) |-> G[m[i]]]
<1>1. S \in SUBSET Peer /\ IsFiniteSet(S) /\ T \in SUBSET S /\ IsFiniteSet(T)
  BY OnlinePeers, PeerAssumption, PeerLists, FS_Subset DEF Peers!VisibilityAssumption
<1>2. l \in Seq(S) /\ m \in Seq(T)
  BY <1>1, SetAsList
<1>3. \A o, d \in S \cup {c} : /\ InfoOf(o, d) \in Seq(PeerPackets)
                      /\ \A p : Listed(InfoOf(o, d), p) => p.what = "info" /\ p.to = o /\ p.of = d
  BY <1>1, PacketType, OneListed DEF InfoOf
<1>4. /\ Peers!TellAll(c) = FlattenSeq([i \in 1..Len(l) |-> InfoOf(l[i], c)])
      /\ Peers!ListAll(c) = FlattenSeq([i \in 1..Len(m) |-> InfoOf(c, m[i])])
  BY PeerLists DEF Peers!TellAll, Peers!ListAll, Peers!Each, InfoOf
<1>5. (\A i \in 1..Len(l) : l[i] \in S) /\ (\A i \in 1..Len(m) : m[i] \in T)
  BY <1>2
<1>6. Peers!TellAll(c) = FlattenSeq(q) /\ Peers!ListAll(c) = FlattenSeq(r)
  BY <1>4, <1>5
<1>7. F \in [S -> Seq(PeerPackets)] /\ G \in [T -> Seq(PeerPackets)]
  BY <1>1, <1>3
<1>8. /\ FlattenSeq(q) \in Seq(PeerPackets)
      /\ \A p : Listed(FlattenSeq(q), p) <=> \E o \in S : Listed(F[o], p)
  <2>1. IsFiniteSet(S) /\ F \in [S -> Seq(PeerPackets)]
    BY <1>1, <1>7
  <2> HIDE DEF F, S
  <2> QED
    BY <2>1, RoundLists
<1>9. /\ FlattenSeq(r) \in Seq(PeerPackets)
      /\ \A p : Listed(FlattenSeq(r), p) <=> \E o \in T : Listed(G[o], p)
  <2> HIDE DEF G, T
  <2> QED
    BY <1>1, <1>7, RoundLists
<1>10. (\A o \in S : F[o] = InfoOf(o, c)) /\ (\A o \in T : G[o] = InfoOf(c, o))
  OBVIOUS
<1> HIDE DEF F, q, l, G, r, m, S, T
<1>11. ASSUME NEW p, Listed(FlattenSeq(q), p) PROVE p.what = "info" /\ p.to \in S \cup {c} /\ p.of \in S \cup {c}
  <2>1. PICK o \in S : Listed(F[o], p)
    BY <1>8, <1>11
  <2>2. Listed(InfoOf(o, c), p)
    BY <1>10, <2>1
  <2> QED
    BY <1>1, <1>3, <2>2
<1>12. ASSUME NEW p, Listed(FlattenSeq(r), p) PROVE p.what = "info" /\ p.to \in S \cup {c} /\ p.of \in S \cup {c}
  <2>1. PICK o \in T : Listed(G[o], p)
    BY <1>9, <1>12
  <2>2. Listed(InfoOf(c, o), p)
    BY <1>10, <2>1
  <2> QED
    BY <1>1, <1>3, <2>2
<1> QED
  BY <1>6, <1>8, <1>9, <1>11, <1>12 DEF InfoOnly, S

-------------------------------------------------------------------------------
(* The steps. *)

\* A round begins, or the join is over: only the tasks' packets change.
LEMMA RoundKeeps ==
    ASSUME PeerInv, NEW c \in Peer, NEW from, NEW to \in PeerTasks, NEW s \in Seq(PeerPackets),
           Peers!Round(c, from, to, s),
           from \in {"loading", "tell", "list", "spawn"},
           from = "loading" => to = "tell", from = "tell" => to = "list",
           from = "list" => to = "spawn", from = "spawn" => to = "playing",
           to = "playing" => s = <<>>,
           from \in {"loading", "tell"} => InfoOnly(s, c),
           from = "list" => s = Peers!SyncVisibility(c)
    PROVE  PeerInv'
<1>1. PeerType /\ PeerTodo /\ PeerLife /\ PeerPairs /\ PeerSeen /\ PeerMet /\ PeerLeft
  BY DEF PeerInv
<1>2. /\ pTask[c] = from /\ pTodo[c] = <<>>
      /\ pTask' = [pTask EXCEPT ![c] = to]
      /\ pTodo' = [pTodo EXCEPT ![c] = s]
      /\ UNCHANGED <<pAlive, pTracked, pListed, pShown, pUnlisted, pMissed>>
  BY DEF Peers!Round, Peers!client, Peers!history
<1>3. /\ \A d \in Peer : pTask'[d] = IF d = c THEN to ELSE pTask[d]
      /\ \A d \in Peer : pTodo'[d] = IF d = c THEN s ELSE pTodo[d]
  BY <1>1, <1>2 DEF PeerType
<1>4. PeerType'
  BY <1>1, <1>2 DEF PeerType
<1>5. \A d \in Peers!Online : d \in Peer /\ pAlive[d] /\ pTask[d] \in {"loading", "tell", "list", "spawn", "playing"}
  BY DEF Peers!Online, Peers!InPlay, Peers!Joining
<1>6. ASSUME NEW p \in PeerPackets, Listed(s, p)
      PROVE  /\ from # "spawn"
             /\ p.what \in {"info", "spawn", "track"}
             /\ p.to \in Peers!Online \cup {c} /\ p.of \in Peers!Online \cup {c}
             /\ p.what \in {"spawn", "track"} => from = "list" /\ p.to # p.of /\ (c = p.to \/ c = p.of)
  <2>1. from # "spawn"
    BY <1>6, NoneListed
  <2>2. CASE from \in {"loading", "tell"}
    BY <1>6, <2>1, <2>2 DEF InfoOnly
  <2>3. CASE from = "list"
    <3>1. PICK o \in Peers!Online \ {c} :
             p \in {SpawnOf(c, o), TrackOf(c, o), SpawnOf(o, c), TrackOf(o, c)}
      BY <1>6, <2>3, LastRound
    <3>2. o \in Peer /\ o # c
      BY <1>5
    <3> QED
      BY <2>1, <2>3, <3>1, <3>2, PacketType
  <2> QED
    BY <2>1, <2>2, <2>3
<1>7. PeerTodo'
  <2>1. \A d \in Peer : pTodo'[d] # <<>> => pTask'[d] \in {"tell", "list", "spawn", "leaving"}
    BY <1>1, <1>2, <1>3 DEF PeerTodo
  <2>2. ASSUME NEW d \in Peer, NEW p \in PeerPackets, Listed(pTodo'[d], p)
        PROVE  Fits(d, p)'
    <3>1. p.to \in Peer /\ p.of \in Peer
      BY PacketIs
    <3>2. CASE d = c
      <4>1. Listed(s, p)
        BY <1>3, <2>2, <3>2
      <4>2. pTask'[p.to] # "away" /\ pTask'[p.of] # "away"
        BY <1>2, <1>3, <1>5, <1>6, <3>1, <4>1
      <4> QED
        BY <1>3, <1>6, <3>2, <4>1, <4>2 DEF Fits
    <3>3. CASE d # c
      <4>1. Fits(d, p)
        BY <1>1, <1>3, <2>2, <3>3 DEF PeerTodo
      <4> QED
        BY <1>3, <3>1, <3>3, <4>1 DEF Fits
    <3> QED
      BY <3>2, <3>3
  <2> QED
    BY <2>1, <2>2 DEF PeerTodo
<1>8. PeerLife'
  <2>1. \A d \in Peer : pTask[d] # "away" => pTask'[d] # "away"
    BY <1>2, <1>3
  <2>2. \A d \in Peer : pTracked[d] \in SUBSET Peer
    BY <1>1 DEF PeerType
  <2> QED
    BY <1>1, <1>2, <1>3, <2>1, <2>2 DEF PeerLife
<1>9. Paired(s) /\ (s # <<>> => s[1].what # "track")
  <2>1. CASE s = <<>>
    BY <2>1, NoneListed DEF Paired
  <2>2. CASE from \in {"loading", "tell"} /\ s # <<>>
    <3>1. \A i \in 1..Len(s) : s[i] \in PeerPackets /\ s[i].what = "info"
      BY <2>2 DEF InfoOnly, Listed
    <3>2. 1 \in 1..Len(s)
      BY <2>2
    <3> QED
      BY <3>1, <3>2 DEF Paired
  <2>3. CASE from = "list" /\ s # <<>>
    BY <2>3, LastRound
  <2> QED
    BY <2>1, <2>2, <2>3
<1>10. PeerPairs'
  BY <1>1, <1>3, <1>9 DEF PeerPairs
<1>11. PeerSeen'
  <2> SUFFICES ASSUME NEW o \in Peer, NEW d \in Peer, o # d, o \notin OldPeer, pAlive'[o], pAlive'[d]
               PROVE  /\ d \in pTracked'[o] => Sees(o, d)'
                      /\ \A e \in Peer : pTodo'[e] # <<>> /\ pTodo'[e][1] = TrackOf(o, d) => Sees(o, d)'
    BY DEF PeerSeen, Sees, TrackOf, Peers!Packet
  <2>1. /\ d \in pTracked[o] => Sees(o, d)
        /\ \A e \in Peer : pTodo[e] # <<>> /\ pTodo[e][1] = TrackOf(o, d) => Sees(o, d)
    BY <1>1, <1>2 DEF PeerSeen
  <2>2. Sees(o, d)' <=> Sees(o, d)
    BY <1>2 DEF Sees
  <2>3. s # <<>> => s[1] # TrackOf(o, d)
    BY <1>9, PacketType
  <2> QED
    BY <1>2, <1>3, <2>1, <2>2, <2>3
<1>12. PeerMet'
  <2> SUFFICES ASSUME NEW o \in Peer, NEW d \in Peer, o # d, o \notin OldPeer, pAlive'[o], pAlive'[d],
                      pTask'[o] \in {"spawn", "playing"}, pTask'[d] \in {"spawn", "playing"}
               PROVE  d \in pTracked'[o] \/ \E e \in Peer : Listed(pTodo'[e], TrackOf(o, d))
    BY DEF PeerMet, TrackOf, Peers!Packet
  <2>1. CASE from = "list" /\ (o = c \/ d = c)
    <3>1. PICK x \in Peer : x # c /\ {x, c} = {o, d} /\ pAlive[x] /\ pTask[x] \in {"spawn", "playing"}
      BY <1>2, <1>3, <2>1
    <3>2. x \in Peers!Online \ {c}
      BY <3>1 DEF Peers!Online, Peers!InPlay, Peers!Joining
    <3>3. TrackOf(o, d) = TrackOf(c, x) \/ TrackOf(o, d) = TrackOf(x, c)
      BY <3>1
    <3>4. Listed(s, TrackOf(o, d))
      BY <2>1, <3>2, <3>3, LastRound
    <3> QED
      BY <1>3, <3>4
  <2>2. CASE ~(from = "list" /\ (o = c \/ d = c))
    <3>1. pTask[o] \in {"spawn", "playing"} /\ pTask[d] \in {"spawn", "playing"}
      BY <1>2, <1>3, <2>2
    <3>2. d \in pTracked[o] \/ \E e \in Peer : Listed(pTodo[e], TrackOf(o, d))
      BY <1>1, <1>2, <3>1 DEF PeerMet
    <3> QED
      BY <1>2, <1>3, <3>2, NoneListed
  <2> QED
    BY <2>1, <2>2
<1>13. PeerLeft'
  <2> SUFFICES ASSUME NEW o \in Peer, NEW d \in Peer, o # d, pAlive'[o],
                      pTask'[d] \in {"leaving", "gone"}, d \notin pMissed'[o]
               PROVE  /\ \A e \in Peer : ~Listed(pTodo'[e], SpawnOf(o, d)) /\ ~Listed(pTodo'[e], TrackOf(o, d))
                      /\ d \in pTracked'[o] => Listed(pTodo'[d], ForgetOf(o, d))
                      /\ d \in pShown'[o] => Listed(pTodo'[d], RemoveOf(o, d))
    BY DEF PeerLeft, SpawnOf, TrackOf, ForgetOf, RemoveOf, Peers!Packet
  <2>1. d # c /\ pTask[d] \in {"leaving", "gone"}
    BY <1>2, <1>3 DEF PeerTasks
  <2>2. /\ \A e \in Peer : ~Listed(pTodo[e], SpawnOf(o, d)) /\ ~Listed(pTodo[e], TrackOf(o, d))
        /\ d \in pTracked[o] => Listed(pTodo[d], ForgetOf(o, d))
        /\ d \in pShown[o] => Listed(pTodo[d], RemoveOf(o, d))
    BY <1>1, <1>2, <2>1 DEF PeerLeft
  <2>3. d \notin Peers!Online
    BY <2>1 DEF Peers!Online, Peers!InPlay, Peers!Joining
  <2>4. ~Listed(s, SpawnOf(o, d)) /\ ~Listed(s, TrackOf(o, d))
    BY <1>6, <2>1, <2>3, PacketType
  <2> QED
    BY <1>2, <1>3, <2>1, <2>2, <2>4
<1> QED
  BY <1>4, <1>7, <1>8, <1>10, <1>11, <1>12, <1>13 DEF PeerInv

LEMMA PeerJoins == \A c \in Peer : PeerInv /\ Peers!Join(c) => PeerInv'
<1> SUFFICES ASSUME NEW c \in Peer, PeerInv, Peers!Join(c) PROVE PeerInv'
  OBVIOUS
<1>0. PeerType /\ PeerLife
  BY DEF PeerInv
<1> DEFINE tell == Peers!TellAll(c)
           list == Peers!ListAll(c)
           sync == Peers!SyncVisibility(c)
<1>1. /\ tell \in Seq(PeerPackets) /\ InfoOnly(tell, c)
      /\ list \in Seq(PeerPackets) /\ InfoOnly(list, c)
      /\ sync \in Seq(PeerPackets)
      /\ <<>> \in Seq(PeerPackets)
  BY InfoRounds, LastRound
<1>2. {"tell", "list", "spawn", "playing"} \subseteq PeerTasks
  BY DEF PeerTasks
<1>3. PICK from \in {"loading", "tell", "list", "spawn"} :
         \/ from = "loading" /\ Peers!Round(c, from, "tell", tell)
         \/ from = "tell" /\ Peers!Round(c, from, "list", list)
         \/ from = "list" /\ Peers!Round(c, from, "spawn", sync)
         \/ from = "spawn" /\ Peers!Round(c, from, "playing", <<>>)
  BY DEF Peers!Join
<1>4. PICK s : s = IF from = "loading" THEN tell ELSE IF from = "tell" THEN list
                   ELSE IF from = "list" THEN sync ELSE <<>>
  OBVIOUS
<1>5. PICK to : to = IF from = "loading" THEN "tell" ELSE IF from = "tell" THEN "list"
                     ELSE IF from = "list" THEN "spawn" ELSE "playing"
  OBVIOUS
<1> HIDE DEF tell, list
<1>6. /\ s \in Seq(PeerPackets) /\ to \in PeerTasks
      /\ Peers!Round(c, from, to, s)
      /\ from = "loading" => to = "tell"
      /\ from = "tell" => to = "list"
      /\ from = "list" => to = "spawn"
      /\ from = "spawn" => to = "playing"
      /\ to = "playing" => s = <<>>
      /\ from \in {"loading", "tell"} => InfoOnly(s, c)
      /\ from = "list" => s = sync
  BY <1>1, <1>2, <1>3, <1>4, <1>5
<1> QED
  BY <1>6, RoundKeeps

LEMMA PeerEnters == \A c \in Peer : PeerInv /\ Peers!Enter(c) => PeerInv'
<1> SUFFICES ASSUME NEW c \in Peer, PeerInv, Peers!Enter(c) PROVE PeerInv'
  OBVIOUS
<1>1. PeerType /\ PeerTodo /\ PeerLife /\ PeerPairs /\ PeerSeen /\ PeerMet /\ PeerLeft
  BY DEF PeerInv
<1>2. /\ pTask[c] = "away"
      /\ pTask' = [pTask EXCEPT ![c] = "loading"]
      /\ pAlive' = [pAlive EXCEPT ![c] = TRUE]
      /\ UNCHANGED <<pTodo, pTracked, pListed, pShown, pUnlisted, pMissed>>
  BY DEF Peers!Enter, Peers!client, Peers!history
<1>3. /\ \A d \in Peer : pTask'[d] = IF d = c THEN "loading" ELSE pTask[d]
      /\ \A d \in Peer : pAlive'[d] = IF d = c THEN TRUE ELSE pAlive[d]
  BY <1>1, <1>2 DEF PeerType
<1>4. PeerType'
  BY <1>1, <1>2 DEF PeerType, PeerTasks
<1>5. \A d \in Peer : \A p \in PeerPackets : Listed(pTodo[d], p) => p.to \in Peer /\ p.of \in Peer /\ p.to # c /\ p.of # c
  BY <1>1, <1>2, PacketIs DEF PeerTodo, Fits
<1>6. PeerTodo'
  <2>1. ASSUME NEW d \in Peer, NEW p \in PeerPackets, Listed(pTodo[d], p)
        PROVE  Fits(d, p)'
    <3>1. Fits(d, p) /\ p.to \in Peer /\ p.of \in Peer /\ p.to # c /\ p.of # c
      BY <1>1, <1>5, <2>1 DEF PeerTodo
    <3> QED
      BY <1>2, <1>3, <3>1 DEF Fits
  <2>2. \A d \in Peer : pTodo[d] # <<>> => pTask'[d] \in {"tell", "list", "spawn", "leaving"}
    BY <1>1, <1>2, <1>3 DEF PeerTodo
  <2> QED
    BY <1>2, <2>1, <2>2 DEF PeerTodo
<1>7. PeerLife' /\ PeerPairs'
  BY <1>1, <1>2, <1>3 DEF PeerLife, PeerPairs
<1>8. \A o, d \in Peer : \A e \in Peer : o = c \/ d = c =>
         ~Listed(pTodo[e], SpawnOf(o, d)) /\ ~Listed(pTodo[e], TrackOf(o, d))
  BY <1>5, PacketType
<1>9. PeerSeen'
  <2> SUFFICES ASSUME NEW o \in Peer, NEW d \in Peer, o # d, o \notin OldPeer, pAlive'[o], pAlive'[d]
               PROVE  /\ d \in pTracked[o] => Sees(o, d)
                      /\ \A e \in Peer : pTodo[e] # <<>> /\ pTodo[e][1] = TrackOf(o, d) => Sees(o, d)
    BY <1>2 DEF PeerSeen, Sees, TrackOf, Peers!Packet
  <2>1. CASE o = c \/ d = c
    <3>1. \A e \in Peer : pTodo[e] # <<>> => Listed(pTodo[e], pTodo[e][1])
      BY <1>1, TailLists DEF PeerType
    <3>2. \A e \in Peer : ~(pTodo[e] # <<>> /\ pTodo[e][1] = TrackOf(o, d))
      BY <1>8, <2>1, <3>1
    <3>3. d \notin pTracked[o]
      BY <1>1, <1>2, <2>1 DEF PeerLife
    <3> QED
      BY <3>2, <3>3
  <2>2. CASE o # c /\ d # c
    BY <1>1, <1>3, <2>2 DEF PeerSeen
  <2> QED
    BY <2>1, <2>2
<1>10. PeerMet'
  <2> SUFFICES ASSUME NEW o \in Peer, NEW d \in Peer, o # d, o \notin OldPeer, pAlive'[o], pAlive'[d],
                      pTask'[o] \in {"spawn", "playing"}, pTask'[d] \in {"spawn", "playing"}
               PROVE  d \in pTracked[o] \/ \E e \in Peer : Listed(pTodo[e], TrackOf(o, d))
    BY <1>2 DEF PeerMet, TrackOf, Peers!Packet
  <2>1. o # c /\ d # c
    BY <1>3
  <2> QED
    BY <1>1, <1>3, <2>1 DEF PeerMet
<1>11. PeerLeft'
  <2> SUFFICES ASSUME NEW o \in Peer, NEW d \in Peer, o # d, pAlive'[o],
                      pTask'[d] \in {"leaving", "gone"}, d \notin pMissed[o]
               PROVE  /\ \A e \in Peer : ~Listed(pTodo[e], SpawnOf(o, d)) /\ ~Listed(pTodo[e], TrackOf(o, d))
                      /\ d \in pTracked[o] => Listed(pTodo[d], ForgetOf(o, d))
                      /\ d \in pShown[o] => Listed(pTodo[d], RemoveOf(o, d))
    BY <1>2 DEF PeerLeft, SpawnOf, TrackOf, ForgetOf, RemoveOf, Peers!Packet
  <2>1. d # c /\ pTask[d] \in {"leaving", "gone"}
    BY <1>3
  <2>2. CASE o = c
    <3>1. pTracked[o] = {} /\ pShown[o] = {}
      BY <1>1, <1>2, <2>2 DEF PeerLife
    <3> QED
      BY <1>8, <2>2, <3>1
  <2>3. CASE o # c
    BY <1>1, <1>3, <2>1, <2>3 DEF PeerLeft
  <2> QED
    BY <2>2, <2>3
<1> QED
  BY <1>4, <1>6, <1>7, <1>9, <1>10, <1>11 DEF PeerInv

LEMMA PeerLoses == \A c \in Peer : PeerInv /\ Peers!Lose(c) => PeerInv'
<1> SUFFICES ASSUME NEW c \in Peer, PeerInv, Peers!Lose(c) PROVE PeerInv'
  OBVIOUS
<1>1. PeerType /\ PeerTodo /\ PeerLife /\ PeerPairs /\ PeerSeen /\ PeerMet /\ PeerLeft
  BY DEF PeerInv
<1>2. /\ pAlive' = [pAlive EXCEPT ![c] = FALSE]
      /\ UNCHANGED <<pTask, pTodo, pTracked, pListed, pShown, pUnlisted, pMissed>>
  BY DEF Peers!Lose, Peers!client, Peers!history
<1>3. pAlive' \in [Peer -> BOOLEAN] /\ \A d \in Peer : pAlive'[d] => pAlive[d]
  BY <1>1, <1>2 DEF PeerType
<1>4. PeerType' /\ PeerTodo' /\ PeerLife' /\ PeerPairs'
  BY <1>1, <1>2, <1>3 DEF PeerType, PeerTodo, PeerLife, PeerPairs, Fits
<1>5. PeerSeen'
  BY <1>1, <1>2, <1>3 DEF PeerSeen, Sees
<1>6. PeerMet'
  BY <1>1, <1>2, <1>3 DEF PeerMet
<1>7. PeerLeft'
  BY <1>1, <1>2, <1>3 DEF PeerLeft
<1> QED
  BY <1>4, <1>5, <1>6, <1>7 DEF PeerInv

LEMMA PeerLeaves == \A c \in Peer : PeerInv /\ Peers!Leave(c) => PeerInv'
<1> SUFFICES ASSUME NEW c \in Peer, PeerInv, Peers!Leave(c) PROVE PeerInv'
  OBVIOUS
<1> DEFINE s == Peers!LeaveAll(c)
<1>1. PeerType /\ PeerTodo /\ PeerLife /\ PeerPairs /\ PeerSeen /\ PeerMet /\ PeerLeft
  BY DEF PeerInv
<1>2. /\ pTask[c] = "playing"
      /\ pTask' = [pTask EXCEPT ![c] = "leaving"]
      /\ pAlive' = [pAlive EXCEPT ![c] = FALSE]
      /\ pTodo' = [pTodo EXCEPT ![c] = s]
      /\ pMissed' = [o \in Peer |-> IF pTask[o] = "spawn" THEN pMissed[o] \cup {c} ELSE pMissed[o]]
      /\ UNCHANGED <<pTracked, pListed, pShown, pUnlisted>>
  BY DEF Peers!Leave, Peers!client
<1>3. s \in Seq(PeerPackets) /\ \A p : Listed(s, p) <=>
                     \E o \in Peers!Online \ {c} : p = ForgetOf(o, c) \/ p = RemoveOf(o, c)
  BY LeaveRound
<1> HIDE DEF s
<1>4. /\ \A d \in Peer : pTask'[d] = IF d = c THEN "leaving" ELSE pTask[d]
      /\ \A d \in Peer : pAlive'[d] = IF d = c THEN FALSE ELSE pAlive[d]
      /\ \A d \in Peer : pTodo'[d] = IF d = c THEN s ELSE pTodo[d]
      /\ \A d \in Peer : pMissed'[d] = IF pTask[d] = "spawn" THEN pMissed[d] \cup {c} ELSE pMissed[d]
  BY <1>1, <1>2 DEF PeerType
<1>5. PeerType'
  BY <1>1, <1>2, <1>3 DEF PeerType, PeerTasks
<1>6. pTodo[c] = <<>>
  BY <1>1, <1>2 DEF PeerTodo
<1>7. \A o \in Peers!Online : o \in Peer /\ pAlive[o] /\ pTask[o] # "away"
  BY DEF Peers!Online, Peers!InPlay, Peers!Joining
<1>8. PeerTodo'
  <2>1. ASSUME NEW d \in Peer, NEW p \in PeerPackets, Listed(pTodo'[d], p) PROVE Fits(d, p)'
    <3>1. p.to \in Peer /\ p.of \in Peer
      BY PacketIs
    <3>2. CASE d = c
      <4>1. PICK o \in Peers!Online \ {c} : p = ForgetOf(o, c) \/ p = RemoveOf(o, c)
        BY <1>3, <1>4, <2>1, <3>2
      <4>2. p.to = o /\ p.of = c /\ p.what \in {"forget", "remove"}
        BY <1>7, <4>1, PacketType
      <4> QED
        BY <1>4, <1>7, <3>2, <4>2 DEF Fits
    <3>3. CASE d # c
      <4>1. Fits(d, p)
        BY <1>1, <1>4, <2>1, <3>3 DEF PeerTodo
      <4> QED
        BY <1>4, <3>1, <3>3, <4>1 DEF Fits
    <3> QED
      BY <3>2, <3>3
  <2>2. \A d \in Peer : pTodo'[d] # <<>> => pTask'[d] \in {"tell", "list", "spawn", "leaving"}
    BY <1>1, <1>4 DEF PeerTodo
  <2> QED
    BY <2>1, <2>2 DEF PeerTodo
<1>9. PeerLife'
  <2>1. \A d \in Peer : pTracked[d] \in SUBSET Peer
    BY <1>1 DEF PeerType
  <2>2. \A d \in Peer : pTask[d] # "away" <=> pTask'[d] # "away"
    BY <1>2, <1>4
  <2>3. \A d \in Peer : pAlive'[d] => pAlive[d] /\ pTask'[d] = pTask[d]
    BY <1>4
  <2> QED
    BY <1>1, <1>2, <2>1, <2>2, <2>3 DEF PeerLife
<1>10. \A i \in 1..Len(s) : s[i].what # "spawn" /\ s[i].what # "track"
  <2>1. ASSUME NEW i \in 1..Len(s) PROVE s[i].what # "spawn" /\ s[i].what # "track"
    <3>1. PICK o \in Peers!Online \ {c} : s[i] = ForgetOf(o, c) \/ s[i] = RemoveOf(o, c)
      BY <1>3 DEF Listed
    <3> QED
      BY <1>7, <3>1, PacketType
  <2> QED
    BY <2>1
<1>11. PeerPairs'
  <2>1. Paired(s)
    BY <1>10 DEF Paired
  <2> QED
    BY <1>1, <1>4, <2>1 DEF PeerPairs
<1>12. PeerSeen'
  <2> SUFFICES ASSUME NEW o \in Peer, NEW d \in Peer, o # d, o \notin OldPeer, pAlive'[o], pAlive'[d]
               PROVE  /\ d \in pTracked[o] => Sees(o, d)
                      /\ \A e \in Peer : pTodo'[e] # <<>> /\ pTodo'[e][1] = TrackOf(o, d) => Sees(o, d)
    BY <1>2 DEF PeerSeen, Sees, TrackOf, Peers!Packet
  <2>1. /\ d \in pTracked[o] => Sees(o, d)
        /\ \A e \in Peer : pTodo[e] # <<>> /\ pTodo[e][1] = TrackOf(o, d) => Sees(o, d)
    BY <1>1, <1>4 DEF PeerSeen
  <2>2. s # <<>> => s[1] # TrackOf(o, d)
    <3>1. s # <<>> => 1 \in 1..Len(s)
      BY <1>3
    <3> QED
      BY <1>10, <3>1, PacketType
  <2> QED
    BY <1>4, <2>1, <2>2
<1>13. PeerMet'
  <2> SUFFICES ASSUME NEW o \in Peer, NEW d \in Peer, o # d, o \notin OldPeer, pAlive'[o], pAlive'[d],
                      pTask'[o] \in {"spawn", "playing"}, pTask'[d] \in {"spawn", "playing"}
               PROVE  d \in pTracked[o] \/ \E e \in Peer : Listed(pTodo'[e], TrackOf(o, d))
    BY <1>2 DEF PeerMet, TrackOf, Peers!Packet
  <2>1. d \in pTracked[o] \/ \E e \in Peer : Listed(pTodo[e], TrackOf(o, d))
    BY <1>1, <1>4 DEF PeerMet
  <2> QED
    BY <1>4, <1>6, <2>1, NoneListed
<1>14. PeerLeft'
  <2> SUFFICES ASSUME NEW o \in Peer, NEW d \in Peer, o # d, pAlive'[o],
                      pTask'[d] \in {"leaving", "gone"}, d \notin pMissed'[o]
               PROVE  /\ \A e \in Peer : ~Listed(pTodo'[e], SpawnOf(o, d)) /\ ~Listed(pTodo'[e], TrackOf(o, d))
                      /\ d \in pTracked[o] => Listed(pTodo'[d], ForgetOf(o, d))
                      /\ d \in pShown[o] => Listed(pTodo'[d], RemoveOf(o, d))
    BY <1>2 DEF PeerLeft, SpawnOf, TrackOf, ForgetOf, RemoveOf, Peers!Packet
  <2>1. ~Listed(s, SpawnOf(o, d)) /\ ~Listed(s, TrackOf(o, d))
    BY <1>10, PacketType DEF Listed
  <2>2. CASE d # c
    <3>1. pAlive[o] /\ pTask[d] \in {"leaving", "gone"} /\ d \notin pMissed[o]
      BY <1>4, <2>2
    <3> QED
      BY <1>1, <1>4, <2>1, <2>2, <3>1 DEF PeerLeft
  <2>3. CASE d = c
    <3>1. o # c /\ pAlive[o] /\ pTask[o] # "spawn"
      BY <1>4, <2>3
    <3>2. o \in Peers!Online \ {c}
      BY <1>1, <3>1 DEF PeerLife, Peers!Online, Peers!InPlay, Peers!Joining
    <3>3. Listed(s, ForgetOf(o, c)) /\ Listed(s, RemoveOf(o, c))
      BY <1>3, <3>2
    <3>4. ASSUME NEW e \in Peer, NEW p \in {SpawnOf(o, c), TrackOf(o, c)} PROVE ~Listed(pTodo'[e], p)
      <4>1. p \in PeerPackets /\ p.what \in {"spawn", "track"} /\ p.to = o /\ p.of = c
        BY PacketType
      <4>2. Listed(pTodo[e], p) => pTask[e] = "spawn" /\ (e = o \/ e = c)
        BY <1>1, <4>1 DEF PeerTodo, Fits
      <4>3. e # c => ~Listed(pTodo[e], p)
        BY <3>1, <4>2
      <4> QED
        BY <1>4, <2>1, <2>3, <4>3
    <3> QED
      BY <1>4, <2>3, <3>3, <3>4
  <2> QED
    BY <2>2, <2>3
<1> QED
  BY <1>5, <1>8, <1>9, <1>11, <1>12, <1>13, <1>14 DEF PeerInv

LEMMA PeerGoes == \A c \in Peer : PeerInv /\ Peers!Gone(c) => PeerInv'
<1> SUFFICES ASSUME NEW c \in Peer, PeerInv, Peers!Gone(c) PROVE PeerInv'
  OBVIOUS
<1>1. PeerType /\ PeerTodo /\ PeerLife /\ PeerPairs /\ PeerSeen /\ PeerMet /\ PeerLeft
  BY DEF PeerInv
<1>2. /\ pTask[c] = "leaving" /\ pTodo[c] = <<>>
      /\ pTask' = [pTask EXCEPT ![c] = "gone"]
      /\ pTracked' = [pTracked EXCEPT ![c] = {}]
      /\ pListed' = [pListed EXCEPT ![c] = {}]
      /\ pShown' = [pShown EXCEPT ![c] = {}]
      /\ pUnlisted' = [pUnlisted EXCEPT ![c] = {}]
      /\ pMissed' = [pMissed EXCEPT ![c] = {}]
      /\ UNCHANGED <<pAlive, pTodo>>
  BY DEF Peers!Gone
<1>3. /\ \A d \in Peer : pTask'[d] = IF d = c THEN "gone" ELSE pTask[d]
      /\ \A d \in Peer : d # c => /\ pTracked'[d] = pTracked[d] /\ pShown'[d] = pShown[d]
                                  /\ pUnlisted'[d] = pUnlisted[d] /\ pMissed'[d] = pMissed[d]
      /\ pTracked'[c] = {} /\ pShown'[c] = {}
  BY <1>1, <1>2 DEF PeerType
<1>4. PeerType'
  BY <1>1, <1>2 DEF PeerType, PeerTasks
<1>5. ~pAlive[c]
  BY <1>1, <1>2 DEF PeerLife
<1>6. PeerTodo'
  <2>1. ASSUME NEW d \in Peer, NEW p \in PeerPackets, Listed(pTodo[d], p) PROVE Fits(d, p)'
    <3>1. p.to \in Peer /\ p.of \in Peer /\ Fits(d, p)
      BY <1>1, <2>1, PacketIs DEF PeerTodo
    <3>2. d # c
      BY <1>2, <2>1, NoneListed
    <3> QED
      BY <1>3, <3>1, <3>2 DEF Fits
  <2>2. \A d \in Peer : pTodo[d] # <<>> => pTask'[d] \in {"tell", "list", "spawn", "leaving"}
    BY <1>1, <1>2, <1>3 DEF PeerTodo
  <2> QED
    BY <1>2, <2>1, <2>2 DEF PeerTodo
<1>7. PeerLife'
  <2>1. \A d \in Peer : pTracked[d] \in SUBSET Peer
    BY <1>1 DEF PeerType
  <2>2. \A d \in Peer : pTask[d] # "away" => pTask'[d] # "away"
    BY <1>3
  <2> QED
    BY <1>1, <1>2, <1>3, <1>5, <2>1, <2>2 DEF PeerLife
<1>8. PeerPairs'
  BY <1>1, <1>2 DEF PeerPairs
<1>9. \A o \in Peer : pAlive[o] => o # c
  BY <1>5
<1>10. PeerSeen'
  BY <1>1, <1>2, <1>3, <1>9 DEF PeerSeen, Sees
<1>11. PeerMet'
  BY <1>1, <1>2, <1>3, <1>9 DEF PeerMet
<1>12. PeerLeft'
  BY <1>1, <1>2, <1>3, <1>9 DEF PeerLeft
<1> QED
  BY <1>4, <1>6, <1>7, <1>8, <1>10, <1>11, <1>12 DEF PeerInv

\* A packet, or the two of a spawn that is left out, is taken off a task's list.
LessOne(q) == SubSeq(q, 2, Len(q))
LessTwo(q) == SubSeq(q, 3, Len(q))

LEMMA PopKeeps ==
    ASSUME PeerType, PeerTodo, PeerPairs, NEW c \in Peer, NEW n \in {1, 2},
           pTodo[c] # <<>>, n = 2 => pTodo[c][1].what = "spawn", pTask' = pTask,
           NEW t, n = 1 => t = LessOne(pTodo[c]), n = 2 => t = LessTwo(pTodo[c]), pTodo' = [pTodo EXCEPT ![c] = t]
    PROVE  /\ pTodo' \in [Peer -> Seq(PeerPackets)]
           /\ \A d \in Peer : d # c => pTodo'[d] = pTodo[d]
           /\ \A d \in Peer : \A p : Listed(pTodo'[d], p) => Listed(pTodo[d], p)
           /\ n \in 1..Len(pTodo[c])
           /\ \A d \in Peer : \A p : Listed(pTodo[d], p) =>
                 \/ Listed(pTodo'[d], p)
                 \/ d = c /\ p = pTodo[c][1]
                 \/ d = c /\ n = 2 /\ p = TrackOf(pTodo[c][1].to, pTodo[c][1].of)
           /\ \A o, d \in Peer : pTodo'[c] # <<>> /\ pTodo'[c][1] = TrackOf(o, d) =>
                 n = 1 /\ pTodo[c][1] = SpawnOf(o, d)
           /\ PeerTodo' /\ PeerPairs'
<1> DEFINE s == pTodo[c]
<1>1. s \in Seq(PeerPackets) /\ Len(s) \in Nat /\ Len(s) >= 1 /\ Paired(s)
  BY EmptySeq DEF PeerType, PeerPairs
<1>2. n = 2 => 1 + 1 \in 1..Len(s) /\ s[1+1] = TrackOf(s[1].to, s[1].of)
  BY <1>1 DEF Paired
<1>3. n \in Nat /\ n <= Len(s)
  BY <1>1, <1>2
<1>14. t = SubSeq(s, n + 1, Len(s))
  <2>1. CASE n = 1
    BY <2>1 DEF LessOne
  <2>2. CASE n = 2
    BY <2>2 DEF LessTwo
  <2> QED
    BY <2>1, <2>2
<1> HIDE DEF s
<1>4. /\ t \in Seq(PeerPackets)
      /\ Len(t) = Len(s) - n
      /\ \A i \in 1..Len(s) - n : t[i] = s[i + n]
      /\ \A x : Listed(t, x) => Listed(s, x)
      /\ \A x : Listed(s, x) => (\E i \in 1..n : x = s[i]) \/ Listed(t, x)
  <2> DEFINE u == SubSeq(s, n + 1, Len(s))
  <2>1. /\ u \in Seq(PeerPackets)
        /\ Len(u) = Len(s) - n
        /\ \A i \in 1..Len(s) - n : u[i] = s[i + n]
        /\ \A x : Listed(u, x) => Listed(s, x)
        /\ \A x : Listed(s, x) => (\E i \in 1..n : x = s[i]) \/ Listed(u, x)
    BY <1>1, <1>3, PopLists
  <2>2. t = u
    BY <1>14
  <2> HIDE DEF u
  <2> QED
    BY <2>1, <2>2
<1>5. pTodo' = [pTodo EXCEPT ![c] = t]
  OBVIOUS
<1>6. /\ pTodo' \in [Peer -> Seq(PeerPackets)]
      /\ \A d \in Peer : pTodo'[d] = IF d = c THEN t ELSE pTodo[d]
  BY <1>4, <1>5 DEF PeerType
<1>7. \A d \in Peer : \A p : Listed(pTodo'[d], p) => Listed(pTodo[d], p)
  BY <1>4, <1>6 DEF s
<1>8. ASSUME NEW d \in Peer, NEW p, Listed(pTodo[d], p), ~Listed(pTodo'[d], p)
      PROVE  d = c /\ (p = s[1] \/ (n = 2 /\ p = TrackOf(s[1].to, s[1].of)))
  <2>1. d = c
    BY <1>6, <1>8
  <2>2. PICK i \in 1..n : p = s[i]
    BY <1>4, <1>6, <1>8, <2>1 DEF s
  <2>3. i = 1 \/ (i = 1 + 1 /\ n = 2)
    BY <1>3
  <2> QED
    BY <1>2, <2>1, <2>2, <2>3
<1>9. PeerTodo'
  <2>1. ASSUME NEW d \in Peer, NEW p \in PeerPackets, Listed(pTodo'[d], p) PROVE Fits(d, p)'
    <3>1. Fits(d, p)
      BY <1>7, <2>1 DEF PeerTodo
    <3> QED
      BY <3>1 DEF Fits
  <2>2. \A d \in Peer : pTodo'[d] # <<>> => pTodo[d] # <<>>
    BY <1>6
  <2> QED
    BY <2>1, <2>2 DEF PeerTodo
<1>10. \A i \in 1..Len(t) : i + n \in 1..Len(s) /\ t[i] = s[i + n]
  BY <1>1, <1>3, <1>4
<1>11. Paired(t)
  <2> SUFFICES ASSUME NEW i \in 1..Len(t)
               PROVE  /\ t[i].what = "spawn" => i + 1 \in 1..Len(t) /\ t[i+1] = TrackOf(t[i].to, t[i].of)
                      /\ t[i].what = "track" /\ i # 1 => t[i-1] = SpawnOf(t[i].to, t[i].of)
    BY DEF Paired
  <2>1. /\ t[i].what = "spawn" => (i + n) + 1 \in 1..Len(s) /\ s[(i + n) + 1] = TrackOf(t[i].to, t[i].of)
        /\ t[i].what = "track" /\ i + n # 1 => s[(i + n) - 1] = SpawnOf(t[i].to, t[i].of)
    BY <1>1, <1>10 DEF Paired
  <2>2. ASSUME t[i].what = "spawn" PROVE i + 1 \in 1..Len(t) /\ t[i+1] = TrackOf(t[i].to, t[i].of)
    <3>1. i + 1 \in 1..Len(t) /\ (i + 1) + n = (i + n) + 1
      BY <1>1, <1>3, <1>4, <2>1, <2>2
    <3> QED
      BY <1>10, <2>1, <2>2, <3>1
  <2>3. ASSUME t[i].what = "track", i # 1 PROVE t[i-1] = SpawnOf(t[i].to, t[i].of)
    <3>1. i - 1 \in 1..Len(t) /\ (i - 1) + n = (i + n) - 1 /\ i + n # 1
      BY <1>1, <1>3, <1>4, <2>3
    <3> QED
      BY <1>10, <2>1, <2>3, <3>1
  <2> QED
    BY <2>2, <2>3
<1>12. PeerPairs'
  BY <1>6, <1>11 DEF PeerPairs
<1>13. ASSUME NEW o \in Peer, NEW d \in Peer, t # <<>>, t[1] = TrackOf(o, d)
       PROVE  n = 1 /\ s[1] = SpawnOf(o, d)
  <2>1. 1 \in 1..Len(t) /\ t[1] = s[1 + n] /\ 1 + n \in 1..Len(s)
    BY <1>4, <1>10, <1>13
  <2>5. TrackOf(o, d).what = "track" /\ TrackOf(o, d).to = o /\ TrackOf(o, d).of = d
    BY PacketType
  <2>2. s[1 + n].what = "track" /\ s[1 + n].to = o /\ s[1 + n].of = d
    BY <1>13, <2>1, <2>5
  <2>3. s[(1 + n) - 1] = SpawnOf(o, d)
    BY <1>1, <1>3, <2>1, <2>2 DEF Paired
  <2>6. SpawnOf(o, d).what = "spawn"
    BY PacketType
  <2>4. n # 2
    <3>1. SUFFICES ASSUME n = 2 PROVE FALSE
      OBVIOUS
    <3>2. s[(1 + n) - 1] = s[1+1]
      BY <3>1
    <3>3. s[1+1].what = "track"
      <4>1. s[1].to \in Peer /\ s[1].of \in Peer
        BY <1>1, PacketIs
      <4> QED
        BY <1>2, <3>1, <4>1, PacketType
    <3> QED
      BY <2>3, <2>6, <3>2, <3>3
  <2>7. n = 1 /\ (1 + n) - 1 = 1
    BY <2>4
  <2> QED
    BY <2>3, <2>7
<1> QED
  BY <1>3, <1>6, <1>7, <1>8, <1>9, <1>12, <1>13 DEF s

\* The packet that is sent next.
LEMMA PopHead ==
    ASSUME PeerType, PeerTodo, NEW c \in Peer, pTodo[c] # <<>>
    PROVE  \E h \in PeerPackets :
           /\ h = Head(pTodo[c]) /\ pTodo[c][1] = h /\ Listed(pTodo[c], h)
           /\ h.to \in Peer /\ h.of \in Peer
           /\ pTask[h.to] # "away" /\ pTask[h.of] # "away"
           /\ h.what \in {"spawn", "track"} => pTask[c] = "spawn" /\ h.to # h.of /\ (c = h.to \/ c = h.of)
           /\ h.what \in {"forget", "remove"} => pTask[c] = "leaving" /\ h.of = c /\ h.to # c
<1>1. PICK h : h = Head(pTodo[c])
  OBVIOUS
<1>2. h \in PeerPackets /\ pTodo[c][1] = h /\ Listed(pTodo[c], h)
  BY <1>1, TailLists DEF PeerType
<1>3. /\ h.to \in Peer /\ h.of \in Peer
      /\ pTask[h.to] # "away" /\ pTask[h.of] # "away"
      /\ h.what \in {"spawn", "track"} => pTask[c] = "spawn" /\ h.to # h.of /\ (c = h.to \/ c = h.of)
      /\ h.what \in {"forget", "remove"} => pTask[c] = "leaving" /\ h.of = c /\ h.to # c
  BY <1>2, PacketIs DEF PeerTodo, Fits
<1> QED
  BY <1>1, <1>2, <1>3

\* What tracks a player comes first only when the spawn before it has been sent.
LEMMA PairHead ==
    ASSUME NEW q \in Seq(PeerPackets), Paired(q), q # <<>>, NEW o \in Peer, NEW d \in Peer,
           LessOne(q) # <<>>, LessOne(q)[1] = TrackOf(o, d)
    PROVE  q[1] = SpawnOf(o, d)
<1>1. Len(q) \in Nat /\ Len(q) >= 1
  OBVIOUS
<1>2. /\ LessOne(q) \in Seq(PeerPackets)
      /\ Len(LessOne(q)) = Len(q) - 1
      /\ \A i \in 1..Len(q) - 1 : LessOne(q)[i] = q[i + 1]
  BY <1>1 DEF LessOne
<1>3. 1 \in 1..Len(q) - 1 /\ 2 \in 1..Len(q)
  BY <1>1, <1>2
<1>4. q[2] = TrackOf(o, d)
  BY <1>2, <1>3
<1>5. q[2].what = "track" /\ q[2].to = o /\ q[2].of = d
  BY <1>4, PacketType
<1>6. q[2 - 1] = SpawnOf(o, d)
  BY <1>3, <1>5 DEF Paired
<1> QED
  BY <1>6

LEMMA PairGone ==
    ASSUME NEW q \in Seq(PeerPackets), Paired(q), q # <<>>, q[1].what = "spawn", NEW p, Listed(q, p)
    PROVE  Listed(LessTwo(q), p) \/ p = q[1] \/ p = TrackOf(q[1].to, q[1].of)
<1>1. Len(q) \in Nat /\ Len(q) >= 1
  OBVIOUS
<1>2. 2 \in 1..Len(q) /\ q[2] = TrackOf(q[1].to, q[1].of)
  BY <1>1 DEF Paired
<1>3. 2 \in Nat /\ 2 <= Len(q)
  BY <1>1, <1>2
<1>4. (\E i \in 1..2 : p = q[i]) \/ Listed(SubSeq(q, 2 + 1, Len(q)), p)
  BY <1>3, PopLists
<1>5. LessTwo(q) = SubSeq(q, 2 + 1, Len(q))
  BY DEF LessTwo
<1> QED
  BY <1>2, <1>4, <1>5

LEMMA PairOut ==
    ASSUME NEW q \in Seq(PeerPackets), Paired(q), q # <<>>, q[1].what = "spawn",
           NEW o \in Peer, NEW d \in Peer, LessTwo(q) # <<>>
    PROVE  LessTwo(q)[1] # TrackOf(o, d)
<1>1. Len(q) \in Nat /\ Len(q) >= 1
  OBVIOUS
<1>2. 2 \in 1..Len(q) /\ q[2] = TrackOf(q[1].to, q[1].of)
  BY <1>1 DEF Paired
<1>3. /\ LessTwo(q) \in Seq(PeerPackets)
      /\ Len(LessTwo(q)) = Len(q) - 2
      /\ \A i \in 1..Len(q) - 2 : LessTwo(q)[i] = q[i + 2]
  BY <1>1, <1>2 DEF LessTwo
<1>4. 1 \in 1..Len(q) - 2 /\ 3 \in 1..Len(q)
  BY <1>1, <1>2, <1>3
<1>5. LessTwo(q)[1] = q[3]
  BY <1>3, <1>4
<1>6. q[1] \in PeerPackets
  BY <1>1
<1>7. SUFFICES ASSUME q[3] = TrackOf(o, d) PROVE FALSE
  BY <1>5
<1>8. q[3].what = "track"
  BY <1>7, PacketType
<1>9. q[3 - 1] = SpawnOf(q[3].to, q[3].of)
  BY <1>4, <1>8 DEF Paired
<1>10. q[2].what = "spawn"
  <2>1. q[3].to \in Peer /\ q[3].of \in Peer
    BY <1>7, PacketType
  <2> QED
    BY <1>9, <2>1, PacketType
<1>11. q[2].what = "track"
  BY <1>2, <1>6, PacketIs, PacketType
<1> QED
  BY <1>10, <1>11

\* What is left when it has been sent.
LEMMA PopOne ==
    ASSUME PeerType, PeerTodo, PeerPairs, NEW c \in Peer, pTodo[c] # <<>>, pTask' = pTask,
           NEW t, t = LessOne(pTodo[c]), pTodo' = [pTodo EXCEPT ![c] = t]
    PROVE  /\ pTodo' \in [Peer -> Seq(PeerPackets)]
           /\ \A d \in Peer : d # c => pTodo'[d] = pTodo[d]
           /\ \A d \in Peer : \A p : Listed(pTodo'[d], p) => Listed(pTodo[d], p)
           /\ \A d \in Peer : \A p : Listed(pTodo[d], p) => Listed(pTodo'[d], p) \/ p = pTodo[c][1]
           /\ \A o, d \in Peer : pTodo'[c] # <<>> /\ pTodo'[c][1] = TrackOf(o, d) =>
                 pTodo[c][1] = SpawnOf(o, d)
           /\ PeerTodo' /\ PeerPairs'
<1>4. PICK n \in {1, 2} : n = 1
  OBVIOUS
<1>5. /\ n # 2 /\ t = LessOne(pTodo[c])
      /\ n = 1 => t = LessOne(pTodo[c])
      /\ n = 2 => t = LessTwo(pTodo[c])
      /\ n = 2 => pTodo[c][1].what = "spawn"
  BY <1>4
<1>7. PeerType /\ PeerTodo /\ PeerPairs /\ pTask' = pTask /\ pTodo' = [pTodo EXCEPT ![c] = t] /\ pTodo[c] # <<>>
  OBVIOUS
<1>6. pTodo' \in [Peer -> Seq(PeerPackets)] /\ PeerTodo' /\ PeerPairs'
  BY <1>4, <1>5, <1>7, PopKeeps
<1>8. \A d \in Peer : d # c => pTodo'[d] = pTodo[d]
  BY <1>4, <1>5, <1>7, PopKeeps
<1>9. ASSUME NEW d \in Peer, NEW p, Listed(pTodo'[d], p) PROVE Listed(pTodo[d], p)
  BY <1>4, <1>5, <1>7, <1>9, PopKeeps
<1>10. ASSUME NEW d \in Peer, NEW p, Listed(pTodo[d], p), p # pTodo[c][1] PROVE Listed(pTodo'[d], p)
  BY <1>4, <1>5, <1>7, <1>10, PopKeeps
<1>11. ASSUME NEW o \in Peer, NEW d \in Peer, pTodo'[c] # <<>>, pTodo'[c][1] = TrackOf(o, d)
       PROVE  pTodo[c][1] = SpawnOf(o, d)
  <2>1. pTodo[c] \in Seq(PeerPackets) /\ Paired(pTodo[c])
    BY DEF PeerType, PeerPairs
  <2>2. pTodo'[c] = LessOne(pTodo[c])
    BY <1>5, <1>7 DEF PeerType
  <2> QED
    BY <1>7, <1>11, <2>1, <2>2, PairHead
<1> QED
  BY <1>6, <1>8, <1>9, <1>10, <1>11

\* Packets that are sent change what is listed, not who is there.
LEMMA SendsKeep ==
    ASSUME PeerInv, NEW c \in Peer, NEW h \in PeerPackets,
           UNCHANGED <<pTask, pAlive, pMissed>>,
           \A d \in Peer : \A p : Listed(pTodo'[d], p) => Listed(pTodo[d], p),
           \A o \in Peer : \A d \in pTracked'[o] : d \in pTracked[o] \/ h = TrackOf(o, d),
           \A o \in Peer : \A d \in pShown'[o] : d \in pShown[o] \/ h = SpawnOf(o, d),
           Listed(pTodo[c], h)
    PROVE  /\ PeerLife'
           /\ \A o, d \in Peer :
                 o # d /\ pAlive[o] /\ pTask[d] \in {"leaving", "gone"} /\ d \notin pMissed[o] =>
                    /\ \A e \in Peer : ~Listed(pTodo'[e], SpawnOf(o, d)) /\ ~Listed(pTodo'[e], TrackOf(o, d))
                    /\ d \in pTracked'[o] => d \in pTracked[o] /\ Listed(pTodo[d], ForgetOf(o, d))
                    /\ d \in pShown'[o] => d \in pShown[o] /\ Listed(pTodo[d], RemoveOf(o, d))
<1>1. PeerType /\ PeerTodo /\ PeerLife /\ PeerLeft /\ Fits(c, h)
  BY DEF PeerInv, PeerTodo
<1>2. ASSUME NEW o \in Peer, NEW d \in Peer, o # d, pAlive[o], pTask[d] \in {"leaving", "gone"}, d \notin pMissed[o]
      PROVE  /\ \A e \in Peer : ~Listed(pTodo'[e], SpawnOf(o, d)) /\ ~Listed(pTodo'[e], TrackOf(o, d))
             /\ d \in pTracked'[o] => d \in pTracked[o] /\ Listed(pTodo[d], ForgetOf(o, d))
             /\ d \in pShown'[o] => d \in pShown[o] /\ Listed(pTodo[d], RemoveOf(o, d))
  <2>1. /\ \A e \in Peer : ~Listed(pTodo[e], SpawnOf(o, d)) /\ ~Listed(pTodo[e], TrackOf(o, d))
        /\ d \in pTracked[o] => Listed(pTodo[d], ForgetOf(o, d))
        /\ d \in pShown[o] => Listed(pTodo[d], RemoveOf(o, d))
    BY <1>1, <1>2 DEF PeerLeft
  <2>2. h # SpawnOf(o, d) /\ h # TrackOf(o, d)
    BY <2>1
  <2> QED
    BY <2>1, <2>2
<1>3. PeerLife'
  <2> SUFFICES ASSUME NEW o \in Peer
               PROVE  /\ pAlive[o] => pTask[o] \in {"loading", "tell", "list", "spawn", "playing"}
                      /\ pTask[o] = "away" => pTracked'[o] = {} /\ pShown'[o] = {}
                      /\ \A d \in pTracked'[o] : pTask[d] # "away"
    BY DEF PeerLife
  <2>1. \A d : h = TrackOf(o, d) \/ h = SpawnOf(o, d) => h.to = o /\ h.of = d
    BY DEF TrackOf, SpawnOf, Peers!Packet
  <2>2. \A d : h = TrackOf(o, d) \/ h = SpawnOf(o, d) => pTask[o] # "away" /\ pTask[d] # "away"
    BY <1>1, <2>1 DEF Fits
  <2> QED
    BY <1>1, <2>2 DEF PeerLife
<1> QED
  BY <1>2, <1>3

\* What every packet but a spawn leaves to be shown, when nobody who is there is taken away.
LEMMA SendsShow ==
    ASSUME PeerInv, NEW c \in Peer, NEW h \in PeerPackets,
           UNCHANGED <<pTask, pAlive>>,
           \A d \in Peer : d # c => pTodo'[d] = pTodo[d],
           \A d \in Peer : \A p : Listed(pTodo[d], p) => Listed(pTodo'[d], p) \/ p = h,
           \A o, d \in Peer : pTodo'[c] # <<>> /\ pTodo'[c][1] = TrackOf(o, d) => h = SpawnOf(o, d),
           \A o, d \in Peer : h # SpawnOf(o, d),
           \A o, d \in Peer : pAlive[d] => ( d \in pTracked[o] => d \in pTracked'[o] ),
           \A o, d \in Peer : d \in pTracked'[o] => d \in pTracked[o] \/ h = TrackOf(o, d),
           \A o, d \in Peer : h = TrackOf(o, d) => d \in pTracked'[o] /\ pTodo[c][1] = h,
           pTodo[c] # <<>>,
           \A o, d \in Peer : pAlive[d] /\ Sees(o, d) => Sees(o, d)'
    PROVE  PeerSeen' /\ PeerMet'
<1>1. PeerSeen /\ PeerMet
  BY DEF PeerInv
<1>2. PeerSeen'
  <2> SUFFICES ASSUME NEW o \in Peer, NEW d \in Peer, o # d, o \notin OldPeer, pAlive[o], pAlive[d]
               PROVE  /\ d \in pTracked'[o] => Sees(o, d)'
                      /\ \A e \in Peer : pTodo'[e] # <<>> /\ pTodo'[e][1] = TrackOf(o, d) => Sees(o, d)'
    BY DEF PeerSeen, TrackOf, Peers!Packet
  <2>1. /\ d \in pTracked[o] => Sees(o, d)
        /\ \A e \in Peer : pTodo[e] # <<>> /\ pTodo[e][1] = TrackOf(o, d) => Sees(o, d)
    BY <1>1 DEF PeerSeen
  <2>2. Sees(o, d) => Sees(o, d)'
    OBVIOUS
  <2>3. d \in pTracked'[o] => Sees(o, d)
    BY <2>1
  <2>4. ASSUME NEW e \in Peer, pTodo'[e] # <<>>, pTodo'[e][1] = TrackOf(o, d) PROVE Sees(o, d)
    <3>1. e # c
      BY <2>4
    <3> QED
      BY <2>1, <2>4, <3>1
  <2> QED
    BY <2>2, <2>3, <2>4
<1>3. PeerMet'
  <2> SUFFICES ASSUME NEW o \in Peer, NEW d \in Peer, o # d, o \notin OldPeer, pAlive[o], pAlive[d],
                      pTask[o] \in {"spawn", "playing"}, pTask[d] \in {"spawn", "playing"}
               PROVE  d \in pTracked'[o] \/ \E e \in Peer : Listed(pTodo'[e], TrackOf(o, d))
    BY DEF PeerMet, TrackOf, Peers!Packet
  <2>1. d \in pTracked[o] \/ \E e \in Peer : Listed(pTodo[e], TrackOf(o, d))
    BY <1>1 DEF PeerMet
  <2> QED
    BY <2>1
<1> QED
  BY <1>2, <1>3

\* Only the client of the packet learns of it, and no player comes or goes.
LEMMA PeerInfo == \A c \in Peer : PeerInv /\ Peers!SendInfo(c) => PeerInv'
<1> SUFFICES ASSUME NEW c \in Peer, PeerInv, Peers!SendInfo(c) PROVE PeerInv'
  OBVIOUS
<1>1. PeerType /\ PeerTodo /\ PeerLife /\ PeerPairs /\ PeerSeen /\ PeerMet /\ PeerLeft
  BY DEF PeerInv
<1>2. PICK h, s : h = Head(pTodo[c]) /\ s = LessOne(pTodo[c])
  OBVIOUS
<1>3. /\ pTodo[c] # <<>> /\ h.what = "info"
      /\ pListed' = [pListed EXCEPT ![h.to] = IF pAlive[h.to] THEN @ \cup {h.of} ELSE @]
      /\ pTodo' = [pTodo EXCEPT ![c] = s]
      /\ UNCHANGED <<pTask, pAlive, pTracked, pShown, pUnlisted, pMissed>>
  BY <1>2 DEF Peers!SendInfo, Peers!Turn, Peers!Pop, LessOne, Peers!history
<1>0. pTask' = pTask /\ pTodo[c] # <<>> /\ pTodo' = [pTodo EXCEPT ![c] = s]
  BY <1>3
<1>41. /\ h \in PeerPackets /\ pTodo[c][1] = h /\ Listed(pTodo[c], h)
       /\ h.to \in Peer /\ h.of \in Peer
       /\ pTask[h.to] # "away" /\ pTask[h.of] # "away"
       /\ h.what \in {"spawn", "track"} => pTask[c] = "spawn" /\ h.to # h.of /\ (c = h.to \/ c = h.of)
       /\ h.what \in {"forget", "remove"} => pTask[c] = "leaving" /\ h.of = c /\ h.to # c
  BY <1>0, <1>1, <1>2, PopHead
<1>42. /\ pTodo' \in [Peer -> Seq(PeerPackets)]
       /\ \A d \in Peer : d # c => pTodo'[d] = pTodo[d]
       /\ \A d \in Peer : \A p : Listed(pTodo'[d], p) => Listed(pTodo[d], p)
       /\ \A d \in Peer : \A p : Listed(pTodo[d], p) => Listed(pTodo'[d], p) \/ p = pTodo[c][1]
       /\ \A o, d \in Peer : pTodo'[c] # <<>> /\ pTodo'[c][1] = TrackOf(o, d) =>
             pTodo[c][1] = SpawnOf(o, d)
       /\ PeerTodo' /\ PeerPairs'
  BY <1>0, <1>1, <1>2, PopOne
<1>5. PeerType'
  BY <1>1, <1>3, <1>41, <1>42 DEF PeerType
<1>6. \A o, d \in Peer : h # SpawnOf(o, d) /\ h # TrackOf(o, d) /\ h # ForgetOf(o, d) /\ h # RemoveOf(o, d)
  BY <1>3, PacketType
<1>7. /\ PeerLife'
      /\ \A o, d \in Peer :
            o # d /\ pAlive[o] /\ pTask[d] \in {"leaving", "gone"} /\ d \notin pMissed[o] =>
               /\ \A e \in Peer : ~Listed(pTodo'[e], SpawnOf(o, d)) /\ ~Listed(pTodo'[e], TrackOf(o, d))
               /\ d \in pTracked'[o] => d \in pTracked[o] /\ Listed(pTodo[d], ForgetOf(o, d))
               /\ d \in pShown'[o] => d \in pShown[o] /\ Listed(pTodo[d], RemoveOf(o, d))
  BY <1>3, <1>41, <1>42, SendsKeep
<1>8. PeerLeft'
  BY <1>3, <1>41, <1>42, <1>6, <1>7 DEF PeerLeft
<1>9. \A o, d \in Peer : Sees(o, d) => Sees(o, d)'
  BY <1>3 DEF Sees
<1>10. PeerSeen' /\ PeerMet'
  BY <1>3, <1>41, <1>42, <1>6, <1>9, SendsShow
<1> QED
  BY <1>41, <1>42, <1>5, <1>7, <1>8, <1>10 DEF PeerInv

LEMMA PeerTrack == \A c \in Peer : PeerInv /\ Peers!Track(c) => PeerInv'
<1> SUFFICES ASSUME NEW c \in Peer, PeerInv, Peers!Track(c) PROVE PeerInv'
  OBVIOUS
<1>1. PeerType /\ PeerTodo /\ PeerLife /\ PeerPairs /\ PeerSeen /\ PeerMet /\ PeerLeft
  BY DEF PeerInv
<1>2. PICK h, s : h = Head(pTodo[c]) /\ s = LessOne(pTodo[c])
  OBVIOUS
<1>3. /\ pTodo[c] # <<>> /\ h.what = "track"
      /\ pTracked' = [pTracked EXCEPT ![h.to] = @ \cup {h.of}]
      /\ pTodo' = [pTodo EXCEPT ![c] = s]
      /\ UNCHANGED <<pTask, pAlive, pListed, pShown, pUnlisted, pMissed>>
  BY <1>2 DEF Peers!Track, Peers!Turn, Peers!Pop, LessOne, Peers!history, Peers!client
<1>0. pTask' = pTask /\ pTodo[c] # <<>> /\ pTodo' = [pTodo EXCEPT ![c] = s]
  BY <1>3
<1>41. /\ h \in PeerPackets /\ pTodo[c][1] = h /\ Listed(pTodo[c], h)
       /\ h.to \in Peer /\ h.of \in Peer
       /\ pTask[h.to] # "away" /\ pTask[h.of] # "away"
       /\ h.what \in {"spawn", "track"} => pTask[c] = "spawn" /\ h.to # h.of /\ (c = h.to \/ c = h.of)
       /\ h.what \in {"forget", "remove"} => pTask[c] = "leaving" /\ h.of = c /\ h.to # c
  BY <1>0, <1>1, <1>2, PopHead
<1>42. /\ pTodo' \in [Peer -> Seq(PeerPackets)]
       /\ \A d \in Peer : d # c => pTodo'[d] = pTodo[d]
       /\ \A d \in Peer : \A p : Listed(pTodo'[d], p) => Listed(pTodo[d], p)
       /\ \A d \in Peer : \A p : Listed(pTodo[d], p) => Listed(pTodo'[d], p) \/ p = pTodo[c][1]
       /\ \A o, d \in Peer : pTodo'[c] # <<>> /\ pTodo'[c][1] = TrackOf(o, d) =>
             pTodo[c][1] = SpawnOf(o, d)
       /\ PeerTodo' /\ PeerPairs'
  BY <1>0, <1>1, <1>2, PopOne
<1>5. PeerType'
  BY <1>1, <1>3, <1>41, <1>42 DEF PeerType
<1>6. /\ \A o, d \in Peer : h # SpawnOf(o, d) /\ h # ForgetOf(o, d) /\ h # RemoveOf(o, d)
      /\ h = TrackOf(h.to, h.of)
      /\ \A o, d \in Peer : h = TrackOf(o, d) <=> h.to = o /\ h.of = d
  <2>1. h \in PeerPackets /\ h.to \in Peer /\ h.of \in Peer /\ h.what = "track"
    BY <1>3, <1>41
  <2>2. h = TrackOf(h.to, h.of)
    BY <2>1, PacketIs
  <2>3. ASSUME NEW o \in Peer, NEW d \in Peer
        PROVE  /\ h # SpawnOf(o, d) /\ h # ForgetOf(o, d) /\ h # RemoveOf(o, d)
               /\ h = TrackOf(o, d) <=> h.to = o /\ h.of = d
    BY <2>1, PacketMeans
  <2> QED
    BY <2>2, <2>3
<1>7. \A o \in Peer : pTracked'[o] = IF o = h.to THEN pTracked[o] \cup {h.of} ELSE pTracked[o]
  <2>1. pTracked \in [Peer -> SUBSET Peer] /\ h.to \in Peer
    BY <1>1, <1>41 DEF PeerType
  <2>2. pTracked' = [pTracked EXCEPT ![h.to] = @ \cup {h.of}]
    BY <1>3
  <2> QED
    BY <2>1, <2>2
<1>8. \A o \in Peer : \A d \in pTracked'[o] : d \in pTracked[o] \/ h = TrackOf(o, d)
  <2> SUFFICES ASSUME NEW o \in Peer, NEW d \in pTracked'[o]
               PROVE  d \in pTracked[o] \/ h = TrackOf(o, d)
    OBVIOUS
  <2>1. d \in pTracked[o] \/ (o = h.to /\ d = h.of)
    BY <1>7
  <2> QED
    BY <1>6, <2>1
<1>9. /\ PeerLife'
      /\ \A o, d \in Peer :
            o # d /\ pAlive[o] /\ pTask[d] \in {"leaving", "gone"} /\ d \notin pMissed[o] =>
               /\ \A e \in Peer : ~Listed(pTodo'[e], SpawnOf(o, d)) /\ ~Listed(pTodo'[e], TrackOf(o, d))
               /\ d \in pTracked'[o] => d \in pTracked[o] /\ Listed(pTodo[d], ForgetOf(o, d))
               /\ d \in pShown'[o] => d \in pShown[o] /\ Listed(pTodo[d], RemoveOf(o, d))
  <2>1. \A o \in Peer : \A d \in pTracked'[o] : d \in pTracked[o] \/ h = TrackOf(o, d)
    BY <1>8
  <2>2. \A o \in Peer : \A d \in pShown'[o] : d \in pShown[o] \/ h = SpawnOf(o, d)
    BY <1>3
  <2>3. UNCHANGED <<pTask, pAlive, pMissed>> /\ h \in PeerPackets /\ Listed(pTodo[c], h)
    BY <1>3, <1>41
  <2> QED
    BY <1>42, <2>1, <2>2, <2>3, SendsKeep
<1>10. PeerLeft'
  BY <1>3, <1>41, <1>42, <1>6, <1>9 DEF PeerLeft
<1>11. \A o, d \in Peer : Sees(o, d) => Sees(o, d)'
  BY <1>3 DEF Sees
<1>12. /\ \A o, d \in Peer : d \in pTracked[o] => d \in pTracked'[o]
       /\ \A o, d \in Peer : h = TrackOf(o, d) => d \in pTracked'[o]
  <2>1. \A o, d \in Peer : d \in pTracked[o] => d \in pTracked'[o]
    BY <1>7
  <2>2. ASSUME NEW o \in Peer, NEW d \in Peer, h = TrackOf(o, d) PROVE d \in pTracked'[o]
    <3>1. o = h.to /\ d = h.of
      BY <1>6, <2>2
    <3> QED
      BY <1>7, <3>1
  <2> QED
    BY <2>1, <2>2
<1>13. PeerSeen' /\ PeerMet'
  BY <1>3, <1>41, <1>42, <1>6, <1>8, <1>11, <1>12, SendsShow
<1> QED
  BY <1>41, <1>42, <1>5, <1>9, <1>10, <1>13 DEF PeerInv

LEMMA PeerForget == \A c \in Peer : PeerInv /\ Peers!SendForget(c) => PeerInv'
<1> SUFFICES ASSUME NEW c \in Peer, PeerInv, Peers!SendForget(c) PROVE PeerInv'
  OBVIOUS
<1>1. PeerType /\ PeerTodo /\ PeerLife /\ PeerPairs /\ PeerSeen /\ PeerMet /\ PeerLeft
  BY DEF PeerInv
<1>2. PICK h, s : h = Head(pTodo[c]) /\ s = LessOne(pTodo[c])
  OBVIOUS
<1>3. /\ pTodo[c] # <<>> /\ h.what = "forget"
      /\ pTracked' = [pTracked EXCEPT ![h.to] = @ \ {c}]
      /\ pListed' = [pListed EXCEPT ![h.to] = IF pAlive[h.to] THEN @ \ {c} ELSE @]
      /\ pTodo' = [pTodo EXCEPT ![c] = s]
      /\ UNCHANGED <<pTask, pAlive, pShown, pUnlisted, pMissed>>
  BY <1>2 DEF Peers!SendForget, Peers!Turn, Peers!Pop, LessOne, Peers!history
<1>0. pTask' = pTask /\ pTodo[c] # <<>> /\ pTodo' = [pTodo EXCEPT ![c] = s]
  BY <1>3
<1>41. /\ h \in PeerPackets /\ pTodo[c][1] = h /\ Listed(pTodo[c], h)
       /\ h.to \in Peer /\ h.of \in Peer
       /\ pTask[h.to] # "away" /\ pTask[h.of] # "away"
       /\ h.what \in {"spawn", "track"} => pTask[c] = "spawn" /\ h.to # h.of /\ (c = h.to \/ c = h.of)
       /\ h.what \in {"forget", "remove"} => pTask[c] = "leaving" /\ h.of = c /\ h.to # c
  BY <1>0, <1>1, <1>2, PopHead
<1>42. /\ pTodo' \in [Peer -> Seq(PeerPackets)]
       /\ \A d \in Peer : d # c => pTodo'[d] = pTodo[d]
       /\ \A d \in Peer : \A p : Listed(pTodo'[d], p) => Listed(pTodo[d], p)
       /\ \A d \in Peer : \A p : Listed(pTodo[d], p) => Listed(pTodo'[d], p) \/ p = pTodo[c][1]
       /\ \A o, d \in Peer : pTodo'[c] # <<>> /\ pTodo'[c][1] = TrackOf(o, d) =>
             pTodo[c][1] = SpawnOf(o, d)
       /\ PeerTodo' /\ PeerPairs'
  BY <1>0, <1>1, <1>2, PopOne
<1>5. PeerType'
  BY <1>1, <1>3, <1>41, <1>42 DEF PeerType
<1>6. /\ \A o, d \in Peer : h # SpawnOf(o, d) /\ h # TrackOf(o, d) /\ h # RemoveOf(o, d)
      /\ \A o, d \in Peer : h = ForgetOf(o, d) => h.to = o /\ h.of = d
      /\ h.of = c /\ ~pAlive[c]
  <2>1. h \in PeerPackets /\ h.what = "forget" /\ h.of = c /\ pTask[c] = "leaving"
    BY <1>3, <1>41
  <2>2. ~pAlive[c]
    BY <1>1, <2>1 DEF PeerLife
  <2> QED
    BY <2>1, <2>2, PacketType
<1>7. \A o \in Peer : pTracked'[o] = IF o = h.to THEN pTracked[o] \ {c} ELSE pTracked[o]
  <2>1. pTracked \in [Peer -> SUBSET Peer] /\ h.to \in Peer
    BY <1>1, <1>41 DEF PeerType
  <2>2. pTracked' = [pTracked EXCEPT ![h.to] = @ \ {c}]
    BY <1>3
  <2> QED
    BY <2>1, <2>2
<1>8. \A o \in Peer : \A d \in pTracked'[o] : d \in pTracked[o]
  BY <1>7
<1>9. /\ PeerLife'
      /\ \A o, d \in Peer :
            o # d /\ pAlive[o] /\ pTask[d] \in {"leaving", "gone"} /\ d \notin pMissed[o] =>
               /\ \A e \in Peer : ~Listed(pTodo'[e], SpawnOf(o, d)) /\ ~Listed(pTodo'[e], TrackOf(o, d))
               /\ d \in pTracked'[o] => d \in pTracked[o] /\ Listed(pTodo[d], ForgetOf(o, d))
               /\ d \in pShown'[o] => d \in pShown[o] /\ Listed(pTodo[d], RemoveOf(o, d))
  <2>1. \A o \in Peer : \A d \in pTracked'[o] : d \in pTracked[o] \/ h = TrackOf(o, d)
    BY <1>8
  <2>2. \A o \in Peer : \A d \in pShown'[o] : d \in pShown[o] \/ h = SpawnOf(o, d)
    BY <1>3
  <2>3. UNCHANGED <<pTask, pAlive, pMissed>> /\ h \in PeerPackets /\ Listed(pTodo[c], h)
    BY <1>3, <1>41
  <2> QED
    BY <1>42, <2>1, <2>2, <2>3, SendsKeep
<1>14. ASSUME NEW o \in Peer, NEW d \in Peer, h = ForgetOf(o, d) PROVE d \notin pTracked'[o]
  <2>1. o = h.to /\ d = h.of
    BY <1>6, <1>14
  <2> QED
    BY <1>6, <1>7, <2>1
<1>10. PeerLeft'
  BY <1>3, <1>41, <1>42, <1>6, <1>9, <1>14 DEF PeerLeft
<1>11. \A o, d \in Peer : Sees(o, d) => Sees(o, d)'
  BY <1>3 DEF Sees
<1>12. \A o, d \in Peer : pAlive[d] => (d \in pTracked[o] => d \in pTracked'[o])
  BY <1>6, <1>7
<1>13. PeerSeen' /\ PeerMet'
  BY <1>3, <1>41, <1>42, <1>6, <1>8, <1>11, <1>12, SendsShow
<1> QED
  BY <1>41, <1>42, <1>5, <1>9, <1>10, <1>13 DEF PeerInv

LEMMA PeerRemove == \A c \in Peer : PeerInv /\ Peers!SendRemove(c) => PeerInv'
<1> SUFFICES ASSUME NEW c \in Peer, PeerInv, Peers!SendRemove(c) PROVE PeerInv'
  OBVIOUS
<1>1. PeerType /\ PeerTodo /\ PeerLife /\ PeerPairs /\ PeerSeen /\ PeerMet /\ PeerLeft
  BY DEF PeerInv
<1>2. PICK h, s : h = Head(pTodo[c]) /\ s = LessOne(pTodo[c])
  OBVIOUS
<1>3. /\ pTodo[c] # <<>> /\ h.what = "remove"
      /\ pShown' = [pShown EXCEPT ![h.to] = IF pAlive[h.to] THEN @ \ {c} ELSE @]
      /\ pTodo' = [pTodo EXCEPT ![c] = s]
      /\ UNCHANGED <<pTask, pAlive, pTracked, pListed, pUnlisted, pMissed>>
  BY <1>2 DEF Peers!SendRemove, Peers!Turn, Peers!Pop, LessOne, Peers!history
<1>0. pTask' = pTask /\ pTodo[c] # <<>> /\ pTodo' = [pTodo EXCEPT ![c] = s]
  BY <1>3
<1>41. /\ h \in PeerPackets /\ pTodo[c][1] = h /\ Listed(pTodo[c], h)
       /\ h.to \in Peer /\ h.of \in Peer
       /\ pTask[h.to] # "away" /\ pTask[h.of] # "away"
       /\ h.what \in {"spawn", "track"} => pTask[c] = "spawn" /\ h.to # h.of /\ (c = h.to \/ c = h.of)
       /\ h.what \in {"forget", "remove"} => pTask[c] = "leaving" /\ h.of = c /\ h.to # c
  BY <1>0, <1>1, <1>2, PopHead
<1>42. /\ pTodo' \in [Peer -> Seq(PeerPackets)]
       /\ \A d \in Peer : d # c => pTodo'[d] = pTodo[d]
       /\ \A d \in Peer : \A p : Listed(pTodo'[d], p) => Listed(pTodo[d], p)
       /\ \A d \in Peer : \A p : Listed(pTodo[d], p) => Listed(pTodo'[d], p) \/ p = pTodo[c][1]
       /\ \A o, d \in Peer : pTodo'[c] # <<>> /\ pTodo'[c][1] = TrackOf(o, d) =>
             pTodo[c][1] = SpawnOf(o, d)
       /\ PeerTodo' /\ PeerPairs'
  BY <1>0, <1>1, <1>2, PopOne
<1>5. PeerType'
  BY <1>1, <1>3, <1>41, <1>42 DEF PeerType
<1>6. /\ \A o, d \in Peer : h # SpawnOf(o, d) /\ h # TrackOf(o, d) /\ h # ForgetOf(o, d)
      /\ \A o, d \in Peer : h = RemoveOf(o, d) => h.to = o /\ h.of = d
      /\ h.of = c /\ ~pAlive[c]
  <2>1. h \in PeerPackets /\ h.what = "remove" /\ h.of = c /\ pTask[c] = "leaving"
    BY <1>3, <1>41
  <2>2. ~pAlive[c]
    BY <1>1, <2>1 DEF PeerLife
  <2>3. ASSUME NEW o \in Peer, NEW d \in Peer
        PROVE  /\ h # SpawnOf(o, d) /\ h # TrackOf(o, d) /\ h # ForgetOf(o, d)
               /\ h = RemoveOf(o, d) => h.to = o /\ h.of = d
    BY <2>1, PacketMeans
  <2> QED
    BY <2>1, <2>2, <2>3
<1>7. \A o \in Peer : pShown'[o] = IF o = h.to /\ pAlive[o] THEN pShown[o] \ {c} ELSE pShown[o]
  <2>1. pShown \in [Peer -> SUBSET Peer] /\ h.to \in Peer
    BY <1>1, <1>41 DEF PeerType
  <2>2. pShown' = [pShown EXCEPT ![h.to] = IF pAlive[h.to] THEN @ \ {c} ELSE @]
    BY <1>3
  <2> QED
    BY <2>1, <2>2
<1>8. \A o \in Peer : \A d \in pShown'[o] : d \in pShown[o]
  BY <1>7
<1>9. /\ PeerLife'
      /\ \A o, d \in Peer :
            o # d /\ pAlive[o] /\ pTask[d] \in {"leaving", "gone"} /\ d \notin pMissed[o] =>
               /\ \A e \in Peer : ~Listed(pTodo'[e], SpawnOf(o, d)) /\ ~Listed(pTodo'[e], TrackOf(o, d))
               /\ d \in pTracked'[o] => d \in pTracked[o] /\ Listed(pTodo[d], ForgetOf(o, d))
               /\ d \in pShown'[o] => d \in pShown[o] /\ Listed(pTodo[d], RemoveOf(o, d))
  <2>1. \A o \in Peer : \A d \in pTracked'[o] : d \in pTracked[o] \/ h = TrackOf(o, d)
    BY <1>3
  <2>2. \A o \in Peer : \A d \in pShown'[o] : d \in pShown[o] \/ h = SpawnOf(o, d)
    BY <1>8
  <2>3. UNCHANGED <<pTask, pAlive, pMissed>> /\ h \in PeerPackets /\ Listed(pTodo[c], h)
    BY <1>3, <1>41
  <2> QED
    BY <1>42, <2>1, <2>2, <2>3, SendsKeep
<1>14. ASSUME NEW o \in Peer, NEW d \in Peer, pAlive[o], h = RemoveOf(o, d)
       PROVE  d \notin pShown'[o]
  <2>1. o = h.to /\ d = h.of
    BY <1>6, <1>14
  <2>2. pShown'[o] = pShown[o] \ {c} /\ d = c
    BY <1>6, <1>7, <1>14, <2>1
  <2> QED
    BY <2>2
<1>10. PeerLeft'
  BY <1>3, <1>41, <1>42, <1>6, <1>9, <1>14 DEF PeerLeft
<1>11. \A o, d \in Peer : pAlive[d] /\ Sees(o, d) => Sees(o, d)'
  BY <1>3, <1>6, <1>7 DEF Sees
<1>13. PeerSeen' /\ PeerMet'
  BY <1>3, <1>41, <1>42, <1>6, <1>11, SendsShow
<1> QED
  BY <1>41, <1>42, <1>5, <1>9, <1>10, <1>13 DEF PeerInv

\* A spawn that is left out, with its tracking, tells a client nothing it does not know.
LEMMA PeerSkip ==
    ASSUME PeerInv, NEW c \in Peer, NEW h, h = Head(pTodo[c]), pTodo[c] # <<>>, h.what = "spawn",
           h.to \in OldPeer \/ h.of \in pTracked[h.to],
           NEW s, s = LessTwo(pTodo[c]), pTodo' = [pTodo EXCEPT ![c] = s],
           UNCHANGED <<pTask, pAlive, pTracked, pListed, pShown, pUnlisted, pMissed>>
    PROVE  PeerInv'
<1>1. PeerType /\ PeerTodo /\ PeerLife /\ PeerPairs /\ PeerSeen /\ PeerMet /\ PeerLeft
  BY DEF PeerInv
<1>2. h \in PeerPackets /\ pTodo[c][1] = h /\ Listed(pTodo[c], h)
  BY <1>1, TailLists DEF PeerType
<1>3. h.to \in Peer /\ h.of \in Peer /\ h = SpawnOf(h.to, h.of)
  BY <1>2, PacketIs
<1>4. PICK n \in {1, 2} : n = 2
  OBVIOUS
<1>5. /\ n # 1 /\ s = LessTwo(pTodo[c])
      /\ n = 1 => s = LessOne(pTodo[c])
      /\ n = 2 => s = LessTwo(pTodo[c])
      /\ n = 2 => pTodo[c][1].what = "spawn"
  BY <1>2, <1>4
<1>14. PeerType /\ PeerTodo /\ PeerPairs /\ pTask' = pTask /\ pTodo' = [pTodo EXCEPT ![c] = s] /\ pTodo[c] # <<>>
  BY <1>1
<1>6. /\ pTodo' \in [Peer -> Seq(PeerPackets)]
      /\ \A d \in Peer : \A p : Listed(pTodo'[d], p) => Listed(pTodo[d], p)
      /\ \A d \in Peer : d # c => pTodo'[d] = pTodo[d]
      /\ PeerTodo' /\ PeerPairs'
  <2>1. pTodo' \in [Peer -> Seq(PeerPackets)] /\ PeerTodo' /\ PeerPairs'
    BY <1>4, <1>5, <1>14, PopKeeps
  <2>2. \A d \in Peer : d # c => pTodo'[d] = pTodo[d]
    BY <1>4, <1>5, <1>14, PopKeeps
  <2>3. ASSUME NEW d \in Peer, NEW p, Listed(pTodo'[d], p) PROVE Listed(pTodo[d], p)
    BY <1>4, <1>5, <1>14, <2>3, PopKeeps
  <2> QED
    BY <2>1, <2>2, <2>3
<1>7. /\ \A d \in Peer : \A p : Listed(pTodo[d], p) =>
            Listed(pTodo'[d], p) \/ p = SpawnOf(h.to, h.of) \/ p = TrackOf(h.to, h.of)
      /\ \A o, d \in Peer : ~(pTodo'[c] # <<>> /\ pTodo'[c][1] = TrackOf(o, d))
  <2>1. pTodo[c][1] = SpawnOf(h.to, h.of) /\ pTodo[c][1].to = h.to /\ pTodo[c][1].of = h.of
    BY <1>2, <1>3
  <2>2. /\ pTodo[c] \in Seq(PeerPackets) /\ Paired(pTodo[c]) /\ pTodo[c][1].what = "spawn"
        /\ pTodo'[c] = LessTwo(pTodo[c])
    BY <1>1, <1>2, <1>5, <1>14 DEF PeerType, PeerPairs
  <2>3. ASSUME NEW d \in Peer, NEW p, Listed(pTodo[d], p)
        PROVE  Listed(pTodo'[d], p) \/ p = SpawnOf(h.to, h.of) \/ p = TrackOf(h.to, h.of)
    <3>1. CASE d = c
      <4>1. Listed(LessTwo(pTodo[c]), p) \/ p = pTodo[c][1] \/ p = TrackOf(pTodo[c][1].to, pTodo[c][1].of)
        BY <1>14, <2>2, <2>3, <3>1, PairGone
      <4> QED
        BY <2>1, <2>2, <3>1, <4>1
    <3>2. CASE d # c
      BY <1>6, <2>3, <3>2
    <3> QED
      BY <3>1, <3>2
  <2>4. ASSUME NEW o \in Peer, NEW d \in Peer PROVE ~(pTodo'[c] # <<>> /\ pTodo'[c][1] = TrackOf(o, d))
    BY <1>14, <2>2, PairOut
  <2> QED
    BY <2>3, <2>4
<1>8. PeerType'
  BY <1>1, <1>6 DEF PeerType
<1>9. PeerLife'
  BY <1>1 DEF PeerLife
<1>10. PeerSeen'
  <2> SUFFICES ASSUME NEW o \in Peer, NEW d \in Peer, o # d, o \notin OldPeer, pAlive[o], pAlive[d]
               PROVE  /\ d \in pTracked[o] => Sees(o, d)
                      /\ \A e \in Peer : pTodo'[e] # <<>> /\ pTodo'[e][1] = TrackOf(o, d) => Sees(o, d)
    BY DEF PeerSeen, Sees, TrackOf, Peers!Packet
  <2>1. /\ d \in pTracked[o] => Sees(o, d)
        /\ \A e \in Peer : pTodo[e] # <<>> /\ pTodo[e][1] = TrackOf(o, d) => Sees(o, d)
    BY <1>1 DEF PeerSeen
  <2> QED
    BY <1>6, <1>7, <2>1
<1>11. PeerMet'
  <2> SUFFICES ASSUME NEW o \in Peer, NEW d \in Peer, o # d, o \notin OldPeer, pAlive[o], pAlive[d],
                      pTask[o] \in {"spawn", "playing"}, pTask[d] \in {"spawn", "playing"}
               PROVE  d \in pTracked[o] \/ \E e \in Peer : Listed(pTodo'[e], TrackOf(o, d))
    BY DEF PeerMet, TrackOf, Peers!Packet
  <2>1. d \in pTracked[o] \/ \E e \in Peer : Listed(pTodo[e], TrackOf(o, d))
    BY <1>1 DEF PeerMet
  <2>2. CASE d \in pTracked[o]
    BY <2>2
  <2>3. ASSUME NEW e \in Peer, Listed(pTodo[e], TrackOf(o, d)), d \notin pTracked[o]
        PROVE  Listed(pTodo'[e], TrackOf(o, d))
    <3>1. TrackOf(o, d) # SpawnOf(h.to, h.of)
      BY <1>3, PacketsDiffer
    <3>2. TrackOf(o, d) = TrackOf(h.to, h.of) => o = h.to /\ d = h.of
      BY <1>3, PacketsDiffer
    <3>3. TrackOf(o, d) # TrackOf(h.to, h.of)
      BY <2>3, <3>2
    <3> QED
      BY <1>7, <2>3, <3>1, <3>3
  <2> QED
    BY <2>1, <2>2, <2>3
<1>12. PeerLeft'
  <2> SUFFICES ASSUME NEW o \in Peer, NEW d \in Peer, o # d, pAlive[o],
                      pTask[d] \in {"leaving", "gone"}, d \notin pMissed[o]
               PROVE  /\ \A e \in Peer : ~Listed(pTodo'[e], SpawnOf(o, d)) /\ ~Listed(pTodo'[e], TrackOf(o, d))
                      /\ d \in pTracked[o] => Listed(pTodo'[d], ForgetOf(o, d))
                      /\ d \in pShown[o] => Listed(pTodo'[d], RemoveOf(o, d))
    BY DEF PeerLeft, SpawnOf, TrackOf, ForgetOf, RemoveOf, Peers!Packet
  <2>1. /\ \A e \in Peer : ~Listed(pTodo[e], SpawnOf(o, d)) /\ ~Listed(pTodo[e], TrackOf(o, d))
        /\ d \in pTracked[o] => Listed(pTodo[d], ForgetOf(o, d))
        /\ d \in pShown[o] => Listed(pTodo[d], RemoveOf(o, d))
    BY <1>1 DEF PeerLeft
  <2>2. /\ ForgetOf(o, d) # SpawnOf(h.to, h.of) /\ ForgetOf(o, d) # TrackOf(h.to, h.of)
        /\ RemoveOf(o, d) # SpawnOf(h.to, h.of) /\ RemoveOf(o, d) # TrackOf(h.to, h.of)
    BY <1>3, PacketType
  <2> QED
    BY <1>6, <1>7, <2>1, <2>2
<1> QED
  BY <1>6, <1>8, <1>9, <1>10, <1>11, <1>12 DEF PeerInv

\* A spawn that is written is shown, or counted as dropped.
LEMMA PeerShow ==
    ASSUME PeerInv, NEW c \in Peer, NEW h, h = Head(pTodo[c]), pTodo[c] # <<>>, h.what = "spawn",
           NEW s, s = LessOne(pTodo[c]), pTodo' = [pTodo EXCEPT ![c] = s],
           pShown' = [pShown EXCEPT ![h.to] = IF pAlive[h.to] /\ h.of \in pListed[h.to]
                                              THEN @ \cup {h.of} ELSE @],
           pUnlisted' = [pUnlisted EXCEPT ![h.to] = IF pAlive[h.to] /\ h.of \notin pListed[h.to]
                                                    THEN @ \cup {h.of} ELSE @],
           UNCHANGED <<pTask, pAlive, pTracked, pListed, pMissed>>
    PROVE  PeerInv'
<1>1. PeerType /\ PeerTodo /\ PeerLife /\ PeerPairs /\ PeerSeen /\ PeerMet /\ PeerLeft
  BY DEF PeerInv
<1>0. pTask' = pTask /\ pTodo[c] # <<>> /\ pTodo' = [pTodo EXCEPT ![c] = s]
  OBVIOUS
<1>41. /\ h \in PeerPackets /\ pTodo[c][1] = h /\ Listed(pTodo[c], h)
       /\ h.to \in Peer /\ h.of \in Peer
       /\ pTask[h.to] # "away" /\ pTask[h.of] # "away"
       /\ h.what \in {"spawn", "track"} => pTask[c] = "spawn" /\ h.to # h.of /\ (c = h.to \/ c = h.of)
       /\ h.what \in {"forget", "remove"} => pTask[c] = "leaving" /\ h.of = c /\ h.to # c
  BY <1>0, <1>1, PopHead
<1>42. /\ pTodo' \in [Peer -> Seq(PeerPackets)]
       /\ \A d \in Peer : d # c => pTodo'[d] = pTodo[d]
       /\ \A d \in Peer : \A p : Listed(pTodo'[d], p) => Listed(pTodo[d], p)
       /\ \A d \in Peer : \A p : Listed(pTodo[d], p) => Listed(pTodo'[d], p) \/ p = pTodo[c][1]
       /\ \A o, d \in Peer : pTodo'[c] # <<>> /\ pTodo'[c][1] = TrackOf(o, d) =>
             pTodo[c][1] = SpawnOf(o, d)
       /\ PeerTodo' /\ PeerPairs'
  BY <1>0, <1>1, PopOne
<1>5. PeerType'
  BY <1>1, <1>41, <1>42 DEF PeerType
<1>6. ASSUME NEW o \in Peer, NEW d \in Peer
      PROVE  /\ h # TrackOf(o, d) /\ h # ForgetOf(o, d) /\ h # RemoveOf(o, d)
             /\ h = SpawnOf(o, d) <=> h.to = o /\ h.of = d
  BY <1>41, PacketMeans
<1>7. /\ \A o \in Peer : pShown'[o] = IF o = h.to /\ pAlive[o] /\ h.of \in pListed[o]
                                      THEN pShown[o] \cup {h.of} ELSE pShown[o]
      /\ \A o \in Peer : pUnlisted'[o] = IF o = h.to /\ pAlive[o] /\ h.of \notin pListed[o]
                                         THEN pUnlisted[o] \cup {h.of} ELSE pUnlisted[o]
  <2>1. pShown \in [Peer -> SUBSET Peer] /\ pUnlisted \in [Peer -> SUBSET Peer] /\ h.to \in Peer
    BY <1>1, <1>41 DEF PeerType
  <2>2. pShown' = [pShown EXCEPT ![h.to] = IF pAlive[h.to] /\ h.of \in pListed[h.to]
                                           THEN @ \cup {h.of} ELSE @]
    OBVIOUS
  <2>3. pUnlisted' = [pUnlisted EXCEPT ![h.to] = IF pAlive[h.to] /\ h.of \notin pListed[h.to]
                                                 THEN @ \cup {h.of} ELSE @]
    OBVIOUS
  <2>4. \A o \in Peer : pShown'[o] = IF o = h.to /\ pAlive[o] /\ h.of \in pListed[o]
                                      THEN pShown[o] \cup {h.of} ELSE pShown[o]
    BY <2>1, <2>2
  <2>5. \A o \in Peer : pUnlisted'[o] = IF o = h.to /\ pAlive[o] /\ h.of \notin pListed[o]
                                         THEN pUnlisted[o] \cup {h.of} ELSE pUnlisted[o]
    BY <2>1, <2>3
  <2> QED
    BY <2>4, <2>5
<1>8. \A o \in Peer : \A d \in pShown'[o] : d \in pShown[o] \/ h = SpawnOf(o, d)
  BY <1>41, <1>42, <1>6, <1>7
<1>9. /\ PeerLife'
      /\ \A o, d \in Peer :
            o # d /\ pAlive[o] /\ pTask[d] \in {"leaving", "gone"} /\ d \notin pMissed[o] =>
               /\ \A e \in Peer : ~Listed(pTodo'[e], SpawnOf(o, d)) /\ ~Listed(pTodo'[e], TrackOf(o, d))
               /\ d \in pTracked'[o] => d \in pTracked[o] /\ Listed(pTodo[d], ForgetOf(o, d))
               /\ d \in pShown'[o] => d \in pShown[o] /\ Listed(pTodo[d], RemoveOf(o, d))
  BY <1>41, <1>42, <1>8, SendsKeep
<1>10. PeerLeft'
  BY <1>41, <1>42, <1>6, <1>9 DEF PeerLeft
<1>11. \A o, d \in Peer : Sees(o, d) => Sees(o, d)'
  BY <1>7 DEF Sees
<1>12. ASSUME NEW o \in Peer, NEW d \in Peer, pAlive[o], h = SpawnOf(o, d)
       PROVE  d \in pShown'[o] \cup pUnlisted'[o]
  <2>1. h.to = o /\ h.of = d
    BY <1>12, PacketType
  <2>2. CASE d \in pListed[o]
    <3>1. pShown'[o] = pShown[o] \cup {d}
      BY <1>7, <1>12, <2>1, <2>2
    <3> QED
      BY <3>1
  <2>3. CASE d \notin pListed[o]
    <3>1. pUnlisted'[o] = pUnlisted[o] \cup {d}
      BY <1>7, <1>12, <2>1, <2>3
    <3> QED
      BY <3>1
  <2> QED
    BY <2>2, <2>3
<1>13. PeerSeen'
  <2> SUFFICES ASSUME NEW o \in Peer, NEW d \in Peer, o # d, o \notin OldPeer, pAlive[o], pAlive[d]
               PROVE  /\ d \in pTracked[o] => Sees(o, d)'
                      /\ \A e \in Peer : pTodo'[e] # <<>> /\ pTodo'[e][1] = TrackOf(o, d) => Sees(o, d)'
    BY DEF PeerSeen, TrackOf, Peers!Packet
  <2>1. /\ d \in pTracked[o] => Sees(o, d)
        /\ \A e \in Peer : pTodo[e] # <<>> /\ pTodo[e][1] = TrackOf(o, d) => Sees(o, d)
    BY <1>1 DEF PeerSeen
  <2>2. ASSUME NEW e \in Peer, pTodo'[e] # <<>>, pTodo'[e][1] = TrackOf(o, d) PROVE Sees(o, d)'
    <3>1. CASE e = c
      <4>1. h = SpawnOf(o, d)
        BY <1>41, <1>42, <2>2, <3>1
      <4> QED
        BY <1>12, <4>1 DEF Sees
    <3>2. CASE e # c
      BY <1>41, <1>42, <1>11, <2>1, <2>2, <3>2
    <3> QED
      BY <3>1, <3>2
  <2> QED
    BY <1>11, <2>1, <2>2
<1>14. PeerMet'
  <2> SUFFICES ASSUME NEW o \in Peer, NEW d \in Peer, o # d, o \notin OldPeer, pAlive[o], pAlive[d],
                      pTask[o] \in {"spawn", "playing"}, pTask[d] \in {"spawn", "playing"}
               PROVE  d \in pTracked[o] \/ \E e \in Peer : Listed(pTodo'[e], TrackOf(o, d))
    BY DEF PeerMet, TrackOf, Peers!Packet
  <2>1. d \in pTracked[o] \/ \E e \in Peer : Listed(pTodo[e], TrackOf(o, d))
    BY <1>1 DEF PeerMet
  <2> QED
    BY <1>41, <1>42, <1>6, <2>1
<1> QED
  BY <1>41, <1>42, <1>5, <1>9, <1>10, <1>13, <1>14 DEF PeerInv

LEMMA PeerSpawn == \A c \in Peer : PeerInv /\ Peers!SendSpawn(c) => PeerInv'
<1> SUFFICES ASSUME NEW c \in Peer, PeerInv, Peers!SendSpawn(c) PROVE PeerInv'
  OBVIOUS
<1>1. PICK h, s, r : /\ h = Head(pTodo[c])
                     /\ s = LessOne(pTodo[c])
                     /\ r = LessTwo(pTodo[c])
  OBVIOUS
<1>2. /\ pTodo[c] # <<>> /\ h.what = "spawn"
      /\ UNCHANGED <<pTask, pAlive, pTracked, pListed, pMissed>>
      /\ IF h.to \in OldPeer \/ h.of \in pTracked[h.to]
         THEN pTodo' = [pTodo EXCEPT ![c] = r] /\ UNCHANGED <<pShown, pUnlisted>>
         ELSE /\ pTodo' = [pTodo EXCEPT ![c] = s]
              /\ pShown' = [pShown EXCEPT ![h.to] = IF pAlive[h.to] /\ h.of \in pListed[h.to]
                                                    THEN @ \cup {h.of} ELSE @]
              /\ pUnlisted' = [pUnlisted EXCEPT ![h.to] = IF pAlive[h.to] /\ h.of \notin pListed[h.to]
                                                          THEN @ \cup {h.of} ELSE @]
  BY <1>1 DEF Peers!SendSpawn, Peers!Turn, Peers!Pop, LessOne, LessTwo
<1>3. CASE h.to \in OldPeer \/ h.of \in pTracked[h.to]
  BY <1>1, <1>2, <1>3, PeerSkip
<1>4. CASE ~(h.to \in OldPeer \/ h.of \in pTracked[h.to])
  <2>1. /\ s = LessOne(pTodo[c]) /\ pTodo' = [pTodo EXCEPT ![c] = s]
        /\ pShown' = [pShown EXCEPT ![h.to] = IF pAlive[h.to] /\ h.of \in pListed[h.to]
                                              THEN @ \cup {h.of} ELSE @]
        /\ pUnlisted' = [pUnlisted EXCEPT ![h.to] = IF pAlive[h.to] /\ h.of \notin pListed[h.to]
                                                    THEN @ \cup {h.of} ELSE @]
    BY <1>1, <1>2, <1>4
  <2>2. /\ h = Head(pTodo[c]) /\ pTodo[c] # <<>> /\ h.what = "spawn"
        /\ UNCHANGED <<pTask, pAlive, pTracked, pListed, pMissed>>
    BY <1>1, <1>2
  <2> QED
    BY <2>1, <2>2, PeerShow
<1> QED
  BY <1>3, <1>4

-------------------------------------------------------------------------------
LEMMA PeerStart == Peers!Init => PeerInv
<1> SUFFICES ASSUME Peers!Init PROVE PeerInv
  OBVIOUS
<1>1. /\ pTask = [c \in Peer |-> "away"] /\ pAlive = [c \in Peer |-> FALSE]
      /\ pTodo = [c \in Peer |-> <<>>] /\ pTracked = [c \in Peer |-> {}]
      /\ pListed = [c \in Peer |-> {}] /\ pShown = [c \in Peer |-> {}]
      /\ pUnlisted = [c \in Peer |-> {}] /\ pMissed = [c \in Peer |-> {}]
  BY DEF Peers!Init
<1>2. /\ PeerType /\ PeerLife
  BY <1>1, EmptySeq DEF PeerType, PeerTasks, PeerLife
<1>3. PeerTodo
  BY <1>1, NoneListed DEF PeerTodo
<1>4. PeerPairs
  BY <1>1 DEF PeerPairs, Paired
<1>5. PeerSeen /\ PeerMet /\ PeerLeft
  BY <1>1 DEF PeerSeen, PeerMet, PeerLeft
<1> QED
  BY <1>2, <1>3, <1>4, <1>5 DEF PeerInv

LEMMA PeerStep == PeerInv /\ [Peers!Next]_(Peers!vars) => PeerInv'
<1> SUFFICES ASSUME PeerInv, [Peers!Next]_(Peers!vars) PROVE PeerInv'
  OBVIOUS
<1>1. CASE UNCHANGED Peers!vars
  BY <1>1 DEF Peers!vars, Peers!server, Peers!client, Peers!history, PeerInv, PeerType, PeerTodo,
       PeerLife, PeerPairs, PeerSeen, PeerMet, PeerLeft, Fits, Sees
<1>2. ASSUME NEW c \in Peer, Peers!Enter(c) \/ Peers!Join(c) \/ Peers!Lose(c) \/ Peers!Leave(c) \/ Peers!Gone(c)
      PROVE  PeerInv'
  BY <1>2, PeerEnters, PeerJoins, PeerLoses, PeerLeaves, PeerGoes
<1>3. ASSUME NEW c \in Peer, Peers!SendInfo(c) \/ Peers!SendSpawn(c) \/ Peers!Track(c)
                             \/ Peers!SendForget(c) \/ Peers!SendRemove(c)
      PROVE  PeerInv'
  BY <1>3, PeerInfo, PeerSpawn, PeerTrack, PeerForget, PeerRemove
<1> QED
  BY <1>1, <1>2, <1>3 DEF Peers!Next

\* When nobody is joining or leaving, any two players are spawned at each other and
\* nobody who left is shown (players.py:110-119, server.py:772-790), however many
\* connections overlapped.
THEOREM PlayersSeen == Peers!Spec => []SeenAreOnline
<1>1. PeerInv => SeenAreOnline
  <2> SUFFICES ASSUME PeerInv, Peers!Quiet, NEW o \in Peers!Players
               PROVE  /\ o \notin OldPeer => \A c \in Peers!Players \ {o} :
                             c \in pTracked[o] /\ (c \in pShown[o] \/ c \in pUnlisted[o])
                      /\ \A c \in Peer : pTask[c] = "gone" /\ c \notin pMissed[o] =>
                             c \notin pShown[o] \cup pTracked[o]
    BY DEF SeenAreOnline, Peers!SeenAreOnline
  <2>1. PeerTodo /\ PeerSeen /\ PeerMet /\ PeerLeft
    BY DEF PeerInv
  <2>2. /\ \A c \in Peer : pTask[c] \in {"away", "playing", "gone"}
        /\ \A c \in Peers!Players : c \in Peer /\ pAlive[c] /\ pTask[c] = "playing"
    BY DEF Peers!Quiet, Peers!Players, Peers!Online
  <2>3. \A c \in Peer : pTodo[c] = <<>>
    BY <2>1, <2>2 DEF PeerTodo
  <2>4. \A c \in Peer : \A p : ~Listed(pTodo[c], p)
    BY <2>3, NoneListed
  <2>5. ASSUME o \notin OldPeer, NEW c \in Peers!Players \ {o}
        PROVE  c \in pTracked[o] /\ Sees(o, c)
    <3>1. c \in pTracked[o]
      BY <2>1, <2>2, <2>4, <2>5 DEF PeerMet
    <3> QED
      BY <2>1, <2>2, <2>5, <3>1 DEF PeerSeen
  <2>6. ASSUME NEW c \in Peer, pTask[c] = "gone", c \notin pMissed[o]
        PROVE  c \notin pShown[o] \cup pTracked[o]
    BY <2>1, <2>2, <2>4, <2>6 DEF PeerLeft
  <2> QED
    BY <2>5, <2>6 DEF Sees
<1> QED
  BY <1>1, PeerStart, PeerStep, PTL DEF Peers!Spec

-------------------------------------------------------------------------------
(* EntityTracking. *)

ThingTask == {Loop} \cup Viewer \cup Entity
ThingJobs == [what : {"spawn", "track", "see", "stale", "drop", "pass", "end"},
              to : ThingTask, of : ThingTask \cup SUBSET Entity]

ThingType ==
    /\ eEntities \in SUBSET Entity /\ eFresh \in SUBSET Entity /\ eRemoved \in SUBSET Entity
    /\ eOnline \in SUBSET Viewer /\ eJoined \in SUBSET Viewer
    /\ eTracked \in [Viewer -> SUBSET Entity]
    /\ eShown \in [Viewer -> SUBSET Entity]
    /\ eLate \in [Viewer -> SUBSET Entity]
    /\ eJobs \in [ThingTask -> Seq(ThingJobs)]
    /\ eSyncing \in BOOLEAN /\ eCalm \in BOOLEAN

TrackJob(c, e) == Things!Job("track", c, e)
SeeJob(c, e) == Things!Job("see", c, e)
SpawnJob(c, e) == Things!Job("spawn", c, e)
StaleJob(c, S) == Things!Job("stale", c, S)
DropJob(c, S) == Things!Job("drop", c, S)
PassJob == Things!Job("pass", Loop, Loop)
EndJob(t) == Things!Job("end", t, t)

\* Whose job it is, and of what.
Suits(t, p) ==
    /\ p.what \in {"see", "stale", "drop", "pass"} => t = Loop
    /\ p.what = "spawn" => t # Loop
    /\ p.what \in {"spawn", "track", "see"} => p.to \in Viewer /\ p.of \in Entity
    /\ p.what \in {"stale", "drop"} => p.to \in Viewer /\ p.of \in SUBSET Entity

\* The pass is the last of the jobs of telling what was removed, and the end of all.
Ends(s) == \A i \in 1..Len(s) : s[i].what \in {"pass", "end"} => i = Len(s)

ThingTodo ==
    /\ \A t \in ThingTask : \A p \in ThingJobs : Listed(eJobs[t], p) => Suits(t, p)
    /\ \A t \in ThingTask : Ends(eJobs[t])
    /\ ~eSyncing => eJobs[Loop] = <<>>
    /\ \A c \in Viewer : c \notin eJoined => eJobs[c] = <<>>
    /\ \A p \in ThingJobs : Listed(eJobs[Loop], p) /\ p.what = "drop" => Listed(eJobs[Loop], PassJob)

\* In a pass nobody disturbs the world is as it was when the pass began.
Current(p) ==
    /\ p.what = "see" => p.of \in eEntities
    /\ p.what = "track" => p.of \in eEntities /\ <<p.to, p.of>> \in eNear
    /\ p.what = "stale" => p.of = eEntities

ThingCalm ==
    eCalm => /\ \A t \in ThingTask : t # Loop => eJobs[t] = <<>>
             /\ \A p \in ThingJobs : Listed(eJobs[Loop], p) => Current(p)

\* What a client shows is tracked for it, or a task is about to.
ThingShown ==
    \A c \in Viewer : \A e \in eShown[c] :
        e \in Known /\ (e \in eTracked[c] \/ \E t \in ThingTask : Listed(eJobs[t], TrackJob(c, e)))

\* What is tracked for a client is shown by it, or was recorded too late.
ThingTracked ==
    \A c \in Viewer : \A e \in eTracked[c] : e \in Known => e \in eShown[c] \/ e \in eLate[c]

\* From the pass on the client tracks what is near, as far as it has come.
ThingPass ==
    eCalm /\ ~Listed(eJobs[Loop], PassJob) =>
        \A c \in eOnline : \A e \in Entity :
            /\ e \in eEntities =>
                  \/ Listed(eJobs[Loop], SeeJob(c, e)) \/ Listed(eJobs[Loop], TrackJob(c, e))
                  \/ (e \in eTracked[c] <=> <<c, e>> \in eNear)
            /\ e \notin eEntities =>
                  Listed(eJobs[Loop], StaleJob(c, eEntities)) \/ e \notin eTracked[c]

ThingInv == ThingType /\ ThingTodo /\ ThingCalm /\ ThingShown /\ ThingTracked /\ ThingPass

-------------------------------------------------------------------------------
(* The lists of jobs. *)

LEMMA ThingLists ==
    /\ \A S : Things!SetToSeq(S) = SetToSeq(S)
    /\ \A q : Things!FlattenSeq(q) = FlattenSeq(q)
    /\ \A S : Things!IsFiniteSet(S) = IsFiniteSet(S)
<1>1. \A S : Things!SetToSeq(S) = SetToSeq(S)
  BY DEF Things!SetToSeq, SetToSeq, Things!IsInjective, IsInjective,
         Things!Cardinality, Cardinality, Things!IsFiniteSet, IsFiniteSet
<1>2. \A q : Things!FlattenSeq(q) = FlattenSeq(q)
  BY DEF Things!FlattenSeq, FlattenSeq
<1>3. \A S : Things!IsFiniteSet(S) = IsFiniteSet(S)
  BY DEF Things!IsFiniteSet, IsFiniteSet
<1> QED
  BY <1>1, <1>2, <1>3

LEMMA ThingTasks == Things!Task = ThingTask
BY DEF Things!Task, ThingTask

LEMMA ThingSets ==
    /\ \A S \in SUBSET Entity : IsFiniteSet(S)
    /\ \A S \in SUBSET Viewer : IsFiniteSet(S)
    /\ Loop \notin Viewer /\ Loop \notin Entity /\ Viewer \cap Entity = {}
    /\ Loop \in ThingTask /\ Viewer \subseteq ThingTask /\ Entity \subseteq ThingTask
<1>1. /\ IsFiniteSet(Viewer) /\ IsFiniteSet(Entity)
      /\ Loop \notin Viewer \cup Entity /\ Viewer \cap Entity = {}
  BY ThingAssumption, ThingLists DEF Things!TrackingAssumption
<1> QED
  BY <1>1, FS_Subset DEF ThingTask

LEMMA JobType ==
    ASSUME NEW c \in ThingTask, NEW e \in Entity, NEW S \in SUBSET Entity, NEW t \in ThingTask
    PROVE  /\ TrackJob(c, e) \in ThingJobs /\ SeeJob(c, e) \in ThingJobs /\ SpawnJob(c, e) \in ThingJobs
           /\ StaleJob(c, S) \in ThingJobs /\ DropJob(c, S) \in ThingJobs
           /\ PassJob \in ThingJobs /\ EndJob(t) \in ThingJobs
BY ThingSets DEF TrackJob, SeeJob, SpawnJob, StaleJob, DropJob, PassJob, EndJob, Things!Job,
                 ThingJobs, ThingTask

LEMMA JobParts ==
    /\ \A c, e : TrackJob(c, e).what = "track" /\ TrackJob(c, e).to = c /\ TrackJob(c, e).of = e
    /\ \A c, e : SeeJob(c, e).what = "see" /\ SeeJob(c, e).to = c /\ SeeJob(c, e).of = e
    /\ \A c, e : SpawnJob(c, e).what = "spawn" /\ SpawnJob(c, e).to = c /\ SpawnJob(c, e).of = e
    /\ \A c, S : StaleJob(c, S).what = "stale" /\ StaleJob(c, S).to = c /\ StaleJob(c, S).of = S
    /\ \A c, S : DropJob(c, S).what = "drop" /\ DropJob(c, S).to = c /\ DropJob(c, S).of = S
    /\ PassJob.what = "pass"
    /\ \A t : EndJob(t).what = "end"
BY DEF TrackJob, SeeJob, SpawnJob, StaleJob, DropJob, PassJob, EndJob, Things!Job

\* Of what kind a job is says which one it is.
LEMMA JobIs ==
    ASSUME NEW p \in ThingJobs
    PROVE  /\ p.what = "track" => p = TrackJob(p.to, p.of)
           /\ p.what = "see" => p = SeeJob(p.to, p.of)
           /\ p.what = "stale" => p = StaleJob(p.to, p.of)
BY DEF TrackJob, SeeJob, StaleJob, Things!Job, ThingJobs

\* The first job is done, and what is put in its place goes first.
LEMMA PutLists ==
    ASSUME NEW s \in Seq(ThingJobs), s # <<>>, Ends(s), NEW more \in Seq(ThingJobs),
           \A p : Listed(more, p) => p.what = "track"
    PROVE  /\ more \o Tail(s) \in Seq(ThingJobs)
           /\ Head(s) \in ThingJobs /\ Listed(s, Head(s))
           /\ \A p : Listed(more \o Tail(s), p) => Listed(more, p) \/ Listed(s, p)
           /\ \A p : Listed(more, p) => Listed(more \o Tail(s), p)
           /\ \A p : Listed(s, p) => p = Head(s) \/ Listed(more \o Tail(s), p)
           /\ Ends(more \o Tail(s))
           /\ Head(s).what \in {"pass", "end"} => Tail(s) = <<>>
<1> DEFINE r == Tail(s)
           u == more \o r
<1>1. /\ r \in Seq(ThingJobs) /\ Len(r) = Len(s) - 1
      /\ \A i \in 1..Len(s)-1 : r[i] = s[i+1]
      /\ Head(s) \in ThingJobs /\ Head(s) = s[1] /\ Listed(s, Head(s))
      /\ \A x : Listed(s, x) <=> x = Head(s) \/ Listed(r, x)
  BY TailLists
<1>2. Len(s) \in Nat /\ Len(s) >= 1
  BY EmptySeq
<1> HIDE DEF r
<1>0. more \in Seq(ThingJobs) /\ r \in Seq(ThingJobs)
  BY <1>1
<1>7. /\ more \o r \in Seq(ThingJobs)
      /\ Len(more \o r) = Len(more) + Len(r)
      /\ \A i \in 1..Len(more) : (more \o r)[i] = more[i]
      /\ \A i \in 1..Len(more \o r) :
            \/ i \in 1..Len(more)
            \/ i - Len(more) \in 1..Len(r) /\ (more \o r)[i] = r[i - Len(more)]
      /\ \A x : Listed(more \o r, x) <=> Listed(more, x) \/ Listed(r, x)
  BY <1>0, ConcatLists
<1>3. /\ u \in Seq(ThingJobs) /\ Len(u) = Len(more) + Len(r)
      /\ \A i \in 1..Len(more) : u[i] = more[i]
      /\ \A i \in 1..Len(u) :
            \/ i \in 1..Len(more)
            \/ i - Len(more) \in 1..Len(r) /\ u[i] = r[i - Len(more)]
      /\ \A x : Listed(u, x) <=> Listed(more, x) \/ Listed(r, x)
  BY <1>7
<1>4. Len(more) \in Nat /\ Len(r) \in Nat
  BY <1>1
<1> HIDE DEF u
<1>5. Ends(u)
  <2> SUFFICES ASSUME NEW i \in 1..Len(u), u[i].what \in {"pass", "end"} PROVE i = Len(u)
    BY DEF Ends
  <2>1. CASE i \in 1..Len(more) /\ u[i] = more[i]
    <3>1. Listed(more, u[i])
      BY <2>1 DEF Listed
    <3> QED
      BY <3>1
  <2>2. CASE i - Len(more) \in 1..Len(r) /\ u[i] = r[i - Len(more)]
    <3> DEFINE j == i - Len(more)
    <3>1. j \in 1..Len(s)-1 /\ j + 1 \in 1..Len(s) /\ u[i] = s[j+1]
      BY <1>1, <1>2, <2>2
    <3>2. j + 1 = Len(s)
      BY <3>1 DEF Ends
    <3> QED
      BY <1>1, <1>3, <1>4, <3>2
  <2> QED
    BY <1>3, <2>1, <2>2
<1>6. Head(s).what \in {"pass", "end"} => r = <<>>
  <2>1. SUFFICES ASSUME s[1].what \in {"pass", "end"} PROVE r = <<>>
    BY <1>1
  <2>2. 1 = Len(s)
    <3>1. 1 \in 1..Len(s)
      BY <1>2
    <3> QED
      BY <2>1, <3>1 DEF Ends
  <2> QED
    BY <1>1, <2>2, EmptySeq
<1> QED
  BY <1>1, <1>3, <1>5, <1>6 DEF r, u

\* Jobs followed by the one that ends them.
LEMMA EndLists ==
    ASSUME NEW s \in Seq(ThingJobs), NEW q \in ThingJobs,
           \A p : Listed(s, p) => p.what \notin {"pass", "end"}
    PROVE  /\ s \o <<q>> \in Seq(ThingJobs)
           /\ Ends(s \o <<q>>)
           /\ \A p : Listed(s \o <<q>>, p) <=> Listed(s, p) \/ p = q
<1> DEFINE b == <<q>>
           u == s \o b
<1>1. b \in Seq(ThingJobs) /\ Len(b) = 1 /\ b[1] = q /\ \A y : Listed(b, y) <=> y = q
  BY OneListed
<1> HIDE DEF b
<1>2. /\ u \in Seq(ThingJobs)
      /\ Len(u) = Len(s) + Len(b)
      /\ \A i \in 1..Len(u) :
            \/ i \in 1..Len(s) /\ u[i] = s[i]
            \/ i - Len(s) \in 1..Len(b) /\ u[i] = b[i - Len(s)]
      /\ \A x : Listed(u, x) <=> Listed(s, x) \/ Listed(b, x)
  BY <1>1, ConcatLists
<1>3. Len(s) \in Nat
  OBVIOUS
<1> HIDE DEF u
<1>4. Ends(u)
  <2> SUFFICES ASSUME NEW i \in 1..Len(u), u[i].what \in {"pass", "end"} PROVE i = Len(u)
    BY DEF Ends
  <2>1. CASE i \in 1..Len(s) /\ u[i] = s[i]
    <3>1. Listed(s, u[i])
      BY <2>1 DEF Listed
    <3> QED
      BY <3>1
  <2>2. CASE i - Len(s) \in 1..Len(b) /\ u[i] = b[i - Len(s)]
    BY <1>1, <1>2, <1>3, <2>2
  <2> QED
    BY <1>2, <2>1, <2>2
<1> QED
  BY <1>1, <1>2, <1>4 DEF u, b

\* One job for everyone in a set.
LEMMA OneEach ==
    ASSUME NEW S, IsFiniteSet(S), NEW F \in [S -> ThingJobs], NEW q,
           q = [i \in 1..Len(SetToSeq(S)) |-> <<F[SetToSeq(S)[i]]>>]
    PROVE  /\ FlattenSeq(q) \in Seq(ThingJobs)
           /\ \A p : Listed(FlattenSeq(q), p) <=> \E x \in S : p = F[x]
<1> DEFINE G == [x \in S |-> <<F[x]>>]
           r == [i \in 1..Len(SetToSeq(S)) |-> G[SetToSeq(S)[i]]]
<1>1. SetToSeq(S) \in Seq(S)
  BY SetAsList
<1>2. \A i \in 1..Len(SetToSeq(S)) : SetToSeq(S)[i] \in S
  BY <1>1
<1>3. q = r
  BY <1>2
<1>4. \A x \in S : /\ <<F[x]>> \in Seq(ThingJobs)
                   /\ \A p : Listed(<<F[x]>>, p) <=> p = F[x]
  BY OneListed
<1>5. G \in [S -> Seq(ThingJobs)]
  BY <1>4
<1>6. \A x \in S : G[x] = <<F[x]>>
  OBVIOUS
<1>7. /\ FlattenSeq(r) \in Seq(ThingJobs)
      /\ \A p : Listed(FlattenSeq(r), p) <=> \E x \in S : Listed(G[x], p)
  <2> HIDE DEF G
  <2> QED
    BY <1>5, RoundLists
<1> HIDE DEF r, G
<1>8. ASSUME NEW p PROVE Listed(FlattenSeq(r), p) <=> \E x \in S : p = F[x]
  <2>1. \A x \in S : Listed(G[x], p) <=> p = F[x]
    BY <1>4, <1>6
  <2> QED
    BY <1>7, <2>1
<1> QED
  BY <1>3, <1>7, <1>8

\* What a creation, a join and the telling of removed ids begin with.
CreateJobs(e) == Things!Jobs(eOnline, LAMBDA c : <<Things!Job("spawn", c, e)>>) \o <<EndJob(e)>>

LEMMA CreateRound ==
    ASSUME ThingType, NEW e \in Entity
    PROVE  /\ CreateJobs(e) \in Seq(ThingJobs) /\ Ends(CreateJobs(e))
           /\ \A p : Listed(CreateJobs(e), p) <=> p = EndJob(e) \/ \E c \in eOnline : p = SpawnJob(c, e)
<1> DEFINE l == SetToSeq(eOnline)
           F == [c \in eOnline |-> SpawnJob(c, e)]
           q == [i \in 1..Len(l) |-> <<F[l[i]]>>]
           u == FlattenSeq(q)
<1>1. IsFiniteSet(eOnline) /\ eOnline \subseteq Viewer /\ eOnline \subseteq ThingTask
  BY ThingSets DEF ThingType
<1>2. l \in Seq(eOnline)
  BY <1>1, SetAsList
<1>3. \A i \in 1..Len(l) : l[i] \in eOnline
  BY <1>2
<1>4. Things!Jobs(eOnline, LAMBDA c : <<Things!Job("spawn", c, e)>>)
        = FlattenSeq([i \in 1..Len(l) |-> <<SpawnJob(l[i], e)>>])
  BY ThingLists DEF Things!Jobs, SpawnJob
<1>5. CreateJobs(e) = u \o <<EndJob(e)>>
  BY <1>3, <1>4 DEF CreateJobs
<1>6. F \in [eOnline -> ThingJobs] /\ \A c \in eOnline : F[c] = SpawnJob(c, e)
  BY <1>1, JobType
<1>7. /\ u \in Seq(ThingJobs)
      /\ \A p : Listed(u, p) <=> \E c \in eOnline : p = F[c]
  <2> HIDE DEF F, l
  <2> QED
    BY <1>1, <1>6, OneEach DEF l
<1> HIDE DEF F, l, q, u
<1>8. \A p : Listed(u, p) <=> \E c \in eOnline : p = SpawnJob(c, e)
  BY <1>6, <1>7
<1>9. \A p : Listed(u, p) => p.what \notin {"pass", "end"}
  BY <1>8, JobParts
<1>10. EndJob(e) \in ThingJobs
  BY ThingSets, JobType
<1> QED
  BY <1>5, <1>7, <1>8, <1>9, <1>10, EndLists

JoinJobs(c) == Things!Jobs(eEntities, LAMBDA e : <<Things!Job("spawn", c, e)>>) \o <<EndJob(c)>>

LEMMA JoinRound ==
    ASSUME ThingType, NEW c \in Viewer
    PROVE  /\ JoinJobs(c) \in Seq(ThingJobs) /\ Ends(JoinJobs(c))
           /\ \A p : Listed(JoinJobs(c), p) <=> p = EndJob(c) \/ \E e \in eEntities : p = SpawnJob(c, e)
<1> DEFINE l == SetToSeq(eEntities)
           F == [e \in eEntities |-> SpawnJob(c, e)]
           q == [i \in 1..Len(l) |-> <<F[l[i]]>>]
           u == FlattenSeq(q)
<1>1. IsFiniteSet(eEntities) /\ eEntities \subseteq Entity
  BY ThingSets DEF ThingType
<1>2. l \in Seq(eEntities)
  BY <1>1, SetAsList
<1>3. \A i \in 1..Len(l) : l[i] \in eEntities
  BY <1>2
<1>4. Things!Jobs(eEntities, LAMBDA e : <<Things!Job("spawn", c, e)>>)
        = FlattenSeq([i \in 1..Len(l) |-> <<SpawnJob(c, l[i])>>])
  BY ThingLists DEF Things!Jobs, SpawnJob
<1>5. JoinJobs(c) = u \o <<EndJob(c)>>
  BY <1>3, <1>4 DEF JoinJobs
<1>6. F \in [eEntities -> ThingJobs] /\ \A e \in eEntities : F[e] = SpawnJob(c, e)
  BY <1>1, ThingSets, JobType
<1>7. /\ u \in Seq(ThingJobs)
      /\ \A p : Listed(u, p) <=> \E e \in eEntities : p = F[e]
  <2> HIDE DEF F, l
  <2> QED
    BY <1>1, <1>6, OneEach DEF l
<1> HIDE DEF F, l, q, u
<1>8. \A p : Listed(u, p) <=> \E e \in eEntities : p = SpawnJob(c, e)
  BY <1>6, <1>7
<1>9. \A p : Listed(u, p) => p.what \notin {"pass", "end"}
  BY <1>8, JobParts
<1>10. EndJob(c) \in ThingJobs
  BY ThingSets DEF EndJob, Things!Job, ThingJobs
<1> QED
  BY <1>5, <1>7, <1>8, <1>9, <1>10, EndLists

DropJobs ==
    (IF eRemoved = {} THEN <<>>
     ELSE Things!Jobs(eOnline, LAMBDA c : <<Things!Job("drop", c, eRemoved)>>)) \o <<PassJob>>

LEMMA DropRound ==
    ASSUME ThingType
    PROVE  /\ DropJobs \in Seq(ThingJobs) /\ Ends(DropJobs)
           /\ Listed(DropJobs, PassJob)
           /\ \A p : Listed(DropJobs, p) => p = PassJob \/ \E c \in eOnline : p = DropJob(c, eRemoved)
<1> DEFINE l == SetToSeq(eOnline)
           F == [c \in eOnline |-> DropJob(c, eRemoved)]
           q == [i \in 1..Len(l) |-> <<F[l[i]]>>]
           v == FlattenSeq(q)
           u == IF eRemoved = {} THEN <<>> ELSE v
<1>1. IsFiniteSet(eOnline) /\ eOnline \subseteq Viewer /\ eOnline \subseteq ThingTask
  BY ThingSets DEF ThingType
<1>2. l \in Seq(eOnline)
  BY <1>1, SetAsList
<1>3. \A i \in 1..Len(l) : l[i] \in eOnline
  BY <1>2
<1>4. Things!Jobs(eOnline, LAMBDA c : <<Things!Job("drop", c, eRemoved)>>)
        = FlattenSeq([i \in 1..Len(l) |-> <<DropJob(l[i], eRemoved)>>])
  BY ThingLists DEF Things!Jobs, DropJob
<1>5. DropJobs = u \o <<PassJob>>
  BY <1>3, <1>4 DEF DropJobs
<1>6. F \in [eOnline -> ThingJobs] /\ \A c \in eOnline : F[c] = DropJob(c, eRemoved)
  <2>1. eRemoved \in SUBSET Entity
    BY DEF ThingType
  <2>2. \A c \in eOnline : DropJob(c, eRemoved) \in ThingJobs
    BY <1>1, <2>1 DEF DropJob, Things!Job, ThingJobs
  <2> QED
    BY <2>2
<1>7. /\ v \in Seq(ThingJobs)
      /\ \A p : Listed(v, p) <=> \E c \in eOnline : p = F[c]
  <2> HIDE DEF F, l
  <2> QED
    BY <1>1, <1>6, OneEach DEF l
<1> HIDE DEF F, l, q, v
<1>8. u \in Seq(ThingJobs) /\ \A p : Listed(u, p) => \E c \in eOnline : p = DropJob(c, eRemoved)
  BY <1>6, <1>7, NoneListed
<1>9. \A p : Listed(u, p) => p.what \notin {"pass", "end"}
  BY <1>8, JobParts
<1>10. PassJob \in ThingJobs
  BY ThingSets DEF PassJob, Things!Job, ThingJobs
<1> HIDE DEF u
<1> QED
  BY <1>5, <1>8, <1>9, <1>10, EndLists

SeesOf(c) == Things!Jobs(eEntities, LAMBDA e : <<Things!Job("see", c, e)>>)

LEMMA SeesRound ==
    ASSUME ThingType, NEW c \in Viewer
    PROVE  /\ SeesOf(c) \in Seq(ThingJobs)
           /\ \A p : Listed(SeesOf(c), p) <=> \E e \in eEntities : p = SeeJob(c, e)
<1> DEFINE l == SetToSeq(eEntities)
           F == [e \in eEntities |-> SeeJob(c, e)]
           q == [i \in 1..Len(l) |-> <<F[l[i]]>>]
           u == FlattenSeq(q)
<1>1. IsFiniteSet(eEntities) /\ eEntities \subseteq Entity
  BY ThingSets DEF ThingType
<1>2. l \in Seq(eEntities)
  BY <1>1, SetAsList
<1>3. \A i \in 1..Len(l) : l[i] \in eEntities
  BY <1>2
<1>4. SeesOf(c) = FlattenSeq([i \in 1..Len(l) |-> <<SeeJob(c, l[i])>>])
  BY ThingLists DEF Things!Jobs, SeeJob, SeesOf
<1>5. SeesOf(c) = u
  BY <1>3, <1>4
<1>6. F \in [eEntities -> ThingJobs] /\ \A e \in eEntities : F[e] = SeeJob(c, e)
  BY <1>1, ThingSets, JobType
<1>7. /\ u \in Seq(ThingJobs)
      /\ \A p : Listed(u, p) <=> \E e \in eEntities : p = F[e]
  <2> HIDE DEF F, l
  <2> QED
    BY <1>1, <1>6, OneEach DEF l
<1> HIDE DEF F, l, q, u
<1>8. \A p : Listed(u, p) <=> \E e \in eEntities : p = SeeJob(c, e)
  BY <1>6, <1>7
<1> QED
  BY <1>5, <1>7, <1>8

PassOf(c) == <<StaleJob(c, eEntities)>> \o SeesOf(c)

PassJobs == Things!Jobs(eOnline, LAMBDA c : PassOf(c)) \o <<EndJob(Loop)>>

LEMMA PassRound ==
    ASSUME ThingType
    PROVE  /\ PassJobs \in Seq(ThingJobs) /\ Ends(PassJobs)
           /\ \A p : Listed(PassJobs, p) <=>
                     \/ p = EndJob(Loop)
                     \/ \E c \in eOnline : p = StaleJob(c, eEntities) \/ \E e \in eEntities : p = SeeJob(c, e)
<1> DEFINE l == SetToSeq(eOnline)
           F == [c \in eOnline |-> PassOf(c)]
           q == [i \in 1..Len(l) |-> F[l[i]]]
           u == FlattenSeq(q)
<1>1. IsFiniteSet(eOnline) /\ eOnline \subseteq Viewer /\ eOnline \subseteq ThingTask
  BY ThingSets DEF ThingType
<1>2. l \in Seq(eOnline)
  BY <1>1, SetAsList
<1>3. \A i \in 1..Len(l) : l[i] \in eOnline
  BY <1>2
<1>4. Things!Jobs(eOnline, LAMBDA c : PassOf(c)) = FlattenSeq([i \in 1..Len(l) |-> PassOf(l[i])])
  BY ThingLists DEF Things!Jobs
<1>5. PassJobs = u \o <<EndJob(Loop)>>
  BY <1>3, <1>4 DEF PassJobs
<1>6. ASSUME NEW c \in eOnline
      PROVE  /\ PassOf(c) \in Seq(ThingJobs)
             /\ \A p : Listed(PassOf(c), p) <=>
                       p = StaleJob(c, eEntities) \/ \E e \in eEntities : p = SeeJob(c, e)
  <2> DEFINE a == <<StaleJob(c, eEntities)>>
             b == SeesOf(c)
  <2>0. eEntities \in SUBSET Entity /\ c \in ThingTask /\ c \in Viewer
    BY <1>1 DEF ThingType
  <2>1. StaleJob(c, eEntities) \in ThingJobs
    BY <2>0 DEF StaleJob, Things!Job, ThingJobs
  <2>2. a \in Seq(ThingJobs) /\ \A p : Listed(a, p) <=> p = StaleJob(c, eEntities)
    BY <2>1, OneListed
  <2>3. b \in Seq(ThingJobs) /\ \A p : Listed(b, p) <=> \E e \in eEntities : p = SeeJob(c, e)
    BY <2>0, SeesRound
  <2> HIDE DEF a, b
  <2>4. a \o b \in Seq(ThingJobs) /\ \A p : Listed(a \o b, p) <=> Listed(a, p) \/ Listed(b, p)
    BY <2>2, <2>3, ConcatLists
  <2>5. PassOf(c) = a \o b
    BY DEF a, b, PassOf
  <2> QED
    BY <2>2, <2>3, <2>4, <2>5
<1>7. F \in [eOnline -> Seq(ThingJobs)] /\ \A c \in eOnline : F[c] = PassOf(c)
  BY <1>6
<1>8. /\ u \in Seq(ThingJobs)
      /\ \A p : Listed(u, p) <=> \E c \in eOnline : Listed(F[c], p)
  <2> HIDE DEF F
  <2> QED
    BY <1>1, <1>7, RoundLists
<1> HIDE DEF F, l, q, u
<1>9. ASSUME NEW p
      PROVE  Listed(u, p) <=>
             \E c \in eOnline : p = StaleJob(c, eEntities) \/ \E e \in eEntities : p = SeeJob(c, e)
  BY <1>6, <1>7, <1>8
<1>10. \A p : Listed(u, p) => p.what \notin {"pass", "end"}
  BY <1>9, JobParts
<1>11. EndJob(Loop) \in ThingJobs
  BY ThingSets DEF EndJob, Things!Job, ThingJobs
<1> QED
  BY <1>5, <1>8, <1>9, <1>10, <1>11, EndLists

-------------------------------------------------------------------------------
(* The actions. *)

\* The first job of a task is done; no pass starts.
LEMMA PutKeeps ==
    ASSUME ThingType, ThingTodo, NEW t \in ThingTask, eJobs[t] # <<>>,
           NEW h, h = Head(eJobs[t]), h.what # "pass",
           NEW more \in Seq(ThingJobs), \A p : Listed(more, p) => p.what = "track" /\ Suits(t, p),
           eJobs' = [eJobs EXCEPT ![t] = more \o Tail(@)],
           eJoined' = eJoined,
           h.what = "end" => more = <<>>,
           h.what # "end" \/ t # Loop => eSyncing' = eSyncing
    PROVE  /\ h \in ThingJobs /\ Listed(eJobs[t], h) /\ Suits(t, h)
           /\ eJobs' \in [ThingTask -> Seq(ThingJobs)]
           /\ \A d \in ThingTask : d # t => eJobs'[d] = eJobs[d]
           /\ \A p : Listed(eJobs'[t], p) => Listed(more, p) \/ Listed(eJobs[t], p)
           /\ \A p : Listed(more, p) => Listed(eJobs'[t], p)
           /\ \A p : Listed(eJobs[t], p) => p = h \/ Listed(eJobs'[t], p)
           /\ Listed(eJobs'[Loop], PassJob) <=> Listed(eJobs[Loop], PassJob)
           /\ ThingTodo'
<1> DEFINE s == eJobs[t]
           u == more \o Tail(s)
<1>1. s \in Seq(ThingJobs) /\ Ends(s) /\ s # <<>>
  BY DEF ThingType, ThingTodo
<1>2. \A p : Listed(more, p) => p.what = "track"
  OBVIOUS
<1>3. h = Head(s)
  OBVIOUS
<1>20. eJobs' = [eJobs EXCEPT ![t] = u]
  OBVIOUS
<1> HIDE DEF s
<1>4. /\ u \in Seq(ThingJobs)
      /\ h \in ThingJobs /\ Listed(s, h)
      /\ \A p : Listed(u, p) => Listed(more, p) \/ Listed(s, p)
      /\ \A p : Listed(more, p) => Listed(u, p)
      /\ \A p : Listed(s, p) => p = h \/ Listed(u, p)
      /\ Ends(u)
      /\ h.what \in {"pass", "end"} => Tail(s) = <<>>
  BY <1>1, <1>2, <1>3, PutLists
<1>5. h.what = "end" => u = <<>>
  BY <1>4
<1> HIDE DEF u
<1>6. /\ eJobs' \in [ThingTask -> Seq(ThingJobs)]
      /\ \A d \in ThingTask : eJobs'[d] = IF d = t THEN u ELSE eJobs[d]
  BY <1>4, <1>20 DEF ThingType
<1>7. PassJob # h /\ \A p : Listed(more, p) => p # PassJob
  BY <1>2, JobParts
<1>8. Listed(eJobs'[Loop], PassJob) <=> Listed(eJobs[Loop], PassJob)
  BY <1>4, <1>6, <1>7, ThingSets DEF s
<1>9. \A d \in ThingTask : \A p \in ThingJobs : Listed(eJobs'[d], p) => Suits(d, p)
  BY <1>4, <1>6 DEF ThingTodo, s
<1>10. \A d \in ThingTask : Ends(eJobs'[d])
  BY <1>4, <1>6 DEF ThingTodo
<1>11. ~eSyncing' => eJobs'[Loop] = <<>>
  <2>1. CASE t = Loop
    <3>1. eSyncing
      BY <2>1 DEF ThingTodo, ThingType
    <3> QED
      BY <1>5, <1>6, <2>1, <3>1
  <2>2. CASE t # Loop
    BY <1>6, <2>2, ThingSets DEF ThingTodo
  <2> QED
    BY <2>1, <2>2
<1>12. \A c \in Viewer : c \notin eJoined' => eJobs'[c] = <<>>
  BY <1>6, ThingSets DEF ThingTodo
<1>13. ASSUME NEW p \in ThingJobs, Listed(eJobs'[Loop], p), p.what = "drop"
       PROVE  Listed(eJobs'[Loop], PassJob)
  <2>1. ~Listed(more, p)
    BY <1>2, <1>13
  <2>2. Listed(eJobs[Loop], p)
    BY <1>4, <1>6, <1>13, <2>1, ThingSets DEF s
  <2> QED
    BY <1>8, <1>13, <2>2 DEF ThingTodo
<1>14. ThingTodo'
  BY <1>9, <1>10, <1>11, <1>12, <1>13 DEF ThingTodo, PassJob, Things!Job
<1>15. Suits(t, h)
  BY <1>4 DEF ThingTodo, s
<1> QED
  BY <1>4, <1>6, <1>8, <1>14, <1>15 DEF s

\* The world changes and nobody is told yet.
LEMMA ThingRest ==
    ASSUME ThingInv, ThingType', ~eCalm',
           UNCHANGED <<eTracked, eShown, eJobs, eSyncing, eLate, eJoined>>
    PROVE  ThingInv'
<1>1. ThingTodo /\ ThingShown /\ ThingTracked
  BY DEF ThingInv
<1>2. ThingTodo'
  BY <1>1 DEF ThingTodo, Suits, PassJob, Things!Job
<1>3. ThingShown' /\ ThingTracked'
  BY <1>1 DEF ThingShown, ThingTracked, TrackJob, Things!Job
<1>4. ThingCalm' /\ ThingPass'
  BY DEF ThingCalm, ThingPass
<1> QED
  BY <1>2, <1>3, <1>4 DEF ThingInv

\* A task other than the game loop gets its jobs.
LEMMA ThingStarts ==
    ASSUME ThingInv, ThingType', ~eCalm', NEW t \in ThingTask, t # Loop, eJobs[t] = <<>>,
           NEW s \in Seq(ThingJobs), Ends(s), \A p \in ThingJobs : Listed(s, p) => Suits(t, p),
           eJobs' = [eJobs EXCEPT ![t] = s],
           UNCHANGED <<eTracked, eShown, eSyncing, eLate>>,
           \A c \in Viewer : c \notin eJoined' => c \notin eJoined /\ c # t
    PROVE  ThingInv'
<1>1. ThingType /\ ThingTodo /\ ThingShown /\ ThingTracked
  BY DEF ThingInv
<1>2. \A d \in ThingTask : eJobs'[d] = IF d = t THEN s ELSE eJobs[d]
  BY <1>1 DEF ThingType
<1>3. eJobs'[Loop] = eJobs[Loop]
  BY <1>2, ThingSets
<1>4. ThingTodo'
  <2>1. \A d \in ThingTask : \A p \in ThingJobs : Listed(eJobs'[d], p) => Suits(d, p)
    BY <1>1, <1>2 DEF ThingTodo
  <2>2. \A d \in ThingTask : Ends(eJobs'[d])
    BY <1>1, <1>2 DEF ThingTodo
  <2>3. \A c \in Viewer : c \notin eJoined' => eJobs'[c] = <<>>
    BY <1>1, <1>2, ThingSets DEF ThingTodo
  <2>4. ~eSyncing' => eJobs'[Loop] = <<>>
    BY <1>1, <1>3 DEF ThingTodo
  <2>5. \A p \in ThingJobs : Listed(eJobs'[Loop], p) /\ p.what = "drop" => Listed(eJobs'[Loop], PassJob)
    BY <1>1, <1>3 DEF ThingTodo
  <2> QED
    BY <2>1, <2>2, <2>3, <2>4, <2>5 DEF ThingTodo, PassJob, Things!Job
<1>5. ThingShown'
  <2>1. \A p : ~Listed(eJobs[t], p)
    BY NoneListed
  <2>2. \A d \in ThingTask : \A p : Listed(eJobs[d], p) => Listed(eJobs'[d], p)
    BY <1>2, <2>1
  <2> QED
    BY <1>1, <2>2 DEF ThingShown, TrackJob, Things!Job
<1>6. ThingTracked'
  BY <1>1 DEF ThingTracked
<1>7. ThingCalm' /\ ThingPass'
  BY DEF ThingCalm, ThingPass
<1> QED
  BY <1>4, <1>5, <1>6, <1>7 DEF ThingInv

LEMMA ThingMoves == ThingInv /\ Things!Move => ThingInv'
<1> SUFFICES ASSUME ThingInv, Things!Move PROVE ThingInv'
  OBVIOUS
<1>1. /\ eCalm' = FALSE
      /\ UNCHANGED <<eEntities, eFresh, eRemoved, eOnline, eJoined, eTracked, eShown, eJobs, eSyncing, eLate>>
  BY DEF Things!Move, Things!people
<1>2. ThingType'
  BY <1>1 DEF ThingInv, ThingType
<1> QED
  BY <1>1, <1>2, ThingRest

LEMMA ThingExpires == \A e \in Entity : ThingInv /\ Things!Expire(e) => ThingInv'
<1> SUFFICES ASSUME NEW e \in Entity, ThingInv, Things!Expire(e) PROVE ThingInv'
  OBVIOUS
<1>1. /\ eCalm' = FALSE
      /\ eEntities' = eEntities \ {e} /\ eRemoved' = eRemoved \cup {e}
      /\ UNCHANGED <<eFresh, eOnline, eJoined, eTracked, eShown, eJobs, eSyncing, eLate>>
  BY DEF Things!Expire, Things!people
<1>2. ThingType'
  BY <1>1 DEF ThingInv, ThingType
<1> QED
  BY <1>1, <1>2, ThingRest

LEMMA ThingEnters == \A c \in Viewer : ThingInv /\ Things!Enter(c) => ThingInv'
<1> SUFFICES ASSUME NEW c \in Viewer, ThingInv, Things!Enter(c) PROVE ThingInv'
  OBVIOUS
<1>1. /\ eCalm' = FALSE
      /\ eOnline' = eOnline \cup {c}
      /\ UNCHANGED <<eEntities, eFresh, eRemoved, eJoined, eTracked, eShown, eJobs, eSyncing, eLate>>
  BY DEF Things!Enter, Things!world
<1>2. ThingType'
  BY <1>1 DEF ThingInv, ThingType
<1> QED
  BY <1>1, <1>2, ThingRest

LEMMA ThingCreates == \A e \in Entity : ThingInv /\ Things!Create(e) => ThingInv'
<1> SUFFICES ASSUME NEW e \in Entity, ThingInv, Things!Create(e) PROVE ThingInv'
  OBVIOUS
<1>1. ThingType
  BY DEF ThingInv
<1>2. eJobs' = [eJobs EXCEPT ![e] = CreateJobs(e)]
  BY DEF Things!Create, CreateJobs, Things!Jobs, EndJob
<1>3. /\ eJobs[e] = <<>> /\ eCalm' = FALSE
      /\ eFresh' = eFresh \ {e} /\ eEntities' = eEntities \cup {e}
      /\ UNCHANGED <<eRemoved, eOnline, eJoined, eTracked, eShown, eSyncing, eLate>>
  BY DEF Things!Create, Things!people
<1>4. /\ CreateJobs(e) \in Seq(ThingJobs) /\ Ends(CreateJobs(e))
      /\ \A p : Listed(CreateJobs(e), p) <=> p = EndJob(e) \/ \E c \in eOnline : p = SpawnJob(c, e)
  BY <1>1, CreateRound
<1>5. PICK s \in Seq(ThingJobs) : s = CreateJobs(e)
  BY <1>4
<1>6. e \in ThingTask /\ e # Loop /\ \A c \in Viewer : c # e
  BY ThingSets
<1>7. ThingType'
  BY <1>1, <1>2, <1>3, <1>5, <1>6 DEF ThingType
<1>8. \A p \in ThingJobs : Listed(s, p) => Suits(e, p)
  <2>1. eOnline \subseteq Viewer
    BY <1>1 DEF ThingType
  <2> QED
    BY <1>4, <1>5, <1>6, <2>1, JobParts DEF Suits
<1> QED
  BY <1>2, <1>3, <1>4, <1>5, <1>6, <1>7, <1>8, ThingStarts

LEMMA ThingJoins == \A c \in Viewer : ThingInv /\ Things!StartVisible(c) => ThingInv'
<1> SUFFICES ASSUME NEW c \in Viewer, ThingInv, Things!StartVisible(c) PROVE ThingInv'
  OBVIOUS
<1>1. ThingType /\ ThingTodo
  BY DEF ThingInv
<1>2. eJobs' = [eJobs EXCEPT ![c] = JoinJobs(c)]
  BY DEF Things!StartVisible, JoinJobs, Things!Jobs, EndJob
<1>3. /\ c \notin eJoined /\ eCalm' = FALSE
      /\ eJoined' = eJoined \cup {c}
      /\ UNCHANGED <<eEntities, eFresh, eRemoved, eOnline, eTracked, eShown, eSyncing, eLate>>
  BY DEF Things!StartVisible, Things!world
<1>4. /\ JoinJobs(c) \in Seq(ThingJobs) /\ Ends(JoinJobs(c))
      /\ \A p : Listed(JoinJobs(c), p) <=> p = EndJob(c) \/ \E e \in eEntities : p = SpawnJob(c, e)
  BY <1>1, JoinRound
<1>5. PICK s \in Seq(ThingJobs) : s = JoinJobs(c)
  BY <1>4
<1>6. c \in ThingTask /\ c # Loop /\ eJobs[c] = <<>>
  BY <1>1, <1>3, ThingSets DEF ThingTodo
<1>7. ThingType'
  BY <1>1, <1>2, <1>3, <1>5, <1>6 DEF ThingType
<1>8. \A p \in ThingJobs : Listed(s, p) => Suits(c, p)
  <2>1. eEntities \subseteq Entity
    BY <1>1 DEF ThingType
  <2> QED
    BY <1>4, <1>5, <1>6, <2>1, JobParts DEF Suits
<1>9. \A d \in Viewer : d \notin eJoined' => d \notin eJoined /\ d # c
  BY <1>3
<1> QED
  BY <1>2, <1>3, <1>4, <1>5, <1>6, <1>7, <1>8, <1>9, ThingStarts

LEMMA ThingSyncs == ThingInv /\ Things!StartSync => ThingInv'
<1> SUFFICES ASSUME ThingInv, Things!StartSync PROVE ThingInv'
  OBVIOUS
<1>1. ThingType /\ ThingTodo /\ ThingShown /\ ThingTracked
  BY DEF ThingInv
<1>2. eJobs' = [eJobs EXCEPT ![Loop] = DropJobs]
  BY DEF Things!StartSync, DropJobs, Things!Jobs, PassJob
<1>3. /\ ~eSyncing /\ eSyncing' = TRUE /\ eRemoved' = {}
      /\ eCalm' = \A t \in ThingTask : eJobs[t] = <<>>
      /\ UNCHANGED <<eEntities, eFresh, eOnline, eJoined, eTracked, eShown, eLate>>
  BY ThingTasks DEF Things!StartSync, Things!people
<1>4. /\ DropJobs \in Seq(ThingJobs) /\ Ends(DropJobs)
      /\ Listed(DropJobs, PassJob)
      /\ \A p : Listed(DropJobs, p) => p = PassJob \/ \E c \in eOnline : p = DropJob(c, eRemoved)
  BY <1>1, DropRound
<1>5. PICK s \in Seq(ThingJobs) : s = DropJobs
  BY <1>4
<1>6. \A d \in ThingTask : eJobs'[d] = IF d = Loop THEN s ELSE eJobs[d]
  BY <1>1, <1>2, <1>5 DEF ThingType
<1>7. ThingType'
  BY <1>1, <1>2, <1>3, <1>5 DEF ThingType
<1>8. \A p : Listed(s, p) => p.what \in {"pass", "drop"}
  BY <1>4, <1>5, JobParts
<1>9. \A p : Listed(s, p) => Suits(Loop, p)
  <2>1. eOnline \subseteq Viewer /\ eRemoved \in SUBSET Entity
    BY <1>1 DEF ThingType
  <2> QED
    BY <1>4, <1>5, <2>1, JobParts DEF Suits
<1>10. ThingTodo'
  <2>1. \A d \in ThingTask : \A p \in ThingJobs : Listed(eJobs'[d], p) => Suits(d, p)
    BY <1>1, <1>6, <1>9 DEF ThingTodo
  <2>2. \A d \in ThingTask : Ends(eJobs'[d])
    BY <1>1, <1>4, <1>5, <1>6 DEF ThingTodo
  <2>3. \A c \in Viewer : c \notin eJoined' => eJobs'[c] = <<>>
    BY <1>1, <1>3, <1>6, ThingSets DEF ThingTodo
  <2>4. Listed(eJobs'[Loop], PassJob)
    BY <1>4, <1>5, <1>6, ThingSets
  <2> QED
    BY <1>3, <2>1, <2>2, <2>3, <2>4 DEF ThingTodo, PassJob, Things!Job
<1>11. ThingCalm'
  BY <1>3, <1>6, <1>8, ThingSets DEF ThingCalm, Current
<1>12. ThingShown'
  <2>1. eJobs[Loop] = <<>>
    BY <1>1, <1>3 DEF ThingTodo
  <2>2. \A d \in ThingTask : \A p : Listed(eJobs[d], p) => Listed(eJobs'[d], p)
    BY <1>6, <2>1, NoneListed
  <2> QED
    BY <1>1, <1>3, <2>2 DEF ThingShown, TrackJob, Things!Job
<1>13. ThingTracked'
  BY <1>1, <1>3 DEF ThingTracked
<1>14. ThingPass'
  <2>1. Listed(eJobs'[Loop], PassJob)
    BY <1>4, <1>5, <1>6, ThingSets
  <2> QED
    BY <2>1 DEF ThingPass, PassJob, Things!Job
<1> QED
  BY <1>7, <1>10, <1>11, <1>12, <1>13, <1>14 DEF ThingInv

LEMMA ThingPasses == ThingInv /\ Things!Pass => ThingInv'
<1> SUFFICES ASSUME ThingInv, Things!Pass PROVE ThingInv'
  OBVIOUS
<1>1. ThingType /\ ThingTodo /\ ThingCalm /\ ThingShown /\ ThingTracked
  BY DEF ThingInv
<1>2. eJobs' = [eJobs EXCEPT ![Loop] = PassJobs \o Tail(@)]
  BY DEF Things!Pass, Things!Put, PassJobs, Things!Jobs, EndJob, PassOf, SeesOf, StaleJob
<1>3. /\ eJobs[Loop] # <<>> /\ Head(eJobs[Loop]).what = "pass"
      /\ UNCHANGED <<eEntities, eFresh, eRemoved, eNear, eOnline, eJoined, eTracked, eShown, eSyncing, eCalm, eLate>>
  BY DEF Things!Pass, Things!Turn, Things!world, Things!people
<1>4. /\ PassJobs \in Seq(ThingJobs) /\ Ends(PassJobs)
      /\ \A p : Listed(PassJobs, p) <=>
                \/ p = EndJob(Loop)
                \/ \E c \in eOnline : p = StaleJob(c, eEntities) \/ \E e \in eEntities : p = SeeJob(c, e)
  BY <1>1, PassRound
<1>5. PICK s \in Seq(ThingJobs) : s = PassJobs
  BY <1>4
<1>16. Loop \in ThingTask
  BY ThingSets
<1>17. eJobs[Loop] \in Seq(ThingJobs) /\ Ends(eJobs[Loop])
  BY <1>1, <1>16 DEF ThingType, ThingTodo
<1>18. PICK h : h = Head(eJobs[Loop])
  OBVIOUS
<1>19. Tail(eJobs[Loop]) = <<>> /\ h.what = "pass" /\ \A p : Listed(eJobs[Loop], p) => p = h
  <2>1. <<>> \in Seq(ThingJobs) /\ \A p : Listed(<<>>, p) => p.what = "track"
    BY NoneListed
  <2>2. Tail(eJobs[Loop]) = <<>>
    BY <1>3, <1>17, <2>1, PutLists
  <2>3. \A x : Listed(eJobs[Loop], x) <=> x = Head(eJobs[Loop]) \/ Listed(Tail(eJobs[Loop]), x)
    BY <1>3, <1>17, TailLists
  <2> QED
    BY <1>3, <1>18, <2>2, <2>3, NoneListed
<1>20. eJobs' = [eJobs EXCEPT ![Loop] = s]
  <2>1. s \o <<>> = s
    BY <1>5
  <2> QED
    BY <1>2, <1>5, <1>19, <2>1
<1>6. \A d \in ThingTask : eJobs'[d] = IF d = Loop THEN s ELSE eJobs[d]
  BY <1>1, <1>20 DEF ThingType
<1>7. ThingType'
  BY <1>1, <1>3, <1>20 DEF ThingType
<1>21. eOnline \subseteq Viewer /\ eEntities \in SUBSET Entity /\ \A e \in eEntities : e \in Entity
  BY <1>1 DEF ThingType
<1>8. \A p : Listed(s, p) =>
         /\ Suits(Loop, p) /\ p.what \notin {"pass", "drop", "track"}
         /\ (p.what = "see" => p.of \in eEntities)
         /\ (p.what = "stale" => p.of = eEntities)
  BY <1>4, <1>5, <1>21, JobParts DEF Suits
<1>9. eSyncing
  BY <1>1, <1>3 DEF ThingTodo
<1>10. ThingTodo'
  <2>1. \A d \in ThingTask : \A p \in ThingJobs : Listed(eJobs'[d], p) => Suits(d, p)
    BY <1>1, <1>6, <1>8 DEF ThingTodo
  <2>2. \A d \in ThingTask : Ends(eJobs'[d])
    BY <1>1, <1>4, <1>5, <1>6 DEF ThingTodo
  <2>3. \A c \in Viewer : c \notin eJoined' => eJobs'[c] = <<>>
    BY <1>1, <1>3, <1>6, ThingSets DEF ThingTodo
  <2>4. \A p \in ThingJobs : ~(Listed(eJobs'[Loop], p) /\ p.what = "drop")
    BY <1>6, <1>8, <1>16
  <2> QED
    BY <1>3, <1>9, <2>1, <2>2, <2>3, <2>4 DEF ThingTodo, PassJob, Things!Job
<1>11. ThingCalm'
  <2>1. \A p : Listed(eJobs'[Loop], p) => Listed(s, p)
    BY <1>6, <1>16
  <2> QED
    BY <1>1, <1>3, <1>6, <1>8, <2>1 DEF ThingCalm, Current
<1>12. ThingShown'
  <2>1. \A c, e : ~Listed(eJobs[Loop], TrackJob(c, e))
    BY <1>19, JobParts
  <2>2. \A d \in ThingTask : \A c, e : Listed(eJobs[d], TrackJob(c, e)) => Listed(eJobs'[d], TrackJob(c, e))
    BY <1>6, <2>1
  <2> QED
    BY <1>1, <1>3, <2>2 DEF ThingShown, TrackJob, Things!Job
<1>13. ThingTracked'
  BY <1>1, <1>3 DEF ThingTracked
<1>14. ThingPass'
  <2> SUFFICES ASSUME NEW c \in eOnline, NEW e \in Entity
               PROVE  /\ e \in eEntities => Listed(eJobs'[Loop], SeeJob(c, e))
                      /\ Listed(eJobs'[Loop], StaleJob(c, eEntities))
    BY <1>3 DEF ThingPass, SeeJob, StaleJob, PassJob, TrackJob, Things!Job
  <2> QED
    BY <1>4, <1>5, <1>6, <1>16
<1> QED
  BY <1>7, <1>10, <1>11, <1>12, <1>13, <1>14 DEF ThingInv

\* While the game loop does a job of an undisturbed pass its jobs stay current.
LEMMA CalmKeeps ==
    ASSUME ThingCalm, NEW t \in ThingTask, eCalm' => eCalm /\ t = Loop,
           UNCHANGED <<eEntities, eNear>>,
           \A d \in ThingTask : d # t => eJobs'[d] = eJobs[d],
           \A p \in ThingJobs : Listed(eJobs'[t], p) => Current(p) \/ Listed(eJobs[t], p)
    PROVE  ThingCalm'
<1> SUFFICES ASSUME eCalm'
             PROVE  /\ \A d \in ThingTask : d # Loop => eJobs'[d] = <<>>
                    /\ \A p \in ThingJobs : Listed(eJobs'[Loop], p) => Current(p)
  BY DEF ThingCalm, Current
<1> QED
  BY DEF ThingCalm

LEMMA NoMore ==
    /\ <<>> \in Seq(ThingJobs)
    /\ \A p : ~Listed(<<>>, p)
BY NoneListed

\* What is listed when one job is done and another may take its place.
LEMMA ThingDrops == \A t \in ThingTask : ThingInv /\ Things!Drop(t) => ThingInv'
<1> SUFFICES ASSUME NEW t \in ThingTask, ThingInv, Things!Drop(t) PROVE ThingInv'
  OBVIOUS
<1>1. ThingType /\ ThingTodo /\ ThingCalm /\ ThingShown /\ ThingTracked /\ ThingPass
  BY DEF ThingInv
<1>2. PICK h : h = Head(eJobs[t])
  OBVIOUS
<1>3. /\ eJobs[t] # <<>> /\ h.what = "drop"
      /\ eTracked' = [eTracked EXCEPT ![h.to] = @ \ h.of]
      /\ eShown' = [eShown EXCEPT ![h.to] = @ \ h.of]
      /\ eJobs' = [eJobs EXCEPT ![t] = <<>> \o Tail(@)]
      /\ eCalm' = (eCalm /\ t = Loop)
      /\ UNCHANGED <<eEntities, eFresh, eRemoved, eNear, eOnline, eJoined, eSyncing, eLate>>
  BY <1>2 DEF Things!Drop, Things!Turn, Things!Hide, Things!Put, Things!Disturbs, Things!world, Things!people
<1>0. PICK more \in Seq(ThingJobs) : more = <<>>
  BY NoMore
<1>4. /\ eJobs' = [eJobs EXCEPT ![t] = more \o Tail(@)]
      /\ h.what # "pass" /\ h.what # "end" /\ eJoined' = eJoined /\ eSyncing' = eSyncing
      /\ \A p : ~Listed(more, p)
  BY <1>0, <1>3, NoMore
<1>5. /\ h \in ThingJobs /\ Listed(eJobs[t], h) /\ Suits(t, h)
      /\ eJobs' \in [ThingTask -> Seq(ThingJobs)]
      /\ \A d \in ThingTask : d # t => eJobs'[d] = eJobs[d]
      /\ \A p : Listed(eJobs'[t], p) => Listed(more, p) \/ Listed(eJobs[t], p)
      /\ \A p : Listed(eJobs[t], p) => p = h \/ Listed(eJobs'[t], p)
      /\ Listed(eJobs'[Loop], PassJob) <=> Listed(eJobs[Loop], PassJob)
      /\ ThingTodo'
  BY <1>1, <1>2, <1>3, <1>4, PutKeeps
<1>6. h.to \in Viewer /\ h.of \in SUBSET Entity /\ t = Loop
  BY <1>3, <1>5 DEF Suits
<1>7. \A c \in Viewer : /\ eTracked'[c] = IF c = h.to THEN eTracked[c] \ h.of ELSE eTracked[c]
                        /\ eShown'[c] = IF c = h.to THEN eShown[c] \ h.of ELSE eShown[c]
  BY <1>1, <1>3, <1>6 DEF ThingType
<1>8. ThingType'
  BY <1>1, <1>3, <1>5, <1>6 DEF ThingType
<1>9. ThingCalm'
  BY <1>1, <1>3, <1>4, <1>5, CalmKeeps
<1>10. ThingShown'
  <2>1. \A d \in ThingTask : \A c, e : Listed(eJobs[d], TrackJob(c, e)) => Listed(eJobs'[d], TrackJob(c, e))
    BY <1>3, <1>5, JobParts
  <2> QED
    BY <1>1, <1>7, <2>1 DEF ThingShown, TrackJob, Things!Job
<1>11. ThingTracked'
  <2> SUFFICES ASSUME NEW c \in Viewer, NEW e \in eTracked'[c], e \in Known
               PROVE  e \in eShown'[c] \/ e \in eLate[c]
    BY <1>3 DEF ThingTracked
  <2>1. e \in eTracked[c]
    BY <1>7
  <2>2. e \in eShown[c] \/ e \in eLate[c]
    BY <1>1, <2>1 DEF ThingTracked
  <2> QED
    BY <1>7, <2>2
<1>12. ThingPass'
  <2>1. Listed(eJobs[Loop], PassJob)
    BY <1>1, <1>3, <1>5, <1>6 DEF ThingTodo
  <2>2. Listed(eJobs'[Loop], PassJob)
    BY <1>5, <2>1
  <2> QED
    BY <2>2 DEF ThingPass, PassJob, Things!Job
<1> QED
  BY <1>5, <1>8, <1>9, <1>10, <1>11, <1>12 DEF ThingInv

LEMMA ThingEnds == \A t \in ThingTask : ThingInv /\ Things!End(t) => ThingInv'
<1> SUFFICES ASSUME NEW t \in ThingTask, ThingInv, Things!End(t) PROVE ThingInv'
  OBVIOUS
<1>1. ThingType /\ ThingTodo /\ ThingCalm /\ ThingShown /\ ThingTracked /\ ThingPass
  BY DEF ThingInv
<1>2. PICK h : h = Head(eJobs[t])
  OBVIOUS
<1>3. /\ eJobs[t] # <<>> /\ h.what = "end"
      /\ eJobs' = [eJobs EXCEPT ![t] = <<>> \o Tail(@)]
      /\ eSyncing' = (eSyncing /\ t # Loop)
      /\ eCalm' = (eCalm /\ t = Loop)
      /\ UNCHANGED <<eEntities, eFresh, eRemoved, eNear, eOnline, eJoined, eTracked, eShown, eLate>>
  BY <1>2 DEF Things!End, Things!Turn, Things!Put, Things!Disturbs, Things!world, Things!people
<1>0. PICK more \in Seq(ThingJobs) : more = <<>>
  BY NoMore
<1>4. /\ eJobs' = [eJobs EXCEPT ![t] = more \o Tail(@)]
      /\ h.what # "pass" /\ eJoined' = eJoined /\ (t # Loop => eSyncing' = eSyncing)
      /\ \A p : ~Listed(more, p)
  BY <1>0, <1>1, <1>3, NoMore DEF ThingType
<1>5. /\ h \in ThingJobs /\ Listed(eJobs[t], h) /\ Suits(t, h)
      /\ eJobs' \in [ThingTask -> Seq(ThingJobs)]
      /\ \A d \in ThingTask : d # t => eJobs'[d] = eJobs[d]
      /\ \A p : Listed(eJobs'[t], p) => Listed(more, p) \/ Listed(eJobs[t], p)
      /\ \A p : Listed(eJobs[t], p) => p = h \/ Listed(eJobs'[t], p)
      /\ Listed(eJobs'[Loop], PassJob) <=> Listed(eJobs[Loop], PassJob)
      /\ ThingTodo'
  BY <1>0, <1>1, <1>2, <1>3, <1>4, PutKeeps
<1>8. ThingType'
  BY <1>1, <1>3, <1>5 DEF ThingType
<1>9. ThingCalm'
  BY <1>1, <1>3, <1>4, <1>5, CalmKeeps
<1>13. \A d \in ThingTask : \A p \in ThingJobs :
          p.what # "end" /\ Listed(eJobs[d], p) => Listed(eJobs'[d], p)
  BY <1>3, <1>5
<1>10. ThingShown'
  <2>1. \A d \in ThingTask : \A c, e : Listed(eJobs[d], TrackJob(c, e)) => Listed(eJobs'[d], TrackJob(c, e))
    BY <1>3, <1>5, JobParts
  <2> QED
    BY <1>1, <1>3, <2>1 DEF ThingShown, TrackJob, Things!Job
<1>11. ThingTracked'
  BY <1>1, <1>3 DEF ThingTracked
<1>12. ThingPass'
  <2> SUFFICES ASSUME eCalm', ~Listed(eJobs'[Loop], PassJob), NEW c \in eOnline, NEW e \in Entity
               PROVE  /\ e \in eEntities =>
                            \/ Listed(eJobs'[Loop], SeeJob(c, e)) \/ Listed(eJobs'[Loop], TrackJob(c, e))
                            \/ (e \in eTracked[c] <=> <<c, e>> \in eNear)
                      /\ e \notin eEntities =>
                            Listed(eJobs'[Loop], StaleJob(c, eEntities)) \/ e \notin eTracked[c]
    BY <1>3 DEF ThingPass, SeeJob, StaleJob, PassJob, TrackJob, Things!Job
  <2>1. eCalm /\ ~Listed(eJobs[Loop], PassJob)
    BY <1>1, <1>3, <1>5 DEF ThingType
  <2>2. t = Loop
    BY <1>3
  <2> QED
    BY <1>1, <1>3, <1>5, <2>1, <2>2, JobParts DEF ThingPass
<1> QED
  BY <1>5, <1>8, <1>9, <1>10, <1>11, <1>12 DEF ThingInv

LEMMA ThingTracks == \A t \in ThingTask : ThingInv /\ Things!Track(t) => ThingInv'
<1> SUFFICES ASSUME NEW t \in ThingTask, ThingInv, Things!Track(t) PROVE ThingInv'
  OBVIOUS
<1>1. ThingType /\ ThingTodo /\ ThingCalm /\ ThingShown /\ ThingTracked /\ ThingPass
  BY DEF ThingInv
<1>2. PICK h : h = Head(eJobs[t])
  OBVIOUS
<1>3. /\ eJobs[t] # <<>> /\ h.what = "track"
      /\ eTracked' = [eTracked EXCEPT ![h.to] = @ \cup {h.of}]
      /\ eLate' = [eLate EXCEPT ![h.to] = IF h.of \in eShown[h.to] THEN @ ELSE @ \cup {h.of}]
      /\ eJobs' = [eJobs EXCEPT ![t] = <<>> \o Tail(@)]
      /\ eCalm' = (eCalm /\ t = Loop)
      /\ UNCHANGED <<eEntities, eFresh, eRemoved, eNear, eOnline, eJoined, eShown, eSyncing>>
  BY <1>2 DEF Things!Track, Things!Turn, Things!Put, Things!Disturbs, Things!world, Things!people
<1>0. PICK more \in Seq(ThingJobs) : more = <<>>
  BY NoMore
<1>4. /\ eJobs' = [eJobs EXCEPT ![t] = more \o Tail(@)]
      /\ h.what # "pass" /\ h.what # "end" /\ eJoined' = eJoined /\ eSyncing' = eSyncing
      /\ \A p : ~Listed(more, p)
  BY <1>0, <1>3, NoMore
<1>5. /\ h \in ThingJobs /\ Listed(eJobs[t], h) /\ Suits(t, h)
      /\ eJobs' \in [ThingTask -> Seq(ThingJobs)]
      /\ \A d \in ThingTask : d # t => eJobs'[d] = eJobs[d]
      /\ \A p : Listed(eJobs'[t], p) => Listed(more, p) \/ Listed(eJobs[t], p)
      /\ \A p : Listed(eJobs[t], p) => p = h \/ Listed(eJobs'[t], p)
      /\ Listed(eJobs'[Loop], PassJob) <=> Listed(eJobs[Loop], PassJob)
      /\ ThingTodo'
  BY <1>1, <1>2, <1>3, <1>4, PutKeeps
<1>6. h.to \in Viewer /\ h.of \in Entity /\ h = TrackJob(h.to, h.of)
  BY <1>3, <1>5, JobIs DEF Suits
<1>7. \A c \in Viewer : /\ eTracked'[c] = IF c = h.to THEN eTracked[c] \cup {h.of} ELSE eTracked[c]
                        /\ eLate'[c] = IF c = h.to /\ h.of \notin eShown[c]
                                       THEN eLate[c] \cup {h.of} ELSE eLate[c]
  BY <1>1, <1>3, <1>6 DEF ThingType
<1>8. ThingType'
  BY <1>1, <1>3, <1>5, <1>6 DEF ThingType
<1>9. ThingCalm'
  BY <1>1, <1>3, <1>4, <1>5, CalmKeeps
<1>14. \A c, e : h = TrackJob(c, e) => h.to = c /\ h.of = e
  BY JobParts
<1>10. ThingShown'
  <2> SUFFICES ASSUME NEW c \in Viewer, NEW e \in eShown[c]
               PROVE  /\ e \in Known
                      /\ e \in eTracked'[c] \/ \E d \in ThingTask : Listed(eJobs'[d], TrackJob(c, e))
    BY <1>3 DEF ThingShown, TrackJob, Things!Job
  <2>1. e \in Known /\ (e \in eTracked[c] \/ \E d \in ThingTask : Listed(eJobs[d], TrackJob(c, e)))
    BY <1>1 DEF ThingShown
  <2>2. CASE e \in eTracked[c]
    BY <1>7, <2>1, <2>2
  <2>3. ASSUME NEW d \in ThingTask, Listed(eJobs[d], TrackJob(c, e))
        PROVE  e \in eTracked'[c] \/ Listed(eJobs'[d], TrackJob(c, e))
    <3>1. Listed(eJobs'[d], TrackJob(c, e)) \/ TrackJob(c, e) = h
      BY <1>5, <2>3
    <3>2. CASE TrackJob(c, e) = h
      <4>1. h.to = c /\ h.of = e
        BY <1>14, <3>2
      <4> QED
        BY <1>7, <4>1
    <3> QED
      BY <3>1, <3>2
  <2> QED
    BY <2>1, <2>2, <2>3
<1>11. ThingTracked'
  <2> SUFFICES ASSUME NEW c \in Viewer, NEW e \in eTracked'[c], e \in Known
               PROVE  e \in eShown[c] \/ e \in eLate'[c]
    BY <1>3 DEF ThingTracked
  <2>1. CASE e \in eTracked[c]
    <3>1. e \in eShown[c] \/ e \in eLate[c]
      BY <1>1, <2>1 DEF ThingTracked
    <3> QED
      BY <1>7, <3>1
  <2>2. CASE e \notin eTracked[c]
    <3>1. c = h.to /\ e = h.of
      BY <1>7, <2>2
    <3> QED
      BY <1>7, <3>1
  <2> QED
    BY <2>1, <2>2
<1>12. ThingPass'
  <2> SUFFICES ASSUME eCalm', ~Listed(eJobs'[Loop], PassJob), NEW c \in eOnline, NEW e \in Entity
               PROVE  /\ e \in eEntities =>
                            \/ Listed(eJobs'[Loop], SeeJob(c, e)) \/ Listed(eJobs'[Loop], TrackJob(c, e))
                            \/ (e \in eTracked'[c] <=> <<c, e>> \in eNear)
                      /\ e \notin eEntities =>
                            Listed(eJobs'[Loop], StaleJob(c, eEntities)) \/ e \notin eTracked'[c]
    BY <1>3 DEF ThingPass, SeeJob, StaleJob, PassJob, TrackJob, Things!Job
  <2>1. eCalm /\ ~Listed(eJobs[Loop], PassJob) /\ t = Loop
    BY <1>1, <1>3, <1>5 DEF ThingType
  <2>2. h.of \in eEntities /\ <<h.to, h.of>> \in eNear
    BY <1>1, <1>3, <1>5, <2>1 DEF ThingCalm, Current
  <2>3. c \in Viewer
    BY <1>1 DEF ThingType
  <2>4. CASE c = h.to /\ e = h.of
    BY <1>7, <2>2, <2>3, <2>4
  <2>5. CASE ~(c = h.to /\ e = h.of)
    <3>1. e \in eTracked'[c] <=> e \in eTracked[c]
      BY <1>7, <2>3, <2>5
    <3>2. TrackJob(c, e) # h /\ SeeJob(c, e) # h /\ StaleJob(c, eEntities) # h
      BY <1>3, <1>14, <2>5, JobParts
    <3> QED
      BY <1>1, <1>5, <2>1, <3>1, <3>2 DEF ThingPass
  <2> QED
    BY <2>4, <2>5
<1> QED
  BY <1>5, <1>8, <1>9, <1>10, <1>11, <1>12 DEF ThingInv

LEMMA ThingStales == ThingInv /\ Things!Stale => ThingInv'
<1> SUFFICES ASSUME ThingInv, Things!Stale PROVE ThingInv'
  OBVIOUS
<1>1. ThingType /\ ThingTodo /\ ThingCalm /\ ThingShown /\ ThingTracked /\ ThingPass
  BY DEF ThingInv
<1>2. PICK h : h = Head(eJobs[Loop])
  OBVIOUS
<1>13. PICK t \in ThingTask : t = Loop
  BY ThingSets
<1>3. /\ eJobs[t] # <<>> /\ h.what = "stale"
      /\ eTracked' = [eTracked EXCEPT ![h.to] = @ \ (eTracked[h.to] \ h.of)]
      /\ eShown' = [eShown EXCEPT ![h.to] = @ \ (eTracked[h.to] \ h.of)]
      /\ eJobs' = [eJobs EXCEPT ![t] = <<>> \o Tail(@)]
      /\ UNCHANGED <<eEntities, eFresh, eRemoved, eNear, eOnline, eJoined, eSyncing, eCalm, eLate>>
  BY <1>2, <1>13 DEF Things!Stale, Things!Turn, Things!Hide, Things!Put, Things!world, Things!people
<1>0. PICK more \in Seq(ThingJobs) : more = <<>>
  BY NoMore
<1>4. /\ eJobs' = [eJobs EXCEPT ![t] = more \o Tail(@)]
      /\ h.what # "pass" /\ h.what # "end" /\ eJoined' = eJoined /\ eSyncing' = eSyncing
      /\ \A p : ~Listed(more, p)
      /\ h = Head(eJobs[t])
  BY <1>0, <1>2, <1>3, <1>13, NoMore
<1>5. /\ h \in ThingJobs /\ Listed(eJobs[t], h) /\ Suits(t, h)
      /\ eJobs' \in [ThingTask -> Seq(ThingJobs)]
      /\ \A d \in ThingTask : d # t => eJobs'[d] = eJobs[d]
      /\ \A p : Listed(eJobs'[t], p) => Listed(more, p) \/ Listed(eJobs[t], p)
      /\ \A p : Listed(eJobs[t], p) => p = h \/ Listed(eJobs'[t], p)
      /\ Listed(eJobs'[Loop], PassJob) <=> Listed(eJobs[Loop], PassJob)
      /\ ThingTodo'
  BY <1>1, <1>3, <1>4, PutKeeps
<1>6. h.to \in Viewer /\ h.of \in SUBSET Entity /\ h = StaleJob(h.to, h.of)
  BY <1>3, <1>5, JobIs DEF Suits
<1>7. \A c \in Viewer : /\ eTracked'[c] = IF c = h.to THEN eTracked[c] \cap h.of ELSE eTracked[c]
                        /\ eShown'[c] = IF c = h.to THEN eShown[c] \ (eTracked[c] \ h.of) ELSE eShown[c]
  <2>1. \A c \in Viewer : /\ eTracked'[c] = IF c = h.to THEN eTracked[c] \ (eTracked[c] \ h.of) ELSE eTracked[c]
                          /\ eShown'[c] = IF c = h.to THEN eShown[c] \ (eTracked[c] \ h.of) ELSE eShown[c]
    BY <1>1, <1>3, <1>6 DEF ThingType
  <2>2. \A c \in Viewer : eTracked[c] \ (eTracked[c] \ h.of) = eTracked[c] \cap h.of
    OBVIOUS
  <2> QED
    BY <2>1, <2>2
<1>8. ThingType'
  BY <1>1, <1>3, <1>5, <1>6 DEF ThingType
<1>9. ThingCalm'
  BY <1>1, <1>3, <1>4, <1>5, <1>13, CalmKeeps
<1>10. ThingShown'
  <2>1. \A d \in ThingTask : \A c, e : Listed(eJobs[d], TrackJob(c, e)) => Listed(eJobs'[d], TrackJob(c, e))
    BY <1>3, <1>5, JobParts
  <2> QED
    BY <1>1, <1>7, <2>1 DEF ThingShown, TrackJob, Things!Job
<1>11. ThingTracked'
  <2> SUFFICES ASSUME NEW c \in Viewer, NEW e \in eTracked'[c], e \in Known
               PROVE  e \in eShown'[c] \/ e \in eLate[c]
    BY <1>3 DEF ThingTracked
  <2>1. e \in eTracked[c]
    BY <1>7
  <2>2. e \in eShown[c] \/ e \in eLate[c]
    BY <1>1, <2>1 DEF ThingTracked
  <2> QED
    BY <1>7, <2>2
<1>12. ThingPass'
  <2> SUFFICES ASSUME eCalm, ~Listed(eJobs'[Loop], PassJob), NEW c \in eOnline, NEW e \in Entity
               PROVE  /\ e \in eEntities =>
                            \/ Listed(eJobs'[Loop], SeeJob(c, e)) \/ Listed(eJobs'[Loop], TrackJob(c, e))
                            \/ (e \in eTracked'[c] <=> <<c, e>> \in eNear)
                      /\ e \notin eEntities =>
                            Listed(eJobs'[Loop], StaleJob(c, eEntities)) \/ e \notin eTracked'[c]
    BY <1>3 DEF ThingPass, SeeJob, StaleJob, PassJob, TrackJob, Things!Job
  <2>1. ~Listed(eJobs[Loop], PassJob)
    BY <1>5
  <2>2. h.of = eEntities
    BY <1>1, <1>3, <1>5, <1>13 DEF ThingCalm, Current
  <2>3. c \in Viewer
    BY <1>1 DEF ThingType
  <2>4. /\ e \in eEntities =>
              \/ Listed(eJobs[Loop], SeeJob(c, e)) \/ Listed(eJobs[Loop], TrackJob(c, e))
              \/ (e \in eTracked[c] <=> <<c, e>> \in eNear)
        /\ e \notin eEntities =>
              Listed(eJobs[Loop], StaleJob(c, eEntities)) \/ e \notin eTracked[c]
    BY <1>1, <2>1 DEF ThingPass
  <2>5. /\ Listed(eJobs[Loop], SeeJob(c, e)) => Listed(eJobs'[Loop], SeeJob(c, e))
        /\ Listed(eJobs[Loop], TrackJob(c, e)) => Listed(eJobs'[Loop], TrackJob(c, e))
    BY <1>3, <1>5, <1>13, JobParts
  <2>6. Listed(eJobs[Loop], StaleJob(c, eEntities)) =>
           Listed(eJobs'[Loop], StaleJob(c, eEntities)) \/ c = h.to
    BY <1>5, <1>13, JobParts
  <2> QED
    BY <1>7, <2>2, <2>3, <2>4, <2>5, <2>6
<1> QED
  BY <1>5, <1>8, <1>9, <1>10, <1>11, <1>12 DEF ThingInv

\* A client is told to show an entity, which is recorded next.
LEMMA ShowKeeps ==
    ASSUME ThingInv, NEW t \in ThingTask, eJobs[t] # <<>>, NEW h, h = Head(eJobs[t]),
           h.what \in {"see", "spawn"},
           eShown' = [eShown EXCEPT ![h.to] = IF h.of \in Known THEN @ \cup {h.of} ELSE @],
           eJobs' = [eJobs EXCEPT ![t] = <<TrackJob(h.to, h.of)>> \o Tail(@)],
           UNCHANGED <<eEntities, eFresh, eRemoved, eOnline, eJoined, eTracked, eSyncing, eLate>>,
           eCalm' \in BOOLEAN
    PROVE  /\ h \in ThingJobs /\ Listed(eJobs[t], h) /\ Suits(t, h)
           /\ h.to \in Viewer /\ h.of \in Entity
           /\ \A d \in ThingTask : d # t => eJobs'[d] = eJobs[d]
           /\ \A p : Listed(eJobs'[t], p) => p = TrackJob(h.to, h.of) \/ Listed(eJobs[t], p)
           /\ Listed(eJobs'[t], TrackJob(h.to, h.of))
           /\ \A p : Listed(eJobs[t], p) => p = h \/ Listed(eJobs'[t], p)
           /\ Listed(eJobs'[Loop], PassJob) <=> Listed(eJobs[Loop], PassJob)
           /\ ThingType' /\ ThingTodo' /\ ThingShown' /\ ThingTracked'
<1>1. ThingType /\ ThingTodo /\ ThingShown /\ ThingTracked
  BY DEF ThingInv
<1>2. eJobs[t] \in Seq(ThingJobs) /\ h \in ThingJobs /\ Listed(eJobs[t], h)
  BY <1>1, ListedIn DEF ThingType
<1>3. Suits(t, h) /\ h.to \in Viewer /\ h.of \in Entity
  BY <1>1, <1>2 DEF ThingTodo, Suits
<1>4. TrackJob(h.to, h.of) \in ThingJobs
  BY <1>3, ThingSets DEF TrackJob, Things!Job, ThingJobs
<1>5. /\ <<TrackJob(h.to, h.of)>> \in Seq(ThingJobs)
      /\ \A y : Listed(<<TrackJob(h.to, h.of)>>, y) <=> y = TrackJob(h.to, h.of)
  BY <1>4, OneListed
<1>6. PICK more \in Seq(ThingJobs) : more = <<TrackJob(h.to, h.of)>>
  BY <1>5
<1>7. /\ eJobs' = [eJobs EXCEPT ![t] = more \o Tail(@)]
      /\ h.what # "pass" /\ h.what # "end" /\ eJoined' = eJoined /\ eSyncing' = eSyncing
      /\ \A p : Listed(more, p) => p.what = "track" /\ Suits(t, p)
      /\ \A p : Listed(more, p) <=> p = TrackJob(h.to, h.of)
  BY <1>3, <1>5, <1>6, JobParts DEF Suits
<1>8. /\ eJobs' \in [ThingTask -> Seq(ThingJobs)]
      /\ \A d \in ThingTask : d # t => eJobs'[d] = eJobs[d]
      /\ \A p : Listed(eJobs'[t], p) => Listed(more, p) \/ Listed(eJobs[t], p)
      /\ \A p : Listed(more, p) => Listed(eJobs'[t], p)
      /\ \A p : Listed(eJobs[t], p) => p = h \/ Listed(eJobs'[t], p)
      /\ Listed(eJobs'[Loop], PassJob) <=> Listed(eJobs[Loop], PassJob)
      /\ ThingTodo'
  BY <1>1, <1>7, PutKeeps
<1>9. ThingType'
  BY <1>1, <1>3, <1>8 DEF ThingType
<1>10. \A c \in Viewer : eShown'[c] = IF c = h.to /\ h.of \in Known THEN eShown[c] \cup {h.of} ELSE eShown[c]
  BY <1>1, <1>3 DEF ThingType
<1>11. ThingShown'
  <2> SUFFICES ASSUME NEW c \in Viewer, NEW e \in eShown'[c]
               PROVE  /\ e \in Known
                      /\ e \in eTracked[c] \/ \E d \in ThingTask : Listed(eJobs'[d], TrackJob(c, e))
    BY DEF ThingShown, TrackJob, Things!Job
  <2>1. \A d \in ThingTask : Listed(eJobs[d], TrackJob(c, e)) => Listed(eJobs'[d], TrackJob(c, e))
    BY <1>8, JobParts
  <2>2. CASE e \in eShown[c]
    BY <1>1, <2>1, <2>2 DEF ThingShown
  <2>3. CASE e \notin eShown[c]
    <3>1. c = h.to /\ e = h.of /\ e \in Known
      BY <1>10, <2>3
    <3> QED
      BY <1>7, <1>8, <3>1
  <2> QED
    BY <2>2, <2>3
<1>12. ThingTracked'
  BY <1>1, <1>10 DEF ThingTracked
<1> QED
  BY <1>2, <1>3, <1>7, <1>8, <1>9, <1>11, <1>12

\* A job is done, and the client need not be told.
LEMMA SkipKeeps ==
    ASSUME ThingInv, NEW t \in ThingTask, eJobs[t] # <<>>, NEW h, h = Head(eJobs[t]),
           h.what \in {"see", "spawn"},
           eJobs' = [eJobs EXCEPT ![t] = <<>> \o Tail(@)],
           UNCHANGED <<eEntities, eFresh, eRemoved, eOnline, eJoined, eSyncing, eLate>>,
           eCalm' \in BOOLEAN
    PROVE  /\ h \in ThingJobs /\ Listed(eJobs[t], h) /\ Suits(t, h)
           /\ h.to \in Viewer /\ h.of \in Entity
           /\ eJobs' \in [ThingTask -> Seq(ThingJobs)]
           /\ \A d \in ThingTask : d # t => eJobs'[d] = eJobs[d]
           /\ \A p : Listed(eJobs'[t], p) => Listed(eJobs[t], p)
           /\ \A p : Listed(eJobs[t], p) => p = h \/ Listed(eJobs'[t], p)
           /\ Listed(eJobs'[Loop], PassJob) <=> Listed(eJobs[Loop], PassJob)
           /\ \A d \in ThingTask : \A c, e : Listed(eJobs[d], TrackJob(c, e)) => Listed(eJobs'[d], TrackJob(c, e))
           /\ ThingTodo'
<1>1. ThingType /\ ThingTodo
  BY DEF ThingInv
<1>0. PICK more \in Seq(ThingJobs) : more = <<>>
  BY NoMore
<1>4. /\ eJobs' = [eJobs EXCEPT ![t] = more \o Tail(@)]
      /\ h.what # "pass" /\ h.what # "end" /\ eJoined' = eJoined /\ eSyncing' = eSyncing
      /\ \A p : ~Listed(more, p)
  BY <1>0, NoMore
<1>5. /\ h \in ThingJobs /\ Listed(eJobs[t], h) /\ Suits(t, h)
      /\ eJobs' \in [ThingTask -> Seq(ThingJobs)]
      /\ \A d \in ThingTask : d # t => eJobs'[d] = eJobs[d]
      /\ \A p : Listed(eJobs'[t], p) => Listed(more, p) \/ Listed(eJobs[t], p)
      /\ \A p : Listed(eJobs[t], p) => p = h \/ Listed(eJobs'[t], p)
      /\ Listed(eJobs'[Loop], PassJob) <=> Listed(eJobs[Loop], PassJob)
      /\ ThingTodo'
  BY <1>1, <1>4, PutKeeps
<1>6. h.to \in Viewer /\ h.of \in Entity
  BY <1>5 DEF Suits
<1>7. \A d \in ThingTask : \A c, e : Listed(eJobs[d], TrackJob(c, e)) => Listed(eJobs'[d], TrackJob(c, e))
  BY <1>5, JobParts
<1> QED
  BY <1>4, <1>5, <1>6, <1>7

LEMMA ThingSpawns == \A t \in ThingTask : ThingInv /\ Things!SendSpawn(t) => ThingInv'
<1> SUFFICES ASSUME NEW t \in ThingTask, ThingInv, Things!SendSpawn(t) PROVE ThingInv'
  OBVIOUS
<1>1. ThingType /\ ThingTodo /\ ThingShown /\ ThingTracked
  BY DEF ThingInv
<1>2. PICK h : h = Head(eJobs[t])
  OBVIOUS
<1>3. /\ eJobs[t] # <<>> /\ h.what = "spawn"
      /\ eCalm' = (eCalm /\ t = Loop)
      /\ UNCHANGED <<eEntities, eFresh, eRemoved, eNear, eOnline, eJoined, eTracked, eSyncing, eLate>>
      /\ IF <<h.to, h.of>> \in eNear
         THEN /\ eShown' = [eShown EXCEPT ![h.to] = IF h.of \in Known THEN @ \cup {h.of} ELSE @]
              /\ eJobs' = [eJobs EXCEPT ![t] = <<TrackJob(h.to, h.of)>> \o Tail(@)]
         ELSE eJobs' = [eJobs EXCEPT ![t] = <<>> \o Tail(@)] /\ UNCHANGED eShown
  BY <1>2 DEF Things!SendSpawn, Things!Turn, Things!Show, Things!Put, Things!Disturbs, Things!world,
              Things!people, TrackJob
<1>4. h \in ThingJobs /\ Listed(eJobs[t], h)
  BY <1>1, <1>2, <1>3, ListedIn DEF ThingType
<1>5. t # Loop
  BY <1>1, <1>3, <1>4 DEF ThingTodo, Suits
<1>6. ~eCalm' /\ eCalm' \in BOOLEAN
  BY <1>3, <1>5
<1>7. ThingCalm' /\ ThingPass'
  BY <1>6 DEF ThingCalm, ThingPass
<1>8. CASE <<h.to, h.of>> \in eNear
  BY <1>2, <1>3, <1>6, <1>7, <1>8, ShowKeeps DEF ThingInv
<1>9. CASE <<h.to, h.of>> \notin eNear
  <2>1. /\ eJobs' \in [ThingTask -> Seq(ThingJobs)]
        /\ \A d \in ThingTask : \A c, e : Listed(eJobs[d], TrackJob(c, e)) => Listed(eJobs'[d], TrackJob(c, e))
        /\ ThingTodo'
    BY <1>2, <1>3, <1>6, <1>9, SkipKeeps
  <2>2. ThingType'
    BY <1>1, <1>3, <1>6, <1>9, <2>1 DEF ThingType
  <2>3. ThingShown'
    BY <1>1, <1>3, <1>9, <2>1 DEF ThingShown, TrackJob, Things!Job
  <2>4. ThingTracked'
    BY <1>1, <1>3, <1>9 DEF ThingTracked
  <2> QED
    BY <1>7, <2>1, <2>2, <2>3, <2>4 DEF ThingInv
<1> QED
  BY <1>8, <1>9

\* The pass at an entity out of range, at one the client has to be told of, and at one
\* it knows.
LEMMA SeeFar ==
    ASSUME ThingInv, NEW t \in ThingTask, t = Loop, eJobs[t] # <<>>, NEW h, h = Head(eJobs[t]),
           h.what = "see", <<h.to, h.of>> \notin eNear,
           eTracked' = [eTracked EXCEPT ![h.to] = @ \ {h.of}],
           IF h.of \in eTracked[h.to] THEN eShown' = [eShown EXCEPT ![h.to] = @ \ {h.of}]
                                      ELSE UNCHANGED eShown,
           eJobs' = [eJobs EXCEPT ![t] = <<>> \o Tail(@)],
           UNCHANGED <<eEntities, eFresh, eRemoved, eNear, eOnline, eJoined, eSyncing, eCalm, eLate>>
    PROVE  ThingInv'
<1>1. ThingType /\ ThingTodo /\ ThingCalm /\ ThingShown /\ ThingTracked /\ ThingPass
  BY DEF ThingInv
<1>2. eCalm' \in BOOLEAN
  BY <1>1 DEF ThingType
<1>3. /\ h \in ThingJobs /\ Listed(eJobs[t], h)
      /\ h.to \in Viewer /\ h.of \in Entity
      /\ eJobs' \in [ThingTask -> Seq(ThingJobs)]
      /\ \A d \in ThingTask : d # t => eJobs'[d] = eJobs[d]
      /\ \A p : Listed(eJobs'[t], p) => Listed(eJobs[t], p)
      /\ \A p : Listed(eJobs[t], p) => p = h \/ Listed(eJobs'[t], p)
      /\ Listed(eJobs'[Loop], PassJob) <=> Listed(eJobs[Loop], PassJob)
      /\ \A d \in ThingTask : \A c, e : Listed(eJobs[d], TrackJob(c, e)) => Listed(eJobs'[d], TrackJob(c, e))
      /\ ThingTodo'
  BY <1>2, SkipKeeps
<1>11. /\ eTracked \in [Viewer -> SUBSET Entity] /\ eShown \in [Viewer -> SUBSET Entity]
       /\ h.to \in Viewer
  BY <1>1, <1>3 DEF ThingType
<1>12. \A c \in Viewer : eTracked'[c] = IF c = h.to THEN eTracked[c] \ {h.of} ELSE eTracked[c]
  BY <1>11
<1>13. /\ \A c \in Viewer : eShown'[c] = IF c = h.to /\ h.of \in eTracked[c]
                                        THEN eShown[c] \ {h.of} ELSE eShown[c]
       /\ eShown' \in [Viewer -> SUBSET Entity]
  <2>1. CASE h.of \in eTracked[h.to]
    <3>1. eShown' = [eShown EXCEPT ![h.to] = @ \ {h.of}]
      BY <2>1
    <3> QED
      BY <1>11, <2>1, <3>1
  <2>2. CASE h.of \notin eTracked[h.to]
    <3>1. eShown' = eShown
      BY <2>2
    <3> QED
      BY <1>11, <2>2, <3>1
  <2> QED
    BY <2>1, <2>2
<1>5. eShown' \in [Viewer -> SUBSET Entity]
  BY <1>13
<1>4. \A c \in Viewer : \A e :
         /\ e \in eTracked'[c] <=> e \in eTracked[c] /\ ~(c = h.to /\ e = h.of)
         /\ e \in eShown'[c] <=> e \in eShown[c] /\ ~(c = h.to /\ e = h.of /\ e \in eTracked[c])
  <2> SUFFICES ASSUME NEW c \in Viewer, NEW e
               PROVE  /\ e \in eTracked'[c] <=> e \in eTracked[c] /\ ~(c = h.to /\ e = h.of)
                      /\ e \in eShown'[c] <=> e \in eShown[c] /\ ~(c = h.to /\ e = h.of /\ e \in eTracked[c])
    OBVIOUS
  <2>1. CASE c # h.to
    <3>1. eTracked'[c] = eTracked[c] /\ eShown'[c] = eShown[c]
      BY <1>12, <1>13, <2>1
    <3> QED
      BY <2>1, <3>1
  <2>2. CASE c = h.to /\ h.of \in eTracked[c]
    <3>1. eTracked'[c] = eTracked[c] \ {h.of} /\ eShown'[c] = eShown[c] \ {h.of}
      BY <1>12, <1>13, <2>2
    <3> QED
      BY <2>2, <3>1
  <2>3. CASE c = h.to /\ h.of \notin eTracked[c]
    <3>1. eTracked'[c] = eTracked[c] \ {h.of} /\ eShown'[c] = eShown[c]
      BY <1>12, <1>13, <2>3
    <3> QED
      BY <2>3, <3>1
  <2> QED
    BY <2>1, <2>2, <2>3
<1>6. ThingType'
  BY <1>1, <1>2, <1>3, <1>5 DEF ThingType
<1>7. ThingCalm'
  BY <1>1, <1>3, CalmKeeps
<1>8. ThingShown'
  <2> SUFFICES ASSUME NEW c \in Viewer, NEW e \in eShown'[c]
               PROVE  /\ e \in Known
                      /\ e \in eTracked'[c] \/ \E d \in ThingTask : Listed(eJobs'[d], TrackJob(c, e))
    BY DEF ThingShown, TrackJob, Things!Job
  <2>1. e \in eShown[c] /\ (e \in eTracked[c] => e \in eTracked'[c])
    BY <1>4
  <2> QED
    BY <1>1, <1>3, <2>1 DEF ThingShown
<1>9. ThingTracked'
  <2> SUFFICES ASSUME NEW c \in Viewer, NEW e \in eTracked'[c], e \in Known
               PROVE  e \in eShown'[c] \/ e \in eLate[c]
    BY DEF ThingTracked
  <2>1. e \in eTracked[c]
    BY <1>4
  <2>2. e \in eShown[c] \/ e \in eLate[c]
    BY <1>1, <2>1 DEF ThingTracked
  <2> QED
    BY <1>4, <2>2
<1>10. ThingPass'
  <2> SUFFICES ASSUME eCalm, ~Listed(eJobs'[Loop], PassJob), NEW c \in eOnline, NEW e \in Entity
               PROVE  /\ e \in eEntities =>
                            \/ Listed(eJobs'[Loop], SeeJob(c, e)) \/ Listed(eJobs'[Loop], TrackJob(c, e))
                            \/ (e \in eTracked'[c] <=> <<c, e>> \in eNear)
                      /\ e \notin eEntities =>
                            Listed(eJobs'[Loop], StaleJob(c, eEntities)) \/ e \notin eTracked'[c]
    BY DEF ThingPass, SeeJob, StaleJob, PassJob, TrackJob, Things!Job
  <2>1. /\ e \in eEntities =>
              \/ Listed(eJobs[Loop], SeeJob(c, e)) \/ Listed(eJobs[Loop], TrackJob(c, e))
              \/ (e \in eTracked[c] <=> <<c, e>> \in eNear)
        /\ e \notin eEntities =>
              Listed(eJobs[Loop], StaleJob(c, eEntities)) \/ e \notin eTracked[c]
    BY <1>1, <1>3 DEF ThingPass
  <2>2. c \in Viewer
    BY <1>1 DEF ThingType
  <2>3. CASE c = h.to /\ e = h.of
    <3>1. e \notin eTracked'[c] /\ <<c, e>> \notin eNear
      BY <1>4, <2>2, <2>3
    <3> QED
      BY <3>1
  <2>4. CASE ~(c = h.to /\ e = h.of)
    <3>1. e \in eTracked'[c] <=> e \in eTracked[c]
      BY <1>4, <2>2, <2>4
    <3>2. SeeJob(c, e) # h /\ TrackJob(c, e) # h /\ StaleJob(c, eEntities) # h
      BY <2>4, JobParts
    <3> QED
      BY <1>3, <2>1, <3>1, <3>2
  <2> QED
    BY <2>3, <2>4
<1> QED
  BY <1>3, <1>6, <1>7, <1>8, <1>9, <1>10 DEF ThingInv

LEMMA SeeNew ==
    ASSUME ThingInv, NEW t \in ThingTask, t = Loop, eJobs[t] # <<>>, NEW h, h = Head(eJobs[t]),
           h.what = "see", <<h.to, h.of>> \in eNear,
           eShown' = [eShown EXCEPT ![h.to] = IF h.of \in Known THEN @ \cup {h.of} ELSE @],
           eJobs' = [eJobs EXCEPT ![t] = <<TrackJob(h.to, h.of)>> \o Tail(@)],
           UNCHANGED <<eEntities, eFresh, eRemoved, eNear, eOnline, eJoined, eTracked, eSyncing, eCalm, eLate>>
    PROVE  ThingInv'
<1>1. ThingType /\ ThingTodo /\ ThingCalm /\ ThingPass
  BY DEF ThingInv
<1>2. eCalm' \in BOOLEAN
  BY <1>1 DEF ThingType
<1>3. /\ h \in ThingJobs /\ Listed(eJobs[t], h)
      /\ h.to \in Viewer /\ h.of \in Entity
      /\ \A d \in ThingTask : d # t => eJobs'[d] = eJobs[d]
      /\ \A p : Listed(eJobs'[t], p) => p = TrackJob(h.to, h.of) \/ Listed(eJobs[t], p)
      /\ Listed(eJobs'[t], TrackJob(h.to, h.of))
      /\ \A p : Listed(eJobs[t], p) => p = h \/ Listed(eJobs'[t], p)
      /\ Listed(eJobs'[Loop], PassJob) <=> Listed(eJobs[Loop], PassJob)
      /\ ThingType' /\ ThingTodo' /\ ThingShown' /\ ThingTracked'
  BY <1>2, ShowKeeps
<1>4. ThingCalm'
  <2>1. CASE eCalm
    <3>1. Current(TrackJob(h.to, h.of))
      BY <1>1, <1>3, <2>1, JobParts DEF ThingCalm, Current
    <3>2. \A p \in ThingJobs : Listed(eJobs'[t], p) => Current(p) \/ Listed(eJobs[t], p)
      BY <1>3, <3>1
    <3> QED
      BY <1>1, <1>3, <3>2, CalmKeeps
  <2>2. CASE ~eCalm
    BY <2>2 DEF ThingCalm
  <2> QED
    BY <2>1, <2>2
<1>5. ThingPass'
  <2> SUFFICES ASSUME eCalm, ~Listed(eJobs'[Loop], PassJob), NEW c \in eOnline, NEW e \in Entity
               PROVE  /\ e \in eEntities =>
                            \/ Listed(eJobs'[Loop], SeeJob(c, e)) \/ Listed(eJobs'[Loop], TrackJob(c, e))
                            \/ (e \in eTracked[c] <=> <<c, e>> \in eNear)
                      /\ e \notin eEntities =>
                            Listed(eJobs'[Loop], StaleJob(c, eEntities)) \/ e \notin eTracked[c]
    BY DEF ThingPass, SeeJob, StaleJob, PassJob, TrackJob, Things!Job
  <2>1. /\ e \in eEntities =>
              \/ Listed(eJobs[Loop], SeeJob(c, e)) \/ Listed(eJobs[Loop], TrackJob(c, e))
              \/ (e \in eTracked[c] <=> <<c, e>> \in eNear)
        /\ e \notin eEntities =>
              Listed(eJobs[Loop], StaleJob(c, eEntities)) \/ e \notin eTracked[c]
    BY <1>1, <1>3 DEF ThingPass
  <2>2. SeeJob(c, e) = h => Listed(eJobs'[Loop], TrackJob(c, e))
    BY <1>3, JobParts
  <2>3. TrackJob(c, e) # h /\ StaleJob(c, eEntities) # h
    BY JobParts
  <2> QED
    BY <1>3, <2>1, <2>2, <2>3
<1> QED
  BY <1>3, <1>4, <1>5 DEF ThingInv

LEMMA SeeOld ==
    ASSUME ThingInv, NEW t \in ThingTask, t = Loop, eJobs[t] # <<>>, NEW h, h = Head(eJobs[t]),
           h.what = "see", <<h.to, h.of>> \in eNear, h.of \in eTracked[h.to],
           eJobs' = [eJobs EXCEPT ![t] = <<>> \o Tail(@)],
           UNCHANGED <<eEntities, eFresh, eRemoved, eNear, eOnline, eJoined, eTracked, eShown,
                       eSyncing, eCalm, eLate>>
    PROVE  ThingInv'
<1>1. ThingType /\ ThingTodo /\ ThingCalm /\ ThingShown /\ ThingTracked /\ ThingPass
  BY DEF ThingInv
<1>2. eCalm' \in BOOLEAN
  BY <1>1 DEF ThingType
<1>3. /\ h \in ThingJobs /\ Listed(eJobs[t], h)
      /\ eJobs' \in [ThingTask -> Seq(ThingJobs)]
      /\ \A d \in ThingTask : d # t => eJobs'[d] = eJobs[d]
      /\ \A p : Listed(eJobs'[t], p) => Listed(eJobs[t], p)
      /\ \A p : Listed(eJobs[t], p) => p = h \/ Listed(eJobs'[t], p)
      /\ Listed(eJobs'[Loop], PassJob) <=> Listed(eJobs[Loop], PassJob)
      /\ \A d \in ThingTask : \A c, e : Listed(eJobs[d], TrackJob(c, e)) => Listed(eJobs'[d], TrackJob(c, e))
      /\ ThingTodo'
  BY <1>2, SkipKeeps
<1>4. ThingType'
  BY <1>1, <1>2, <1>3 DEF ThingType
<1>5. ThingCalm'
  BY <1>1, <1>3, CalmKeeps
<1>6. ThingShown'
  BY <1>1, <1>3 DEF ThingShown, TrackJob, Things!Job
<1>7. ThingTracked'
  BY <1>1 DEF ThingTracked
<1>8. ThingPass'
  <2> SUFFICES ASSUME eCalm, ~Listed(eJobs'[Loop], PassJob), NEW c \in eOnline, NEW e \in Entity
               PROVE  /\ e \in eEntities =>
                            \/ Listed(eJobs'[Loop], SeeJob(c, e)) \/ Listed(eJobs'[Loop], TrackJob(c, e))
                            \/ (e \in eTracked[c] <=> <<c, e>> \in eNear)
                      /\ e \notin eEntities =>
                            Listed(eJobs'[Loop], StaleJob(c, eEntities)) \/ e \notin eTracked[c]
    BY DEF ThingPass, SeeJob, StaleJob, PassJob, TrackJob, Things!Job
  <2>1. /\ e \in eEntities =>
              \/ Listed(eJobs[Loop], SeeJob(c, e)) \/ Listed(eJobs[Loop], TrackJob(c, e))
              \/ (e \in eTracked[c] <=> <<c, e>> \in eNear)
        /\ e \notin eEntities =>
              Listed(eJobs[Loop], StaleJob(c, eEntities)) \/ e \notin eTracked[c]
    BY <1>1, <1>3 DEF ThingPass
  <2>2. SeeJob(c, e) = h => c = h.to /\ e = h.of
    BY JobParts
  <2>3. TrackJob(c, e) # h /\ StaleJob(c, eEntities) # h
    BY JobParts
  <2> QED
    BY <1>3, <2>1, <2>2, <2>3
<1> QED
  BY <1>3, <1>4, <1>5, <1>6, <1>7, <1>8 DEF ThingInv

LEMMA ThingSees == ThingInv /\ Things!See => ThingInv'
<1> SUFFICES ASSUME ThingInv, Things!See PROVE ThingInv'
  OBVIOUS
<1>1. PICK h : h = Head(eJobs[Loop])
  OBVIOUS
<1>2. PICK t \in ThingTask : t = Loop
  BY ThingSets
<1>3. /\ eJobs[t] # <<>> /\ h = Head(eJobs[t]) /\ h.what = "see"
      /\ UNCHANGED <<eEntities, eFresh, eRemoved, eNear, eOnline, eJoined, eSyncing, eCalm, eLate>>
  BY <1>1, <1>2 DEF Things!See, Things!Turn, Things!world, Things!people
<1>4. \/ /\ <<h.to, h.of>> \notin eNear
         /\ eTracked' = [eTracked EXCEPT ![h.to] = @ \ {h.of}]
         /\ IF h.of \in eTracked[h.to] THEN eShown' = [eShown EXCEPT ![h.to] = @ \ {h.of}]
                                       ELSE UNCHANGED eShown
         /\ eJobs' = [eJobs EXCEPT ![t] = <<>> \o Tail(@)]
      \/ /\ <<h.to, h.of>> \in eNear /\ h.of \notin eTracked[h.to]
         /\ eShown' = [eShown EXCEPT ![h.to] = IF h.of \in Known THEN @ \cup {h.of} ELSE @]
         /\ eJobs' = [eJobs EXCEPT ![t] = <<TrackJob(h.to, h.of)>> \o Tail(@)]
         /\ UNCHANGED eTracked
      \/ /\ <<h.to, h.of>> \in eNear /\ h.of \in eTracked[h.to]
         /\ eJobs' = [eJobs EXCEPT ![t] = <<>> \o Tail(@)]
         /\ UNCHANGED <<eTracked, eShown>>
  BY <1>1, <1>2 DEF Things!See, Things!Show, Things!Hide, Things!Put, TrackJob
<1>5. CASE /\ <<h.to, h.of>> \notin eNear
           /\ eTracked' = [eTracked EXCEPT ![h.to] = @ \ {h.of}]
           /\ IF h.of \in eTracked[h.to] THEN eShown' = [eShown EXCEPT ![h.to] = @ \ {h.of}]
                                         ELSE UNCHANGED eShown
           /\ eJobs' = [eJobs EXCEPT ![t] = <<>> \o Tail(@)]
  BY <1>2, <1>3, <1>5, SeeFar
<1>6. CASE /\ <<h.to, h.of>> \in eNear /\ h.of \notin eTracked[h.to]
           /\ eShown' = [eShown EXCEPT ![h.to] = IF h.of \in Known THEN @ \cup {h.of} ELSE @]
           /\ eJobs' = [eJobs EXCEPT ![t] = <<TrackJob(h.to, h.of)>> \o Tail(@)]
           /\ UNCHANGED eTracked
  BY <1>2, <1>3, <1>6, SeeNew
<1>7. CASE /\ <<h.to, h.of>> \in eNear /\ h.of \in eTracked[h.to]
           /\ eJobs' = [eJobs EXCEPT ![t] = <<>> \o Tail(@)]
           /\ UNCHANGED <<eTracked, eShown>>
  BY <1>2, <1>3, <1>7, SeeOld
<1> QED
  BY <1>4, <1>5, <1>6, <1>7

-------------------------------------------------------------------------------
LEMMA ThingStart == Things!Init => ThingInv
<1> SUFFICES ASSUME Things!Init PROVE ThingInv
  OBVIOUS
<1>1. /\ eEntities = {} /\ eFresh = Entity /\ eRemoved = {} /\ eOnline = {} /\ eJoined = {}
      /\ eTracked = [c \in Viewer |-> {}] /\ eShown = [c \in Viewer |-> {}]
      /\ eLate = [c \in Viewer |-> {}]
      /\ eJobs = [t \in ThingTask |-> <<>>]
      /\ eSyncing = FALSE /\ eCalm = FALSE
  BY ThingTasks DEF Things!Init
<1>2. \A t \in ThingTask : eJobs[t] = <<>>
  BY <1>1
<1>3. ThingType
  BY <1>1, NoMore DEF ThingType
<1>4. ThingTodo
  BY <1>2, NoMore, NoneListed, ThingSets DEF ThingTodo, Ends
<1>5. ThingCalm /\ ThingShown /\ ThingTracked /\ ThingPass
  BY <1>1 DEF ThingCalm, ThingShown, ThingTracked, ThingPass
<1> QED
  BY <1>3, <1>4, <1>5 DEF ThingInv

LEMMA ThingStep == ThingInv /\ [Things!Next]_(Things!vars) => ThingInv'
<1> SUFFICES ASSUME ThingInv, [Things!Next]_(Things!vars) PROVE ThingInv'
  OBVIOUS
<1>1. CASE UNCHANGED Things!vars
  <2>1. UNCHANGED <<eEntities, eFresh, eRemoved, eNear, eOnline, eJoined, eTracked, eShown, eJobs,
                    eSyncing, eCalm, eLate>>
    BY <1>1 DEF Things!vars, Things!world, Things!people
  <2> QED
    BY <2>1 DEF ThingInv, ThingType, ThingTodo, ThingCalm, ThingShown, ThingTracked, ThingPass, Suits,
        Current, TrackJob, SeeJob, StaleJob, PassJob, Things!Job
<1>2. ASSUME NEW e \in Entity, Things!Create(e) \/ Things!Expire(e) PROVE ThingInv'
  BY <1>2, ThingCreates, ThingExpires
<1>3. ASSUME NEW c \in Viewer, Things!Enter(c) \/ Things!StartVisible(c) PROVE ThingInv'
  BY <1>3, ThingEnters, ThingJoins
<1>4. ASSUME NEW t \in ThingTask, Things!Drop(t) \/ Things!SendSpawn(t) \/ Things!Track(t) \/ Things!End(t)
      PROVE  ThingInv'
  BY <1>4, ThingDrops, ThingSpawns, ThingTracks, ThingEnds
<1> QED
  BY <1>1, <1>2, <1>3, <1>4, ThingTasks, ThingMoves, ThingSyncs, ThingPasses, ThingStales, ThingSees
  DEF Things!Next

\* After a pass of the game loop that nobody disturbed every client shows exactly the
\* entities that live within its range (server.py:1094-1144), except those of unknown
\* type and those recorded as shown after it had removed them.
THEOREM EntitiesInSync == Things!Spec => []ClientsInSync
<1>1. ThingInv => ClientsInSync
  <2> SUFFICES ASSUME ThingInv, eCalm, ~eSyncing, NEW c \in eOnline
               PROVE  LET due == {e \in eEntities \cap Known : <<c, e>> \in eNear}
                      IN  eShown[c] \subseteq due /\ due \ eLate[c] \subseteq eShown[c]
    BY DEF ClientsInSync, Things!ClientsInSync
  <2>1. ThingType /\ ThingTodo /\ ThingCalm /\ ThingShown /\ ThingTracked /\ ThingPass
    BY DEF ThingInv
  <2>2. c \in Viewer /\ eShown[c] \in SUBSET Entity /\ eEntities \in SUBSET Entity
    BY <2>1 DEF ThingType
  <2>3. \A t \in ThingTask : eJobs[t] = <<>>
    BY <2>1 DEF ThingTodo, ThingCalm
  <2>4. \A t \in ThingTask : \A p : ~Listed(eJobs[t], p)
    BY <2>3, NoneListed
  <2>5. \A p : ~Listed(eJobs[Loop], p)
    BY <2>4, ThingSets
  <2>6. \A e \in Entity : /\ e \in eEntities => (e \in eTracked[c] <=> <<c, e>> \in eNear)
                          /\ e \notin eEntities => e \notin eTracked[c]
    BY <2>1, <2>5 DEF ThingPass
  <2>7. ASSUME NEW e \in eShown[c]
        PROVE  e \in eEntities /\ e \in Known /\ <<c, e>> \in eNear
    <3>1. e \in Known /\ e \in eTracked[c]
      BY <2>1, <2>2, <2>4 DEF ThingShown
    <3> QED
      BY <2>2, <2>6, <3>1
  <2>8. ASSUME NEW e \in eEntities, e \in Known, <<c, e>> \in eNear, e \notin eLate[c]
        PROVE  e \in eShown[c]
    <3>1. e \in eTracked[c]
      BY <2>2, <2>6, <2>8
    <3> QED
      BY <2>1, <2>2, <2>8, <3>1 DEF ThingTracked
  <2> QED
    BY <2>7, <2>8
<1> QED
  BY <1>1, ThingStart, ThingStep, PTL DEF Things!Spec
===============================================================================
