---------------------------- MODULE MCPlayerSession ----------------------------
(* PlayerSession with interchangeable connections and players for TLC. *)
EXTENDS PlayerSession, TLC

SessionSymmetry == Permutations(Conn) \cup Permutations(Player)
===============================================================================
