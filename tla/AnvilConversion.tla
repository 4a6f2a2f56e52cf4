----------------------------- MODULE AnvilConversion -----------------------------
(***************************************************************************)
(* world/storage.py: the conversion of a world of Anvil files (.mca) to    *)
(* Linear files when the server starts, the backup of what is converted,   *)
(* and the export back to Anvil.  A crash may come between any two files.  *)
(* Serving, the server knows only .linear files; a write of one is a step  *)
(* (RegionFile) and a saved chunk counts once it is there (WorldStorage).  *)
(***************************************************************************)
EXTENDS AnvilFiles

VARIABLES phase,   \* "stopped", "converting" or "serving"
          mca,     \* mca[r]: r.<x>.<z>.mca
          bak,     \* bak[r]: r.<x>.<z>.mca.bak
          linear,  \* linear[r]: r.<x>.<z>.linear
          todo,    \* the .mca files listed that are still to be converted
          renaming,\* the region that is converted and still to be renamed
          faults,
          latest,  \* history: what the world has, with every saved change
          spoilt   \* history: regions that failed, or were exported while served

fileVars == <<mca, bak, linear>>
vars == <<phase, mca, bak, linear, todo, renaming, faults, latest, spoilt>>

TypeOK ==
    /\ phase \in {"stopped", "converting", "serving"}
    /\ mca \in [Region -> AnvilFile]
    /\ bak \in [Region -> AnvilFile]
    /\ linear \in [Region -> LinearFile]
    /\ todo \subseteq Region
    /\ renaming \in Region \cup {NoRegion}
    /\ faults \in 0..MaxFaults
    /\ latest \in [Region -> LinearFile]
    /\ spoilt \subseteq Region

\* A world of either format, or of both: some regions converted before.
Init ==
    /\ phase = "stopped"
    /\ linear \in [Region -> {f \in LinearFile : \A c \in Chunk : f[c] \in {None, 1}}]
    /\ mca \in [Region -> {f \in AnvilFile : \A c \in Chunk : f[c] \in {None, Bad, 1}}]
    /\ \A r \in Region : linear[r] = NoChunks \/ mca[r] = NoChunks
    /\ bak = [r \in Region |-> NoChunks]
    /\ todo = {}
    /\ renaming = NoRegion
    /\ faults = 0
    /\ latest = [r \in Region |-> IF Usable(mca[r]) THEN Readable(mca[r])
                                                    ELSE linear[r]]
    /\ spoilt = {}

-------------------------------------------------------------------------------
\* MinecraftServer.start comes to world_storage.initialize(), which lists *.mca.
Start ==
    /\ phase = "stopped"
    /\ phase' = "converting"
    /\ todo' = {r \in Region : mca[r] # NoChunks}
    /\ UNCHANGED <<fileVars, renaming, faults, latest, spoilt>>

\* convert_one succeeds: the chunks that were read are all of the new file.
Convert(r) ==
    /\ phase = "converting" /\ renaming = NoRegion
    /\ r \in todo
    /\ Usable(mca[r])
    /\ linear' = [linear EXCEPT ![r] = Readable(mca[r])]
    /\ renaming' = r
    /\ UNCHANGED <<phase, mca, bak, todo, faults, latest, spoilt>>

\* A file without a chunk that can be read is left where it is.
Skip(r) ==
    /\ phase = "converting" /\ renaming = NoRegion
    /\ r \in todo
    /\ ~Usable(mca[r])
    /\ todo' = todo \ {r}
    /\ UNCHANGED <<phase, fileVars, renaming, faults, latest, spoilt>>

\* The .mca cannot be opened or the .linear cannot be written: the same return 0.
ConvertFails(r) ==
    /\ phase = "converting" /\ renaming = NoRegion
    /\ r \in todo
    /\ faults < MaxFaults
    /\ faults' = faults + 1
    /\ todo' = todo \ {r}
    /\ spoilt' = spoilt \cup {r}
    /\ UNCHANGED <<phase, fileVars, renaming, latest>>

\* Mutant: the original is copied rather than renamed.
Copied(r) ==
    /\ renaming = r
    /\ bak' = [bak EXCEPT ![r] = mca[r]]
    /\ renaming' = NoRegion
    /\ todo' = todo \ {r}
    /\ UNCHANGED <<phase, mca, linear, faults, latest, spoilt>>

\* mca_file.rename(bak_path), over a backup that is there already (POSIX).
Rename(r) ==
    /\ renaming = r
    /\ bak' = [bak EXCEPT ![r] = mca[r]]
    /\ mca' = [mca EXCEPT ![r] = NoChunks]
    /\ renaming' = NoRegion
    /\ todo' = todo \ {r}
    /\ UNCHANGED <<phase, linear, faults, latest, spoilt>>

\* A rename that fails (on Windows, over an older backup) is only logged.
RenameFails(r) ==
    /\ renaming = r
    /\ faults < MaxFaults
    /\ faults' = faults + 1
    /\ renaming' = NoRegion
    /\ todo' = todo \ {r}
    /\ spoilt' = spoilt \cup {r}
    /\ UNCHANGED <<phase, fileVars, latest>>

\* initialize() returns, whatever has failed.
Serve ==
    /\ phase = "converting"
    /\ todo = {}
    /\ phase' = "serving"
    /\ UNCHANGED <<fileVars, todo, renaming, faults, latest, spoilt>>

NextVersion(v) == IF v = None THEN 1 ELSE v + 1

\* A chunk is generated or changed, and its region written.
Save(r, c) ==
    /\ phase = "serving"
    /\ \E v \in Versions :
        /\ v = NextVersion(linear[r][c])
        /\ linear' = [linear EXCEPT ![r][c] = v]
        /\ latest' = [latest EXCEPT ![r][c] = v]
    /\ UNCHANGED <<phase, mca, bak, todo, renaming, faults, spoilt>>

\* Stop, or a crash at any moment.
Halt ==
    /\ phase # "stopped"
    /\ phase' = "stopped"
    /\ todo' = {}
    /\ renaming' = NoRegion
    /\ UNCHANGED <<fileVars, faults, latest, spoilt>>

\* convert_linear_to_anvil, for one file or in convert_world_linear_to_anvil.
Export(r) ==
    /\ phase \in {"stopped", "serving"}
    /\ linear[r] # NoChunks
    /\ mca' = [mca EXCEPT ![r] = linear[r]]
    /\ spoilt' = IF phase = "serving" THEN spoilt \cup {r} ELSE spoilt
    /\ UNCHANGED <<phase, bak, linear, todo, renaming, faults, latest>>

Next ==
    \/ Start \/ Serve \/ Halt
    \/ \E r \in Region :
        \/ Convert(r) \/ Skip(r) \/ ConvertFails(r)
        \/ Rename(r) \/ RenameFails(r)
        \/ Export(r)
        \/ \E c \in Chunk : Save(r, c)

Spec == Init /\ [][Next]_vars

-------------------------------------------------------------------------------
\* What the server serves is the newest there is of every chunk, through starts
\* that crash between any two steps of the conversion and are made again: the
\* conversion, which builds each file from the Anvil chunks alone, never goes over
\* a change.  It does where a conversion or a rename has failed and the server
\* went on to serve and save, and where the world was exported under a server.
ServesNewest ==
    phase = "serving" => \A r \in Region \ spoilt : linear[r] = latest[r]
===============================================================================
