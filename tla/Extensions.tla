-------------------------------- MODULE Extensions --------------------------------
(***************************************************************************)
(* plugins/__init__.py, PluginManager, and mods/__init__.py, ModManager:   *)
(* extensions are ordered by their hard dependencies, loaded and enabled   *)
(* at the start of the server and disabled in reverse at its end; mods are *)
(* then unloaded.  The two managers are the same program up to that.       *)
(*                                                                         *)
(* What on_load, on_enable and on_disable do is left open: they return or  *)
(* they raise.  Ids are numbers, for the managers sort them; each is used  *)
(* by one package.  Events and commands are left out.                      *)
(***************************************************************************)
EXTENDS Integers, Sequences, FiniteSets, SequencesExt

CONSTANTS Id,          \* ids of plugins or mods
          Directories  \* bound: what discover_plugins can find, in the order of its walk

\* What the constants must be; the suite that instantiates this module assumes it.
ExtensionsAssumption ==
    /\ Id \subseteq Nat /\ IsFiniteSet(Id)
    /\ \A s \in Directories : s \in Seq(Id) /\ IsInjective(s)

VARIABLES discovered, \* the ids found
          depend,     \* depend[p]: PluginInfo.depend
          state,      \* state[p]: of its instance, "absent" without one
          refused,    \* those with the error "Missing dependency"
          loadOrder,  \* _load_order
          phase, todo \* which loop runs, and the ids it has not come to

vars == <<discovered, depend, state, refused, loadOrder, phase, todo>>

Found == ToSet(discovered)

\* sorted(): the members of S in increasing order.
Sorted(S) ==
    CHOOSE s \in [1..Cardinality(S) -> S] :
        \A i, j \in 1..Cardinality(S) : i < j => s[i] < s[j]

\* _resolve_dependency_order: Kahn's algorithm, with the queue first in, first out.
Start ==
    LET inDegree == [p \in Found |-> Cardinality(depend[p] \cap Found)]
    IN [queue |-> Sorted({p \in Found : inDegree[p] = 0}), degree |-> inDegree, result |-> <<>>]

Turn(now) ==
    LET current == Head(now.queue)
        left == [p \in Found |-> now.degree[p] - (IF current \in depend[p] THEN 1 ELSE 0)]
        free == {p \in Found : current \in depend[p] /\ left[p] = 0}
    IN [queue |-> Tail(now.queue) \o Sorted(free), degree |-> left,
        result |-> Append(now.result, current)]

\* After k turns, or fewer if nothing is left in the queue.
Kahn[k \in 0..Len(discovered)] ==
    IF k = 0 THEN Start
    ELSE IF Kahn[k - 1].queue = <<>> THEN Kahn[k - 1]
    ELSE Turn(Kahn[k - 1])

\* Those on a cycle, or behind one, come last as they were found.
Completed[k \in 0..Len(discovered)] ==
    IF k = 0 THEN Kahn[Len(discovered)].result
    ELSE IF Contains(Completed[k - 1], discovered[k]) THEN Completed[k - 1]
    ELSE Append(Completed[k - 1], discovered[k])

\* Mutant: a plugin is free as soon as one of its dependencies is placed.
HastyOrder ==
    LET first == SelectSeq(discovered, LAMBDA p : depend[p] \cap Found = {})
    IN first \o SelectSeq(discovered, LAMBDA p : p \notin ToSet(first))

DependencyOrder == Completed[Len(discovered)]

Init ==
    /\ discovered \in Directories
    /\ depend \in [Id -> SUBSET Id]
    /\ state = [p \in Id |-> "absent"]
    /\ refused = {}
    /\ loadOrder = <<>>
    /\ phase = "discover"
    /\ todo = <<>>

-------------------------------------------------------------------------------
(* Start. *)

Discover ==
    /\ phase = "discover"
    /\ phase' = "load"
    /\ todo' = DependencyOrder
    /\ UNCHANGED <<discovered, depend, state, refused, loadOrder>>

\* The loop of phase ph is at p.
At(ph, p) ==
    /\ phase = ph
    /\ todo # <<>>
    /\ p = Head(todo)
    /\ todo' = Tail(todo)

\* The hard dependencies of load_plugin: any instance will do.
Missing(p) == \E d \in depend[p] : state[d] = "absent"

Refuse(p) ==
    /\ At("load", p)
    /\ Missing(p)
    /\ state' = [state EXCEPT ![p] = "errored"]
    /\ refused' = refused \cup {p}
    /\ UNCHANGED <<discovered, depend, loadOrder, phase>>

\* _import_plugin finds no class: no instance is left.
ImportFails(p) ==
    /\ At("load", p)
    /\ ~Missing(p)
    /\ UNCHANGED <<discovered, depend, state, refused, loadOrder, phase>>

\* on_load, which may raise
Load(p) ==
    /\ At("load", p)
    /\ ~Missing(p)
    /\ \/ /\ state' = [state EXCEPT ![p] = "loaded"]
          /\ loadOrder' = Append(loadOrder, p)
       \/ /\ state' = [state EXCEPT ![p] = "errored"]
          /\ UNCHANGED loadOrder
    /\ UNCHANGED <<discovered, depend, refused, phase>>

\* enable_all follows load_all.
Loaded ==
    /\ phase = "load" /\ todo = <<>>
    /\ phase' = "enable"
    /\ todo' = loadOrder
    /\ UNCHANGED <<discovered, depend, state, refused, loadOrder>>

\* on_enable, which may raise
Enable(p) ==
    /\ At("enable", p)
    /\ state[p] = "loaded"
    /\ \E s \in {"enabled", "errored"} : state' = [state EXCEPT ![p] = s]
    /\ UNCHANGED <<discovered, depend, refused, loadOrder, phase>>

-------------------------------------------------------------------------------
(* End. *)

\* shutdown_all
Stop ==
    /\ phase = "enable" /\ todo = <<>>
    /\ phase' = "disable"
    /\ todo' = Reverse(loadOrder)
    /\ UNCHANGED <<discovered, depend, state, refused, loadOrder>>

\* disable_plugin does nothing unless the plugin is enabled.
Disable(p) ==
    /\ At("disable", p)
    /\ IF state[p] = "enabled"
       THEN \E s \in {"disabled", "errored"} : state' = [state EXCEPT ![p] = s]
       ELSE UNCHANGED state
    /\ UNCHANGED <<discovered, depend, refused, loadOrder, phase>>

\* Mods have a second loop.
Disabled ==
    /\ phase = "disable" /\ todo = <<>>
    /\ phase' = "unload"
    /\ todo' = Reverse(loadOrder)
    /\ UNCHANGED <<discovered, depend, state, refused, loadOrder>>

\* on_unload, which leaves the state as it is when it raises
Unload(p) ==
    /\ At("unload", p)
    /\ \/ state' = [state EXCEPT ![p] = "unloaded"]
       \/ UNCHANGED state
    /\ UNCHANGED <<discovered, depend, refused, loadOrder, phase>>

Next ==
    \/ Discover \/ Loaded \/ Stop \/ Disabled
    \/ \E p \in Id :
          \/ Refuse(p) \/ ImportFails(p) \/ Load(p) \/ Enable(p) \/ Disable(p) \/ Unload(p)

Spec == Init /\ [][Next]_vars

-------------------------------------------------------------------------------
\* p needs q, at once or through others: whatever holds what p needs, and what its
\* members need, holds q.
Depends(p, q) ==
    \A S \in SUBSET Id : depend[p] \subseteq S /\ (\A r \in S : depend[r] \subseteq S) => q \in S

\* An excuse to refuse p: something it needs, itself included, was not found, could
\* not be imported, or needs itself.
Excused(p) ==
    \E q \in Id : /\ q = p \/ Depends(p, q)
                  /\ state[q] = "absent" \/ Depends(q, q)

\* The order keeps two promises at once: an extension that is enabled has every hard
\* dependency enabled, from its on_enable to the end of its on_disable, but for those
\* that have raised; and none is refused whose dependencies could all be had, in
\* whatever order the directory lists them.
DependenciesKept ==
    /\ \A p \in Id : state[p] = "enabled" =>
          \A d \in depend[p] : state[d] \in {"enabled", "errored"}
    /\ \A p \in refused : Excused(p)
===============================================================================
