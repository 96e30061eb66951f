------------------------------- MODULE MCRemote -------------------------------
\* Model-checking instance of what the server does in other systems: the guests
\* of the hypervisors, and the plugin instances. The two share no variable, so a
\* behaviour is one of either, the other standing still. There is one guest of
\* each kind, a request that lists or writes and one that writes or reads, and
\* two PUT requests of plugin instances at once.
EXTENDS Virtualization, Plugins, TLC

CONSTANTS r1, r2, q, c, v

VARIABLE part

KindValue == q :> "qemu" @@ c :> "lxc" @@ v :> "vm"

OfferedValue ==
    r1 :> {"guests", "vm_snapshots", "vm_off"} @@
    r2 :> {"suspend", "delete_snapshot", "vm_rollback_snapshot", "vm_datastores"}

Symmetry == Permutations(Node) \cup Permutations(Slot) \cup Permutations(Instance)

\* The component that stands still has one initial state, but for a symmetry.
RemoteInit ==
    /\ Init /\ PluginsInit
    /\ \/ part = "guests" /\ key = CHOOSE k \in Key : TRUE
       \/ part = "plugins" /\ \E n \in Node : \A g \in DOMAIN place : place[g] = n

RemoteNext ==
    \/ part = "guests" /\ Next /\ UNCHANGED <<pluginsVars, part>>
    \/ part = "plugins" /\ PluginsNext /\ UNCHANGED <<vars, part>>

RemoteSpec == RemoteInit /\ [][RemoteNext]_<<vars, pluginsVars, part>>
=============================================================================
