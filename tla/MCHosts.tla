------------------------------ MODULE MCHosts -------------------------------
(* The parts that own the Host of a plugin: the supervisor of one child, the  *)
(* owners of all Hosts, the registry of plugins, the plan of a package        *)
(* command, the watcher of sources, and the event logs that Hosts publish to. *)
(* `part` names the one that runs; the others keep their initial state.       *)
EXTENDS HostSupervisor, HostLifecycle, PluginRegistryFile, PackageControl,
        SourceWatch, CoreEvents, TLC

VARIABLE part

\* The page of "b" uses the Host of "a".
MCDependsOn == [p \in Packages |-> IF p = "b" THEN {"a"} ELSE {}]
MCSources == <<"a", "b">>
MCUses == [i \in {"a", "b"} |-> IF i = "b" THEN {"a"} ELSE {}]

\* Topic tokens and subscription tokens are random.
HostsSymmetry == Permutations(Topic) \cup Permutations(Subscription)

HostsInit ==
    /\ part \in {"supervisor", "lifecycle", "registry", "packages", "watch", "events"}
    /\ SupInit
    /\ LifeInit
    /\ RegInit /\ (part # "registry" => \A x \in Dirs : dirs[x].id = Gui)
    /\ PkgInit
    /\ WatchInit
    /\ EventsInit

HostsNext ==
    \/ part = "supervisor" /\ SupNext /\ UNCHANGED <<part, lifeVars, regVars, pkgVars, watchVars, evars>>
    \/ part = "lifecycle" /\ LifeNext /\ UNCHANGED <<part, supVars, regVars, pkgVars, watchVars, evars>>
    \/ part = "registry" /\ RegNext /\ UNCHANGED <<part, supVars, lifeVars, pkgVars, watchVars, evars>>
    \/ part = "packages" /\ PkgNext /\ UNCHANGED <<part, supVars, lifeVars, regVars, watchVars, evars>>
    \/ part = "watch" /\ WatchNext /\ UNCHANGED <<part, supVars, lifeVars, regVars, pkgVars, evars>>
    \/ part = "events" /\ EventsNext /\ UNCHANGED <<part, supVars, lifeVars, regVars, pkgVars, watchVars>>

HostsSpec ==
    HostsInit /\ [][HostsNext]_<<part, supVars, lifeVars, regVars, pkgVars, watchVars, evars>>
=============================================================================
