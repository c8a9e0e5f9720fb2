----------------------------- MODULE MCInstall ------------------------------
(* The parts that install and update plugins, the broker their jobs queue in, *)
(* and, beside them, the traffic hub and the child processes of plugins.      *)
(* `part` names the one that runs; the others keep their initial state.       *)
EXTENDS ControlBroker, ManagedInstall, PluginUpdates, TrafficHub,
        PluginProcesses, TLC

VARIABLE part

\* The last release asks for a permission that the registered one did not have.
MCAsks == [v \in 1 .. MaxVersion |-> IF v = MaxVersion THEN Perms ELSE {}]
MCContract == [v \in 1 .. MaxVersion |-> 1]

\* Callers of plugin processes are interchangeable.
CallerSymmetry == Permutations(Callers)

MCInit ==
    /\ part \in {"broker", "install", "updates", "traffic", "processes"}
    /\ Init
    /\ InstallInit /\ (part # "install" => reg = Unregistered)
    /\ UpdInit /\ (part # "updates" => \A i \in Ids : registry[i].kind = "seed")
    /\ HubInit
    /\ ProcInit

MCNext ==
    \/ part = "broker" /\ Next /\ UNCHANGED <<part, ivars, updVars, hubVars, procVars>>
    \/ part = "install" /\ InstallNext /\ UNCHANGED <<part, bvars, updVars, hubVars, procVars>>
    \/ part = "updates" /\ UpdNext /\ UNCHANGED <<part, bvars, ivars, hubVars, procVars>>
    \/ part = "traffic" /\ HubNext /\ UNCHANGED <<part, bvars, ivars, updVars, procVars>>
    \/ part = "processes" /\ ProcNext /\ UNCHANGED <<part, bvars, ivars, updVars, hubVars>>

MCSpec ==
    MCInit /\ [][MCNext]_<<part, bvars, ivars, updVars, hubVars, procVars>>
=============================================================================
