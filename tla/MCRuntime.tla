----------------------------- MODULE MCRuntime ------------------------------
(* The parts of a running core: capability leases, the Core services, the     *)
(* start of the client, the renderer realms, the connection to the client,    *)
(* the update of the program, and the provision of the interpreter. `part`    *)
(* names the one that runs; the others keep their initial state.              *)
EXTENDS CapabilityLeases, CoreServices, ClientLaunch, RendererRuntime, CdpConnection, RuntimeUpdate, JsProvision, TLC

VARIABLE part

\* Two entries, a Runtime and a Target capability, one with two api versions.
MCDescriptor == {"ping1", "ping2", "page1"}
MCKey == {"ping", "page"}
MCKeyOf == [d \in MCDescriptor |-> IF d = "page1" THEN "page" ELSE "ping"]

MCTargets == <<"t1", "t2">>
MCOrder == <<"p", "q">>
MCRequires == [p |-> {}, q |-> {"p"}]

\* One core accepts either release of the interpreter, the other only the older.
MCCandidates == [p \in Cores |-> IF p = "p" THEN <<"x", "y">> ELSE <<"x">>]


MCFiles == {"exe", "node"}
MCFileOrder == <<"exe", "node">>

\* Entries that provide, launchers, the tasks that close a connection, and the
\* names of directories are interchangeable.
MCSymmetry == Permutations(Provider)

MCInit ==
    /\ part \in {"leases", "services", "launch", "renderer", "connection", "update", "provision"}
    /\ Init
    /\ SvcInit
    /\ LaunchInit /\ (part # "launch" => ~win.shared)
    /\ RendInit
    /\ ConnInit
    /\ UpdInit
    /\ JsInit

MCNext ==
    \/ part = "leases" /\ Next /\ UNCHANGED <<part, svcVars, launchVars, rendVars, connVars, updVars, jsVars>>
    \/ part = "services" /\ SvcNext /\ UNCHANGED <<part, rvars, launchVars, rendVars, connVars, updVars, jsVars>>
    \/ part = "launch" /\ LaunchNext /\ UNCHANGED <<part, rvars, svcVars, rendVars, connVars, updVars, jsVars>>
    \/ part = "renderer" /\ RendNext /\ UNCHANGED <<part, rvars, svcVars, launchVars, connVars, updVars, jsVars>>
    \/ part = "connection" /\ ConnNext /\ UNCHANGED <<part, rvars, svcVars, launchVars, rendVars, updVars, jsVars>>
    \/ part = "update" /\ UpdNext /\ UNCHANGED <<part, rvars, svcVars, launchVars, rendVars, connVars, jsVars>>
    \/ part = "provision" /\ JsNext /\ UNCHANGED <<part, rvars, svcVars, launchVars, rendVars, connVars, updVars>>

MCSpec == MCInit /\ [][MCNext]_<<part, rvars, svcVars, launchVars, rendVars, connVars, updVars, jsVars>>
=============================================================================
