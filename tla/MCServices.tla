----------------------------- MODULE MCServices -----------------------------
(* Callback tasks, plugin storage and secrets, the seeds of the installer,    *)
(* the update of the client, and the removal of sources. `part` names the one *)
(* that runs; the others keep their initial state.                            *)
EXTENDS CoreTasks, PluginServices, SeedInstall, OfficialUpdate,
        SourceRemoval, TLC

VARIABLE part

MCPermissionsOf == [v \in Releases |-> IF v = "v1" THEN {"a"} ELSE {"a", "b"}]

MCWithin ==
    [p \in Paths |-> CASE p = "home" -> Paths [] p = "a" -> {"a", "a/b"} [] OTHER -> {p}]

\* Random tokens, waiting threads and the names a plugin gives are interchangeable.
MCSymmetry ==
    Permutations(Runner) \cup Permutations(Task) \cup Permutations(Claim)
      \cup Permutations(Caller)

MCInit ==
    /\ part \in {"tasks", "storage", "seed", "official", "removal"}
    /\ TasksInit
    /\ SvcInit /\ (part # "storage" => store.uses = "storage" /\ \A w \in Windows : win[w] = Window("s1"))
    /\ SeedInit /\ (part # "seed" => seat = Unseated /\ receipt = Nil)
    /\ OffInit /\ (part # "official" => ~bridge.up)
    /\ RemInit /\ (part # "removal" => \A q \in Plugins : registered[q] = Unregistered)

MCNext ==
    \/ part = "tasks" /\ TasksNext /\ UNCHANGED <<part, svcVars, seedVars, offVars, remVars>>
    \/ part = "storage" /\ SvcNext /\ UNCHANGED <<part, tvars, seedVars, offVars, remVars>>
    \/ part = "seed" /\ SeedNext /\ UNCHANGED <<part, tvars, svcVars, offVars, remVars>>
    \/ part = "official" /\ OffNext /\ UNCHANGED <<part, tvars, svcVars, seedVars, remVars>>
    \/ part = "removal" /\ RemNext /\ UNCHANGED <<part, tvars, svcVars, seedVars, offVars>>

MCSpec == MCInit /\ [][MCNext]_<<part, tvars, svcVars, seedVars, offVars, remVars>>
=============================================================================
