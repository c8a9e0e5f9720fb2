------------------------------ MODULE MCCoreRpc ------------------------------
(* Model values for the runs of CoreRpc.                                      *)
(* Plugin "a" has a Host entry, plugin "b" a renderer entry.                  *)
EXTENDS CoreRpc, TLC

MCPlugin == {"a", "b"}
MCHostEntry == [p \in MCPlugin |-> IF p = "a" THEN "host:a" ELSE "host:b"]
MCRendererEntry == [p \in MCPlugin |-> p]
MCProvider == {"codlet", "a", "b", "host:a", "host:b"}

MCDescriptor == {"ping", "task", "page"}
MCKeyOf == [d \in MCDescriptor |-> d]

Entry(e, g, provides, requires) ==
    e :> [generation |-> g, provides |-> provides, requires |-> requires]

(* The Host calls into the page.                                              *)
MCManifests == [p \in MCPlugin |->
    IF p = "a" THEN {Entry("host:a", 1, {}, {"page"})}
    ELSE {Entry("b", 1, {"page"}, {"ping"})}]

(* The page and the Host call one another, so that calls nest; the renderer   *)
(* plugin has a newer generation, with or without a capability that Core      *)
(* already provides.                                                          *)
MCCallManifests == [p \in MCPlugin |->
    IF p = "a" THEN {Entry("host:a", 1, {"task"}, {"page"})}
    ELSE {Entry("b", 1, {"page"}, {"task"})}
         \cup {Entry("b", 2, {"page"} \cup d, {}) : d \in {{}, {"ping"}}}]

MCTargetOf == [s \in Session |-> CHOOSE t \in Target : TRUE]
=============================================================================
