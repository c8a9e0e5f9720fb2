---------------------------- MODULE MCRawSessions ----------------------------
(* One Host, no capabilities: only its raw sessions matter here.              *)
EXTENDS RawSessions

MCOwner == [id |-> "a", generation |-> 1]
MCEntry == [p \in {"a"} |-> "host:a"]
MCTargetOf == [s \in Session |-> CHOOSE t \in Target : TRUE]
MCKeyOf == [d \in {} |-> d]
=============================================================================
