------------------------------- MODULE MCLab --------------------------------
(* A run of the lab, the order in which packages are activated, and the       *)
(* discovery of targets. `part` names the one that runs; the others keep      *)
(* their initial state.                                                       *)
EXTENDS LabSession, ActivationOrder, CdpTargets

VARIABLE part

\* A fresh lab run is safe and traced; a resumed one recovers or not.
MCOffered == {o \in LabOptions : o.safe = ~o.resume /\ o.trace = ~o.resume}

NoEdges == [c \in Node |-> {}]

Loopless(S) == {f \in [S -> SUBSET S] : \A c \in S : c \notin f[c]}

Padded(f) == [c \in Node |-> IF c \in DOMAIN f THEN f[c] ELSE {}]

\* Every graph of dependencies on three entries with a requirement besides,
\* every graph of requirements on four, and the declarations that cannot be
\* resolved because an entry is not registered.
MCGraph ==
    {[registered |-> Node, dependencies |-> NoEdges, requires |-> f] : f \in Loopless(Node)}
    \cup {[registered |-> 1 .. 3, dependencies |-> Padded(f), requires |-> Padded(h)] :
             f \in Loopless(1 .. 3), h \in Loopless(1 .. 3)}
    \cup {[registered |-> 1 .. 2, dependencies |-> Padded(f), requires |-> Padded(h)] :
             f \in [1 .. 2 -> SUBSET (1 .. 3)], h \in [1 .. 2 -> SUBSET (1 .. 3)]}

MCInit ==
    /\ part \in {"lab", "order", "targets"}
    /\ LabInit
    /\ OrderInit /\ (part # "order" => g = [registered |-> 1 .. 2, dependencies |-> NoEdges, requires |-> NoEdges])
    /\ TgtInit /\ (part # "targets" => \A q \in Pages : web.page[q] = "absent")

MCNext ==
    \/ part = "lab" /\ LabNext /\ UNCHANGED <<part, ovars, tgtVars>>
    \/ part = "order" /\ OrderNext /\ UNCHANGED <<part, labVars, tgtVars>>
    \/ part = "targets" /\ TgtNext /\ UNCHANGED <<part, labVars, ovars>>

MCSpec == MCInit /\ [][MCNext]_<<part, labVars, ovars, tgtVars>>
=============================================================================
