------------------------------- MODULE JobLog -------------------------------
(* What the management mailbox promises the callers of a Host: a receipt is   *)
(* accepted for execution at most once, accepted jobs start in the order of   *)
(* acceptance, and a job that was accepted is dropped only with every other   *)
(* outstanding one, when its Host stops or is replaced.                       *)
EXTENDS Sequences

CONSTANTS Ticket

VARIABLES
    outstanding,   \* accepted jobs that have not started, oldest first
    used,          \* receipts ever accepted
    active,        \* jobs that have started and have no result
    done           \* jobs with a result

jvars == <<outstanding, used, active, done>>

Init == outstanding = << >> /\ used = {} /\ active = {} /\ done = {}

Accept(t) ==
    /\ t \notin used
    /\ used' = used \cup {t}
    /\ outstanding' = Append(outstanding, t)
    /\ UNCHANGED <<active, done>>

Start ==
    /\ outstanding # << >>
    /\ active' = active \cup {Head(outstanding)}
    /\ outstanding' = Tail(outstanding)
    /\ UNCHANGED <<used, done>>

Finish(t) ==
    /\ t \in active \ done
    /\ active' = active \ {t}
    /\ done' = done \cup {t}
    /\ UNCHANGED <<outstanding, used>>

(* The Host stops: what is outstanding is dropped, what runs may still end.   *)
(* A replaced Host takes its running jobs with it.                            *)
Abandon ==
    /\ outstanding' = << >>
    /\ active' \in {active, {}}
    /\ UNCHANGED <<used, done>>

Next ==
    \/ \E t \in Ticket : Accept(t) \/ Finish(t)
    \/ Start
    \/ Abandon

Spec == Init /\ [][Next]_jvars
=============================================================================
