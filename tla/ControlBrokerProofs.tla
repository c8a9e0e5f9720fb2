------------------------ MODULE ControlBrokerProofs ------------------------
(* What TLC checks of ControlBroker and ControlPlane on small tables, proved   *)
(* for every table size, mailbox bound, ticket range, request set and number  *)
(* of Hosts, clients and plugins.                                             *)
(* The last part is about RuntimeUpdate: a lock is held by the one helper that *)
(* may change the installation, which knows where each file is, and only the  *)
(* last acknowledged job can still change what its receipt speaks of.         *)
EXTENDS ControlPlane, RuntimeUpdate, FiniteSetTheorems, SequenceTheorems, WellFoundedInduction, TLAPS

-----------------------------------------------------------------------------
(* The strengthening of AtMostOnce that every step preserves: a receipt the   *)
(* mailbox could still queue was never accepted, and one it could still start *)
(* has never run.                                                             *)
Unissued == \A id \in Id : id > last_ticket => records[id] = Absent

FutureUntouched ==
    \A t \in Ticket :
        (t[1] > incarnation \/ (t[1] = incarnation /\ t[2] > last_ticket))
            => t \notin accepted

PreparedIsFresh ==
    \A id \in Id : records[id].status = "Prepared" => <<incarnation, id>> \notin accepted

OnlyAcceptedRan == \A t \in Ticket : t \notin accepted => runs[t] = 0

QueuedHasNotRun ==
    \A id \in Id : records[id].status = "Queued" => runs[<<incarnation, id>>] = 0

QueuedAccepted ==
    \A id \in Id : records[id].status = "Queued" => <<incarnation, id>> \in accepted

RunningHasRun ==
    \A id \in Id : records[id].status = "Running" =>
        runs[<<incarnation, id>>] > 0 /\ <<incarnation, id>> \notin finished

OnlyRunFinished == \A t \in Ticket : runs[t] = 0 => t \notin finished

Fresh ==
    /\ FutureUntouched
    /\ PreparedIsFresh
    /\ OnlyAcceptedRan
    /\ QueuedAccepted
    /\ QueuedHasNotRun
    /\ RunningHasRun
    /\ OnlyRunFinished
    /\ AtMostOnce

IInv ==
    /\ TypeOK
    /\ QueueExact
    /\ RecoveryOnly
    /\ Unissued
    /\ Fresh

-----------------------------------------------------------------------------
(* The oldest removable receipt exists: eviction picks one of the settled     *)
(* receipts.                                                                  *)
LEMMA MinInSet ==
    ASSUME NEW S \in SUBSET Nat, S # {}
    PROVE  Min(S) \in S
<1> DEFINE R == {p \in Nat \X Nat : p[1] < p[2]}
<1>1. IsWellFoundedOn(R, Nat)
  BY NatLessThanWellFounded DEF OpToRel
<1>2. PICK x \in S : \A y \in S : ~(<<y, x>> \in R)
  <2> HIDE DEF R
  <2> QED BY <1>1, WFMin
<1>3. ASSUME NEW y \in S PROVE x =< y
  <2>1. ~(<<y, x>> \in R)
    <3> HIDE DEF R
    <3> QED BY <1>2
  <2>2. x \in Nat /\ y \in Nat
    OBVIOUS
  <2>3. <<y, x>> \in Nat \X Nat
    BY <2>2
  <2>4. ~(y < x)
    BY <2>1, <2>3
  <2> QED
    BY <2>2, <2>4
<1> QED
  BY <1>3 DEF Min

(* A record is never the absent one.                                          *)
LEMMA AbsentIsNoRecord ==
    ASSUME NEW r \in Record \cup {Absent}
    PROVE  /\ r = Absent <=> r.status = "Absent"
           /\ r.status \in ControlStatus \cup {"Absent"}
  BY DEF Absent, Record, ControlStatus

(* Eviction removes only settled receipts and changes no other.               *)
LEMMA EvictSettled ==
    ASSUME TypeOK, TableFull => Removable # {}
    PROVE  /\ Evict(records) \in [Id -> Record \cup {Absent}]
           /\ \A id \in Id : \/ Evict(records)[id] = records[id]
                             \/ /\ Evict(records)[id] = Absent
                                /\ records[id].status \in {"Prepared", "Completed"}
<1>1. CASE ~TableFull
  BY <1>1 DEF Evict, TypeOK
<1>2. CASE TableFull
  <2>1. Removable \in SUBSET Nat /\ Removable # {}
    BY <1>2, ControlConstants DEF Removable, Id
  <2>2. Min(Removable) \in Removable
    BY <2>1, MinInSet
  <2> HIDE DEF Removable
  <2>3. Min(Removable) \in Id /\ records[Min(Removable)].status \in {"Prepared", "Completed"}
    BY <2>2 DEF Removable
  <2> QED
    BY <1>2, <2>3 DEF Evict, TypeOK
<1> QED
  BY <1>1, <1>2

-----------------------------------------------------------------------------
(* Every variable keeps its type.                                             *)
LEMMA TypeStep ==
    ASSUME TypeOK, QueueExact, [Next]_bvars
    PROVE  TypeOK'
<1> USE ControlConstants
<1>1. CASE Restart
  <2>1. records' \in [Id -> Record \cup {Absent}]
    BY <1>1 DEF Restart, NoRecords
  <2>2. incarnation' \in 1 .. Incarnations /\ last_ticket' \in 0 .. MAX_TICKET
    BY <1>1 DEF Restart, NextIncarnation, TypeOK
  <2>3. queue' \in Seq(Id)
    BY <1>1 DEF Restart
  <2> QED
    BY <1>1, <2>1, <2>2, <2>3 DEF Restart, TypeOK
<1>2. CASE RestrictToRecovery
  BY <1>2 DEF RestrictToRecovery, TypeOK
<1>3. CASE SetReady
  BY <1>3 DEF SetReady, TypeOK
<1>4. CASE Stop
  BY <1>4 DEF Stop, TypeOK
<1>5. ASSUME NEW request \in Request, Prepare(request)
      PROVE  TypeOK'
  <2>1. Evict(records) \in [Id -> Record \cup {Absent}]
    BY <1>5, EvictSettled DEF Prepare, TicketsExhausted, Admits
  <2>2. [request |-> request, status |-> "Prepared", completion |-> "None"] \in Record
    BY DEF Record, ControlStatus
  <2>3. last_ticket' \in 0 .. MAX_TICKET
    BY <1>5 DEF Prepare, TicketsExhausted, NextTicket, TypeOK
  <2>4. records' \in [Id -> Record \cup {Absent}]
    BY <1>5, <2>1, <2>2 DEF Prepare, TicketsExhausted
  <2> QED
    BY <1>5, <2>3, <2>4 DEF Prepare, TicketsExhausted, TypeOK
<1>6. ASSUME NEW t \in Ticket, Submit(t)
      PROVE  TypeOK'
  <2>1. t[2] \in Id /\ records[t[2]] \in Record
    BY <1>6 DEF Submit, Accepts, Submittable, Ticket, TypeOK, Absent
  <2>2. [records[t[2]] EXCEPT !.status = "Queued"] \in Record
    BY <2>1 DEF Record, ControlStatus
  <2>3. records' \in [Id -> Record \cup {Absent}]
    BY <1>6, <2>1, <2>2 DEF Submit, TypeOK
  <2>4. queue' \in Seq(Id)
    BY <1>6, <2>1 DEF Submit, TypeOK
  <2>5. accepted' \subseteq Ticket
    BY <1>6, <2>1 DEF Submit, TypeOK, Ticket
  <2> QED
    BY <1>6, <2>3, <2>4, <2>5 DEF Submit, TypeOK
<1>7. CASE TakeNext
  <2>1. Head(queue) \in Id /\ queue' \in Seq(Id)
    BY <1>7 DEF TakeNext, TypeOK
  <2>2. records[Head(queue)] \in Record
    BY SMTT(30), <1>7, <2>1 DEF TakeNext, QueueExact, TypeOK, Absent
  <2>3. [records[Head(queue)] EXCEPT !.status = "Running"] \in Record
    BY <2>2 DEF Record, ControlStatus
  <2>4. records' \in [Id -> Record \cup {Absent}]
    BY <1>7, <2>1, <2>3 DEF TakeNext, TypeOK
  <2>5. runs' \in [Ticket -> Nat]
    BY <1>7, <2>1 DEF TakeNext, TypeOK, Ticket
  <2> QED
    BY <1>7, <2>1, <2>4, <2>5 DEF TakeNext, TypeOK
<1>8. ASSUME NEW t \in Ticket, NEW result \in LifecycleResult, Complete(t, result)
      PROVE  TypeOK'
  <2>1. t[2] \in Id /\ records[t[2]] \in Record
    BY <1>8 DEF Complete, Ticket, TypeOK, Absent
  <2>2. [records[t[2]] EXCEPT !.status = "Completed", !.completion = Completion(result)] \in Record
    BY <2>1 DEF Record, ControlStatus, Completion
  <2>3. records' \in [Id -> Record \cup {Absent}]
    BY <1>8, <2>1, <2>2 DEF Complete, TypeOK
  <2> QED
    BY <1>8, <2>3 DEF Complete, TypeOK
<1>9. CASE UNCHANGED bvars
  BY <1>9 DEF bvars, TypeOK
<1> QED
  BY <1>1, <1>2, <1>3, <1>4, <1>5, <1>6, <1>7, <1>8, <1>9 DEF Next

-----------------------------------------------------------------------------
(* The statuses of the other records never change in a step, except that a    *)
(* settled receipt may be evicted by Prepare.                                 *)
LEMMA PrepareTouches ==
    ASSUME TypeOK, Unissued, NEW request \in Request, Prepare(request)
    PROVE  \A id \in Id :
              \/ records'[id] = records[id]
              \/ /\ records'[id] = Absent
                 /\ records[id].status \in {"Prepared", "Completed"}
              \/ /\ id = last_ticket + 1
                 /\ last_ticket' = last_ticket + 1
                 /\ records'[id].status = "Prepared"
                 /\ records'[id].request = request
                 /\ records[id] = Absent
<1> USE ControlConstants
<1>1. TableFull => Removable # {}
  BY DEF Prepare, TicketsExhausted, Admits
<1>2. Evict(records) \in [Id -> Record \cup {Absent}]
  BY <1>1, EvictSettled
<1>3. ASSUME NEW id \in Id
      PROVE  \/ Evict(records)[id] = records[id]
             \/ /\ Evict(records)[id] = Absent
                /\ records[id].status \in {"Prepared", "Completed"}
  BY <1>1, EvictSettled
<1>4. CASE last_ticket = MAX_TICKET
  BY <1>3, <1>4 DEF Prepare, TicketsExhausted
<1>5. CASE last_ticket # MAX_TICKET
  <2>1. last_ticket + 1 \in Id /\ last_ticket' = last_ticket + 1
    BY <1>5 DEF Prepare, TicketsExhausted, TypeOK, Id, NextTicket
  <2>2. records[last_ticket + 1] = Absent
    BY <2>1 DEF Unissued, TypeOK
  <2>3. records' = [Evict(records) EXCEPT ![last_ticket + 1] =
            [request |-> request, status |-> "Prepared", completion |-> "None"]]
    BY <1>5 DEF Prepare, TicketsExhausted, NextTicket
  <2> QED
    BY <1>2, <1>3, <2>1, <2>2, <2>3
<1> QED
  BY <1>4, <1>5

(* The queue keeps holding exactly the queued receipts.                       *)
LEMMA QueueStep ==
    ASSUME TypeOK, QueueExact, Unissued, [Next]_bvars
    PROVE  QueueExact'
<1> USE ControlConstants
<1>1. CASE Restart
  BY <1>1 DEF Restart, NoRecords, Absent, QueueExact, Queued
<1>2. CASE RestrictToRecovery
  BY <1>2 DEF RestrictToRecovery, QueueExact, Queued
<1>3. CASE SetReady
  BY <1>3 DEF SetReady, QueueExact, Queued
<1>4. CASE Stop
  BY <1>4 DEF Stop, QueueExact, Queued
<1>5. ASSUME NEW request \in Request, Prepare(request)
      PROVE  QueueExact'
  <2>1. \A id \in Id : records'[id].status = "Queued" <=> records[id].status = "Queued"
    BY <1>5, PrepareTouches DEF Absent
  <2>2. queue' = queue /\ stopped' = stopped
    BY <1>5 DEF Prepare, TicketsExhausted
  <2>3. \A i \in 1 .. Len(queue) : queue[i] \in Id
    BY DEF TypeOK
  <2> QED
    BY <2>1, <2>2, <2>3 DEF QueueExact, Queued
<1>6. ASSUME NEW t \in Ticket, Submit(t)
      PROVE  QueueExact'
  <2>1. t[2] \in Id /\ records[t[2]].status = "Prepared"
    BY <1>6 DEF Submit, Accepts, Submittable, Ticket
  <2>2. \A id \in Id : records'[id].status = IF id = t[2] THEN "Queued" ELSE records[id].status
    BY <1>6, <2>1 DEF Submit, TypeOK
  <2>3. /\ Len(queue') = Len(queue) + 1
        /\ queue'[Len(queue) + 1] = t[2]
        /\ \A i \in 1 .. Len(queue) : queue'[i] = queue[i] /\ queue[i] \in Id
        /\ stopped' = stopped /\ ~stopped
        /\ Len(queue) \in Nat
    BY <1>6, <2>1 DEF Submit, Accepts, TypeOK
  <2>4. \A i \in 1 .. Len(queue) : queue[i] # t[2]
    BY <2>1 DEF QueueExact
  <2>5. \A i, j \in 1 .. Len(queue') : queue'[i] = queue'[j] => i = j
    BY <2>3, <2>4 DEF QueueExact
  <2>6. \A i \in 1 .. Len(queue') : records'[queue'[i]].status = "Queued"
    BY <2>1, <2>2, <2>3 DEF QueueExact
  <2>7. \A id \in Queued' : \E i \in 1 .. Len(queue') : queue'[i] = id
    <3> SUFFICES ASSUME NEW id \in Id, records'[id].status = "Queued"
                 PROVE  \E i \in 1 .. Len(queue') : queue'[i] = id
      BY DEF Queued
    <3>1. CASE id = t[2]
      BY <2>3, <3>1
    <3>2. CASE id # t[2]
      <4>1. PICK i \in 1 .. Len(queue) : queue[i] = id
        BY <2>2, <2>3, <3>2 DEF QueueExact, Queued
      <4> QED
        BY <2>3, <4>1
    <3> QED
      BY <3>1, <3>2
  <2> QED
    BY <2>3, <2>5, <2>6, <2>7 DEF QueueExact
<1>7. CASE TakeNext
  <2>1. Head(queue) = queue[1] /\ Head(queue) \in Id /\ Len(queue) \in Nat \ {0}
    BY <1>7 DEF TakeNext, TypeOK
  <2>2. \A id \in Id : records'[id].status = IF id = queue[1] THEN "Running" ELSE records[id].status
    BY <1>7, <2>1 DEF TakeNext, TypeOK
  <2>3. /\ Len(queue') = Len(queue) - 1
        /\ \A i \in 1 .. Len(queue) - 1 : queue'[i] = queue[i + 1]
        /\ \A i \in 1 .. Len(queue) : queue[i] \in Id
        /\ stopped' = stopped /\ ~stopped
    BY <1>7, <2>1 DEF TakeNext, TypeOK
  <2>4. \A i, j \in 1 .. Len(queue') : queue'[i] = queue'[j] => i = j
    BY <2>1, <2>3 DEF QueueExact
  <2>5. \A i \in 1 .. Len(queue') : records'[queue'[i]].status = "Queued"
    <3> SUFFICES ASSUME NEW i \in 1 .. Len(queue) - 1
                 PROVE  records'[queue[i + 1]].status = "Queued"
      BY <2>3
    <3>1. i + 1 \in 1 .. Len(queue) /\ i + 1 # 1 /\ 1 \in 1 .. Len(queue)
      BY <2>1
    <3>2. queue[i + 1] # queue[1] /\ records[queue[i + 1]].status = "Queued"
      BY <3>1 DEF QueueExact
    <3> QED
      BY <2>2, <2>3, <3>1, <3>2
  <2>6. \A id \in Queued' : \E i \in 1 .. Len(queue') : queue'[i] = id
    <3> SUFFICES ASSUME NEW id \in Id, records'[id].status = "Queued"
                 PROVE  \E i \in 1 .. Len(queue') : queue'[i] = id
      BY DEF Queued
    <3>1. id # queue[1] /\ records[id].status = "Queued"
      BY <2>2
    <3>2. PICK i \in 1 .. Len(queue) : queue[i] = id
      BY <2>3, <3>1 DEF QueueExact, Queued
    <3>3. i - 1 \in 1 .. Len(queue') /\ queue'[i - 1] = queue[i]
      <4>1. i \in Int /\ i # 1 /\ i - 1 \in 1 .. Len(queue) - 1
        BY <2>1, <3>1, <3>2
      <4> QED
        BY <2>3, <4>1
    <3> QED
      BY <3>2, <3>3
  <2> QED
    BY <2>3, <2>4, <2>5, <2>6 DEF QueueExact
<1>8. ASSUME NEW t \in Ticket, NEW result \in LifecycleResult, Complete(t, result)
      PROVE  QueueExact'
  <2>1. t[2] \in Id /\ records[t[2]].status = "Running"
    BY <1>8 DEF Complete, Ticket
  <2>2. \A id \in Id : records'[id].status = IF id = t[2] THEN "Completed" ELSE records[id].status
    BY <1>8, <2>1 DEF Complete, TypeOK
  <2>3. \A id \in Id : records'[id].status = "Queued" <=> records[id].status = "Queued"
    BY <2>1, <2>2
  <2>4. queue' = queue /\ stopped' = stopped /\ \A i \in 1 .. Len(queue) : queue[i] \in Id
    BY <1>8 DEF Complete, TypeOK
  <2> QED
    BY <2>3, <2>4 DEF QueueExact, Queued
<1>9. CASE UNCHANGED bvars
  BY <1>9 DEF bvars, QueueExact, Queued
<1> QED
  BY <1>1, <1>2, <1>3, <1>4, <1>5, <1>6, <1>7, <1>8, <1>9 DEF Next

-----------------------------------------------------------------------------
(* Receipts beyond the last ticket stay absent.                               *)
LEMMA UnissuedStep ==
    ASSUME TypeOK, QueueExact, Unissued, [Next]_bvars
    PROVE  Unissued'
<1> USE ControlConstants
<1>1. CASE Restart
  BY <1>1 DEF Restart, NoRecords, Unissued
<1>2. CASE RestrictToRecovery \/ SetReady \/ Stop \/ UNCHANGED bvars
  BY <1>2 DEF RestrictToRecovery, SetReady, Stop, bvars, Unissued
<1>3. ASSUME NEW request \in Request, Prepare(request)
      PROVE  Unissued'
  <2>1. last_ticket' \in {last_ticket, last_ticket + 1} /\ last_ticket \in Nat
    BY <1>3 DEF Prepare, TicketsExhausted, NextTicket, TypeOK
  <2> SUFFICES ASSUME NEW id \in Id, id > last_ticket'
               PROVE  records'[id] = Absent
    BY DEF Unissued
  <2>2. id > last_ticket /\ records[id] = Absent
    BY <2>1 DEF Unissued, Id
  <2>3. ~(id = last_ticket + 1 /\ last_ticket' = last_ticket + 1)
    BY <2>1 DEF Id
  <2> QED
    BY <1>3, <2>2, <2>3, PrepareTouches
<1>4. ASSUME NEW t \in Ticket, Submit(t)
      PROVE  Unissued'
  <2>1. t[2] \in Id /\ ~(t[2] > last_ticket) /\ last_ticket' = last_ticket
    BY <1>4 DEF Submit, Accepts, Resolves, Ticket, TypeOK, Id
  <2> QED
    BY <1>4, <2>1 DEF Submit, Unissued, TypeOK
<1>5. CASE TakeNext
  <2>1. Head(queue) \in Id /\ records[Head(queue)].status = "Queued" /\ last_ticket' = last_ticket
    BY <1>5 DEF TakeNext, TypeOK, QueueExact
  <2>2. ~(Head(queue) > last_ticket)
    BY <2>1 DEF Unissued, Absent
  <2> QED
    BY <1>5, <2>1, <2>2 DEF TakeNext, Unissued, TypeOK
<1>6. ASSUME NEW t \in Ticket, NEW result \in LifecycleResult, Complete(t, result)
      PROVE  Unissued'
  <2>1. t[2] \in Id /\ ~(t[2] > last_ticket) /\ last_ticket' = last_ticket
    BY <1>6 DEF Complete, Resolves, Ticket, TypeOK, Id
  <2> QED
    BY <1>6, <2>1 DEF Complete, Unissued, TypeOK
<1> QED
  BY <1>1, <1>2, <1>3, <1>4, <1>5, <1>6 DEF Next

(* A safe-mode table stays free of activating requests.                       *)
LEMMA RecoveryStep ==
    ASSUME TypeOK, QueueExact, Unissued, RecoveryOnly, [Next]_bvars
    PROVE  RecoveryOnly'
<1> USE ControlConstants
<1> SUFFICES ASSUME recovery_only', NEW id \in Id, records'[id] # Absent
             PROVE  records'[id].request \in RecoveryRequest
  BY DEF RecoveryOnly, Retained
<1>1. CASE Restart
  BY <1>1 DEF Restart, NoRecords
<1>2. CASE RestrictToRecovery
  BY <1>2 DEF RestrictToRecovery, Retained
<1>3. CASE SetReady \/ Stop \/ UNCHANGED bvars
  BY <1>3 DEF SetReady, Stop, bvars, RecoveryOnly, Retained
<1>4. ASSUME NEW request \in Request, Prepare(request)
      PROVE  records'[id].request \in RecoveryRequest
  <2>1. recovery_only /\ request \in RecoveryRequest
    BY <1>4 DEF Prepare, TicketsExhausted, Admits, SafeModeAdmits
  <2>2. records'[id] = records[id] \/ records'[id].request = request
    BY <1>4, PrepareTouches
  <2> QED
    BY <2>1, <2>2 DEF RecoveryOnly, Retained
<1>5. ASSUME NEW t \in Ticket, Submit(t)
      PROVE  records'[id].request \in RecoveryRequest
  <2>1. recovery_only /\ t[2] \in Id /\ records[t[2]] # Absent
    BY <1>5 DEF Submit, Accepts, Resolves, Ticket
  <2>2. records'[id].request = records[id].request /\ records[id] # Absent
    BY <1>5, <2>1 DEF Submit, TypeOK, Record, Absent
  <2> QED
    BY <2>1, <2>2 DEF RecoveryOnly, Retained
<1>6. CASE TakeNext
  <2>1. recovery_only /\ Head(queue) \in Id /\ records[Head(queue)].status = "Queued"
    BY <1>6 DEF TakeNext, TypeOK, QueueExact
  <2>2. records'[id].request = records[id].request /\ records[id] # Absent
    BY <1>6, <2>1 DEF TakeNext, TypeOK, Record, Absent
  <2> QED
    BY <2>1, <2>2 DEF RecoveryOnly, Retained
<1>7. ASSUME NEW t \in Ticket, NEW result \in LifecycleResult, Complete(t, result)
      PROVE  records'[id].request \in RecoveryRequest
  <2>1. recovery_only /\ t[2] \in Id /\ records[t[2]] # Absent
    BY <1>7 DEF Complete, Resolves, Ticket
  <2>2. records'[id].request = records[id].request /\ records[id] # Absent
    BY <1>7, <2>1 DEF Complete, TypeOK, Record, Absent
  <2> QED
    BY <2>1, <2>2 DEF RecoveryOnly, Retained
<1> QED
  BY <1>1, <1>2, <1>3, <1>4, <1>5, <1>6, <1>7 DEF Next

-----------------------------------------------------------------------------
(* The histories agree with the statuses: what can still be queued was never  *)
(* accepted, what can still start has never run.                              *)
LEMMA FreshStep ==
    ASSUME IInv, [Next]_bvars
    PROVE  Fresh'
<1> USE ControlConstants
<1> SUFFICES ASSUME TypeOK, QueueExact, Unissued, Fresh
             PROVE  Fresh'
  BY DEF IInv
<1>0. \A id \in Id : <<incarnation, id>> \in Ticket
  BY DEF Ticket, TypeOK
<1>1. CASE Restart
  <2>1. \A id \in Id : records'[id].status = "Absent"
    BY <1>1 DEF Restart, NoRecords, Absent
  <2>2. FutureUntouched'
    <3>1. incarnation' = incarnation + 1 /\ accepted' = accepted
      BY <1>1 DEF Restart, NextIncarnation
    <3> SUFFICES ASSUME NEW t \in Ticket,
                        t[1] > incarnation' \/ (t[1] = incarnation' /\ t[2] > last_ticket')
                 PROVE  t \notin accepted
      BY <3>1 DEF FutureUntouched
    <3>2. t[1] > incarnation
      BY <3>1 DEF Ticket, TypeOK
    <3> QED
      BY <3>2 DEF Fresh, FutureUntouched
  <2> QED
    BY <1>1, <2>1, <2>2 DEF Restart, Fresh, PreparedIsFresh, OnlyAcceptedRan,
         QueuedAccepted, QueuedHasNotRun, RunningHasRun, OnlyRunFinished, AtMostOnce
<1>2. CASE RestrictToRecovery \/ SetReady \/ Stop \/ UNCHANGED bvars
  BY <1>2 DEF RestrictToRecovery, SetReady, Stop, bvars, Fresh, FutureUntouched,
       PreparedIsFresh, OnlyAcceptedRan, QueuedAccepted, QueuedHasNotRun, RunningHasRun,
       OnlyRunFinished, AtMostOnce
<1>3. ASSUME NEW request \in Request, Prepare(request)
      PROVE  Fresh'
  <2>1. UNCHANGED <<incarnation, accepted, runs, finished>>
    BY <1>3 DEF Prepare, TicketsExhausted
  <2>2. last_ticket' \in {last_ticket, last_ticket + 1} /\ last_ticket \in Nat
    BY <1>3 DEF Prepare, TicketsExhausted, NextTicket, TypeOK
  <2>3. FutureUntouched'
    <3> SUFFICES ASSUME NEW t \in Ticket,
                        t[1] > incarnation \/ (t[1] = incarnation /\ t[2] > last_ticket')
                 PROVE  t \notin accepted
      BY <2>1 DEF FutureUntouched
    <3>1. t[1] > incarnation \/ (t[1] = incarnation /\ t[2] > last_ticket)
      BY <2>2 DEF Ticket, Id
    <3> QED
      BY <3>1 DEF Fresh, FutureUntouched
  <2>4. PreparedIsFresh'
    <3> SUFFICES ASSUME NEW id \in Id, records'[id].status = "Prepared"
                 PROVE  <<incarnation, id>> \notin accepted
      BY <2>1 DEF PreparedIsFresh
    <3>1. records[id].status = "Prepared" \/ id = last_ticket + 1
      BY <1>3, PrepareTouches DEF Absent
    <3>2. CASE id = last_ticket + 1
      BY <1>0, <2>2, <3>2 DEF Fresh, FutureUntouched
    <3> QED
      BY <3>1, <3>2 DEF Fresh, PreparedIsFresh
  <2>5. \A id \in Id : records'[id].status \in {"Queued", "Running"}
            => records'[id].status = records[id].status
    BY <1>3, PrepareTouches DEF Absent
  <2> QED
    BY <2>1, <2>3, <2>4, <2>5 DEF Fresh, OnlyAcceptedRan, QueuedAccepted,
         QueuedHasNotRun, RunningHasRun, OnlyRunFinished, AtMostOnce
<1>4. ASSUME NEW t \in Ticket, Submit(t)
      PROVE  Fresh'
  <2> DEFINE now == <<incarnation, t[2]>>
  <2>1. /\ t[2] \in Id /\ now \in Ticket /\ t[2] <= last_ticket
        /\ records[t[2]].status = "Prepared" /\ now \notin accepted
    BY <1>0, <1>4 DEF Submit, Accepts, Resolves, Submittable, Ticket, Fresh, PreparedIsFresh
  <2>2. /\ UNCHANGED <<incarnation, last_ticket, runs, finished>>
        /\ accepted' = accepted \cup {now}
    BY <1>4 DEF Submit
  <2>3. \A id \in Id : records'[id].status = IF id = t[2] THEN "Queued" ELSE records[id].status
    BY <1>4, <2>1 DEF Submit, TypeOK
  <2>4. FutureUntouched'
    BY <2>1, <2>2 DEF Fresh, FutureUntouched, Id, TypeOK
  <2>5. PreparedIsFresh' /\ OnlyAcceptedRan'
    BY <2>1, <2>2, <2>3 DEF Fresh, PreparedIsFresh, OnlyAcceptedRan
  <2>6. QueuedHasNotRun' /\ QueuedAccepted'
    BY <2>1, <2>2, <2>3 DEF Fresh, QueuedHasNotRun, QueuedAccepted, OnlyAcceptedRan
  <2>7. RunningHasRun' /\ OnlyRunFinished' /\ AtMostOnce'
    BY <2>2, <2>3 DEF Fresh, RunningHasRun, OnlyRunFinished, AtMostOnce
  <2> QED
    BY <2>4, <2>5, <2>6, <2>7 DEF Fresh
<1>5. CASE TakeNext
  <2> DEFINE id0 == Head(queue)
             now == <<incarnation, id0>>
  <2>0. id0 = queue[1] /\ id0 \in Id /\ 1 \in 1 .. Len(queue)
    BY <1>5 DEF TakeNext, TypeOK
  <2>1. id0 \in Id /\ now \in Ticket /\ records[id0].status = "Queued"
    BY <1>0, <2>0 DEF QueueExact
  <2>2. runs[now] = 0 /\ now \notin finished
    BY <2>1 DEF Fresh, QueuedHasNotRun, OnlyRunFinished
  <2>3. UNCHANGED <<incarnation, last_ticket, accepted, finished>>
    BY <1>5 DEF TakeNext
  <2>4. \A id \in Id : records'[id].status = IF id = id0 THEN "Running" ELSE records[id].status
    BY <1>5, <2>1 DEF TakeNext, TypeOK
  <2>5. \A t \in Ticket : runs'[t] = IF t = now THEN 1 ELSE runs[t]
    BY <1>5, <2>1, <2>2 DEF TakeNext, TypeOK
  <2>6. now \in accepted
    BY <2>1 DEF QueuedAccepted, Fresh
  <2>7. FutureUntouched' /\ PreparedIsFresh'
    BY <2>3, <2>4 DEF Fresh, FutureUntouched, PreparedIsFresh
  <2>8. OnlyAcceptedRan' /\ AtMostOnce'
    BY <2>3, <2>5, <2>6 DEF Fresh, OnlyAcceptedRan, AtMostOnce
  <2>9. QueuedHasNotRun' /\ QueuedAccepted'
    BY <1>0, <2>1, <2>3, <2>4, <2>5 DEF Fresh, QueuedHasNotRun, QueuedAccepted
  <2>10. RunningHasRun' /\ OnlyRunFinished'
    BY <1>0, <2>2, <2>3, <2>4, <2>5 DEF Fresh, RunningHasRun, OnlyRunFinished
  <2> QED
    BY <2>7, <2>8, <2>9, <2>10 DEF Fresh
<1>6. ASSUME NEW t \in Ticket, NEW result \in LifecycleResult, Complete(t, result)
      PROVE  Fresh'
  <2>1. t[2] \in Id /\ t = <<incarnation, t[2]>> /\ records[t[2]].status = "Running"
    BY <1>6 DEF Complete, Resolves, Ticket
  <2>2. UNCHANGED <<incarnation, last_ticket, accepted, runs>> /\ finished' = finished \cup {t}
    BY <1>6 DEF Complete
  <2>3. \A id \in Id : records'[id].status = IF id = t[2] THEN "Completed" ELSE records[id].status
    BY <1>6, <2>1 DEF Complete, TypeOK
  <2>4. FutureUntouched' /\ PreparedIsFresh' /\ OnlyAcceptedRan' /\ AtMostOnce'
    BY <2>2, <2>3 DEF Fresh, FutureUntouched, PreparedIsFresh, OnlyAcceptedRan, AtMostOnce
  <2>5. QueuedHasNotRun' /\ QueuedAccepted'
    BY <2>2, <2>3 DEF Fresh, QueuedHasNotRun, QueuedAccepted
  <2>6. RunningHasRun'
    BY <2>1, <2>2, <2>3 DEF Fresh, RunningHasRun
  <2>7. runs[t] > 0
    BY <2>1 DEF Fresh, RunningHasRun
  <2>8. OnlyRunFinished'
    BY <2>2, <2>7 DEF Fresh, OnlyRunFinished
  <2> QED
    BY <2>4, <2>5, <2>6, <2>8 DEF Fresh
<1> QED
  BY <1>1, <1>2, <1>3, <1>4, <1>5, <1>6 DEF Next

(* The conjunction holds initially and is preserved by every step.            *)
LEMMA InvInit == Init => IInv
<1> USE ControlConstants
<1> SUFFICES ASSUME Init PROVE IInv
  OBVIOUS
<1>1. \A id \in Id : records[id] = Absent /\ records[id].status = "Absent"
  BY DEF Init, NoRecords, Absent
<1>2. TypeOK
  <2>1. records \in [Id -> Record \cup {Absent}]
    BY DEF Init, NoRecords
  <2>2. queue \in Seq(Id) /\ runs \in [Ticket -> Nat]
    BY DEF Init
  <2>3. incarnation \in 1 .. Incarnations /\ last_ticket \in 0 .. MAX_TICKET
    BY DEF Init
  <2>4. accepted \subseteq Ticket /\ finished \subseteq Ticket
    BY DEF Init
  <2>5. ready \in BOOLEAN /\ stopped \in BOOLEAN /\ recovery_only \in BOOLEAN
    BY DEF Init
  <2> QED
    BY <2>1, <2>2, <2>3, <2>4, <2>5 DEF TypeOK
<1>3. QueueExact /\ RecoveryOnly /\ Unissued
  BY <1>1 DEF Init, QueueExact, Queued, RecoveryOnly, Retained, Unissued
<1>4. Fresh
  BY <1>1 DEF Init, Fresh, FutureUntouched, PreparedIsFresh, OnlyAcceptedRan,
       QueuedAccepted, QueuedHasNotRun, RunningHasRun, OnlyRunFinished, AtMostOnce
<1> QED
  BY <1>2, <1>3, <1>4 DEF IInv

(* Every step of the mailbox preserves the conjunction.                       *)
LEMMA InvStep == IInv /\ [Next]_bvars => IInv'
  BY TypeStep, QueueStep, RecoveryStep, UnissuedStep, FreshStep DEF IInv

(* The inductive invariant holds in every reachable state.                    *)
THEOREM Invariance == Spec => []IInv
  BY InvInit, InvStep, PTL DEF Spec

(* Every variable has its type in every reachable state.                      *)
THEOREM TypeCorrect == Spec => []TypeOK
<1>1. IInv => TypeOK
  BY DEF IInv
<1> QED
  BY <1>1, Invariance, PTL

(* A receipt is handed to the foreground at most once, for every table size   *)
(* and across any number of Hosts (take_next, resolve, handle_ticket).        *)
THEOREM ReceiptsRunAtMostOnce == Spec => []AtMostOnce
<1>1. IInv => AtMostOnce
  BY DEF IInv, Fresh
<1> QED
  BY <1>1, Invariance, PTL

(* The queue is exact, so take_next never meets an evicted receipt.           *)
THEOREM QueueIsExact == Spec => []QueueExact
<1>1. IInv => QueueExact
  BY DEF IInv
<1> QED
  BY <1>1, Invariance, PTL

(* A safe-mode Host never holds a request that could activate a plugin.       *)
THEOREM SafeModeHolds == Spec => []RecoveryOnly
<1>1. IInv => RecoveryOnly
  BY DEF IInv
<1> QED
  BY <1>1, Invariance, PTL

-----------------------------------------------------------------------------
(* The tickets are finitely many, hence so is every set of them.              *)
LEMMA IdFinite == IsFiniteSet(Id) /\ \A S \in SUBSET Id : IsFiniteSet(S)
<1>1. 1 \in Int /\ MAX_TICKET \in Int
  BY ControlConstants
<1>2. IsFiniteSet(Id)
  BY <1>1, FS_Interval DEF Id
<1> QED
  BY <1>2, FS_Subset

(* A subset of a finite set of tickets has no more elements.                  *)
LEMMA SmallerSet ==
    ASSUME NEW S \in SUBSET Id, NEW T \in SUBSET S
    PROVE  Cardinality(T) <= Cardinality(S) /\ Cardinality(T) \in Nat /\ Cardinality(S) \in Nat
  BY IdFinite, FS_Subset, FS_CardinalityType

(* Reserving a receipt keeps the table within its bound.                      *)
LEMMA RetainedStep ==
    ASSUME IInv, NEW request \in Request, Prepare(request),
           Cardinality(Retained) <= MAX_CONTROL_RECORDS
    PROVE  Cardinality(Retained') <= MAX_CONTROL_RECORDS
<1> USE ControlConstants
<1> DEFINE new == last_ticket + 1
<1>1. TypeOK /\ Unissued /\ (TableFull => Removable # {})
  BY DEF IInv, Prepare, TicketsExhausted, Admits
<1>2. Retained \in SUBSET Id /\ Retained' \in SUBSET Id
  BY DEF Retained
<1>3. Retained' \subseteq Retained \cup {new}
  BY <1>1, PrepareTouches DEF Retained
<1>4. CASE ~TableFull
  <2>1. Cardinality(Retained) < MAX_CONTROL_RECORDS /\ Cardinality(Retained) \in Nat
    BY <1>2, <1>4, SmallerSet DEF TableFull
  <2>0. IsFiniteSet(Retained)
    BY <1>2, IdFinite
  <2>2. /\ IsFiniteSet(Retained \cup {new})
        /\ \/ Cardinality(Retained \cup {new}) = Cardinality(Retained)
           \/ Cardinality(Retained \cup {new}) = Cardinality(Retained) + 1
    BY <2>0, FS_AddElement
  <2>3. Cardinality(Retained') <= Cardinality(Retained \cup {new})
    BY <1>3, <2>2, FS_Subset
  <2>4. Cardinality(Retained') \in Nat /\ Cardinality(Retained \cup {new}) \in Nat
    BY <1>2, <2>2, SmallerSet, FS_CardinalityType
  <2> QED
    BY <2>1, <2>2, <2>3, <2>4
<1>5. CASE TableFull
  <2> DEFINE old == Min(Removable)
  <2>1. old \in Removable
    BY <1>1, <1>5, MinInSet DEF Removable, Id
  <2>2. old \in Retained /\ old \in Id /\ old # new
    BY <1>1, <2>1 DEF Removable, Retained, Absent, Unissued, TypeOK, Id
  <2>3. records'[old] = Absent
    <3>1. Evict(records) = [records EXCEPT ![old] = Absent]
      BY <1>5 DEF Evict
    <3>2. records' = Evict(records) \/ \E r : records' = [Evict(records) EXCEPT ![new] = r]
      BY DEF Prepare, TicketsExhausted, NextTicket
    <3> QED
      BY <1>1, <2>2, <3>1, <3>2 DEF TypeOK
  <2>4. Retained' \subseteq (Retained \ {old}) \cup {new}
    BY <1>3, <2>3 DEF Retained
  <2>5. IsFiniteSet(Retained) /\ IsFiniteSet(Retained \ {old})
    BY <1>2, IdFinite, FS_RemoveElement
  <2>6. Cardinality(Retained \ {old}) = Cardinality(Retained) - 1
    BY <2>2, <2>5, FS_RemoveElement
  <2>7. /\ IsFiniteSet((Retained \ {old}) \cup {new})
        /\ \/ Cardinality((Retained \ {old}) \cup {new}) = Cardinality(Retained \ {old})
           \/ Cardinality((Retained \ {old}) \cup {new}) = Cardinality(Retained \ {old}) + 1
    BY <2>5, FS_AddElement
  <2>8. Cardinality(Retained') <= Cardinality((Retained \ {old}) \cup {new})
    BY <2>4, <2>7, FS_Subset
  <2>9. Cardinality(Retained) \in Nat /\ Cardinality(Retained') \in Nat
    BY <1>2, SmallerSet
  <2> QED
    BY <2>6, <2>7, <2>8, <2>9
<1> QED
  BY <1>4, <1>5

(* Every step keeps both bounds.                                              *)
LEMMA BoundedStep ==
    ASSUME IInv, Bounded, [Next]_bvars
    PROVE  Bounded'
<1> USE ControlConstants
<1>0. TypeOK /\ QueueExact /\ Unissued
  BY DEF IInv
<1>1. /\ Retained \in SUBSET Id /\ Retained' \in SUBSET Id
      /\ Pending \in SUBSET Id /\ Pending' \in SUBSET Id
  BY DEF Retained, Pending, Queued, Running
<1>2. ASSUME Retained' \subseteq Retained, Pending' \subseteq Pending
      PROVE  Bounded'
  <2>1. Cardinality(Retained') <= Cardinality(Retained)
    BY <1>1, <1>2, SmallerSet
  <2>2. Cardinality(Pending') <= Cardinality(Pending)
    BY <1>1, <1>2, SmallerSet
  <2>3. /\ Cardinality(Retained) \in Nat /\ Cardinality(Retained') \in Nat
        /\ Cardinality(Pending) \in Nat /\ Cardinality(Pending') \in Nat
    BY <1>1, SmallerSet
  <2> QED
    BY <2>1, <2>2, <2>3 DEF Bounded
<1>3. CASE Restart
  <2>1. Retained' = {} /\ Pending' = {}
    BY <1>3 DEF Restart, NoRecords, Retained, Pending, Queued, Running, Absent
  <2> QED
    BY <1>2, <2>1
<1>4. CASE RestrictToRecovery \/ SetReady \/ Stop \/ UNCHANGED bvars
  <2>1. records' = records
    BY <1>4 DEF RestrictToRecovery, SetReady, Stop, bvars
  <2> QED
    BY <1>2, <2>1 DEF Retained, Pending, Queued, Running
<1>5. ASSUME NEW request \in Request, Prepare(request)
      PROVE  Bounded'
  <2>1. Cardinality(Retained') <= MAX_CONTROL_RECORDS
    BY <1>5, RetainedStep DEF Bounded
  <2>2. Pending' \subseteq Pending
    BY <1>0, <1>5, PrepareTouches DEF Pending, Queued, Running, Absent
  <2>3. Cardinality(Pending') <= Cardinality(Pending)
    BY <1>1, <2>2, SmallerSet
  <2>4. Cardinality(Pending) \in Nat /\ Cardinality(Pending') \in Nat
    BY <1>1, SmallerSet
  <2> QED
    BY <2>1, <2>3, <2>4 DEF Bounded
<1>6. ASSUME NEW t \in Ticket, Submit(t)
      PROVE  Bounded'
  <2>1. t[2] \in Id /\ records[t[2]] # Absent
    BY <1>6 DEF Submit, Accepts, Resolves, Ticket
  <2>2. Pending' \subseteq Pending \cup {t[2]} /\ Retained' \subseteq Retained
    BY <1>0, <1>6, <2>1 DEF Submit, TypeOK, Pending, Queued, Running, Retained
  <2>3. Cardinality(Pending) < MAX_CONTROL_PENDING
    BY <1>6 DEF Submit, Accepts, MailboxRoom
  <2>4. IsFiniteSet(Pending \cup {t[2]})
    BY <1>1, IdFinite, FS_AddElement
  <2>5. \/ Cardinality(Pending \cup {t[2]}) = Cardinality(Pending)
        \/ Cardinality(Pending \cup {t[2]}) = Cardinality(Pending) + 1
    BY <1>1, IdFinite, FS_AddElement
  <2>6. Cardinality(Pending') <= Cardinality(Pending \cup {t[2]})
    BY <2>2, <2>4, FS_Subset
  <2>7. /\ Cardinality(Retained') <= Cardinality(Retained)
        /\ Cardinality(Retained) \in Nat /\ Cardinality(Retained') \in Nat
        /\ Cardinality(Pending) \in Nat /\ Cardinality(Pending') \in Nat
    BY <1>1, <2>2, SmallerSet
  <2> QED
    BY <2>3, <2>5, <2>6, <2>7 DEF Bounded
<1>7. CASE TakeNext
  <2>0. Head(queue) = queue[1] /\ Head(queue) \in Id /\ 1 \in 1 .. Len(queue)
    BY <1>0, <1>7 DEF TakeNext, TypeOK
  <2>1. Head(queue) \in Id /\ records[Head(queue)].status = "Queued"
    BY <1>0, <2>0 DEF QueueExact
  <2>2. \A id \in Id : id # Head(queue) => records'[id] = records[id]
    BY <1>0, <1>7, <2>1 DEF TakeNext, TypeOK
  <2>3. Head(queue) \in Pending /\ Head(queue) \in Retained
    BY <2>1 DEF Pending, Queued, Retained, Absent
  <2> QED
    BY <1>2, <2>2, <2>3 DEF Pending, Queued, Running, Retained
<1>8. ASSUME NEW t \in Ticket, NEW result \in LifecycleResult, Complete(t, result)
      PROVE  Bounded'
  <2>1. t[2] \in Id /\ t[2] \in Pending /\ t[2] \in Retained
    BY <1>8 DEF Complete, Resolves, Ticket, Pending, Running, Retained
  <2>2. \A id \in Id : id # t[2] => records'[id] = records[id]
    BY <1>0, <1>8 DEF Complete, TypeOK
  <2> QED
    BY <1>2, <2>1, <2>2 DEF Pending, Queued, Running, Retained
<1> QED
  BY <1>3, <1>4, <1>5, <1>6, <1>7, <1>8 DEF Next

(* The receipt table never outgrows MAX_CONTROL_RECORDS nor the mailbox       *)
(* MAX_CONTROL_PENDING (handle, handle_ticket).                               *)
THEOREM TablesStayBounded == Spec => []Bounded
<1>1. Init => Bounded
  <2> SUFFICES ASSUME Init PROVE Bounded
    OBVIOUS
  <2>1. Retained = {} /\ Pending = {}
    BY DEF Init, NoRecords, Retained, Pending, Queued, Running, Absent
  <2> QED
    BY <2>1, ControlConstants, FS_EmptySet DEF Bounded
<1>2. IInv /\ Bounded /\ [Next]_bvars => Bounded'
  BY BoundedStep
<1> QED
  BY <1>1, <1>2, Invariance, PTL DEF Spec

(* The mailbox stays consistent: types, queue, bounds and safe mode together. *)
THEOREM MailboxConsistent == Spec => []BrokerConsistent
<1>1. TypeOK /\ QueueExact /\ Bounded /\ RecoveryOnly => BrokerConsistent
  BY DEF BrokerConsistent
<1> QED
  BY <1>1, TypeCorrect, QueueIsExact, TablesStayBounded, SafeModeHolds, PTL

-----------------------------------------------------------------------------
(* A queue of ids lifted to receipts is a sequence of the same length.        *)
LEMMA Lifted ==
    ASSUME NEW q \in Seq(Id), NEW n \in 1 .. Incarnations
    PROVE  /\ [i \in 1 .. Len(q) |-> <<n, q[i]>>] \in Seq(Ticket)
           /\ Len([i \in 1 .. Len(q) |-> <<n, q[i]>>]) = Len(q)
           /\ Len(q) \in Nat
<1> DEFINE out == [i \in 1 .. Len(q) |-> <<n, q[i]>>]
<1>1. Len(q) \in Nat /\ \A i \in 1 .. Len(q) : q[i] \in Id
  OBVIOUS
<1>2. out \in [1 .. Len(q) -> Ticket]
  BY <1>1 DEF Ticket
<1>3. out \in Seq(Ticket)
  BY <1>1, <1>2, SeqDef
<1>4. DOMAIN out = 1 .. Len(q) /\ DOMAIN out = 1 .. Len(out) /\ Len(out) \in Nat
  BY <1>2, <1>3, LenProperties
<1>5. Len(out) = Len(q)
  BY <1>1, <1>4
<1> QED
  BY <1>1, <1>3, <1>5

(* A new mailbox maps to an empty job log.                                    *)
LEMMA JobInit == Init => Jobs!Init
  BY DEF Init, Jobs!Init, NoRecords, Absent, Running

(* Every step of the mailbox maps to a step of the job log or a stutter.      *)
LEMMA JobStep ==
    ASSUME IInv, [Next]_bvars
    PROVE  [Jobs!Next]_(Jobs!jvars)
<1> USE ControlConstants
<1> DEFINE out == [i \in 1 .. Len(queue) |-> <<incarnation, queue[i]>>]
           act == {<<incarnation, id>> : id \in Running}
<1>0. TypeOK /\ QueueExact /\ Unissued /\ Fresh
  BY DEF IInv
<1>8. TypeOK'
  BY <1>0, TypeStep
<1>1. CASE Restart
  <2>1. out' = << >>
    BY <1>1 DEF Restart
  <2>2. act' = {}
    BY <1>1 DEF Restart, NoRecords, Absent, Running
  <2>3. accepted' = accepted /\ finished' = finished
    BY <1>1 DEF Restart
  <2> QED
    BY <2>1, <2>2, <2>3 DEF Jobs!Next, Jobs!Abandon
<1>2. CASE RestrictToRecovery \/ SetReady \/ UNCHANGED bvars
  <2>1. UNCHANGED <<incarnation, records, queue, accepted, finished>>
    BY <1>2 DEF RestrictToRecovery, SetReady, bvars
  <2>2. out' = out /\ act' = act
    BY <2>1 DEF Running
  <2> QED
    BY <2>1, <2>2 DEF Jobs!jvars
<1>3. CASE Stop
  <2>1. out' = << >>
    BY <1>3 DEF Stop
  <2>2. UNCHANGED <<incarnation, records, accepted, finished>>
    BY <1>3 DEF Stop
  <2>3. act' = act
    BY <2>2 DEF Running
  <2> QED
    BY <2>1, <2>2, <2>3 DEF Jobs!Next, Jobs!Abandon
<1>4. ASSUME NEW request \in Request, Prepare(request)
      PROVE  UNCHANGED Jobs!jvars
  <2>1. \A id \in Id : records'[id].status = "Running" <=> records[id].status = "Running"
    BY <1>0, <1>4, PrepareTouches DEF Absent
  <2>2. Running' = Running
    BY <2>1 DEF Running
  <2>3. UNCHANGED <<incarnation, queue, accepted, finished>>
    BY <1>4 DEF Prepare, TicketsExhausted
  <2> QED
    BY <2>2, <2>3 DEF Jobs!jvars
<1>5. ASSUME NEW t \in Ticket, Submit(t)
      PROVE  Jobs!Accept(t)
  <2>1. /\ t = <<incarnation, t[2]>> /\ t[2] \in Id
        /\ records[t[2]].status = "Prepared"
    BY <1>5 DEF Submit, Accepts, Resolves, Submittable, Ticket
  <2>2. t \notin accepted /\ accepted' = accepted \cup {t}
    BY <1>0, <1>5, <2>1 DEF Submit, Fresh, PreparedIsFresh
  <2>3. UNCHANGED <<incarnation, finished>> /\ queue' = Append(queue, t[2])
    BY <1>5 DEF Submit
  <2>4. Running' = Running
    BY <1>0, <1>5, <2>1 DEF Submit, TypeOK, Running
  <2>5. out' = Append(out, t)
    <3>1. out \in Seq(Ticket) /\ Len(out) = Len(queue) /\ Len(queue) \in Nat
      BY <1>0, Lifted DEF TypeOK
    <3>2. out' \in Seq(Ticket) /\ Len(out') = Len(queue')
      BY <1>8, Lifted DEF TypeOK
    <3>3. /\ Append(out, t) \in Seq(Ticket) /\ Len(Append(out, t)) = Len(queue) + 1
          /\ \A i \in 1 .. Len(queue) : Append(out, t)[i] = out[i]
          /\ Append(out, t)[Len(queue) + 1] = t
      <4> HIDE DEF out
      <4> QED BY <3>1
    <3>4. /\ Len(queue') = Len(queue) + 1
          /\ \A i \in 1 .. Len(queue) : queue'[i] = queue[i]
          /\ queue'[Len(queue) + 1] = t[2]
      BY <1>0, <2>1, <2>3 DEF TypeOK
    <3>5. \A i \in 1 .. Len(queue) : out'[i] = out[i]
      BY <2>3, <3>1, <3>4
    <3>6. out'[Len(queue) + 1] = t
      BY <2>1, <2>3, <3>1, <3>4
    <3>7. \A i \in 1 .. Len(out') : out'[i] = Append(out, t)[i]
      <4> HIDE DEF out
      <4> QED BY <3>1, <3>2, <3>3, <3>4, <3>5, <3>6
    <3> HIDE DEF out
    <3> QED
      BY <3>2, <3>3, <3>4, <3>7, SeqEqual
  <2> QED
    BY <2>2, <2>3, <2>4, <2>5 DEF Jobs!Accept
<1>6. CASE TakeNext
  <2>1. /\ Head(queue) = queue[1] /\ Head(queue) \in Id /\ queue # << >>
        /\ queue' = Tail(queue) /\ Len(queue) \in Nat \ {0} /\ queue \in Seq(Id)
    BY <1>0, <1>6 DEF TakeNext, TypeOK
  <2>2. UNCHANGED <<incarnation, accepted, finished>>
    BY <1>6 DEF TakeNext
  <2>3. Running' = Running \cup {Head(queue)}
    BY <1>0, <1>6, <2>1 DEF TakeNext, TypeOK, Running
  <2>4. out \in Seq(Ticket) /\ Len(out) = Len(queue) /\ out # << >>
    BY <1>0, <2>1, Lifted DEF TypeOK
  <2>5. Head(out) = <<incarnation, Head(queue)>>
    <3>1. out[1] = <<incarnation, queue[1]>>
      BY <2>1
    <3> HIDE DEF out
    <3> QED
      BY <2>1, <2>4, <3>1
  <2>6. out' = Tail(out)
    <3>1. Len(queue') = Len(queue) - 1 /\ \A i \in 1 .. Len(queue) - 1 : queue'[i] = queue[i + 1]
      BY <2>1
    <3>2. /\ Tail(out) \in Seq(Ticket) /\ Len(Tail(out)) = Len(queue) - 1
          /\ \A i \in 1 .. Len(queue) - 1 : Tail(out)[i] = out[i + 1]
      <4> HIDE DEF out
      <4> QED BY <2>1, <2>4, HeadTailProperties
    <3>3. out' \in Seq(Ticket) /\ Len(out') = Len(queue')
      BY <1>8, Lifted DEF TypeOK
    <3>4. \A i \in 1 .. Len(queue) - 1 : out'[i] = out[i + 1]
      BY <2>1, <2>2, <3>1
    <3> HIDE DEF out
    <3> QED
      BY <2>1, <3>1, <3>2, <3>3, <3>4, SeqEqual
  <2>7. act' = act \cup {Head(out)}
    BY <2>2, <2>3, <2>5
  <2> QED
    BY <2>2, <2>4, <2>6, <2>7 DEF Jobs!Next, Jobs!Start
<1>7. ASSUME NEW t \in Ticket, NEW result \in LifecycleResult, Complete(t, result)
      PROVE  Jobs!Finish(t)
  <2>1. /\ t = <<incarnation, t[2]>> /\ t[2] \in Id
        /\ records[t[2]].status = "Running"
    BY <1>7 DEF Complete, Resolves, Ticket
  <2>2. t \in act /\ t \notin finished
    BY <1>0, <2>1 DEF Running, Fresh, RunningHasRun
  <2>3. UNCHANGED <<incarnation, queue, accepted>> /\ finished' = finished \cup {t}
    BY <1>7 DEF Complete
  <2>4. Running' = Running \ {t[2]}
    BY <1>0, <1>7, <2>1 DEF Complete, TypeOK, Running
  <2>5. act' = act \ {t}
    BY <2>1, <2>3, <2>4
  <2> QED
    BY <2>2, <2>3, <2>5 DEF Jobs!Finish
<1> QED
  BY <1>1, <1>2, <1>3, <1>4, <1>5, <1>6, <1>7 DEF Next, Jobs!Next

(* The mailbox implements JobLog for every value of the constants: a job is   *)
(* accepted at most once, jobs start in the order of acceptance, and what is  *)
(* outstanding is dropped only when the Host stops or is replaced.            *)
THEOREM ImplementsJobLog == Spec => JobOrder
  BY JobInit, JobStep, Invariance, PTL DEF Spec, JobOrder, Jobs!Spec

(* The mailbox keeps its tables and runs a receipt at most once, for any      *)
(* number of Hosts, receipts and requests (ControlBroker::submit, take_next,  *)
(* complete).                                                                 *)
THEOREM MailboxSound == Spec => []BrokerSound
<1>1. BrokerConsistent /\ AtMostOnce => BrokerSound
  BY DEF BrokerSound
<1> QED
  BY <1>1, MailboxConsistent, ReceiptsRunAtMostOnce, PTL

-----------------------------------------------------------------------------
(* The management plane.                                                      *)

(* A receipt the mailbox has issued, under this Host or an earlier one.       *)
Known(t) == t[1] < incarnation \/ (t[1] = incarnation /\ t[2] <= last_ticket)

(* A completed record is one whose result was given.                          *)
CompletedFinished ==
    \A id \in Id : records[id].status = "Completed" => <<incarnation, id>> \in finished

Outcome == {"none", "host_required", "control_failed", "ok", "failed", "uncertain",
            "not_submitted", "offline_unavailable", "offline"}

ClientRecord ==
    [pc : {"prepare", "submit", "poll", "offline", "editing", "done"}, request : Request,
     ticket : Ticket \cup {None}, waiting : BOOLEAN, outcome : Outcome]

Status == ControlStatus \cup NotSubmittedStatus \cup {"sent", "Absent"}

Frame ==
    [client : Cli \cup {None}, command : {"prepare", "submit", "poll"}, request : Request,
     ticket : (Nat \X Nat) \cup {None}, status : Status,
     completion : {"None", "Report", "Error"}]

Loop == [pc : {"start", "pump", "disables", "next", "dispatch", "watch", "watchSubmit",
               "stopped", "gone"}, todo : SUBSET Plugin, ticket : Ticket \cup {None}]

(* The types of the frame in the pipe, of the clients and of the loop.        *)
PlaneTypes ==
    /\ PlaneTypeOK
    /\ cli \in [Cli -> ClientRecord]
    /\ conn \in Frame \cup {None}
    /\ fg \in Loop

(* Who holds the registry scope, and that a dead Host watches nothing.       *)
Owned ==
    /\ up => lease = "Host"
    /\ \A c \in Cli : cli[c].pc = "editing" => lease = c
    /\ ~up => watch.receipt = None

(* What a client has been told so far is true, and a receipt it may still     *)
(* submit has not been accepted.                                              *)
GoodClient(r) ==
    /\ r.waiting => r.pc \in {"prepare", "submit", "poll"}
    /\ r.outcome # "none" => r.pc = "done"
    /\ r.pc \in {"submit", "poll"} => r.ticket # None
    /\ r.outcome \in {"ok", "failed"} => r.ticket \in finished
    /\ (r.pc = "submit" /\ ~r.waiting) \/ r.outcome = "not_submitted"
           => r.ticket \notin accepted

ClientsOk == \A c \in Cli : GoodClient(cli[c])

(* The frame in the pipe is the question its client waits for.                *)
FrameOk ==
    conn # None =>
        /\ conn.client = None => conn.status = "sent"
        /\ conn.client # None =>
               /\ cli[conn.client].waiting
               /\ cli[conn.client].pc = conn.command
               /\ conn.command # "prepare" => cli[conn.client].ticket = conn.ticket
        /\ conn.command # "prepare" => conn.ticket \in Ticket

(* A submission that is not served, or was refused, has not been accepted; a  *)
(* frame left behind belongs to a client that called its result uncertain.    *)
SubmitOk ==
    conn # None /\ conn.command = "submit" =>
        /\ conn.client # None /\ conn.status \in NotSubmittedStatus \cup {"sent"}
               => conn.ticket \notin accepted
        /\ conn.client = None =>
               \E c \in Cli : cli[c].ticket = conn.ticket /\ cli[c].outcome = "uncertain"

(* A reported completion is one of the receipt that was asked for.            *)
ResultOk ==
    conn # None /\ conn.command # "prepare" /\ conn.status = "Completed"
        => conn.ticket \in finished

(* A receipt on its way to the client that prepared it is nobody else's.      *)
PreparedOk ==
    conn # None /\ conn.command = "prepare" /\ conn.status = "Prepared" =>
        /\ conn.ticket \in Ticket /\ Known(conn.ticket)
        /\ conn.ticket \notin accepted
        /\ \A c \in Cli : cli[c].ticket # conn.ticket
        /\ \A p \in Plugin : receipts[p] # conn.ticket
        /\ fg.ticket # conn.ticket

(* Whoever holds a receipt holds one that was issued, ...                     *)
TicketsKnown ==
    /\ \A c \in Cli : cli[c].ticket # None => Known(cli[c].ticket)
    /\ \A p \in Plugin : receipts[p] # None => Known(receipts[p])
    /\ fg.ticket # None => Known(fg.ticket)

(* ... and no client holds the receipt of another client or of the Host.      *)
TicketsApart ==
    \A c \in Cli : cli[c].ticket # None =>
        /\ \A d \in Cli \ {c} : cli[d].ticket # cli[c].ticket
        /\ \A p \in Plugin : receipts[p] # cli[c].ticket
        /\ fg.ticket # cli[c].ticket
(* The watcher submits only what it has reserved.                             *)
ForeOk == fg.pc = "watchSubmit" => fg.ticket # None
(* The inductive invariant of the plane.                                      *)
PInv ==
    /\ IInv
    /\ CompletedFinished /\ PlaneTypes /\ Owned /\ ClientsOk
    /\ FrameOk /\ SubmitOk /\ ResultOk /\ PreparedOk
    /\ TicketsKnown /\ TicketsApart /\ ForeOk
    /\ OneJob /\ WatchReceiptQueued

(* What every step of the mailbox preserves: its own invariant, results and    *)
(* the fact that a receipt was issued.                                        *)
LEMMA BrokerKeeps ==
    ASSUME IInv, CompletedFinished, [Next]_bvars
    PROVE  /\ IInv' /\ CompletedFinished'
           /\ finished \subseteq finished'
           /\ \A t \in Ticket : Known(t) => Known(t)'
<1> USE ControlConstants
<1>1. IInv'
  BY InvStep
<1>2. TypeOK /\ Unissued
  BY DEF IInv
<1>3. CASE Restart
  <2>1. \A id \in Id : records'[id].status = "Absent"
    BY <1>3 DEF Restart, NoRecords, Absent
  <2> QED
    BY <1>1, <1>2, <1>3, <2>1 DEF Restart, NextIncarnation, CompletedFinished, Known, TypeOK, Ticket, Id
<1>4. CASE RestrictToRecovery \/ SetReady \/ Stop \/ UNCHANGED bvars
  BY <1>1, <1>2, <1>4 DEF RestrictToRecovery, SetReady, Stop, bvars, CompletedFinished, Known
<1>5. ASSUME NEW request \in Request, Prepare(request)
      PROVE  /\ finished' = finished /\ CompletedFinished'
             /\ incarnation' = incarnation /\ last_ticket' >= last_ticket
  <2>1. \A id \in Id : records'[id].status = "Completed" => records[id].status = "Completed"
    BY <1>2, <1>5, PrepareTouches DEF Absent
  <2> QED
    BY <1>2, <1>5, <2>1 DEF Prepare, TicketsExhausted, NextTicket, CompletedFinished, TypeOK
<1>6. ASSUME NEW t \in Ticket, Submit(t)
      PROVE  /\ finished' = finished /\ CompletedFinished'
             /\ incarnation' = incarnation /\ last_ticket' = last_ticket
  <2>1. \A id \in Id : records'[id].status = "Completed" => records[id].status = "Completed"
    BY <1>2, <1>6 DEF Submit, TypeOK
  <2> QED
    BY <1>2, <1>6, <2>1 DEF Submit, CompletedFinished
<1>7. CASE TakeNext
  <2>1. \A id \in Id : records'[id].status = "Completed" => records[id].status = "Completed"
    BY <1>2, <1>7 DEF TakeNext, TypeOK
  <2> QED
    BY <1>1, <1>2, <1>7, <2>1 DEF TakeNext, CompletedFinished, Known
<1>8. ASSUME NEW t \in Ticket, NEW result \in LifecycleResult, Complete(t, result)
      PROVE  /\ finished \subseteq finished' /\ CompletedFinished'
             /\ incarnation' = incarnation /\ last_ticket' = last_ticket
  <2>1. t = <<incarnation, t[2]>>
    BY <1>8 DEF Complete, Resolves, Ticket
  <2>2. \A id \in Id : records'[id].status = "Completed" => records[id].status = "Completed" \/ id = t[2]
    BY <1>2, <1>8 DEF Complete, TypeOK
  <2> QED
    BY <1>2, <1>8, <2>1, <2>2 DEF Complete, CompletedFinished
<1>9. ASSUME incarnation' = incarnation, last_ticket' >= last_ticket
      PROVE  \A t \in Ticket : Known(t) => Known(t)'
  BY <1>1, <1>2, <1>9 DEF IInv, Known, TypeOK, Ticket, Id
<1>10. last_ticket >= last_ticket
  BY <1>2 DEF TypeOK
<1> QED
  BY <1>1, <1>3, <1>4, <1>5, <1>6, <1>7, <1>8, <1>9, <1>10 DEF Next

(* A reservation changes no queue and no running job, and issues only a new   *)
(* receipt (handle(Prepare)).                                                 *)
LEMMA PrepareDoes ==
    ASSUME IInv, NEW request \in Request, BrokerPrepare(request), NEW t, t = Issued
    PROVE  /\ [Next]_bvars
           /\ UNCHANGED <<incarnation, stopped, queue, accepted>>
           /\ Running' = Running
           /\ PrepareStatus(request) \in Status \ {"sent", "Completed"}
           /\ PrepareStatus(request) = "Prepared" =>
                 t \in Ticket /\ ~Known(t) /\ Known(t)' /\ t \notin accepted
<1> USE ControlConstants
<1>0. TypeOK /\ Unissued /\ Fresh
  BY DEF IInv
<1>1. PrepareStatus(request) \in Status \ {"sent", "Completed"}
  BY DEF PrepareStatus, Status, NotSubmittedStatus, ControlStatus
<1>2. CASE Admits(request)
  <2>1. Prepare(request)
    BY <1>2 DEF BrokerPrepare
  <2>2. \A id \in Id : records'[id].status = "Running" <=> records[id].status = "Running"
    BY <1>0, <2>1, PrepareTouches DEF Absent
  <2>3. Running' = Running
    BY <2>2 DEF Running
  <2>4. UNCHANGED <<incarnation, stopped, queue, accepted>>
    BY <2>1 DEF Prepare
  <2>5. ASSUME PrepareStatus(request) = "Prepared"
        PROVE  t \in Ticket /\ ~Known(t) /\ Known(t)' /\ t \notin accepted
    <3>1. ~TicketsExhausted
      BY <2>5 DEF PrepareStatus
    <3>2. last_ticket' = last_ticket + 1 /\ t = <<incarnation, last_ticket + 1>>
      BY <2>1, <3>1 DEF Prepare, NextTicket, Issued
    <3>3. t \in Ticket
      BY <1>0, <3>1, <3>2 DEF TicketsExhausted, TypeOK, Ticket, Id
    <3>4. ~Known(t) /\ Known(t)'
      BY <1>0, <2>4, <3>2 DEF Known, TypeOK
    <3>5. t \notin accepted
      BY <1>0, <3>2, <3>3 DEF Fresh, FutureUntouched, TypeOK
    <3> QED
      BY <3>3, <3>4, <3>5
  <2> QED
    BY <1>1, <2>1, <2>3, <2>4, <2>5 DEF Next
<1>3. CASE ~Admits(request)
  <2>1. UNCHANGED bvars
    BY <1>3 DEF BrokerPrepare
  <2>2. PrepareStatus(request) # "Prepared"
    BY <1>3 DEF Admits, PrepareStatus
  <2> QED
    BY <1>1, <2>1, <2>2 DEF bvars, Running
<1> QED
  BY <1>2, <1>3

(* A submission accepts at most its own receipt, reports what became of it    *)
(* and only ever lengthens the queue (handle_ticket).                         *)
LEMMA SubmitDoes ==
    ASSUME IInv, CompletedFinished, NEW t \in Ticket, BrokerSubmit(t)
    PROVE  /\ [Next]_bvars
           /\ UNCHANGED <<incarnation, stopped>>
           /\ Running' = Running
           /\ accepted' \subseteq accepted \cup {t}
           /\ SubmitStatus(t) \in Status \ {"sent"}
           /\ SubmitStatus(t) # "Queued" => accepted' = accepted
           /\ SubmitStatus(t) = "Completed" => t \in finished
           /\ SubmitStatus(t) = "Queued" =>
                 \E i \in 1 .. Len(queue') : t = <<incarnation', queue'[i]>>
           /\ \A i \in 1 .. Len(queue) : i \in 1 .. Len(queue') /\ queue'[i] = queue[i]
<1> USE ControlConstants
<1>0. TypeOK /\ Unissued /\ Fresh /\ QueueExact
  BY DEF IInv
<1>1. t = <<t[1], t[2]>> /\ t[2] \in Id
  BY DEF Ticket
<1>2. records[t[2]].status \in ControlStatus \cup {"Absent"}
  BY <1>0, <1>1, AbsentIsNoRecord DEF TypeOK
<1>3. SubmitStatus(t) \in Status \ {"sent"}
  BY <1>2 DEF SubmitStatus, ResolveStatus, Status, ControlStatus, NotSubmittedStatus
<1>4. SubmitStatus(t) = "Completed" => t \in finished
  BY <1>1, <1>2 DEF SubmitStatus, ResolveStatus, CompletedFinished
<1>5. CASE Accepts(t)
  <2>1. Submit(t)
    BY <1>5 DEF BrokerSubmit
  <2>2. SubmitStatus(t) = "Queued" /\ t[1] = incarnation
    BY <1>0, <1>1, <1>5, <1>2 DEF Accepts, Resolves, Submittable, SubmitStatus, ResolveStatus, TypeOK, Id
  <2>3. Running' = Running
    BY <1>0, <1>1, <1>5, <2>1 DEF Submit, TypeOK, Running, Accepts, Submittable
  <2>4. queue' = Append(queue, t[2]) /\ UNCHANGED <<incarnation, stopped>> /\ accepted' = accepted \cup {t}
    BY <1>1, <2>1, <2>2 DEF Submit
  <2>5. /\ Len(queue') = Len(queue) + 1 /\ Len(queue) \in Nat
        /\ \A i \in 1 .. Len(queue) : queue'[i] = queue[i]
        /\ queue'[Len(queue) + 1] = t[2]
    BY <1>0, <1>1, <2>4 DEF TypeOK
  <2>6. \A i \in 1 .. Len(queue) : i \in 1 .. Len(queue') /\ queue'[i] = queue[i]
    BY <2>5
  <2>7. Len(queue) + 1 \in 1 .. Len(queue') /\ t = <<incarnation', queue'[Len(queue) + 1]>>
    BY <1>1, <2>2, <2>4, <2>5
  <2> QED
    BY <1>3, <1>4, <2>1, <2>2, <2>3, <2>4, <2>6, <2>7 DEF Next
<1>6. CASE ~Accepts(t)
  <2>1. UNCHANGED bvars
    BY <1>6 DEF BrokerSubmit
  <2>2. ASSUME SubmitStatus(t) = "Queued"
        PROVE  \E i \in 1 .. Len(queue) : t = <<incarnation, queue[i]>>
    <3>1. ~stopped /\ t[1] = incarnation /\ records[t[2]].status = "Queued"
      BY <1>0, <1>1, <1>2, <1>6, <2>2 DEF SubmitStatus, ResolveStatus, Accepts, Resolves, Submittable, TypeOK, Id
    <3>2. PICK i \in 1 .. Len(queue) : queue[i] = t[2]
      BY <1>0, <1>1, <3>1 DEF QueueExact, Queued
    <3> QED
      BY <1>1, <3>1, <3>2
  <2> QED
    BY <1>3, <1>4, <2>1, <2>2 DEF bvars, Running
<1> QED
  BY <1>5, <1>6

(* complete() ends the one running receipt it is given.                       *)
LEMMA CompleteDoes ==
    ASSUME IInv, NEW t \in Ticket, NEW result \in LifecycleResult, Complete(t, result)
    PROVE  /\ [Next]_bvars
           /\ UNCHANGED <<incarnation, stopped, queue, accepted>>
           /\ t = <<incarnation, t[2]>>
           /\ Running' = Running \ {t[2]}
<1>1. TypeOK
  BY DEF IInv
<1>2. t = <<incarnation, t[2]>> /\ t[2] \in Id
  BY DEF Complete, Resolves, Ticket
<1>3. Running' = Running \ {t[2]}
  BY <1>1, <1>2 DEF Complete, TypeOK, Running
<1> QED
  BY <1>2, <1>3 DEF Complete, Next

(* take_next starts the head of the queue and keeps the rest.                 *)
LEMMA TakeDoes ==
    ASSUME IInv, TakeNext
    PROVE  /\ [Next]_bvars
           /\ UNCHANGED <<incarnation, stopped, accepted>>
           /\ <<incarnation, Head(queue)>> \in Ticket
           /\ Running' = Running \cup {Head(queue)}
           /\ \A i \in 1 .. Len(queue) :
                 \/ queue[i] = Head(queue)
                 \/ \E j \in 1 .. Len(queue') : queue'[j] = queue[i]
<1>1. TypeOK
  BY DEF IInv
<1>2. /\ Head(queue) = queue[1] /\ Head(queue) \in Id
      /\ queue' = Tail(queue) /\ Len(queue) \in Nat \ {0}
  BY <1>1 DEF TakeNext, TypeOK
<1>3. Len(queue') = Len(queue) - 1 /\ \A i \in 1 .. Len(queue) - 1 : queue'[i] = queue[i + 1]
  BY <1>1, <1>2 DEF TypeOK
<1>4. ASSUME NEW i \in 1 .. Len(queue), i # 1
      PROVE  \E j \in 1 .. Len(queue') : queue'[j] = queue[i]
  <2>1. i - 1 \in 1 .. Len(queue) - 1 /\ (i - 1) + 1 = i
    BY <1>2, <1>4
  <2> QED
    BY <1>2, <1>3, <2>1
<1>5. Running' = Running \cup {Head(queue)}
  BY <1>1, <1>2 DEF TakeNext, TypeOK, Running
<1>6. <<incarnation, Head(queue)>> \in Ticket
  BY <1>1, <1>2 DEF TypeOK, Ticket
<1> QED
  BY <1>2, <1>4, <1>5, <1>6 DEF TakeNext, Next

(* What a client makes of a status, by the question it had asked              *)
(* (manage_inner).                                                            *)
LEMMA Hears ==
    ASSUME NEW c \in Cli, cli[c] \in ClientRecord, cli[c].outcome = "none", Querying(c),
           NEW status, NEW ticket, NEW completion,
           cli[c].pc = "prepare" /\ status = "Prepared" => ticket \in Ticket,
           NEW r, r = AfterQuery(c, status, ticket, completion)
    PROVE  /\ r \in ClientRecord
           /\ ~r.waiting
           /\ r.pc \in {"submit", "poll", "offline", "done"}
           /\ r.pc = "submit" => cli[c].pc = "prepare" /\ status = "Prepared" /\ r.ticket = ticket
           /\ r.pc # "submit" => r.ticket = cli[c].ticket
           /\ r.pc = "poll" => cli[c].pc \in {"submit", "poll"}
           /\ r.outcome # "none" => r.pc = "done"
           /\ r.outcome = "not_submitted" =>
                 cli[c].pc = "submit" /\ status \in NotSubmittedStatus
           /\ r.outcome \in {"ok", "failed"} => cli[c].pc # "prepare" /\ status = "Completed"
           /\ cli[c].pc = "submit" /\ status = "Timeout" => r.outcome = "uncertain"
<1> USE DEF ClientRecord, Querying, Ended
<1>1. CASE cli[c].pc = "prepare"
  BY <1>1 DEF AfterQuery, AfterPrepare, Outcome
<1>2. CASE cli[c].pc = "submit" /\ status \in NotSubmittedStatus
  BY <1>2 DEF AfterQuery, Outcome, NotSubmittedStatus
<1>3. CASE cli[c].pc = "submit" /\ status \notin NotSubmittedStatus
  BY <1>3 DEF AfterQuery, AfterRead, Outcome
<1>4. CASE cli[c].pc = "poll"
  BY <1>4 DEF AfterQuery, AfterRead, Outcome
<1> QED
  BY <1>1, <1>2, <1>3, <1>4

(* The absent value is no client, no receipt and no Host.                     *)
LEMMA NoneApart == None \notin Cli /\ None \notin Ticket /\ None # "Host" /\ "Host" \notin Cli
  BY PlaneConstants

(* What the move of one client leaves alone.                                  *)
LEMMA ClientMoves ==
    ASSUME PInv, NEW c \in Cli, NEW r \in ClientRecord, GoodClient(r), cli[c].pc # "done",
           cli' = [cli EXCEPT ![c] = r],
           UNCHANGED <<bvars, up, fg, job, disables, receipts, watch>>,
           lease' \in Cli \cup {"Host", None}, conn' \in Frame \cup {None},
           \/ r.ticket = cli[c].ticket
           \/ /\ r.ticket \in Ticket /\ Known(r.ticket)
              /\ \A d \in Cli : cli[d].ticket # r.ticket
              /\ \A p \in Plugin : receipts[p] # r.ticket
              /\ fg.ticket # r.ticket
    PROVE  /\ IInv' /\ CompletedFinished' /\ PlaneTypes' /\ ClientsOk'
           /\ TicketsKnown' /\ TicketsApart' /\ ForeOk' /\ OneJob' /\ WatchReceiptQueued'
           /\ conn' = None => FrameOk' /\ SubmitOk' /\ ResultOk' /\ PreparedOk'
           /\ conn' = conn /\ ~Connected(c) /\ r.ticket = cli[c].ticket
                 => FrameOk' /\ SubmitOk' /\ ResultOk' /\ PreparedOk'
<1> USE NoneApart
<1>0. /\ CompletedFinished /\ PlaneTypes /\ ClientsOk /\ IInv
      /\ FrameOk /\ SubmitOk /\ ResultOk /\ PreparedOk
      /\ TicketsKnown /\ TicketsApart /\ ForeOk /\ OneJob /\ WatchReceiptQueued
  BY DEF PInv
<1>1. /\ cli \in [Cli -> ClientRecord] /\ cli' \in [Cli -> ClientRecord]
      /\ cli'[c] = r /\ \A d \in Cli \ {c} : cli'[d] = cli[d]
  BY <1>0 DEF PlaneTypes
<1>2. IInv' /\ CompletedFinished'
  BY <1>0, BrokerKeeps
<1>3. \A d \in Cli : cli'[d].ticket \in Ticket \cup {None}
  BY <1>1 DEF ClientRecord
<1>4. PlaneTypes'
  BY <1>0, <1>1, <1>2, <1>3 DEF PlaneTypes, PlaneTypeOK, IInv
<1>5. ClientsOk'
  BY <1>0, <1>1 DEF ClientsOk, GoodClient, bvars
<1>6. TicketsKnown'
  BY <1>0, <1>1 DEF TicketsKnown, Known, bvars
<1>7. TicketsApart'
  BY <1>0, <1>1 DEF TicketsApart
<1>8. ForeOk' /\ OneJob' /\ WatchReceiptQueued'
  BY <1>0 DEF ForeOk, OneJob, WatchReceiptQueued, Running, bvars
<1>9. conn' = None => FrameOk' /\ SubmitOk' /\ ResultOk' /\ PreparedOk'
  BY DEF FrameOk, SubmitOk, ResultOk, PreparedOk
<1>10. ASSUME conn' = conn, ~Connected(c), r.ticket = cli[c].ticket
       PROVE  FrameOk' /\ SubmitOk' /\ ResultOk' /\ PreparedOk'
  <2>1. conn # None => conn.client \in (Cli \ {c}) \cup {None}
    BY <1>0, <1>10 DEF PlaneTypes, Frame, Connected
  <2>2. FrameOk'
    BY <1>0, <1>1, <1>10, <2>1 DEF FrameOk
  <2>3. cli[c].outcome # "uncertain"
    BY <1>0 DEF ClientsOk, GoodClient
  <2>4. SubmitOk'
    BY <1>0, <1>1, <1>10, <2>1, <2>3 DEF SubmitOk, bvars
  <2>5. ResultOk'
    BY <1>0, <1>10 DEF ResultOk, bvars
  <2>6. PreparedOk'
    BY <1>0, <1>1, <1>10 DEF PreparedOk, Known, bvars
  <2> QED
    BY <2>2, <2>4, <2>5, <2>6
<1> QED
  BY <1>2, <1>4, <1>5, <1>6, <1>7, <1>8, <1>9, <1>10
(* A status that is no reservation and no result leaves the client with the   *)
(* receipt it had.                                                            *)
LEMMA RefusedOpens ==
    ASSUME PInv, NEW c \in Cli, NEW status, status \notin {"Prepared", "Completed"},
           Querying(c), cli[c].pc # "submit" \/ ~cli[c].waiting \/ status \notin NotSubmittedStatus,
           NEW r, r = AfterQuery(c, status, None, "None")
    PROVE  /\ r \in ClientRecord /\ GoodClient(r) /\ r.ticket = cli[c].ticket
           /\ cli[c].pc # "done" /\ r.pc # "editing" /\ cli[c].pc # "editing"
           /\ cli[c].pc = "submit" /\ status = "Timeout" => r.outcome = "uncertain"
<1>0. cli[c] \in ClientRecord /\ GoodClient(cli[c])
  BY DEF PInv, PlaneTypes, ClientsOk
<1>1. cli[c].pc \in {"prepare", "submit", "poll"} /\ cli[c].outcome = "none"
  BY <1>0 DEF Querying, GoodClient
<1>2. /\ r \in ClientRecord
      /\ ~r.waiting
      /\ r.pc \in {"submit", "poll", "offline", "done"}
      /\ r.pc # "submit" /\ r.ticket = cli[c].ticket
      /\ r.pc = "poll" => cli[c].pc \in {"submit", "poll"}
      /\ r.outcome # "none" => r.pc = "done"
      /\ r.outcome = "not_submitted" =>
            cli[c].pc = "submit" /\ status \in NotSubmittedStatus
      /\ r.outcome \notin {"ok", "failed"}
      /\ cli[c].pc = "submit" /\ status = "Timeout" => r.outcome = "uncertain"
  BY <1>0, <1>1, Hears
<1>3. GoodClient(r)
  BY <1>0, <1>1, <1>2 DEF GoodClient
<1> QED
  BY <1>1, <1>2, <1>3

(* open_client sends the question or is told there is no room.                *)
LEMMA OpenKeeps ==
    ASSUME PInv, NEW c \in Cli, OpenClient(c)
    PROVE  PInv'
<1> USE NoneApart
<1>0. /\ cli[c] \in ClientRecord /\ GoodClient(cli[c]) /\ cli[c].outcome = "none"
      /\ cli[c].pc \in {"prepare", "submit", "poll"} /\ ~cli[c].waiting
      /\ cli \in [Cli -> ClientRecord] /\ lease \in Cli \cup {"Host", None}
      /\ conn \in Frame \cup {None} /\ Owned /\ FrameOk
  BY DEF PInv, PlaneTypes, ClientsOk, GoodClient, OpenClient, Querying, PlaneTypeOK
<1>1. CASE up /\ conn = None
  <2>1. PICK r : r = [cli[c] EXCEPT !.waiting = TRUE]
    OBVIOUS
  <2>2. /\ r \in ClientRecord /\ GoodClient(r) /\ r.ticket = cli[c].ticket /\ r.pc = cli[c].pc
        /\ r.waiting
    BY <1>0, <2>1 DEF ClientRecord, GoodClient
  <2>3. /\ cli' = [cli EXCEPT ![c] = r]
        /\ UNCHANGED <<bvars, up, lease, fg, job, disables, receipts, watch>>
        /\ conn' = [client |-> c, command |-> cli[c].pc, request |-> cli[c].request,
                    ticket |-> cli[c].ticket, status |-> "sent", completion |-> "None"]
    BY <1>0, <1>1, <2>1 DEF OpenClient
  <2>4. \A t \in Ticket \cup {None} : t \in (Nat \X Nat) \cup {None}
    BY DEF Ticket, Id
  <2>5. cli[c].ticket \in Ticket \cup {None} /\ cli[c].request \in Request
    BY <1>0 DEF ClientRecord
  <2>6. conn' \in Frame
    BY <1>0, <2>3, <2>4, <2>5 DEF Frame, Status
  <2>7. /\ conn'.client = c /\ conn'.command = cli[c].pc /\ conn'.ticket = cli[c].ticket
        /\ conn'.status = "sent"
    BY <2>3
  <2>8. cli'[c] = r /\ \A d \in Cli \ {c} : cli'[d] = cli[d]
    BY <1>0, <2>3
  <2>9. FrameOk'
    BY <1>0, <2>2, <2>5, <2>7, <2>8 DEF FrameOk, GoodClient
  <2>10. SubmitOk'
    BY <1>0, <2>3, <2>7, <2>8 DEF SubmitOk, GoodClient, bvars
  <2>11. ResultOk' /\ PreparedOk'
    BY <2>7 DEF ResultOk, PreparedOk
  <2>12. Owned'
    BY <1>0, <2>2, <2>3, <2>8 DEF Owned
  <2> QED
    BY <1>0, <2>2, <2>3, <2>6, <2>9, <2>10, <2>11, <2>12, ClientMoves DEF PInv
<1>2. CASE ~(up /\ conn = None)
  <2>1. PICK status : status = IF up THEN "Busy" ELSE "NotRunning"
    OBVIOUS
  <2>2. PICK r : r = AfterQuery(c, status, None, "None")
    OBVIOUS
  <2>3. /\ cli' = [cli EXCEPT ![c] = r] /\ conn' = conn
        /\ UNCHANGED <<bvars, up, lease, fg, job, disables, receipts, watch>>
    BY <1>2, <2>1, <2>2 DEF OpenClient, Heard
  <2>4. /\ r \in ClientRecord /\ GoodClient(r) /\ r.ticket = cli[c].ticket
        /\ cli[c].pc # "done" /\ r.pc # "editing"
    BY <1>0, <2>1, <2>2, RefusedOpens DEF Querying
  <2>5. ~Connected(c)
    BY <1>0 DEF FrameOk, Connected
  <2>6. cli'[c] = r /\ \A d \in Cli \ {c} : cli'[d] = cli[d]
    BY <1>0, <2>3
  <2>7. Owned'
    BY <1>0, <2>3, <2>4, <2>6 DEF Owned
  <2> QED
    BY <1>0, <2>3, <2>4, <2>5, <2>7, ClientMoves DEF PInv
<1> QED
  BY <1>1, <1>2

(* The pipe breaks under a waiting client.                                    *)
LEMMA BrokenKeeps ==
    ASSUME PInv, NEW c \in Cli, QueryBroken(c)
    PROVE  PInv'
<1> USE NoneApart
<1>0. /\ cli \in [Cli -> ClientRecord] /\ lease \in Cli \cup {"Host", None}
      /\ GoodClient(cli[c]) /\ conn \in Frame \cup {None} /\ Owned
  BY DEF PInv, PlaneTypes, ClientsOk, PlaneTypeOK
<1>1. Querying(c) /\ "CommunicationError" \notin NotSubmittedStatus
  BY <1>0 DEF QueryBroken, GoodClient, Querying, NotSubmittedStatus
<1>2. PICK r : r = AfterQuery(c, "CommunicationError", None, "None")
  OBVIOUS
<1>3. /\ r \in ClientRecord /\ GoodClient(r) /\ r.ticket = cli[c].ticket
      /\ cli[c].pc # "done" /\ r.pc # "editing"
  BY <1>1, <1>2, RefusedOpens
<1>4. /\ cli' = [cli EXCEPT ![c] = r] /\ conn' = conn /\ ~Connected(c)
      /\ UNCHANGED <<bvars, up, lease, fg, job, disables, receipts, watch>>
  BY <1>2 DEF QueryBroken, Heard
<1>5. cli'[c] = r /\ \A d \in Cli \ {c} : cli'[d] = cli[d]
  BY <1>0, <1>4
<1>6. Owned'
  BY <1>0, <1>3, <1>4, <1>5 DEF Owned
<1> QED
  BY <1>0, <1>3, <1>4, <1>6, ClientMoves DEF PInv

(* A client gives up; the frame it wrote stays in the pipe.                   *)
LEMMA TimeoutKeeps ==
    ASSUME PInv, NEW c \in Cli, QueryTimeout(c)
    PROVE  PInv'
<1> USE NoneApart
<1>0. /\ cli \in [Cli -> ClientRecord] /\ lease \in Cli \cup {"Host", None}
      /\ GoodClient(cli[c]) /\ conn \in Frame \cup {None} /\ Owned /\ FrameOk /\ SubmitOk
      /\ conn # None /\ conn.client = c
  BY DEF PInv, PlaneTypes, ClientsOk, PlaneTypeOK, QueryTimeout, Connected
<1>1. Querying(c) /\ "Timeout" \notin NotSubmittedStatus
  BY <1>0 DEF FrameOk, GoodClient, Querying, NotSubmittedStatus
<1>2. PICK r : r = AfterQuery(c, "Timeout", None, "None")
  OBVIOUS
<1>3. /\ r \in ClientRecord /\ GoodClient(r) /\ r.ticket = cli[c].ticket
      /\ cli[c].pc # "done" /\ r.pc # "editing"
      /\ cli[c].pc = "submit" => r.outcome = "uncertain"
  BY <1>1, <1>2, RefusedOpens
<1>4. /\ cli' = [cli EXCEPT ![c] = r]
      /\ conn' = IF conn.status = "sent" THEN [conn EXCEPT !.client = None] ELSE None
      /\ UNCHANGED <<bvars, up, lease, fg, job, disables, receipts, watch>>
  BY <1>2 DEF QueryTimeout, Heard
<1>5. cli'[c] = r /\ \A d \in Cli \ {c} : cli'[d] = cli[d]
  BY <1>0, <1>4
<1>6. Owned'
  BY <1>0, <1>3, <1>4, <1>5 DEF Owned
<1>7. CASE conn.status # "sent"
  BY <1>0, <1>3, <1>4, <1>6, <1>7, ClientMoves DEF PInv
<1>8. CASE conn.status = "sent"
  <2>1. /\ conn' \in Frame /\ conn'.client = None /\ conn'.status = "sent"
        /\ conn'.command = conn.command /\ conn'.ticket = conn.ticket
    BY <1>0, <1>4, <1>8 DEF Frame
  <2>2. FrameOk'
    BY <1>0, <2>1 DEF FrameOk
  <2>3. SubmitOk'
    BY <1>0, <1>3, <1>5, <2>1 DEF SubmitOk, FrameOk
  <2>4. ResultOk' /\ PreparedOk'
    BY <2>1 DEF ResultOk, PreparedOk
  <2> QED
    BY <1>0, <1>3, <1>4, <1>6, <2>1, <2>2, <2>3, <2>4, ClientMoves DEF PInv
<1> QED
  BY <1>7, <1>8

(* A client reads its report.                                                 *)
LEMMA ReceiveKeeps ==
    ASSUME PInv, NEW c \in Cli, Receive(c)
    PROVE  PInv'
<1> USE NoneApart
<1>0. /\ cli \in [Cli -> ClientRecord] /\ lease \in Cli \cup {"Host", None}
      /\ GoodClient(cli[c]) /\ conn \in Frame /\ Owned /\ FrameOk /\ SubmitOk
      /\ ResultOk /\ PreparedOk /\ conn # None /\ conn.client = c /\ cli[c] \in ClientRecord
  BY DEF PInv, PlaneTypes, ClientsOk, PlaneTypeOK, Receive, Connected
<1>1. /\ Querying(c) /\ cli[c].waiting /\ cli[c].pc = conn.command /\ cli[c].outcome = "none"
      /\ cli[c].pc \in {"prepare", "submit", "poll"}
      /\ cli[c].pc # "prepare" => cli[c].ticket = conn.ticket
  BY <1>0 DEF FrameOk, GoodClient, Querying
<1>2. PICK r : r = AfterQuery(c, conn.status, conn.ticket, conn.completion)
  OBVIOUS
<1>3. cli[c].pc = "prepare" /\ conn.status = "Prepared" => conn.ticket \in Ticket
  BY <1>0, <1>1 DEF PreparedOk
<1>4. /\ r \in ClientRecord
      /\ ~r.waiting
      /\ r.pc \in {"submit", "poll", "offline", "done"}
      /\ r.pc = "submit" => cli[c].pc = "prepare" /\ conn.status = "Prepared" /\ r.ticket = conn.ticket
      /\ r.pc # "submit" => r.ticket = cli[c].ticket
      /\ r.pc = "poll" => cli[c].pc \in {"submit", "poll"}
      /\ r.outcome # "none" => r.pc = "done"
      /\ r.outcome = "not_submitted" =>
            cli[c].pc = "submit" /\ conn.status \in NotSubmittedStatus
      /\ r.outcome \in {"ok", "failed"} => cli[c].pc # "prepare" /\ conn.status = "Completed"
  BY <1>0, <1>1, <1>2, <1>3, Hears
<1>7. /\ cli' = [cli EXCEPT ![c] = r] /\ conn' = None
      /\ UNCHANGED <<bvars, up, lease, fg, job, disables, receipts, watch>>
  BY <1>2 DEF Receive
<1>8. cli'[c] = r /\ \A d \in Cli \ {c} : cli'[d] = cli[d]
  BY <1>0, <1>7
<1>9. Owned'
  BY <1>0, <1>1, <1>4, <1>7, <1>8 DEF Owned
<1>10. /\ GoodClient(r)
       /\ \/ r.ticket = cli[c].ticket
          \/ /\ r.ticket \in Ticket /\ Known(r.ticket)
             /\ \A d \in Cli : cli[d].ticket # r.ticket
             /\ \A p \in Plugin : receipts[p] # r.ticket
             /\ fg.ticket # r.ticket
  <2>1. CASE r.pc = "submit"
    <3>1. /\ r.ticket \in Ticket /\ Known(r.ticket) /\ r.ticket \notin accepted
          /\ \A d \in Cli : cli[d].ticket # r.ticket
          /\ \A p \in Plugin : receipts[p] # r.ticket
          /\ fg.ticket # r.ticket
      BY <1>0, <1>1, <1>4, <2>1 DEF PreparedOk
    <3> QED
      BY <1>4, <2>1, <3>1 DEF GoodClient
  <2>2. CASE r.pc # "submit"
    <3>1. r.ticket = cli[c].ticket
      BY <1>4, <2>2
    <3>2. r.outcome \in {"ok", "failed"} => r.ticket \in finished
      BY <1>0, <1>1, <1>4, <3>1 DEF ResultOk
    <3>3. r.outcome = "not_submitted" => r.ticket \notin accepted
      BY <1>0, <1>1, <1>4, <3>1 DEF SubmitOk
    <3> QED
      BY <1>0, <1>1, <1>4, <2>2, <3>1, <3>2, <3>3 DEF GoodClient
  <2> QED
    BY <2>1, <2>2
<1> QED
  BY <1>0, <1>1, <1>4, <1>7, <1>9, <1>10, ClientMoves DEF PInv

(* The steps of a client that needs no Host (offline_edit, the poll deadline). *)
LEMMA OfflineKeeps ==
    ASSUME PInv, NEW c \in Cli,
           PollDeadline(c) \/ OfflineLease(c) \/ OfflineRefused(c) \/ OfflineEdit(c)
    PROVE  PInv'
<1> USE NoneApart
<1>0. /\ cli \in [Cli -> ClientRecord] /\ lease \in Cli \cup {"Host", None}
      /\ GoodClient(cli[c]) /\ conn \in Frame \cup {None} /\ Owned /\ FrameOk
      /\ cli[c] \in ClientRecord
  BY DEF PInv, PlaneTypes, ClientsOk, PlaneTypeOK
<1>1. /\ cli[c].pc # "done" /\ ~cli[c].waiting /\ cli[c].outcome = "none"
      /\ cli[c].pc # "submit"
  BY <1>0 DEF GoodClient, PollDeadline, OfflineLease, OfflineRefused, OfflineEdit
<1>2. ~Connected(c)
  BY <1>0, <1>1 DEF FrameOk, Connected
<1>3. /\ UNCHANGED <<bvars, up, fg, job, disables, receipts, watch>>
      /\ conn' = conn
  BY DEF PollDeadline, OfflineLease, OfflineRefused, OfflineEdit
<1>4. CASE OfflineLease(c)
  <2>1. PICK r : r = [cli[c] EXCEPT !.pc = "editing"]
    OBVIOUS
  <2>2. r \in ClientRecord /\ GoodClient(r) /\ r.ticket = cli[c].ticket
    BY <1>0, <1>1, <2>1 DEF ClientRecord, GoodClient
  <2>3. cli' = [cli EXCEPT ![c] = r] /\ lease' = c /\ lease = None
    BY <1>4, <2>1 DEF OfflineLease, LeaseFree
  <2>4. cli'[c] = r /\ \A d \in Cli \ {c} : cli'[d] = cli[d]
    BY <1>0, <2>3
  <2>5. Owned'
    BY <1>0, <1>3, <2>3, <2>4 DEF Owned
  <2> QED
    BY <1>0, <1>1, <1>2, <1>3, <2>2, <2>3, <2>5, ClientMoves DEF PInv
<1>5. CASE PollDeadline(c) \/ OfflineRefused(c) \/ OfflineEdit(c)
  <2>1. PICK o : /\ o = IF cli[c].pc = "poll" THEN "uncertain" ELSE
                        IF cli[c].pc = "offline" THEN "offline_unavailable" ELSE "offline"
    OBVIOUS
  <2>2. PICK r : r = Ended(c, o)
    OBVIOUS
  <2>3. /\ r \in ClientRecord /\ GoodClient(r) /\ r.ticket = cli[c].ticket
        /\ r.pc = "done"
    BY <1>0, <1>1, <2>1, <2>2 DEF ClientRecord, GoodClient, Ended, Outcome
  <2>4. cli' = [cli EXCEPT ![c] = r]
    BY <1>5, <2>1, <2>2 DEF PollDeadline, OfflineRefused, OfflineEdit
  <2>5. \/ lease' = lease
        \/ lease' = None /\ cli[c].pc = "editing"
    BY <1>5 DEF PollDeadline, OfflineRefused, OfflineEdit
  <2>6. cli'[c] = r /\ \A d \in Cli \ {c} : cli'[d] = cli[d]
    BY <1>0, <2>4
  <2>7. Owned'
    BY <1>0, <1>3, <2>3, <2>5, <2>6 DEF Owned
  <2> QED
    BY <1>0, <1>1, <1>2, <1>3, <2>3, <2>4, <2>5, <2>7, ClientMoves DEF PInv
<1> QED
  BY <1>4, <1>5

(* What a step of the Host that leaves the clients alone preserves: t is the  *)
(* receipt it may queue, new the one it may reserve.                          *)
LEMMA HostMoves ==
    ASSUME PInv, [Next]_bvars, cli' = cli,
           receipts' \in [Plugin -> Ticket \cup {None}], fg' \in Loop,
           NEW t, NEW new,
           accepted' \subseteq accepted \cup {t},
           \A c \in Cli : cli[c].ticket # None => cli[c].ticket # t,
           conn # None /\ conn.command = "prepare" /\ conn.status = "Prepared" => conn.ticket # t,
           new = None \/ (new \in Ticket /\ ~Known(new) /\ Known(new)'),
           \A p \in Plugin : receipts'[p] \in {None, receipts[p], new},
           fg'.ticket \in {None, fg.ticket, new}
    PROVE  /\ IInv' /\ CompletedFinished' /\ ClientsOk' /\ TicketsKnown' /\ TicketsApart'
           /\ conn' = conn => FrameOk' /\ SubmitOk' /\ ResultOk' /\ PreparedOk'
<1> USE NoneApart
<1>0. /\ CompletedFinished /\ PlaneTypes /\ ClientsOk /\ IInv
      /\ FrameOk /\ SubmitOk /\ ResultOk /\ PreparedOk
      /\ TicketsKnown /\ TicketsApart
  BY DEF PInv
<1>1. /\ IInv' /\ CompletedFinished' /\ finished \subseteq finished'
      /\ \A u \in Ticket : Known(u) => Known(u)'
  BY <1>0, BrokerKeeps
<1>2. /\ cli \in [Cli -> ClientRecord] /\ accepted \subseteq Ticket
      /\ \A c \in Cli : cli[c].ticket \in Ticket \cup {None}
      /\ receipts \in [Plugin -> Ticket \cup {None}] /\ fg.ticket \in Ticket \cup {None}
  BY <1>0 DEF PlaneTypes, PlaneTypeOK, IInv, TypeOK, ClientRecord, Loop
<1>10. accepted' \subseteq Ticket
  BY <1>1 DEF IInv, TypeOK, Ticket
<1>3. ClientsOk'
  BY <1>0, <1>1, <1>2, <1>10 DEF ClientsOk, GoodClient
<1>4. TicketsKnown'
  <2>1. \A c \in Cli : cli'[c].ticket # None => Known(cli[c].ticket)'
    BY <1>0, <1>1, <1>2 DEF TicketsKnown
  <2>2. \A p \in Plugin : receipts'[p] # None => Known(receipts[p])'
    <3> SUFFICES ASSUME NEW p \in Plugin, receipts'[p] # None
                 PROVE  Known(receipts[p])'
      OBVIOUS
    <3>1. CASE receipts'[p] = new
      BY <3>1 DEF Known
    <3>2. CASE receipts'[p] = receipts[p]
      <4>1. receipts[p] \in Ticket /\ Known(receipts[p])
        BY <1>0, <1>2, <3>2 DEF TicketsKnown
      <4>2. PICK u \in Ticket : u = receipts[p] /\ Known(u)
        BY <4>1
      <4>3. Known(u)'
        BY <1>1, <4>2
      <4> QED
        BY <3>2, <4>2, <4>3 DEF Known
    <3> QED
      BY <3>1, <3>2
  <2>3. fg'.ticket # None => Known(fg.ticket)'
    <3> SUFFICES ASSUME fg'.ticket # None
                 PROVE  Known(fg.ticket)'
      OBVIOUS
    <3>1. CASE fg'.ticket = new
      BY <3>1 DEF Known
    <3>2. CASE fg'.ticket = fg.ticket
      <4>1. PICK u \in Ticket : u = fg.ticket /\ Known(u)
        BY <1>0, <1>2, <3>2 DEF TicketsKnown
      <4>2. Known(u)'
        BY <1>1, <4>1
      <4> QED
        BY <3>2, <4>1, <4>2 DEF Known
    <3> QED
      BY <3>1, <3>2
  <2> QED
    BY <2>1, <2>2, <2>3 DEF TicketsKnown
<1>5. TicketsApart'
  <2> SUFFICES ASSUME NEW c \in Cli, cli[c].ticket # None
               PROVE  /\ \A d \in Cli \ {c} : cli[d].ticket # cli[c].ticket
                      /\ \A p \in Plugin : receipts'[p] # cli[c].ticket
                      /\ fg'.ticket # cli[c].ticket
    BY DEF TicketsApart
  <2>1. Known(cli[c].ticket)
    BY <1>0 DEF TicketsKnown
  <2>2. cli[c].ticket # new
    BY <2>1
  <2> QED
    BY <1>0, <2>2 DEF TicketsApart
<1>6. ASSUME conn' = conn
      PROVE  FrameOk' /\ SubmitOk' /\ ResultOk' /\ PreparedOk'
  <2>1. FrameOk'
    BY <1>0, <1>6 DEF FrameOk
  <2>2. SubmitOk'
    <3> SUFFICES ASSUME conn # None, conn.command = "submit"
                 PROVE  SubmitOk'
      BY <1>6 DEF SubmitOk
    <3>1. conn.client # None => cli[conn.client].ticket = conn.ticket /\ conn.client \in Cli
      BY <1>0 DEF FrameOk, PlaneTypes, Frame
    <3>2. conn.ticket \in Ticket
      BY <1>0 DEF FrameOk
    <3> QED
      BY <1>0, <1>6, <3>1, <3>2 DEF SubmitOk
  <2>3. ResultOk'
    BY <1>0, <1>1, <1>6 DEF ResultOk
  <2>4. PreparedOk'
    <3> SUFFICES ASSUME conn # None, conn.command = "prepare", conn.status = "Prepared"
                 PROVE  PreparedOk'
      BY <1>6 DEF PreparedOk
    <3>1. PICK u \in Ticket : u = conn.ticket /\ Known(u)
      BY <1>0 DEF PreparedOk
    <3>2. Known(u)' /\ u # new
      BY <1>1, <3>1
    <3>3. Known(conn.ticket)'
      BY <1>6, <3>1, <3>2 DEF Known
    <3> QED
      BY <1>0, <1>6, <3>1, <3>2, <3>3 DEF PreparedOk
  <2> QED
    BY <2>1, <2>2, <2>3, <2>4
<1> QED
  BY <1>1, <1>3, <1>4, <1>5, <1>6

(* The step of the Host leaves mailbox, receipts and clients alone.           *)
LEMMA LoopKeeps ==
    ASSUME PInv, UNCHANGED <<bvars, up, lease, conn, cli, job, receipts>>,
           fg' \in Loop, fg'.ticket \in {None, fg.ticket}, fg'.pc # "watchSubmit",
           watch' \in [edit : {"none", "seen", "submitted"}, receipt : {watch.receipt}]
    PROVE  PInv'
<1> USE NoneApart
<1>0. /\ PlaneTypes /\ Owned /\ OneJob /\ WatchReceiptQueued /\ IInv
      /\ receipts \in [Plugin -> Ticket \cup {None}] /\ watch.receipt \in Ticket \cup {None}
  BY DEF PInv, PlaneTypes, PlaneTypeOK
<1>1. [Next]_bvars /\ accepted' = accepted
  BY DEF bvars
<1>2. PICK t : t = None
  OBVIOUS
<1>3. conn # None /\ conn.command = "prepare" /\ conn.status = "Prepared" => conn.ticket # t
  BY <1>2 DEF PInv, PreparedOk
<1>4. /\ IInv' /\ CompletedFinished' /\ ClientsOk' /\ TicketsKnown' /\ TicketsApart'
      /\ FrameOk' /\ SubmitOk' /\ ResultOk' /\ PreparedOk'
  BY <1>0, <1>1, <1>2, <1>3, HostMoves
<1>5. PlaneTypes'
  BY <1>0, <1>4 DEF PlaneTypes, PlaneTypeOK, IInv
<1>6. Owned' /\ ForeOk'
  BY <1>0 DEF Owned, ForeOk
<1>7. OneJob' /\ WatchReceiptQueued'
  BY <1>0 DEF OneJob, WatchReceiptQueued, Running, bvars
<1> QED
  BY <1>4, <1>5, <1>6, <1>7 DEF PInv

(* The steps of the foreground loop that only move it on.                     *)
LEMMA QuietKeeps ==
    ASSUME PInv, \/ PumpBindings \/ PollContinues \/ DispatchRetains \/ Idle \/ UpdateInstalls
                 \/ UNCHANGED vars
    PROVE  PInv'
<1>0. fg \in Loop /\ ForeOk
      /\ watch \in [edit : {"none", "seen", "submitted"}, receipt : Ticket \cup {None}]
  BY DEF PInv, PlaneTypes, PlaneTypeOK
<1>1. CASE PumpBindings
  <2>1. watch' \in {watch, [watch EXCEPT !.edit = "seen"]}
    BY <1>1 DEF PumpBindings
  <2>2. watch' \in [edit : {"none", "seen", "submitted"}, receipt : {watch.receipt}]
    BY <1>0, <2>1
  <2>3. \E S \in SUBSET Plugin : fg' = [fg EXCEPT !.pc = "disables", !.todo = S]
    BY <1>1 DEF PumpBindings
  <2>4. fg' \in Loop /\ fg'.ticket = fg.ticket /\ fg'.pc # "watchSubmit"
    BY <1>0, <2>3 DEF Loop
  <2>5. UNCHANGED <<bvars, up, lease, conn, cli, job, receipts>>
    BY <1>1 DEF PumpBindings
  <2> QED
    BY <2>2, <2>4, <2>5, LoopKeeps
<1>2. CASE PollContinues \/ DispatchRetains \/ Idle \/ UpdateInstalls
  <2>1. /\ UNCHANGED <<bvars, up, lease, conn, cli, job, receipts, watch>>
        /\ \E pc \in {"next", "pump", "watch"} : Goto(pc)
    BY <1>2 DEF PollContinues, DispatchRetains, Idle, UpdateInstalls
  <2>2. fg' \in Loop /\ fg'.ticket = None /\ fg'.pc # "watchSubmit"
    BY <1>0, <2>1 DEF Loop, Goto
  <2>3. watch' \in [edit : {"none", "seen", "submitted"}, receipt : {watch.receipt}]
    BY <1>0, <2>1
  <2> QED
    BY <2>1, <2>2, <2>3, LoopKeeps
<1>3. CASE UNCHANGED vars
  <2>1. UNCHANGED <<bvars, up, lease, conn, cli, fg, job, disables, receipts, watch>>
    BY <1>3 DEF vars, pvars
  <2>2. UNCHANGED <<incarnation, last_ticket, ready, stopped, recovery_only, records,
                    queue, accepted, runs, finished>>
    BY <2>1 DEF bvars
  <2> QED
    BY <2>1, <2>2, BrokerKeeps DEF PInv, CompletedFinished, PlaneTypes, PlaneTypeOK, IInv, Owned,
        ClientsOk, GoodClient, FrameOk, SubmitOk, ResultOk, PreparedOk, TicketsKnown, Known, TicketsApart,
        ForeOk, OneJob, Running, WatchReceiptQueued
<1> QED
  BY <1>1, <1>2, <1>3

(* The mailbox moves on while no receipt is accepted or reserved.             *)
LEMMA SimpleHostStep ==
    ASSUME PInv, [Next]_bvars, accepted' = accepted, UNCHANGED <<lease, cli, conn, receipts>>,
           fg' \in Loop, fg'.ticket \in {None, fg.ticket}
    PROVE  /\ IInv' /\ CompletedFinished' /\ ClientsOk' /\ TicketsKnown' /\ TicketsApart'
           /\ FrameOk' /\ SubmitOk' /\ ResultOk' /\ PreparedOk'
<1>0. receipts \in [Plugin -> Ticket \cup {None}]
  BY DEF PInv, PlaneTypes, PlaneTypeOK
<1>1. PICK t : t = None
  OBVIOUS
<1>2. conn # None /\ conn.command = "prepare" /\ conn.status = "Prepared" => conn.ticket # t
  BY <1>1, NoneApart DEF PInv, PreparedOk
<1> QED
  BY <1>0, <1>1, <1>2, HostMoves
(* Safe mode, readiness and the end of the loop.                              *)
LEMMA ModeKeeps ==
    ASSUME PInv, StartSafeMode \/ StartReady \/ StopHost
    PROVE  PInv'
<1> USE NoneApart
<1>0. /\ fg \in Loop /\ PlaneTypes /\ Owned /\ ForeOk /\ OneJob /\ WatchReceiptQueued
  BY DEF PInv, PlaneTypes
<1>1. /\ [Next]_bvars /\ UNCHANGED <<accepted, records, incarnation>>
      /\ UNCHANGED <<up, lease, conn, cli, job, disables, receipts, watch>>
      /\ stopped' \/ (stopped' = stopped /\ queue' = queue)
      /\ fg' = fg \/ \E pc \in {"pump", "stopped"} : Goto(pc)
  BY DEF StartSafeMode, StartReady, StopHost, RestrictToRecovery, SetReady, Stop, Next, pvars
<1>2. fg' \in Loop /\ fg'.ticket \in {None, fg.ticket} /\ ForeOk'
  BY <1>0, <1>1 DEF Goto, Loop, ForeOk
<1>3. /\ IInv' /\ CompletedFinished' /\ ClientsOk' /\ TicketsKnown' /\ TicketsApart'
      /\ FrameOk' /\ SubmitOk' /\ ResultOk' /\ PreparedOk'
  BY <1>1, <1>2, SimpleHostStep
<1>4. PlaneTypes' /\ Owned' /\ OneJob' /\ WatchReceiptQueued'
  BY <1>0, <1>1, <1>2, <1>3
     DEF PlaneTypes, PlaneTypeOK, IInv, Owned, OneJob, WatchReceiptQueued, Running
<1> QED
  BY <1>2, <1>3, <1>4 DEF PInv

(* The retained operation ends (host_control.poll, dispatch).                 *)
LEMMA JobEndKeeps ==
    ASSUME PInv, up, NEW pc \in {"next", "pump"}, JobEnds(pc)
    PROVE  PInv'
<1> USE NoneApart
<1>0. /\ fg \in Loop /\ PlaneTypes /\ Owned /\ ForeOk /\ OneJob /\ WatchReceiptQueued /\ IInv
      /\ job \in Ticket
  BY DEF PInv, PlaneTypes, PlaneTypeOK, JobEnds
<1>1. PICK result \in LifecycleResult : Complete(job, result)
  BY DEF JobEnds
<1>2. PICK t \in Ticket : t = job /\ Complete(t, result)
  BY <1>0, <1>1
<1>3. /\ [Next]_bvars
      /\ UNCHANGED <<incarnation, stopped, queue, accepted>>
      /\ t = <<incarnation, t[2]>>
      /\ Running' = Running \ {t[2]}
  BY <1>0, <1>2, CompleteDoes
<1>4. /\ UNCHANGED <<up, lease, conn, cli, disables, receipts, watch>> /\ job' = None
      /\ fg' \in Loop /\ fg'.ticket = None /\ ForeOk'
  BY <1>0 DEF JobEnds, Goto, Loop, ForeOk
<1>5. /\ IInv' /\ CompletedFinished' /\ ClientsOk' /\ TicketsKnown' /\ TicketsApart'
      /\ FrameOk' /\ SubmitOk' /\ ResultOk' /\ PreparedOk'
  BY <1>3, <1>4, SimpleHostStep
<1>6. \A id \in Running : t = <<incarnation, id>>
  BY <1>0, <1>2 DEF OneJob
<1>7. Running' = {}
  BY <1>3, <1>6
<1>8. PlaneTypes' /\ Owned' /\ OneJob' /\ WatchReceiptQueued'
  BY <1>0, <1>3, <1>4, <1>5, <1>7 DEF PlaneTypes, PlaneTypeOK, IInv, Owned, OneJob, WatchReceiptQueued
<1> QED
  BY <1>4, <1>5, <1>8 DEF PInv

(* The foreground takes the next job.                                         *)
LEMMA TakeKeeps ==
    ASSUME PInv, TakeJob
    PROVE  PInv'
<1> USE NoneApart
<1>0. /\ fg \in Loop /\ PlaneTypes /\ Owned /\ ForeOk /\ OneJob /\ WatchReceiptQueued /\ IInv
      /\ watch \in [edit : {"none", "seen", "submitted"}, receipt : Ticket \cup {None}]
      /\ job = None /\ up
  BY DEF PInv, PlaneTypes, PlaneTypeOK, TakeJob, IsPending
<1>1. /\ [Next]_bvars
      /\ UNCHANGED <<incarnation, stopped, accepted>>
      /\ <<incarnation, Head(queue)>> \in Ticket
      /\ Running' = Running \cup {Head(queue)}
      /\ \A i \in 1 .. Len(queue) :
            \/ queue[i] = Head(queue)
            \/ \E j \in 1 .. Len(queue') : queue'[j] = queue[i]
  BY <1>0, TakeDoes DEF TakeJob
<1>2. Running = {}
  BY <1>0 DEF OneJob, Running, Ticket, IInv, TypeOK
<1>3. /\ UNCHANGED <<up, lease, conn, cli, disables, receipts>>
      /\ job' = <<incarnation, Head(queue)>>
      /\ fg' \in Loop /\ fg'.ticket = None /\ ForeOk'
      /\ watch' = IF watch.receipt = <<incarnation, Head(queue)>>
                  THEN [watch EXCEPT !.receipt = None] ELSE watch
  BY <1>0 DEF TakeJob, Goto, Loop, ForeOk
<1>4. /\ IInv' /\ CompletedFinished' /\ ClientsOk' /\ TicketsKnown' /\ TicketsApart'
      /\ FrameOk' /\ SubmitOk' /\ ResultOk' /\ PreparedOk'
  BY <1>1, <1>3, SimpleHostStep
<1>5. watch' \in [edit : {"none", "seen", "submitted"}, receipt : Ticket \cup {None}]
  BY <1>0, <1>3
<1>6. PlaneTypes' /\ Owned'
  BY <1>0, <1>1, <1>3, <1>4, <1>5 DEF PlaneTypes, PlaneTypeOK, IInv, Owned
<1>7. OneJob'
  BY <1>1, <1>2, <1>3 DEF OneJob
<1>8. WatchReceiptQueued'
  <2> SUFFICES ASSUME ~stopped, watch'.receipt # None
               PROVE  \E i \in 1 .. Len(queue') : watch'.receipt = <<incarnation, queue'[i]>>
    BY <1>1 DEF WatchReceiptQueued
  <2>1. watch.receipt # <<incarnation, Head(queue)>> /\ watch' = watch
    BY <1>0, <1>3
  <2>2. PICK i \in 1 .. Len(queue) : watch.receipt = <<incarnation, queue[i]>>
    BY <1>0, <2>1 DEF WatchReceiptQueued
  <2> QED
    BY <1>1, <2>1, <2>2
<1> QED
  BY <1>3, <1>4, <1>6, <1>7, <1>8 DEF PInv

(* The Host process ends, in order or by a crash.                             *)
LEMMA GoneKeeps ==
    ASSUME PInv, up, HostGone
    PROVE  PInv'
<1> USE NoneApart
<1>0. /\ fg \in Loop /\ PlaneTypes /\ Owned /\ IInv /\ ClientsOk /\ TicketsKnown /\ TicketsApart
      /\ CompletedFinished
  BY DEF PInv, PlaneTypes
<1>1. /\ UNCHANGED bvars /\ cli' = cli /\ up' = FALSE /\ lease' = None /\ conn' = None
      /\ job' = None /\ receipts' = [p \in Plugin |-> None]
      /\ watch' = [edit |-> "none", receipt |-> None]
      /\ fg' \in Loop /\ fg'.ticket = None /\ ForeOk'
  BY <1>0 DEF HostGone, Loop, ForeOk
<1>2. IInv' /\ CompletedFinished'
  BY <1>0, <1>1, BrokerKeeps
<1>3. PlaneTypes' /\ Owned' /\ OneJob' /\ WatchReceiptQueued'
  BY <1>0, <1>1, <1>2 DEF PlaneTypes, PlaneTypeOK, IInv, Owned, OneJob, WatchReceiptQueued
<1>4. ClientsOk' /\ TicketsKnown' /\ TicketsApart'
  BY <1>0, <1>1 DEF ClientsOk, GoodClient, TicketsKnown, Known, TicketsApart, bvars
<1>5. FrameOk' /\ SubmitOk' /\ ResultOk' /\ PreparedOk'
  BY <1>1 DEF FrameOk, SubmitOk, ResultOk, PreparedOk
<1> QED
  BY <1>1, <1>2, <1>3, <1>4, <1>5 DEF PInv

(* The next Host takes the scope.                                             *)
LEMMA StartKeeps ==
    ASSUME PInv, StartHost
    PROVE  PInv'
<1> USE NoneApart
<1>0. fg \in Loop /\ PlaneTypes /\ Owned /\ ForeOk
  BY DEF PInv, PlaneTypes
<1>1. /\ [Next]_bvars /\ accepted' = accepted /\ Running' = {}
  BY DEF StartHost, Restart, Next, NoRecords, Running, Absent
<1>2. /\ UNCHANGED <<conn, cli, job, disables, receipts, watch>>
      /\ up' = TRUE /\ lease' = "Host" /\ ~up /\ lease = None
      /\ fg' \in Loop /\ fg'.ticket = fg.ticket /\ ForeOk'
  BY <1>0 DEF StartHost, Loop, ForeOk, LeaseFree
<1>3. PICK t : t = None
  OBVIOUS
<1>4. /\ conn # None /\ conn.command = "prepare" /\ conn.status = "Prepared" => conn.ticket # t
      /\ receipts \in [Plugin -> Ticket \cup {None}]
  BY <1>3 DEF PInv, PreparedOk, PlaneTypes, PlaneTypeOK
<1>5. /\ IInv' /\ CompletedFinished' /\ ClientsOk' /\ TicketsKnown' /\ TicketsApart'
      /\ FrameOk' /\ SubmitOk' /\ ResultOk' /\ PreparedOk'
  BY <1>1, <1>2, <1>3, <1>4, HostMoves
<1>6. PlaneTypes' /\ OneJob'
  BY <1>0, <1>1, <1>2, <1>5 DEF PlaneTypes, PlaneTypeOK, IInv, OneJob
<1>7. Owned' /\ WatchReceiptQueued'
  BY <1>0, <1>2 DEF Owned, WatchReceiptQueued
<1> QED
  BY <1>2, <1>5, <1>6, <1>7 DEF PInv

(* A self-disable reserves its receipt ...                                    *)
LEMMA ReserveKeeps ==
    ASSUME PInv, NEW p \in Plugin, DisableReserve(p)
    PROVE  PInv'
<1> USE NoneApart
<1>0. /\ fg \in Loop /\ PlaneTypes /\ Owned /\ ForeOk /\ OneJob /\ WatchReceiptQueued /\ IInv
      /\ receipts \in [Plugin -> Ticket \cup {None}]
  BY DEF PInv, PlaneTypes, PlaneTypeOK
<1>1. PICK new0 : new0 = Issued
  OBVIOUS
<1>2. Disable \in Request /\ BrokerPrepare(Disable)
  BY ControlConstants, PlaneConstants DEF DisableReserve
<1>3. /\ [Next]_bvars
      /\ UNCHANGED <<incarnation, stopped, queue, accepted>>
      /\ Running' = Running
      /\ PrepareStatus(Disable) = "Prepared" =>
            new0 \in Ticket /\ ~Known(new0) /\ Known(new0)' /\ new0 \notin accepted
  BY <1>0, <1>1, <1>2, PrepareDoes
<1>4. PICK new : new = IF PrepareStatus(Disable) = "Prepared" THEN new0 ELSE None
  OBVIOUS
<1>5. new = None \/ (new \in Ticket /\ ~Known(new) /\ Known(new)')
  BY <1>3, <1>4 DEF Known
<1>6. /\ UNCHANGED <<up, lease, conn, cli, job, disables, watch>>
      /\ receipts' \in [Plugin -> Ticket \cup {None}]
      /\ \A q \in Plugin : receipts'[q] \in {None, receipts[q], new}
      /\ fg' \in Loop /\ fg'.ticket = fg.ticket /\ ForeOk'
  BY <1>0, <1>1, <1>3, <1>4 DEF DisableReserve, Loop, ForeOk
<1>7. PICK t : t = None
  OBVIOUS
<1>8. conn # None /\ conn.command = "prepare" /\ conn.status = "Prepared" => conn.ticket # t
  BY <1>7 DEF PInv, PreparedOk
<1>9. /\ IInv' /\ CompletedFinished' /\ ClientsOk' /\ TicketsKnown' /\ TicketsApart'
      /\ FrameOk' /\ SubmitOk' /\ ResultOk' /\ PreparedOk'
  BY <1>3, <1>5, <1>6, <1>7, <1>8, HostMoves
<1>10. PlaneTypes' /\ Owned' /\ OneJob' /\ WatchReceiptQueued'
  BY <1>0, <1>3, <1>6, <1>9 DEF PlaneTypes, PlaneTypeOK, IInv, Owned, OneJob, WatchReceiptQueued
<1> QED
  BY <1>6, <1>9, <1>10 DEF PInv

(* ... and submits it.                                                        *)
LEMMA DisableKeeps ==
    ASSUME PInv, NEW p \in Plugin, DisableSubmit(p)
    PROVE  PInv'
<1> USE NoneApart
<1>0. /\ fg \in Loop /\ PlaneTypes /\ Owned /\ ForeOk /\ OneJob /\ WatchReceiptQueued /\ IInv
      /\ receipts \in [Plugin -> Ticket \cup {None}] /\ CompletedFinished
  BY DEF PInv, PlaneTypes, PlaneTypeOK
<1>1. PICK t \in Ticket : t = receipts[p]
  BY <1>0 DEF DisableSubmit
<1>2. BrokerSubmit(t)
  BY <1>1 DEF DisableSubmit
<1>3. /\ [Next]_bvars
      /\ UNCHANGED <<incarnation, stopped>>
      /\ Running' = Running
      /\ accepted' \subseteq accepted \cup {t}
      /\ \A i \in 1 .. Len(queue) : i \in 1 .. Len(queue') /\ queue'[i] = queue[i]
  BY <1>0, <1>2, SubmitDoes
<1>4. /\ UNCHANGED <<up, lease, conn, cli, job, watch>>
      /\ receipts' \in [Plugin -> Ticket \cup {None}]
      /\ \A q \in Plugin : receipts'[q] \in {None, receipts[q]}
      /\ fg' \in Loop /\ fg'.ticket = fg.ticket /\ ForeOk'
  BY <1>0 DEF DisableSubmit, Loop, ForeOk
<1>5. /\ \A c \in Cli : cli[c].ticket # None => cli[c].ticket # t
      /\ conn # None /\ conn.command = "prepare" /\ conn.status = "Prepared" => conn.ticket # t
  BY <1>1 DEF PInv, TicketsApart, PreparedOk
<1>6. /\ IInv' /\ CompletedFinished' /\ ClientsOk' /\ TicketsKnown' /\ TicketsApart'
      /\ FrameOk' /\ SubmitOk' /\ ResultOk' /\ PreparedOk'
  BY <1>3, <1>4, <1>5, HostMoves
<1>7. PlaneTypes' /\ Owned' /\ OneJob' /\ WatchReceiptQueued'
  BY <1>0, <1>3, <1>4, <1>6 DEF PlaneTypes, PlaneTypeOK, IInv, Owned, OneJob, WatchReceiptQueued
<1> QED
  BY <1>4, <1>6, <1>7 DEF PInv

(* A watched edit reserves its receipt ...                                    *)
LEMMA WatchReserveKeeps ==
    ASSUME PInv, WatchReserve
    PROVE  PInv'
<1> USE NoneApart
<1>0. /\ fg \in Loop /\ PlaneTypes /\ Owned /\ ForeOk /\ OneJob /\ WatchReceiptQueued /\ IInv
      /\ receipts \in [Plugin -> Ticket \cup {None}]
  BY DEF PInv, PlaneTypes, PlaneTypeOK
<1>1. PICK new0 : new0 = Issued
  OBVIOUS
<1>2. Reload \in Request /\ BrokerPrepare(Reload)
  BY PlaneConstants DEF WatchReserve
<1>3. /\ [Next]_bvars
      /\ UNCHANGED <<incarnation, stopped, queue, accepted>>
      /\ Running' = Running
      /\ PrepareStatus(Reload) = "Prepared" =>
            new0 \in Ticket /\ ~Known(new0) /\ Known(new0)' /\ new0 \notin accepted
  BY <1>0, <1>1, <1>2, PrepareDoes
<1>4. PICK new : new = IF PrepareStatus(Reload) = "Prepared" THEN new0 ELSE None
  OBVIOUS
<1>5. new = None \/ (new \in Ticket /\ ~Known(new) /\ Known(new)')
  BY <1>3, <1>4 DEF Known
<1>6. /\ UNCHANGED <<up, lease, conn, cli, job, disables, receipts, watch>>
      /\ fg' \in Loop /\ fg'.ticket \in {None, fg.ticket, new} /\ ForeOk'
  BY <1>0, <1>1, <1>3, <1>4 DEF WatchReserve, Loop, ForeOk
<1>7. PICK t : t = None
  OBVIOUS
<1>8. conn # None /\ conn.command = "prepare" /\ conn.status = "Prepared" => conn.ticket # t
  BY <1>7 DEF PInv, PreparedOk
<1>9. /\ IInv' /\ CompletedFinished' /\ ClientsOk' /\ TicketsKnown' /\ TicketsApart'
      /\ FrameOk' /\ SubmitOk' /\ ResultOk' /\ PreparedOk'
  BY <1>0, <1>3, <1>5, <1>6, <1>7, <1>8, HostMoves
<1>10. PlaneTypes' /\ Owned' /\ OneJob' /\ WatchReceiptQueued'
  BY <1>0, <1>3, <1>6, <1>9 DEF PlaneTypes, PlaneTypeOK, IInv, Owned, OneJob, WatchReceiptQueued
<1> QED
  BY <1>6, <1>9, <1>10 DEF PInv

(* ... and submits it.                                                        *)
LEMMA WatchSubmitKeeps ==
    ASSUME PInv, WatchSubmit
    PROVE  PInv'
<1> USE NoneApart
<1>0. /\ fg \in Loop /\ PlaneTypes /\ Owned /\ ForeOk /\ OneJob /\ WatchReceiptQueued /\ IInv
      /\ receipts \in [Plugin -> Ticket \cup {None}] /\ CompletedFinished /\ up
      /\ watch \in [edit : {"none", "seen", "submitted"}, receipt : Ticket \cup {None}]
  BY DEF PInv, PlaneTypes, PlaneTypeOK, WatchSubmit
<1>1. PICK t \in Ticket : t = fg.ticket
  BY <1>0 DEF WatchSubmit, ForeOk, Loop
<1>2. BrokerSubmit(t)
  BY <1>1 DEF WatchSubmit
<1>3. /\ [Next]_bvars
      /\ UNCHANGED <<incarnation, stopped>>
      /\ Running' = Running
      /\ accepted' \subseteq accepted \cup {t}
      /\ SubmitStatus(t) = "Queued" =>
            \E i \in 1 .. Len(queue') : t = <<incarnation', queue'[i]>>
      /\ \A i \in 1 .. Len(queue) : i \in 1 .. Len(queue') /\ queue'[i] = queue[i]
  BY <1>0, <1>2, SubmitDoes
<1>4. /\ UNCHANGED <<up, lease, conn, cli, job, disables, receipts>>
      /\ fg' \in Loop /\ fg'.ticket = None /\ ForeOk'
      /\ watch' = IF SubmitStatus(t) = "Queued"
                  THEN [edit |-> "submitted", receipt |-> t] ELSE watch
  BY <1>0, <1>1 DEF WatchSubmit, Goto, Loop, ForeOk, WatchKeeps
<1>5. /\ \A c \in Cli : cli[c].ticket # None => cli[c].ticket # t
      /\ conn # None /\ conn.command = "prepare" /\ conn.status = "Prepared" => conn.ticket # t
  BY <1>1 DEF PInv, TicketsApart, PreparedOk
<1>6. /\ IInv' /\ CompletedFinished' /\ ClientsOk' /\ TicketsKnown' /\ TicketsApart'
      /\ FrameOk' /\ SubmitOk' /\ ResultOk' /\ PreparedOk'
  BY <1>0, <1>3, <1>4, <1>5, HostMoves
<1>7. watch' \in [edit : {"none", "seen", "submitted"}, receipt : Ticket \cup {None}]
  BY <1>0, <1>4
<1>8. PlaneTypes' /\ Owned' /\ OneJob'
  BY <1>0, <1>3, <1>4, <1>6, <1>7 DEF PlaneTypes, PlaneTypeOK, IInv, Owned, OneJob
<1>9. WatchReceiptQueued'
  BY <1>0, <1>3, <1>4 DEF WatchReceiptQueued
<1> QED
  BY <1>4, <1>6, <1>8, <1>9 DEF PInv

(* The pipe worker serves a reservation.                                      *)
LEMMA ServePrepareKeeps ==
    ASSUME PInv, Serve, ServePrepare
    PROVE  PInv'
<1> USE NoneApart
<1>0. /\ PlaneTypes /\ Owned /\ ForeOk /\ OneJob /\ WatchReceiptQueued /\ IInv
      /\ receipts \in [Plugin -> Ticket \cup {None}] /\ fg \in Loop /\ TicketsApart /\ TicketsKnown
      /\ conn \in Frame /\ conn # None /\ conn.command = "prepare" /\ conn.status = "sent" /\ FrameOk
      /\ cli \in [Cli -> ClientRecord]
  BY DEF PInv, PlaneTypes, PlaneTypeOK, Serve, ServePrepare
<1>1. PICK new0 : new0 = Issued
  OBVIOUS
<1>2. conn.request \in Request /\ BrokerPrepare(conn.request)
  BY <1>0 DEF ServePrepare, Frame
<1>3. /\ [Next]_bvars
      /\ UNCHANGED <<incarnation, stopped, queue, accepted>>
      /\ Running' = Running
      /\ PrepareStatus(conn.request) \in Status \ {"sent", "Completed"}
      /\ PrepareStatus(conn.request) = "Prepared" =>
            new0 \in Ticket /\ ~Known(new0) /\ Known(new0)' /\ new0 \notin accepted
  <2>1. PICK q \in Request : q = conn.request
    BY <1>2
  <2> QED
    BY <1>0, <1>1, <1>2, <2>1, PrepareDoes
<1>4. UNCHANGED <<up, lease, cli, fg, job, disables, receipts, watch>>
  BY DEF Serve
<1>5. PICK t : t = None
  OBVIOUS
<1>6. conn # None /\ conn.command = "prepare" /\ conn.status = "Prepared" => conn.ticket # t
  BY <1>0
<1>7. IInv' /\ CompletedFinished' /\ ClientsOk' /\ TicketsKnown' /\ TicketsApart'
  BY <1>0, <1>3, <1>4, <1>5, <1>6, HostMoves
<1>8. new0 \in Nat \X Nat
  BY <1>0, <1>1 DEF Issued, NextTicket, IInv, TypeOK
<1>9. conn' \in Frame \cup {None}
  BY <1>0, <1>1, <1>3, <1>8 DEF ServePrepare, Reply, Frame
<1>10. PlaneTypes' /\ Owned' /\ ForeOk' /\ OneJob' /\ WatchReceiptQueued'
  BY <1>0, <1>3, <1>4, <1>7, <1>9
     DEF PlaneTypes, PlaneTypeOK, IInv, Owned, ForeOk, OneJob, WatchReceiptQueued
<1>11. CASE conn.client = None
  <2>1. conn' = None
    BY <1>11 DEF ServePrepare, Reply
  <2>2. FrameOk' /\ SubmitOk' /\ ResultOk' /\ PreparedOk'
    BY <2>1 DEF FrameOk, SubmitOk, ResultOk, PreparedOk
  <2> QED
    BY <1>7, <1>10, <2>2 DEF PInv
<1>12. CASE conn.client # None
  <2>1. /\ conn'.client = conn.client /\ conn'.command = "prepare" /\ conn'.ticket = new0
        /\ conn'.status = PrepareStatus(conn.request)
    BY <1>0, <1>1, <1>12 DEF ServePrepare, Reply, Frame
  <2>2. FrameOk' /\ SubmitOk' /\ ResultOk'
    BY <1>0, <1>4, <1>12, <2>1 DEF FrameOk, SubmitOk, ResultOk
  <2>3. ASSUME conn'.status = "Prepared"
        PROVE  PreparedOk'
    <3>1. new0 \in Ticket /\ ~Known(new0) /\ Known(new0)' /\ new0 \notin accepted
      BY <1>3, <2>1, <2>3
    <3>2. /\ \A c \in Cli : cli[c].ticket # new0
          /\ \A p \in Plugin : receipts[p] # new0
          /\ fg.ticket # new0
      BY <1>0, <3>1 DEF TicketsKnown
    <3>3. Known(conn.ticket)'
      BY <2>1, <3>1 DEF Known
    <3> QED
      BY <1>3, <1>4, <2>1, <3>1, <3>2, <3>3 DEF PreparedOk
  <2>4. PreparedOk'
    BY <2>3 DEF PreparedOk
  <2> QED
    BY <1>7, <1>10, <2>2, <2>4 DEF PInv
<1> QED
  BY <1>11, <1>12

(* The pipe worker serves a submission or a poll.                             *)
LEMMA ServeTicketKeeps ==
    ASSUME PInv, Serve, ServeSubmit \/ ServeResult
    PROVE  PInv'
<1> USE NoneApart
<1>0. /\ PlaneTypes /\ Owned /\ ForeOk /\ OneJob /\ WatchReceiptQueued /\ IInv
      /\ receipts \in [Plugin -> Ticket \cup {None}] /\ fg \in Loop /\ TicketsApart /\ TicketsKnown
      /\ conn \in Frame /\ conn # None /\ conn.command \in {"submit", "poll"} /\ conn.status = "sent"
      /\ FrameOk /\ SubmitOk /\ ResultOk /\ PreparedOk /\ ClientsOk /\ CompletedFinished
      /\ cli \in [Cli -> ClientRecord] /\ accepted \subseteq Ticket /\ TypeOK
  BY DEF PInv, PlaneTypes, PlaneTypeOK, Serve, ServeSubmit, ServeResult, IInv, TypeOK
<1>1. PICK t \in Ticket : t = conn.ticket
  BY <1>0 DEF FrameOk
<1>2. PICK status : status = IF conn.command = "submit" THEN SubmitStatus(t) ELSE ResolveStatus(t)
  OBVIOUS
<1>3. PICK completion : completion = records[t[2]].completion
  OBVIOUS
<1>4. /\ UNCHANGED <<up, lease, cli, fg, job, disables, receipts, watch>>
      /\ conn' = IF conn.client = None THEN None
                 ELSE [conn EXCEPT !.status = status, !.ticket = t, !.completion = completion]
  BY <1>1, <1>2, <1>3 DEF Serve, ServeSubmit, ServeResult, Reply
<1>5. /\ [Next]_bvars
      /\ UNCHANGED <<incarnation, stopped>>
      /\ Running' = Running
      /\ accepted' \subseteq accepted \cup {t}
      /\ conn.command = "poll" => accepted' = accepted
      /\ status \in Status \ {"sent"}
      /\ conn.command = "submit" /\ status # "Queued" => accepted' = accepted
      /\ status = "Completed" => t \in finished
      /\ \A i \in 1 .. Len(queue) : i \in 1 .. Len(queue') /\ queue'[i] = queue[i]
  <2>1. CASE conn.command = "submit"
    <3>1. BrokerSubmit(t)
      BY <1>1, <2>1 DEF ServeSubmit, ServeResult
    <3> QED
      BY <1>0, <1>2, <2>1, <3>1, SubmitDoes
  <2>2. CASE conn.command = "poll"
    <3>1. UNCHANGED bvars
      BY <2>2 DEF ServeSubmit, ServeResult
    <3>2. t = <<t[1], t[2]>> /\ t[2] \in Id
      BY DEF Ticket
    <3>3. records[t[2]].status \in ControlStatus \cup {"Absent"}
      BY <1>0, <3>2, AbsentIsNoRecord DEF TypeOK
    <3>4. status = ResolveStatus(t)
      BY <1>2, <2>2
    <3>5. status \in Status \ {"sent"}
      BY <3>3, <3>4 DEF ResolveStatus, Status, ControlStatus, NotSubmittedStatus
    <3>6. status = "Completed" => t \in finished
      BY <1>0, <3>2, <3>3, <3>4 DEF ResolveStatus, CompletedFinished
    <3> QED
      BY <2>2, <3>1, <3>5, <3>6 DEF bvars, Running
  <2> QED
    BY <1>0, <2>1, <2>2
<1>6. completion \in {"None", "Report", "Error"}
  <2>1. t[2] \in Id
    BY DEF Ticket
  <2>2. records[t[2]] \in Record \cup {Absent}
    BY <1>0, <2>1 DEF TypeOK
  <2> QED
    BY <1>3, <2>2 DEF Record, Absent
<1>7. /\ IInv' /\ CompletedFinished' /\ finished \subseteq finished'
      /\ \A u \in Ticket : Known(u) => Known(u)'
  BY <1>0, <1>5, BrokerKeeps
<1>8. \A c \in Cli : cli[c].ticket \in Ticket \cup {None}
  BY <1>0 DEF ClientRecord
<1>9. \A c \in Cli :
         (cli[c].pc = "submit" /\ ~cli[c].waiting) \/ cli[c].outcome = "not_submitted"
            => cli[c].ticket \notin accepted'
  <2> SUFFICES ASSUME NEW c \in Cli,
                      (cli[c].pc = "submit" /\ ~cli[c].waiting) \/ cli[c].outcome = "not_submitted"
               PROVE  cli[c].ticket \notin accepted'
    OBVIOUS
  <2>1. cli[c].ticket \notin accepted /\ (cli[c].waiting => cli[c].outcome = "none")
    BY <1>0 DEF ClientsOk, GoodClient
  <2>2. CASE conn.command = "poll"
    BY <1>5, <2>1, <2>2
  <2>3. CASE conn.command = "submit"
    <3>1. PICK d \in Cli : cli[d].ticket = t /\ (cli[d].outcome = "uncertain" \/ cli[d].waiting)
      BY <1>0, <1>1, <2>3 DEF FrameOk, SubmitOk, Frame
    <3>2. GoodClient(cli[d])
      BY <1>0 DEF ClientsOk
    <3>3. c # d
      BY <3>1, <3>2 DEF GoodClient
    <3>4. cli[c].ticket # t
      BY <1>0, <3>1, <3>3 DEF TicketsApart
    <3> QED
      BY <1>5, <2>1, <3>4
  <2> QED
    BY <1>0, <2>2, <2>3
<1>10. ClientsOk'
  BY <1>0, <1>4, <1>7, <1>9 DEF ClientsOk, GoodClient
<1>11. TicketsKnown'
  <2>1. \A c \in Cli : cli[c].ticket # None => Known(cli[c].ticket)'
    BY <1>0, <1>4, <1>7, <1>8 DEF TicketsKnown
  <2>2. \A p \in Plugin : receipts[p] # None => Known(receipts[p])'
    <3> SUFFICES ASSUME NEW p \in Plugin, receipts[p] # None PROVE Known(receipts[p])'
      OBVIOUS
    <3>1. PICK u \in Ticket : u = receipts[p] /\ Known(u)
      BY <1>0 DEF TicketsKnown
    <3>2. Known(u)'
      BY <1>7, <3>1
    <3> QED
      BY <1>4, <3>1, <3>2 DEF Known
  <2>3. fg.ticket # None => Known(fg.ticket)'
    <3> SUFFICES ASSUME fg.ticket # None PROVE Known(fg.ticket)'
      OBVIOUS
    <3>1. PICK u \in Ticket : u = fg.ticket /\ Known(u)
      BY <1>0 DEF TicketsKnown, Loop
    <3>2. Known(u)'
      BY <1>7, <3>1
    <3> QED
      BY <1>4, <3>1, <3>2 DEF Known
  <2> QED
    BY <1>4, <2>1, <2>2, <2>3 DEF TicketsKnown
<1>12. TicketsApart'
  BY <1>0, <1>4 DEF TicketsApart
<1>13. t \in (Nat \X Nat) \cup {None}
  BY DEF Ticket, Id
<1>14. conn' \in Frame \cup {None}
  BY <1>0, <1>4, <1>5, <1>6, <1>13 DEF Frame
<1>15. PlaneTypes' /\ Owned' /\ ForeOk' /\ OneJob'
  BY <1>0, <1>4, <1>5, <1>7, <1>14 DEF PlaneTypes, PlaneTypeOK, IInv, Owned, ForeOk, OneJob
<1>16. WatchReceiptQueued'
  BY <1>0, <1>4, <1>5 DEF WatchReceiptQueued
<1>17. FrameOk' /\ SubmitOk' /\ ResultOk' /\ PreparedOk'
  <2>1. CASE conn.client = None
    BY <1>4, <2>1 DEF FrameOk, SubmitOk, ResultOk, PreparedOk
  <2>2. CASE conn.client # None
    <3>1. /\ conn'.client = conn.client /\ conn'.command = conn.command /\ conn'.ticket = t
          /\ conn'.status = status
      BY <1>0, <1>4, <2>2 DEF Frame
    <3>2. FrameOk'
      BY <1>0, <1>1, <1>4, <2>2, <3>1 DEF FrameOk
    <3>3. SubmitOk'
      BY <1>0, <1>1, <1>5, <2>2, <3>1 DEF SubmitOk, NotSubmittedStatus
    <3>4. ResultOk'
      BY <1>5, <1>7, <3>1 DEF ResultOk
    <3>5. PreparedOk'
      BY <1>0, <3>1 DEF PreparedOk
    <3> QED
      BY <3>2, <3>3, <3>4, <3>5
  <2> QED
    BY <2>1, <2>2
<1> QED
  BY <1>7, <1>10, <1>11, <1>12, <1>15, <1>16, <1>17 DEF PInv

(* The pipe worker gives a client up.                                         *)
LEMMA ServeFailsKeeps ==
    ASSUME PInv, ServeFails
    PROVE  PInv'
<1>0. /\ PlaneTypes /\ Owned /\ ForeOk /\ OneJob /\ WatchReceiptQueued /\ IInv /\ ClientsOk
      /\ TicketsKnown /\ TicketsApart /\ CompletedFinished
  BY DEF PInv
<1>1. /\ UNCHANGED bvars /\ conn' = None
      /\ UNCHANGED <<up, lease, cli, fg, job, disables, receipts, watch>>
  BY DEF ServeFails
<1>2. IInv' /\ CompletedFinished'
  BY <1>0, <1>1, BrokerKeeps
<1>3. PlaneTypes' /\ Owned' /\ ForeOk' /\ OneJob' /\ WatchReceiptQueued'
  BY <1>0, <1>1, <1>2
     DEF PlaneTypes, PlaneTypeOK, IInv, Owned, ForeOk, OneJob, WatchReceiptQueued, Running, bvars
<1>4. ClientsOk' /\ TicketsKnown' /\ TicketsApart'
  BY <1>0, <1>1 DEF ClientsOk, GoodClient, TicketsKnown, Known, TicketsApart, bvars
<1>5. FrameOk' /\ SubmitOk' /\ ResultOk' /\ PreparedOk'
  BY <1>1 DEF FrameOk, SubmitOk, ResultOk, PreparedOk
<1> QED
  BY <1>2, <1>3, <1>4, <1>5 DEF PInv

(* Every step of the plane keeps the invariant.                               *)
LEMMA PlaneStep == PInv /\ [PlaneNext]_vars => PInv'
<1> SUFFICES ASSUME PInv, [PlaneNext]_vars PROVE PInv'
  OBVIOUS
<1>1. ASSUME NEW c \in Cli, Client(c) PROVE PInv'
  BY <1>1, OpenKeeps, ReceiveKeeps, TimeoutKeeps, BrokenKeeps, OfflineKeeps DEF Client
<1>2. CASE Serve \/ ServeFails
  BY <1>2, ServePrepareKeeps, ServeTicketKeeps, ServeFailsKeeps DEF Serve
<1>3. CASE Foreground
  <2>1. ASSUME PollEnds \/ DispatchEnds PROVE PInv'
    BY <2>1, JobEndKeeps DEF PollEnds, DispatchEnds
  <2>2. ASSUME StartReady \/ PumpBindings \/ PollContinues \/ TakeJob \/ DispatchRetains
               \/ Idle \/ UpdateInstalls \/ WatchReserve \/ WatchSubmit
        PROVE  PInv'
    BY <2>2, ModeKeeps, QuietKeeps, TakeKeeps, WatchReserveKeeps, WatchSubmitKeeps
  <2>3. ASSUME NEW p \in Plugin, DisableReserve(p) \/ DisableSubmit(p) PROVE PInv'
    BY <2>3, ReserveKeeps, DisableKeeps
  <2> QED
    BY <1>3, <2>1, <2>2, <2>3 DEF Foreground
<1>4. CASE StartSafeMode \/ StopHost \/ StartHost
  BY <1>4, ModeKeeps, StartKeeps
<1>5. CASE ExitHost \/ Crash
  BY <1>5, GoneKeeps DEF ExitHost, Crash
<1>6. CASE UNCHANGED vars
  BY <1>6, QuietKeeps
<1> QED
  BY <1>1, <1>2, <1>3, <1>4, <1>5, <1>6 DEF PlaneNext

(* The plane starts in the invariant.                                         *)
LEMMA PlaneStart == PlaneInit => PInv
<1> USE NoneApart
<1> SUFFICES ASSUME PlaneInit PROVE PInv
  OBVIOUS
<1>1. IInv
  BY InvInit DEF PlaneInit
<1>2. \A id \in Id : records[id].status = "Absent"
  BY DEF PlaneInit, Init, NoRecords, Absent
<1>3. CompletedFinished /\ OneJob
  BY <1>2 DEF CompletedFinished, OneJob, Running
<1>4. cli \in [Cli -> ClientRecord] /\ \A c \in Cli : cli[c].ticket = None /\ cli[c].pc = "prepare"
         /\ ~cli[c].waiting /\ cli[c].outcome = "none"
  BY DEF PlaneInit, ClientRecord, Outcome
<1>5. PlaneTypes
  BY <1>1, <1>4 DEF PlaneTypes, PlaneTypeOK, IInv, PlaneInit, Loop
<1>6. Owned /\ ClientsOk /\ ForeOk /\ WatchReceiptQueued
  BY <1>4 DEF Owned, ClientsOk, GoodClient, ForeOk, WatchReceiptQueued, PlaneInit
<1>7. FrameOk /\ SubmitOk /\ ResultOk /\ PreparedOk /\ TicketsKnown /\ TicketsApart
  BY <1>4 DEF FrameOk, SubmitOk, ResultOk, PreparedOk, TicketsKnown, TicketsApart, PlaneInit
<1> QED
  BY <1>1, <1>3, <1>5, <1>6, <1>7 DEF PInv

(* The invariant contains what the runs check.                                *)
LEMMA PlaneImplies == PInv => PlaneSound
<1> SUFFICES ASSUME PInv PROVE PlaneSound
  OBVIOUS
<1>1. NotSubmittedIsTrue
  BY DEF PInv, ClientsOk, GoodClient, NotSubmittedIsTrue
<1>2. ResultIsTrue
  <2> SUFFICES ASSUME NEW c \in Cli, cli[c].outcome \in {"ok", "failed"}
               PROVE  cli[c].ticket \in finished /\ runs[cli[c].ticket] = 1
    BY DEF ResultIsTrue
  <2>1. cli[c].ticket \in finished /\ finished \subseteq Ticket
    BY DEF PInv, ClientsOk, GoodClient, IInv, TypeOK
  <2>2. runs[cli[c].ticket] \in Nat /\ runs[cli[c].ticket] # 0 /\ runs[cli[c].ticket] <= 1
    BY <2>1 DEF PInv, IInv, TypeOK, Fresh, OnlyRunFinished, AtMostOnce
  <2> QED
    BY <2>1, <2>2
<1>3. OfflineEditAlone
  BY NoneApart DEF PInv, Owned, OfflineEditAlone
<1> QED
  BY <1>1, <1>2, <1>3 DEF PlaneSound, ReportsAreTrue, PInv, PlaneConsistent, PlaneTypes

(* However clients, pipe, foreground and the end of the Host interleave, what *)
(* a client was told is true, an offline edit is alone and the watcher waits  *)
(* for a receipt that is queued (plugin_cli.rs, control_pipe.rs,              *)
(* lab/management.rs), for any number of clients, plugins, receipts and Hosts. *)
THEOREM PlaneIsSound == PlaneSafety => []PlaneSound
  BY PlaneStart, PlaneStep, PlaneImplies, PTL DEF PlaneSafety

(* Every step of the plane is a step of the mailbox or leaves it alone.       *)
LEMMA PlaneIsMailbox == PInv /\ [PlaneNext]_vars => [Next]_bvars
<1> USE NoneApart
<1> SUFFICES ASSUME PInv, [PlaneNext]_vars PROVE [Next]_bvars
  OBVIOUS
<1>0. /\ FrameOk /\ PlaneTypes /\ ForeOk /\ IInv /\ CompletedFinished
      /\ receipts \in [Plugin -> Ticket \cup {None}] /\ job \in Ticket \cup {None}
      /\ conn \in Frame \cup {None} /\ fg \in Loop
  BY DEF PInv, PlaneTypes, PlaneTypeOK
<1>1. ASSUME NEW request \in Request, BrokerPrepare(request) PROVE [Next]_bvars
  BY <1>1 DEF BrokerPrepare, Next
<1>2. ASSUME NEW t \in Ticket, BrokerSubmit(t) PROVE [Next]_bvars
  BY <1>2 DEF BrokerSubmit, Next
<1>3. ASSUME NEW c \in Cli, Client(c) PROVE [Next]_bvars
  BY <1>3 DEF Client, OpenClient, Receive, QueryTimeout, QueryBroken, PollDeadline,
              OfflineLease, OfflineRefused, OfflineEdit
<1>4. CASE Serve
  <2>1. CASE ServePrepare
    <3>1. conn.request \in Request
      BY <1>0, <1>4 DEF Serve, Frame
    <3> QED
      BY <1>1, <2>1, <3>1 DEF ServePrepare
  <2>2. CASE ServeSubmit
    <3>1. conn.ticket \in Ticket
      BY <1>0, <1>4, <2>2 DEF Serve, ServeSubmit, FrameOk
    <3> QED
      BY <1>2, <2>2, <3>1 DEF ServeSubmit
  <2>3. CASE ServeResult
    BY <2>3 DEF ServeResult
  <2> QED
    BY <1>4, <2>1, <2>2, <2>3 DEF Serve
<1>5. CASE Foreground
  <2>1. Disable \in Request /\ Reload \in Request
    BY ControlConstants, PlaneConstants
  <2>2. ASSUME NEW p \in Plugin, DisableReserve(p) PROVE [Next]_bvars
    BY <1>1, <2>1, <2>2 DEF DisableReserve
  <2>3. ASSUME NEW p \in Plugin, DisableSubmit(p) PROVE [Next]_bvars
    BY <1>0, <1>2, <2>3 DEF DisableSubmit
  <2>4. CASE WatchReserve
    BY <1>1, <2>1, <2>4 DEF WatchReserve
  <2>5. CASE WatchSubmit
    BY <1>0, <1>2, <2>5 DEF WatchSubmit, ForeOk, Loop
  <2>6. CASE PollEnds \/ DispatchEnds
    BY <1>0, <2>6 DEF PollEnds, DispatchEnds, JobEnds, Next
  <2>7. CASE StartReady \/ PumpBindings \/ PollContinues \/ TakeJob \/ DispatchRetains \/ Idle
             \/ UpdateInstalls
    BY <2>7 DEF StartReady, PumpBindings, PollContinues, TakeJob, DispatchRetains, Idle,
                UpdateInstalls, Next
  <2> QED
    BY <1>5, <2>2, <2>3, <2>4, <2>5, <2>6, <2>7 DEF Foreground
<1>6. CASE ServeFails \/ StartSafeMode \/ StopHost \/ ExitHost \/ Crash \/ StartHost
  BY <1>6 DEF ServeFails, StartSafeMode, StopHost, ExitHost, Crash, HostGone, StartHost, Next
<1>7. CASE UNCHANGED vars
  BY <1>7 DEF vars
<1> QED
  BY <1>3, <1>4, <1>5, <1>6, <1>7 DEF PlaneNext

(* The plane uses the mailbox only through its operations: it implements the  *)
(* specification of the mailbox (LabManagement over ControlBroker).           *)
THEOREM PlaneRefinesMailbox == PlaneSafety => Spec
<1>1. PlaneInit => Init
  BY DEF PlaneInit
<1> QED
  BY <1>1, PlaneStart, PlaneStep, PlaneIsMailbox, PTL DEF PlaneSafety, Spec

(* Hence what is proved of the mailbox holds of the plane: a receipt runs at  *)
(* most once, and jobs start in the order in which they were accepted.        *)
THEOREM PlaneRunsOnce == PlaneSafety => []BrokerSound /\ JobOrder
  BY PlaneRefinesMailbox, MailboxSound, ImplementsJobLog, PTL

-----------------------------------------------------------------------------
(* Codlet replacing itself.                                                  *)

(* The types of the Codlet process, ...                                      *)
UpdCoreRecord == [up : BOOLEAN, version : {Old, New}, run : Nat]
(* ... of the owner of the handoff, ...                                      *)
UpdOwnerRecord == [handoff : Handoff, job : 0 .. MaxJobs, quit : BOOLEAN]
(* ... of the end of a helper, ...                                           *)
UpdEnds == {"installed", "rolledBack", "oldRuntimeRestarted", "failed", "rollbackBlocked", "rollbackRestartFailed"}
(* ... of a helper, ...                                                      *)
UpdHelperRecord == [pc : Pc, run : Nat, old : SUBSET PayloadFile, new : SUBSET PayloadFile, end : UpdEnds \cup {"none"}]
(* ... of the files of a directory, ...                                      *)
UpdFiles == [PayloadFile -> Bytes]
(* ... and of what is on the disk.                                           *)
UpdDiskRecord ==
  [install : UpdFiles, staged : UpdFiles, backup : UpdFiles, lock : 0 .. MaxJobs, receipt : [Job -> ReceiptPhase],
   clean : [Job -> BOOLEAN], ack : SUBSET Job, summary : 0 .. MaxJobs, saved : BOOLEAN]

(* A helper that holds the lock and may still change files, ...              *)
UpdArmed == {"ready", "waiting", "moveOld", "moveNew", "restarting", "started", "rollback", "restartOld", "startedOld"}
(* ... one that may be in the middle of the exchange, ...                    *)
UpdMoving == {"moveOld", "moveNew", "restarting", "started", "rollback"}
(* ... and one that has moved nothing, or has moved everything back.         *)
UpdOldPcs == {"ready", "waiting", "restartOld", "startedOld"}

(* Every file is old, ...                                                    *)
UpdOlds(files) == \A f \in PayloadFile : files[f] \in {Old, Edited}
(* ... or new, but for what somebody wrote over.                             *)
UpdNews(files) == \A f \in PayloadFile : files[f] \in {New, Edited}

(* Where each file is while a helper exchanges them: one it has moved away   *)
(* is in the backup, one it has put in place is new, and no new file is put  *)
(* in place before all the old ones are away.                                *)
UpdExchange(h, d) ==
  /\ h.new # {} => h.old = PayloadFile
  /\ \A f \in PayloadFile :
       /\ f \notin h.old => d.install[f] \in {Old, Edited}
       /\ f \in h.old => d.backup[f] \in {Old, Edited}
       /\ f \in h.new => d.install[f] \in {New, Edited}
       /\ f \notin h.new => d.staged[f] = New

(* What a helper that is ending knows of the installation its receipt will   *)
(* speak of.                                                                 *)
UpdFinal(h, d, j) ==
  /\ h.end \in UpdEnds
  /\ h.end \in {"failed", "rolledBack", "oldRuntimeRestarted"} => Clean(h)
  /\ h.end # "failed" \/ j \in d.ack => d.lock = j
  /\ h.end = "installed" => UpdNews(d.install)
  /\ h.end \in {"rolledBack", "oldRuntimeRestarted"} => UpdOlds(d.install)
  /\ h.end = "failed" /\ j \in d.ack => UpdOlds(d.install)
  /\ h.end = "failed" /\ d.lock = j => UpdOlds(d.install) \/ UpdNews(d.install)

(* What holds of one helper and the disk.                                    *)
UpdHelperOk(h, d, j) ==
  /\ h \in UpdHelperRecord
  /\ h.run = 0 => h = NoHelper
  /\ h.pc \in {"none", "validating"} \cup UpdOldPcs => Clean(h)
  /\ h.pc \in {"none", "validating"} => d.lock # j
  /\ h.pc \in UpdArmed => d.lock = j
  /\ h.pc \in UpdArmed \ {"ready"} => j \in d.ack
  /\ j \in d.ack => h.pc \notin {"none", "validating"}
  /\ h.pc \in UpdOldPcs => UpdOlds(d.install)
  /\ h.pc \in UpdMoving => UpdExchange(h, d)
  /\ h.pc \in {"restarting", "started"} => h.new = PayloadFile
  /\ h.pc = "final" => UpdFinal(h, d, j)
  /\ d.receipt[j] \in UpdEnds => h.pc = "gone"

(* What a terminal receipt says is so.                                       *)
UpdReceiptTrue(d, j) ==
  /\ d.receipt[j] = "installed" => UpdNews(d.install)
  /\ d.receipt[j] \in {"failed", "rolledBack", "oldRuntimeRestarted"} => d.clean[j] /\ UpdOlds(d.install)

(* The part of the invariant about the helpers and the disk: jobs are        *)
(* prepared in order, an installation without a lock is in one piece, an     *)
(* acknowledged job before the last has no armed helper, and the receipt of  *)
(* the last one is true.                                                     *)
UpdFilesOk(H, d) ==
  /\ H \in [Job -> UpdHelperRecord] /\ d \in UpdDiskRecord
  /\ \A j \in Job : UpdHelperOk(H[j], d, j)
  /\ \A i, j \in Job : i < j /\ H[j].run # 0 => H[i].run # 0
  /\ d.lock = NoJob => UpdOlds(d.install) \/ UpdNews(d.install)
  /\ \A i, j \in d.ack : i < j => H[i].pc \notin UpdArmed
  /\ \A j \in d.ack : (\A i \in d.ack : i <= j) => UpdReceiptTrue(d, j)

(* The part about the Codlet process: a request or a handoff is about a job  *)
(* whose helper was not spawned, and no later job was prepared or            *)
(* acknowledged.                                                             *)
UpdRequestsOk(c, s, o, H, d) ==
  /\ c \in UpdCoreRecord /\ (c.up => c.run > 0)
  /\ s \in ServiceState /\ Len(s.queue) <= MaxQueue
  /\ o \in UpdOwnerRecord
  /\ s.request # NoJob => H[s.request].pc = "none" /\ H[s.request].run # 0 /\ \A i \in Job : i > s.request => H[i].run = 0
  /\ o.handoff = "spawning" => H[o.job].pc = "none" /\ H[o.job].run # 0 /\ o.job # s.request
  /\ o.handoff \in {"spawning", "waiting"} => o.job \in Job /\ \A i \in d.ack : i <= o.job

(* The inductive invariant.                                                  *)
UpdInv == UpdFilesOk(helper, disk) /\ UpdRequestsOk(core, svc, owner, helper, disk)

(* Jobs are numbers, and 0 is none of them.                                  *)
LEMMA UpdNumbers ==
  /\ 0 \notin Job /\ (\A j \in Job : j \in Nat /\ j \in 0 .. MaxJobs /\ j # 0) /\ 0 \in 0 .. MaxJobs
  /\ \A j \in 0 .. MaxJobs : j \in Nat /\ (j # 0 => j \in Job)
  /\ MaxJobs \in Nat
BY RuntimeUpdateConstants DEF Job

(* A set of numbers has a smallest one.                                      *)
LEMMA UpdSmallest ==
  ASSUME NEW S, S \in SUBSET Nat, S # {}
  PROVE  \E i \in S : \A k \in S : i <= k
<1>1. PICK i \in S : \A k \in S : <<k, i>> \notin OpToRel(<, Nat)
  BY NatLessThanWellFounded, WFMin
<1>2. \A k \in S : ~(k < i)
  BY <1>1 DEF OpToRel
<1> QED BY <1>2

(* The next file of a plan is one that has not been moved, ...               *)
LEMMA UpdNextOf ==
  ASSUME NEW moved, moved \in SUBSET PayloadFile, moved # PayloadFile
  PROVE  NextOf(moved) \in PayloadFile \ moved
<1> DEFINE left == {i \in DOMAIN FileOrder : FileOrder[i] \notin moved}
<1>1. left \in SUBSET Nat /\ left # {}
  <2>1. FileOrder \in Seq(PayloadFile) /\ PayloadFile = {FileOrder[i] : i \in DOMAIN FileOrder}
    BY RuntimeUpdateConstants
  <2>2. DOMAIN FileOrder = 1 .. Len(FileOrder) /\ Len(FileOrder) \in Nat
    BY <2>1
  <2>3. PICK f \in PayloadFile : f \notin moved
    OBVIOUS
  <2>4. PICK i \in DOMAIN FileOrder : f = FileOrder[i]
    BY <2>1
  <2> QED BY <2>2, <2>3, <2>4
<1>2. PICK i \in left : \A k \in left : i <= k
  <2> HIDE DEF left
  <2> QED BY <1>1, UpdSmallest
<1>3. (CHOOSE x \in left : \A k \in left : x <= k) \in left
  <2> HIDE DEF left
  <2> QED BY <1>2
<1> QED BY <1>3, RuntimeUpdateConstants DEF NextOf

(* ... and the last is one that has.                                         *)
LEMMA UpdLastOf ==
  ASSUME NEW moved, moved \in SUBSET PayloadFile, moved # {}
  PROVE  LastOf(moved) \in moved
<1> DEFINE has == {i \in DOMAIN FileOrder : FileOrder[i] \in moved}
           mirror == {Len(FileOrder) - i : i \in has}
<1>1. Len(FileOrder) \in Nat /\ has # {} /\ \A i \in has : i \in Nat /\ i <= Len(FileOrder)
  BY RuntimeUpdateConstants
<1>2. mirror \in SUBSET Nat /\ mirror # {}
  <2> HIDE DEF has
  <2> QED BY <1>1
<1>3. PICK m \in mirror : \A n \in mirror : m <= n
  <2> HIDE DEF mirror
  <2> QED BY <1>2, UpdSmallest
<1>4. PICK i \in has : m = Len(FileOrder) - i
  OBVIOUS
<1>5. \A k \in has : i >= k
  <2> HIDE DEF has
  <2> SUFFICES ASSUME NEW k \in has PROVE i >= k
    OBVIOUS
  <2>1. m <= Len(FileOrder) - k
    BY <1>3
  <2> QED BY <2>1, <1>4, <1>1
<1>6. (CHOOSE x \in has : \A k \in has : x >= k) \in has
  <2> HIDE DEF has
  <2> QED BY <1>5
<1> QED BY <1>6 DEF LastOf

(* The invariant of one helper.                                              *)
LEMMA UpdOne ==
  ASSUME UpdInv, NEW j \in Job
  PROVE  /\ UpdHelperOk(helper[j], disk, j) /\ helper[j] \in UpdHelperRecord
         /\ helper \in [Job -> UpdHelperRecord] /\ disk \in UpdDiskRecord
BY DEF UpdInv, UpdFilesOk, UpdHelperOk

(* A step of the helper of job j: what is to be shown of its new record and  *)
(* of the new disk.                                                          *)
UpdStepOk(h, h2, d, d2, j) ==
  /\ h2 \in UpdHelperRecord /\ d2 \in UpdDiskRecord
  /\ h.pc # "none" /\ h2.pc \notin {"none", "validating"} /\ h2.run = h.run /\ h.run # 0
  /\ UpdHelperOk(h2, d2, j)
  /\ \/ d2 = d
     \/ /\ \/ d.lock \in {NoJob, j} /\ d2.lock \in {NoJob, j}
           \/ d2.lock = d.lock /\ d2.install = d.install /\ d2.staged = d.staged /\ d2.backup = d.backup
        /\ d2.ack = d.ack
        /\ \A i \in Job \ {j} : d2.receipt[i] = d.receipt[i] /\ d2.clean[i] = d.clean[i]
        /\ d2.lock = NoJob => UpdOlds(d2.install) \/ UpdNews(d2.install)
        /\ d2.install = d.install \/ (h.pc \in UpdArmed /\ j \in d.ack)
        /\ j \in d.ack => UpdReceiptTrue(d2, j)
  /\ h2.pc \in UpdArmed => h.pc \in UpdArmed \/ j \notin d.ack

(* Such a step keeps the part about helpers and disk: the other helpers have *)
(* no lock, and a receipt is about files only the last acknowledged helper   *)
(* changes.                                                                  *)
LEMMA UpdMoves ==
  ASSUME NEW H, NEW d, UpdFilesOk(H, d), NEW j \in Job, NEW h2, NEW d2, UpdStepOk(H[j], h2, d, d2, j)
  PROVE  UpdFilesOk([H EXCEPT ![j] = h2], d2)
<1> DEFINE H2 == [H EXCEPT ![j] = h2]
<1>1. H \in [Job -> UpdHelperRecord] /\ d \in UpdDiskRecord /\ \A i \in Job : UpdHelperOk(H[i], d, i)
  BY DEF UpdFilesOk
<1>2. H2 \in [Job -> UpdHelperRecord] /\ H2[j] = h2 /\ \A i \in Job \ {j} : H2[i] = H[i]
  BY <1>1 DEF UpdStepOk
<1> HIDE DEF H2
<1>3. ASSUME NEW i \in Job \ {j} PROVE UpdHelperOk(H[i], d2, i)
  <2>1. CASE d2 = d
    BY <2>1, <1>1
  <2>3. CASE d2.lock = d.lock /\ d2.install = d.install /\ d2.staged = d.staged /\ d2.backup = d.backup /\ d2 # d
    <3>1. UpdHelperOk(H[i], d, i) /\ d2.ack = d.ack /\ d2.receipt[i] = d.receipt[i]
      BY <2>3, <1>1 DEF UpdStepOk
    <3>2. UpdExchange(H[i], d) => UpdExchange(H[i], d2)
      BY <2>3 DEF UpdExchange
    <3>3. UpdFinal(H[i], d, i) => UpdFinal(H[i], d2, i)
      BY <2>3, <3>1 DEF UpdFinal
    <3> QED BY <2>3, <3>1, <3>2, <3>3 DEF UpdHelperOk
  <2>2. CASE d2 # d /\ d.lock \in {NoJob, j} /\ d2.lock \in {NoJob, j}
    <3>1. UpdHelperOk(H[i], d, i) /\ i # NoJob
      BY <1>1, UpdNumbers DEF NoJob
    <3>2. d.lock # i /\ d2.lock # i /\ d2.ack = d.ack /\ d2.receipt[i] = d.receipt[i]
      BY <2>2, <3>1 DEF UpdStepOk
    <3>3. H[i].pc \notin UpdArmed
      BY <3>1, <3>2 DEF UpdHelperOk
    <3>4. H[i].pc \notin UpdOldPcs /\ H[i].pc \notin UpdMoving /\ H[i].pc \notin {"restarting", "started"}
      BY <3>3 DEF UpdArmed, UpdMoving, UpdOldPcs
    <3>5. H[i].pc = "final" => UpdFinal(H[i], d2, i)
      <4> SUFFICES ASSUME H[i].pc = "final" PROVE UpdFinal(H[i], d2, i)
        OBVIOUS
      <4>1. UpdFinal(H[i], d, i)
        BY <3>1 DEF UpdHelperOk
      <4>2. H[i].end = "failed" /\ i \notin d.ack
        BY <4>1, <3>2 DEF UpdFinal
      <4> QED BY <4>1, <4>2, <3>2 DEF UpdFinal
    <3> QED BY <3>1, <3>2, <3>3, <3>4, <3>5 DEF UpdHelperOk
  <2> QED BY <2>1, <2>2, <2>3 DEF UpdStepOk
<1>4. \A i \in Job : UpdHelperOk(H2[i], d2, i)
  <2>1. UpdHelperOk(H2[j], d2, j)
    BY <1>2 DEF UpdStepOk
  <2>2. \A i \in Job \ {j} : UpdHelperOk(H2[i], d2, i)
    BY <1>2, <1>3
  <2> QED BY <2>1, <2>2
<1>5. \A i \in Job : H2[i].run = H[i].run
  BY <1>2 DEF UpdStepOk
<1>6. \A i, k \in Job : i < k /\ H2[k].run # 0 => H2[i].run # 0
  <2>1. \A i, k \in Job : i < k /\ H[k].run # 0 => H[i].run # 0
    BY DEF UpdFilesOk
  <2> QED BY <2>1, <1>5
<1>7. d2.lock = NoJob => UpdOlds(d2.install) \/ UpdNews(d2.install)
  <2>1. d.lock = NoJob => UpdOlds(d.install) \/ UpdNews(d.install)
    BY DEF UpdFilesOk
  <2> QED BY <2>1 DEF UpdStepOk
<1>8. d2.ack = d.ack /\ d.ack \subseteq Job
  BY <1>1 DEF UpdStepOk, UpdDiskRecord
<1>9. ASSUME NEW i \in d2.ack, NEW k \in d2.ack, i < k PROVE H2[i].pc \notin UpdArmed
  <2>1. H[i].pc \notin UpdArmed /\ i \in d.ack /\ i \in Job
    BY <1>8, <1>9 DEF UpdFilesOk
  <2> QED BY <2>1, <1>2 DEF UpdStepOk
<1>10. ASSUME NEW k \in d2.ack, \A i \in d2.ack : i <= k PROVE UpdReceiptTrue(d2, k)
  <2>1. UpdReceiptTrue(d, k) /\ k \in d.ack /\ k \in Job /\ \A i \in d.ack : i <= k
    BY <1>8, <1>10 DEF UpdFilesOk
  <2>2. CASE d2 = d
    BY <2>1, <2>2
  <2>3. CASE d2 # d /\ k = j
    BY <2>1, <2>3 DEF UpdStepOk
  <2>4. CASE d2 # d /\ k # j
    <3>1. d2.receipt[k] = d.receipt[k] /\ d2.clean[k] = d.clean[k]
      BY <2>1, <2>4 DEF UpdStepOk
    <3>2. ~(H[j].pc \in UpdArmed /\ j \in d.ack)
      <4> SUFFICES ASSUME H[j].pc \in UpdArmed, j \in d.ack PROVE FALSE
        OBVIOUS
      <4>1. j <= k /\ j # k /\ j \in Nat /\ k \in Nat
        BY <2>1, <2>4, UpdNumbers
      <4>2. j < k
        BY <4>1
      <4> QED BY <4>2, <2>1 DEF UpdFilesOk
    <3>3. d2.install = d.install
      BY <2>4, <3>2 DEF UpdStepOk
    <3> QED BY <2>1, <3>1, <3>3 DEF UpdReceiptTrue
  <2> QED BY <2>2, <2>3, <2>4
<1> QED BY <1>1, <1>2, <1>4, <1>6, <1>7, <1>9, <1>10 DEF UpdFilesOk, UpdStepOk, H2

(* A step of a helper leaves the Codlet process alone.                       *)
LEMMA UpdHelps ==
  ASSUME UpdInv, NEW j \in Job, NEW h2, NEW d2, UpdStepOk(helper[j], h2, disk, d2, j),
         helper' = [helper EXCEPT ![j] = h2], disk' = d2, UNCHANGED <<core, svc, owner>>
  PROVE  UpdInv'
<1>1. UpdFilesOk(helper', disk')
  BY UpdMoves DEF UpdInv
<1>2. UpdRequestsOk(core, svc, owner, helper, disk)
  BY DEF UpdInv
<1>3. \A i \in Job : /\ helper'[i].run = helper[i].run
                     /\ helper[i].pc = "none" => helper'[i].pc = "none"
  BY UpdOne DEF UpdStepOk
<1>4. disk'.ack = disk.ack
  BY DEF UpdStepOk
<1>5. svc.request \in 0 .. MaxJobs /\ owner.job \in 0 .. MaxJobs
  BY <1>2 DEF UpdRequestsOk, ServiceState, UpdOwnerRecord
<1>6. (svc.request # NoJob => svc.request \in Job) /\ (owner.handoff \in {"spawning", "waiting"} => owner.job \in Job)
  BY <1>5, <1>2, UpdNumbers DEF NoJob, UpdRequestsOk
<1>7. UpdRequestsOk(core, svc, owner, helper', disk')
  BY <1>2, <1>3, <1>4, <1>6 DEF UpdRequestsOk
<1> QED BY <1>1, <1>7 DEF UpdInv

(* A helper that goes to another place, ...                                  *)
UpdTo(h, pc) == [h EXCEPT !.pc = pc]
(* ... or ends.                                                              *)
UpdEndAs(h, phase) == [h EXCEPT !.pc = "final", !.end = phase]

(* The fields of a helper that goes on, ...                                  *)
LEMMA UpdToFields ==
  ASSUME NEW h \in UpdHelperRecord, NEW pc \in Pc
  PROVE  /\ UpdTo(h, pc) \in UpdHelperRecord /\ UpdTo(h, pc).pc = pc
         /\ UpdTo(h, pc).run = h.run /\ UpdTo(h, pc).old = h.old /\ UpdTo(h, pc).new = h.new /\ UpdTo(h, pc).end = h.end
BY DEF UpdHelperRecord, UpdTo

(* ... of one that ends, ...                                                 *)
LEMMA UpdEndFields ==
  ASSUME NEW h \in UpdHelperRecord, NEW phase \in UpdEnds
  PROVE  /\ UpdEndAs(h, phase) \in UpdHelperRecord /\ UpdEndAs(h, phase).pc = "final" /\ UpdEndAs(h, phase).end = phase
         /\ UpdEndAs(h, phase).run = h.run /\ UpdEndAs(h, phase).old = h.old /\ UpdEndAs(h, phase).new = h.new
BY DEF UpdHelperRecord, UpdEndAs, Pc

(* ... and of a disk with another receipt.                                   *)
LEMMA UpdPersisted ==
  ASSUME NEW d \in UpdDiskRecord, NEW j \in Job, NEW phase \in ReceiptPhase, NEW clean \in BOOLEAN,
         NEW p, p = Persist(d, j, phase, clean)
  PROVE  /\ p \in UpdDiskRecord /\ p.receipt[j] = phase /\ p.clean[j] = clean
         /\ p.install = d.install /\ p.staged = d.staged /\ p.backup = d.backup /\ p.lock = d.lock /\ p.ack = d.ack
         /\ \A i \in Job \ {j} : p.receipt[i] = d.receipt[i] /\ p.clean[i] = d.clean[i]
<1>1. d.receipt \in [Job -> ReceiptPhase] /\ d.clean \in [Job -> BOOLEAN] /\ j \in 0 .. MaxJobs
  BY UpdNumbers DEF UpdDiskRecord
<1>2. [d.receipt EXCEPT ![j] = phase] \in [Job -> ReceiptPhase] /\ [d.clean EXCEPT ![j] = clean] \in [Job -> BOOLEAN]
  BY <1>1
<1>3. p = [d EXCEPT !.receipt = [d.receipt EXCEPT ![j] = phase], !.clean = [d.clean EXCEPT ![j] = clean], !.summary = j]
  BY DEF Persist
<1>4. PICK r, c : r = [d.receipt EXCEPT ![j] = phase] /\ c = [d.clean EXCEPT ![j] = clean]
  OBVIOUS
<1>5. /\ r \in [Job -> ReceiptPhase] /\ c \in [Job -> BOOLEAN] /\ r[j] = phase /\ c[j] = clean
      /\ \A i \in Job \ {j} : r[i] = d.receipt[i] /\ c[i] = d.clean[i]
  BY <1>1, <1>2, <1>4
<1>6. p = [d EXCEPT !.receipt = r, !.clean = c, !.summary = j]
  BY <1>3, <1>4
<1>7. /\ p \in UpdDiskRecord /\ p.receipt = r /\ p.clean = c
      /\ p.install = d.install /\ p.staged = d.staged /\ p.backup = d.backup /\ p.lock = d.lock /\ p.ack = d.ack
  BY <1>1, <1>5, <1>6 DEF UpdDiskRecord
<1> QED BY <1>5, <1>7

(* What is known of a helper that was spawned.                               *)
LEMMA UpdBusy ==
  ASSUME UpdInv, NEW j \in Job, helper[j].pc # "none"
  PROVE  /\ helper[j].run # 0 /\ UpdHelperOk(helper[j], disk, j) /\ helper[j] \in UpdHelperRecord /\ disk \in UpdDiskRecord
         /\ helper \in [Job -> UpdHelperRecord] /\ j # NoJob
         /\ helper[j].pc # "gone" => disk.receipt[j] \notin UpdEnds
         /\ disk.lock = NoJob => UpdOlds(disk.install) \/ UpdNews(disk.install)
<1>1. UpdHelperOk(helper[j], disk, j) /\ helper[j] \in UpdHelperRecord /\ disk \in UpdDiskRecord /\ helper \in [Job -> UpdHelperRecord]
  BY UpdOne
<1>2. helper[j].run # 0
  BY <1>1 DEF UpdHelperOk, NoHelper
<1>3. j # NoJob
  BY UpdNumbers DEF NoJob
<1> QED BY <1>1, <1>2, <1>3 DEF UpdHelperOk, UpdInv, UpdFilesOk

(* A receipt that is not terminal claims nothing.                            *)
LEMMA UpdNotEnded ==
  ASSUME NEW d, NEW j, d.receipt[j] \notin UpdEnds
  PROVE  UpdReceiptTrue(d, j)
BY DEF UpdReceiptTrue, UpdEnds

(* A step of a helper that leaves the disk alone.                            *)
LEMMA UpdStays ==
  ASSUME UpdInv, NEW j \in Job, helper[j].pc # "none", NEW h2 \in UpdHelperRecord,
         h2.pc \notin {"none", "validating"}, h2.run = helper[j].run, UpdHelperOk(h2, disk, j),
         h2.pc \in UpdArmed => helper[j].pc \in UpdArmed \/ j \notin disk.ack,
         helper' = [helper EXCEPT ![j] = h2], disk' = disk, UNCHANGED <<core, svc, owner>>
  PROVE  UpdInv'
<1>1. UpdStepOk(helper[j], h2, disk, disk, j)
  BY UpdBusy DEF UpdStepOk
<1> QED BY <1>1, UpdHelps

(* The record that Goes and ...                                              *)
LEMMA UpdGoes ==
  ASSUME NEW j \in Job, helper \in [Job -> UpdHelperRecord], NEW pc, Goes(j, pc)
  PROVE  helper' = [helper EXCEPT ![j] = UpdTo(helper[j], pc)]
BY DEF Goes, UpdTo

(* ... Ending leave.                                                         *)
LEMMA UpdEnding ==
  ASSUME NEW j \in Job, helper \in [Job -> UpdHelperRecord], NEW phase, Ending(j, phase)
  PROVE  helper' = [helper EXCEPT ![j] = UpdEndAs(helper[j], phase)]
BY DEF Ending, UpdEndAs

(* A helper that is gone claims nothing.                                     *)
LEMMA UpdGone ==
  ASSUME UpdInv, NEW j \in Job, helper[j].pc # "none", Goes(j, "gone"), UNCHANGED <<core, svc, owner, disk>>
  PROVE  UpdInv'
<1> DEFINE h2 == UpdTo(helper[j], "gone")
<1>1. /\ h2 \in UpdHelperRecord /\ h2.pc = "gone" /\ h2.run = helper[j].run /\ h2.run # 0
      /\ helper' = [helper EXCEPT ![j] = h2]
  BY UpdBusy, UpdToFields, UpdGoes DEF Pc
<1> HIDE DEF h2
<1>2. UpdHelperOk(h2, disk, j)
  BY <1>1 DEF UpdHelperOk, UpdArmed, UpdMoving, UpdOldPcs
<1> QED BY <1>1, <1>2, UpdStays DEF UpdArmed

(* A helper ends with what its receipt will say.                             *)
LEMMA UpdEndsAs ==
  ASSUME UpdInv, NEW j \in Job, helper[j].pc \notin {"none", "gone"}, NEW phase \in UpdEnds, Ending(j, phase),
         UNCHANGED <<core, svc, owner, disk>>,
         UpdFinal(UpdEndAs(helper[j], phase), disk, j)
  PROVE  UpdInv'
<1> DEFINE h2 == UpdEndAs(helper[j], phase)
<1>1. /\ h2 \in UpdHelperRecord /\ h2.pc = "final" /\ h2.run = helper[j].run /\ h2.run # 0
      /\ helper' = [helper EXCEPT ![j] = h2] /\ disk.receipt[j] \notin UpdEnds
  BY UpdBusy, UpdEndFields, UpdEnding
<1>2. UpdFinal(h2, disk, j)
  OBVIOUS
<1> HIDE DEF h2
<1>3. UpdHelperOk(h2, disk, j)
  BY <1>1, <1>2 DEF UpdHelperOk, UpdArmed, UpdMoving, UpdOldPcs
<1> QED BY <1>1, <1>3, UpdStays DEF UpdArmed

(* A helper that moved nothing may end with anything but installed.          *)
LEMMA UpdFails ==
  ASSUME UpdInv, NEW j \in Job, helper[j].pc \in UpdOldPcs, NEW phase \in UpdEnds \ {"installed"}
  PROVE  UpdFinal(UpdEndAs(helper[j], phase), disk, j)
<1> DEFINE h2 == UpdEndAs(helper[j], phase)
<1>1. /\ h2.end = phase /\ h2.old = helper[j].old /\ h2.new = helper[j].new
      /\ Clean(helper[j]) /\ disk.lock = j /\ UpdOlds(disk.install)
  BY UpdOne, UpdEndFields DEF UpdHelperOk, UpdOldPcs, UpdArmed
<1>2. Clean(h2)
  BY <1>1 DEF Clean
<1> HIDE DEF h2
<1>3. UpdFinal(h2, disk, j)
  BY <1>1, <1>2 DEF UpdFinal
<1> QED BY <1>3 DEF h2

(* Validation: the lock is taken before the helper says ready.               *)
LEMMA UpdValidates ==
  ASSUME UpdInv, NEW j \in Job, Validates(j)
  PROVE  UpdInv'
<1> DEFINE h == helper[j]
<1>a. /\ h.pc = "validating" /\ h.run # 0 /\ h \in UpdHelperRecord /\ disk \in UpdDiskRecord /\ j # NoJob
      /\ UpdHelperOk(h, disk, j) /\ helper \in [Job -> UpdHelperRecord] /\ disk.receipt[j] \notin UpdEnds
      /\ Clean(h) /\ disk.lock # j /\ j \notin disk.ack
      /\ disk.lock = NoJob => UpdOlds(disk.install) \/ UpdNews(disk.install)
      /\ UNCHANGED <<core, svc, owner>>
  <2>1. h.pc = "validating" /\ UNCHANGED <<core, svc, owner>>
    BY DEF Validates
  <2> QED BY <2>1, UpdBusy DEF UpdHelperOk
<1>b. /\ UpdEndAs(h, "failed") \in UpdHelperRecord /\ UpdEndAs(h, "failed").pc = "final" /\ UpdEndAs(h, "failed").run = h.run
      /\ UpdEndAs(h, "failed").end = "failed" /\ Clean(UpdEndAs(h, "failed"))
  BY <1>a, UpdEndFields DEF UpdEnds, Clean
<1>c. \A pc \in Pc : /\ UpdTo(h, pc) \in UpdHelperRecord /\ UpdTo(h, pc).pc = pc /\ UpdTo(h, pc).run = h.run
                     /\ Clean(UpdTo(h, pc))
  BY <1>a, UpdToFields DEF Clean
<1>d. disk.ack \subseteq Job /\ disk.receipt \in [Job -> ReceiptPhase] /\ j \in 0 .. MaxJobs
  BY <1>a, UpdNumbers DEF UpdDiskRecord
<1> DEFINE d == [disk EXCEPT !.lock = j]
<1>e. /\ d \in UpdDiskRecord /\ d.lock = j /\ d.install = disk.install /\ d.ack = disk.ack
      /\ d.receipt = disk.receipt /\ d.clean = disk.clean
  BY <1>a, <1>d DEF UpdDiskRecord
<1>1. CASE Goes(j, "gone") /\ UNCHANGED disk
  BY <1>1, <1>a, UpdGone
<1>2. CASE disk.lock # NoJob /\ Ending(j, "failed") /\ UNCHANGED disk
  <2>1. UpdFinal(UpdEndAs(h, "failed"), disk, j)
    BY <1>a, <1>b DEF UpdFinal, UpdEnds
  <2> QED BY <2>1, <1>2, <1>a, UpdEndsAs DEF UpdEnds
<1>3. CASE disk.lock = NoJob /\ disk' = d /\ Ending(j, "failed")
  <2> DEFINE h2 == UpdEndAs(h, "failed")
  <2>1. helper' = [helper EXCEPT ![j] = h2]
    BY <1>3, <1>a, UpdEnding
  <2>2. UpdFinal(h2, d, j)
    <3> HIDE DEF d, h2
    <3> USE DEF h2
    <3> QED BY <1>3, <1>a, <1>b, <1>e DEF UpdFinal, UpdEnds
  <2>3. UpdHelperOk(h2, d, j)
    <3> HIDE DEF d
    <3> QED BY <2>2, <1>a, <1>b, <1>e DEF UpdHelperOk, UpdArmed, UpdMoving, UpdOldPcs
  <2>4. UpdStepOk(h, h2, disk, d, j)
    <3> HIDE DEF d
    <3> QED BY <2>3, <1>3, <1>a, <1>b, <1>e DEF UpdStepOk, UpdArmed
  <2> QED BY <2>1, <2>4, <1>3, <1>a, UpdHelps
<1>4. ASSUME disk.lock = NoJob, Whole(disk.install, Old), NEW d2, disk' = d2, NEW pc \in {"ready", "gone"}, Goes(j, pc),
             d2 \in UpdDiskRecord, d2.lock = j, d2.install = disk.install, d2.ack = disk.ack, d2.receipt[j] = "ready",
             \A i \in Job \ {j} : d2.receipt[i] = disk.receipt[i] /\ d2.clean[i] = disk.clean[i]
      PROVE  UpdInv'
  <2> DEFINE h2 == UpdTo(h, pc)
  <2>1. helper' = [helper EXCEPT ![j] = h2]
    BY <1>4, <1>a, UpdGoes
  <2>2. h2 \in UpdHelperRecord /\ h2.pc = pc /\ h2.run = h.run /\ Clean(h2)
    BY <1>c, <1>4 DEF Pc
  <2> HIDE DEF h2
  <2>3. UpdOlds(d2.install)
    BY <1>4 DEF Whole, UpdOlds
  <2>4. UpdHelperOk(h2, d2, j)
    BY <2>2, <2>3, <1>4, <1>a DEF UpdHelperOk, UpdArmed, UpdMoving, UpdOldPcs, UpdEnds
  <2>5. UpdStepOk(h, h2, disk, d2, j)
    BY <2>4, <2>2, <1>4, <1>a DEF UpdStepOk, UpdArmed
  <2> QED BY <2>1, <2>5, <1>4, <1>a, UpdHelps
<1>5. CASE disk.lock = NoJob /\ Whole(disk.install, Old) /\ disk' = Persist(d, j, "ready", TRUE) /\ Goes(j, "ready")
  <2>1. /\ disk' \in UpdDiskRecord /\ disk'.receipt[j] = "ready" /\ disk'.install = d.install /\ disk'.lock = d.lock
        /\ disk'.ack = d.ack /\ \A i \in Job \ {j} : disk'.receipt[i] = d.receipt[i] /\ disk'.clean[i] = d.clean[i]
    <3>1. "ready" \in ReceiptPhase
      BY DEF ReceiptPhase
    <3>2. PICK e, clean, p : e = d /\ clean = TRUE /\ p = disk'
      OBVIOUS
    <3>3. e \in UpdDiskRecord /\ clean \in BOOLEAN /\ p = Persist(e, j, "ready", clean)
      BY <1>5, <1>e, <3>2
    <3> HIDE DEF d
    <3>4. /\ p \in UpdDiskRecord /\ p.receipt[j] = "ready" /\ p.install = e.install /\ p.lock = e.lock
          /\ p.ack = e.ack /\ \A i \in Job \ {j} : p.receipt[i] = e.receipt[i] /\ p.clean[i] = e.clean[i]
      BY <3>1, <3>3, UpdPersisted
    <3> QED BY <3>2, <3>4
  <2>2. PICK d2 : d2 = disk'
    OBVIOUS
  <2>3. /\ d2 \in UpdDiskRecord /\ d2.lock = j /\ d2.install = disk.install /\ d2.ack = disk.ack /\ d2.receipt[j] = "ready"
        /\ \A i \in Job \ {j} : d2.receipt[i] = disk.receipt[i] /\ d2.clean[i] = disk.clean[i]
    BY <2>1, <2>2, <1>e
  <2>4. disk.lock = NoJob /\ Whole(disk.install, Old) /\ disk' = d2 /\ Goes(j, "ready")
    BY <2>2, <1>5
  <2> QED BY <2>3, <2>4, <1>4
<1>6. CASE disk.lock = NoJob /\ Whole(disk.install, Old) /\ disk' = [d EXCEPT !.receipt[j] = "ready"] /\ Goes(j, "gone")
  <2> DEFINE r2 == [disk.receipt EXCEPT ![j] = "ready"]
  <2>1. r2 \in [Job -> ReceiptPhase] /\ r2[j] = "ready" /\ \A i \in Job \ {j} : r2[i] = disk.receipt[i]
    BY <1>d DEF ReceiptPhase
  <2>2. disk' = [disk EXCEPT !.lock = j, !.receipt = r2]
    BY <1>6, <1>a DEF UpdDiskRecord
  <2> HIDE DEF r2
  <2>3. /\ disk' \in UpdDiskRecord /\ disk'.receipt = r2 /\ disk'.install = disk.install /\ disk'.lock = j
        /\ disk'.ack = disk.ack /\ disk'.clean = disk.clean
    BY <2>1, <2>2, <1>a, <1>d DEF UpdDiskRecord
  <2> QED BY <2>1, <2>3, <1>4, <1>6
<1> QED BY <1>1, <1>2, <1>3, <1>5, <1>6 DEF Validates

(* A step of a helper that holds the lock and was told to go on, with a      *)
(* receipt that is not terminal.                                             *)
LEMMA UpdSaves ==
  ASSUME UpdInv, NEW j \in Job, helper[j].pc \in UpdArmed, j \in disk.ack, NEW phase \in ReceiptPhase \ UpdEnds, NEW clean \in BOOLEAN,
         NEW h2 \in UpdHelperRecord, h2.pc \notin {"none", "validating", "final"}, h2.run = helper[j].run,
         NEW d2 \in UpdDiskRecord, d2.lock = j, d2.ack = disk.ack,
         d2.receipt = disk.receipt, d2.clean = disk.clean,
         h2.pc \in UpdOldPcs => Clean(h2) /\ UpdOlds(d2.install),
         h2.pc \in UpdMoving => UpdExchange(h2, d2),
         h2.pc \in {"restarting", "started"} => h2.new = PayloadFile,
         helper' = [helper EXCEPT ![j] = h2], disk' \in {d2, Persist(d2, j, phase, clean)}, UNCHANGED <<core, svc, owner>>
  PROVE  UpdInv'
<1>a. /\ helper[j].run # 0 /\ disk \in UpdDiskRecord /\ j # NoJob /\ disk.lock = j /\ disk.receipt[j] \notin UpdEnds
      /\ helper[j].pc # "none"
  <2>1. helper[j].pc \notin {"none", "gone"}
    BY DEF UpdArmed
  <2> QED BY <2>1, UpdBusy DEF UpdHelperOk
<1>1. /\ disk' \in UpdDiskRecord /\ disk'.lock = j /\ disk'.ack = disk.ack /\ disk'.receipt[j] \notin UpdEnds
      /\ disk'.install = d2.install /\ disk'.staged = d2.staged /\ disk'.backup = d2.backup
      /\ \A i \in Job \ {j} : disk'.receipt[i] = disk.receipt[i] /\ disk'.clean[i] = disk.clean[i]
  <2>1. CASE disk' = d2
    BY <2>1, <1>a
  <2>2. CASE disk' = Persist(d2, j, phase, clean)
    BY <2>2, UpdPersisted
  <2> QED BY <2>1, <2>2
<1> DEFINE d3 == disk'
<1>2. UpdHelperOk(h2, d3, j)
  <2>1. h2.pc \in UpdMoving => UpdExchange(h2, d3)
    BY <1>1 DEF UpdExchange
  <2>2. h2.pc \in UpdOldPcs => UpdOlds(d3.install)
    BY <1>1
  <2>3. d3.lock = j /\ d3.ack = disk.ack /\ d3.receipt[j] \notin UpdEnds
    BY <1>1
  <2> HIDE DEF d3
  <2> QED BY <2>1, <2>2, <2>3, <1>a DEF UpdHelperOk
<1>3. UpdStepOk(helper[j], h2, disk, d3, j)
  <2>1. UpdReceiptTrue(d3, j)
    BY <1>1, UpdNotEnded
  <2>2. /\ d3 \in UpdDiskRecord /\ d3.lock = j /\ d3.ack = disk.ack
        /\ \A i \in Job \ {j} : d3.receipt[i] = disk.receipt[i] /\ d3.clean[i] = disk.clean[i]
    BY <1>1
  <2> HIDE DEF d3
  <2> QED BY <2>1, <2>2, <1>2, <1>a DEF UpdStepOk
<1> HIDE DEF d3
<1>4. disk' = d3
  BY DEF d3
<1> QED BY <1>3, <1>4, UpdHelps

(* What is known of a helper that holds the lock.                            *)
LEMMA UpdFacts ==
  ASSUME UpdInv, NEW j \in Job, helper[j].pc \in UpdArmed
  PROVE  /\ helper[j].run # 0 /\ UpdHelperOk(helper[j], disk, j) /\ helper[j] \in UpdHelperRecord /\ disk \in UpdDiskRecord
         /\ helper \in [Job -> UpdHelperRecord] /\ disk.lock = j /\ disk.receipt[j] \notin UpdEnds
         /\ helper[j].pc \notin {"none", "gone", "validating", "final"}
<1>1. helper[j].pc \notin {"none", "gone", "validating", "final"}
  BY DEF UpdArmed
<1> QED BY <1>1, UpdBusy DEF UpdHelperOk

(* Such a helper turns to something else without touching a file.            *)
LEMMA UpdTurns ==
  ASSUME UpdInv, NEW j \in Job, helper[j].pc \in UpdArmed, j \in disk.ack, NEW pc \in Pc, pc \notin {"none", "validating", "final"},
         pc \in UpdOldPcs => Clean(helper[j]) /\ UpdOlds(disk.install),
         pc \in UpdMoving => UpdExchange(helper[j], disk),
         pc \in {"restarting", "started"} => helper[j].new = PayloadFile,
         helper' = [helper EXCEPT ![j] = UpdTo(helper[j], pc)], UNCHANGED <<core, svc, owner>>,
         NEW phase \in ReceiptPhase \ UpdEnds, NEW clean \in BOOLEAN,
         disk' \in {disk, Persist(disk, j, phase, clean)}
  PROVE  UpdInv'
<1> DEFINE h2 == UpdTo(helper[j], pc)
<1>1. /\ h2 \in UpdHelperRecord /\ h2.pc = pc /\ h2.run = helper[j].run /\ h2.old = helper[j].old /\ h2.new = helper[j].new
      /\ disk \in UpdDiskRecord /\ disk.lock = j
  BY UpdFacts, UpdToFields
<1> HIDE DEF h2
<1>2. (Clean(helper[j]) => Clean(h2)) /\ (UpdExchange(helper[j], disk) => UpdExchange(h2, disk))
  BY <1>1 DEF Clean, UpdExchange
<1>3. helper' = [helper EXCEPT ![j] = h2]
  BY DEF h2
<1>4. /\ h2.pc \notin {"none", "validating", "final"}
      /\ h2.pc \in UpdOldPcs => Clean(h2) /\ UpdOlds(disk.install)
      /\ h2.pc \in UpdMoving => UpdExchange(h2, disk)
      /\ h2.pc \in {"restarting", "started"} => h2.new = PayloadFile
  BY <1>1, <1>2
<1>5. PICK d2 : d2 = disk
  OBVIOUS
<1>6. /\ d2 \in UpdDiskRecord /\ d2.lock = j /\ d2.ack = disk.ack /\ d2.receipt = disk.receipt /\ d2.clean = disk.clean
      /\ disk' \in {d2, Persist(d2, j, phase, clean)}
      /\ h2.pc \in UpdOldPcs => Clean(h2) /\ UpdOlds(d2.install)
      /\ h2.pc \in UpdMoving => UpdExchange(h2, d2)
  BY <1>1, <1>4, <1>5
<1>7. /\ helper[j].pc \in UpdArmed /\ j \in disk.ack /\ phase \in ReceiptPhase \ UpdEnds /\ clean \in BOOLEAN
      /\ h2 \in UpdHelperRecord /\ h2.pc \notin {"none", "validating", "final"} /\ h2.run = helper[j].run
      /\ h2.pc \in {"restarting", "started"} => h2.new = PayloadFile
      /\ UNCHANGED <<core, svc, owner>>
  BY <1>1, <1>4
<1> QED BY <1>3, <1>6, <1>7, UpdSaves

(* The acknowledgement was seen.                                             *)
LEMMA UpdArms ==
  ASSUME UpdInv, NEW j \in Job, Arms(j)
  PROVE  UpdInv'
<1>1. helper[j].pc = "ready" /\ UNCHANGED <<core, svc, owner>>
  BY DEF Arms
<1>2. helper[j].pc \in UpdArmed /\ helper[j].pc \in UpdOldPcs
  BY <1>1 DEF UpdArmed, UpdOldPcs
<1>3. helper \in [Job -> UpdHelperRecord] /\ Clean(helper[j]) /\ UpdOlds(disk.install)
  BY <1>2, UpdFacts DEF UpdHelperOk
<1>4. CASE j \in disk.ack /\ disk' = Persist(disk, j, "waitingForExit", TRUE) /\ Goes(j, "waiting")
  <2>1. helper' = [helper EXCEPT ![j] = UpdTo(helper[j], "waiting")]
    BY <1>3, <1>4, UpdGoes
  <2>2. "waiting" \in Pc /\ "waiting" \notin UpdMoving /\ "waitingForExit" \in ReceiptPhase \ UpdEnds /\ TRUE \in BOOLEAN
    BY DEF Pc, UpdMoving, ReceiptPhase, UpdEnds
  <2> QED BY <2>1, <2>2, <1>1, <1>2, <1>3, <1>4, UpdTurns
<1>5. CASE Ending(j, "failed") /\ UNCHANGED disk
  <2>1. "failed" \in UpdEnds \ {"installed"}
    BY DEF UpdEnds
  <2> QED BY <2>1, <1>1, <1>2, <1>5, UpdFails, UpdEndsAs
<1> QED BY <1>4, <1>5 DEF Arms

(* The process the plan names has exited: the backups are emptied and the    *)
(* exchange begins.                                                          *)
LEMMA UpdSeesExit ==
  ASSUME UpdInv, NEW j \in Job, SeesExit(j)
  PROVE  UpdInv'
<1>1. helper[j].pc = "waiting" /\ UNCHANGED <<core, svc, owner>>
  BY DEF SeesExit
<1>2. helper[j].pc \in UpdArmed /\ helper[j].pc \in UpdOldPcs /\ helper[j].pc \in UpdArmed \ {"ready"}
  BY <1>1 DEF UpdArmed, UpdOldPcs
<1>3. /\ helper \in [Job -> UpdHelperRecord] /\ Clean(helper[j]) /\ UpdOlds(disk.install) /\ j \in disk.ack
      /\ disk \in UpdDiskRecord /\ helper[j] \in UpdHelperRecord /\ disk.lock = j
  BY <1>2, UpdFacts DEF UpdHelperOk
<1>4. CASE Ending(j, "failed") /\ UNCHANGED disk
  <2>1. "failed" \in UpdEnds \ {"installed"}
    BY DEF UpdEnds
  <2> QED BY <2>1, <1>1, <1>2, <1>4, UpdFails, UpdEndsAs
<1>5. CASE Goes(j, "restartOld") /\ UNCHANGED disk
  <2>1. helper' = [helper EXCEPT ![j] = UpdTo(helper[j], "restartOld")]
    BY <1>3, <1>5, UpdGoes
  <2>2. "restartOld" \in Pc /\ "restartOld" \notin UpdMoving /\ "waitingForExit" \in ReceiptPhase \ UpdEnds /\ TRUE \in BOOLEAN
    BY DEF Pc, UpdMoving, ReceiptPhase, UpdEnds
  <2> QED BY <2>1, <2>2, <1>1, <1>2, <1>3, <1>5, UpdTurns
<1> DEFINE d2 == [disk EXCEPT !.backup = [f \in PayloadFile |-> 0]]
           h2 == UpdTo(helper[j], "moveOld")
<1>6. CASE Whole(disk.install, Old) /\ Whole(disk.staged, New) /\ disk' = Persist(d2, j, "replacing", TRUE) /\ Goes(j, "moveOld")
  <2>1. helper' = [helper EXCEPT ![j] = h2]
    BY <1>3, <1>6, UpdGoes
  <2>2. /\ h2 \in UpdHelperRecord /\ h2.pc = "moveOld" /\ h2.run = helper[j].run /\ h2.old = {} /\ h2.new = {}
    BY <1>3, UpdToFields DEF Pc, Clean
  <2>3. /\ d2 \in UpdDiskRecord /\ d2.lock = j /\ d2.ack = disk.ack /\ d2.receipt = disk.receipt /\ d2.clean = disk.clean
        /\ d2.install = disk.install /\ d2.staged = disk.staged
    BY <1>3 DEF UpdDiskRecord, UpdFiles, Bytes
  <2>4. "replacing" \in ReceiptPhase \ UpdEnds /\ TRUE \in BOOLEAN
    BY DEF ReceiptPhase, UpdEnds
  <2>5. disk' = Persist(d2, j, "replacing", TRUE)
    BY <1>6
  <2> HIDE DEF h2, d2
  <2>6. UpdExchange(h2, d2)
    BY <2>2, <2>3, <1>3, <1>6 DEF UpdExchange, Whole, UpdOlds
  <2>7. h2.pc \notin UpdOldPcs
    BY <2>2 DEF UpdOldPcs
  <2> QED BY <2>1, <2>2, <2>3, <2>4, <2>5, <2>6, <2>7, <1>1, <1>2, <1>3, UpdSaves
<1> QED BY <1>4, <1>5, <1>6 DEF SeesExit

(* An old file is moved to the backup, ...                                   *)
LEMMA UpdMovesOld ==
  ASSUME UpdInv, NEW j \in Job, MovesOld(j)
  PROVE  UpdInv'
<1> DEFINE h == helper[j]
           f == NextOf(h.old)
           d == [disk EXCEPT !.install[f] = 0, !.backup[f] = disk.install[f]]
           g == [h EXCEPT !.old = @ \cup {f}]
<1>1. /\ h.pc = "moveOld" /\ h.old # PayloadFile /\ UNCHANGED <<core, svc, owner>>
      /\ \/ disk' = Persist(d, j, "replacing", FALSE) /\ helper' = [helper EXCEPT ![j] = g]
         \/ disk' = d /\ helper' = [helper EXCEPT ![j] = [g EXCEPT !.pc = "rollback"]]
         \/ disk' = d /\ helper' = [helper EXCEPT ![j] = [g EXCEPT !.pc = "gone"]]
         \/ Goes(j, IF h.old = {} THEN "restartOld" ELSE "rollback") /\ UNCHANGED disk
  BY DEF MovesOld
<1>2. h.pc \in UpdArmed \ {"ready"} /\ h.pc \in UpdMoving
  BY <1>1 DEF UpdArmed, UpdMoving
<1>3. /\ helper \in [Job -> UpdHelperRecord] /\ UpdExchange(h, disk) /\ j \in disk.ack
      /\ disk \in UpdDiskRecord /\ h \in UpdHelperRecord /\ disk.lock = j
  BY <1>2, UpdFacts DEF UpdHelperOk
<1>4. f \in PayloadFile \ h.old /\ h.new = {} /\ h.old \in SUBSET PayloadFile /\ disk.install[f] \in {Old, Edited}
  <2>1. h.old \in SUBSET PayloadFile
    BY <1>3 DEF UpdHelperRecord
  <2>2. f \in PayloadFile \ h.old
    BY <2>1, <1>1, UpdNextOf
  <2> HIDE DEF f
  <2> QED BY <2>1, <2>2, <1>1, <1>3 DEF UpdExchange
<1> HIDE DEF f
<1>5. /\ disk.install \in UpdFiles /\ disk.backup \in UpdFiles /\ disk.staged \in UpdFiles
      /\ [disk.install EXCEPT ![f] = 0] \in UpdFiles /\ [disk.backup EXCEPT ![f] = disk.install[f]] \in UpdFiles
  BY <1>3, <1>4 DEF UpdDiskRecord, UpdFiles, Bytes
<1>6. d = [disk EXCEPT !.install = [disk.install EXCEPT ![f] = 0], !.backup = [disk.backup EXCEPT ![f] = disk.install[f]]]
  OBVIOUS
<1>7. /\ d \in UpdDiskRecord /\ d.lock = j /\ d.ack = disk.ack /\ d.receipt = disk.receipt /\ d.clean = disk.clean
      /\ d.install = [disk.install EXCEPT ![f] = 0] /\ d.backup = [disk.backup EXCEPT ![f] = disk.install[f]]
      /\ d.staged = disk.staged
  BY <1>3, <1>5, <1>6 DEF UpdDiskRecord
<1>8. /\ g \in UpdHelperRecord /\ g.pc = "moveOld" /\ g.old = h.old \cup {f} /\ g.new = {} /\ g.run = h.run
  BY <1>3, <1>4, <1>1 DEF UpdHelperRecord
<1> HIDE DEF d, g
<1>9. \A f2 \in PayloadFile : /\ f2 # f => d.install[f2] = disk.install[f2] /\ d.backup[f2] = disk.backup[f2]
                              /\ d.backup[f] = disk.install[f]
  BY <1>7, <1>5, <1>4 DEF UpdFiles
<1>10. ASSUME NEW pc \in {"moveOld", "rollback", "gone"}, helper' = [helper EXCEPT ![j] = UpdTo(g, pc)],
              disk' \in {d, Persist(d, j, "replacing", FALSE)}
       PROVE  UpdInv'
  <2> DEFINE h2 == UpdTo(g, pc)
  <2>1. h2 \in UpdHelperRecord /\ h2.pc = pc /\ h2.run = h.run /\ h2.old = h.old \cup {f} /\ h2.new = {}
    BY <1>8, <1>10, UpdToFields DEF Pc
  <2>2. helper' = [helper EXCEPT ![j] = h2]
    BY <1>10
  <2> HIDE DEF h2
  <2>3. UpdExchange(h2, d)
    BY <2>1, <1>3, <1>4, <1>7, <1>9 DEF UpdExchange
  <2>4. h2.pc \notin UpdOldPcs /\ h2.pc \notin {"restarting", "started", "none", "validating", "final"}
    BY <2>1 DEF UpdOldPcs
  <2>5. "replacing" \in ReceiptPhase \ UpdEnds /\ FALSE \in BOOLEAN
    BY DEF ReceiptPhase, UpdEnds
  <2>6. /\ helper[j].pc \in UpdArmed /\ j \in disk.ack /\ h2.run = helper[j].run /\ UNCHANGED <<core, svc, owner>>
        /\ h2.pc \in UpdOldPcs => Clean(h2) /\ UpdOlds(d.install)
        /\ h2.pc \in {"restarting", "started"} => h2.new = PayloadFile
        /\ disk' \in {d, Persist(d, j, "replacing", FALSE)}
    BY <2>1, <2>4, <1>1, <1>2, <1>3, <1>10
  <2>7. d \in UpdDiskRecord /\ d.lock = j /\ d.ack = disk.ack /\ d.receipt = disk.receipt /\ d.clean = disk.clean
    BY <1>7
  <2> QED BY <2>1, <2>2, <2>3, <2>4, <2>5, <2>6, <2>7, UpdSaves
<1>11. CASE disk' = Persist(d, j, "replacing", FALSE) /\ helper' = [helper EXCEPT ![j] = g]
  <2>1. g = UpdTo(g, "moveOld")
    BY <1>8 DEF UpdTo, UpdHelperRecord
  <2> QED BY <2>1, <1>11, <1>10
<1>12. CASE disk' = d /\ helper' = [helper EXCEPT ![j] = [g EXCEPT !.pc = "rollback"]]
  BY <1>12, <1>10 DEF UpdTo
<1>13. CASE disk' = d /\ helper' = [helper EXCEPT ![j] = [g EXCEPT !.pc = "gone"]]
  BY <1>13, <1>10 DEF UpdTo
<1>14. CASE Goes(j, IF h.old = {} THEN "restartOld" ELSE "rollback") /\ UNCHANGED disk
  <2> DEFINE pc == IF h.old = {} THEN "restartOld" ELSE "rollback"
  <2>1. helper' = [helper EXCEPT ![j] = UpdTo(h, pc)]
    BY <1>14, <1>3, UpdGoes
  <2>2. pc \in Pc /\ pc \notin {"none", "validating", "final", "restarting", "started"}
    BY DEF Pc
  <2>3. pc \in UpdOldPcs => Clean(h) /\ UpdOlds(disk.install)
    BY <1>3, <1>4 DEF UpdOldPcs, Clean, UpdOlds, UpdExchange
  <2>4. "replacing" \in ReceiptPhase \ UpdEnds /\ FALSE \in BOOLEAN
    BY DEF ReceiptPhase, UpdEnds
  <2> HIDE DEF pc
  <2> QED BY <2>1, <2>2, <2>3, <2>4, <1>1, <1>2, <1>3, <1>14, UpdTurns
<1> QED BY <1>1, <1>11, <1>12, <1>13, <1>14

(* ... a new one to its place.                                               *)
LEMMA UpdMovesNew ==
  ASSUME UpdInv, NEW j \in Job, MovesNew(j)
  PROVE  UpdInv'
<1> DEFINE h == helper[j]
           f == NextOf(h.new)
           d == [disk EXCEPT !.staged[f] = 0, !.install[f] = disk.staged[f]]
           g == [h EXCEPT !.new = @ \cup {f}, !.pc = "moveNew"]
<1>1. /\ h.pc \in {"moveOld", "moveNew"} /\ h.old = PayloadFile /\ h.new # PayloadFile /\ UNCHANGED <<core, svc, owner>>
      /\ \/ disk' = Persist(d, j, "replacing", FALSE) /\ helper' = [helper EXCEPT ![j] = g]
         \/ disk' = d /\ helper' = [helper EXCEPT ![j] = [g EXCEPT !.pc = "rollback"]]
         \/ disk' = d /\ helper' = [helper EXCEPT ![j] = [g EXCEPT !.pc = "gone"]]
         \/ Goes(j, "rollback") /\ UNCHANGED disk
  BY DEF MovesNew
<1>2. h.pc \in UpdArmed \ {"ready"} /\ h.pc \in UpdMoving
  BY <1>1 DEF UpdArmed, UpdMoving
<1>3. /\ helper \in [Job -> UpdHelperRecord] /\ UpdExchange(h, disk) /\ j \in disk.ack
      /\ disk \in UpdDiskRecord /\ h \in UpdHelperRecord /\ disk.lock = j
  BY <1>2, UpdFacts DEF UpdHelperOk
<1>4. f \in PayloadFile \ h.new /\ h.new \in SUBSET PayloadFile /\ disk.staged[f] = New
  <2>1. h.new \in SUBSET PayloadFile
    BY <1>3 DEF UpdHelperRecord
  <2>2. f \in PayloadFile \ h.new
    BY <2>1, <1>1, UpdNextOf
  <2> HIDE DEF f
  <2> QED BY <2>1, <2>2, <1>3 DEF UpdExchange
<1> HIDE DEF f
<1>5. /\ disk.install \in UpdFiles /\ disk.backup \in UpdFiles /\ disk.staged \in UpdFiles
      /\ [disk.staged EXCEPT ![f] = 0] \in UpdFiles /\ [disk.install EXCEPT ![f] = disk.staged[f]] \in UpdFiles
  BY <1>3, <1>4 DEF UpdDiskRecord, UpdFiles, Bytes, New
<1>6. d = [disk EXCEPT !.staged = [disk.staged EXCEPT ![f] = 0], !.install = [disk.install EXCEPT ![f] = disk.staged[f]]]
  OBVIOUS
<1>7. /\ d \in UpdDiskRecord /\ d.lock = j /\ d.ack = disk.ack /\ d.receipt = disk.receipt /\ d.clean = disk.clean
      /\ d.staged = [disk.staged EXCEPT ![f] = 0] /\ d.install = [disk.install EXCEPT ![f] = disk.staged[f]]
      /\ d.backup = disk.backup
  BY <1>3, <1>5, <1>6 DEF UpdDiskRecord
<1>8. /\ g \in UpdHelperRecord /\ g.pc = "moveNew" /\ g.new = h.new \cup {f} /\ g.old = PayloadFile /\ g.run = h.run
  BY <1>3, <1>4, <1>1 DEF UpdHelperRecord, Pc
<1> HIDE DEF d, g
<1>9. \A f2 \in PayloadFile : /\ f2 # f => d.install[f2] = disk.install[f2] /\ d.staged[f2] = disk.staged[f2]
                              /\ d.install[f] = New
  BY <1>7, <1>5, <1>4 DEF UpdFiles
<1>10. ASSUME NEW pc \in {"moveNew", "rollback", "gone"}, helper' = [helper EXCEPT ![j] = UpdTo(g, pc)],
              disk' \in {d, Persist(d, j, "replacing", FALSE)}
       PROVE  UpdInv'
  <2> DEFINE h2 == UpdTo(g, pc)
  <2>1. h2 \in UpdHelperRecord /\ h2.pc = pc /\ h2.run = h.run /\ h2.new = h.new \cup {f} /\ h2.old = PayloadFile
    BY <1>8, <1>10, UpdToFields DEF Pc
  <2>2. helper' = [helper EXCEPT ![j] = h2]
    BY <1>10
  <2> HIDE DEF h2
  <2>3. UpdExchange(h2, d)
    BY <2>1, <1>1, <1>3, <1>4, <1>7, <1>9 DEF UpdExchange
  <2>4. h2.pc \notin UpdOldPcs /\ h2.pc \notin {"restarting", "started", "none", "validating", "final"}
    BY <2>1 DEF UpdOldPcs
  <2>5. "replacing" \in ReceiptPhase \ UpdEnds /\ FALSE \in BOOLEAN
    BY DEF ReceiptPhase, UpdEnds
  <2>6. /\ helper[j].pc \in UpdArmed /\ j \in disk.ack /\ h2.run = helper[j].run /\ UNCHANGED <<core, svc, owner>>
        /\ h2.pc \in UpdOldPcs => Clean(h2) /\ UpdOlds(d.install)
        /\ h2.pc \in {"restarting", "started"} => h2.new = PayloadFile
        /\ disk' \in {d, Persist(d, j, "replacing", FALSE)}
    BY <2>1, <2>4, <1>1, <1>2, <1>3, <1>10
  <2>7. d \in UpdDiskRecord /\ d.lock = j /\ d.ack = disk.ack /\ d.receipt = disk.receipt /\ d.clean = disk.clean
    BY <1>7
  <2> QED BY <2>1, <2>2, <2>3, <2>4, <2>5, <2>6, <2>7, UpdSaves
<1>11. CASE disk' = Persist(d, j, "replacing", FALSE) /\ helper' = [helper EXCEPT ![j] = g]
  <2>1. g = UpdTo(g, "moveNew")
    BY <1>8 DEF UpdTo, UpdHelperRecord
  <2> QED BY <2>1, <1>11, <1>10
<1>12. CASE disk' = d /\ helper' = [helper EXCEPT ![j] = [g EXCEPT !.pc = "rollback"]]
  BY <1>12, <1>10 DEF UpdTo
<1>13. CASE disk' = d /\ helper' = [helper EXCEPT ![j] = [g EXCEPT !.pc = "gone"]]
  BY <1>13, <1>10 DEF UpdTo
<1>14. CASE Goes(j, "rollback") /\ UNCHANGED disk
  <2>1. helper' = [helper EXCEPT ![j] = UpdTo(h, "rollback")]
    BY <1>14, <1>3, UpdGoes
  <2>2. "rollback" \in Pc /\ "rollback" \notin UpdOldPcs
    BY DEF Pc, UpdOldPcs
  <2>4. "replacing" \in ReceiptPhase \ UpdEnds /\ FALSE \in BOOLEAN
    BY DEF ReceiptPhase, UpdEnds
  <2> QED BY <2>1, <2>2, <2>4, <1>1, <1>2, <1>3, <1>14, UpdTurns
<1> QED BY <1>1, <1>11, <1>12, <1>13, <1>14

(* Everything is in place.                                                   *)
LEMMA UpdBeginsRestart ==
  ASSUME UpdInv, NEW j \in Job, BeginsRestart(j)
  PROVE  UpdInv'
<1>1. helper[j].pc = "moveNew" /\ helper[j].new = PayloadFile /\ UNCHANGED <<core, svc, owner>>
  BY DEF BeginsRestart, Replaced
<1>2. helper[j].pc \in UpdArmed \ {"ready"} /\ helper[j].pc \in UpdMoving
  BY <1>1 DEF UpdArmed, UpdMoving
<1>3. helper \in [Job -> UpdHelperRecord] /\ UpdExchange(helper[j], disk) /\ j \in disk.ack
  BY <1>2, UpdFacts DEF UpdHelperOk
<1>4. PICK pc \in {"restarting", "rollback"} : Goes(j, pc) /\ disk' \in {disk, Persist(disk, j, "restarting", FALSE)}
  BY DEF BeginsRestart
<1>5. helper' = [helper EXCEPT ![j] = UpdTo(helper[j], pc)]
  BY <1>3, <1>4, UpdGoes
<1>6. /\ pc \in Pc /\ pc \notin {"none", "validating", "final"} /\ pc \notin UpdOldPcs
      /\ "restarting" \in ReceiptPhase \ UpdEnds /\ FALSE \in BOOLEAN
  BY DEF Pc, UpdOldPcs, ReceiptPhase, UpdEnds
<1> QED BY <1>1, <1>2, <1>3, <1>4, <1>5, <1>6, UpdTurns

(* The new version runs, is stuck, or is given up.                           *)
LEMMA UpdRestarted ==
  ASSUME UpdInv, NEW j \in Job, Restarted(j)
  PROVE  UpdInv'
<1>1. helper[j].pc \in {"restarting", "started"} /\ UNCHANGED <<core, svc, owner, disk>>
  BY DEF Restarted
<1>2. helper[j].pc \in UpdArmed \ {"ready"} /\ helper[j].pc \in UpdMoving /\ helper[j].pc \notin {"none", "gone"}
  BY <1>1 DEF UpdArmed, UpdMoving
<1>3. /\ helper \in [Job -> UpdHelperRecord] /\ helper[j] \in UpdHelperRecord /\ UpdExchange(helper[j], disk) /\ j \in disk.ack
      /\ disk.lock = j /\ helper[j].new = PayloadFile
  BY <1>1, <1>2, UpdFacts DEF UpdHelperOk
<1>4. UpdNews(disk.install)
  BY <1>3 DEF UpdExchange, UpdNews
<1>5. ASSUME NEW phase \in {"installed", "rollbackBlocked"}, Ending(j, phase) PROVE UpdInv'
  <2>1. phase \in UpdEnds
    BY DEF UpdEnds
  <2> DEFINE h2 == UpdEndAs(helper[j], phase)
  <2>2. h2.end = phase
    BY <1>3, <2>1, UpdEndFields
  <2> HIDE DEF h2
  <2>3. UpdFinal(h2, disk, j)
    BY <2>1, <2>2, <1>3, <1>4 DEF UpdFinal
  <2>4. UpdFinal(UpdEndAs(helper[j], phase), disk, j)
    BY <2>3 DEF h2
  <2> QED BY <2>1, <2>4, <1>1, <1>2, <1>5, UpdEndsAs
<1>6. CASE Goes(j, "rollback")
  <2>1. helper' = [helper EXCEPT ![j] = UpdTo(helper[j], "rollback")]
    BY <1>6, <1>3, UpdGoes
  <2>2. "rollback" \in Pc /\ "rollback" \notin UpdOldPcs /\ "restarting" \in ReceiptPhase \ UpdEnds /\ FALSE \in BOOLEAN
    BY DEF Pc, UpdOldPcs, ReceiptPhase, UpdEnds
  <2> QED BY <2>1, <2>2, <1>1, <1>2, <1>3, UpdTurns
<1> QED BY <1>5, <1>6 DEF Restarted

(* The old version runs, or does not start.                                  *)
LEMMA UpdRestartedOld ==
  ASSUME UpdInv, NEW j \in Job, RestartedOld(j)
  PROVE  UpdInv'
<1>1. helper[j].pc \in {"restartOld", "startedOld"} /\ UNCHANGED <<core, svc, owner, disk>>
  BY DEF RestartedOld
<1>2. helper[j].pc \in UpdOldPcs /\ helper[j].pc \notin {"none", "gone"}
  BY <1>1 DEF UpdOldPcs
<1>3. PICK phase \in {"rolledBack", "oldRuntimeRestarted", "rollbackBlocked", "rollbackRestartFailed"} : Ending(j, phase)
  BY DEF RestartedOld
<1>4. phase \in UpdEnds \ {"installed"}
  BY DEF UpdEnds
<1> QED BY <1>1, <1>2, <1>3, <1>4, UpdFails, UpdEndsAs

(* A helper dies anywhere.                                                   *)
LEMMA UpdHelperDies ==
  ASSUME UpdInv, NEW j \in Job, HelperDies(j)
  PROVE  UpdInv'
BY UpdGone DEF HelperDies

(* The last step of a helper: the lock is released where the installation is *)
(* in one piece.                                                             *)
LEMMA UpdReleasesLock ==
  ASSUME UpdInv, NEW j \in Job, ReleasesLock(j)
  PROVE  UpdInv'
<1> DEFINE h == helper[j]
           d == IF h.end \in Safe /\ disk.lock = j THEN [disk EXCEPT !.lock = NoJob] ELSE disk
           h2 == UpdTo(h, "gone")
<1>1. /\ h.pc = "final" /\ disk' \in {d, Persist(d, j, h.end, Clean(h))} /\ Goes(j, "gone")
      /\ UNCHANGED <<core, svc, owner>>
  BY DEF ReleasesLock
<1>2. /\ h.run # 0 /\ h \in UpdHelperRecord /\ disk \in UpdDiskRecord /\ helper \in [Job -> UpdHelperRecord] /\ j # NoJob
      /\ disk.receipt[j] \notin UpdEnds /\ UpdFinal(h, disk, j)
      /\ disk.lock = NoJob => UpdOlds(disk.install) \/ UpdNews(disk.install)
  BY <1>1, UpdBusy DEF UpdHelperOk
<1>3. /\ h2 \in UpdHelperRecord /\ h2.pc = "gone" /\ h2.run = h.run
      /\ helper' = [helper EXCEPT ![j] = h2]
  BY <1>1, <1>2, UpdToFields, UpdGoes DEF Pc
<1>4. /\ d \in UpdDiskRecord /\ d.install = disk.install /\ d.staged = disk.staged /\ d.backup = disk.backup
      /\ d.ack = disk.ack /\ d.receipt = disk.receipt /\ d.clean = disk.clean
      /\ d.lock = disk.lock \/ (disk.lock = j /\ h.end \in Safe /\ d.lock = NoJob)
  <2>1. [disk EXCEPT !.lock = NoJob] \in UpdDiskRecord
    BY <1>2, UpdNumbers DEF UpdDiskRecord, NoJob
  <2>2. LET e == [disk EXCEPT !.lock = NoJob]
        IN  /\ e.install = disk.install /\ e.staged = disk.staged /\ e.backup = disk.backup
            /\ e.ack = disk.ack /\ e.receipt = disk.receipt /\ e.clean = disk.clean /\ e.lock = NoJob
    BY <1>2 DEF UpdDiskRecord
  <2> QED BY <1>2, <2>1, <2>2
<1> HIDE DEF d, h2
<1>5. /\ disk' \in UpdDiskRecord /\ disk'.install = disk.install /\ disk'.staged = disk.staged /\ disk'.backup = disk.backup
      /\ disk'.ack = disk.ack /\ disk'.lock = d.lock
      /\ \A i \in Job \ {j} : disk'.receipt[i] = disk.receipt[i] /\ disk'.clean[i] = disk.clean[i]
      /\ \/ disk'.receipt[j] = disk.receipt[j]
         \/ disk'.receipt[j] = h.end /\ disk'.clean[j] = Clean(h)
  <2>1. CASE disk' = d
    BY <2>1, <1>4
  <2>2. CASE disk' = Persist(d, j, h.end, Clean(h))
    <3>1. h.end \in ReceiptPhase /\ Clean(h) \in BOOLEAN
      BY <1>2 DEF UpdFinal, UpdEnds, ReceiptPhase, Clean
    <3> QED BY <2>2, <3>1, <1>4, UpdPersisted
  <2> QED BY <2>1, <2>2, <1>1
<1> DEFINE d3 == disk'
<1>6. UpdHelperOk(h2, d3, j)
  <2> HIDE DEF d3
  <2> QED BY <1>2, <1>3 DEF UpdHelperOk, UpdArmed, UpdMoving, UpdOldPcs
<1>7. UpdReceiptTrue(d3, j) \/ j \notin disk.ack
  BY <1>2, <1>5 DEF UpdReceiptTrue, UpdFinal, UpdEnds
<1>8. d3.lock = NoJob => UpdOlds(d3.install) \/ UpdNews(d3.install)
  BY <1>2, <1>4, <1>5 DEF UpdFinal, Safe
<1>9. UpdStepOk(h, h2, disk, d3, j)
  <2>1. /\ d3 \in UpdDiskRecord /\ d3.ack = disk.ack /\ d3.install = disk.install
        /\ \A i \in Job \ {j} : d3.receipt[i] = disk.receipt[i] /\ d3.clean[i] = disk.clean[i]
        /\ \/ disk.lock \in {NoJob, j} /\ d3.lock \in {NoJob, j}
           \/ d3.lock = disk.lock /\ d3.install = disk.install /\ d3.staged = disk.staged /\ d3.backup = disk.backup
    BY <1>4, <1>5
  <2> HIDE DEF d3
  <2> QED BY <2>1, <1>1, <1>2, <1>3, <1>6, <1>7, <1>8 DEF UpdStepOk, UpdArmed
<1>10. disk' = d3
  OBVIOUS
<1> HIDE DEF d3
<1> QED BY <1>1, <1>3, <1>9, <1>10, UpdHelps

(* A file is moved back, the new ones before the old ones.                   *)
LEMMA UpdRollsBack ==
  ASSUME UpdInv, NEW j \in Job, RollsBack(j)
  PROVE  UpdInv'
<1> DEFINE h == helper[j]
           f == LastOf(h.new)
           g == LastOf(h.old)
<1>1. h.pc = "rollback" /\ UNCHANGED <<core, svc, owner>>
  BY DEF RollsBack
<1>2. h.pc \in UpdArmed \ {"ready"} /\ h.pc \in UpdMoving
  BY <1>1 DEF UpdArmed, UpdMoving
<1>3. /\ helper \in [Job -> UpdHelperRecord] /\ UpdExchange(h, disk) /\ j \in disk.ack
      /\ disk \in UpdDiskRecord /\ h \in UpdHelperRecord /\ disk.lock = j /\ h.pc \notin {"none", "gone"}
  BY <1>2, UpdFacts DEF UpdHelperOk
<1>4. /\ disk.install \in UpdFiles /\ disk.backup \in UpdFiles /\ disk.staged \in UpdFiles
      /\ h.old \in SUBSET PayloadFile /\ h.new \in SUBSET PayloadFile
  BY <1>3 DEF UpdDiskRecord, UpdHelperRecord
<1>5. "rollingBack" \in ReceiptPhase \ UpdEnds
  BY DEF ReceiptPhase, UpdEnds
<1>6. CASE Ending(j, "rollbackBlocked") /\ UNCHANGED disk
  <2> DEFINE h2 == UpdEndAs(h, "rollbackBlocked")
  <2>1. "rollbackBlocked" \in UpdEnds
    BY DEF UpdEnds
  <2>2. h2.end = "rollbackBlocked"
    BY <1>3, <2>1, UpdEndFields
  <2>3. UpdFinal(h2, disk, j)
    <3> HIDE DEF h2
    <3> QED BY <2>1, <2>2, <1>3 DEF UpdFinal
  <2> QED BY <2>1, <2>3, <1>1, <1>3, <1>6, UpdEndsAs
<1>7. ASSUME NEW h2, h2 = [h EXCEPT !.new = @ \ {f}], helper' = [helper EXCEPT ![j] = h2], RollbackVerified(h), h.new # {},
             NEW d2, d2 = [disk EXCEPT !.install[f] = 0, !.staged[f] = disk.install[f]],
             disk' = Persist(d2, j, "rollingBack", FALSE)
      PROVE  UpdInv'
  <2>1. f \in h.new /\ f \in PayloadFile
    BY <1>4, <1>7, UpdLastOf
  <2> HIDE DEF f
  <2>2. disk.install[f] = New /\ h.old = PayloadFile
    BY <2>1, <1>3, <1>7 DEF RollbackVerified, UpdExchange
  <2>3. [disk.install EXCEPT ![f] = 0] \in UpdFiles /\ [disk.staged EXCEPT ![f] = disk.install[f]] \in UpdFiles
    BY <1>4, <2>1, <2>2 DEF UpdFiles, Bytes, New
  <2>4. d2 = [disk EXCEPT !.install = [disk.install EXCEPT ![f] = 0], !.staged = [disk.staged EXCEPT ![f] = disk.install[f]]]
    BY <1>7
  <2>5. /\ d2 \in UpdDiskRecord /\ d2.lock = j /\ d2.ack = disk.ack /\ d2.receipt = disk.receipt /\ d2.clean = disk.clean
        /\ d2.install = [disk.install EXCEPT ![f] = 0] /\ d2.staged = [disk.staged EXCEPT ![f] = disk.install[f]]
        /\ d2.backup = disk.backup
    BY <1>3, <2>3, <2>4 DEF UpdDiskRecord
  <2>6. h2 \in UpdHelperRecord /\ h2.pc = "rollback" /\ h2.new = h.new \ {f} /\ h2.old = PayloadFile /\ h2.run = h.run
    BY <1>1, <1>3, <1>4, <1>7, <2>2 DEF UpdHelperRecord
  <2>7. \A f2 \in PayloadFile : /\ f2 # f => d2.install[f2] = disk.install[f2] /\ d2.staged[f2] = disk.staged[f2]
                                /\ d2.staged[f] = New
    BY <2>5, <2>2, <2>1, <1>4 DEF UpdFiles
  <2>8. UpdExchange(h2, d2)
    BY <2>5, <2>6, <2>7, <2>1, <2>2, <1>3 DEF UpdExchange
  <2>9. h2.pc \notin UpdOldPcs /\ h2.pc \notin {"restarting", "started", "none", "validating", "final"} /\ FALSE \in BOOLEAN
    BY <2>6 DEF UpdOldPcs
  <2> QED BY <2>5, <2>6, <2>8, <2>9, <1>1, <1>2, <1>3, <1>5, <1>7, UpdSaves
<1>8. ASSUME NEW h2, h2 = [h EXCEPT !.old = @ \ {g}], helper' = [helper EXCEPT ![j] = h2], RollbackVerified(h), h.new = {}, h.old # {},
             NEW d2, d2 = [disk EXCEPT !.backup[g] = 0, !.install[g] = disk.backup[g]],
             disk' = Persist(d2, j, "rollingBack", h.old = {g})
      PROVE  UpdInv'
  <2>1. g \in h.old /\ g \in PayloadFile
    BY <1>4, <1>8, UpdLastOf
  <2> HIDE DEF g
  <2>2. disk.backup[g] = Old
    BY <2>1, <1>8 DEF RollbackVerified
  <2>3. [disk.backup EXCEPT ![g] = 0] \in UpdFiles /\ [disk.install EXCEPT ![g] = disk.backup[g]] \in UpdFiles
    BY <1>4, <2>1, <2>2 DEF UpdFiles, Bytes, Old
  <2>4. d2 = [disk EXCEPT !.backup = [disk.backup EXCEPT ![g] = 0], !.install = [disk.install EXCEPT ![g] = disk.backup[g]]]
    BY <1>8
  <2>5. /\ d2 \in UpdDiskRecord /\ d2.lock = j /\ d2.ack = disk.ack /\ d2.receipt = disk.receipt /\ d2.clean = disk.clean
        /\ d2.backup = [disk.backup EXCEPT ![g] = 0] /\ d2.install = [disk.install EXCEPT ![g] = disk.backup[g]]
        /\ d2.staged = disk.staged
    BY <1>3, <2>3, <2>4 DEF UpdDiskRecord
  <2>6. h2 \in UpdHelperRecord /\ h2.pc = "rollback" /\ h2.old = h.old \ {g} /\ h2.new = {} /\ h2.run = h.run
    BY <1>1, <1>3, <1>4, <1>8 DEF UpdHelperRecord
  <2>7. \A f2 \in PayloadFile : /\ f2 # g => d2.install[f2] = disk.install[f2] /\ d2.backup[f2] = disk.backup[f2]
                                /\ d2.install[g] = Old
    BY <2>5, <2>2, <2>1, <1>4 DEF UpdFiles
  <2>8. UpdExchange(h2, d2)
    BY <2>5, <2>6, <2>7, <2>1, <1>8, <1>3 DEF UpdExchange
  <2>9. h2.pc \notin UpdOldPcs /\ h2.pc \notin {"restarting", "started", "none", "validating", "final"} /\ (h.old = {g}) \in BOOLEAN
    BY <2>6 DEF UpdOldPcs
  <2> QED BY <2>5, <2>6, <2>8, <2>9, <1>1, <1>2, <1>3, <1>5, <1>8, UpdSaves
<1>9. CASE Clean(h) /\ Whole(disk.install, Old) /\ Goes(j, "restartOld") /\ UNCHANGED disk
  <2>1. helper' = [helper EXCEPT ![j] = UpdTo(h, "restartOld")]
    BY <1>9, <1>3, UpdGoes
  <2>2. "restartOld" \in Pc /\ "restartOld" \notin UpdMoving /\ TRUE \in BOOLEAN /\ UpdOlds(disk.install)
    BY <1>9 DEF Pc, UpdMoving, Whole, UpdOlds
  <2> QED BY <2>1, <2>2, <1>1, <1>2, <1>3, <1>5, <1>9, UpdTurns
<1>10. \/ Ending(j, "rollbackBlocked") /\ UNCHANGED disk
       \/ /\ RollbackVerified(h) /\ h.new # {} /\ disk' = Persist([disk EXCEPT !.install[f] = 0, !.staged[f] = disk.install[f]],
                                                                  j, "rollingBack", FALSE)
          /\ helper' = [helper EXCEPT ![j].new = @ \ {f}]
       \/ /\ RollbackVerified(h) /\ h.new = {} /\ h.old # {}
          /\ disk' = Persist([disk EXCEPT !.backup[g] = 0, !.install[g] = disk.backup[g]], j, "rollingBack", h.old = {g})
          /\ helper' = [helper EXCEPT ![j].old = @ \ {g}]
       \/ Clean(h) /\ Whole(disk.install, Old) /\ Goes(j, "restartOld") /\ UNCHANGED disk
  BY DEF RollsBack
<1> HIDE DEF f, g
<1>11. /\ [helper EXCEPT ![j].new = @ \ {f}] = [helper EXCEPT ![j] = [h EXCEPT !.new = @ \ {f}]]
       /\ [helper EXCEPT ![j].old = @ \ {g}] = [helper EXCEPT ![j] = [h EXCEPT !.old = @ \ {g}]]
  OBVIOUS
<1> QED BY <1>6, <1>7, <1>8, <1>9, <1>10, <1>11

(* A Codlet that has just started has no request and no handoff.             *)
LEMMA UpdFresh ==
  ASSUME UpdInv, StartsJob, NEW H, NEW d
  PROVE  UpdRequestsOk(core', svc', owner', H, d)
<1>1. core \in UpdCoreRecord
  BY DEF UpdInv, UpdRequestsOk
<1>2. core' \in UpdCoreRecord /\ core'.run > 0
  BY <1>1 DEF StartsJob, UpdCoreRecord
<1>3. PICK automatic \in BOOLEAN : svc' = Started(automatic)
  BY DEF StartsJob
<1>4. svc' \in ServiceState /\ svc'.queue = <<>> /\ svc'.request = NoJob
  <2>1. NoService \in ServiceState /\ NoService.queue = <<>> /\ NoService.request = NoJob
    BY UpdNumbers DEF NoService, ServiceState, UpdatePhase, NoJob
  <2>2. PICK phase \in {"checking", "idle"} :
          svc' = [NoService EXCEPT !.phase = phase, !.busy = TRUE, !.automatic = automatic, !.timer = automatic,
                                   !.doing = "restoring"]
    BY <1>3 DEF Started
  <2>3. phase \in UpdatePhase
    BY DEF UpdatePhase
  <2> QED BY <2>1, <2>2, <2>3 DEF ServiceState
<1>5. owner' \in UpdOwnerRecord /\ owner'.handoff = "none"
  BY UpdNumbers DEF StartsJob, NoOwnerState, UpdOwnerRecord, Handoff, NoJob
<1>6. Len(svc'.queue) <= MaxQueue
  BY <1>4, RuntimeUpdateConstants
<1> QED BY <1>2, <1>4, <1>5, <1>6 DEF UpdRequestsOk

(* A helper starts Codlet, ...                                               *)
LEMMA UpdHelperStarts ==
  ASSUME UpdInv, NEW j \in Job, HelperStarts(j)
  PROVE  UpdInv'
<1> DEFINE h == helper[j]
           pc == IF h.pc = "restarting" THEN "started" ELSE "startedOld"
           h2 == UpdTo(h, pc)
<1>1. h.pc \in {"restarting", "restartOld"} /\ StartsJob /\ Goes(j, pc) /\ disk' = disk
  BY DEF HelperStarts
<1>2. h.pc \in UpdArmed \ {"ready"} /\ (h.pc = "restarting" => h.pc \in UpdMoving) /\ (h.pc # "restarting" => h.pc \in UpdOldPcs)
  BY <1>1 DEF UpdArmed, UpdMoving, UpdOldPcs
<1>3. /\ helper \in [Job -> UpdHelperRecord] /\ h \in UpdHelperRecord /\ h.run # 0 /\ j \in disk.ack /\ disk.lock = j
      /\ disk \in UpdDiskRecord /\ disk.receipt[j] \notin UpdEnds /\ h.pc \notin {"none", "validating", "final"}
      /\ h.pc = "restarting" => UpdExchange(h, disk) /\ h.new = PayloadFile
      /\ h.pc # "restarting" => UpdOlds(disk.install) /\ Clean(h)
  BY <1>2, UpdFacts DEF UpdHelperOk
<1>4. /\ h2 \in UpdHelperRecord /\ h2.pc = pc /\ h2.run = h.run /\ h2.old = h.old /\ h2.new = h.new
      /\ helper' = [helper EXCEPT ![j] = h2]
  BY <1>1, <1>3, UpdToFields, UpdGoes DEF Pc
<1> HIDE DEF h2
<1>5. (Clean(h) => Clean(h2)) /\ (UpdExchange(h, disk) => UpdExchange(h2, disk))
  BY <1>4 DEF Clean, UpdExchange
<1>6. UpdHelperOk(h2, disk, j)
  <2>1. CASE h.pc = "restarting"
    BY <2>1, <1>3, <1>4, <1>5 DEF UpdHelperOk, UpdArmed, UpdMoving, UpdOldPcs
  <2>2. CASE h.pc # "restarting"
    BY <2>2, <1>3, <1>4, <1>5 DEF UpdHelperOk, UpdArmed, UpdMoving, UpdOldPcs
  <2> QED BY <2>1, <2>2
<1>7. UpdStepOk(h, h2, disk, disk, j)
  BY <1>2, <1>3, <1>4, <1>6 DEF UpdStepOk
<1>8. UpdFilesOk(helper', disk')
  BY <1>1, <1>4, <1>7, UpdMoves DEF UpdInv
<1>9. UpdRequestsOk(core', svc', owner', helper', disk')
  BY <1>1, UpdFresh
<1> QED BY <1>8, <1>9 DEF UpdInv

(* ... or the user does.                                                     *)
LEMMA UpdUserStarts ==
  ASSUME UpdInv, UserStarts
  PROVE  UpdInv'
<1>1. StartsJob /\ helper' = helper /\ disk' = disk
  BY DEF UserStarts
<1>2. UpdRequestsOk(core', svc', owner', helper', disk')
  BY <1>1, UpdFresh
<1> QED BY <1>1, <1>2 DEF UpdInv

(* Codlet ends.                                                              *)
LEMMA UpdCoreEnds ==
  ASSUME UpdInv, CoreEnds
  PROVE  UpdInv'
<1>1. core \in UpdCoreRecord
  BY DEF UpdInv, UpdRequestsOk
<1>2. core' \in UpdCoreRecord /\ ~core'.up
  BY <1>1 DEF CoreEnds, UpdCoreRecord
<1>3. svc' \in ServiceState /\ svc'.queue = <<>> /\ svc'.request = NoJob
  BY UpdNumbers DEF CoreEnds, NoService, ServiceState, UpdatePhase, NoJob
<1>4. owner' \in UpdOwnerRecord /\ owner'.handoff = "none"
  BY UpdNumbers DEF CoreEnds, NoOwnerState, UpdOwnerRecord, Handoff, NoJob
<1>5. Len(svc'.queue) <= MaxQueue
  BY <1>3, RuntimeUpdateConstants
<1>6. UpdRequestsOk(core', svc', owner', helper', disk')
  BY <1>2, <1>3, <1>4, <1>5 DEF UpdRequestsOk
<1> QED BY <1>6 DEF UpdInv, CoreEnds

(* A change of the service that makes no new request.                        *)
UpdServed(s, t) ==
  /\ t \in ServiceState /\ Len(t.queue) <= MaxQueue /\ t.request \in {NoJob, s.request}

(* Such a change keeps the invariant, ...                                    *)
LEMMA UpdServes ==
  ASSUME UpdInv, UpdServed(svc, svc'), UNCHANGED <<core, owner, helper, disk>>
  PROVE  UpdInv'
<1>1. UpdRequestsOk(core, svc, owner, helper, disk)
  BY DEF UpdInv
<1>2. owner.handoff = "spawning" => owner.job # NoJob
  BY <1>1, UpdNumbers DEF UpdRequestsOk, NoJob
<1>3. UpdRequestsOk(core', svc', owner', helper', disk')
  BY <1>1, <1>2 DEF UpdRequestsOk, UpdServed
<1> QED BY <1>3 DEF UpdInv

(* ... also with a handoff that is over.                                     *)
LEMMA UpdAnswers ==
  ASSUME UpdInv, UpdServed(svc, svc'), UNCHANGED <<core, helper, disk>>,
         owner' \in UpdOwnerRecord, owner'.handoff \notin {"spawning", "waiting"}
  PROVE  UpdInv'
<1>1. UpdRequestsOk(core, svc, owner, helper, disk)
  BY DEF UpdInv
<1>3. UpdRequestsOk(core', svc', owner', helper', disk')
  BY <1>1 DEF UpdRequestsOk, UpdServed
<1> QED BY <1>3 DEF UpdInv

(* What is known of the service.                                             *)
LEMMA UpdService ==
  ASSUME UpdInv
  PROVE  /\ svc \in ServiceState /\ Len(svc.queue) <= MaxQueue /\ svc.queue \in Seq(JobCommand) /\ UpdServed(svc, svc)
         /\ owner \in UpdOwnerRecord /\ core \in UpdCoreRecord /\ disk.summary \in 0 .. MaxJobs
BY DEF UpdInv, UpdRequestsOk, UpdServed, ServiceState, UpdFilesOk, UpdDiskRecord

(* A receipt changes the service, not its queue.                             *)
LEMMA UpdAfterReceipt ==
  ASSUME NEW s \in ServiceState, NEW t, t = AfterReceipt(s)
  PROVE  t \in ServiceState /\ t.queue = s.queue /\ t.request \in {NoJob, s.request}
<1> DEFINE free == [s EXCEPT !.job = NoJob, !.request = NoJob, !.busy = FALSE]
<1>1. /\ free \in ServiceState /\ free.queue = s.queue /\ free.request = NoJob
  BY UpdNumbers DEF ServiceState, NoJob
<1>2. \/ t = s
      \/ t = [free EXCEPT !.phase = "upToDate", !.candidate = FALSE, !.staged = FALSE, !.error = FALSE]
      \/ t = [free EXCEPT !.phase = "failed", !.blocked = TRUE, !.error = TRUE]
      \/ t = [free EXCEPT !.phase = IF s.staged THEN "downloaded" ELSE "failed", !.error = TRUE]
  BY DEF AfterReceipt
<1> HIDE DEF free
<1>3. CASE t = s
  BY <1>3
<1>4. CASE t = [free EXCEPT !.phase = "upToDate", !.candidate = FALSE, !.staged = FALSE, !.error = FALSE]
  BY <1>1, <1>4 DEF ServiceState, UpdatePhase
<1>5. CASE t = [free EXCEPT !.phase = "failed", !.blocked = TRUE, !.error = TRUE]
  BY <1>1, <1>5 DEF ServiceState, UpdatePhase
<1>6. CASE t = [free EXCEPT !.phase = IF s.staged THEN "downloaded" ELSE "failed", !.error = TRUE]
  BY <1>1, <1>6 DEF ServiceState, UpdatePhase
<1> QED BY <1>2, <1>3, <1>4, <1>5, <1>6

(* The saved stage is restored, ...                                          *)
LEMMA UpdRestoresStage ==
  ASSUME UpdInv, RestoresStage
  PROVE  UpdInv'
<1>1. PICK t : t = restore_staged(svc)
  OBVIOUS
<1>2. t \in ServiceState /\ t.queue = svc.queue /\ t.request = svc.request
  BY <1>1, UpdService DEF restore_staged, ServiceState, UpdatePhase
<1>3. svc' = [t EXCEPT !.doing = "restored"] /\ UNCHANGED <<core, owner, helper, disk>>
  BY <1>1 DEF RestoresStage
<1>4. UpdServed(svc, svc')
  BY <1>2, <1>3, UpdService DEF UpdServed, ServiceState
<1> QED BY <1>3, <1>4, UpdServes

(* ... then the receipt.                                                     *)
LEMMA UpdRestoresReceipt ==
  ASSUME UpdInv, RestoresReceipt
  PROVE  UpdInv'
<1>1. PICK t : t = restore_install_receipt(svc)
  OBVIOUS
<1>2. t \in ServiceState /\ t.queue = svc.queue /\ t.request \in {NoJob, svc.request}
  <2>1. CASE disk.summary = NoJob
    BY <2>1, <1>1, UpdService DEF restore_install_receipt
  <2>2. CASE disk.summary # NoJob
    <3> DEFINE s == [svc EXCEPT !.job = disk.summary, !.phase = "installRequested", !.busy = FALSE]
    <3>1. s \in ServiceState /\ s.queue = svc.queue /\ s.request = svc.request
      BY UpdService DEF ServiceState, UpdatePhase
    <3>2. t = AfterReceipt(s)
      BY <2>2, <1>1 DEF restore_install_receipt
    <3> HIDE DEF s
    <3> QED BY <3>1, <3>2, UpdAfterReceipt
  <2> QED BY <2>1, <2>2
<1>3. svc' = [t EXCEPT !.doing = "none"] /\ UNCHANGED <<core, owner, helper, disk>>
  BY <1>1 DEF RestoresReceipt
<1>4. UpdServed(svc, svc')
  BY <1>2, <1>3, UpdService DEF UpdServed, ServiceState
<1> QED BY <1>3, <1>4, UpdServes

(* A command is queued.                                                      *)
LEMMA UpdEnqueue ==
  ASSUME UpdInv, NEW c \in JobCommand, enqueue(c)
  PROVE  UpdInv'
<1>1. PICK phase \in {"checking", "downloading", "installRequested"} :
        svc' = [svc EXCEPT !.phase = phase, !.busy = TRUE, !.error = FALSE, !.queue = Append(svc.queue, c)]
  BY DEF enqueue
<1>2. Len(svc.queue) < MaxQueue /\ UNCHANGED <<core, owner, helper, disk>>
  BY DEF enqueue
<1>3. Append(svc.queue, c) \in Seq(JobCommand) /\ Len(Append(svc.queue, c)) <= MaxQueue
  BY <1>2, UpdService, RuntimeUpdateConstants
<1>4. UpdServed(svc, svc')
  BY <1>1, <1>3, UpdService DEF UpdServed, ServiceState, UpdatePhase
<1> QED BY <1>2, <1>4, UpdServes

(* The automatic checks are switched.                                        *)
LEMMA UpdConfigureChecks ==
  ASSUME UpdInv, NEW a \in BOOLEAN, configure_checks(a)
  PROVE  UpdInv'
<1>1. svc' = [svc EXCEPT !.automatic = a, !.queue = Append(svc.queue, "reschedule")]
  BY DEF configure_checks
<1>2. Len(svc.queue) < MaxQueue /\ UNCHANGED <<core, owner, helper, disk>>
  BY DEF configure_checks
<1>3. Append(svc.queue, "reschedule") \in Seq(JobCommand) /\ Len(Append(svc.queue, "reschedule")) <= MaxQueue
  BY <1>2, UpdService, RuntimeUpdateConstants DEF JobCommand
<1>4. UpdServed(svc, svc')
  BY <1>1, <1>3, UpdService DEF UpdServed, ServiceState
<1> QED BY <1>2, <1>4, UpdServes

(* The timer of the automatic checks.                                        *)
LEMMA UpdAutomaticCheck ==
  ASSUME UpdInv, AutomaticCheck
  PROVE  UpdInv'
<1>1. \/ svc' = [svc EXCEPT !.timer = svc.automatic]
      \/ svc' = [svc EXCEPT !.busy = TRUE, !.phase = "checking", !.doing = "check"]
  BY DEF AutomaticCheck
<1>2. UNCHANGED <<core, owner, helper, disk>>
  BY DEF AutomaticCheck
<1>3. UpdServed(svc, svc')
  BY <1>1, UpdService DEF UpdServed, ServiceState, UpdatePhase, JobCommand
<1> QED BY <1>2, <1>3, UpdServes

(* The worker takes a command.                                               *)
LEMMA UpdTakesCommand ==
  ASSUME UpdInv, TakesCommand
  PROVE  UpdInv'
<1> DEFINE c == Head(svc.queue)
           s == [svc EXCEPT !.queue = Tail(@)]
<1>1. svc.queue # <<>> /\ UNCHANGED <<core, owner, helper, disk>>
  BY DEF TakesCommand
<1>2. c \in JobCommand /\ Tail(svc.queue) \in Seq(JobCommand) /\ Len(Tail(svc.queue)) <= MaxQueue
  <2>1. Len(Tail(svc.queue)) = Len(svc.queue) - 1 /\ Len(svc.queue) \in Nat
    BY <1>1, UpdService
  <2> QED BY <2>1, <1>1, UpdService, RuntimeUpdateConstants
<1>3. s \in ServiceState /\ s.queue = Tail(svc.queue) /\ s.request = svc.request
  BY <1>2, UpdService DEF ServiceState
<1>4. \/ svc' = [s EXCEPT !.timer = s.automatic]
      \/ svc' = [s EXCEPT !.busy = FALSE, !.timer = s.automatic]
      \/ svc' = [s EXCEPT !.busy = TRUE, !.phase = "checking", !.doing = c]
      \/ svc' = [s EXCEPT !.doing = c]
  BY DEF TakesCommand
<1> HIDE DEF s, c
<1>5. UpdServed(svc, svc')
  BY <1>2, <1>3, <1>4 DEF UpdServed, ServiceState, UpdatePhase
<1> QED BY <1>1, <1>5, UpdServes

(* A turn that fails.                                                        *)
LEMMA UpdFailState ==
  ASSUME UpdInv, svc' = FailState(svc)
  PROVE  UpdServed(svc, svc')
BY UpdService DEF UpdServed, FailState, ServiceState, UpdatePhase

(* The check for a release.                                                  *)
LEMMA UpdRunsCheck ==
  ASSUME UpdInv, RunsCheck
  PROVE  UpdInv'
<1>1. UNCHANGED <<core, owner, helper, disk>>
  BY DEF RunsCheck
<1>2. CASE svc' = FailState(svc)
  BY <1>1, <1>2, UpdFailState, UpdServes
<1>3. CASE svc' = [svc EXCEPT !.phase = IF check_release THEN "available" ELSE "upToDate",
                              !.candidate = check_release, !.error = FALSE, !.doing = "ending"]
  <2>1. check_release \in BOOLEAN
    BY DEF check_release, newer
  <2>2. UpdServed(svc, svc')
    BY <2>1, <1>3, UpdService DEF UpdServed, ServiceState, UpdatePhase
  <2> QED BY <2>2, <1>1, UpdServes
<1> QED BY <1>2, <1>3 DEF RunsCheck

(* The end of a turn.                                                        *)
LEMMA UpdEndsTurn ==
  ASSUME UpdInv, EndsTurn
  PROVE  UpdInv'
<1>1. UNCHANGED <<core, owner, helper, disk>>
  BY DEF EndsTurn
<1>2. UpdServed(svc, svc')
  BY UpdService DEF EndsTurn, UpdServed, ServiceState
<1> QED BY <1>1, <1>2, UpdServes

(* The receipt of the watched job is read.                                   *)
LEMMA UpdPollsReceipt ==
  ASSUME UpdInv, PollsReceipt
  PROVE  UpdInv'
<1>1. UNCHANGED <<core, owner, helper, disk>> /\ svc' = AfterReceipt(svc)
  BY DEF PollsReceipt
<1>2. UpdServed(svc, svc')
  BY <1>1, UpdService, UpdAfterReceipt DEF UpdServed
<1> QED BY <1>1, <1>2, UpdServes

(* A handoff that failed frees the service or leaves it.                     *)
LEMMA UpdHandoffFailed ==
  ASSUME UpdInv, NEW j, NEW t \in {svc, HandoffFailed(svc, j)}
  PROVE  UpdServed(svc, t)
<1>1. CASE t = svc
  BY <1>1, UpdService
<1>2. CASE t = [svc EXCEPT !.request = NoJob, !.job = NoJob, !.busy = FALSE, !.phase = "downloaded", !.error = TRUE]
  <2>1. NoJob \in 0 .. MaxJobs /\ "downloaded" \in UpdatePhase
    BY UpdNumbers DEF NoJob, UpdatePhase
  <2> QED BY <1>2, <2>1, UpdService DEF UpdServed, ServiceState
<1> QED BY <1>1, <1>2 DEF HandoffFailed

(* A handoff that fails.                                                     *)
LEMMA UpdJobFails ==
  ASSUME UpdInv, NEW retry \in BOOLEAN, JobFails(retry), UNCHANGED <<core, helper, disk>>
  PROVE  UpdInv'
<1>1. owner' \in UpdOwnerRecord /\ owner'.handoff = "failed"
  BY UpdService DEF JobFails, UpdOwnerRecord, Handoff
<1>2. UpdServed(svc, svc')
  BY UpdHandoffFailed DEF JobFails
<1> QED BY <1>1, <1>2, UpdAnswers

(* The owner takes the request: its job is the last one prepared.            *)
LEMMA UpdTakesRequest ==
  ASSUME UpdInv, TakesRequest
  PROVE  UpdInv'
<1> DEFINE s == [svc EXCEPT !.request = NoJob]
           r == svc.request
<1>1. /\ owner.handoff = "none" /\ r # NoJob /\ UNCHANGED <<core, helper, disk>>
      /\ \/ svc' = HandoffFailed(s, r) /\ owner' = owner
         \/ svc' = s /\ owner' = [owner EXCEPT !.handoff = "spawning", !.job = r]
  BY DEF TakesRequest
<1>2. s \in ServiceState /\ s.queue = svc.queue /\ s.request = NoJob /\ r \in 0 .. MaxJobs
  BY UpdService, UpdNumbers DEF ServiceState, NoJob
<1>3. UpdServed(svc, s)
  BY <1>2, UpdService DEF UpdServed
<1> HIDE DEF s
<1>4. CASE svc' = HandoffFailed(s, r) /\ owner' = owner
  <2>1. UpdServed(svc, svc')
    <3>1. CASE svc' = s
      BY <1>3, <3>1
    <3>2. CASE svc' = [s EXCEPT !.request = NoJob, !.job = NoJob, !.busy = FALSE, !.phase = "downloaded", !.error = TRUE]
      <4>1. NoJob \in 0 .. MaxJobs /\ "downloaded" \in UpdatePhase
        BY UpdNumbers DEF NoJob, UpdatePhase
      <4>2. svc' \in ServiceState /\ svc'.queue = s.queue /\ svc'.request = NoJob
        BY <1>2, <3>2, <4>1 DEF ServiceState
      <4> QED BY <1>2, <4>2, UpdService DEF UpdServed
    <3> QED BY <1>4, <3>1, <3>2 DEF HandoffFailed
  <2> QED BY <2>1, <1>1, <1>4, UpdServes
<1>5. CASE svc' = s /\ owner' = [owner EXCEPT !.handoff = "spawning", !.job = r]
  <2>1. r \in Job
    BY <1>1, <1>2, UpdNumbers DEF NoJob
  <2>2. owner' \in UpdOwnerRecord /\ owner'.handoff = "spawning" /\ owner'.job = r
    BY <1>2, <1>5, UpdService DEF UpdOwnerRecord, Handoff
  <2>3. UpdRequestsOk(core, svc, owner, helper, disk) /\ UpdFilesOk(helper, disk)
    BY DEF UpdInv
  <2>4. helper[r].pc = "none" /\ helper[r].run # 0 /\ \A i \in Job : i > r => helper[i].run = 0
    BY <2>3, <1>1 DEF UpdRequestsOk
  <2>5. ASSUME NEW i \in disk.ack PROVE i <= r
    <3>1. i \in Job
      BY UpdOne, <2>1 DEF UpdDiskRecord
    <3>2. UpdHelperOk(helper[i], disk, i) /\ helper[i].pc # "none"
      BY <3>1, UpdOne DEF UpdHelperOk
    <3>3. helper[i].run # 0
      BY <3>2 DEF UpdHelperOk, NoHelper
    <3>4. ~(i > r)
      BY <3>1, <3>3, <2>4
    <3> QED BY <3>1, <3>4, <2>1, UpdNumbers
  <2>6. UpdRequestsOk(core', svc', owner', helper', disk')
    BY <2>1, <2>2, <2>3, <2>4, <2>5, <1>1, <1>2, <1>3, <1>5 DEF UpdRequestsOk, UpdServed
  <2> QED BY <2>3, <2>6, <1>1 DEF UpdInv
<1> QED BY <1>1, <1>4, <1>5

(* The helper is spawned.                                                    *)
LEMMA UpdSpawns ==
  ASSUME UpdInv, Spawns
  PROVE  UpdInv'
<1> DEFINE j == owner.job
           h == helper[j]
           h2 == UpdTo(h, "validating")
<1>1. owner.handoff = "spawning" /\ UNCHANGED <<core, disk>>
  BY DEF Spawns
<1>2. CASE JobFails(TRUE) /\ UNCHANGED helper
  BY <1>1, <1>2, UpdJobFails
<1>3. CASE helper' = [helper EXCEPT ![j].pc = "validating"] /\ owner' = [owner EXCEPT !.handoff = "waiting"] /\ svc' = svc
  <2>1. UpdRequestsOk(core, svc, owner, helper, disk) /\ UpdFilesOk(helper, disk)
    BY DEF UpdInv
  <2>2. j \in Job /\ h.pc = "none" /\ h.run # 0 /\ j # svc.request /\ \A i \in disk.ack : i <= j
    BY <2>1, <1>1 DEF UpdRequestsOk
  <2>3. /\ UpdHelperOk(h, disk, j) /\ h \in UpdHelperRecord /\ disk \in UpdDiskRecord /\ helper \in [Job -> UpdHelperRecord]
        /\ disk.receipt[j] \notin UpdEnds /\ disk.lock # j /\ j \notin disk.ack /\ Clean(h)
    BY <2>2, UpdOne DEF UpdHelperOk
  <2>4. /\ h2 \in UpdHelperRecord /\ h2.pc = "validating" /\ h2.run = h.run /\ Clean(h2)
        /\ helper' = [helper EXCEPT ![j] = h2]
    <3>1. "validating" \in Pc
      BY DEF Pc
    <3>2. h2 \in UpdHelperRecord /\ h2.pc = "validating" /\ h2.run = h.run /\ h2.old = h.old /\ h2.new = h.new
      BY <2>3, <3>1, UpdToFields
    <3>3. helper' = [helper EXCEPT ![j] = h2]
      BY <1>3 DEF UpdTo
    <3> QED BY <2>3, <3>2, <3>3 DEF Clean
  <2> HIDE DEF h2
  <2>5. UpdHelperOk(h2, disk, j)
    BY <2>2, <2>3, <2>4 DEF UpdHelperOk, UpdArmed, UpdMoving, UpdOldPcs
  <2>6. helper' \in [Job -> UpdHelperRecord] /\ helper'[j] = h2 /\ \A i \in Job \ {j} : helper'[i] = helper[i]
    BY <2>2, <2>3, <2>4
  <2>7. \A i \in Job : helper'[i].run = helper[i].run /\ (helper'[i].pc \in UpdArmed => helper[i].pc \in UpdArmed)
    <3>1. h2.pc \notin UpdArmed
      BY <2>4 DEF UpdArmed
    <3> QED BY <3>1, <2>4, <2>6
  <2>8. disk.ack \subseteq Job
    BY <2>3 DEF UpdDiskRecord
  <2>9. UpdFilesOk(helper', disk')
    <3>1. \A i \in Job : UpdHelperOk(helper'[i], disk, i)
      <4>1. ASSUME NEW i \in Job PROVE UpdHelperOk(helper'[i], disk, i)
        <5>1. CASE i = j
          BY <5>1, <2>5, <2>6
        <5>2. CASE i # j
          BY <5>2, <2>1, <2>6 DEF UpdFilesOk
        <5> QED BY <5>1, <5>2
      <4> QED BY <4>1
    <3>2. \A i, k \in Job : i < k /\ helper'[k].run # 0 => helper'[i].run # 0
      BY <2>1, <2>7 DEF UpdFilesOk
    <3>3. \A i, k \in disk.ack : i < k => helper'[i].pc \notin UpdArmed
      BY <2>1, <2>7, <2>8 DEF UpdFilesOk
    <3> QED BY <3>1, <3>2, <3>3, <2>1, <2>3, <2>6, <1>1 DEF UpdFilesOk
  <2>10. owner' \in UpdOwnerRecord /\ owner'.handoff = "waiting" /\ owner'.job = j
    BY <1>3, UpdService DEF UpdOwnerRecord, Handoff
  <2>11. svc.request # NoJob => svc.request \in Job \ {j}
    BY <2>2, UpdService, UpdNumbers DEF ServiceState, NoJob
  <2>12. UpdRequestsOk(core', svc', owner', helper', disk')
    BY <2>1, <2>2, <2>6, <2>7, <2>10, <2>11, <1>1, <1>3 DEF UpdRequestsOk
  <2> QED BY <2>9, <2>12 DEF UpdInv
<1> QED BY <1>2, <1>3 DEF Spawns

(* The acknowledgement: the helper is ready and holds the lock, so that no   *)
(* earlier acknowledged helper does.                                         *)
LEMMA UpdAcknowledges ==
  ASSUME UpdInv, Acknowledges
  PROVE  UpdInv'
<1> DEFINE j == owner.job
<1>1. owner.handoff = "waiting" /\ UNCHANGED <<core, helper>>
  BY DEF Acknowledges
<1>2. CASE JobFails(TRUE) /\ UNCHANGED disk
  BY <1>1, <1>2, UpdJobFails
<1>3. ASSUME helper[j].pc = "ready", NEW d, d = [disk EXCEPT !.ack = @ \cup {j}], disk' = d,
             owner' = [owner EXCEPT !.handoff = "acked"], svc' = svc
      PROVE  UpdInv'
  <2>1. UpdRequestsOk(core, svc, owner, helper, disk) /\ UpdFilesOk(helper, disk)
    BY DEF UpdInv
  <2>2. j \in Job /\ \A i \in disk.ack : i <= j
    BY <2>1, <1>1 DEF UpdRequestsOk
  <2>3. helper[j].pc \in UpdArmed
    BY <1>3 DEF UpdArmed
  <2>4. disk.lock = j /\ disk.receipt[j] \notin UpdEnds /\ disk \in UpdDiskRecord /\ disk.ack \subseteq Job
    BY <2>2, <2>3, UpdFacts DEF UpdDiskRecord
  <2>5. /\ d \in UpdDiskRecord /\ d.ack = disk.ack \cup {j} /\ d.install = disk.install /\ d.staged = disk.staged
        /\ d.backup = disk.backup /\ d.lock = disk.lock /\ d.receipt = disk.receipt /\ d.clean = disk.clean
    BY <1>3, <2>2, <2>4 DEF UpdDiskRecord
  <2>6. ASSUME NEW i \in Job PROVE UpdHelperOk(helper[i], d, i)
    <3>1. UpdHelperOk(helper[i], disk, i)
      BY UpdOne
    <3>2. UpdExchange(helper[i], disk) => UpdExchange(helper[i], d)
      BY <2>5 DEF UpdExchange
    <3>3. CASE i # j
      <4>1. UpdFinal(helper[i], disk, i) => UpdFinal(helper[i], d, i)
        BY <2>5, <3>3 DEF UpdFinal
      <4> QED BY <4>1, <3>1, <3>2, <3>3, <2>5 DEF UpdHelperOk
    <3>4. CASE i = j
      <4>1. helper[i].pc = "ready" /\ i \in d.ack
        BY <3>4, <1>3, <2>5
      <4> QED BY <4>1, <3>1, <3>2, <2>5 DEF UpdHelperOk
    <3> QED BY <3>3, <3>4
  <2>7. ASSUME NEW i \in d.ack, NEW k \in d.ack, i < k PROVE helper[i].pc \notin UpdArmed
    <3>1. i \in Job /\ k \in Job /\ i # j
      BY <2>2, <2>4, <2>5, <2>7, UpdNumbers
    <3>2. UpdHelperOk(helper[i], disk, i)
      BY <3>1, UpdOne
    <3> QED BY <3>1, <3>2, <2>4 DEF UpdHelperOk
  <2>8. ASSUME NEW k \in d.ack, \A i \in d.ack : i <= k PROVE UpdReceiptTrue(d, k)
    <3>1. k \in Job /\ j <= k
      BY <2>2, <2>4, <2>5, <2>8
    <3>2. k = j
      BY <3>1, <2>2, <2>5, UpdNumbers
    <3> QED BY <3>2, <2>4, <2>5, UpdNotEnded
  <2>9. UpdFilesOk(helper, d)
    BY <2>1, <2>5, <2>6, <2>7, <2>8 DEF UpdFilesOk
  <2>10. owner' \in UpdOwnerRecord /\ owner'.handoff = "acked"
    BY <1>3, UpdService DEF UpdOwnerRecord, Handoff
  <2>11. UpdRequestsOk(core', svc', owner', helper', disk')
    BY <2>1, <2>10, <1>1, <1>3 DEF UpdRequestsOk
  <2> QED BY <2>9, <2>11, <1>1, <1>3 DEF UpdInv
<1> QED BY <1>2, <1>3 DEF Acknowledges

(* The handoff is confirmed or fails.                                        *)
LEMMA UpdConfirmed ==
  ASSUME UpdInv, Confirmed
  PROVE  UpdInv'
<1>1. UNCHANGED <<core, helper, disk>>
  BY DEF Confirmed
<1>2. ASSUME NEW retry \in BOOLEAN, JobFails(retry) PROVE UpdInv'
  BY <1>1, <1>2, UpdJobFails
<1>3. CASE owner' = [owner EXCEPT !.handoff = "done"] /\ svc' = svc
  <2>1. owner' \in UpdOwnerRecord /\ owner'.handoff = "done"
    BY <1>3, UpdService DEF UpdOwnerRecord, Handoff
  <2> QED BY <2>1, <1>1, <1>3, UpdService, UpdAnswers
<1> QED BY <1>2, <1>3 DEF Confirmed

(* The owner has taken note of the outcome.                                  *)
LEMMA UpdOwnerPolls ==
  ASSUME UpdInv, OwnerPolls
  PROVE  UpdInv'
<1>1. UNCHANGED <<core, svc, helper, disk>>
  BY DEF OwnerPolls
<1>2. owner' \in UpdOwnerRecord /\ owner'.handoff = "none"
  <2>1. NoOwnerState \in UpdOwnerRecord /\ NoOwnerState.handoff = "none"
    BY UpdNumbers DEF NoOwnerState, UpdOwnerRecord, Handoff, NoJob
  <2>2. PICK quit : quit = (owner.handoff = "done")
    OBVIOUS
  <2>3. quit \in BOOLEAN
    BY <2>2
  <2>4. owner' = NoOwnerState \/ owner' = [NoOwnerState EXCEPT !.quit = quit]
    BY <2>2 DEF OwnerPolls
  <2> QED BY <2>1, <2>3, <2>4 DEF UpdOwnerRecord
<1> QED BY <1>1, <1>2, UpdService, UpdAnswers

(* A payload is staged: no helper has a new file in place that it might      *)
(* lose.                                                                     *)
LEMMA UpdRunsDownload ==
  ASSUME UpdInv, RunsDownload
  PROVE  UpdInv'
<1> DEFINE all == [f \in PayloadFile |-> New]
<1>1. UNCHANGED <<core, owner, helper>>
  BY DEF RunsDownload
<1>2. \/ svc' = FailState(svc)
      \/ svc' = [svc EXCEPT !.staged = TRUE, !.phase = "downloaded", !.error = FALSE, !.doing = "ending"]
  BY DEF RunsDownload
<1>3. UpdServed(svc, svc')
  BY <1>2, UpdFailState, UpdService DEF UpdServed, ServiceState, UpdatePhase
<1>4. \/ disk' = disk
      \/ disk' = [disk EXCEPT !.staged = all]
      \/ disk' = [disk EXCEPT !.staged = all, !.saved = TRUE]
  BY DEF RunsDownload, persist_staged, stage_archive
<1>5. UpdRequestsOk(core, svc, owner, helper, disk) /\ UpdFilesOk(helper, disk)
  BY DEF UpdInv
<1>6. all \in UpdFiles /\ \A f \in PayloadFile : all[f] = New
  BY DEF UpdFiles, Bytes, New
<1>7. CASE disk' = disk
  BY <1>7, <1>1, <1>3, UpdServes
<1>8. CASE disk' # disk
  <2>1. disk \in UpdDiskRecord
    BY <1>5 DEF UpdFilesOk
  <2> HIDE DEF all
  <2>2. PICK d : d = disk'
    OBVIOUS
  <2>3. /\ d \in UpdDiskRecord /\ d.staged = all /\ d.install = disk.install /\ d.backup = disk.backup /\ d.lock = disk.lock
        /\ d.ack = disk.ack /\ d.receipt = disk.receipt /\ d.clean = disk.clean
    BY <1>4, <1>6, <1>8, <2>1, <2>2 DEF UpdDiskRecord
  <2>4. ASSUME NEW i \in Job PROVE UpdHelperOk(helper[i], d, i)
    <3>1. UpdHelperOk(helper[i], disk, i)
      BY UpdOne
    <3>2. UpdExchange(helper[i], disk) => UpdExchange(helper[i], d)
      BY <2>3, <1>6 DEF UpdExchange
    <3>3. UpdFinal(helper[i], disk, i) => UpdFinal(helper[i], d, i)
      BY <2>3 DEF UpdFinal
    <3> QED BY <3>1, <3>2, <3>3, <2>3 DEF UpdHelperOk
  <2>5. \A i \in d.ack : UpdReceiptTrue(disk, i) => UpdReceiptTrue(d, i)
    BY <2>3 DEF UpdReceiptTrue
  <2>6. UpdFilesOk(helper, d)
    BY <1>5, <2>3, <2>4, <2>5 DEF UpdFilesOk
  <2>7. owner.handoff = "spawning" => owner.job # NoJob
    BY <1>5, UpdNumbers DEF UpdRequestsOk, NoJob
  <2>8. UpdRequestsOk(core, svc', owner, helper, d)
    BY <1>3, <1>5, <2>3, <2>7 DEF UpdRequestsOk, UpdServed
  <2> QED BY <2>2, <2>6, <2>8, <1>1 DEF UpdInv
<1> QED BY <1>7, <1>8

(* A job is prepared, after all the others.                                  *)
LEMMA UpdRunsInstall ==
  ASSUME UpdInv, RunsInstall
  PROVE  UpdInv'
<1>1. UNCHANGED <<core, owner, disk>> /\ core.up
  BY DEF RunsInstall
<1>2. CASE svc' = FailState(svc) /\ UNCHANGED helper
  BY <1>1, <1>2, UpdFailState, UpdServes
<1>3. ASSUME NEW j \in NextHelper, disk.lock = NoJob, helper' = [helper EXCEPT ![j] = Prepared],
             svc' = [svc EXCEPT !.job = j, !.request = j, !.phase = "installRequested", !.error = FALSE, !.doing = "ending"]
      PROVE  UpdInv'
  <2>1. UpdRequestsOk(core, svc, owner, helper, disk) /\ UpdFilesOk(helper, disk)
    BY DEF UpdInv
  <2>2. j \in Job /\ helper[j] = NoHelper /\ \A i \in Job : i < j => helper[i] # NoHelper
    BY DEF NextHelper
  <2>3. /\ UpdHelperOk(helper[j], disk, j) /\ disk \in UpdDiskRecord /\ helper \in [Job -> UpdHelperRecord]
        /\ \A i \in Job : UpdHelperOk(helper[i], disk, i)
    BY <2>2, UpdOne
  <2>4. core \in UpdCoreRecord /\ core.run > 0
    BY <2>1, <1>1 DEF UpdRequestsOk
  <2>5. Prepared \in UpdHelperRecord /\ Prepared.pc = "none" /\ Prepared.run = core.run /\ Prepared.run # 0 /\ Clean(Prepared)
    BY <2>4 DEF Prepared, NoHelper, UpdHelperRecord, UpdCoreRecord, Pc, Clean
  <2>6. helper[j].pc = "none" /\ helper[j].run = 0
    BY <2>2 DEF NoHelper
  <2>7. disk.lock # j /\ j \notin disk.ack /\ disk.receipt[j] \notin UpdEnds /\ disk.ack \subseteq Job
    BY <2>3, <2>6 DEF UpdHelperOk, UpdDiskRecord
  <2>8. UpdHelperOk(Prepared, disk, j)
    BY <2>5, <2>7 DEF UpdHelperOk, UpdArmed, UpdMoving, UpdOldPcs
  <2>9. helper' \in [Job -> UpdHelperRecord] /\ helper'[j] = Prepared /\ \A i \in Job \ {j} : helper'[i] = helper[i]
    BY <1>3, <2>2, <2>3, <2>5
  <2>10. ASSUME NEW i \in Job, NEW k \in Job, i < k PROVE (helper[k].run # 0 => helper[i].run # 0)
    BY <2>1, <2>10 DEF UpdFilesOk
  <2>11. \A i \in Job : i > j => helper[i].run = 0 /\ i # j
    BY <2>2, <2>6, <2>10, UpdNumbers
  <2>12. ASSUME NEW i \in Job, NEW k \in Job, i < k, helper'[k].run # 0 PROVE helper'[i].run # 0
    <3>1. CASE i = j
      BY <3>1, <2>5, <2>9
    <3>2. CASE i # j /\ k # j
      BY <3>2, <2>9, <2>10, <2>12
    <3>3. CASE i # j /\ k = j
      <4>1. helper[i] # NoHelper /\ UpdHelperOk(helper[i], disk, i)
        BY <3>3, <2>2, <2>3, <2>12
      <4>2. helper[i].run # 0
        BY <4>1 DEF UpdHelperOk
      <4> QED BY <4>2, <3>3, <2>9
    <3> QED BY <3>1, <3>2, <3>3
  <2>13. ASSUME NEW i \in Job PROVE UpdHelperOk(helper'[i], disk, i)
    <3>1. CASE i = j
      BY <3>1, <2>8, <2>9
    <3>2. CASE i # j
      BY <3>2, <2>3, <2>9
    <3> QED BY <3>1, <3>2
  <2>14. ASSUME NEW i \in disk.ack, NEW k \in disk.ack, i < k PROVE helper'[i].pc \notin UpdArmed
    <3>1. i \in Job \ {j}
      BY <2>7
    <3> QED BY <3>1, <2>1, <2>9, <2>14 DEF UpdFilesOk
  <2>15. UpdFilesOk(helper', disk')
    BY <2>1, <2>3, <2>9, <2>12, <2>13, <2>14, <1>1 DEF UpdFilesOk
  <2>16. svc' \in ServiceState /\ svc'.queue = svc.queue /\ svc'.request = j
    BY <1>3, <2>2, UpdService, UpdNumbers DEF ServiceState, UpdatePhase
  <2>17. Len(svc'.queue) <= MaxQueue
    BY <2>16, UpdService
  <2>18. owner.handoff = "spawning" => owner.job \in Job \ {j}
    BY <2>1, <2>6 DEF UpdRequestsOk
  <2>19. \A i \in Job : i > j => helper'[i].run = 0
    BY <2>9, <2>11
  <2>20. UpdRequestsOk(core', svc', owner', helper', disk')
    BY <2>1, <2>2, <2>5, <2>9, <2>16, <2>17, <2>18, <2>19, <1>1 DEF UpdRequestsOk
  <2> QED BY <2>15, <2>20 DEF UpdInv
<1> QED BY <1>2, <1>3 DEF RunsInstall, CanPrepare

(* Somebody writes over an installed file.                                   *)
LEMMA UpdSomeoneEdits ==
  ASSUME UpdInv, SomeoneEdits
  PROVE  UpdInv'
<1>1. UNCHANGED <<core, svc, owner, helper>>
  BY DEF SomeoneEdits
<1>2. PICK e \in PayloadFile : disk' = [disk EXCEPT !.install[e] = Edited]
  BY DEF SomeoneEdits
<1>3. UpdRequestsOk(core, svc, owner, helper, disk) /\ UpdFilesOk(helper, disk)
  BY DEF UpdInv
<1>4. disk \in UpdDiskRecord /\ disk.install \in UpdFiles
  BY <1>3 DEF UpdFilesOk, UpdDiskRecord
<1>5. [disk.install EXCEPT ![e] = Edited] \in UpdFiles
  BY <1>4 DEF UpdFiles, Bytes, Edited
<1>6. PICK d : d = disk'
  OBVIOUS
<1>7. d = [disk EXCEPT !.install = [disk.install EXCEPT ![e] = Edited]]
  BY <1>2, <1>6
<1>8. /\ d \in UpdDiskRecord /\ d.install = [disk.install EXCEPT ![e] = Edited] /\ d.staged = disk.staged /\ d.backup = disk.backup
      /\ d.lock = disk.lock /\ d.ack = disk.ack /\ d.receipt = disk.receipt /\ d.clean = disk.clean
  BY <1>4, <1>5, <1>7 DEF UpdDiskRecord
<1>9. \A f \in PayloadFile : d.install[f] \in {disk.install[f], Edited}
  BY <1>4, <1>8 DEF UpdFiles
<1>10. (UpdOlds(disk.install) => UpdOlds(d.install)) /\ (UpdNews(disk.install) => UpdNews(d.install))
  BY <1>9 DEF UpdOlds, UpdNews
<1>11. ASSUME NEW i \in Job PROVE UpdHelperOk(helper[i], d, i)
  <2>1. UpdHelperOk(helper[i], disk, i)
    BY UpdOne
  <2>2. UpdExchange(helper[i], disk) => UpdExchange(helper[i], d)
    BY <1>8, <1>9 DEF UpdExchange
  <2>3. UpdFinal(helper[i], disk, i) => UpdFinal(helper[i], d, i)
    BY <1>8, <1>10 DEF UpdFinal
  <2> QED BY <2>1, <2>2, <2>3, <1>8, <1>10 DEF UpdHelperOk
<1>12. \A i \in d.ack : UpdReceiptTrue(disk, i) => UpdReceiptTrue(d, i)
  BY <1>8, <1>10 DEF UpdReceiptTrue
<1>13. UpdFilesOk(helper, d)
  BY <1>3, <1>8, <1>10, <1>11, <1>12 DEF UpdFilesOk
<1>14. UpdRequestsOk(core, svc, owner, helper, d)
  BY <1>3, <1>8 DEF UpdRequestsOk
<1> QED BY <1>1, <1>6, <1>13, <1>14 DEF UpdInv

(* The invariant holds at first.                                             *)
LEMMA UpdBegins ==
  ASSUME UpdInit
  PROVE  UpdInv
<1>1. NoHelper \in UpdHelperRecord /\ NoHelper.pc = "none" /\ NoHelper.run = 0 /\ Clean(NoHelper)
  BY DEF NoHelper, UpdHelperRecord, Pc, Clean
<1>2. helper \in [Job -> UpdHelperRecord] /\ \A j \in Job : helper[j] = NoHelper
  BY <1>1 DEF UpdInit
<1>3. disk \in UpdDiskRecord
  BY UpdNumbers DEF UpdInit, UpdDiskRecord, UpdFiles, Bytes, Old, NoJob, ReceiptPhase
<1>4. /\ disk.install = [f \in PayloadFile |-> Old] /\ disk.lock = NoJob /\ disk.ack = {}
      /\ \A j \in Job : disk.receipt[j] = "none"
  BY DEF UpdInit
<1>5. UpdOlds(disk.install)
  BY <1>4 DEF UpdOlds
<1>6. ASSUME NEW j \in Job PROVE UpdHelperOk(helper[j], disk, j)
  <2>1. j # NoJob
    BY UpdNumbers DEF NoJob
  <2> QED BY <2>1, <1>1, <1>2, <1>4 DEF UpdHelperOk, UpdArmed, UpdMoving, UpdOldPcs, UpdEnds
<1>7. UpdFilesOk(helper, disk)
  BY <1>1, <1>2, <1>3, <1>4, <1>5, <1>6 DEF UpdFilesOk
<1>8. core \in UpdCoreRecord /\ ~core.up
  BY DEF UpdInit, UpdCoreRecord
<1>9. svc \in ServiceState /\ svc.queue = <<>> /\ svc.request = NoJob
  BY UpdNumbers DEF UpdInit, NoService, ServiceState, UpdatePhase, NoJob
<1>10. owner \in UpdOwnerRecord /\ owner.handoff = "none"
  BY UpdNumbers DEF UpdInit, NoOwnerState, UpdOwnerRecord, Handoff, NoJob
<1>11. Len(svc.queue) <= MaxQueue
  BY <1>9, RuntimeUpdateConstants
<1>12. UpdRequestsOk(core, svc, owner, helper, disk)
  BY <1>8, <1>9, <1>10, <1>11 DEF UpdRequestsOk
<1> QED BY <1>7, <1>12 DEF UpdInv

(* The invariant contains what the run checks.                               *)
LEMMA UpdSafe ==
  ASSUME UpdInv
  PROVE  RuntimeUpdateSound
<1>1. UpdRequestsOk(core, svc, owner, helper, disk) /\ UpdFilesOk(helper, disk)
  BY DEF UpdInv
<1>2. disk \in UpdDiskRecord /\ \A j \in Job : helper[j] \in UpdHelperRecord /\ UpdHelperOk(helper[j], disk, j)
  BY <1>1 DEF UpdFilesOk, UpdHelperOk
<1>3. UpdTypeOK
  <2>1. /\ svc \in ServiceState /\ owner \in [handoff : Handoff, job : 0..MaxJobs, quit : BOOLEAN] /\ Len(svc.queue) <= MaxQueue
    BY <1>1 DEF UpdRequestsOk, UpdOwnerRecord
  <2>2. \A j \in Job : helper[j].pc \in Pc /\ disk.receipt[j] \in ReceiptPhase
    BY <1>2 DEF UpdHelperRecord, UpdDiskRecord
  <2>3. \A f \in PayloadFile : disk.install[f] \in Bytes /\ disk.staged[f] \in Bytes /\ disk.backup[f] \in Bytes
    BY <1>2 DEF UpdDiskRecord, UpdFiles
  <2> QED BY <2>1, <2>2, <2>3 DEF UpdTypeOK
<1>4. \A j \in Job : Armed(j) <=> helper[j].pc \in UpdArmed
  BY DEF Armed, UpdArmed
<1>5. ExchangeIsGuarded
  <2>1. \A j \in Job : Armed(j) => disk.lock = j
    BY <1>2, <1>4 DEF UpdHelperOk
  <2>2. disk.lock = NoJob => \/ \A f \in PayloadFile : disk.install[f] \in {Old, Edited}
                             \/ \A f \in PayloadFile : disk.install[f] \in {New, Edited}
    BY <1>1 DEF UpdFilesOk, UpdOlds, UpdNews
  <2>3. ASSUME NEW j \in Job, Armed(j), NEW f \in PayloadFile
        PROVE  Old \in {disk.install[f], disk.backup[f]} \/ Edited \in {disk.install[f], disk.backup[f]}
    <3>1. UpdHelperOk(helper[j], disk, j)
      BY <1>2
    <3>2. CASE helper[j].pc \in UpdOldPcs
      BY <3>1, <3>2 DEF UpdHelperOk, UpdOlds
    <3>3. CASE helper[j].pc \in UpdMoving
      <4>1. UpdExchange(helper[j], disk)
        BY <3>1, <3>3 DEF UpdHelperOk
      <4>2. disk.install[f] \in {Old, Edited} \/ disk.backup[f] \in {Old, Edited}
        BY <4>1 DEF UpdExchange
      <4> QED BY <4>2
    <3> QED BY <3>2, <3>3, <2>3, <1>4 DEF UpdArmed, UpdOldPcs, UpdMoving
  <2> QED BY <2>1, <2>2, <2>3 DEF ExchangeIsGuarded
<1>6. ReceiptsAreTrue
  <2>1. ASSUME NEW j \in Job, LastAcknowledged(j) PROVE UpdReceiptTrue(disk, j)
    BY <1>1, <2>1 DEF LastAcknowledged, UpdFilesOk
  <2> QED BY <2>1 DEF ReceiptsAreTrue, UpdReceiptTrue, UpdOlds, UpdNews
<1> QED BY <1>3, <1>5, <1>6 DEF RuntimeUpdateSound

(* For any files and order of the plan, and any numbers of jobs and starts:  *)
(* an installation that is neither old nor new is locked by the one helper   *)
(* that may change it, no version is lost while a helper works, and what the *)
(* receipt of the last acknowledged job says of the files is so              *)
(* (scripts/runtime-update-helper.mjs, runtime_update.rs).                   *)
THEOREM RuntimeUpdateIsSound == UpdSpec => []RuntimeUpdateSound
<1>1. UpdInit => UpdInv
  BY UpdBegins
<1>2. UpdInv /\ [UpdNext]_updVars => UpdInv'
  <2> SUFFICES ASSUME UpdInv, [UpdNext]_updVars PROVE UpdInv'
    OBVIOUS
  <2>1. CASE UserStarts \/ CoreEnds
    BY <2>1, UpdUserStarts, UpdCoreEnds
  <2>2. CASE RestoresStage \/ RestoresReceipt \/ AutomaticCheck \/ TakesCommand \/ RunsCheck \/ EndsTurn \/ PollsReceipt
    BY <2>2, UpdRestoresStage, UpdRestoresReceipt, UpdAutomaticCheck, UpdTakesCommand, UpdRunsCheck, UpdEndsTurn, UpdPollsReceipt
  <2>3. CASE (\E c \in JobCommand : enqueue(c)) \/ (\E a \in BOOLEAN : configure_checks(a))
    BY <2>3, UpdEnqueue, UpdConfigureChecks
  <2>4. CASE RunsDownload \/ RunsInstall
    BY <2>4, UpdRunsDownload, UpdRunsInstall
  <2>5. CASE TakesRequest \/ Spawns \/ Acknowledges \/ Confirmed \/ OwnerPolls
    BY <2>5, UpdTakesRequest, UpdSpawns, UpdAcknowledges, UpdConfirmed, UpdOwnerPolls
  <2>6. ASSUME NEW j \in Job, Validates(j) \/ Arms(j) \/ SeesExit(j) \/ MovesOld(j) \/ MovesNew(j) \/ BeginsRestart(j)
        PROVE  UpdInv'
    BY <2>6, UpdValidates, UpdArms, UpdSeesExit, UpdMovesOld, UpdMovesNew, UpdBeginsRestart
  <2>7. ASSUME NEW j \in Job, HelperStarts(j) \/ Restarted(j) \/ RollsBack(j) \/ RestartedOld(j) \/ ReleasesLock(j) \/ HelperDies(j)
        PROVE  UpdInv'
    BY <2>7, UpdHelperStarts, UpdRestarted, UpdRollsBack, UpdRestartedOld, UpdReleasesLock, UpdHelperDies
  <2>8. CASE SomeoneEdits
    BY <2>8, UpdSomeoneEdits
  <2>9. CASE UNCHANGED updVars
    BY <2>9 DEF updVars, UpdInv
  <2>10. CASE UpdCore
    BY <2>10, <2>1, <2>2, <2>3, <2>4, <2>5 DEF UpdCore
  <2>11. CASE UpdHelper
    BY <2>11, <2>6, <2>7 DEF UpdHelper
  <2> QED BY <2>8, <2>9, <2>10, <2>11 DEF UpdNext
<1> QED BY <1>1, <1>2, UpdSafe, PTL DEF UpdSpec
=============================================================================
