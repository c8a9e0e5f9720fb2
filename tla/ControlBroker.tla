---------------------------- MODULE ControlBroker ----------------------------
(* The bounded management mailbox of a Codlet Host (src/runtime_control.rs).  *)
(* IPC workers reserve (Prepare), submit and read receipts; only the          *)
(* foreground runtime takes jobs and completes them.  Each operation holds    *)
(* one mutex from start to end, so each is one action.  Requests are model    *)
(* values that have passed validate(): the mailbox only asks whether safe     *)
(* mode admits them.  A receipt names the Host incarnation that issued it.    *)
EXTENDS Integers, FiniteSets, FiniteSetsExt, Sequences

CONSTANTS
    Request,               \* plugin-control requests
    RecoveryRequest,       \* the ones recovery_request() admits
    NoRequest,             \* the request of an absent record
    Incarnations,          \* Hosts that may own this scope, one after another
    MAX_CONTROL_PENDING,   \* bound on queued and running receipts
    MAX_CONTROL_RECORDS,   \* bound on retained receipts
    MAX_TICKET             \* u64::MAX, where last_ticket.checked_add fails

ASSUME ControlConstants ==
    /\ RecoveryRequest \subseteq Request
    /\ NoRequest \notin Request
    /\ Incarnations \in Nat \ {0}
    /\ MAX_CONTROL_PENDING \in Nat \ {0}
    /\ MAX_CONTROL_RECORDS \in Nat \ {0}
    /\ MAX_TICKET \in Nat \ {0}

VARIABLES
    incarnation,     \* BrokerState.incarnation, numbered in order of creation
    last_ticket, ready, stopped, recovery_only,
    records,         \* BrokerState.records, Absent where there is no entry
    queue,           \* BrokerState.queue
    accepted,        \* history: receipts ever queued
    runs,            \* history: how often take_next returned each receipt
    finished         \* history: receipts that were completed

bvars == <<incarnation, last_ticket, ready, stopped, recovery_only, records,
           queue, accepted, runs, finished>>

-----------------------------------------------------------------------------
Id == 1 .. MAX_TICKET

Ticket == (1 .. Incarnations) \X Id

ControlStatus == {"Prepared", "Queued", "Running", "Completed"}

Record == [request : Request, status : ControlStatus,
           completion : {"None", "Report", "Error"}]

Absent == [request |-> NoRequest, status |-> "Absent", completion |-> "None"]

TypeOK ==
    /\ incarnation \in 1 .. Incarnations
    /\ last_ticket \in 0 .. MAX_TICKET
    /\ ready \in BOOLEAN /\ stopped \in BOOLEAN /\ recovery_only \in BOOLEAN
    /\ records \in [Id -> Record \cup {Absent}]
    /\ queue \in Seq(Id)
    /\ accepted \subseteq Ticket
    /\ runs \in [Ticket -> Nat]
    /\ finished \subseteq Ticket

Queued == {id \in Id : records[id].status = "Queued"}

Running == {id \in Id : records[id].status = "Running"}

Pending == Queued \cup Running

Retained == {id \in Id : records[id] # Absent}

-----------------------------------------------------------------------------
(* ControlBroker::new: the mailbox of a Host that has just been constructed.  *)
NoRecords == [id \in Id |-> Absent]

Init ==
    /\ incarnation = 1
    /\ last_ticket = 0
    /\ ready = FALSE /\ stopped = FALSE /\ recovery_only = FALSE
    /\ records = NoRecords
    /\ queue = << >>
    /\ accepted = {}
    /\ runs = [t \in Ticket |-> 0]
    /\ finished = {}

(* The Host process has ended and the next one constructs its own broker      *)
(* under a fresh incarnation; nothing of the mailbox is persisted.            *)
NextIncarnation == incarnation + 1

Restart ==
    /\ incarnation < Incarnations
    /\ incarnation' = NextIncarnation
    /\ last_ticket' = 0
    /\ ready' = FALSE /\ stopped' = FALSE /\ recovery_only' = FALSE
    /\ records' = NoRecords
    /\ queue' = << >>
    /\ UNCHANGED <<accepted, runs, finished>>

(* Safe mode is selected before readiness: the code asserts the guard.        *)
RestrictToRecovery ==
    /\ ~ready
    /\ Retained = {}
    /\ recovery_only' = TRUE
    /\ UNCHANGED <<incarnation, last_ticket, ready, stopped, records, queue,
                   accepted, runs, finished>>

SetReady ==
    /\ ready' = (ready \/ ~stopped)
    /\ UNCHANGED <<incarnation, last_ticket, stopped, recovery_only, records,
                   queue, accepted, runs, finished>>

Stop ==
    /\ stopped' = TRUE
    /\ queue' = << >>
    /\ UNCHANGED <<incarnation, last_ticket, ready, recovery_only, records,
                   accepted, runs, finished>>

-----------------------------------------------------------------------------
(* handle(Prepare): reserve a receipt, evicting the oldest settled one when   *)
(* the table is full.                                                         *)
TableFull == Cardinality(Retained) = MAX_CONTROL_RECORDS

RemovableWithQueued ==
    {id \in Id : records[id].status \in {"Prepared", "Queued", "Completed"}}

Removable ==
    {id \in Id : records[id].status \in {"Prepared", "Completed"}}

SafeModeAdmits(request) == recovery_only => request \in RecoveryRequest

TicketsExhausted == last_ticket = MAX_TICKET

PrepareStatus(request) ==
    IF stopped THEN "Stopping"
    ELSE IF ~ready THEN "NotReady"
    ELSE IF ~SafeModeAdmits(request) THEN "InvalidRequest"
    ELSE IF (TableFull /\ Removable = {}) \/ TicketsExhausted THEN "Busy"
    ELSE "Prepared"

(* The record the full table gives up; it is gone even when the ticket        *)
(* sequence turns out to be exhausted.                                        *)
Evict(old) ==
    IF TableFull THEN [old EXCEPT ![Min(Removable)] = Absent] ELSE old

NextTicket == last_ticket + 1

(* The request passes every early return but the one for an exhausted        *)
(* ticket sequence.                                                           *)
Admits(request) ==
    /\ ~stopped /\ ready
    /\ SafeModeAdmits(request)
    /\ TableFull => Removable # {}

Prepare(request) ==
    /\ Admits(request)
    /\ IF TicketsExhausted
       THEN /\ records' = Evict(records)
            /\ last_ticket' = last_ticket
       ELSE /\ records' = [Evict(records) EXCEPT ![NextTicket] =
                  [request |-> request, status |-> "Prepared",
                   completion |-> "None"]]
            /\ last_ticket' = NextTicket
    /\ UNCHANGED <<incarnation, ready, stopped, recovery_only, queue,
                   accepted, runs, finished>>

-----------------------------------------------------------------------------
(* resolve: what the ticket of a submit or result command stands for.         *)
Resolves(t) ==
    /\ t[1] = incarnation
    /\ t[2] <= last_ticket
    /\ records[t[2]] # Absent

ResolveStatusIgnoringHost(t) ==
    IF stopped THEN "Stopping"
    ELSE IF t[2] > last_ticket THEN "InvalidRequest"
    ELSE IF records[t[2]] = Absent THEN "Expired"
    ELSE records[t[2]].status

ResolveStatus(t) ==
    IF stopped THEN "Stopping"
    ELSE IF t[1] # incarnation THEN "StaleHost"
    ELSE IF t[2] > last_ticket THEN "InvalidRequest"
    ELSE IF records[t[2]] = Absent THEN "Expired"
    ELSE records[t[2]].status

MailboxRoom == Cardinality(Pending) < MAX_CONTROL_PENDING

SubmitStatus(t) ==
    IF ResolveStatus(t) # "Prepared" THEN ResolveStatus(t)
    ELSE IF MailboxRoom THEN "Queued" ELSE "Busy"

(* The receipts a submit may still put in the queue.                          *)
Submittable(t) == records[t[2]].status = "Prepared"

(* handle_ticket(Submit): queue a prepared receipt; every other case only     *)
(* reads.                                                                     *)
Accepts(t) == ~stopped /\ Resolves(t) /\ Submittable(t) /\ MailboxRoom

Submit(t) ==
    /\ Accepts(t)
    /\ records' = [records EXCEPT ![t[2]].status = "Queued"]
    /\ queue' = Append(queue, t[2])
    /\ accepted' = accepted \cup {<<incarnation, t[2]>>}
    /\ UNCHANGED <<incarnation, last_ticket, ready, stopped, recovery_only,
                   runs, finished>>

(* take_next: the foreground runtime takes the oldest queued receipt.         *)
TakeNextNewest ==
    /\ ~stopped
    /\ queue # << >>
    /\ records' = [records EXCEPT ![queue[Len(queue)]].status = "Running"]
    /\ queue' = SubSeq(queue, 1, Len(queue) - 1)
    /\ runs' = [runs EXCEPT ![<<incarnation, queue[Len(queue)]>>] = @ + 1]
    /\ UNCHANGED <<incarnation, last_ticket, ready, stopped, recovery_only,
                   accepted, finished>>

TakeNextAgain ==
    /\ ~stopped
    /\ Running # {}
    /\ runs' = [runs EXCEPT ![<<incarnation, Min(Running)>>] = @ + 1]
    /\ UNCHANGED <<incarnation, last_ticket, ready, stopped, recovery_only,
                   records, queue, accepted, finished>>

TakeNextRepeated ==
    \/ TakeNextAgain
    \/ /\ ~stopped
       /\ queue # << >>
       /\ records' = [records EXCEPT ![Head(queue)].status = "Running"]
       /\ queue' = Tail(queue)
       /\ runs' = [runs EXCEPT ![<<incarnation, Head(queue)>>] = @ + 1]
       /\ UNCHANGED <<incarnation, last_ticket, ready, stopped, recovery_only,
                      accepted, finished>>

TakeNext ==
    /\ ~stopped
    /\ queue # << >>
    /\ records' = [records EXCEPT ![Head(queue)].status = "Running"]
    /\ queue' = Tail(queue)
    /\ runs' = [runs EXCEPT ![<<incarnation, Head(queue)>>] = @ + 1]
    /\ UNCHANGED <<incarnation, last_ticket, ready, stopped, recovery_only,
                   accepted, finished>>

(* A lifecycle result as complete() classifies it: a report that names other  *)
(* work than the request, or that does not fit a reply, becomes an error.     *)
LifecycleResult == {"report", "mismatched", "oversized", "error"}

Completion(result) == IF result = "report" THEN "Report" ELSE "Error"

(* complete: settle a running receipt, also after stop.                       *)
Complete(t, result) ==
    /\ Resolves(t)
    /\ records[t[2]].status = "Running"
    /\ records' = [records EXCEPT ![t[2]].status = "Completed",
                                  ![t[2]].completion = Completion(result)]
    /\ finished' = finished \cup {t}
    /\ UNCHANGED <<incarnation, last_ticket, ready, stopped, recovery_only,
                   queue, accepted, runs>>

-----------------------------------------------------------------------------
(* The mailbox against any IPC client and any foreground: commands arrive in  *)
(* any order, repeated, with any receipt ever issued or not.                  *)
Next ==
    \/ Restart
    \/ RestrictToRecovery
    \/ SetReady
    \/ Stop
    \/ \E request \in Request : Prepare(request)
    \/ \E t \in Ticket : Submit(t)
    \/ TakeNext
    \/ \E t \in Ticket, result \in LifecycleResult : Complete(t, result)

Spec == Init /\ [][Next]_bvars

-----------------------------------------------------------------------------
(* No receipt is ever handed to the foreground twice: not after a repeated    *)
(* submit, after eviction, after a restart of the Host, in any order of       *)
(* commands ("Evicted receipts can never become new jobs").                   *)
AtMostOnce == \A t \in Ticket : runs[t] <= 1

(* While the mailbox is open the queue holds every queued receipt exactly     *)
(* once: no accepted job is lost and take_next's "queued receipt is retained" *)
(* cannot panic.  A stopped mailbox holds no job.                             *)
QueueExact ==
    /\ \A i, j \in 1 .. Len(queue) : queue[i] = queue[j] => i = j
    /\ \A i \in 1 .. Len(queue) : records[queue[i]].status = "Queued"
    /\ ~stopped => \A id \in Queued : \E i \in 1 .. Len(queue) : queue[i] = id
    /\ stopped => queue = << >>

(* The table and the mailbox keep their bounds through eviction and refusal.  *)
Bounded ==
    /\ Cardinality(Retained) <= MAX_CONTROL_RECORDS
    /\ Cardinality(Pending) <= MAX_CONTROL_PENDING

(* A safe-mode Host never holds, hence never runs, a request that could       *)
(* activate a plugin.                                                         *)
RecoveryOnly ==
    recovery_only => \A id \in Retained : records[id].request \in RecoveryRequest

(* The mailbox is consistent through every eviction, refusal, stop and        *)
(* replacement, also when the table is full or the sequence is exhausted.     *)
BrokerConsistent == TypeOK /\ QueueExact /\ Bounded /\ RecoveryOnly

(* Jobs seen from outside: accepted once, started in the order of acceptance, *)
(* dropped only all together when the Host stops or is replaced.              *)
Jobs == INSTANCE JobLog WITH
    outstanding <- [i \in 1 .. Len(queue) |-> <<incarnation, queue[i]>>],
    used        <- accepted,
    active      <- {<<incarnation, id>> : id \in Running},
    done        <- finished

JobOrder == Jobs!Spec

(* Whatever clients submit, poll, repeat and lose, the mailbox keeps its      *)
(* tables and hands no receipt out twice (ControlBroker::handle, take_next).  *)
BrokerSound == BrokerConsistent /\ AtMostOnce
=============================================================================
