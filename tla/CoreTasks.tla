------------------------------ MODULE CoreTasks ------------------------------
(* Callback tasks (src/core_resources/tasks.rs behind the lock of             *)
(* src/core_resources.rs).  Code outside Core claims queued tasks, works on   *)
(* them and reports; Core admits, hands out each task once, ends what is      *)
(* overdue or has lost its runner, and wakes the calls that wait for work.    *)
(* Every call runs under one lock except a claim that waits: it gives the     *)
(* lock up and asks again.  Payloads and progress are left out.               *)
EXTENDS Integers, FiniteSets

CONSTANTS
    Owner,             \* plugin, source and generation
    Runner, Task, Claim,           \* random tokens, each given out once
    OperationKey, Input,           \* what a start names and carries
    Caller,            \* threads of the waiting claims
    None,
    MAX_RUNNING,       \* 4 per owner
    OWNER_RUNNERS, OWNER_TASKS,    \* 16 and 64
    MAX_RUNNERS, MAX_TASKS         \* 128 and 256

ASSUME TaskBounds ==
    {MAX_RUNNING, OWNER_RUNNERS, OWNER_TASKS, MAX_RUNNERS, MAX_TASKS} \subseteq Nat

VARIABLES
    closing, retired,  \* the service is shut down; owners that have retired
    runners,           \* the owner of each runner
    tasks,
    operations,        \* the parameters and the task of each operation key
    waiting,           \* claims in wait_timeout
    overdue,           \* tasks whose deadline has passed
    issued             \* tokens given out

tvars == <<closing, retired, runners, tasks, operations, waiting, overdue, issued>>

Terminal == {"succeeded", "failed", "cancelled", "interrupted"}

TaskRecord == [owner : Owner, runner : Runner, state : {"queued", "running"} \cup Terminal,
               claim : Claim \cup {None}, cancel_requested : BOOLEAN,
               error : {"none", "task_timeout", "runner_retired", "reported"}]

Operation == [runner : Runner, input : Input, task : Task]

Wait == [owner : Owner, runner : Runner, limit : 1 .. MAX_RUNNING, notified : BOOLEAN]

ASSUME TaskNone == None \notin Owner \cup Claim \cup TaskRecord \cup Operation \cup Wait

TasksInit ==
    /\ closing = FALSE /\ retired = {}
    /\ runners = [r \in Runner |-> None]
    /\ tasks = [t \in Task |-> None]
    /\ operations = [k \in Owner \X OperationKey |-> None]
    /\ waiting = [c \in Caller |-> None]
    /\ overdue = {} /\ issued = {}

Live(T, t) == T[t] # None /\ T[t].state \notin Terminal

Of(T, o) == {t \in Task : T[t] # None /\ T[t].owner = o}

Running(T, o) == {t \in Of(T, o) : T[t].state = "running"}

(* What would be wrong: work is handed out again while it runs.               *)
QueuedOrRunning(T, o, r) == {t \in Of(T, o) : T[t].runner = r /\ T[t].state \notin Terminal}

Queued(T, o, r) == {t \in Of(T, o) : T[t].runner = r /\ T[t].state = "queued"}

(* How a task ends that nobody finished: work that was handed out may have    *)
(* had effects, work that was not cannot.                                     *)
Ended(task, code) ==
    [task EXCEPT !.cancel_requested = TRUE, !.error = code,
                 !.state = IF task.claim # None THEN "interrupted" ELSE "cancelled"]

(* expire, at the start of every tasks call.                                  *)
Expired(T) ==
    [t \in Task |-> IF Live(T, t) /\ t \in overdue THEN Ended(T[t], "task_timeout") ELSE T[t]]

(* check                                                                      *)
Admitted(o) == ~closing /\ o \notin retired

(* What would be wrong: a change wakes nobody.                                *)
NobodyNotified == waiting

(* changed.notify_all()                                                       *)
Notified == [c \in Caller |-> IF waiting[c] = None THEN None
                              ELSE [waiting[c] EXCEPT !.notified = TRUE]]

-----------------------------------------------------------------------------
Register(o) ==
    /\ Admitted(o)
    /\ Cardinality({r \in Runner : runners[r] # None}) < MAX_RUNNERS
    /\ Cardinality({r \in Runner : runners[r] = o}) < OWNER_RUNNERS
    /\ \E r \in Runner \ issued :
          /\ runners' = [runners EXCEPT ![r] = o]
          /\ issued' = issued \cup {r}
    /\ tasks' = Expired(tasks) /\ waiting' = Notified
    /\ UNCHANGED <<closing, retired, operations, overdue>>

(* What would be wrong: the operation key is not looked up.                   *)
KeyIgnored(o, k) == TRUE

NewOperation(o, k) == operations[<<o, k>>] = None

Start(o, r, k, input) ==
    /\ Admitted(o)
    /\ NewOperation(o, k)
    /\ runners[r] = o
    /\ Cardinality({t \in Task : tasks[t] # None}) < MAX_TASKS
    /\ Cardinality(Of(tasks, o)) < OWNER_TASKS
    /\ \E t \in Task \ issued :
          /\ tasks' = [Expired(tasks) EXCEPT
                ![t] = [owner |-> o, runner |-> r, state |-> "queued", claim |-> None,
                        cancel_requested |-> FALSE, error |-> "none"]]
          /\ operations' = [operations EXCEPT
                ![<<o, k>>] = [runner |-> r, input |-> input, task |-> t]]
          /\ issued' = issued \cup {t}
    /\ waiting' = Notified
    /\ UNCHANGED <<closing, retired, runners, overdue>>

(* A start that is retried, a get, a result or a list; a call that is refused *)
(* after the expiry wakes nobody.                                             *)
Reads(o) ==
    /\ Admitted(o)
    /\ tasks' = Expired(tasks) /\ waiting' = Notified
    /\ UNCHANGED <<closing, retired, runners, operations, overdue, issued>>

Refused(o) ==
    /\ Admitted(o)
    /\ tasks' = Expired(tasks)
    /\ UNCHANGED <<closing, retired, runners, operations, waiting, overdue, issued>>

Capacity(T, o, limit) ==
    LET free == IF Cardinality(Running(T, o)) >= MAX_RUNNING THEN 0
                ELSE MAX_RUNNING - Cardinality(Running(T, o))
    IN  IF free <= limit THEN free ELSE limit

(* What a claim is given, each task with a token of its own: as many queued   *)
(* tasks as there is capacity for, in no order the caller knows.              *)
Batches(T, o, r, limit) ==
    LET size == IF Cardinality(Queued(T, o, r)) <= Capacity(T, o, limit)
                THEN Cardinality(Queued(T, o, r)) ELSE Capacity(T, o, limit)
    IN  {batch \in UNION {[S -> Claim \ issued] : S \in SUBSET Queued(T, o, r)} :
            /\ Cardinality(DOMAIN batch) = size
            /\ \A t, u \in DOMAIN batch : batch[t] = batch[u] => t = u}

HandOut(T, batch) ==
    [t \in Task |-> IF t \in DOMAIN batch
                    THEN [T[t] EXCEPT !.state = "running", !.claim = batch[t]] ELSE T[t]]

Tokens(batch) == {batch[t] : t \in DOMAIN batch}

(* tasks.claim that finds work.                                               *)
ClaimTasks(o, r, limit) ==
    /\ Admitted(o) /\ runners[r] = o
    /\ \E batch \in Batches(Expired(tasks), o, r, limit) :
          /\ DOMAIN batch # {}
          /\ tasks' = HandOut(Expired(tasks), batch)
          /\ issued' = issued \cup Tokens(batch)
    /\ waiting' = Notified
    /\ UNCHANGED <<closing, retired, runners, operations, overdue>>

(* tasks.claim that finds none and may wait.                                  *)
Nothing(T, o, r, limit) == Queued(T, o, r) = {} \/ Capacity(T, o, limit) = 0

WaitForTasks(c, o, r, limit) ==
    /\ Admitted(o) /\ runners[r] = o
    /\ waiting[c] = None
    /\ Nothing(Expired(tasks), o, r, limit)
    /\ tasks' = Expired(tasks)
    /\ waiting' = [waiting EXCEPT ![c] = [owner |-> o, runner |-> r, limit |-> limit,
                                          notified |-> FALSE]]
    /\ UNCHANGED <<closing, retired, runners, operations, overdue, issued>>

CheckedAgain(o, r) == Admitted(o) /\ runners[r] = o

(* wait_timeout returns, notified or not, and the whole call runs again.      *)
Resume(c) ==
    LET w == waiting[c]
        T == Expired(tasks)
    IN  /\ w # None
        /\ \/ /\ ~CheckedAgain(w.owner, w.runner)
              /\ waiting' = [waiting EXCEPT ![c] = None]
              /\ tasks' = IF Admitted(w.owner) THEN T ELSE tasks
              /\ UNCHANGED issued
           \/ /\ CheckedAgain(w.owner, w.runner)
              /\ ~Nothing(T, w.owner, w.runner, w.limit)
              /\ \E batch \in Batches(T, w.owner, w.runner, w.limit) :
                    /\ tasks' = HandOut(T, batch)
                    /\ issued' = issued \cup Tokens(batch)
              /\ waiting' = [Notified EXCEPT ![c] = None]
           \/ /\ CheckedAgain(w.owner, w.runner)
              /\ Nothing(T, w.owner, w.runner, w.limit)
              /\ tasks' = T
              /\ \/ waiting' = [waiting EXCEPT ![c].notified = FALSE]
                 \/ waiting' = [Notified EXCEPT ![c] = None]
              /\ UNCHANGED issued
        /\ UNCHANGED <<closing, retired, runners, operations, overdue>>

(* What would be wrong: the holder of a claim reports on a task that ended.   *)
ClaimedAnyState(T, o, t, claim) == T[t] # None /\ T[t].owner = o /\ T[t].claim = claim

(* claimed                                                                    *)
Claimed(T, o, t, claim) ==
    T[t] # None /\ T[t].owner = o /\ T[t].claim = claim /\ Live(T, t)

(* tasks.finish; a cancellation is acknowledged only when it was asked for.   *)
Finish(o, t, claim, state) ==
    LET T == Expired(tasks)
    IN  /\ Admitted(o)
        /\ Claimed(T, o, t, claim)
        /\ state = "cancelled" => T[t].cancel_requested
        /\ tasks' = [T EXCEPT ![t].state = state, ![t].error = "reported"]
        /\ waiting' = Notified
        /\ UNCHANGED <<closing, retired, runners, operations, overdue, issued>>

CancelTask(o, t) ==
    LET T == Expired(tasks)
    IN  /\ Admitted(o)
        /\ T[t] # None /\ T[t].owner = o
        /\ tasks' = IF Live(T, t)
                    THEN [T EXCEPT ![t].cancel_requested = TRUE,
                                   ![t].state = IF @ = "queued" THEN "cancelled" ELSE @]
                    ELSE T
        /\ waiting' = Notified
        /\ UNCHANGED <<closing, retired, runners, operations, overdue, issued>>

(* What would be wrong: only the tasks that run lose their runner.            *)
RunningOf(T, o, r) == {t \in Running(T, o) : T[t].runner = r}

TasksOf(T, o, r) == {t \in Of(T, o) : T[t].runner = r /\ Live(T, t)}

Unregister(o, r) ==
    LET T == Expired(tasks)
    IN  /\ Admitted(o) /\ runners[r] = o
        /\ runners' = [runners EXCEPT ![r] = None]
        /\ tasks' = [t \in Task |-> IF t \in TasksOf(T, o, r)
                                    THEN Ended(T[t], "runner_retired") ELSE T[t]]
        /\ waiting' = Notified
        /\ UNCHANGED <<closing, retired, operations, overdue, issued>>

-----------------------------------------------------------------------------
(* retire and shutdown, for everything the owners of O have.                  *)
Removed(O) ==
    /\ runners' = [r \in Runner |-> IF runners[r] \in O THEN None ELSE runners[r]]
    /\ tasks' = [t \in Task |-> IF tasks[t] # None /\ tasks[t].owner \in O
                                THEN None ELSE tasks[t]]
    /\ operations' = [k \in Owner \X OperationKey |->
                         IF k[1] \in O THEN None ELSE operations[k]]
    /\ waiting' = Notified
    /\ UNCHANGED <<overdue, issued>>

RetireOwner(o) ==
    /\ retired' = retired \cup {o}
    /\ Removed({o})
    /\ UNCHANGED closing

ShutDown ==
    /\ ~closing
    /\ closing' = TRUE
    /\ Removed(Owner)
    /\ UNCHANGED retired

DeadlinePasses(t) ==
    /\ Live(tasks, t) /\ t \notin overdue
    /\ overdue' = overdue \cup {t}
    /\ UNCHANGED <<closing, retired, runners, tasks, operations, waiting, issued>>

TasksNext ==
    \/ \E o \in Owner :
          \/ Register(o) \/ Reads(o) \/ Refused(o) \/ RetireOwner(o)
          \/ \E r \in Runner :
                \/ \E k \in OperationKey, i \in Input : Start(o, r, k, i)
                \/ \E n \in 1 .. MAX_RUNNING :
                      ClaimTasks(o, r, n) \/ \E c \in Caller : WaitForTasks(c, o, r, n)
                \/ Unregister(o, r)
          \/ \E t \in Task :
                \/ CancelTask(o, t)
                \/ \E claim \in Claim \cap issued, s \in Terminal \ {"interrupted"} :
                      Finish(o, t, claim, s)
    \/ \E c \in Caller : Resume(c)
    \/ \E t \in Task : DeadlinePasses(t)
    \/ ShutDown

TasksSpec == TasksInit /\ [][TasksNext]_tvars

-----------------------------------------------------------------------------
(* The types of the tables, and an owner's running tasks within their bound.  *)
TasksTypeOK ==
    /\ closing \in BOOLEAN /\ retired \subseteq Owner
    /\ runners \in [Runner -> Owner \cup {None}]
    /\ tasks \in [Task -> TaskRecord \cup {None}]
    /\ operations \in [Owner \X OperationKey -> Operation \cup {None}]
    /\ waiting \in [Caller -> Wait \cup {None}]
    /\ overdue \subseteq Task
    /\ issued \subseteq Runner \cup Task \cup Claim
    /\ \A o \in Owner : Cardinality(Running(tasks, o)) <= MAX_RUNNING

(* A live task has a registered runner of its own owner, or nobody could ever *)
(* finish it (tasks.unregister, retire).                                      *)
LiveHasRunner ==
    \A t \in Task : Live(tasks, t) => runners[tasks[t].runner] = tasks[t].owner

(* An outcome is immutable, however late a report, a cancellation, a deadline *)
(* or the end of the runner comes: a task that ended stays as it ended until  *)
(* its owner retires (claimed, expire, tasks.cancel, tasks.unregister).       *)
OutcomeIsFinal ==
    [][\A t \in Task :
          tasks[t] # None /\ ~Live(tasks, t) /\ ~closing' /\ tasks[t].owner \notin retired'
             => tasks'[t] = tasks[t]]_tvars

(* An operation key is one task for ever: a start that is retried finds the   *)
(* task it started, whatever has become of it (tasks.start).                  *)
OperationIsOnce ==
    /\ \A t \in Task : tasks[t] # None =>
          \E k \in OperationKey : /\ operations[<<tasks[t].owner, k>>] # None
                                  /\ operations[<<tasks[t].owner, k>>].task = t
    /\ \A o \in Owner, k \in OperationKey : operations[<<o, k>>] # None =>
          /\ tasks[operations[<<o, k>>].task] # None
          /\ tasks[operations[<<o, k>>].task].owner = o

(* What the outcome says is known is known: work that was never handed out    *)
(* ends as cancelled only, work that was ends so only by its claimant's word  *)
(* (outcomeKnown, tasks.finish).                                              *)
OutcomeIsKnown ==
    \A t \in Task : tasks[t] # None =>
        /\ tasks[t].claim = None => tasks[t].state \in {"queued", "cancelled"}
        /\ tasks[t].claim # None /\ tasks[t].state \in Terminal =>
              (tasks[t].state # "interrupted" <=> tasks[t].error = "reported")

(* A task is handed out once: no call takes it over from whoever claimed it,  *)
(* however many claims wait for the same runner (tasks.claim).                *)
HandedOutOnce ==
    [][\A t \in Task :
          tasks[t] # None /\ tasks'[t] # None /\ tasks[t].claim # None
             => tasks'[t].claim = tasks[t].claim]_tvars

(* Nothing of a retired owner is left or comes back, also through a claim     *)
(* that was waiting when it retired (CoreResources::invoke, check).           *)
NothingOfRetired ==
    \A o \in Owner : o \in retired \/ closing =>
        /\ Of(tasks, o) = {}
        /\ \A r \in Runner : runners[r] # o
        /\ \A k \in OperationKey : operations[<<o, k>>] = None

(* The tables of runners, tasks and operations agree after every call, every  *)
(* deadline and every retirement.                                             *)
TasksConsistent == TasksTypeOK /\ LiveHasRunner /\ OutcomeIsKnown /\ NothingOfRetired

(* A claim that sleeps without having been woken has nothing to wake for,     *)
(* unless a deadline made room meanwhile (wait_timeout, notify_all).          *)
NoLostWakeup ==
    \A c \in Caller : waiting[c] # None /\ ~waiting[c].notified =>
        LET w == waiting[c]
        IN  \/ Nothing(tasks, w.owner, w.runner, w.limit)
            \/ \E t \in Of(tasks, w.owner) : tasks[t].error = "task_timeout"

(* Over all calls, deadlines and retirements: the tables agree, a key is one  *)
(* task, no claim sleeps beside work, a task is handed out once and its       *)
(* outcome is final (tasks::invoke_for, expire).                              *)
TasksSound ==
    /\ [](TasksConsistent /\ OperationIsOnce /\ NoLostWakeup)
    /\ OutcomeIsFinal /\ HandedOutOnce
=============================================================================
