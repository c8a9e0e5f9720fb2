--------------------------- MODULE CoreTasksProofs ----------------------------
(* Proofs about CoreTasks and the other services of its group (SeedInstall,  *)
(* OfficialUpdate, PluginServices).  CoreTasks holds for any owners,         *)
(* runners, tasks, keys, waiting claims and bounds.  Tokens are given out    *)
(* once, so a task or a runner that is new is none of those the tables name; *)
(* and every step either leaves a task, ends it, hands it out for the first  *)
(* time, or removes it with all its owner has.                               *)
EXTENDS CoreTasks, SeedInstall, OfficialUpdate, PluginServices, FiniteSetTheorems, TLAPS

(* The tasks there are.                                                       *)
Present(T) == {t \in Task : T[t] # None}

(* What the tables name has been given out, and there is a finite amount.     *)
TokensIssued ==
    /\ \A r \in Runner : runners[r] # None => r \in issued
    /\ \A t \in Present(tasks) : t \in issued
    /\ IsFiniteSet(Present(tasks))

(* A task waits without a claim, runs under one, and ends as its record says. *)
RecordOK(x) ==
    /\ x.state = "queued" => x.claim = None
    /\ x.claim = None => x.state \in {"queued", "cancelled"}
    /\ x.claim # None /\ x.state \in Terminal => (x.state # "interrupted" <=> x.error = "reported")

TInv ==
    /\ TasksTypeOK /\ TokensIssued
    /\ \A t \in Present(tasks) : RecordOK(tasks[t])
    /\ LiveHasRunner /\ OperationIsOnce /\ NothingOfRetired /\ NoLostWakeup

-----------------------------------------------------------------------------
(* What a step does to a task that stays.                                     *)
TaskMap == [Task -> TaskRecord \cup {None}]

TaskGoes(a, b) ==
    /\ b \in TaskRecord /\ RecordOK(b)
    /\ b.owner = a.owner /\ b.runner = a.runner
    /\ a.claim # None => b.claim = a.claim
    /\ a.state \in Terminal => b = a

(* T becomes U: no task comes or leaves, and each goes on as it may.          *)
AllGo(T, U) ==
    /\ U \in TaskMap
    /\ \A t \in Task : \/ T[t] = None /\ U[t] = None
                       \/ T[t] # None /\ U[t] # None /\ TaskGoes(T[t], U[t])

LEMMA AllGoTransitive == ASSUME NEW T, NEW U, NEW V, AllGo(T, U), AllGo(U, V) PROVE AllGo(T, V)
<1>1. \A t \in Task : T[t] # None => V[t] # None /\ TaskGoes(T[t], V[t])
  BY DEF AllGo, TaskGoes
<1> QED
  BY <1>1 DEF AllGo

LEMMA RecordNotNone == \A x \in TaskRecord : x # None
  BY TaskNone

(* The end of a task that nobody finished.                                    *)
LEMMA EndedGoes ==
    ASSUME NEW x \in TaskRecord, RecordOK(x), x.state \notin Terminal,
           NEW code \in {"task_timeout", "runner_retired"}
    PROVE  /\ TaskGoes(x, Ended(x, code)) /\ Ended(x, code).state \in Terminal
           /\ Ended(x, code).error = code /\ Ended(x, code) # None
<1> DEFINE e == Ended(x, code)
<1>1. /\ e \in TaskRecord /\ e.owner = x.owner /\ e.runner = x.runner /\ e.claim = x.claim /\ e.error = code
      /\ e.state = IF x.claim # None THEN "interrupted" ELSE "cancelled"
  BY DEF Ended, TaskRecord, Terminal
<1> HIDE DEF e
<1>2. e.state \in Terminal /\ RecordOK(e)
  BY <1>1 DEF RecordOK, Terminal
<1> QED
  BY <1>1, <1>2, RecordNotNone DEF TaskGoes, e

(* expire: what is not overdue stays, the rest has ended with its code.       *)
LEMMA ExpiredFacts ==
    ASSUME TInv
    PROVE  /\ AllGo(tasks, Expired(tasks))
           /\ \A t \in Task : \/ Expired(tasks)[t] = tasks[t]
                              \/ /\ tasks[t] # None /\ Expired(tasks)[t].error = "task_timeout"
                                 /\ Expired(tasks)[t].state \in Terminal
           /\ \A t \in Present(Expired(tasks)) : RecordOK(Expired(tasks)[t])
<1> DEFINE T == Expired(tasks)
<1>1. ASSUME NEW t \in Task, tasks[t] # None
      PROVE  tasks[t] \in TaskRecord /\ RecordOK(tasks[t])
  BY <1>1 DEF TInv, TasksTypeOK, Present
<1>2. ASSUME NEW t \in Task
      PROVE  /\ T[t] = tasks[t]
                \/ (tasks[t] # None /\ T[t] = Ended(tasks[t], "task_timeout") /\ tasks[t].state \notin Terminal)
  BY DEF Expired, Live
<1>3. ASSUME NEW t \in Task, tasks[t] # None
      PROVE  T[t] # None /\ TaskGoes(tasks[t], T[t])
  <2>1. CASE T[t] = tasks[t]
    BY <1>1, <1>3, <2>1 DEF TaskGoes
  <2>2. CASE T[t] = Ended(tasks[t], "task_timeout") /\ tasks[t].state \notin Terminal
    BY <1>1, <1>3, <2>2, EndedGoes
  <2> QED
    BY <1>2, <2>1, <2>2
<1>4. ASSUME NEW t \in Task, tasks[t] = None PROVE T[t] = None
  BY <1>2, <1>4
<1>5. T \in TaskMap
  <2>1. T = [t \in Task |-> T[t]]
    BY DEF Expired
  <2>2. \A t \in Task : T[t] \in TaskRecord \cup {None}
    BY <1>3, <1>4 DEF TaskGoes
  <2> HIDE DEF T
  <2> QED
    BY <2>1, <2>2 DEF TaskMap
<1>6. ASSUME NEW t \in Task
      PROVE  T[t] = tasks[t] \/ (tasks[t] # None /\ T[t].error = "task_timeout" /\ T[t].state \in Terminal)
  <2>1. CASE tasks[t] # None /\ T[t] = Ended(tasks[t], "task_timeout") /\ tasks[t].state \notin Terminal
    BY <1>1, <2>1, EndedGoes
  <2> QED
    BY <1>2, <2>1
<1>7. \A t \in Present(T) : RecordOK(T[t])
  BY <1>3, <1>4 DEF Present, TaskGoes
<1> HIDE DEF T
<1> QED
  BY <1>3, <1>4, <1>5, <1>6, <1>7 DEF AllGo, T

-----------------------------------------------------------------------------
(* What a step promises of each task: its outcome stays, and so does its      *)
(* claim (the bodies of OutcomeIsFinal and HandedOutOnce).                    *)
OutcomeStep ==
    \A t \in Task :
        tasks[t] # None /\ ~Live(tasks, t) /\ ~closing' /\ tasks[t].owner \notin retired'
           => tasks'[t] = tasks[t]

HandedStep ==
    \A t \in Task :
        tasks[t] # None /\ tasks'[t] # None /\ tasks[t].claim # None
           => tasks'[t].claim = tasks[t].claim

WithinBound(T) == \A o \in Owner : Cardinality(Running(T, o)) <= MAX_RUNNING

Waits == waiting' \in [Caller -> Wait \cup {None}] /\ NoLostWakeup'

Keeps == TInv' /\ OutcomeStep /\ HandedStep

LEMMA GoingSteps == ASSUME AllGo(tasks, tasks') PROVE OutcomeStep /\ HandedStep
  BY DEF AllGo, TaskGoes, OutcomeStep, HandedStep, Live

(* A call that neither adds nor removes a task nor an operation.              *)
LEMMA CallKeeps ==
    ASSUME TInv, UNCHANGED <<closing, retired, operations>>,
           runners' \in [Runner -> Owner \cup {None}],
           \A r \in Runner : runners'[r] # None => r \in issued' /\ Admitted(runners'[r]),
           AllGo(tasks, tasks'), WithinBound(tasks'), LiveHasRunner', overdue' \subseteq Task,
           issued \subseteq issued', issued' \subseteq Runner \cup Task \cup Claim, Waits
    PROVE  Keeps
<1>1. Present(tasks') = Present(tasks)
  BY DEF AllGo, Present
<1>2. TasksTypeOK'
  BY DEF TInv, TasksTypeOK, AllGo, TaskMap, WithinBound, Waits
<1>3. TokensIssued'
  <2>1. \A t \in Present(tasks') : t \in issued'
    BY <1>1 DEF TInv, TokensIssued
  <2>2. IsFiniteSet(Present(tasks'))
    BY <1>1 DEF TInv, TokensIssued
  <2> QED
    BY <2>1, <2>2 DEF TokensIssued
<1>4. \A t \in Present(tasks') : RecordOK(tasks'[t])
  BY DEF AllGo, TaskGoes, Present
<1>5. \A t \in Present(tasks) : tasks'[t] # None /\ tasks'[t].owner = tasks[t].owner
  BY DEF AllGo, TaskGoes, Present
<1>6. OperationIsOnce'
  <2>1. \A t \in Task : tasks'[t] # None =>
           \E k \in OperationKey : /\ operations[<<tasks'[t].owner, k>>] # None
                                   /\ operations[<<tasks'[t].owner, k>>].task = t
    BY <1>1, <1>5 DEF TInv, OperationIsOnce, Present
  <2>2. \A o \in Owner, k \in OperationKey : operations[<<o, k>>] # None =>
           /\ tasks'[operations[<<o, k>>].task] # None
           /\ tasks'[operations[<<o, k>>].task].owner = o
    <3>1. \A o \in Owner, k \in OperationKey : operations[<<o, k>>] # None => operations[<<o, k>>].task \in Task
      BY DEF TInv, TasksTypeOK, Operation
    <3> QED
      BY <1>5, <3>1 DEF TInv, OperationIsOnce, Present
  <2> QED
    BY <2>1, <2>2 DEF OperationIsOnce
<1>7. NothingOfRetired'
  <2> SUFFICES ASSUME NEW o \in Owner, o \in retired \/ closing
               PROVE  /\ Of(tasks', o) = {}
                      /\ \A r \in Runner : runners'[r] # o
                      /\ \A k \in OperationKey : operations[<<o, k>>] = None
    BY DEF NothingOfRetired
  <2>1. Of(tasks, o) = {} /\ \A k \in OperationKey : operations[<<o, k>>] = None
    BY DEF TInv, NothingOfRetired
  <2>2. Of(tasks', o) = {}
    BY <1>1, <1>5, <2>1 DEF Of, Present
  <2>3. \A r \in Runner : runners'[r] # o
    BY TaskNone DEF Admitted
  <2> QED
    BY <2>1, <2>2, <2>3
<1>8. OutcomeStep /\ HandedStep
  BY GoingSteps
<1> QED
  BY <1>2, <1>3, <1>4, <1>6, <1>7, <1>8 DEF Keeps, TInv, Waits

(* The runners an owner has left are those of owners that are admitted.       *)
LEMMA RunnersAdmitted ==
    ASSUME TInv
    PROVE  /\ \A r \in Runner : runners[r] # None => r \in issued /\ Admitted(runners[r])
           /\ runners \in [Runner -> Owner \cup {None}]
  BY DEF TInv, TokensIssued, TasksTypeOK, NothingOfRetired, Admitted

(* Live tasks keep their runner while runners stay.                           *)
LEMMA LiveStay ==
    ASSUME TInv, AllGo(tasks, tasks'), runners' = runners
    PROVE  LiveHasRunner'
  BY DEF TInv, AllGo, TaskGoes, LiveHasRunner, Live

(* Fewer tasks run, or the same.                                              *)
LEMMA FewerRun ==
    ASSUME TInv, NEW U, \A o \in Owner : Running(U, o) \subseteq Running(tasks, o)
    PROVE  WithinBound(U)
<1> SUFFICES ASSUME NEW o \in Owner PROVE Cardinality(Running(U, o)) <= MAX_RUNNING
  BY DEF WithinBound
<1>1. Running(tasks, o) \subseteq Present(tasks) /\ IsFiniteSet(Present(tasks))
  BY DEF Running, Of, Present, TInv, TokensIssued
<1>2. IsFiniteSet(Running(tasks, o))
  BY <1>1, FS_Subset
<1>3. IsFiniteSet(Running(U, o)) /\ Cardinality(Running(U, o)) <= Cardinality(Running(tasks, o))
  BY <1>2, FS_Subset
<1>4. Cardinality(Running(tasks, o)) <= MAX_RUNNING /\ MAX_RUNNING \in Nat
  BY TaskBounds DEF TInv, TasksTypeOK
<1>5. Cardinality(Running(U, o)) \in Nat /\ Cardinality(Running(tasks, o)) \in Nat
  BY <1>2, <1>3, FS_CardinalityType
<1> QED
  BY <1>3, <1>4, <1>5

(* Everybody who waits is woken.                                              *)
LEMMA AllWoken ==
    ASSUME TInv, \/ waiting' = Notified
                 \/ \E c \in Caller : waiting' = [Notified EXCEPT ![c] = None]
    PROVE  Waits
<1>1. \A c \in Caller : waiting[c] \in Wait \cup {None}
  BY DEF TInv, TasksTypeOK
<1>2. \A c \in Caller : Notified[c] \in Wait \cup {None} /\ (Notified[c] # None => Notified[c].notified)
  BY <1>1 DEF Notified, Wait
<1>3. \A c \in Caller : waiting'[c] \in Wait \cup {None} /\ (waiting'[c] # None => waiting'[c].notified)
  BY <1>2 DEF Notified
<1>4. waiting' \in [Caller -> Wait \cup {None}]
  BY <1>3 DEF Notified
<1>5. NoLostWakeup'
  BY <1>3 DEF NoLostWakeup
<1> QED
  BY <1>4, <1>5 DEF Waits

-----------------------------------------------------------------------------
(* The expiry at the start of every call.                                     *)

(* After the expiry a live task is as it was.                                 *)
LEMMA LiveAfterExpiry ==
    ASSUME TInv, NEW t \in Task, Live(Expired(tasks), t)
    PROVE  Expired(tasks)[t] = tasks[t] /\ Live(tasks, t)
  BY ExpiredFacts DEF Live

LEMMA ExpiredRunning ==
    ASSUME TInv, NEW o \in Owner
    PROVE  Running(Expired(tasks), o) \subseteq Running(tasks, o)
<1>1. ASSUME NEW t \in Running(Expired(tasks), o) PROVE t \in Running(tasks, o)
  <2>1. t \in Task /\ Live(Expired(tasks), t)
    BY DEF Running, Of, Live, Terminal
  <2> QED
    BY <2>1, LiveAfterExpiry DEF Running, Of
<1> QED
  BY <1>1

(* A call that does nothing but expire.                                       *)
LEMMA ExpiryKeeps ==
    ASSUME TInv, tasks' = Expired(tasks), UNCHANGED <<closing, retired, runners, operations, overdue, issued>>,
           Waits
    PROVE  Keeps
<1>1. AllGo(tasks, tasks')
  BY ExpiredFacts
<1>2. WithinBound(tasks')
  BY ExpiredRunning, FewerRun
<1>3. LiveHasRunner'
  BY <1>1, LiveStay
<1>4. runners' \in [Runner -> Owner \cup {None}]
      /\ \A r \in Runner : runners'[r] # None => r \in issued' /\ Admitted(runners'[r])
  BY RunnersAdmitted
<1>5. overdue' \subseteq Task /\ issued' \subseteq Runner \cup Task \cup Claim
  BY DEF TInv, TasksTypeOK
<1> QED
  BY <1>1, <1>2, <1>3, <1>4, <1>5, CallKeeps

(* A claim that sleeps still has nothing to wake for after the expiry, or one *)
(* of its owner's tasks has timed out.                                        *)
NothingToWakeFor(T, w) ==
    \/ Nothing(T, w.owner, w.runner, w.limit)
    \/ \E t \in Of(T, w.owner) : T[t].error = "task_timeout"

LEMMA ExpiryWakesNobody ==
    ASSUME TInv, NEW w \in Wait, NothingToWakeFor(tasks, w)
    PROVE  NothingToWakeFor(Expired(tasks), w)
<1> DEFINE T == Expired(tasks)
           o == w.owner
<1>1. Of(T, o) = Of(tasks, o)
  BY ExpiredFacts DEF Of, AllGo, TaskGoes
<1>2. CASE \E t \in Of(T, o) : T[t] # tasks[t]
  BY <1>2, ExpiredFacts DEF Of, NothingToWakeFor
<1>3. CASE \A t \in Of(T, o) : T[t] = tasks[t]
  <2>1. Running(T, o) = Running(tasks, o) /\ Queued(T, o, w.runner) = Queued(tasks, o, w.runner)
    BY <1>1, <1>3 DEF Running, Queued
  <2>2. Nothing(T, o, w.runner, w.limit) <=> Nothing(tasks, o, w.runner, w.limit)
    BY <2>1 DEF Nothing, Capacity
  <2> QED
    BY <1>1, <1>3, <2>2 DEF NothingToWakeFor
<1> QED
  BY <1>2, <1>3

LEMMA SleepersFacts ==
    ASSUME TInv, NEW c \in Caller, waiting[c] # None
    PROVE  waiting[c] \in Wait /\ (~waiting[c].notified => NothingToWakeFor(tasks, waiting[c]))
  BY DEF TInv, TasksTypeOK, NoLostWakeup, NothingToWakeFor

(* Those who wait go on waiting through an expiry; one of them may be added,  *)
(* if there is nothing for it, or leave.                                      *)
LEMMA SleepersStay ==
    ASSUME TInv, tasks' = Expired(tasks), waiting' \in [Caller -> Wait \cup {None}],
           \A c \in Caller : \/ waiting'[c] = waiting[c] \/ waiting'[c] = None
                             \/ Nothing(Expired(tasks), waiting'[c].owner, waiting'[c].runner, waiting'[c].limit)
    PROVE  Waits
<1>1. ASSUME NEW c \in Caller, waiting'[c] # None, ~waiting'[c].notified
      PROVE  NothingToWakeFor(tasks', waiting'[c])
  <2>1. CASE waiting'[c] = waiting[c]
    BY <1>1, <2>1, SleepersFacts, ExpiryWakesNobody
  <2>2. CASE Nothing(Expired(tasks), waiting'[c].owner, waiting'[c].runner, waiting'[c].limit)
    BY <2>2 DEF NothingToWakeFor
  <2> QED
    BY <1>1, <2>1, <2>2
<1>2. NoLostWakeup'
  BY <1>1 DEF NoLostWakeup, NothingToWakeFor
<1> QED
  BY <1>2 DEF Waits

LEMMA ReadsKeeps == ASSUME TInv, NEW o \in Owner, Reads(o) PROVE Keeps
  BY AllWoken, ExpiryKeeps DEF Reads

LEMMA RefusedKeeps == ASSUME TInv, NEW o \in Owner, Refused(o) PROVE Keeps
<1>1. waiting' \in [Caller -> Wait \cup {None}]
  BY DEF Refused, TInv, TasksTypeOK
<1>2. Waits
  BY <1>1, SleepersStay DEF Refused
<1> QED
  BY <1>2, ExpiryKeeps DEF Refused

LEMMA WaitForTasksKeeps ==
    ASSUME TInv, NEW c \in Caller, NEW o \in Owner, NEW r \in Runner, NEW limit \in 1 .. MAX_RUNNING,
           WaitForTasks(c, o, r, limit)
    PROVE  Keeps
<1> DEFINE w == [owner |-> o, runner |-> r, limit |-> limit, notified |-> FALSE]
<1>1. w \in Wait /\ w.owner = o /\ w.runner = r /\ w.limit = limit
  BY DEF Wait
<1>2. waiting' = [waiting EXCEPT ![c] = w]
  BY DEF WaitForTasks
<1> HIDE DEF w
<1>3. waiting' \in [Caller -> Wait \cup {None}]
  BY <1>1, <1>2 DEF TInv, TasksTypeOK
<1>4. \A d \in Caller : waiting'[d] = waiting[d] \/ waiting'[d] = w
  BY <1>2 DEF TInv, TasksTypeOK
<1>5. Nothing(Expired(tasks), w.owner, w.runner, w.limit)
  BY <1>1 DEF WaitForTasks
<1>6. Waits
  BY <1>3, <1>4, <1>5, SleepersStay DEF WaitForTasks
<1> QED
  BY <1>6, ExpiryKeeps DEF WaitForTasks

-----------------------------------------------------------------------------
(* Handing out.                                                               *)
LEMMA PresentFinite ==
    ASSUME TInv, NEW S, S \subseteq Present(tasks)
    PROVE  IsFiniteSet(S) /\ Cardinality(S) \in Nat
  BY FS_Subset, FS_CardinalityType DEF TInv, TokensIssued

(* No more is handed out than may still run.                                  *)
LEMMA BatchFits ==
    ASSUME NEW running \in Nat, NEW queued \in Nat, NEW limit \in Nat, NEW max \in Nat, running <= max
    PROVE  LET free == IF running >= max THEN 0 ELSE max - running
               capacity == IF free <= limit THEN free ELSE limit
               size == IF queued <= capacity THEN queued ELSE capacity
           IN  size \in Nat /\ running + size <= max
  OBVIOUS

LEMMA HandOutFacts ==
    ASSUME TInv, NEW o \in Owner, NEW r \in Runner, NEW limit \in 1 .. MAX_RUNNING,
           NEW batch \in Batches(Expired(tasks), o, r, limit), tasks' = HandOut(Expired(tasks), batch)
    PROVE  /\ AllGo(tasks, tasks') /\ WithinBound(tasks')
           /\ Tokens(batch) \subseteq Claim /\ DOMAIN batch \subseteq Queued(Expired(tasks), o, r)
<1> DEFINE T == Expired(tasks)
           D == DOMAIN batch
<1>0. D \subseteq Queued(T, o, r) /\ \A t \in D : batch[t] \in Claim
  BY DEF Batches
<1>1. Tokens(batch) \subseteq Claim
  BY <1>0 DEF Tokens
<1>2. AllGo(tasks, T) /\ \A t \in Present(T) : RecordOK(T[t])
  BY ExpiredFacts
<1> HIDE DEF T
<1>3. ASSUME NEW t \in D
      PROVE  /\ T[t] \in TaskRecord /\ T[t] # None /\ T[t].state = "queued" /\ T[t].claim = None /\ t \in Task
             /\ T[t].owner = o
    BY <1>0, <1>2, <1>3 DEF AllGo, TaskMap, Present, Queued, Of, RecordOK
<1>4. ASSUME NEW t \in D
      PROVE  /\ tasks'[t] = [T[t] EXCEPT !.state = "running", !.claim = batch[t]]
             /\ tasks'[t] \in TaskRecord /\ tasks'[t] # None /\ TaskGoes(T[t], tasks'[t])
             /\ tasks'[t].owner = o /\ tasks'[t].state = "running"
  <2> DEFINE x == [T[t] EXCEPT !.state = "running", !.claim = batch[t]]
  <2>1. tasks'[t] = x
    BY <1>3 DEF HandOut, T
  <2>2. /\ x \in TaskRecord /\ x.owner = T[t].owner /\ x.runner = T[t].runner /\ x.state = "running"
        /\ x.claim = batch[t]
    BY <1>0, <1>3 DEF TaskRecord
  <2> HIDE DEF x
  <2>3. batch[t] # None
    BY <1>0, TaskNone
  <2>4. RecordOK(x) /\ TaskGoes(T[t], x)
    BY <1>3, <2>2, <2>3 DEF RecordOK, TaskGoes, Terminal
  <2>5. x # None
    BY <2>2, RecordNotNone
  <2> QED
    BY <1>3, <2>1, <2>2, <2>4, <2>5 DEF x
<1>5. ASSUME NEW t \in Task, t \notin D PROVE tasks'[t] = T[t]
  BY <1>5 DEF HandOut, T
<1>6. AllGo(T, tasks')
  <2>1. tasks' \in TaskMap
    <3>1. tasks' = [t \in Task |-> tasks'[t]]
      BY DEF HandOut
    <3>2. \A t \in Task : tasks'[t] \in TaskRecord \cup {None}
      BY <1>2, <1>4, <1>5 DEF AllGo, TaskMap
    <3> QED
      BY <3>1, <3>2 DEF TaskMap
  <2>2. \A t \in Task : T[t] # None => TaskGoes(T[t], T[t])
    BY <1>2 DEF AllGo, TaskMap, TaskGoes, Present
  <2> QED
    BY <1>3, <1>4, <1>5, <2>1, <2>2 DEF AllGo
<1>7. AllGo(tasks, tasks')
  BY <1>2, <1>6, AllGoTransitive
<1>8. WithinBound(tasks')
  <2>1. \A p \in Owner : Running(T, p) \subseteq Running(tasks, p)
    BY ExpiredRunning DEF T
  <2>2. WithinBound(T)
    BY <2>1, FewerRun
  <2>3. ASSUME NEW p \in Owner, p # o PROVE Cardinality(Running(tasks', p)) <= MAX_RUNNING
    <3>1. ASSUME NEW t \in Task PROVE t \in Running(tasks', p) <=> t \in Running(T, p)
      <4>1. CASE t \in D
        <5>1. T[t].owner = o /\ tasks'[t].owner = o
          BY <1>3, <1>4, <4>1
        <5> QED
          BY <2>3, <5>1 DEF Running, Of
      <4>2. CASE t \notin D
        BY <1>5, <4>2 DEF Running, Of
      <4> QED
        BY <4>1, <4>2
    <3>2. Running(tasks', p) = Running(T, p)
      BY <3>1 DEF Running, Of
    <3> QED
      BY <2>2, <3>2 DEF WithinBound
  <2>4. Cardinality(Running(tasks', o)) <= MAX_RUNNING
    <3>0. ASSUME NEW t \in Task PROVE t \in Running(tasks', o) <=> t \in Running(T, o) \/ t \in D
      <4>1. CASE t \in D
        <5>1. tasks'[t] # None /\ tasks'[t].owner = o /\ tasks'[t].state = "running"
          BY <1>4, <4>1
        <5> QED
          BY <4>1, <5>1 DEF Running, Of
      <4>2. CASE t \notin D
        BY <1>5, <4>2 DEF Running, Of
      <4> QED
        BY <4>1, <4>2
    <3>1. Running(tasks', o) = Running(T, o) \cup D
      <4>1. D \subseteq Task
        BY <1>3
      <4> QED
        BY <3>0, <4>1 DEF Running, Of
    <3>2. /\ Running(T, o) \subseteq Present(tasks) /\ D \subseteq Present(tasks)
          /\ Queued(T, o, r) \subseteq Present(tasks)
      BY <1>0, <1>2 DEF Running, Of, Present, AllGo, Queued
    <3>3. /\ IsFiniteSet(Running(T, o)) /\ IsFiniteSet(D) /\ Cardinality(Running(T, o)) \in Nat
          /\ Cardinality(D) \in Nat /\ Cardinality(Queued(T, o, r)) \in Nat
      BY <3>2, PresentFinite
    <3>4. /\ Cardinality(Running(T, o) \cup D) =
                Cardinality(Running(T, o)) + Cardinality(D) - Cardinality(Running(T, o) \cap D)
          /\ IsFiniteSet(Running(T, o) \cap D)
      BY <3>3, FS_Union, FS_Intersection
    <3>5. Cardinality(Running(T, o) \cap D) \in Nat
      BY <3>4, FS_CardinalityType
    <3>6. Cardinality(Running(T, o)) <= MAX_RUNNING /\ MAX_RUNNING \in Nat /\ limit \in Nat
      BY <2>2, TaskBounds DEF WithinBound
    <3>7. Cardinality(D) = IF Cardinality(Queued(T, o, r)) <= Capacity(T, o, limit)
                           THEN Cardinality(Queued(T, o, r)) ELSE Capacity(T, o, limit)
      BY DEF Batches, T
    <3>8. Cardinality(Running(T, o)) + Cardinality(D) <= MAX_RUNNING
      BY <3>3, <3>6, <3>7, BatchFits DEF Capacity
    <3> QED
      BY <3>1, <3>3, <3>4, <3>5, <3>6, <3>8
  <2> QED
    BY <2>3, <2>4 DEF WithinBound
<1> QED
  BY <1>0, <1>1, <1>7, <1>8 DEF T

(* A call that registers nobody.                                              *)
LEMMA SameRunnersKeep ==
    ASSUME TInv, UNCHANGED <<closing, retired, runners, operations>>,
           AllGo(tasks, tasks'), WithinBound(tasks'), overdue' \subseteq Task,
           issued \subseteq issued', issued' \subseteq Runner \cup Task \cup Claim, Waits
    PROVE  Keeps
<1>1. LiveHasRunner'
  BY LiveStay
<1>2. runners' \in [Runner -> Owner \cup {None}]
      /\ \A r \in Runner : runners'[r] # None => r \in issued' /\ Admitted(runners'[r])
  BY RunnersAdmitted
<1> QED
  BY <1>1, <1>2, CallKeeps

LEMMA TableTypes ==
    ASSUME TInv
    PROVE  overdue \subseteq Task /\ issued \subseteq Runner \cup Task \cup Claim
  BY DEF TInv, TasksTypeOK

LEMMA ClaimTasksKeeps ==
    ASSUME TInv, NEW o \in Owner, NEW r \in Runner, NEW limit \in 1 .. MAX_RUNNING, ClaimTasks(o, r, limit)
    PROVE  Keeps
<1>1. PICK batch \in Batches(Expired(tasks), o, r, limit) :
        tasks' = HandOut(Expired(tasks), batch) /\ issued' = issued \cup Tokens(batch)
  BY DEF ClaimTasks
<1>2. AllGo(tasks, tasks') /\ WithinBound(tasks') /\ Tokens(batch) \subseteq Claim
  BY <1>1, HandOutFacts
<1>3. Waits
  BY AllWoken DEF ClaimTasks
<1> QED
  BY <1>1, <1>2, <1>3, TableTypes, SameRunnersKeep DEF ClaimTasks

(* A claim that waited is refused, finds work, or waits on or leaves.         *)
LEMMA ResumeKeeps == ASSUME TInv, NEW c \in Caller, Resume(c) PROVE Keeps
<1> DEFINE w == waiting[c]
           T == Expired(tasks)
<1>0. w \in Wait /\ w.owner \in Owner /\ w.runner \in Runner /\ w.limit \in 1 .. MAX_RUNNING
  BY SleepersFacts DEF Resume, Wait
<1>1. UNCHANGED <<closing, retired, runners, operations, overdue>>
  BY DEF Resume
<1>2. CASE /\ waiting' = [waiting EXCEPT ![c] = None]
           /\ tasks' = T \/ tasks' = tasks
           /\ UNCHANGED issued
  <2>1. waiting' \in [Caller -> Wait \cup {None}]
    BY <1>2 DEF TInv, TasksTypeOK
  <2>2. \A d \in Caller : waiting'[d] = waiting[d] \/ waiting'[d] = None
    BY <1>2 DEF TInv, TasksTypeOK
  <2>3. CASE tasks' = T
    <3>1. Waits
      BY <2>1, <2>2, <2>3, SleepersStay
    <3> QED
      BY <1>1, <1>2, <2>3, <3>1, ExpiryKeeps
  <2>4. CASE tasks' = tasks
    <3>1. NoLostWakeup'
      BY <2>2, <2>4 DEF TInv, NoLostWakeup
    <3>2. AllGo(tasks, tasks')
      BY <2>4 DEF TInv, TasksTypeOK, AllGo, TaskMap, TaskGoes, Present
    <3>3. WithinBound(tasks')
      BY <2>4 DEF TInv, TasksTypeOK, WithinBound
    <3> QED
      BY <1>1, <1>2, <2>1, <3>1, <3>2, <3>3, TableTypes, SameRunnersKeep DEF Waits
  <2> QED
    BY <1>2, <2>3, <2>4
<1>3. ASSUME NEW batch \in Batches(T, w.owner, w.runner, w.limit), tasks' = HandOut(T, batch),
             issued' = issued \cup Tokens(batch), waiting' = [Notified EXCEPT ![c] = None]
      PROVE  Keeps
  <2>1. AllGo(tasks, tasks') /\ WithinBound(tasks') /\ Tokens(batch) \subseteq Claim
    BY <1>0, <1>3, HandOutFacts
  <2>2. Waits
    BY <1>3, AllWoken
  <2> QED
    BY <1>1, <1>3, <2>1, <2>2, TableTypes, SameRunnersKeep
<1>4. CASE /\ Nothing(T, w.owner, w.runner, w.limit) /\ tasks' = T /\ UNCHANGED issued
           /\ waiting' = [waiting EXCEPT ![c].notified = FALSE]
  <2>1. [w EXCEPT !.notified = FALSE] \in Wait
    BY <1>0 DEF Wait
  <2>2. waiting' = [waiting EXCEPT ![c] = [w EXCEPT !.notified = FALSE]]
    BY <1>4 DEF TInv, TasksTypeOK
  <2>3. waiting' \in [Caller -> Wait \cup {None}]
    BY <2>1, <2>2 DEF TInv, TasksTypeOK
  <2>4. \A d \in Caller : waiting'[d] = waiting[d] \/ d = c
    BY <2>2 DEF TInv, TasksTypeOK
  <2>5. waiting'[c].owner = w.owner /\ waiting'[c].runner = w.runner /\ waiting'[c].limit = w.limit
    BY <1>0, <2>2 DEF TInv, TasksTypeOK, Wait
  <2>6. Waits
    BY <1>4, <2>3, <2>4, <2>5, SleepersStay
  <2> QED
    BY <1>1, <1>4, <2>6, ExpiryKeeps
<1>5. CASE tasks' = T /\ waiting' = [Notified EXCEPT ![c] = None] /\ UNCHANGED issued
  BY <1>1, <1>5, AllWoken, ExpiryKeeps
<1> QED
  BY <1>2, <1>3, <1>4, <1>5 DEF Resume

LEMMA DeadlinePassesKeeps == ASSUME TInv, NEW t \in Task, DeadlinePasses(t) PROVE Keeps
<1>1. AllGo(tasks, tasks')
  BY DEF DeadlinePasses, TInv, TasksTypeOK, AllGo, TaskMap, TaskGoes, Present
<1>2. WithinBound(tasks')
  BY DEF DeadlinePasses, TInv, TasksTypeOK, WithinBound
<1>3. Waits
  BY DEF DeadlinePasses, TInv, TasksTypeOK, NoLostWakeup, Waits
<1>4. overdue' \subseteq Task
  BY TableTypes DEF DeadlinePasses
<1> QED
  BY <1>1, <1>2, <1>3, <1>4, TableTypes, SameRunnersKeep DEF DeadlinePasses

-----------------------------------------------------------------------------
(* Ending tasks: those of D go on to what U makes of them and none of them    *)
(* starts to run.                                                             *)
LEMMA EndingGoes ==
    ASSUME TInv, NEW D, D \subseteq Task, tasks' \in TaskMap,
           \A t \in Task \ D : tasks'[t] = Expired(tasks)[t],
           \A t \in D : /\ Expired(tasks)[t] # None /\ tasks'[t] # None
                        /\ TaskGoes(Expired(tasks)[t], tasks'[t])
                        /\ tasks'[t].state = "running" => Expired(tasks)[t].state = "running"
    PROVE  AllGo(tasks, tasks') /\ WithinBound(tasks')
<1> DEFINE T == Expired(tasks)
<1>1. AllGo(tasks, T) /\ \A t \in Present(T) : RecordOK(T[t])
  BY ExpiredFacts
<1>2. \A p \in Owner : Running(T, p) \subseteq Running(tasks, p)
  BY ExpiredRunning
<1> HIDE DEF T
<1>3. \A t \in Task : T[t] # None => TaskGoes(T[t], T[t])
  BY <1>1 DEF AllGo, TaskMap, TaskGoes, Present
<1>4. AllGo(T, tasks')
  BY <1>1, <1>3 DEF AllGo, T
<1>5. AllGo(tasks, tasks')
  BY <1>1, <1>4, AllGoTransitive
<1>6. ASSUME NEW p \in Owner, NEW t \in Running(tasks', p) PROVE t \in Running(T, p)
  <2>1. t \in Task /\ tasks'[t] # None /\ tasks'[t].owner = p /\ tasks'[t].state = "running"
    BY DEF Running, Of
  <2>2. CASE t \in D
    <3>1. T[t] # None /\ T[t].owner = p /\ T[t].state = "running"
      BY <2>1, <2>2 DEF TaskGoes, T
    <3> QED
      BY <2>1, <3>1 DEF Running, Of
  <2>3. CASE t \notin D
    <3>1. tasks'[t] = T[t]
      BY <2>1, <2>3 DEF T
    <3> QED
      BY <2>1, <3>1 DEF Running, Of
  <2> QED
    BY <2>2, <2>3
<1>7. \A p \in Owner : Running(tasks', p) \subseteq Running(tasks, p)
  BY <1>2, <1>6
<1>8. WithinBound(tasks')
  BY <1>7, FewerRun
<1> QED
  BY <1>5, <1>8

(* A call that ends or marks one task.                                        *)
LEMMA OneTaskKeeps ==
    ASSUME TInv, NEW t \in Task, NEW x, Expired(tasks)[t] # None, x # None, TaskGoes(Expired(tasks)[t], x),
           x.state = "running" => Expired(tasks)[t].state = "running",
           tasks' = [Expired(tasks) EXCEPT ![t] = x], waiting' = Notified,
           UNCHANGED <<closing, retired, runners, operations, overdue, issued>>
    PROVE  Keeps
<1>1. Expired(tasks) \in TaskMap
  BY ExpiredFacts DEF AllGo
<1>2. x \in TaskRecord
  BY DEF TaskGoes
<1>3. tasks' \in TaskMap
  BY <1>1, <1>2 DEF TaskMap
<1>4. \A u \in Task \ {t} : tasks'[u] = Expired(tasks)[u]
  BY <1>1 DEF TaskMap
<1>5. tasks'[t] = x
  BY <1>1 DEF TaskMap
<1>6. AllGo(tasks, tasks') /\ WithinBound(tasks')
  <2>1. \A u \in {t} : /\ Expired(tasks)[u] # None /\ tasks'[u] # None
                       /\ TaskGoes(Expired(tasks)[u], tasks'[u])
                       /\ tasks'[u].state = "running" => Expired(tasks)[u].state = "running"
    BY <1>5
  <2> QED
    BY <1>3, <1>4, <2>1, EndingGoes
<1>7. Waits
  BY AllWoken
<1> QED
  BY <1>6, <1>7, TableTypes, SameRunnersKeep

LEMMA RecordOfExpired ==
    ASSUME TInv, NEW t \in Task, Expired(tasks)[t] # None
    PROVE  Expired(tasks)[t] \in TaskRecord /\ RecordOK(Expired(tasks)[t])
  BY ExpiredFacts DEF AllGo, TaskMap, Present

(* The word of the claimant is the end of the task.                           *)
LEMMA FinishedRecord ==
    ASSUME NEW x \in TaskRecord, RecordOK(x), x.state \notin Terminal, x.claim # None,
           NEW state \in Terminal \ {"interrupted"}, NEW y, y = [x EXCEPT !.state = state, !.error = "reported"]
    PROVE  TaskGoes(x, y) /\ y # None /\ y.state # "running"
<1>1. /\ y \in TaskRecord /\ y.owner = x.owner /\ y.runner = x.runner /\ y.claim = x.claim
      /\ y.state = state /\ y.error = "reported"
  BY DEF TaskRecord, Terminal
<1>2. RecordOK(y)
  BY <1>1 DEF RecordOK, Terminal
<1> QED
  BY <1>1, <1>2, RecordNotNone DEF TaskGoes, Terminal

LEMMA FinishKeeps ==
    ASSUME TInv, NEW o \in Owner, NEW t \in Task, NEW claim \in Claim, NEW state \in Terminal \ {"interrupted"},
           Finish(o, t, claim, state)
    PROVE  Keeps
<1> DEFINE T == Expired(tasks)
           x == [T[t] EXCEPT !.state = state, !.error = "reported"]
<1>1. T[t] # None /\ T[t].claim # None /\ T[t].state \notin Terminal
  BY TaskNone DEF Finish, Claimed, Live
<1>2. T[t] \in TaskRecord /\ RecordOK(T[t])
  BY <1>1, RecordOfExpired
<1>3. T \in TaskMap
  BY ExpiredFacts DEF AllGo
<1>4. tasks' = [T EXCEPT ![t].state = state, ![t].error = "reported"]
  BY DEF Finish
<1>6. waiting' = Notified /\ UNCHANGED <<closing, retired, runners, operations, overdue, issued>>
  BY DEF Finish
<1>7. TaskGoes(T[t], x) /\ x # None /\ x.state # "running"
  <2> HIDE DEF T
  <2> QED
    BY <1>1, <1>2, FinishedRecord
<1>5. tasks' = [T EXCEPT ![t] = x]
  <2> HIDE DEF T
  <2> QED
    BY <1>2, <1>3, <1>4 DEF TaskMap, TaskRecord
<1> QED
  BY <1>1, <1>5, <1>6, <1>7, OneTaskKeeps

(* A task that waits ends where it is; one that runs is asked to.             *)
LEMMA CancelledRecord ==
    ASSUME NEW x \in TaskRecord, RecordOK(x), x.state \notin Terminal, NEW y,
           y = [x EXCEPT !.cancel_requested = TRUE, !.state = IF x.state = "queued" THEN "cancelled" ELSE x.state]
    PROVE  TaskGoes(x, y) /\ y # None /\ (y.state = "running" => x.state = "running")
<1>1. /\ y \in TaskRecord /\ y.owner = x.owner /\ y.runner = x.runner /\ y.claim = x.claim
      /\ y.state = (IF x.state = "queued" THEN "cancelled" ELSE x.state) /\ y.error = x.error
  BY DEF TaskRecord, Terminal
<1>2. RecordOK(y)
  BY <1>1 DEF RecordOK, Terminal
<1> QED
  BY <1>1, <1>2, RecordNotNone DEF TaskGoes

LEMMA CancelTaskKeeps == ASSUME TInv, NEW o \in Owner, NEW t \in Task, CancelTask(o, t) PROVE Keeps
<1> DEFINE T == Expired(tasks)
           x == [T[t] EXCEPT !.cancel_requested = TRUE,
                             !.state = IF T[t].state = "queued" THEN "cancelled" ELSE T[t].state]
<1>1. waiting' = Notified /\ UNCHANGED <<closing, retired, runners, operations, overdue, issued>> /\ T[t] # None
  BY DEF CancelTask
<1>2. T[t] \in TaskRecord /\ RecordOK(T[t]) /\ T \in TaskMap
  BY <1>1, RecordOfExpired, ExpiredFacts DEF AllGo
<1>3. CASE ~Live(T, t)
  <2>1. tasks' = T
    BY <1>3 DEF CancelTask
  <2> QED
    BY <1>1, <2>1, AllWoken, ExpiryKeeps
<1>4. CASE Live(T, t)
  <2>1. tasks' = [T EXCEPT ![t].cancel_requested = TRUE,
                           ![t].state = IF @ = "queued" THEN "cancelled" ELSE @]
    BY <1>4 DEF CancelTask
  <2>2. T[t].state \notin Terminal
    BY <1>4 DEF Live
  <2>3. TaskGoes(T[t], x) /\ x # None /\ (x.state = "running" => T[t].state = "running")
    <3> HIDE DEF T
    <3> QED
      BY <1>2, <2>2, CancelledRecord
  <2>4. tasks' = [T EXCEPT ![t] = x]
    <3> HIDE DEF T
    <3> QED
      BY <1>2, <2>1 DEF TaskMap, TaskRecord
  <2> HIDE DEF x
  <2> QED
    BY <1>1, <2>3, <2>4, OneTaskKeeps
<1> QED
  BY <1>3, <1>4

-----------------------------------------------------------------------------
(* Runners.                                                                   *)
LEMMA RegisterKeeps == ASSUME TInv, NEW o \in Owner, Register(o) PROVE Keeps
<1>1. PICK r \in Runner \ issued : runners' = [runners EXCEPT ![r] = o] /\ issued' = issued \cup {r}
  BY DEF Register
<1>2. /\ Admitted(o) /\ tasks' = Expired(tasks) /\ waiting' = Notified
      /\ UNCHANGED <<closing, retired, operations, overdue>>
  BY DEF Register
<1>3. AllGo(tasks, tasks')
  BY <1>2, ExpiredFacts
<1>4. WithinBound(tasks')
  BY <1>2, ExpiredRunning, FewerRun
<1>5. runners[r] = None
  BY <1>1, RunnersAdmitted
<1>6. runners' \in [Runner -> Owner \cup {None}]
  BY <1>1, RunnersAdmitted
<1>7. \A s \in Runner : runners'[s] = IF s = r THEN o ELSE runners[s]
  BY <1>1, RunnersAdmitted
<1>8. \A s \in Runner : runners'[s] # None => s \in issued' /\ Admitted(runners'[s])
  BY <1>1, <1>2, <1>7, RunnersAdmitted
<1>9. LiveHasRunner'
  <2> SUFFICES ASSUME NEW t \in Task, Live(tasks', t)
               PROVE  runners'[tasks'[t].runner] = tasks'[t].owner
    BY DEF LiveHasRunner
  <2>1. /\ Live(tasks, t) /\ tasks[t] \in TaskRecord
        /\ tasks'[t].runner = tasks[t].runner /\ tasks'[t].owner = tasks[t].owner
    BY <1>3 DEF Live, AllGo, TaskGoes, TInv, TasksTypeOK
  <2>2. runners[tasks[t].runner] = tasks[t].owner
    BY <2>1 DEF TInv, LiveHasRunner
  <2>3. tasks[t].owner # None /\ tasks[t].runner \in Runner
    BY <2>1, TaskNone DEF TaskRecord
  <2> QED
    BY <1>5, <1>7, <2>1, <2>2, <2>3
<1>10. Waits
  BY <1>2, AllWoken
<1>11. overdue' \subseteq Task /\ issued \subseteq issued' /\ issued' \subseteq Runner \cup Task \cup Claim
  BY <1>1, <1>2, TableTypes
<1> QED
  BY <1>2, <1>3, <1>4, <1>6, <1>8, <1>9, <1>10, <1>11, CallKeeps

LEMMA UnregisterKeeps == ASSUME TInv, NEW o \in Owner, NEW r \in Runner, Unregister(o, r) PROVE Keeps
<1> DEFINE T == Expired(tasks)
           D == TasksOf(T, o, r)
<1>1. /\ Admitted(o) /\ runners[r] = o /\ runners' = [runners EXCEPT ![r] = None] /\ waiting' = Notified
      /\ UNCHANGED <<closing, retired, operations, overdue, issued>>
      /\ tasks' = [t \in Task |-> IF t \in D THEN Ended(T[t], "runner_retired") ELSE T[t]]
  BY DEF Unregister
<1>2. D \subseteq Task
  BY DEF TasksOf, Of
<1>3. ASSUME NEW t \in D
      PROVE  /\ T[t] # None /\ tasks'[t] # None /\ TaskGoes(T[t], tasks'[t]) /\ tasks'[t].state \in Terminal
             /\ tasks'[t].state # "running"
  <2>1. t \in Task /\ T[t] # None /\ T[t].state \notin Terminal
    BY DEF TasksOf, Of, Live
  <2>2. T[t] \in TaskRecord /\ RecordOK(T[t])
    BY <2>1, RecordOfExpired
  <2>3. tasks'[t] = Ended(T[t], "runner_retired")
    BY <1>1, <2>1
  <2> HIDE DEF T, D
  <2>4. TaskGoes(T[t], tasks'[t]) /\ tasks'[t] # None /\ tasks'[t].state \in Terminal
    BY <2>1, <2>2, <2>3, EndedGoes
  <2> QED
    BY <2>1, <2>4 DEF Terminal
<1>4. \A t \in Task \ D : tasks'[t] = T[t]
  BY <1>1
<1>5. tasks' \in TaskMap
  <2>1. tasks' = [t \in Task |-> tasks'[t]]
    BY <1>1
  <2>2. T \in TaskMap
    BY ExpiredFacts DEF AllGo
  <2>3. \A t \in Task : tasks'[t] \in TaskRecord \cup {None}
    BY <1>3, <1>4, <2>2 DEF TaskMap, TaskGoes
  <2> QED
    BY <2>1, <2>3 DEF TaskMap
<1>6. AllGo(tasks, tasks') /\ WithinBound(tasks')
  BY <1>2, <1>3, <1>4, <1>5, EndingGoes
<1>7. /\ runners' \in [Runner -> Owner \cup {None}]
      /\ \A s \in Runner : runners'[s] = IF s = r THEN None ELSE runners[s]
  BY <1>1, RunnersAdmitted
<1>8. \A s \in Runner : runners'[s] # None => s \in issued' /\ Admitted(runners'[s])
  BY <1>1, <1>7, RunnersAdmitted DEF Admitted
<1>9. LiveHasRunner'
  <2> SUFFICES ASSUME NEW t \in Task, Live(tasks', t)
               PROVE  runners'[tasks'[t].runner] = tasks'[t].owner
    BY DEF LiveHasRunner
  <2>1. t \notin D /\ tasks'[t] = T[t] /\ Live(T, t)
    BY <1>3, <1>4 DEF Live
  <2>2. T[t] = tasks[t] /\ Live(tasks, t)
    BY <2>1, LiveAfterExpiry
  <2>3. runners[tasks[t].runner] = tasks[t].owner /\ tasks[t].runner \in Runner
    BY <2>2 DEF TInv, TasksTypeOK, LiveHasRunner, Live, TaskRecord
  <2>4. tasks[t].runner # r
    BY <1>1, <2>1, <2>2, <2>3 DEF TasksOf, Of, Live
  <2> QED
    BY <1>7, <2>1, <2>2, <2>3, <2>4
<1>10. Waits
  BY <1>1, AllWoken
<1> QED
  BY <1>1, <1>6, <1>7, <1>8, <1>9, <1>10, TableTypes, CallKeeps

-----------------------------------------------------------------------------
(* Everything of some owners is removed, and no more of theirs is admitted.   *)
LEMMA RemovedKeeps ==
    ASSUME TInv, NEW O, O \subseteq Owner, Removed(O), closing' \in BOOLEAN, retired' \subseteq Owner,
           \A p \in Owner : p \in retired' \/ closing' <=> p \in O \/ p \in retired \/ closing
    PROVE  Keeps
<1>1. \A t \in Task : tasks'[t] = IF tasks[t] # None /\ tasks[t].owner \in O THEN None ELSE tasks[t]
  BY DEF Removed
<1>2. \A r \in Runner : runners'[r] = IF runners[r] \in O THEN None ELSE runners[r]
  BY DEF Removed
<1>3. \A p \in Owner, k \in OperationKey : operations'[<<p, k>>] = IF p \in O THEN None ELSE operations[<<p, k>>]
  BY DEF Removed
<1>4. WithinBound(tasks')
  <2>1. \A p \in Owner : Running(tasks', p) \subseteq Running(tasks, p)
    BY <1>1 DEF Running, Of
  <2> QED
    BY <2>1, FewerRun
<1>5. Waits
  BY AllWoken DEF Removed
<1>6. TasksTypeOK'
  <2>1. tasks' \in [Task -> TaskRecord \cup {None}]
    BY DEF Removed, TInv, TasksTypeOK
  <2>2. runners' \in [Runner -> Owner \cup {None}]
    BY DEF Removed, TInv, TasksTypeOK
  <2>3. operations' \in [Owner \X OperationKey -> Operation \cup {None}]
    BY DEF Removed, TInv, TasksTypeOK
  <2>4. overdue' \subseteq Task /\ issued' \subseteq Runner \cup Task \cup Claim
    BY TableTypes DEF Removed
  <2> QED
    BY <1>4, <1>5, <2>1, <2>2, <2>3, <2>4 DEF TasksTypeOK, WithinBound, Waits
<1>7. TokensIssued'
  <2>1. Present(tasks') \subseteq Present(tasks)
    BY <1>1 DEF Present
  <2>2. IsFiniteSet(Present(tasks'))
    BY <2>1, FS_Subset DEF TInv, TokensIssued
  <2>3. issued' = issued
    BY DEF Removed
  <2>4. \A r \in Runner : runners'[r] # None => r \in issued'
    BY <1>2, <2>3 DEF TInv, TokensIssued
  <2> QED
    BY <2>1, <2>2, <2>3, <2>4 DEF TInv, TokensIssued
<1>8. \A t \in Present(tasks') : RecordOK(tasks'[t])
  BY <1>1 DEF TInv, Present
<1>9. LiveHasRunner'
  <2> SUFFICES ASSUME NEW t \in Task, Live(tasks', t)
               PROVE  runners'[tasks'[t].runner] = tasks'[t].owner
    BY DEF LiveHasRunner
  <2>1. tasks'[t] = tasks[t] /\ tasks[t].owner \notin O /\ Live(tasks, t)
    BY <1>1 DEF Live
  <2>2. runners[tasks[t].runner] = tasks[t].owner /\ tasks[t].runner \in Runner
    BY <2>1 DEF TInv, TasksTypeOK, LiveHasRunner, Live, TaskRecord
  <2> QED
    BY <1>2, <2>1, <2>2
<1>10. OperationIsOnce'
  <2>1. ASSUME NEW t \in Task, tasks'[t] # None
        PROVE  \E k \in OperationKey : /\ operations'[<<tasks'[t].owner, k>>] # None
                                       /\ operations'[<<tasks'[t].owner, k>>].task = t
    <3>1. tasks'[t] = tasks[t] /\ tasks[t].owner \notin O /\ tasks[t] # None
      BY <1>1, <2>1
    <3>2. tasks[t].owner \in Owner
      BY <3>1 DEF TInv, TasksTypeOK, TaskRecord
    <3>3. PICK k \in OperationKey : /\ operations[<<tasks[t].owner, k>>] # None
                                    /\ operations[<<tasks[t].owner, k>>].task = t
      BY <3>1 DEF TInv, OperationIsOnce
    <3> QED
      BY <1>3, <3>1, <3>2, <3>3
  <2>2. ASSUME NEW p \in Owner, NEW k \in OperationKey, operations'[<<p, k>>] # None
        PROVE  /\ tasks'[operations'[<<p, k>>].task] # None
               /\ tasks'[operations'[<<p, k>>].task].owner = p
    <3>1. p \notin O /\ operations'[<<p, k>>] = operations[<<p, k>>] /\ operations[<<p, k>>] # None
      BY <1>3, <2>2
    <3>2. operations[<<p, k>>].task \in Task
      BY <3>1 DEF TInv, TasksTypeOK, Operation
    <3>3. tasks[operations[<<p, k>>].task] # None /\ tasks[operations[<<p, k>>].task].owner = p
      BY <3>1 DEF TInv, OperationIsOnce
    <3> QED
      BY <1>1, <3>1, <3>2, <3>3
  <2> QED
    BY <2>1, <2>2 DEF OperationIsOnce
<1>11. NothingOfRetired'
  <2> SUFFICES ASSUME NEW p \in Owner, p \in retired' \/ closing'
               PROVE  /\ Of(tasks', p) = {}
                      /\ \A r \in Runner : runners'[r] # p
                      /\ \A k \in OperationKey : operations'[<<p, k>>] = None
    BY DEF NothingOfRetired
  <2>0. p # None
    BY TaskNone
  <2>1. CASE p \in O
    <3>1. Of(tasks', p) = {}
      BY <1>1, <2>1 DEF Of
    <3>2. \A r \in Runner : runners'[r] # p
      BY <1>2, <2>0, <2>1
    <3> QED
      BY <1>3, <2>1, <3>1, <3>2
  <2>2. CASE p \in retired \/ closing
    <3>1. /\ Of(tasks, p) = {} /\ \A r \in Runner : runners[r] # p
          /\ \A k \in OperationKey : operations[<<p, k>>] = None
      BY <2>2 DEF TInv, NothingOfRetired
    <3>2. Of(tasks', p) = {}
      BY <1>1, <3>1 DEF Of
    <3>3. \A r \in Runner : runners'[r] # p
      BY <1>2, <2>0, <3>1
    <3> QED
      BY <1>3, <3>1, <3>2, <3>3
  <2> QED
    BY <2>1, <2>2
<1>12. OutcomeStep
  <2> SUFFICES ASSUME NEW t \in Task, tasks[t] # None, ~closing', tasks[t].owner \notin retired'
               PROVE  tasks'[t] = tasks[t]
    BY DEF OutcomeStep
  <2>1. tasks[t].owner \in Owner
    BY DEF TInv, TasksTypeOK, TaskRecord
  <2> QED
    BY <1>1, <2>1
<1>13. HandedStep
  BY <1>1 DEF HandedStep
<1> QED
  BY <1>5, <1>6, <1>7, <1>8, <1>9, <1>10, <1>11, <1>12, <1>13 DEF Keeps, TInv, Waits

LEMMA RetireOwnerKeeps == ASSUME TInv, NEW o \in Owner, RetireOwner(o) PROVE Keeps
<1>1. closing' \in BOOLEAN /\ retired' \subseteq Owner /\ {o} \subseteq Owner
  BY DEF RetireOwner, TInv, TasksTypeOK
<1>2. \A p \in Owner : p \in retired' \/ closing' <=> p \in {o} \/ p \in retired \/ closing
  BY DEF RetireOwner
<1> QED
  BY <1>1, <1>2, RemovedKeeps DEF RetireOwner

LEMMA ShutDownKeeps == ASSUME TInv, ShutDown PROVE Keeps
<1>1. closing' \in BOOLEAN /\ retired' \subseteq Owner
  BY DEF ShutDown, TInv, TasksTypeOK
<1>2. \A p \in Owner : p \in retired' \/ closing' <=> p \in Owner \/ p \in retired \/ closing
  BY DEF ShutDown
<1> QED
  BY <1>1, <1>2, RemovedKeeps DEF ShutDown

-----------------------------------------------------------------------------
(* A new task takes a token nobody has and a key nobody has used.             *)
LEMMA StartKeeps ==
    ASSUME TInv, NEW o \in Owner, NEW r \in Runner, NEW k \in OperationKey, NEW input \in Input,
           Start(o, r, k, input)
    PROVE  Keeps
<1> DEFINE T == Expired(tasks)
           X(t) == [owner |-> o, runner |-> r, state |-> "queued", claim |-> None,
                    cancel_requested |-> FALSE, error |-> "none"]
           Y(t) == [runner |-> r, input |-> input, task |-> t]
<1>1. PICK t \in Task \ issued : /\ tasks' = [T EXCEPT ![t] = X(t)]
                                 /\ operations' = [operations EXCEPT ![<<o, k>>] = Y(t)]
                                 /\ issued' = issued \cup {t}
  BY DEF Start
<1>2. /\ Admitted(o) /\ operations[<<o, k>>] = None /\ runners[r] = o /\ waiting' = Notified
      /\ UNCHANGED <<closing, retired, runners, overdue>>
  BY DEF Start, NewOperation
<1>3. /\ X(t) \in TaskRecord /\ X(t).owner = o /\ X(t).runner = r /\ X(t).state = "queued" /\ RecordOK(X(t))
      /\ X(t) # None
  <2>1. X(t) \in TaskRecord /\ X(t).owner = o /\ X(t).runner = r /\ X(t).state = "queued" /\ X(t).claim = None
    BY DEF TaskRecord
  <2> HIDE DEF X
  <2>2. RecordOK(X(t))
    BY <2>1 DEF RecordOK, Terminal
  <2> QED
    BY <2>1, <2>2, RecordNotNone
<1>4. Y(t) \in Operation /\ Y(t).task = t /\ Y(t) # None
  BY <1>1, TaskNone DEF Operation
<1> HIDE DEF X, Y
<1>5. /\ AllGo(tasks, T) /\ \A u \in Present(T) : RecordOK(T[u])
      /\ T \in TaskMap
  BY ExpiredFacts DEF AllGo
<1>6. tasks[t] = None /\ T[t] = None
  BY <1>1, <1>5 DEF TInv, TokensIssued, Present, AllGo
<1>7. tasks' \in TaskMap /\ \A u \in Task : tasks'[u] = IF u = t THEN X(t) ELSE T[u]
  <2> HIDE DEF T
  <2> QED
    BY <1>1, <1>3, <1>5 DEF TaskMap
<1>8. \A u \in Task : tasks[u] # None => u # t /\ tasks'[u] = T[u] /\ T[u] # None /\ TaskGoes(tasks[u], T[u])
  BY <1>5, <1>6, <1>7 DEF AllGo
<1>9. \A u \in Task : tasks'[u] # None => u = t \/ (tasks[u] # None /\ u # t)
  BY <1>5, <1>7 DEF AllGo
<1>10. Waits
  BY <1>2, AllWoken
<1>11. WithinBound(tasks')
  <2>1. ASSUME NEW p \in Owner, NEW u \in Running(tasks', p) PROVE u \in Running(T, p)
    <3>1. u \in Task /\ tasks'[u] # None /\ tasks'[u].owner = p /\ tasks'[u].state = "running"
      BY DEF Running, Of
    <3>2. u # t
      BY <1>3, <1>7, <3>1
    <3>3. tasks'[u] = T[u]
      BY <1>7, <3>1, <3>2
    <3> QED
      BY <3>1, <3>3 DEF Running, Of
  <2>2. \A p \in Owner : Running(tasks', p) \subseteq Running(tasks, p)
    BY <2>1, ExpiredRunning
  <2> QED
    BY <2>2, FewerRun
<1>12. /\ operations' \in [Owner \X OperationKey -> Operation \cup {None}]
       /\ operations'[<<o, k>>] = Y(t)
       /\ \A p \in Owner, j \in OperationKey : ~(p = o /\ j = k) => operations'[<<p, j>>] = operations[<<p, j>>]
  <2>1. operations \in [Owner \X OperationKey -> Operation \cup {None}]
    BY DEF TInv, TasksTypeOK
  <2> QED
    BY <1>1, <1>4, <2>1
<1>13. TasksTypeOK'
  <2>1. issued' \subseteq Runner \cup Task \cup Claim
    BY <1>1, TableTypes
  <2>2. /\ closing' \in BOOLEAN /\ retired' \subseteq Owner /\ overdue' \subseteq Task
        /\ runners' \in [Runner -> Owner \cup {None}]
    BY <1>2 DEF TInv, TasksTypeOK
  <2> QED
    BY <1>7, <1>10, <1>11, <1>12, <2>1, <2>2 DEF TasksTypeOK, TaskMap, Waits, WithinBound
<1>14. TokensIssued'
  <2>1. Present(tasks') = Present(tasks) \cup {t}
    BY <1>3, <1>7, <1>8, <1>9 DEF Present
  <2>2. IsFiniteSet(Present(tasks'))
    BY <2>1, FS_AddElement DEF TInv, TokensIssued
  <2>3. \A u \in Present(tasks') : u \in issued'
    BY <1>1, <2>1 DEF TInv, TokensIssued
  <2>4. \A s \in Runner : runners'[s] # None => s \in issued'
    BY <1>1, <1>2 DEF TInv, TokensIssued
  <2> QED
    BY <2>2, <2>3, <2>4 DEF TokensIssued
<1>15. \A u \in Present(tasks') : RecordOK(tasks'[u])
  BY <1>3, <1>5, <1>7 DEF Present
<1>16. LiveHasRunner'
  <2> SUFFICES ASSUME NEW u \in Task, Live(tasks', u)
               PROVE  runners'[tasks'[u].runner] = tasks'[u].owner
    BY DEF LiveHasRunner
  <2>1. CASE u = t
    BY <1>2, <1>3, <1>7, <2>1
  <2>2. CASE u # t
    <3>1. tasks'[u] = T[u] /\ Live(T, u)
      BY <1>7, <2>2 DEF Live
    <3>2. T[u] = tasks[u] /\ Live(tasks, u)
      BY <3>1, LiveAfterExpiry
    <3> QED
      BY <1>2, <3>1, <3>2 DEF TInv, LiveHasRunner
  <2> QED
    BY <2>1, <2>2
<1>17. OperationIsOnce'
  <2>1. ASSUME NEW u \in Task, tasks'[u] # None
        PROVE  \E j \in OperationKey : /\ operations'[<<tasks'[u].owner, j>>] # None
                                       /\ operations'[<<tasks'[u].owner, j>>].task = u
    <3>1. CASE u = t
      BY <1>3, <1>4, <1>7, <1>12, <3>1
    <3>2. CASE u # t
      <4>1. tasks[u] # None /\ tasks'[u].owner = tasks[u].owner
        BY <1>8, <1>9, <2>1, <3>2 DEF TaskGoes
      <4>2. tasks[u].owner \in Owner
        BY <4>1 DEF TInv, TasksTypeOK, TaskRecord
      <4>3. PICK j \in OperationKey : /\ operations[<<tasks[u].owner, j>>] # None
                                      /\ operations[<<tasks[u].owner, j>>].task = u
        BY <4>1 DEF TInv, OperationIsOnce
      <4>4. ~(tasks[u].owner = o /\ j = k)
        BY <1>2, <4>3
      <4> QED
        BY <1>12, <4>1, <4>2, <4>3, <4>4
    <3> QED
      BY <3>1, <3>2
  <2>2. ASSUME NEW p \in Owner, NEW j \in OperationKey, operations'[<<p, j>>] # None
        PROVE  /\ tasks'[operations'[<<p, j>>].task] # None
               /\ tasks'[operations'[<<p, j>>].task].owner = p
    <3>1. CASE p = o /\ j = k
      BY <1>1, <1>3, <1>4, <1>7, <1>12, <3>1
    <3>2. CASE ~(p = o /\ j = k)
      <4>1. operations'[<<p, j>>] = operations[<<p, j>>] /\ operations[<<p, j>>] # None
        BY <1>12, <2>2, <3>2
      <4>2. operations[<<p, j>>].task \in Task
        BY <4>1 DEF TInv, TasksTypeOK, Operation
      <4>3. tasks[operations[<<p, j>>].task] # None /\ tasks[operations[<<p, j>>].task].owner = p
        BY <4>1 DEF TInv, OperationIsOnce
      <4> QED
        BY <1>8, <4>1, <4>2, <4>3 DEF TaskGoes
    <3> QED
      BY <3>1, <3>2
  <2> QED
    BY <2>1, <2>2 DEF OperationIsOnce
<1>18. NothingOfRetired'
  <2> SUFFICES ASSUME NEW p \in Owner, p \in retired' \/ closing'
               PROVE  /\ Of(tasks', p) = {}
                      /\ \A s \in Runner : runners'[s] # p
                      /\ \A j \in OperationKey : operations'[<<p, j>>] = None
    BY DEF NothingOfRetired
  <2>1. p # o
    BY <1>2 DEF Admitted
  <2>2. /\ Of(tasks, p) = {} /\ \A s \in Runner : runners[s] # p
        /\ \A j \in OperationKey : operations[<<p, j>>] = None
    BY <1>2 DEF TInv, NothingOfRetired
  <2>3. ASSUME NEW u \in Of(tasks', p) PROVE FALSE
    <3>1. u \in Task /\ tasks'[u] # None /\ tasks'[u].owner = p
      BY DEF Of
    <3>2. u # t
      BY <1>3, <1>7, <2>1, <3>1
    <3>3. tasks[u] # None /\ tasks[u].owner = p
      BY <1>8, <1>9, <3>1, <3>2 DEF TaskGoes
    <3> QED
      BY <2>2, <3>1, <3>3 DEF Of
  <2> QED
    BY <1>2, <1>12, <2>1, <2>2, <2>3
<1>19. OutcomeStep
  <2> SUFFICES ASSUME NEW u \in Task, tasks[u] # None, ~Live(tasks, u) PROVE tasks'[u] = tasks[u]
    BY DEF OutcomeStep
  <2> QED
    BY <1>8 DEF TaskGoes, Live
<1>20. HandedStep
  BY <1>8 DEF HandedStep, TaskGoes
<1> QED
  BY <1>10, <1>13, <1>14, <1>15, <1>16, <1>17, <1>18, <1>19, <1>20 DEF Keeps, TInv, Waits

-----------------------------------------------------------------------------
LEMMA InitTInv == TasksInit => TInv
<1> SUFFICES ASSUME TasksInit PROVE TInv
  OBVIOUS
<1>1. \A o \in Owner : Running(tasks, o) = {}
  BY DEF TasksInit, Running, Of
<1>2. \A o \in Owner : Cardinality(Running(tasks, o)) <= MAX_RUNNING
  BY <1>1, FS_EmptySet, TaskBounds
<1>3. TasksTypeOK
  BY <1>2 DEF TasksInit, TasksTypeOK
<1>4. Present(tasks) = {}
  BY DEF TasksInit, Present
<1>5. TokensIssued
  BY <1>4, FS_EmptySet DEF TasksInit, TokensIssued
<1>6. LiveHasRunner /\ OperationIsOnce /\ NothingOfRetired /\ NoLostWakeup
  BY DEF TasksInit, LiveHasRunner, OperationIsOnce, NothingOfRetired, NoLostWakeup, Live
<1> QED
  BY <1>3, <1>4, <1>5, <1>6 DEF TInv

LEMMA StutterKeeps == ASSUME TInv, UNCHANGED tvars PROVE Keeps
<1>1. /\ UNCHANGED <<closing, retired, runners, operations, overdue, issued, waiting>> /\ tasks' = tasks
  BY DEF tvars
<1>2. AllGo(tasks, tasks')
  BY <1>1 DEF TInv, TasksTypeOK, AllGo, TaskMap, TaskGoes, Present
<1>3. WithinBound(tasks')
  BY <1>1 DEF TInv, TasksTypeOK, WithinBound
<1>4. Waits
  BY <1>1 DEF TInv, TasksTypeOK, NoLostWakeup, Waits
<1> QED
  BY <1>1, <1>2, <1>3, <1>4, TableTypes, SameRunnersKeep

LEMMA NextKeeps == TInv /\ [TasksNext]_tvars => Keeps
<1> SUFFICES ASSUME TInv, [TasksNext]_tvars PROVE Keeps
  OBVIOUS
<1>1. ASSUME NEW o \in Owner, Register(o) \/ Reads(o) \/ Refused(o) \/ RetireOwner(o) PROVE Keeps
  BY <1>1, RegisterKeeps, ReadsKeeps, RefusedKeeps, RetireOwnerKeeps
<1>2. ASSUME NEW o \in Owner, NEW r \in Runner, NEW k \in OperationKey, NEW i \in Input, Start(o, r, k, i)
      PROVE  Keeps
  BY <1>2, StartKeeps
<1>3. ASSUME NEW o \in Owner, NEW r \in Runner, NEW n \in 1 .. MAX_RUNNING,
             ClaimTasks(o, r, n) \/ \E c \in Caller : WaitForTasks(c, o, r, n)
      PROVE  Keeps
  BY <1>3, ClaimTasksKeeps, WaitForTasksKeeps
<1>4. ASSUME NEW o \in Owner, NEW r \in Runner, Unregister(o, r) PROVE Keeps
  BY <1>4, UnregisterKeeps
<1>5. ASSUME NEW o \in Owner, NEW t \in Task, CancelTask(o, t) PROVE Keeps
  BY <1>5, CancelTaskKeeps
<1>6. ASSUME NEW o \in Owner, NEW t \in Task, NEW claim \in Claim \cap issued,
             NEW s \in Terminal \ {"interrupted"}, Finish(o, t, claim, s)
      PROVE  Keeps
  BY <1>6, FinishKeeps
<1>7. ASSUME NEW c \in Caller, Resume(c) PROVE Keeps
  BY <1>7, ResumeKeeps
<1>8. ASSUME NEW t \in Task, DeadlinePasses(t) PROVE Keeps
  BY <1>8, DeadlinePassesKeeps
<1>9. CASE ShutDown
  BY <1>9, ShutDownKeeps
<1>10. CASE UNCHANGED tvars
  BY <1>10, StutterKeeps
<1> QED
  BY <1>1, <1>2, <1>3, <1>4, <1>5, <1>6, <1>7, <1>8, <1>9, <1>10 DEF TasksNext

(* Whatever the plugins call, whenever deadlines pass and owners retire: the  *)
(* tables agree and a running set stays within its bound, an operation key is *)
(* one task, no claim sleeps beside work it could have, a task is handed out  *)
(* once and its outcome is final (tasks::invoke_for, expire, retire).         *)
THEOREM TasksAreSound == TasksSpec => TasksSound
<1>1. TInv => TasksConsistent /\ OperationIsOnce /\ NoLostWakeup
  BY DEF TInv, TasksConsistent, OutcomeIsKnown, RecordOK, Present
<1>2. TInv /\ [TasksNext]_tvars => TInv'
  BY NextKeeps DEF Keeps
<1>3. TInv /\ [TasksNext]_tvars => [OutcomeStep]_tvars /\ [HandedStep]_tvars
  BY NextKeeps DEF Keeps
<1>4. OutcomeIsFinal <=> [][OutcomeStep]_tvars
  BY DEF OutcomeIsFinal, OutcomeStep
<1>5. HandedOutOnce <=> [][HandedStep]_tvars
  BY DEF HandedOutOnce, HandedStep
<1> QED
  BY <1>1, <1>2, <1>3, <1>4, <1>5, InitTInv, PTL DEF TasksSpec, TasksSound

-----------------------------------------------------------------------------
(* The installer-owned packages.                                             *)

(* The types of a package directory, of the registration and of a plan, ...  *)
SeedTree == [Names -> Releases \cup {Nil, "torn", "author"}]
(* ... of the registration, ...                                              *)
SeedSeat == [path : {Nil, "target", "custom"}, grants : SUBSET Perms, on : BOOLEAN]
(* ... of a plan, which is the journal, ...                                  *)
SeedPlan == [package : Releases, previous_package : Releases \cup {Nil}, previous : SeedSeat, next : SeedSeat,
             previous_receipt : Releases \cup {Nil}, committed : BOOLEAN]

(* ... and of what a transaction changes as a whole.                         *)
SeedStates == SeedTree \X SeedSeat \X (Releases \cup {Nil})

(* The stations of the installation under its journal, ...                   *)
SeedInstalling == {"stage", "swap", "in", "register", "receipt", "commit"}
(* ... and those of its recovery.                                            *)
SeedRecovering == {"dropBackup", "dropTarget", "moveBack", "restore", "restoreReceipt", "dropReady", "settled"}

(* The types of all the state.                                               *)
SeedTypes ==
  /\ tree \in [{"target", "ready", "backup"} -> SeedTree]
  /\ seat \in SeedSeat /\ receipt \in Releases \cup {Nil}
  /\ setup \in [at : {"idle", "journal", "recover"} \cup SeedInstalling \cup SeedRecovering, plan : SeedPlan \cup {NoPlan}]
  /\ seedJournal \in SeedPlan \cup {NoPlan}
  /\ ghost \in [before : SeedStates, after : SeedStates, changed : BOOLEAN, authored : BOOLEAN,
                withheld : SUBSET Perms]
  /\ seedUsed \in [installs : Nat, kills : Nat, edits : Nat]

(* No permission the user took away is granted.                              *)
WithheldApart == seat.grants \cap ghost.withheld = {}

(* Which plan is under way at each station.                                  *)
TheirPlans ==
  /\ setup.at \in {"journal"} \cup SeedInstalling => setup.plan \in SeedPlan /\ ~setup.plan.committed
  /\ setup.at = "journal" => seedJournal = NoPlan
  /\ setup.at \in SeedInstalling => seedJournal = setup.plan
  /\ setup.at \in {"recover"} \cup SeedRecovering => seedJournal \in SeedPlan

(* The package directory a plan started from.                                *)
SeedBefore(j) == IF j.previous_package = Nil THEN Nowhere ELSE Payload(j.previous_package)

(* What a plan says of the state before and after it, and of permissions.    *)
PlanHolds(j) ==
  /\ ghost.before = <<SeedBefore(j), j.previous, j.previous_receipt>>
  /\ ghost.after = <<Payload(j.package), j.next, j.package>>
  /\ ~ghost.changed
  /\ (j.previous.grants \cup j.next.grants) \cap ghost.withheld = {}

(* The package is where it was, ...                                          *)
AsBefore(j) == tree.target = SeedBefore(j) /\ tree.backup = Nowhere
(* ... its registration and receipt are those of before.                     *)
Untouched(j) == seat = j.previous /\ receipt = j.previous_receipt
(* The new package is in place and the old one is the backup.                *)
Swapped(j) == tree.target = Payload(j.package) /\ tree.backup = SeedBefore(j)
(* There is no backup.                                                       *)
NoBackup == tree.backup = Nowhere

(* Whatever a transaction cut short before its commit leaves behind.         *)
SeedUncommitted(j) ==
  /\ ~j.committed /\ seat \in {j.previous, j.next} /\ receipt \in {j.previous_receipt, j.package}
  /\ IF tree.backup # Nowhere
       THEN j.previous_package # Nil /\ tree.backup = SeedBefore(j) /\ verify_remaining(tree.target, j.package)
       ELSE IF j.previous_package # Nil THEN tree.target = SeedBefore(j)
       ELSE verify_remaining(tree.target, j.package)

(* Whatever one cut short after its commit leaves behind.                    *)
SeedCommitted(j) ==
  /\ j.committed /\ seat = j.next /\ receipt = j.package /\ tree.target = Payload(j.package)
  /\ tree.backup = Nowhere \/ verify_remaining(tree.backup, j.previous_package)

(* The package, its registration and its receipt at each station of the      *)
(* process.                                                                  *)
SeedAt(j, at) ==
  /\ at \in {"journal", "stage", "swap"} => AsBefore(j) /\ Untouched(j)
  /\ at = "journal" => tree.ready = Nowhere
  /\ at = "in" => tree.target = Nowhere /\ tree.backup = SeedBefore(j) /\ Untouched(j) /\ tree.ready = Payload(j.package)
  /\ at \in {"register", "receipt", "commit"} => Swapped(j) /\ tree.ready = Nowhere
  /\ at = "register" => Untouched(j)
  /\ at = "receipt" => seat = j.next /\ receipt = j.previous_receipt
  /\ at = "commit" => seat = j.next /\ receipt = j.package
  /\ at \in {"recover", "idle"} => SeedUncommitted(j) \/ SeedCommitted(j)
  /\ at = "dropBackup" => SeedCommitted(j)
  /\ at = "dropTarget" => SeedUncommitted(j) /\ (tree.backup # Nowhere \/ j.previous_package = Nil)
  /\ at = "moveBack" => SeedUncommitted(j) /\ tree.target = Nowhere /\ tree.backup = SeedBefore(j)
  /\ at \in {"restore", "restoreReceipt"} => SeedUncommitted(j) /\ AsBefore(j)
  /\ at = "restoreReceipt" => seat = j.previous
  /\ at \in {"dropReady", "settled"} =>
       NoBackup /\ (SeedCommitted(j) \/ (SeedUncommitted(j) /\ AsBefore(j) /\ Untouched(j)))
  /\ at = "settled" => tree.ready = Nowhere

(* The plan under way, if there is one.                                      *)
SeedUnder(j) ==
  \/ seedJournal # NoPlan /\ j = seedJournal
  \/ setup.at = "journal" /\ j = setup.plan

(* While no author interferes, the transaction under way is where its        *)
(* station says.                                                             *)
SeedStations == ~ghost.authored => \A j \in SeedPlan : SeedUnder(j) => PlanHolds(j) /\ SeedAt(j, setup.at)

(* Without a transaction nothing is left behind, and the state is that of    *)
(* before or after the last one.                                             *)
SeedAtRest ==
  seedJournal = NoPlan /\ setup.at = "idle" =>
    /\ tree.ready = Nowhere /\ tree.backup = Nowhere
    /\ ~ghost.changed => SeedState \in {ghost.before, ghost.after}

(* What an author wrote is there, and no transaction gets past it.           *)
AuthorStays ==
  ghost.authored =>
    /\ setup.at \in {"idle", "recover"} /\ ghost.changed
    /\ \E d \in {"target", "backup"}, f \in Names : tree[d][f] = "author"

(* The inductive invariant of the installer-owned package.                   *)
SeedInv == SeedTypes /\ WithheldApart /\ TheirPlans /\ SeedStations /\ SeedAtRest /\ AuthorStays

(* What a released package holds: never what an author writes, never         *)
(* nothing.                                                                  *)
LEMMA SeedPayload ==
  /\ Nil \notin Releases /\ "author" \notin Releases \cup {Nil} /\ NoPlan \notin SeedPlan
  /\ \A v \in Releases \cup {Nil}, f \in Names : Payload(v)[f] \in Releases \cup {Nil}
  /\ \A v \in Releases : Payload(v) # Nowhere
  /\ \A v \in Releases \cup {Nil} : Payload(v) \in SeedTree
  /\ Nowhere \in SeedTree
  /\ \A t, v : (t = Nowhere \/ t = Payload(v)) => verify_remaining(t, v)
<1>1. Nil \notin Releases /\ "author" \notin Releases \cup {Nil}
  BY SeedConstants DEF Nil
<1>2. NoPlan \notin SeedPlan
  BY <1>1 DEF NoPlan, SeedPlan
<1>3. \A v \in Releases \cup {Nil}, f \in Names : Payload(v)[f] \in Releases \cup {Nil}
  BY DEF Payload
<1>4. \A v \in Releases : Payload(v) # Nowhere
  <2> SUFFICES ASSUME NEW v \in Releases PROVE Payload(v) # Nowhere
    OBVIOUS
  <2>1. Payload(v)["manifest"] = v /\ Nowhere["manifest"] = Nil
    BY DEF Payload, Nowhere, Names
  <2> QED
    BY <1>1, <2>1
<1>5. /\ \A v \in Releases \cup {Nil} : Payload(v) \in SeedTree
      /\ Nowhere \in SeedTree
  BY DEF Payload, SeedTree, Nowhere
<1>6. \A t, v : (t = Nowhere \/ t = Payload(v)) => verify_remaining(t, v)
  BY DEF verify_remaining, Nowhere, Payload
<1> QED
  BY <1>1, <1>2, <1>3, <1>4, <1>5, <1>6

(* A tree that was verified, whole or in part, has nothing of an author in   *)
(* it.                                                                       *)
LEMMA SeedCheckedHasNoAuthor ==
  ASSUME NEW t, NEW v \in Releases \cup {Nil}, t = Nowhere \/ verify(t, v) \/ verify_remaining(t, v),
         NEW f \in Names
  PROVE  t[f] # "author"
BY SeedPayload DEF verify, verify_remaining, Nowhere

(* A step of a transaction that nobody disturbed.                            *)
LEMMA SeedGoes ==
  ASSUME SeedInv, ~ghost.authored, NEW j \in SeedPlan, seedJournal' = j, ghost' = ghost, PlanHolds(j),
         NEW at \in {"recover", "idle"} \cup SeedInstalling \cup SeedRecovering, setup'.at = at,
         at \in SeedInstalling => setup'.plan = j /\ ~j.committed,
         SeedTypes', seat' \in {seat, j.previous, j.next}, SeedAt(j, at)'
  PROVE  SeedInv'
<1>1. WithheldApart'
  BY DEF SeedInv, WithheldApart, PlanHolds
<1>2. TheirPlans'
  BY DEF TheirPlans, SeedInstalling, SeedRecovering
<1>3. SeedStations'
  <2> SUFFICES ASSUME NEW k \in SeedPlan, SeedUnder(k)' PROVE PlanHolds(k)' /\ SeedAt(k, at)'
    BY DEF SeedStations
  <2>1. k = j
    BY DEF SeedUnder, SeedInstalling, SeedRecovering
  <2> QED
    BY <2>1 DEF PlanHolds
<1>4. SeedAtRest'
  BY SeedPayload DEF SeedAtRest
<1>5. AuthorStays'
  BY DEF AuthorStays
<1> QED
  BY <1>1, <1>2, <1>3, <1>4, <1>5 DEF SeedInv

(* What the invariant says of the transaction under way.                     *)
LEMMA SeedFacts ==
  ASSUME SeedInv, setup.at \in SeedInstalling \cup SeedRecovering
  PROVE  /\ seedJournal \in SeedPlan /\ ~ghost.authored /\ PlanHolds(seedJournal) /\ SeedAt(seedJournal, setup.at)
         /\ setup.at \in SeedInstalling => setup.plan = seedJournal /\ ~seedJournal.committed
<1>1. seedJournal \in SeedPlan /\ ~ghost.authored
  BY DEF SeedInv, TheirPlans, AuthorStays, SeedInstalling, SeedRecovering
<1>2. SeedUnder(seedJournal)
  BY <1>1, SeedPayload DEF SeedUnder
<1> QED
  BY <1>1, <1>2 DEF SeedInv, SeedStations, TheirPlans

(* Every station before the commit is one from which recovery can undo.      *)
LEMMA SeedAsBefore ==
  ASSUME NEW j \in SeedPlan, ~j.committed, AsBefore(j) \/ Swapped(j) \/ (tree.target = Nowhere /\ tree.backup = SeedBefore(j)),
         seat \in {j.previous, j.next}, receipt \in {j.previous_receipt, j.package}
  PROVE  SeedUncommitted(j)
<1>1. j.previous_package \in Releases \cup {Nil} /\ j.package \in Releases
  BY DEF SeedPlan
<1>2. verify_remaining(Nowhere, j.package) /\ verify_remaining(Payload(j.package), j.package)
  BY SeedPayload
<1>3. j.previous_package # Nil => SeedBefore(j) # Nowhere
  BY <1>1, SeedPayload DEF SeedBefore
<1>4. j.previous_package = Nil => SeedBefore(j) = Nowhere
  BY DEF SeedBefore
<1> QED
  BY <1>1, <1>2, <1>3, <1>4 DEF SeedUncommitted, AsBefore, Swapped

(* The steps of the installation up to the receipt.                          *)
LEMMA SeedInstalls ==
  ASSUME SeedInv, Stages \/ MovesOut \/ MovesIn \/ Registers \/ WritesReceipt
  PROVE  SeedInv'
<1>0. setup.at \in SeedInstalling
  BY DEF Stages, MovesOut, MovesIn, Registers, WritesReceipt, SeedInstalling
<1>1. PICK j : j = seedJournal
  OBVIOUS
<1>2. /\ j \in SeedPlan /\ ~ghost.authored /\ PlanHolds(j) /\ SeedAt(j, setup.at)
      /\ setup.plan = j /\ ~j.committed /\ seedJournal = j
  BY <1>0, <1>1, SeedFacts
<1>3. SeedTypes /\ setup \in [at : {"idle", "journal", "recover"} \cup SeedInstalling \cup SeedRecovering, plan : SeedPlan \cup {NoPlan}]
      /\ j.package \in Releases /\ j.next \in SeedSeat /\ tree \in [{"target", "ready", "backup"} -> SeedTree]
  BY <1>2 DEF SeedInv, SeedTypes, SeedPlan
<1>4. Payload(j.package) \in SeedTree /\ Nowhere \in SeedTree
  BY <1>3, SeedPayload
<1>5. CASE Stages
  <2>1. UNCHANGED <<seat, receipt, seedJournal, ghost, seedUsed>> /\ setup.at = "stage"
    BY <1>5 DEF Stages
  <2>2. CASE To("swap") /\ UNCHANGED tree
    <3>1. setup'.at = "swap" /\ setup'.plan = j /\ SeedTypes'
      BY <1>2, <1>3, <2>1, <2>2 DEF To, SeedTypes, SeedInstalling
    <3>2. SeedAt(j, "swap")'
      BY <1>2, <2>1, <2>2 DEF SeedAt, AsBefore, Untouched
    <3> QED
      BY <1>2, <2>1, <3>1, <3>2, SeedGoes DEF SeedInstalling
  <2>3. CASE (\E f \in Names, content \in {j.package, "torn"} : tree' = [tree EXCEPT !["ready"] = [@ EXCEPT ![f] = content]])
             /\ UNCHANGED setup
    <3>1. PICK f \in Names, content \in {j.package, "torn"} : tree' = [tree EXCEPT !["ready"] = [tree["ready"] EXCEPT ![f] = content]]
      BY <1>3, <2>3
    <3>2. [tree["ready"] EXCEPT ![f] = content] \in SeedTree
      BY <1>3 DEF SeedTree
    <3>3. /\ tree' \in [{"target", "ready", "backup"} -> SeedTree]
          /\ tree'["target"] = tree["target"] /\ tree'["backup"] = tree["backup"]
      BY <1>3, <3>1, <3>2
    <3>4. SeedTypes' /\ setup'.at = "stage" /\ setup'.plan = j
      BY <1>2, <1>3, <2>1, <2>3, <3>3 DEF SeedTypes
    <3>5. SeedAt(j, "stage")'
      BY <1>2, <2>1, <3>3 DEF SeedAt, AsBefore, Untouched
    <3> QED
      BY <1>2, <2>1, <3>4, <3>5, SeedGoes DEF SeedInstalling
  <2> QED
    BY <1>2, <1>5, <2>2, <2>3 DEF Stages, Plan
<1>6. CASE MovesOut
  <2>1. /\ UNCHANGED <<seat, receipt, seedJournal, ghost, seedUsed>> /\ setup.at = "swap"
        /\ setup' = [setup EXCEPT !.at = "in"] /\ tree.ready = Payload(j.package)
        /\ AsBefore(j) /\ Untouched(j)
    BY <1>2, <1>6 DEF MovesOut, To, Plan, verify, SeedAt
  <2>2. /\ tree' \in [{"target", "ready", "backup"} -> SeedTree]
        /\ tree'["target"] = Nowhere /\ tree'["ready"] = Payload(j.package) /\ tree'["backup"] = SeedBefore(j)
    BY <1>2, <1>3, <1>4, <1>6, <2>1 DEF MovesOut, Plan, AsBefore, SeedBefore
  <2>3. SeedTypes' /\ setup'.at = "in" /\ setup'.plan = j
    BY <1>2, <1>3, <2>1, <2>2 DEF SeedTypes, SeedInstalling
  <2>4. SeedAt(j, "in")'
    BY <2>1, <2>2 DEF SeedAt, Untouched
  <2> QED
    BY <1>2, <2>1, <2>3, <2>4, SeedGoes DEF SeedInstalling
<1>7. CASE MovesIn
  <2>1. /\ UNCHANGED <<seat, receipt, seedJournal, ghost, seedUsed>> /\ setup.at = "in"
        /\ setup' = [setup EXCEPT !.at = "register"] /\ tree.ready = Payload(j.package)
        /\ tree.backup = SeedBefore(j) /\ Untouched(j)
    BY <1>2, <1>7 DEF MovesIn, To, SeedAt
  <2>2. /\ tree' \in [{"target", "ready", "backup"} -> SeedTree]
        /\ tree'["target"] = Payload(j.package) /\ tree'["ready"] = Nowhere /\ tree'["backup"] = SeedBefore(j)
    BY <1>3, <1>4, <1>7, <2>1 DEF MovesIn
  <2>3. SeedTypes' /\ setup'.at = "register" /\ setup'.plan = j
    BY <1>2, <1>3, <2>1, <2>2 DEF SeedTypes, SeedInstalling
  <2>4. SeedAt(j, "register")'
    BY <2>1, <2>2 DEF SeedAt, Untouched, Swapped
  <2> QED
    BY <1>2, <2>1, <2>3, <2>4, SeedGoes DEF SeedInstalling
<1>8. CASE Registers
  <2>1. /\ UNCHANGED <<tree, receipt, seedJournal, ghost, seedUsed>> /\ setup.at = "register"
        /\ setup' = [setup EXCEPT !.at = "receipt"] /\ seat' = j.next
        /\ Swapped(j) /\ tree.ready = Nowhere /\ receipt = j.previous_receipt
    BY <1>2, <1>8 DEF Registers, To, SeedAt, Plan, Untouched
  <2>2. SeedTypes' /\ setup'.at = "receipt" /\ setup'.plan = j
    BY <1>2, <1>3, <2>1 DEF SeedTypes, SeedInstalling
  <2>3. SeedAt(j, "receipt")'
    BY <2>1 DEF SeedAt, Swapped
  <2> QED
    BY <1>2, <2>1, <2>2, <2>3, SeedGoes DEF SeedInstalling
<1>9. CASE WritesReceipt
  <2>1. /\ UNCHANGED <<tree, seat, seedJournal, ghost, seedUsed>> /\ setup.at = "receipt"
        /\ setup' = [setup EXCEPT !.at = "commit"] /\ receipt' = j.package
        /\ Swapped(j) /\ tree.ready = Nowhere /\ seat = j.next
    BY <1>2, <1>9 DEF WritesReceipt, To, SeedAt, Plan
  <2>2. SeedTypes' /\ setup'.at = "commit" /\ setup'.plan = j
    BY <1>2, <1>3, <2>1 DEF SeedTypes, SeedInstalling
  <2>3. SeedAt(j, "commit")'
    BY <2>1 DEF SeedAt, Swapped
  <2> QED
    BY <1>2, <2>1, <2>2, <2>3, SeedGoes DEF SeedInstalling
<1> QED
  BY <1>5, <1>6, <1>7, <1>8, <1>9

(* The journal is marked as committed.                                       *)
LEMMA SeedCommits ==
  ASSUME SeedInv, Commits
  PROVE  SeedInv'
<1>1. PICK j : j = seedJournal
  OBVIOUS
<1>2. /\ j \in SeedPlan /\ ~ghost.authored /\ PlanHolds(j) /\ SeedAt(j, "commit")
      /\ setup.plan = j /\ ~j.committed /\ seedJournal = j
  BY <1>1, SeedFacts DEF Commits, SeedInstalling
<1>3. PICK k : k = [j EXCEPT !.committed = TRUE]
  OBVIOUS
<1>4. /\ k \in SeedPlan /\ k.committed /\ k.package = j.package /\ k.previous = j.previous /\ k.next = j.next
      /\ k.previous_package = j.previous_package /\ k.previous_receipt = j.previous_receipt
  BY <1>2, <1>3 DEF SeedPlan
<1>5. /\ seedJournal' = k /\ setup' = [setup EXCEPT !.at = "recover"]
      /\ UNCHANGED <<tree, seat, receipt, ghost, seedUsed>>
  BY <1>2, <1>3 DEF Commits, To, Plan
<1>6. SeedTypes' /\ setup'.at = "recover"
  BY <1>4, <1>5 DEF SeedInv, SeedTypes
<1>7. PlanHolds(k)
  BY <1>2, <1>4 DEF PlanHolds, SeedBefore
<1>8. SeedAt(k, "recover")'
  <2>1. j.previous_package \in Releases \cup {Nil}
    BY <1>2 DEF SeedPlan
  <2>2. tree.backup = Nowhere \/ verify_remaining(tree.backup, k.previous_package)
    BY <1>2, <1>4, <2>1, SeedPayload DEF SeedAt, Swapped, SeedBefore
  <2>3. SeedCommitted(k)
    BY <1>2, <1>4, <2>2 DEF SeedCommitted, SeedAt, Swapped
  <2> QED
    BY <1>4, <1>5, <2>3 DEF SeedAt, SeedCommitted, verify_remaining
<1> QED
  BY <1>2, <1>4, <1>5, <1>6, <1>7, <1>8, SeedGoes DEF SeedInstalling, SeedRecovering

(* A step of the installation fails, and it recovers before it answers.      *)
LEMMA SeedFails ==
  ASSUME SeedInv, InstallFails
  PROVE  SeedInv'
<1>1. PICK j : j = seedJournal
  OBVIOUS
<1>2. /\ j \in SeedPlan /\ ~ghost.authored /\ PlanHolds(j) /\ SeedAt(j, setup.at)
      /\ ~j.committed /\ seedJournal = j /\ setup.at \in SeedInstalling
  BY <1>1, SeedFacts DEF InstallFails, SeedInstalling
<1>3. /\ setup' = [setup EXCEPT !.at = "recover"]
      /\ UNCHANGED <<tree, seat, receipt, seedJournal, ghost, seedUsed>>
  BY DEF InstallFails, To
<1>4. SeedTypes' /\ setup'.at = "recover"
  BY <1>3 DEF SeedInv, SeedTypes
<1>5. /\ AsBefore(j) \/ Swapped(j) \/ (tree.target = Nowhere /\ tree.backup = SeedBefore(j))
      /\ seat \in {j.previous, j.next} /\ receipt \in {j.previous_receipt, j.package}
  BY <1>2 DEF SeedAt, SeedInstalling, Untouched
<1>6. SeedUncommitted(j)
  BY <1>2, <1>5, SeedAsBefore
<1>7. SeedAt(j, "recover")'
  BY <1>3, <1>6 DEF SeedAt, SeedUncommitted, verify_remaining
<1> QED
  BY <1>2, <1>3, <1>4, <1>7, SeedGoes DEF SeedInstalling, SeedRecovering

(* What can be recovered has nothing of an author in it.                     *)
LEMMA SeedAcceptable ==
  ASSUME SeedInv, seedJournal \in SeedPlan, Acceptable
  PROVE  ~ghost.authored
<1>1. /\ seedJournal.package \in Releases \cup {Nil} /\ seedJournal.previous_package \in Releases \cup {Nil}
  BY DEF SeedPlan
<1>2. /\ \E v \in Releases \cup {Nil} : tree.target = Nowhere \/ verify(tree.target, v) \/ verify_remaining(tree.target, v)
      /\ \E v \in Releases \cup {Nil} : tree.backup = Nowhere \/ verify(tree.backup, v) \/ verify_remaining(tree.backup, v)
  BY <1>1 DEF Acceptable, BackupOurs
<1>3. \A f \in Names : tree.target[f] # "author" /\ tree.backup[f] # "author"
  BY <1>2, SeedCheckedHasNoAuthor
<1> QED
  BY <1>3 DEF SeedInv, AuthorStays

(* recover and recover_one: the journal is judged by what is on disk.        *)
LEMMA SeedRecovers ==
  ASSUME SeedInv, recover \/ recover_one
  PROVE  SeedInv'
<1>0. SeedTypes /\ setup \in [at : {"idle", "journal", "recover"} \cup SeedInstalling \cup SeedRecovering, plan : SeedPlan \cup {NoPlan}]
      /\ setup.at \in {"idle", "recover"} /\ seedJournal \in SeedPlan
  BY DEF recover, recover_one, SeedInv, SeedTypes, TheirPlans
<1>1. UNCHANGED <<tree, seat, receipt, seedJournal, ghost, seedUsed>>
  BY DEF recover, recover_one
<1>2. PICK j : j = seedJournal
  OBVIOUS
<1>3. j \in SeedPlan /\ j # NoPlan /\ seedJournal = j /\ seedJournal' = j
  BY <1>0, <1>1, <1>2, SeedPayload
<1>4. ~ghost.authored => PlanHolds(j) /\ (SeedUncommitted(j) \/ SeedCommitted(j))
  BY <1>0, <1>3 DEF SeedInv, SeedStations, SeedUnder, SeedAt
<1>5. ASSUME NEW at \in {"idle", "recover"} \cup SeedRecovering, setup'.at = at, SeedTypes',
             at \in {"idle", "recover"} \/ ~ghost.authored,
             ~ghost.authored => SeedAt(j, at)
      PROVE  SeedInv'
  <2>1. CASE ghost.authored
    <3>1. WithheldApart' /\ TheirPlans' /\ SeedStations' /\ SeedAtRest' /\ AuthorStays'
      BY <1>1, <1>3, <1>5, <2>1 DEF SeedInv, WithheldApart, TheirPlans, SeedStations, SeedAtRest, AuthorStays, SeedInstalling, SeedRecovering
    <3> QED
      BY <1>5, <3>1 DEF SeedInv
  <2>2. CASE ~ghost.authored
    <3>1. SeedAt(j, at)'
      BY <1>1, <1>5, <2>2 DEF SeedAt, SeedUncommitted, SeedCommitted, verify_remaining, AsBefore, Swapped, Untouched, NoBackup
    <3> QED
      BY <1>1, <1>3, <1>4, <1>5, <2>2, <3>1, SeedGoes DEF SeedInstalling, SeedRecovering
  <2> QED
    BY <2>1, <2>2
<1>6. CASE recover
  <2>1. setup'.at = "recover" /\ SeedTypes'
    BY <1>0, <1>1, <1>6 DEF recover, To, SeedTypes
  <2> QED
    BY <1>4, <1>5, <2>1 DEF SeedAt
<1>7. CASE recover_one
  <2>1. CASE ~Acceptable
    <3>1. setup'.at = "idle" /\ SeedTypes'
      BY <1>0, <1>1, <1>7, <2>1 DEF recover_one, NotRunning, SeedTypes
    <3> QED
      BY <1>4, <1>5, <3>1 DEF SeedAt
  <2>2. CASE Acceptable
    <3>1. ~ghost.authored
      BY <1>3, <2>2, SeedAcceptable
    <3>2. PICK at \in {"dropBackup", "dropTarget", "restore"} :
            /\ setup' = [setup EXCEPT !.at = at]
            /\ at = IF j.committed THEN "dropBackup"
                    ELSE IF tree.backup # Nowhere \/ j.previous_package = Nil THEN "dropTarget"
                    ELSE "restore"
      BY <1>2, <1>7, <2>2 DEF recover_one, To
    <3>3. setup'.at = at /\ SeedTypes'
      BY <1>0, <1>1, <3>2 DEF SeedTypes, SeedRecovering
    <3>4. SeedAt(j, at)
      BY <1>4, <3>1, <3>2 DEF SeedAt, SeedUncommitted, SeedCommitted, AsBefore, SeedBefore
    <3> QED
      BY <1>5, <3>1, <3>3, <3>4 DEF SeedRecovering
  <2> QED
    BY <2>1, <2>2
<1> QED
  BY <1>6, <1>7

(* remove_dir_all of the backup, the new package or the staged one, file by  *)
(* file.                                                                     *)
LEMMA SeedRemoves ==
  ASSUME SeedInv, \/ Removes("dropBackup", "backup", "dropReady") \/ Removes("dropTarget", "target", "moveBack")
                  \/ Removes("dropReady", "ready", "settled")
  PROVE  SeedInv'
<1>1. PICK at \in {"dropBackup", "dropTarget", "dropReady"}, which \in {"backup", "target", "ready"}, to \in {"dropReady", "moveBack", "settled"} :
        /\ Removes(at, which, to)
        /\ <<at, which, to>> \in {<<"dropBackup", "backup", "dropReady">>, <<"dropTarget", "target", "moveBack">>,
                                   <<"dropReady", "ready", "settled">>}
  OBVIOUS
<1>2. PICK j : j = seedJournal
  OBVIOUS
<1>3. /\ j \in SeedPlan /\ ~ghost.authored /\ PlanHolds(j) /\ SeedAt(j, at) /\ seedJournal = j /\ setup.at = at
      /\ SeedTypes
  BY <1>1, <1>2, SeedFacts DEF Removes, SeedRecovering, SeedInv
<1>4. UNCHANGED <<seat, receipt, seedJournal, ghost, seedUsed>>
  BY <1>1 DEF Removes
<1>5. tree \in [{"target", "ready", "backup"} -> SeedTree]
  BY <1>3 DEF SeedTypes
<1>6. ASSUME NEW f \in Names, tree[which][f] # Nil, tree' = [tree EXCEPT ![which] = [tree[which] EXCEPT ![f] = Nil]],
             UNCHANGED setup
      PROVE  SeedInv'
  <2>1. PICK t : t = [tree[which] EXCEPT ![f] = Nil]
    OBVIOUS
  <2>2. t \in SeedTree /\ t[f] = Nil /\ \A g \in Names : g # f => t[g] = tree[which][g]
    BY <1>5, <2>1 DEF SeedTree
  <2>3. \A v : verify_remaining(tree[which], v) => verify_remaining(t, v)
    BY <2>2 DEF verify_remaining
  <2>4. /\ tree' \in [{"target", "ready", "backup"} -> SeedTree] /\ tree'[which] = t
        /\ \A d \in {"target", "ready", "backup"} : d # which => tree'[d] = tree[d]
    BY <1>5, <1>6, <2>1, <2>2
  <2>5. SeedTypes' /\ setup'.at = at
    BY <1>3, <1>4, <1>6, <2>4 DEF SeedTypes
  <2>6. tree[which] # Nowhere
    BY <1>6 DEF Nowhere
  <2>7. SeedAt(j, at)'
    <3>1. CASE which = "backup"
      <4>1. SeedCommitted(j) /\ verify_remaining(tree.backup, j.previous_package)
        BY <1>1, <1>3, <2>6, <3>1 DEF SeedAt, SeedCommitted
      <4>2. SeedCommitted(j)'
        BY <1>4, <2>3, <2>4, <3>1, <4>1 DEF SeedCommitted
      <4> QED
        BY <1>1, <3>1, <4>2 DEF SeedAt
    <3>2. CASE which = "target"
      <4>1. SeedUncommitted(j) /\ (tree.backup # Nowhere \/ j.previous_package = Nil) /\ verify_remaining(tree.target, j.package)
        BY <1>1, <1>3, <3>2 DEF SeedAt, SeedUncommitted
      <4>2. SeedUncommitted(j)' /\ (tree.backup # Nowhere \/ j.previous_package = Nil)'
        BY <1>4, <2>3, <2>4, <3>2, <4>1 DEF SeedUncommitted
      <4> QED
        BY <1>1, <3>2, <4>2 DEF SeedAt
    <3>3. CASE which = "ready"
      <4>1. tree.target' = tree.target /\ tree.backup' = tree.backup
        BY <2>4, <3>3
      <4> QED
        BY <1>1, <1>3, <1>4, <3>3, <4>1 DEF SeedAt, NoBackup, SeedCommitted, SeedUncommitted, AsBefore, Untouched
    <3> QED
      BY <3>1, <3>2, <3>3
  <2> QED
    BY <1>3, <1>4, <2>5, <2>7, SeedGoes DEF SeedInstalling, SeedRecovering
<1>7. CASE tree[which] = Nowhere /\ To(to) /\ UNCHANGED tree
  <2>1. SeedTypes' /\ setup'.at = to
    BY <1>3, <1>4, <1>7 DEF SeedTypes, To, SeedRecovering
  <2>2. SeedAt(j, to)
    <3>1. j.previous_package \in Releases \cup {Nil}
      BY <1>3 DEF SeedPlan
    <3>2. tree.backup = Nowhere \/ tree.backup = SeedBefore(j) \/ SeedCommitted(j)
      BY <1>1, <1>3 DEF SeedAt, SeedUncommitted, NoBackup
    <3> QED
      BY <1>1, <1>3, <1>7, <3>1, <3>2, SeedPayload DEF SeedAt, NoBackup, SeedUncommitted, SeedBefore, SeedCommitted
  <2>3. SeedAt(j, to)'
    BY <1>4, <1>7, <2>2 DEF SeedAt, SeedUncommitted, SeedCommitted, verify_remaining, AsBefore, Swapped, Untouched, NoBackup
  <2> QED
    BY <1>3, <1>4, <2>1, <2>3, SeedGoes DEF SeedInstalling, SeedRecovering
<1> QED
  BY <1>1, <1>6, <1>7 DEF Removes

(* The old package, its registration and its receipt come back.              *)
LEMMA SeedRestores ==
  ASSUME SeedInv, RestoresPackage \/ RestoresRegistration \/ RestoresReceipt
  PROVE  SeedInv'
<1>1. PICK j : j = seedJournal
  OBVIOUS
<1>2. /\ j \in SeedPlan /\ ~ghost.authored /\ PlanHolds(j) /\ SeedAt(j, setup.at) /\ seedJournal = j /\ SeedTypes
      /\ j.previous \in SeedSeat /\ j.previous_receipt \in Releases \cup {Nil} /\ j.previous_package \in Releases \cup {Nil}
  BY <1>1, SeedFacts DEF RestoresPackage, RestoresRegistration, RestoresReceipt, SeedRecovering, SeedInv, SeedPlan
<1>3. CASE RestoresPackage
  <2>1. /\ UNCHANGED <<seat, receipt, seedJournal, ghost, seedUsed>> /\ setup' = [setup EXCEPT !.at = "restore"]
        /\ SeedUncommitted(j) /\ tree.target = Nowhere /\ tree.backup = SeedBefore(j)
    BY <1>2, <1>3 DEF RestoresPackage, To, SeedAt
  <2>2. /\ tree' \in [{"target", "ready", "backup"} -> SeedTree]
        /\ tree'["target"] = SeedBefore(j) /\ tree'["backup"] = Nowhere
    <3>1. tree \in [{"target", "ready", "backup"} -> SeedTree] /\ Nowhere \in SeedTree
      BY <1>2, SeedPayload DEF SeedTypes
    <3> QED
      BY <1>3, <2>1, <3>1 DEF RestoresPackage
  <2>3. SeedTypes' /\ setup'.at = "restore"
    BY <1>2, <2>1, <2>2 DEF SeedTypes, SeedRecovering
  <2>4. (SeedUncommitted(j) /\ AsBefore(j))'
    <3>1. j.previous_package = Nil => verify_remaining(SeedBefore(j), j.package)
      BY SeedPayload DEF SeedBefore
    <3> QED
      BY <2>1, <2>2, <3>1 DEF SeedUncommitted, AsBefore, SeedBefore
  <2>5. SeedAt(j, "restore")'
    BY <2>4 DEF SeedAt
  <2> QED
    BY <1>2, <2>1, <2>3, <2>5, SeedGoes DEF SeedInstalling, SeedRecovering
<1>4. CASE RestoresRegistration
  <2>1. /\ UNCHANGED <<tree, receipt, seedJournal, ghost, seedUsed>> /\ setup' = [setup EXCEPT !.at = "restoreReceipt"]
        /\ SeedUncommitted(j) /\ AsBefore(j) /\ seat' = j.previous
    BY <1>2, <1>4 DEF RestoresRegistration, To, SeedAt
  <2>2. SeedTypes' /\ setup'.at = "restoreReceipt"
    BY <1>2, <2>1 DEF SeedTypes, SeedRecovering
  <2>3. SeedAt(j, "restoreReceipt")'
    BY <2>1 DEF SeedAt, SeedUncommitted, AsBefore, verify_remaining
  <2> QED
    BY <1>2, <2>1, <2>2, <2>3, SeedGoes DEF SeedInstalling, SeedRecovering
<1>5. CASE RestoresReceipt
  <2>1. /\ UNCHANGED <<tree, seat, seedJournal, ghost, seedUsed>> /\ setup' = [setup EXCEPT !.at = "dropReady"]
        /\ SeedUncommitted(j) /\ AsBefore(j) /\ seat = j.previous /\ receipt' = j.previous_receipt
    BY <1>2, <1>5 DEF RestoresReceipt, To, SeedAt
  <2>2. SeedTypes' /\ setup'.at = "dropReady"
    BY <1>2, <2>1 DEF SeedTypes, SeedRecovering
  <2>3. SeedAt(j, "dropReady")'
    BY <2>1 DEF SeedAt, SeedUncommitted, AsBefore, verify_remaining, Untouched, NoBackup
  <2> QED
    BY <1>2, <2>1, <2>2, <2>3, SeedGoes DEF SeedInstalling, SeedRecovering
<1> QED
  BY <1>3, <1>4, <1>5

(* What the preview the command is given says of the disk.                   *)
LEMMA SeedSelection ==
  ASSUME SeedInv, NEW v \in Releases, Offline, Selectable(v)
  PROVE  LET j == Selection(v) IN
         /\ j \in SeedPlan /\ ~j.committed /\ j.package = v
         /\ tree.target = SeedBefore(j) /\ seat = j.previous /\ receipt = j.previous_receipt
         /\ j.next.grants = seat.grants \cup added_permissions(v) /\ ~ghost.authored
<1> DEFINE j == Selection(v)
<1>0. SeedTypes /\ PreviousPackage(v) \in Releases \cup {Nil} /\ added_permissions(v) \in SUBSET Perms
  BY DEF SeedInv, PreviousPackage, Proven, added_permissions, Perms
<1>1. j.next \in SeedSeat /\ j.next.grants = seat.grants \cup added_permissions(v)
  BY <1>0 DEF Selection, SeedTypes, SeedSeat
<1>2. j \in SeedPlan /\ ~j.committed /\ j.package = v /\ seat = j.previous /\ receipt = j.previous_receipt
      /\ j.previous_package = PreviousPackage(v)
  BY <1>0, <1>1 DEF Selection, SeedPlan, SeedTypes
<1>3. tree.target = SeedBefore(j)
  <2>1. CASE Proven(v) = {}
    BY <1>2, <2>1 DEF PreviousPackage, SeedBefore, Selectable
  <2>2. CASE Proven(v) # {}
    <3>1. PreviousPackage(v) \in Proven(v)
      BY <2>2 DEF PreviousPackage
    <3> QED
      BY <1>2, <3>1, SeedPayload DEF Proven, verify, SeedBefore
  <2> QED
    BY <2>1, <2>2
<1>4. ~ghost.authored
  <2>1. tree.backup = Nowhere
    BY DEF Offline, SeedInv, SeedAtRest
  <2>2. \A f \in Names : tree.target[f] # "author" /\ tree.backup[f] # "author"
    BY <1>0, <1>2, <1>3, <2>1, SeedCheckedHasNoAuthor DEF SeedBefore, verify
  <2> QED
    BY <2>2 DEF SeedInv, AuthorStays
<1> QED
  BY <1>1, <1>2, <1>3, <1>4

(* The command begins a transaction.                                         *)
LEMMA SeedBegins ==
  ASSUME SeedInv, NEW v \in Releases, command(v)
  PROVE  SeedInv'
<1>1. PICK j : j = Selection(v)
  OBVIOUS
<1>2. /\ j \in SeedPlan /\ ~j.committed /\ j.package = v /\ j # NoPlan
      /\ tree.target = SeedBefore(j) /\ seat = j.previous /\ receipt = j.previous_receipt
      /\ j.next.grants = seat.grants \cup added_permissions(v) /\ ~ghost.authored
  BY <1>1, SeedSelection, SeedPayload DEF command
<1>3. /\ setup' = [at |-> "journal", plan |-> j] /\ seedJournal = NoPlan /\ setup.at = "idle"
      /\ UNCHANGED <<tree, seat, receipt, seedJournal>>
      /\ seedUsed' = [seedUsed EXCEPT !.installs = @ + 1]
  BY <1>1 DEF command, Offline
<1>4. /\ tree \in [{"target", "ready", "backup"} -> SeedTree] /\ seat \in SeedSeat /\ receipt \in Releases \cup {Nil}
      /\ SeedTypes /\ j.next \in SeedSeat /\ Payload(v) \in SeedTree
  BY <1>2, SeedPayload DEF SeedInv, SeedTypes, SeedPlan
<1>5. PICK g : g = [ghost EXCEPT !.before = SeedState, !.changed = FALSE,
                            !.after = <<Payload(v), j.next, v>>,
                            !.withheld = ghost.withheld \ added_permissions(v)]
  OBVIOUS
<1>6. /\ g \in [before : SeedStates, after : SeedStates, changed : BOOLEAN, authored : BOOLEAN, withheld : SUBSET Perms]
      /\ g.before = <<tree.target, seat, receipt>> /\ g.after = <<Payload(v), j.next, v>> /\ ~g.changed /\ ~g.authored
      /\ g.withheld = ghost.withheld \ added_permissions(v) /\ ghost' = g
  <2>1. SeedState \in SeedStates /\ <<Payload(v), j.next, v>> \in SeedStates
    BY <1>4 DEF SeedState, SeedStates
  <2>2. /\ ghost \in [before : SeedStates, after : SeedStates, changed : BOOLEAN, authored : BOOLEAN, withheld : SUBSET Perms]
        /\ ghost' = g
    BY <1>1, <1>4, <1>5 DEF command, SeedTypes
  <2> QED
    BY <1>2, <1>5, <2>1, <2>2 DEF SeedState
<1>7. SeedTypes'
  BY <1>2, <1>3, <1>4, <1>6 DEF SeedTypes
<1>8. PlanHolds(j)'
  BY <1>2, <1>3, <1>6 DEF PlanHolds, SeedBefore, SeedInv, WithheldApart
<1>9. SeedAt(j, "journal")'
  BY <1>2, <1>3 DEF SeedAt, AsBefore, Untouched, SeedInv, SeedAtRest
<1>10. SeedStations'
  <2> SUFFICES ASSUME NEW k \in SeedPlan, SeedUnder(k)' PROVE PlanHolds(k)' /\ SeedAt(k, "journal")'
    BY <1>3 DEF SeedStations
  <2>1. k = j
    BY <1>3 DEF SeedUnder
  <2> QED
    BY <1>8, <1>9, <2>1
<1>11. WithheldApart'
  BY <1>3, <1>6 DEF SeedInv, WithheldApart
<1>12. TheirPlans' /\ SeedAtRest' /\ AuthorStays'
  BY <1>2, <1>3, <1>6 DEF TheirPlans, SeedAtRest, AuthorStays, SeedInstalling, SeedRecovering
<1> QED
  BY <1>7, <1>10, <1>11, <1>12 DEF SeedInv

(* The journal is written before anything else.                              *)
LEMMA SeedJournals ==
  ASSUME SeedInv, JournalsPlan
  PROVE  SeedInv'
<1>1. PICK j : j = setup.plan
  OBVIOUS
<1>2. /\ j \in SeedPlan /\ ~j.committed /\ j # NoPlan /\ ~ghost.authored /\ seedJournal = NoPlan
      /\ setup.at = "journal"
  BY <1>1, SeedPayload DEF JournalsPlan, SeedInv, TheirPlans, AuthorStays
<1>3. PlanHolds(j) /\ SeedAt(j, "journal")
  BY <1>1, <1>2 DEF SeedInv, SeedStations, SeedUnder
<1>4. /\ seedJournal' = j /\ setup' = [setup EXCEPT !.at = "stage"] /\ UNCHANGED <<tree, seat, receipt, ghost, seedUsed>>
  BY <1>1 DEF JournalsPlan, To, Plan
<1>5. SeedTypes' /\ setup'.at = "stage" /\ setup'.plan = j
  BY <1>1, <1>2, <1>4 DEF SeedInv, SeedTypes, SeedInstalling
<1>6. SeedAt(j, "stage")'
  BY <1>3, <1>4 DEF SeedAt, AsBefore, Untouched
<1> QED
  BY <1>2, <1>3, <1>4, <1>5, <1>6, SeedGoes DEF SeedInstalling

(* A transaction that is settled is forgotten.                               *)
LEMMA SeedForgets ==
  ASSUME SeedInv, ForgetsJournal
  PROVE  SeedInv'
<1>1. PICK j : j = seedJournal
  OBVIOUS
<1>2. /\ j \in SeedPlan /\ ~ghost.authored /\ PlanHolds(j) /\ SeedAt(j, "settled")
  BY <1>1, SeedFacts DEF ForgetsJournal, SeedRecovering
<1>3. /\ setup' = NotRunning /\ seedJournal' = NoPlan /\ UNCHANGED <<tree, seat, receipt, ghost, seedUsed>>
  BY DEF ForgetsJournal
<1>4. SeedTypes'
  BY <1>3 DEF SeedInv, SeedTypes, NotRunning
<1>5. SeedAtRest'
  <2>1. SeedState \in {ghost.before, ghost.after} /\ tree.ready = Nowhere /\ tree.backup = Nowhere
    BY <1>2 DEF SeedAt, PlanHolds, SeedState, SeedCommitted, AsBefore, Untouched, NoBackup
  <2> QED
    BY <1>3, <2>1 DEF SeedAtRest, SeedState
<1>6. WithheldApart' /\ TheirPlans' /\ SeedStations' /\ AuthorStays'
  BY <1>2, <1>3 DEF SeedInv, WithheldApart, TheirPlans, SeedStations, SeedUnder, AuthorStays, SeedInstalling, SeedRecovering, NotRunning
<1> QED
  BY <1>4, <1>5, <1>6 DEF SeedInv

(* Wherever a transaction was cut short, it can be undone or finished.       *)
LEMMA SeedCut ==
  ASSUME SeedInv, setup.at # "idle", setup' = NotRunning, UNCHANGED <<tree, seat, receipt, seedJournal, ghost>>,
         seedUsed' \in [installs : Nat, kills : Nat, edits : Nat]
  PROVE  SeedInv'
<1>1. SeedTypes' /\ setup'.at = "idle"
  BY DEF SeedInv, SeedTypes, NotRunning
<1>2. CASE setup.at = "journal"
  <2>1. PICK j : j = setup.plan
    OBVIOUS
  <2>2. /\ j \in SeedPlan /\ ~ghost.authored /\ seedJournal = NoPlan
    BY <1>2, <2>1 DEF SeedInv, TheirPlans, AuthorStays
  <2>3. PlanHolds(j) /\ SeedAt(j, "journal")
    BY <1>2, <2>1, <2>2 DEF SeedInv, SeedStations, SeedUnder
  <2>4. SeedAtRest'
    <3>1. SeedState = ghost.before /\ tree.ready = Nowhere /\ tree.backup = Nowhere
      BY <2>3 DEF SeedAt, PlanHolds, SeedState, AsBefore, Untouched
    <3> QED
      BY <3>1 DEF SeedAtRest, SeedState
  <2>5. WithheldApart' /\ TheirPlans' /\ SeedStations' /\ AuthorStays'
    BY <2>2 DEF SeedInv, WithheldApart, TheirPlans, SeedStations, SeedUnder, AuthorStays, SeedInstalling, SeedRecovering, NotRunning
  <2> QED
    BY <1>1, <2>4, <2>5 DEF SeedInv
<1>3. CASE setup.at = "recover"
  <2>1. seedJournal \in SeedPlan /\ seedJournal # NoPlan
    BY <1>3, SeedPayload DEF SeedInv, TheirPlans
  <2>2. WithheldApart' /\ TheirPlans' /\ SeedAtRest' /\ AuthorStays'
    BY <1>1, <1>3, <2>1 DEF SeedInv, WithheldApart, TheirPlans, SeedAtRest, AuthorStays, SeedInstalling, SeedRecovering
  <2>3. SeedStations'
    <3> SUFFICES ASSUME ~ghost.authored, NEW k \in SeedPlan, k = seedJournal PROVE PlanHolds(k)' /\ SeedAt(k, "idle")'
      BY <1>1, <2>1 DEF SeedStations, SeedUnder
    <3>1. PlanHolds(k) /\ SeedAt(k, "recover")
      BY <1>3, <2>1 DEF SeedInv, SeedStations, SeedUnder
    <3> QED
      BY <3>1 DEF PlanHolds, SeedAt, SeedUncommitted, SeedCommitted, verify_remaining
  <2> QED
    BY <1>1, <2>2, <2>3 DEF SeedInv
<1>4. CASE setup.at \in SeedInstalling \cup SeedRecovering
  <2>1. PICK j : j = seedJournal
    OBVIOUS
  <2>2. /\ j \in SeedPlan /\ ~ghost.authored /\ PlanHolds(j) /\ SeedAt(j, setup.at) /\ seedJournal = j /\ seedJournal' = j
        /\ setup.at \in SeedInstalling => ~j.committed
    BY <1>4, <2>1, SeedFacts
  <2>3. SeedUncommitted(j) \/ SeedCommitted(j)
    <3>1. CASE setup.at \in SeedInstalling
      <4>1. /\ AsBefore(j) \/ Swapped(j) \/ (tree.target = Nowhere /\ tree.backup = SeedBefore(j))
            /\ seat \in {j.previous, j.next} /\ receipt \in {j.previous_receipt, j.package}
        BY <2>2, <3>1 DEF SeedAt, SeedInstalling, Untouched
      <4> QED
        BY <2>2, <3>1, <4>1, SeedAsBefore
    <3>2. CASE setup.at \in SeedRecovering
      BY <2>2, <3>2 DEF SeedAt, SeedRecovering
    <3> QED
      BY <1>4, <3>1, <3>2
  <2>4. SeedAt(j, "idle")'
    BY <2>3 DEF SeedAt, SeedUncommitted, SeedCommitted, verify_remaining
  <2> QED
    BY <1>1, <2>2, <2>4, SeedGoes DEF SeedInstalling, SeedRecovering
<1> QED
  BY <1>2, <1>3, <1>4 DEF SeedInv, SeedTypes

(* An author edits the package while no process holds the lease.             *)
LEMMA SeedAuthor ==
  ASSUME SeedInv, AuthorEdits
  PROVE  SeedInv'
<1>1. PICK f \in {"code", "extra"} : tree' = [tree EXCEPT !["target"] = [tree["target"] EXCEPT ![f] = "author"]]
  BY DEF AuthorEdits, SeedInv, SeedTypes
<1>2. SeedTypes /\ tree \in [{"target", "ready", "backup"} -> SeedTree]
      /\ seedUsed' \in [installs : Nat, kills : Nat, edits : Nat]
  BY DEF SeedInv, SeedTypes, AuthorEdits, UserActs
<1>3. PICK t : t = [tree["target"] EXCEPT ![f] = "author"]
  OBVIOUS
<1>4. t \in SeedTree /\ t[f] = "author" /\ f \in Names
  BY <1>2, <1>3 DEF SeedTree, Names
<1>5. /\ tree' \in [{"target", "ready", "backup"} -> SeedTree] /\ tree'["target"] = t
      /\ tree'["ready"] = tree["ready"] /\ tree'["backup"] = tree["backup"]
  BY <1>1, <1>2, <1>3, <1>4
<1>6. /\ ghost' = [ghost EXCEPT !.changed = TRUE, !.authored = TRUE] /\ setup.at = "idle"
      /\ UNCHANGED <<seat, receipt, seedJournal, setup>>
  BY DEF AuthorEdits
<1>7. ghost'.changed /\ ghost'.authored /\ ghost'.withheld = ghost.withheld
      /\ ghost' \in [before : SeedStates, after : SeedStates, changed : BOOLEAN, authored : BOOLEAN, withheld : SUBSET Perms]
  BY <1>2, <1>6 DEF SeedTypes
<1>8. SeedTypes'
  BY <1>2, <1>5, <1>6, <1>7 DEF SeedTypes
<1>9. WithheldApart' /\ TheirPlans' /\ SeedStations' /\ SeedAtRest'
  BY <1>5, <1>6, <1>7 DEF SeedInv, WithheldApart, TheirPlans, SeedStations, SeedAtRest, SeedInstalling, SeedRecovering
<1>10. AuthorStays'
  BY <1>4, <1>5, <1>6, <1>7 DEF AuthorStays
<1> QED
  BY <1>8, <1>9, <1>10 DEF SeedInv

(* A user edits the registration while no transaction is open.               *)
LEMMA SeedUser ==
  ASSUME SeedInv, UserEdits
  PROVE  SeedInv'
<1>1. PICK to \in {[seat EXCEPT !.on = ~seat.on], [seat EXCEPT !.path = "custom"], Unseated}
               \cup {[seat EXCEPT !.grants = seat.grants \ {p}] : p \in seat.grants} :
       /\ seat' = to
       /\ ghost' = [ghost EXCEPT !.withheld = ghost.withheld \cup (seat.grants \ to.grants), !.changed = TRUE]
  BY DEF UserEdits
<1>2. SeedTypes /\ seat \in SeedSeat
  BY DEF SeedInv, SeedTypes
<1>3. to \in SeedSeat /\ to.grants \subseteq seat.grants
  <2>1. CASE to \in {[seat EXCEPT !.on = ~seat.on], [seat EXCEPT !.path = "custom"]}
    BY <1>2, <2>1 DEF SeedSeat
  <2>2. CASE to = Unseated
    BY <1>2, <2>2 DEF SeedSeat, Unseated
  <2>3. ASSUME NEW p \in seat.grants, to = [seat EXCEPT !.grants = seat.grants \ {p}]
        PROVE  to \in SeedSeat /\ to.grants \subseteq seat.grants
    BY <1>2, <2>3 DEF SeedSeat
  <2> QED
    BY <1>1, <2>1, <2>2, <2>3
<1>4. UNCHANGED <<tree, receipt, seedJournal, setup>> /\ seedJournal = NoPlan /\ setup.at = "idle"
      /\ seedUsed' \in [installs : Nat, kills : Nat, edits : Nat]
  BY <1>2 DEF UserEdits, Offline, UserActs, SeedTypes
<1>5. /\ ghost' \in [before : SeedStates, after : SeedStates, changed : BOOLEAN, authored : BOOLEAN, withheld : SUBSET Perms]
      /\ ghost'.changed /\ ghost'.authored = ghost.authored /\ ghost'.withheld = ghost.withheld \cup (seat.grants \ to.grants)
  BY <1>1, <1>2, <1>3 DEF SeedTypes, SeedSeat
<1>6. SeedTypes'
  BY <1>1, <1>2, <1>3, <1>4, <1>5 DEF SeedTypes
<1>7. WithheldApart'
  BY <1>1, <1>3, <1>5 DEF SeedInv, WithheldApart
<1>8. TheirPlans' /\ SeedStations' /\ SeedAtRest' /\ AuthorStays'
  BY <1>4, <1>5 DEF SeedInv, TheirPlans, SeedStations, SeedUnder, SeedAtRest, AuthorStays, SeedInstalling, SeedRecovering
<1> QED
  BY <1>6, <1>7, <1>8 DEF SeedInv

(* A step that changes only what the user has seen.                          *)
LEMMA SeedQuiet ==
  ASSUME SeedInv, UNCHANGED <<tree, seat, receipt, seedJournal, setup, ghost, seedUsed>>
  PROVE  SeedInv'
<1>1. SeedTypes' /\ WithheldApart' /\ TheirPlans' /\ SeedAtRest' /\ AuthorStays'
  BY DEF SeedInv, SeedTypes, WithheldApart, TheirPlans, SeedAtRest, AuthorStays, SeedState
<1>2. SeedStations'
  <2> SUFFICES ASSUME ~ghost.authored, NEW k \in SeedPlan, SeedUnder(k) PROVE PlanHolds(k)' /\ SeedAt(k, setup.at)'
    BY DEF SeedStations, SeedUnder
  <2>1. PlanHolds(k) /\ SeedAt(k, setup.at)
    BY DEF SeedInv, SeedStations
  <2> QED
    BY <2>1 DEF PlanHolds, SeedAt, SeedUncommitted, SeedCommitted, verify_remaining, AsBefore, Swapped, Untouched, NoBackup
<1> QED
  BY <1>1, <1>2 DEF SeedInv

(* Every step keeps the invariant.                                           *)
LEMMA SeedStep == SeedInv /\ [SeedNext]_seedVars => SeedInv'
<1> SUFFICES ASSUME SeedInv, [SeedNext]_seedVars PROVE SeedInv'
  OBVIOUS
<1>1. CASE \E v \in Releases : ShowsPreview(v) \/ UNCHANGED seedVars
  BY <1>1, SeedQuiet DEF ShowsPreview, seedVars
<1>2. CASE \E v \in Releases : command(v)
  BY <1>2, SeedBegins
<1>3. CASE RecoveryFails \/ Killed
  <2>1. /\ setup.at # "idle" /\ setup' = NotRunning /\ UNCHANGED <<tree, seat, receipt, seedJournal, ghost>>
        /\ seedUsed' \in [installs : Nat, kills : Nat, edits : Nat]
    BY <1>3 DEF RecoveryFails, Killed, SeedInv, SeedTypes
  <2> QED
    BY <2>1, SeedCut
<1>4. CASE UNCHANGED seedVars
  BY <1>4, SeedQuiet DEF seedVars
<1> QED
  BY <1>1, <1>2, <1>3, <1>4, SeedJournals, SeedInstalls, SeedCommits, SeedFails, SeedRecovers, SeedRemoves,
     SeedRestores, SeedForgets, SeedAuthor, SeedUser DEF SeedNext

(* A distribution installed before, or none, satisfies the invariant.        *)
LEMMA SeedStart == SeedInit => SeedInv
<1> SUFFICES ASSUME SeedInit PROVE SeedInv
  OBVIOUS
<1>1. PICK v \in Releases \cup {Nil}, known \in BOOLEAN :
       /\ tree = [d \in {"target", "ready", "backup"} |-> IF d = "target" /\ v # Nil THEN Payload(v) ELSE Nowhere]
       /\ seat = IF v = Nil THEN Unseated
                 ELSE [path |-> "target", grants |-> PermissionsOf[v], on |-> TRUE]
       /\ receipt = IF known THEN v ELSE Nil
  BY DEF SeedInit
<1>2. tree \in [{"target", "ready", "backup"} -> SeedTree] /\ receipt \in Releases \cup {Nil} /\ seat \in SeedSeat
  BY <1>1, SeedPayload DEF SeedSeat, Unseated, Perms
<1>3. SeedState \in SeedStates
  BY <1>2 DEF SeedState, SeedStates
<1>4. SeedTypes
  BY <1>2, <1>3 DEF SeedInit, SeedTypes, NotRunning, NoPlan
<1>5. WithheldApart /\ TheirPlans /\ SeedAtRest /\ AuthorStays
  BY <1>1 DEF SeedInit, WithheldApart, TheirPlans, SeedAtRest, AuthorStays, NotRunning, SeedInstalling, SeedRecovering
<1>6. SeedStations
  BY DEF SeedInit, SeedStations, SeedUnder, NotRunning
<1> QED
  BY <1>4, <1>5, <1>6 DEF SeedInv

(* The invariant contains what the run checks.                               *)
LEMMA SeedImplies == SeedInv => SeedSound
<1> SUFFICES ASSUME SeedInv PROVE SeedSound
  OBVIOUS
<1>1. SeedTypeOK
  BY DEF SeedInv, SeedTypes, SeedTypeOK, SeedTree, SeedSeat
<1>2. AllOrNothing /\ NothingLeftBehind /\ AuthorsKeepTheirFiles /\ WithheldStays
  BY DEF SeedInv, SeedAtRest, AuthorStays, WithheldApart, AllOrNothing, NothingLeftBehind, AuthorsKeepTheirFiles, WithheldStays
<1>3. RecoveryGoesThrough
  <2> SUFFICES ASSUME seedJournal # NoPlan, setup.at \in {"idle", "recover"}, ~ghost.changed PROVE Acceptable
    BY DEF RecoveryGoesThrough
  <2>1. PICK j : j = seedJournal
    OBVIOUS
  <2>2. j \in SeedPlan /\ ~ghost.authored /\ SeedUnder(j) /\ j.previous_package \in Releases \cup {Nil}
    BY <2>1 DEF SeedInv, SeedTypes, AuthorStays, SeedUnder, SeedPlan
  <2>3. SeedUncommitted(j) \/ SeedCommitted(j)
    BY <2>2 DEF SeedInv, SeedStations, SeedAt
  <2> QED
    BY <2>1, <2>2, <2>3 DEF SeedUncommitted, SeedCommitted, Acceptable, BackupOurs, verify, SeedBefore
<1> QED
  BY <1>1, <1>2, <1>3 DEF SeedSound

(* For any releases and any number of installations, deaths and edits: an    *)
(* installation is all or nothing wherever the process dies, also within its *)
(* recovery; the recovery always goes through; what an author wrote and what *)
(* a user withheld stay (plugin_cli/official_seed.rs).                       *)
THEOREM SeedIsSound == SeedSpec => []SeedSound
  BY SeedStart, SeedStep, SeedImplies, PTL DEF SeedSpec

-----------------------------------------------------------------------------
(* The update of the client.                                                 *)

(* The types of the client, ...                                              *)
OffClientRec == [alive : BOOLEAN, phase : {"idle", "ready", "installing"}, package : {"old", "new"}, native : 0..MaxNative]

(* ... of the combined status, ...                                           *)
OffStatus == [phase : Busy \cup {"idle", "failed"}, available : BOOLEAN, preserved : BOOLEAN,
              seen : {"idle", "ready", "installing"}, candidate : 0..2, count : 0..MaxCombined]

(* ... of the bookkeeping of a request, ...                                  *)
OffIntent == [pending : BOOLEAN, settled : Nat, sure : {0, 1}]

(* ... of the update owner, ...                                              *)
OffOwnerRec == [at : {"bridge", "probe", "combined", "waiting", "gone"}, request : 0..MaxCombined,
                handoff : {"none", "running", "ok", "failed"}, sent : BOOLEAN, intent : OffIntent,
                exit : {"none", "restart", "combined", "ordinary"}]

(* ... and of the Core update it looks at.                                   *)
OffCore == [phase : {"available", "downloading", "downloaded", "queued", "requested", "installing"},
            candidate : 1..2, error : BOOLEAN]

(* The types of all the state.                                               *)
OffTypes ==
  /\ client \in OffClientRec
  /\ bridge \in [up : BOOLEAN, event : BOOLEAN]
  /\ combined \in OffStatus
  /\ coreUpdate \in OffCore
  /\ owner \in OffOwnerRec
  /\ helper \in [Requests -> {"none", "starting", "armed", "refused", "released"}]
  /\ gateFile \in [Requests -> {"none", "ready", "refused"}]
  /\ installCalls \in [Requests -> {0, 1}]

(* The owner of the update is between two requests, or in the one the status *)
(* names.                                                                    *)
OffOwner ==
  /\ owner.request # 0 => combined.phase \in Busy /\ owner.request = combined.count
  /\ owner.handoff # "none" /\ owner.at # "gone" => owner.request # 0
  /\ combined.phase \in Busy => combined.count # 0

(* The installer of the client runs for the request that called it, or for   *)
(* its own updater.                                                          *)
OffClient ==
  /\ client.package = "new" \/ owner.at \in {"waiting", "gone"} => ~client.alive
  /\ \A r \in Requests : helper[r] = "released" \/ gateFile[r] = "ready" => client.package = "new"
  /\ owner.exit \in {"restart", "combined"} => client.package = "new"

(* A request that was not made: no helper, no file, no call.                 *)
Unused(r) ==
  r > combined.count \/ (r = combined.count /\ combined.phase \in Busy /\ owner.request = 0 /\ owner.at # "gone")

(* The helper of each request, its gate file and its call, against where the *)
(* owner is.                                                                 *)
OffHelpers ==
  \A r \in Requests :
    /\ Unused(r) => helper[r] = "none" /\ gateFile[r] = "none" /\ installCalls[r] = 0
    /\ installCalls[r] = 1 => helper[r] \notin {"none", "starting"}
    /\ owner.request = r => /\ helper[r] # "none" /\ (owner.handoff = "running" <=> helper[r] = "starting")
                            /\ owner.handoff # "none" => installCalls[r] = 0
    /\ helper[r] \in {"starting", "armed"} /\ gateFile[r] = "none" /\ owner.at # "gone" => owner.request = r

(* The inductive invariant of the update of the client.                      *)
OffInv == OffTypes /\ OffOwner /\ OffClient /\ OffHelpers

(* Members of the intervals that the records range over.                     *)
LEMMA OffBounds == /\ 0 \in 0..MaxCombined /\ 0 \in 0..MaxNative /\ 0 \in 0..2 /\ 1 \in 1..2 /\ 2 \in 1..2
                   /\ \A n \in 0..MaxCombined : n \in Nat
                   /\ \A n \in 0..MaxCombined : n < MaxCombined => n + 1 \in 0..MaxCombined
                   /\ \A n \in 0..MaxNative : n < MaxNative => n + 1 \in 0..MaxNative
  BY OffConstants

(* A step that leaves the owner, the helpers and the calls alone.            *)
LEMMA OffKeeps ==
  ASSUME OffInv, OffTypes', OffClient',
         UNCHANGED <<helper, gateFile, installCalls>>,
         owner'.request = owner.request, owner'.handoff = owner.handoff, owner.at = "gone" => owner'.at = "gone",
         combined'.count = combined.count, combined'.phase \in Busy <=> combined.phase \in Busy
  PROVE  OffInv'
<1>1. OffOwner'
  BY DEF OffInv, OffOwner
<1>2. OffHelpers'
  BY DEF OffInv, OffHelpers, Unused
<1> QED
  BY <1>1, <1>2 DEF OffInv

(* The owner gives up: the status fails and the waiting helper is let go.    *)
LEMMA OffAborts ==
  ASSUME OffInv, NEW own \in OffOwnerRec, NEW com \in OffStatus, Aborted(own, com),
         own.request = owner.request, owner.at = "gone" => own.at = "gone", com.count = combined.count,
         own.exit \in {owner.exit, "ordinary"}, own.at \in {"waiting", "gone"} => ~client.alive,
         UNCHANGED <<client, helper, installCalls>>,
         bridge' \in [up : BOOLEAN, event : BOOLEAN], coreUpdate' = coreUpdate
  PROVE  OffInv'
<1>0. owner' = [own EXCEPT !.request = 0, !.handoff = "none", !.sent = FALSE]
      /\ combined' = [com EXCEPT !.phase = "failed", !.candidate = 0]
  BY DEF Aborted
<1>1. /\ owner' \in OffOwnerRec /\ owner'.request = 0 /\ owner'.handoff = "none" /\ owner'.at = own.at
      /\ owner'.exit = own.exit
  BY <1>0, OffBounds DEF OffOwnerRec
<1>2. /\ combined' \in OffStatus /\ combined'.phase = "failed" /\ combined'.count = combined.count
  BY <1>0, OffBounds DEF OffStatus
<1>3. /\ gateFile' \in [Requests -> {"none", "ready", "refused"}]
      /\ \A r \in Requests : gateFile'[r] = IF r = owner.request THEN "refused" ELSE gateFile[r]
  <2>1. gateFile \in [Requests -> {"none", "ready", "refused"}]
    BY DEF OffInv, OffTypes
  <2>2. CASE own.request = 0
    BY <2>1, <2>2 DEF Aborted, Requests
  <2>3. CASE own.request # 0
    BY <2>1, <2>3 DEF Aborted, gate
  <2> QED
    BY <2>2, <2>3
<1>4. OffTypes'
  BY <1>1, <1>2, <1>3 DEF OffInv, OffTypes
<1>5. OffOwner'
  BY <1>1, <1>2 DEF OffOwner, Busy
<1>6. OffClient'
  BY <1>1, <1>3 DEF OffInv, OffClient
<1>7. OffHelpers'
  <2> SUFFICES ASSUME NEW r \in Requests
               PROVE  /\ Unused(r)' => helper[r] = "none" /\ gateFile'[r] = "none" /\ installCalls[r] = 0
                      /\ installCalls[r] = 1 => helper[r] \notin {"none", "starting"}
                      /\ ~(helper[r] \in {"starting", "armed"} /\ gateFile'[r] = "none" /\ owner'.at # "gone")
    BY <1>1 DEF OffHelpers, Requests
  <2>1. Unused(r)' => r > combined.count
    BY <1>2 DEF Unused, Busy
  <2>2. owner.request # 0 => owner.request = combined.count
    BY DEF OffInv, OffOwner
  <2>3. r \in Nat /\ combined.count \in Nat
    BY OffConstants DEF Requests, OffInv, OffTypes, OffStatus
  <2> QED
    BY <1>1, <1>3, <2>1, <2>2, <2>3 DEF OffInv, OffHelpers, Unused, Requests
<1> QED
  BY <1>4, <1>5, <1>6, <1>7 DEF OffInv

(* What the client and its own updater do, and the bridge coming up.         *)
LEMMA OffEnvironment ==
  ASSUME OffInv,
         \/ ClientFindsUpdate \/ UserInstalls \/ InstallerRegisters \/ InstallerReturns \/ ClientCloses \/ WindowsRegisters
         \/ CoreUpdateWorks
  PROVE  OffInv'
<1>0. client \in OffClientRec /\ coreUpdate \in OffCore /\ (client.package = "new" => ~client.alive)
  BY DEF OffInv, OffTypes, OffClient
<1>1. /\ UNCHANGED <<combined, owner, helper, gateFile, installCalls>>
      /\ client' \in OffClientRec /\ (client'.package = "new" \/ ~client.alive => ~client'.alive)
      /\ client.package = "new" => client'.package = "new"
  <2>1. CASE UserInstalls
    BY <1>0, <2>1, OffBounds DEF UserInstalls, OffClientRec
  <2>2. CASE ClientFindsUpdate \/ ClientCloses \/ WindowsRegisters
    BY <1>0, <2>2 DEF ClientFindsUpdate, ClientCloses, WindowsRegisters, OffClientRec
  <2>3. CASE InstallerReturns
    BY <1>0, <2>3 DEF InstallerReturns, OffClientRec
  <2>4. CASE InstallerRegisters \/ CoreUpdateWorks
    BY <1>0, <2>4 DEF InstallerRegisters, CoreUpdateWorks
  <2> QED
    BY <2>1, <2>2, <2>3, <2>4
<1>2. bridge' \in [up : BOOLEAN, event : BOOLEAN]
  BY DEF OffInv, OffTypes, ClientFindsUpdate, UserInstalls, InstallerRegisters, InstallerReturns, ClientCloses,
     WindowsRegisters, CoreUpdateWorks
<1>3. coreUpdate' \in OffCore
  <2>1. CASE CoreUpdateWorks
    <3>1. ASSUME NEW phase \in {"downloaded", "requested"}, coreUpdate' = [coreUpdate EXCEPT !.phase = phase]
          PROVE  coreUpdate' \in OffCore
      BY <1>0, <3>1 DEF OffCore
    <3>2. CASE coreUpdate' = [coreUpdate EXCEPT !.phase = "available", !.error = TRUE]
      BY <1>0, <3>2 DEF OffCore
    <3>3. CASE coreUpdate' = [coreUpdate EXCEPT !.phase = "available", !.candidate = 2]
      BY <1>0, <3>3, OffBounds DEF OffCore
    <3> QED
      BY <2>1, <3>1, <3>2, <3>3 DEF CoreUpdateWorks
  <2>2. CASE ~CoreUpdateWorks
    BY <1>0, <2>2 DEF ClientFindsUpdate, UserInstalls, InstallerRegisters, InstallerReturns, ClientCloses, WindowsRegisters
  <2> QED
    BY <2>1, <2>2
<1>4. OffTypes' /\ OffClient'
  BY <1>1, <1>2, <1>3 DEF OffInv, OffTypes, OffClient
<1> QED
  BY <1>1, <1>4, OffKeeps

(* A combined update is requested.                                           *)
LEMMA OffRequests ==
  ASSUME OffInv, request_combined
  PROVE  OffInv'
<1>0. combined \in OffStatus /\ coreUpdate \in OffCore /\ coreUpdate.candidate \in 0..2
      /\ combined.count \in 0..MaxCombined /\ combined.count < MaxCombined /\ combined.phase \notin Busy
      /\ UNCHANGED <<client, bridge, owner, helper, gateFile, installCalls>>
  BY DEF request_combined, OffInv, OffTypes, OffStatus, OffCore
<1>1. /\ combined' \in OffStatus /\ combined'.phase = "downloading" /\ combined'.count = combined.count + 1
      /\ combined.count \in Nat /\ combined'.phase \in Busy
  <2>1. combined' = [combined EXCEPT !.phase = "downloading", !.candidate = coreUpdate.candidate, !.count = combined.count + 1]
    BY <1>0 DEF request_combined, OffStatus
  <2>2. combined.count + 1 \in 0..MaxCombined /\ combined.count \in Nat
    BY <1>0, OffBounds
  <2> QED
    BY <1>0, <2>1, <2>2 DEF OffStatus, Busy
<1>2. coreUpdate' \in OffCore
  BY <1>0 DEF request_combined, OffCore
<1>3. OffTypes' /\ OffClient'
  BY <1>0, <1>1, <1>2 DEF OffInv, OffTypes, OffClient
<1>4. owner.request = 0
  BY <1>0 DEF OffInv, OffOwner
<1>5. OffOwner'
  BY <1>0, <1>1, <1>4 DEF OffInv, OffOwner
<1>6. OffHelpers'
  <2>1. \A r \in Requests : Unused(r)' => Unused(r)
    BY <1>0, <1>1, OffConstants DEF Unused, Requests
  <2> QED
    BY <1>0, <1>4, <2>1 DEF OffInv, OffHelpers
<1> QED
  BY <1>3, <1>5, <1>6 DEF OffInv

(* The bookkeeping of what the client registered and of the samples of its   *)
(* phase.                                                                    *)
LEMMA OffIntents ==
  ASSUME NEW intent \in OffIntent, NEW phase
  PROVE  take_registered(intent) \in OffIntent /\ Observed(intent, phase) \in OffIntent
<1>1. take_registered(intent) \in OffIntent
  BY DEF take_registered, OffIntent
<1>2. Observed(intent, phase) \in OffIntent
  <2>1. intent.settled + 1 \in Nat /\ SETTLED \in Nat /\ 0 \in Nat
    BY OffConstants DEF OffIntent
  <2>2. /\ [intent EXCEPT !.settled = 0] \in OffIntent
        /\ [intent EXCEPT !.settled = intent.settled + 1] \in OffIntent
        /\ [intent EXCEPT !.settled = SETTLED, !.pending = FALSE] \in OffIntent
    BY <2>1 DEF OffIntent
  <2>3. [intent EXCEPT !.settled = @ + 1] = [intent EXCEPT !.settled = intent.settled + 1]
    OBVIOUS
  <2> QED
    BY <2>2, <2>3 DEF Observed
<1> QED
  BY <1>1, <1>2

(* The owner polls the bridge and the phase of the client while nothing      *)
(* combined is under way.                                                    *)
LEMMA OffPolls ==
  ASSUME OffInv, PollsBridge \/ PollsPhase
  PROVE  OffInv'
<1>0. owner \in OffOwnerRec /\ owner.intent \in OffIntent /\ combined \in OffStatus /\ client \in OffClientRec
      /\ bridge \in [up : BOOLEAN, event : BOOLEAN]
  BY DEF OffInv, OffTypes, OffOwnerRec
<1>1. CASE PollsBridge
  <2>1. PICK i : i = take_registered(owner.intent)
    OBVIOUS
  <2>2. i \in OffIntent
    BY <1>0, <2>1, OffIntents
  <2>3. /\ owner' \in OffOwnerRec /\ owner'.request = owner.request /\ owner'.handoff = owner.handoff
        /\ owner'.at = "probe" /\ owner.at = "bridge" /\ owner'.exit = owner.exit
    BY <1>0, <1>1, <2>1, <2>2 DEF PollsBridge, OffOwnerRec
  <2>4. /\ combined' \in OffStatus /\ combined'.phase = combined.phase /\ combined'.count = combined.count
        /\ bridge' \in [up : BOOLEAN, event : BOOLEAN]
        /\ UNCHANGED <<client, coreUpdate, helper, gateFile, installCalls>>
    BY <1>0, <1>1 DEF PollsBridge, OffStatus
  <2>5. OffTypes' /\ OffClient'
    BY <2>3, <2>4 DEF OffInv, OffTypes, OffClient
  <2> QED
    BY <2>3, <2>4, <2>5, OffKeeps
<1>2. CASE PollsPhase
  <2>0. owner.at = "probe" /\ UNCHANGED <<client, bridge, coreUpdate, helper, installCalls>>
    BY <1>2 DEF PollsPhase
  <2>1. PICK i : i = Observed(owner.intent, client.phase)
    OBVIOUS
  <2>2. i \in OffIntent
    BY <1>0, <2>1, OffIntents
  <2>3. PICK own : own = [owner EXCEPT !.at = "combined", !.intent = i]
    OBVIOUS
  <2>4. /\ own \in OffOwnerRec /\ own.request = owner.request /\ own.handoff = owner.handoff
        /\ own.at = "combined" /\ own.exit = owner.exit
    BY <1>0, <2>2, <2>3 DEF OffOwnerRec
  <2>5. PICK com : com = [combined EXCEPT !.available = TRUE, !.seen = client.phase]
    OBVIOUS
  <2>6. com \in OffStatus /\ com.phase = combined.phase /\ com.count = combined.count
    BY <1>0, <2>5 DEF OffStatus, OffClientRec
  <2>7. CASE Aborted(own, com)
    BY <1>0, <2>0, <2>4, <2>6, <2>7, OffAborts
  <2>8. CASE owner' = own /\ combined' = com /\ UNCHANGED gateFile
    <3>1. OffTypes' /\ OffClient'
      BY <2>0, <2>4, <2>6, <2>8 DEF OffInv, OffTypes, OffClient
    <3> QED
      BY <2>0, <2>4, <2>6, <2>8, <3>1, OffKeeps
  <2>9. CASE combined' = [combined EXCEPT !.available = FALSE] /\ owner' = [owner EXCEPT !.at = "combined"] /\ UNCHANGED gateFile
    <3>1. /\ combined' \in OffStatus /\ combined'.phase = combined.phase /\ combined'.count = combined.count
          /\ owner' \in OffOwnerRec /\ owner'.request = owner.request /\ owner'.handoff = owner.handoff
          /\ owner'.at = "combined" /\ owner'.exit = owner.exit
      BY <1>0, <2>9 DEF OffStatus, OffOwnerRec
    <3>2. OffTypes' /\ OffClient'
      BY <2>0, <2>9, <3>1 DEF OffInv, OffTypes, OffClient
    <3> QED
      BY <2>0, <2>9, <3>1, <3>2, OffKeeps
  <2> QED
    BY <1>2, <2>1, <2>3, <2>5, <2>7, <2>8, <2>9 DEF PollsPhase
<1> QED
  BY <1>1, <1>2

(* The owner polls during a combined update: Core is ready, the handoff is   *)
(* started, or it is given up.                                               *)
LEMMA OffCombined ==
  ASSUME OffInv, PollsCombined
  PROVE  OffInv'
<1>0. owner \in OffOwnerRec /\ combined \in OffStatus /\ coreUpdate \in OffCore /\ owner.at = "combined"
      /\ UNCHANGED <<client, bridge>> /\ bridge \in [up : BOOLEAN, event : BOOLEAN]
      /\ helper \in [Requests -> {"none", "starting", "armed", "refused", "released"}]
  BY DEF OffInv, OffTypes, PollsCombined
<1>1. PICK own : own = PollsOnce(owner)
  OBVIOUS
<1>2. /\ own \in OffOwnerRec /\ own.request = owner.request /\ own.handoff = owner.handoff
      /\ own.at = "bridge" /\ own.exit = owner.exit
  BY <1>0, <1>1 DEF PollsOnce, OffOwnerRec
<1>3. CASE owner' = own /\ UNCHANGED <<combined, coreUpdate, helper, gateFile, installCalls>>
  <2>1. OffTypes' /\ OffClient'
    BY <1>0, <1>2, <1>3 DEF OffInv, OffTypes, OffClient
  <2> QED
    BY <1>0, <1>2, <1>3, <2>1, OffKeeps
<1>4. CASE Aborted(own, combined) /\ UNCHANGED <<coreUpdate, helper, installCalls>>
  BY <1>0, <1>2, <1>4, OffAborts
<1>5. CASE /\ combined.phase = "downloading"
           /\ coreUpdate' = [coreUpdate EXCEPT !.phase = "queued"]
           /\ combined' = [combined EXCEPT !.phase = "preparing"]
           /\ owner' = own
           /\ UNCHANGED <<helper, gateFile, installCalls>>
  <2>1. /\ combined' \in OffStatus /\ combined'.count = combined.count
        /\ combined'.phase \in Busy /\ combined.phase \in Busy /\ coreUpdate' \in OffCore
    BY <1>0, <1>5 DEF OffStatus, Busy, OffCore
  <2>2. OffTypes' /\ OffClient'
    BY <1>0, <1>2, <1>5, <2>1 DEF OffInv, OffTypes, OffClient
  <2> QED
    BY <1>0, <1>2, <1>5, <2>1, <2>2, OffKeeps
<1>6. CASE /\ combined.phase \in Busy /\ owner.handoff = "none" /\ owner.request = 0
           /\ coreUpdate' = [coreUpdate EXCEPT !.phase = "installing"]
           /\ owner' = [own EXCEPT !.request = combined.count, !.handoff = "running"]
           /\ helper' = [helper EXCEPT ![combined.count] = "starting"]
           /\ UNCHANGED <<combined, gateFile, installCalls>>
  <2>1. PICK n : n = combined.count
    OBVIOUS
  <2>2. n \in Requests /\ n # 0 /\ n \in Nat
    BY <1>0, <1>6, <2>1, OffConstants DEF OffInv, OffOwner, OffStatus, Requests
  <2>3. /\ owner' \in OffOwnerRec /\ owner'.request = n /\ owner'.handoff = "running" /\ owner'.at = "bridge"
        /\ owner'.exit = owner.exit
    <3>1. n \in 0..MaxCombined
      BY <2>2 DEF Requests
    <3> QED
      BY <1>2, <1>6, <2>1, <3>1 DEF OffOwnerRec
  <2>4. /\ helper' \in [Requests -> {"none", "starting", "armed", "refused", "released"}]
        /\ \A r \in Requests : helper'[r] = IF r = n THEN "starting" ELSE helper[r]
    BY <1>0, <1>6, <2>1
  <2>5. coreUpdate' \in OffCore
    BY <1>0, <1>6 DEF OffCore
  <2>6. OffTypes'
    BY <1>0, <1>6, <2>3, <2>4, <2>5 DEF OffInv, OffTypes
  <2>7. OffClient' /\ OffOwner'
    BY <1>0, <1>6, <2>1, <2>2, <2>3, <2>4 DEF OffInv, OffClient, OffOwner
  <2>8. OffHelpers'
    <3> SUFFICES ASSUME NEW r \in Requests
                 PROVE  /\ Unused(r)' => helper'[r] = "none" /\ gateFile[r] = "none" /\ installCalls[r] = 0
                        /\ installCalls[r] = 1 => helper'[r] \notin {"none", "starting"}
                        /\ r = n => helper'[r] = "starting" /\ installCalls[r] = 0
                        /\ r # n => ~(helper'[r] \in {"starting", "armed"} /\ gateFile[r] = "none")
      BY <1>6, <2>3 DEF OffHelpers
    <3>1. Unused(r)' => r # n /\ Unused(r)
      BY <1>6, <2>1, <2>2, <2>3 DEF Unused, Requests
    <3>2. r = n => installCalls[r] = 0
      BY <1>0, <1>6, <2>1, <2>2 DEF OffInv, OffHelpers, Unused
    <3>3. helper[r] \in {"starting", "armed"} /\ gateFile[r] = "none" => FALSE
      BY <1>0, <1>6, <2>2 DEF OffInv, OffHelpers, Requests
    <3>4. /\ Unused(r) => helper[r] = "none" /\ gateFile[r] = "none" /\ installCalls[r] = 0
          /\ installCalls[r] = 1 => helper[r] \notin {"none", "starting"}
      BY DEF OffInv, OffHelpers
    <3> QED
      BY <2>4, <3>1, <3>2, <3>3, <3>4
  <2> QED
    BY <2>6, <2>7, <2>8 DEF OffInv
<1> QED
  BY <1>0, <1>1, <1>3, <1>4, <1>5, <1>6 DEF PollsCombined

(* The handoff ends on its thread, for a request that may be given up by     *)
(* then.                                                                     *)
LEMMA OffHandoff ==
  ASSUME OffInv, HandoffSettles
  PROVE  OffInv'
<1>1. PICK r \in Requests, to \in {"armed", "refused"}, outcome \in {"ok", "failed"} :
        /\ helper[r] = "starting" /\ owner.at # "gone"
        /\ helper' = [helper EXCEPT ![r] = to]
        /\ owner' = IF owner.request = r THEN [owner EXCEPT !.handoff = outcome] ELSE owner
        /\ coreUpdate' = coreUpdate \/ coreUpdate' = [coreUpdate EXCEPT !.phase = "downloaded", !.error = TRUE]
        /\ UNCHANGED <<client, bridge, combined, gateFile, installCalls>>
  BY DEF HandoffSettles
<1>2. /\ owner \in OffOwnerRec /\ coreUpdate \in OffCore /\ r # 0
      /\ helper \in [Requests -> {"none", "starting", "armed", "refused", "released"}]
  BY DEF OffInv, OffTypes, Requests
<1>3. /\ owner' \in OffOwnerRec /\ owner'.request = owner.request /\ owner'.at = owner.at /\ owner'.exit = owner.exit
      /\ owner'.handoff = IF owner.request = r THEN outcome ELSE owner.handoff
      /\ coreUpdate' \in OffCore
  BY <1>1, <1>2 DEF OffOwnerRec, OffCore
<1>4. /\ helper' \in [Requests -> {"none", "starting", "armed", "refused", "released"}]
      /\ \A q \in Requests : helper'[q] = IF q = r THEN to ELSE helper[q]
  BY <1>1, <1>2
<1>5. OffTypes' /\ OffClient'
  BY <1>1, <1>3, <1>4 DEF OffInv, OffTypes, OffClient
<1>6. OffOwner'
  BY <1>1, <1>2, <1>3 DEF OffInv, OffOwner
<1>7. OffHelpers'
  <2> SUFFICES ASSUME NEW q \in Requests
               PROVE  /\ Unused(q)' => helper'[q] = "none" /\ gateFile[q] = "none" /\ installCalls[q] = 0
                      /\ installCalls[q] = 1 => helper'[q] \notin {"none", "starting"}
                      /\ owner.request = q => /\ helper'[q] # "none" /\ (owner'.handoff = "running" <=> helper'[q] = "starting")
                                              /\ owner'.handoff # "none" => installCalls[q] = 0
                      /\ helper'[q] \in {"starting", "armed"} /\ gateFile[q] = "none" => owner.request = q
    BY <1>1, <1>3 DEF OffHelpers
  <2>1. Unused(q)' => Unused(q)
    BY <1>1, <1>3 DEF Unused
  <2>2. /\ Unused(q) => helper[q] = "none" /\ gateFile[q] = "none" /\ installCalls[q] = 0
        /\ installCalls[q] = 1 => helper[q] \notin {"none", "starting"}
        /\ owner.request = q => /\ helper[q] # "none" /\ (owner.handoff = "running" <=> helper[q] = "starting")
                                /\ owner.handoff # "none" => installCalls[q] = 0
        /\ helper[q] \in {"starting", "armed"} /\ gateFile[q] = "none" => owner.request = q
    BY <1>1 DEF OffInv, OffHelpers
  <2> QED
    BY <1>1, <1>3, <1>4, <2>1, <2>2
<1> QED
  BY <1>5, <1>6, <1>7 DEF OffInv

(* The official installer is called, or keeps silent.                        *)
LEMMA OffCalls ==
  ASSUME OffInv, CallsInstaller \/ InstallerSilent
  PROVE  OffInv'
<1>0. owner \in OffOwnerRec /\ combined \in OffStatus /\ client \in OffClientRec /\ owner.at = "combined" /\ combined.phase \in Busy
      /\ UNCHANGED <<bridge, coreUpdate, helper>> /\ bridge \in [up : BOOLEAN, event : BOOLEAN]
      /\ installCalls \in [Requests -> {0, 1}]
  BY DEF OffInv, OffTypes, CallsInstaller, InstallerSilent
<1>1. PICK own : own = PollsOnce(owner)
  OBVIOUS
<1>2. /\ own \in OffOwnerRec /\ own.request = owner.request /\ own.handoff = owner.handoff
      /\ own.at = "bridge" /\ own.exit = owner.exit
  BY <1>0, <1>1 DEF PollsOnce, OffOwnerRec
<1>3. CASE Aborted(own, combined) /\ UNCHANGED <<client, installCalls>>
  BY <1>0, <1>2, <1>3, OffAborts
<1>4. ASSUME CallsInstaller,
             owner.handoff \in {"ok", "failed"}, owner' = [own EXCEPT !.handoff = "none", !.sent = TRUE],
             combined' = [combined EXCEPT !.phase = "installing"], UNCHANGED gateFile,
             client' = client \/ (client.phase = "ready" /\ client' = [client EXCEPT !.phase = "installing"]),
             installCalls' = installCalls \/ installCalls' = [installCalls EXCEPT ![owner.request] = installCalls[owner.request] + 1]
      PROVE  OffInv'
  <2>1. PICK n : n = owner.request
    OBVIOUS
  <2>2. n \in Requests /\ n # 0 /\ installCalls[n] = 0 /\ helper[n] \notin {"none", "starting"}
    <3>1. n \in Requests /\ n # 0
      BY <1>0, <1>4, <2>1, OffConstants DEF OffInv, OffOwner, OffOwnerRec, Requests
    <3> QED
      BY <1>4, <2>1, <3>1 DEF OffInv, OffHelpers
  <2>3. /\ owner' \in OffOwnerRec /\ owner'.request = n /\ owner'.handoff = "none" /\ owner'.at = "bridge"
        /\ owner'.exit = owner.exit
    BY <1>2, <1>4, <2>1 DEF OffOwnerRec
  <2>4. /\ combined' \in OffStatus /\ combined'.phase \in Busy /\ combined'.count = combined.count
    BY <1>0, <1>4 DEF OffStatus, Busy
  <2>5. /\ installCalls' \in [Requests -> {0, 1}]
        /\ \A r \in Requests : r # n => installCalls'[r] = installCalls[r]
    BY <1>0, <1>4, <2>1, <2>2
  <2>6. /\ client' \in OffClientRec /\ client'.package = client.package /\ client'.alive = client.alive
    BY <1>0, <1>4 DEF OffClientRec
  <2>7. OffTypes' /\ OffClient' /\ OffOwner'
    BY <1>0, <1>4, <2>1, <2>3, <2>4, <2>5, <2>6 DEF OffInv, OffTypes, OffClient, OffOwner
  <2>8. OffHelpers'
    <3> SUFFICES ASSUME NEW r \in Requests
                 PROVE  /\ Unused(r)' => helper[r] = "none" /\ gateFile[r] = "none" /\ installCalls'[r] = 0
                        /\ installCalls'[r] = 1 => helper[r] \notin {"none", "starting"}
                        /\ n = r => helper[r] \notin {"none", "starting"}
                        /\ helper[r] \in {"starting", "armed"} /\ gateFile[r] = "none" => n = r
      BY <1>0, <1>4, <2>3 DEF OffHelpers
    <3>1. Unused(r)' => Unused(r) /\ r # n
      BY <1>0, <2>1, <2>2, <2>3, <2>4, OffConstants DEF Unused, OffInv, OffOwner, Requests, OffStatus
    <3> QED
      BY <1>0, <2>1, <2>2, <2>5, <3>1 DEF OffInv, OffHelpers
  <2> QED
    BY <2>7, <2>8 DEF OffInv
<1>5. CASE InstallerSilent
  BY <1>1, <1>3, <1>5 DEF InstallerSilent
<1>6. CASE CallsInstaller
  BY <1>1, <1>3, <1>4, <1>6 DEF CallsInstaller, Taken
<1> QED
  BY <1>5, <1>6

(* The owner finishes, or the new package is not confirmed in time.          *)
LEMMA OffLeaves ==
  ASSUME OffInv, finish \/ NotConfirmed
  PROVE  OffInv'
<1>0. /\ owner \in OffOwnerRec /\ owner.intent \in OffIntent /\ combined \in OffStatus /\ ~client.alive /\ owner.at # "gone"
      /\ UNCHANGED <<client, coreUpdate, helper, installCalls>> /\ bridge \in [up : BOOLEAN, event : BOOLEAN]
  BY DEF OffInv, OffTypes, OffOwnerRec, finish, NotConfirmed
<1>1. bridge' \in [up : BOOLEAN, event : BOOLEAN]
  BY <1>0 DEF finish, NotConfirmed
<1>2. ASSUME NEW i \in OffIntent, NEW at \in {"waiting", "gone"}, NEW e \in {owner.exit, "ordinary"},
             NEW own, own = [owner EXCEPT !.intent = i, !.at = at, !.exit = e],
             \/ Aborted(own, combined)
             \/ owner' = own /\ UNCHANGED <<combined, gateFile>> /\ (at = "gone" => owner.request = 0 /\ combined.phase \notin Busy)
      PROVE  OffInv'
  <2>1. /\ own \in OffOwnerRec /\ own.request = owner.request /\ own.handoff = owner.handoff /\ own.at = at /\ own.exit = e
    BY <1>0, <1>2 DEF OffOwnerRec
  <2>2. CASE Aborted(own, combined)
    BY <1>0, <1>1, <2>1, <2>2, OffAborts
  <2>3. CASE owner' = own /\ UNCHANGED <<combined, gateFile>>
    <3>1. OffTypes' /\ OffClient'
      BY <1>0, <1>1, <2>1, <2>3 DEF OffInv, OffTypes, OffClient
    <3> QED
      BY <1>0, <2>1, <2>3, <3>1, OffKeeps
  <2> QED
    BY <1>2, <2>2, <2>3
<1>3. CASE finish
  <2>1. PICK i : i = take_registered(owner.intent)
    OBVIOUS
  <2>2. i \in OffIntent
    BY <1>0, <2>1, OffIntents
  <2>3. PICK own : own = [owner EXCEPT !.intent = i, !.at = "waiting"]
    OBVIOUS
  <2>4. own = [owner EXCEPT !.intent = i, !.at = "waiting", !.exit = owner.exit] /\ own.request = owner.request
    BY <1>0, <2>3 DEF OffOwnerRec
  <2>5. CASE owner' = own /\ UNCHANGED <<combined, gateFile>>
    BY <1>2, <2>2, <2>4, <2>5
  <2>6. PICK left : left = [own EXCEPT !.at = "gone", !.exit = "ordinary"]
    OBVIOUS
  <2>7. left = [owner EXCEPT !.intent = i, !.at = "gone", !.exit = "ordinary"]
    BY <1>0, <2>3, <2>6 DEF OffOwnerRec
  <2>8. CASE Aborted(left, combined)
    BY <1>2, <2>2, <2>7, <2>8
  <2>9. CASE owner' = left /\ UNCHANGED <<combined, gateFile>> /\ owner.request = 0 /\ combined.phase \notin Busy
    BY <1>2, <2>2, <2>7, <2>9
  <2> QED
    BY <1>3, <2>1, <2>3, <2>5, <2>6, <2>8, <2>9 DEF finish
<1>4. CASE NotConfirmed
  <2>1. PICK left : left = [owner EXCEPT !.at = "gone", !.exit = "ordinary"]
    OBVIOUS
  <2>2. left = [owner EXCEPT !.intent = owner.intent, !.at = "gone", !.exit = "ordinary"]
    BY <1>0, <2>1 DEF OffOwnerRec
  <2>3. PICK i : i = owner.intent
    OBVIOUS
  <2> QED
    BY ZenonT(60), <1>0, <1>2, <1>4, <2>1, <2>2, <2>3 DEF NotConfirmed
<1> QED
  BY <1>3, <1>4

(* The owner confirms the new package.                                       *)
LEMMA OffConfirms ==
  ASSUME OffInv, ConfirmsPackage
  PROVE  OffInv'
<1>0. /\ owner \in OffOwnerRec /\ owner.at = "waiting" /\ client.package = "new" /\ ~client.alive
      /\ UNCHANGED <<client, bridge, combined, coreUpdate, helper, installCalls>>
      /\ gateFile \in [Requests -> {"none", "ready", "refused"}]
  BY DEF ConfirmsPackage, newer_package, OffInv, OffTypes, OffClient
<1>1. CASE owner' = [owner EXCEPT !.intent.sure = 1] /\ UNCHANGED gateFile
  <2>1. /\ owner' \in OffOwnerRec /\ owner'.request = owner.request /\ owner'.handoff = owner.handoff
        /\ owner'.at = owner.at /\ owner'.exit = owner.exit
    BY <1>0, <1>1 DEF OffOwnerRec, OffIntent
  <2>2. OffTypes' /\ OffClient'
    BY <1>0, <1>1, <2>1 DEF OffInv, OffTypes, OffClient
  <2> QED
    BY <1>0, <1>1, <2>1, <2>2, OffKeeps
<1>2. CASE owner' = [owner EXCEPT !.at = "gone", !.exit = "restart"] /\ UNCHANGED gateFile
  <2>1. /\ owner' \in OffOwnerRec /\ owner'.request = owner.request /\ owner'.handoff = owner.handoff
        /\ owner'.at = "gone" /\ owner'.exit = "restart"
    BY <1>0, <1>2 DEF OffOwnerRec
  <2>2. OffTypes' /\ OffClient'
    BY <1>0, <1>2, <2>1 DEF OffInv, OffTypes, OffClient
  <2> QED
    BY <1>0, <1>2, <2>1, <2>2, OffKeeps
<1>3. ASSUME NEW e \in {"combined", "ordinary"}, owner' = [owner EXCEPT !.at = "gone", !.exit = e, !.request = 0],
             owner.request # 0, UNCHANGED gateFile \/ gateFile' = gate(owner, "ready")
      PROVE  OffInv'
  <2>1. /\ owner' \in OffOwnerRec /\ owner'.request = 0 /\ owner'.at = "gone" /\ owner'.exit = e
    BY <1>0, <1>3, OffBounds DEF OffOwnerRec
  <2>2. PICK n : n = owner.request
    OBVIOUS
  <2>3. /\ gateFile' \in [Requests -> {"none", "ready", "refused"}]
        /\ \A r \in Requests : r # n => gateFile'[r] = gateFile[r]
    BY <1>0, <1>3, <2>2 DEF gate
  <2>4. OffTypes' /\ OffClient' /\ OffOwner'
    BY <1>0, <1>3, <2>1, <2>3 DEF OffInv, OffTypes, OffClient, OffOwner
  <2>5. OffHelpers'
    <3>1. \A r \in Requests : Unused(r)' => Unused(r) /\ r # n
      BY <1>0, <1>3, <2>1, <2>2, OffConstants DEF Unused, OffInv, OffOwner, OffTypes, OffStatus, Requests
    <3> QED
      BY <1>0, <2>1, <2>3, <3>1 DEF OffInv, OffHelpers, Requests
  <2> QED
    BY <2>4, <2>5 DEF OffInv
<1> QED
  BY <1>1, <1>2, <1>3 DEF ConfirmsPackage

(* The helper reads its gate file.                                           *)
LEMMA OffReads ==
  ASSUME OffInv, HelperReads
  PROVE  OffInv'
<1>1. PICK r \in Requests, to \in {"refused", "released"} :
        /\ helper[r] = "armed" /\ helper' = [helper EXCEPT ![r] = to]
        /\ to = "released" => gateFile[r] = "ready"
        /\ UNCHANGED <<client, bridge, combined, coreUpdate, owner, gateFile, installCalls>>
  BY DEF HelperReads
<1>2. /\ helper' \in [Requests -> {"none", "starting", "armed", "refused", "released"}]
      /\ \A q \in Requests : helper'[q] = IF q = r THEN to ELSE helper[q]
  BY <1>1 DEF OffInv, OffTypes
<1>3. OffTypes' /\ OffClient' /\ OffOwner'
  BY <1>1, <1>2 DEF OffInv, OffTypes, OffClient, OffOwner
<1>4. OffHelpers'
  BY <1>1, <1>2 DEF OffInv, OffHelpers, Unused
<1> QED
  BY <1>3, <1>4 DEF OffInv

(* Every step keeps the invariant.                                           *)
LEMMA OffStep == OffInv /\ [OffNext]_offVars => OffInv'
<1> SUFFICES ASSUME OffInv, [OffNext]_offVars PROVE OffInv'
  OBVIOUS
<1>1. CASE UNCHANGED offVars
  <2>1. UNCHANGED <<client, bridge, combined, coreUpdate, owner, helper, gateFile, installCalls>>
    BY <1>1 DEF offVars
  <2>2. OffTypes' /\ OffClient'
    BY <2>1 DEF OffInv, OffTypes, OffClient
  <2> QED
    BY <2>1, <2>2, OffKeeps
<1>2. CASE OffNext
  BY <1>2, OffEnvironment, OffRequests, OffPolls, OffCombined, OffHandoff, OffCalls, OffLeaves, OffConfirms, OffReads DEF OffNext
<1> QED
  BY <1>1, <1>2

(* A client without an update under way satisfies the invariant.             *)
LEMMA OffStart == OffInit => OffInv
<1> SUFFICES ASSUME OffInit PROVE OffInv
  OBVIOUS
<1>1. client \in OffClientRec /\ bridge \in [up : BOOLEAN, event : BOOLEAN]
  BY OffBounds DEF OffInit, OffClientRec, NoBridge
<1>2. combined \in OffStatus /\ coreUpdate \in OffCore /\ owner \in OffOwnerRec
  BY OffBounds DEF OffInit, OffStatus, OffCore, OffOwnerRec, OffIntent, NotCombined, CoreOffered, NewOwner, Quiet
<1>3. OffTypes
  BY <1>1, <1>2 DEF OffInit, OffTypes
<1> QED
  BY <1>3 DEF OffInit, OffInv, OffOwner, OffClient, OffHelpers, NotCombined, NewOwner, Requests, Busy

(* The invariant contains what the run checks.                               *)
LEMMA OffImplies == OffInv => OfficialSound
<1> SUFFICES ASSUME OffInv PROVE OfficialSound
  OBVIOUS
<1>1. OffTypeOK
  BY OffConstants DEF OffInv, OffTypes, OffTypeOK, OffClientRec, OffStatus, OffOwnerRec, Requests
<1>2. InstallCalledOnce
  BY DEF OffInv, OffHelpers, OffTypes, InstallCalledOnce
<1>3. RestartsOverNewPackage /\ NoRequestForgotten /\ OwnerAgrees
  BY DEF OffInv, OffHelpers, OffClient, OffOwner, RestartsOverNewPackage, NoRequestForgotten, OwnerAgrees
<1> QED
  BY <1>1, <1>2, <1>3 DEF OfficialSound

(* For any number of requests, of updates of the client by itself and of     *)
(* samples: the official installer is called once per request at most, and   *)
(* only after the helper is armed; Core's files are replaced and the client  *)
(* is started again only over a newer package, with the old client gone; a   *)
(* request that is given up is refused and never released later              *)
(* (official_update.rs, official_update/owner.rs).                           *)
THEOREM OfficialIsSound == OffSpec => []OfficialSound
  BY OffStart, OffStep, OffImplies, PTL DEF OffSpec

-----------------------------------------------------------------------------
(* The storage and the credentials of plugins.                               *)

(* The types of a change, ...                                                *)
SvcChange == [cursor : Nat, config : BOOLEAN, keys : SUBSET Keys]
(* ... of the values of a document, ...                                      *)
SvcEntries == [Keys -> Values \cup {NoValue}]
(* ... of a storage document, ...                                            *)
SvcDoc == [rev : Nat, config : Configs, entries : SvcEntries, changes : Seq(SvcChange)]
(* ... of the metadata of a credential, ...                                  *)
SvcMeta == [origin : Origins \cup {"none"}, created : Nat, updated : Nat]
(* ... of a credential document, ...                                         *)
SvcCreds == [rev : Nat, meta : [Refs -> SvcMeta]]
(* ... of a secret, ...                                                      *)
SvcSecret == [origin : Origins \cup {"none"}, rev : Nat]

(* ... of a window, ...                                                      *)
SvcWindow == [pc : {"idle", "commit", "vault", "json"}, source : Sources, alive : BOOLEAN, cursor : Nat,
              known : SvcEntries, dirty : SUBSET Keys, doc : SvcDoc, cdoc : SvcCreds, ref : Refs \cup {"none"},
              prev : SvcSecret, next : SvcSecret, seen : Nat, got : {<<>>} \cup (Origins \X SvcSecret)]

(* ... and of the files.                                                     *)
SvcStore == [owner : Sources \cup {"none"}, uses : Services, storage : SvcDoc, creds : SvcCreds,
             lock : Windows \cup {"free"}]

(* The types of all the state.                                               *)
SvcTypes ==
    /\ store \in SvcStore
    /\ vault \in [Refs -> SvcSecret]
    /\ win \in [Windows -> SvcWindow]

(* The history holds the last changes up to the revision, one revision each. *)
ChangesOk(d) ==
    /\ Len(d.changes) <= MAX_CHANGES /\ Len(d.changes) <= d.rev /\ (d.rev = 0 <=> Len(d.changes) = 0)
    /\ \A n \in 1 .. Len(d.changes) :
          d.changes[n].cursor = d.rev - Len(d.changes) + n /\ (d.changes[n].config \/ d.changes[n].keys # {})

(* A storage document that the service accepts.                              *)
DocOk(d) == d.rev <= MaxRevision /\ Size(d.entries) <= MAX_KEYS /\ ChangesOk(d)

(* The references with metadata.                                             *)
InUse(meta) == {r \in Refs : meta[r] # NoMeta}

(* A credential document that the service accepts.                           *)
CredsOk(d) ==
    /\ d.rev <= MaxRevision /\ IsFiniteSet(InUse(d.meta)) /\ Cardinality(InUse(d.meta)) <= MAX_CREDENTIALS
    /\ \A r \in InUse(d.meta) : d.meta[r].created > 0 /\ d.meta[r].created <= d.meta[r].updated /\ d.meta[r].updated <= d.rev

(* What a window knows against a document: each key it was not told about    *)
(* has the value it knows, or was changed since by a change that is in the   *)
(* history, or the history no longer reaches back to the cursor.             *)
Follows(x, d) ==
    /\ x.cursor <= d.rev
    /\ \A k \in Keys \ x.dirty :
          \/ x.cursor < d.rev - Len(d.changes)
          \/ x.known[k] = d.entries[k]
          \/ \E n \in 1 .. Len(d.changes) : d.changes[n].cursor > x.cursor /\ k \in d.changes[n].keys

(* The change that made a document.                                          *)
SvcLast(n) == n.changes[Len(n.changes)]

(* The history with one more change.                                         *)
SvcPushed(c, ch) == Trimmed(Append(c, ch))

(* t is the tail of c with ch at its end.                                    *)
SvcTail(t, c, ch) ==
    /\ t \in Seq(SvcChange) /\ Len(t) \in 1 .. MAX_CHANGES /\ t[Len(t)] = ch
    /\ Len(t) = Len(c) + 1 \/ (Len(t) = Len(c) /\ Len(t) = MAX_CHANGES)
    /\ \A n \in 1 .. Len(t) : n < Len(t) => t[n] = c[n + (Len(c) + 1 - Len(t))]

(* n is the document after d.                                                *)
Later(d, n) ==
    /\ n.rev = d.rev + 1 /\ SvcLast(n) \in SvcChange /\ SvcLast(n).cursor = d.rev + 1
    /\ n.changes = SvcPushed(d.changes, SvcLast(n))
    /\ \A k \in Keys : n.entries[k] # d.entries[k] => k \in SvcLast(n).keys

(* A secret is that of the origin its metadata name.                         *)
SameOrigin(secret, meta) == secret # NoSecret /\ meta # NoMeta => secret.origin = meta.origin

(* What the writer of a credential holds: the old secret and the new one,    *)
(* and the document that goes with the new one.                              *)
Writes(x) ==
    /\ x.ref \in Refs /\ CredsOk(x.cdoc)
    /\ \A q \in Refs : q # x.ref => x.cdoc.meta[q] = store.creds.meta[q]
    /\ x.next.rev = x.cdoc.meta[x.ref].updated
    /\ SameOrigin(x.next, x.cdoc.meta[x.ref]) /\ SameOrigin(x.next, store.creds.meta[x.ref])
    /\ SameOrigin(x.prev, store.creds.meta[x.ref])
    /\ x.ref \notin hurt => x.prev.rev = store.creds.meta[x.ref].updated

(* What holds of each window.                                                *)
WindowOk(w, x) ==
    /\ Follows(x, store.storage)
    /\ x.pc # "idle" <=> store.lock = w
    /\ x.pc = "commit" => x.cursor = store.storage.rev /\ DocOk(x.doc) /\ Later(store.storage, x.doc)
    /\ x.pc \in {"vault", "json"} => Writes(x)
    /\ x.pc = "vault" => x.prev = vault[x.ref]
    /\ x.pc = "json" => x.next = vault[x.ref]
    /\ x.got # <<>> => x.got[1] = x.got[2].origin /\ store.owner = x.source

(* The secrets against the metadata.                                         *)
SvcSecrets ==
    \A r \in Refs :
        /\ SameOrigin(vault[r], store.creds.meta[r])
        /\ \/ r \in hurt
           \/ \E w \in Windows : win[w].pc = "json" /\ win[w].ref = r
           \/ vault[r].rev = store.creds.meta[r].updated

(* The inductive invariant of the plugin services.                           *)
SvcInv ==
    /\ SvcTypes /\ DocOk(store.storage) /\ CredsOk(store.creds)
    /\ \A w \in Windows : WindowOk(w, win[w])
    /\ SvcSecrets

(* The trimmed history: the new change is the last, those before it keep     *)
(* their places.                                                             *)
LEMMA SvcTrim ==
  ASSUME NEW c \in Seq(SvcChange), Len(c) <= MAX_CHANGES, NEW ch \in SvcChange,
         NEW t, t = SvcPushed(c, ch)
  PROVE  SvcTail(t, c, ch)
<1> USE DEF SvcTail
<1>0. PICK a : a = Append(c, ch)
  OBVIOUS
<1>1. a \in Seq(SvcChange) /\ Len(a) = Len(c) + 1 /\ a[Len(a)] = ch /\ \A n \in 1 .. Len(c) : a[n] = c[n]
  BY <1>0
<1>2. MAX_CHANGES \in Nat /\ MAX_CHANGES >= 1 /\ Len(c) \in Nat
  BY ServiceConstants
<1>3. CASE Len(a) <= MAX_CHANGES
  <2>1. t = a
    BY <1>0, <1>1, <1>2, <1>3 DEF SvcPushed, Trimmed
  <2>2. \A n \in 1 .. Len(t) : n < Len(t) => t[n] = c[n]
    BY <1>1, <1>2, <2>1
  <2> QED
    BY <1>1, <1>2, <1>3, <2>1, <2>2
<1>4. CASE Len(a) > MAX_CHANGES
  <2>1. Len(c) = MAX_CHANGES
    BY <1>1, <1>2, <1>4
  <2>2. t = SubSeq(a, 2, MAX_CHANGES + 1)
    BY <1>0, <1>1, <1>2, <1>4, <2>1 DEF SvcPushed, Trimmed
  <2>3. t \in Seq(SvcChange) /\ Len(t) = MAX_CHANGES /\ \A n \in 1 .. MAX_CHANGES : t[n] = a[n + 1]
    BY <1>1, <1>2, <2>1, <2>2
  <2>4. t[Len(t)] = ch
    BY <1>1, <1>2, <2>1, <2>3
  <2>5. \A n \in 1 .. Len(t) : n < Len(t) => t[n] = c[n + 1]
    BY <1>1, <1>2, <2>1, <2>3
  <2> QED
    BY <1>2, <2>1, <2>3, <2>4, <2>5
<1> QED
  BY <1>1, <1>2, <1>3, <1>4

(* A changed document is accepted, and is the one after its predecessor.     *)
LEMMA SvcApplied ==
  ASSUME NEW d \in SvcDoc, DocOk(d), d.rev # MaxRevision, NEW ops \in Operations, NEW config \in Configs,
         NEW n, n = Applied(d, ops, config), n # d, Size(n.entries) <= MAX_KEYS
  PROVE  n \in SvcDoc /\ DocOk(n) /\ Later(d, n)
<1>1. PICK entries : entries = [k \in Keys |-> IF k \in DOMAIN ops THEN ops[k] ELSE d.entries[k]]
  OBVIOUS
<1>2. PICK keys : keys = {k \in Keys : entries[k] # d.entries[k]}
  OBVIOUS
<1>3. PICK ch : ch = [cursor |-> d.rev + 1, config |-> config # d.config, keys |-> keys]
  OBVIOUS
<1>4. /\ n = [rev |-> d.rev + 1, config |-> config, entries |-> entries, changes |-> SvcPushed(d.changes, ch)]
      /\ keys # {} \/ config # d.config
  BY <1>1, <1>2, <1>3 DEF Applied, SvcPushed
<1>5. entries \in SvcEntries
  <2>1. PICK ks \in SUBSET Keys : ops \in [ks -> Values \cup {NoValue}]
    BY DEF Operations
  <2>2. \A k \in Keys : entries[k] \in Values \cup {NoValue}
    BY <1>1, <2>1 DEF SvcDoc, SvcEntries
  <2> QED
    BY <1>1, <2>2 DEF SvcEntries
<1>6. d.rev \in Nat /\ d.rev + 1 \in Nat /\ d.changes \in Seq(SvcChange) /\ d.rev + 1 <= MaxRevision
  BY ServiceConstants DEF SvcDoc, DocOk
<1>7. ch \in SvcChange /\ ch.cursor = d.rev + 1 /\ ch.keys = keys /\ ch.config = (config # d.config)
  BY <1>2, <1>3, <1>6 DEF SvcChange
<1>8. PICK t : t = SvcPushed(d.changes, ch)
  OBVIOUS
<1>9. /\ t \in Seq(SvcChange) /\ Len(t) \in 1 .. MAX_CHANGES /\ t[Len(t)] = ch
      /\ Len(t) = Len(d.changes) + 1 \/ (Len(t) = Len(d.changes) /\ Len(t) = MAX_CHANGES)
      /\ \A m \in 1 .. Len(t) : m < Len(t) => t[m] = d.changes[m + (Len(d.changes) + 1 - Len(t))]
  <2>1. Len(d.changes) <= MAX_CHANGES
    BY DEF DocOk, ChangesOk
  <2>2. PICK c : c = d.changes
    OBVIOUS
  <2>3. c \in Seq(SvcChange) /\ Len(c) <= MAX_CHANGES /\ t = SvcPushed(c, ch) /\ ch \in SvcChange
    BY <1>6, <1>7, <1>8, <2>1, <2>2
  <2>4. SvcTail(t, c, ch)
    BY <2>3, SvcTrim
  <2> QED
    BY <2>2, <2>4 DEF SvcTail
<1>10. n.changes = t /\ n.rev = d.rev + 1 /\ n.entries = entries /\ n \in SvcDoc
  BY <1>4, <1>5, <1>6, <1>8, <1>9 DEF SvcDoc
<1>11. Later(d, n)
  BY <1>2, <1>7, <1>8, <1>9, <1>10 DEF Later, SvcLast
<1>12. ChangesOk(n)
  <2>1. Len(t) <= MAX_CHANGES /\ Len(t) <= d.rev + 1 /\ Len(t) # 0 /\ d.rev + 1 # 0
    BY <1>6, <1>9, ServiceConstants DEF DocOk, ChangesOk
  <2>0. PICK r : r = d.rev + 1 /\ n.rev = r
    BY <1>10
  <2>2. ASSUME NEW m \in 1 .. Len(t)
        PROVE  t[m].cursor = r - Len(t) + m /\ (t[m].config \/ t[m].keys # {})
    <3>1. CASE m = Len(t)
      <4>1. ch.config \/ ch.keys # {}
        BY <1>4, <1>7
      <4> QED
        BY <1>6, <1>7, <1>9, <2>0, <3>1, <4>1
    <3>2. CASE m < Len(t)
      <4>1. PICK i : i = m + (Len(d.changes) + 1 - Len(t))
        OBVIOUS
      <4>2. PICK lc, lt : lc = Len(d.changes) /\ lt = Len(t)
        OBVIOUS
      <4>3. lc \in Nat /\ lt \in Nat /\ (lt = lc + 1 \/ lt = lc) /\ m \in 1 .. lt /\ m < lt /\ i = m + (lc + 1 - lt) /\ d.rev \in Nat
        BY <1>6, <1>9, <3>2, <4>1, <4>2
      <4>4. i \in 1 .. lc /\ r - lt + m = d.rev - lc + i
        <5>1. PICK v : v = d.rev
          OBVIOUS
        <5>2. v \in Nat /\ r = v + 1
          BY <2>0, <4>3, <5>1
        <5>3. i \in 1 .. lc /\ r - lt + m = v - lc + i
          BY <4>3, <5>2
        <5> QED
          BY <5>1, <5>3
      <4>5. t[m] = d.changes[i]
        BY <1>9, <3>2, <4>1
      <4> QED
        BY <4>2, <4>4, <4>5 DEF DocOk, ChangesOk
    <3> QED
      BY <1>9, <3>1, <3>2
  <2>3. /\ n.changes = t /\ n.rev = d.rev + 1
    BY <1>10
  <2>4. \A m \in 1 .. Len(n.changes) :
          n.changes[m].cursor = n.rev - Len(n.changes) + m /\ (n.changes[m].config \/ n.changes[m].keys # {})
    <3>1. \A m \in 1 .. Len(t) : t[m].cursor = r - Len(t) + m /\ (t[m].config \/ t[m].keys # {})
      BY <2>2
    <3>2. n.changes = t /\ n.rev = r
      BY <2>0, <2>3
    <3> QED
      BY <3>1, <3>2
  <2>5. Len(n.changes) <= MAX_CHANGES /\ Len(n.changes) <= n.rev /\ (n.rev = 0 <=> Len(n.changes) = 0)
    BY <2>1, <2>3
  <2> QED
    BY <2>4, <2>5 DEF ChangesOk
<1> QED
  BY <1>6, <1>10, <1>11, <1>12 DEF DocOk

(* A window that could follow up to d can follow up to the document after    *)
(* it.                                                                       *)
LEMMA SvcFollows ==
  ASSUME NEW x \in SvcWindow, NEW d \in SvcDoc, NEW n \in SvcDoc, Follows(x, d), ChangesOk(d), ChangesOk(n), Later(d, n)
  PROVE  Follows(x, n)
<1>1. PICK ch : ch = SvcLast(n)
  OBVIOUS
<1>2. /\ d.rev \in Nat /\ d.changes \in Seq(SvcChange) /\ n.changes \in Seq(SvcChange) /\ x.cursor \in Nat
      /\ n.rev = d.rev + 1 /\ ch \in SvcChange /\ ch.cursor = d.rev + 1
      /\ n.changes = SvcPushed(d.changes, ch) /\ ch = n.changes[Len(n.changes)]
      /\ \A k \in Keys : n.entries[k] # d.entries[k] => k \in ch.keys
  BY <1>1 DEF Later, SvcLast, SvcDoc, SvcWindow
<1>3. PICK t : t = n.changes
  OBVIOUS
<1>4. /\ Len(t) \in Nat /\ Len(t) >= 1 /\ t[Len(t)] = ch
      /\ Len(t) = Len(d.changes) + 1 \/ Len(t) = Len(d.changes)
      /\ \A m \in 1 .. Len(t) : m < Len(t) => t[m] = d.changes[m + (Len(d.changes) + 1 - Len(t))]
  <2>1. Len(d.changes) <= MAX_CHANGES
    BY DEF ChangesOk
  <2>2. /\ t \in Seq(SvcChange) /\ Len(t) \in 1 .. MAX_CHANGES /\ t[Len(t)] = ch
        /\ Len(t) = Len(d.changes) + 1 \/ (Len(t) = Len(d.changes) /\ Len(t) = MAX_CHANGES)
        /\ \A m \in 1 .. Len(t) : m < Len(t) => t[m] = d.changes[m + (Len(d.changes) + 1 - Len(t))]
    <3>2. PICK c : c = d.changes
      OBVIOUS
    <3>3. c \in Seq(SvcChange) /\ Len(c) <= MAX_CHANGES /\ t = SvcPushed(c, ch) /\ ch \in SvcChange
      BY <1>2, <1>3, <2>1, <3>2
    <3>4. SvcTail(t, c, ch)
      BY <3>3, SvcTrim
    <3> QED
      BY <3>2, <3>4 DEF SvcTail
  <2> QED
    BY <2>2
<1>5. x.cursor <= d.rev
  BY DEF Follows
<1>6. ASSUME NEW k \in Keys \ x.dirty
      PROVE  \/ x.cursor < n.rev - Len(t)
             \/ x.known[k] = n.entries[k]
             \/ \E m \in 1 .. Len(t) : t[m].cursor > x.cursor /\ k \in t[m].keys
  <2>1. CASE x.cursor < d.rev - Len(d.changes)
    BY SMTT(30), <1>2, <1>4, <2>1
  <2>2. CASE k \in ch.keys
    <3>1. Len(t) \in 1 .. Len(t) /\ t[Len(t)].cursor > x.cursor /\ k \in t[Len(t)].keys
      BY <1>2, <1>4, <1>5, <2>2
    <3> QED
      BY <3>1
  <2>3. CASE x.known[k] = d.entries[k] /\ k \notin ch.keys
    BY <1>2, <2>3
  <2>4. ASSUME NEW i \in 1 .. Len(d.changes), d.changes[i].cursor > x.cursor, k \in d.changes[i].keys
        PROVE  \/ x.cursor < n.rev - Len(t)
               \/ \E m \in 1 .. Len(t) : t[m].cursor > x.cursor /\ k \in t[m].keys
    <3>1. d.changes[i].cursor = d.rev - Len(d.changes) + i
      BY DEF ChangesOk
    <3>2. PICK m : m = i - (Len(d.changes) + 1 - Len(t))
      OBVIOUS
    <3>3. CASE m = 0
      BY <1>2, <1>4, <2>4, <3>1, <3>2, <3>3
    <3>4. CASE m # 0
      <4>0. PICK lc, lt : lc = Len(d.changes) /\ lt = Len(t)
        OBVIOUS
      <4>a. lc \in Nat /\ lt \in Nat /\ (lt = lc + 1 \/ lt = lc) /\ i \in 1 .. lc /\ m = i - (lc + 1 - lt)
        BY <1>2, <1>4, <3>2, <4>0
      <4>b. m \in 1 .. lt /\ m < lt /\ i = m + (lc + 1 - lt)
        BY <3>4, <4>a
      <4>1. m \in 1 .. Len(t) /\ m < Len(t) /\ i = m + (Len(d.changes) + 1 - Len(t))
        BY <4>0, <4>b
      <4>2. t[m] = d.changes[i]
        BY <1>2, <1>4, <4>1
      <4> QED
        BY <2>4, <4>1, <4>2
    <3> QED
      BY <3>3, <3>4
  <2> QED
    BY <2>1, <2>2, <2>3, <2>4 DEF Follows
<1>7. x.cursor <= n.rev
  BY <1>2, <1>5
<1> QED
  BY <1>3, <1>6, <1>7 DEF Follows

(* The documents of a plugin without files.                                  *)
LEMMA SvcEmpty ==
  /\ StorageDocument \in SvcDoc /\ CredentialDocument \in SvcCreds /\ NoSecret \in SvcSecret /\ NoMeta \in SvcMeta
  /\ DocOk(StorageDocument) /\ CredsOk(CredentialDocument)
<1>1. StorageDocument \in SvcDoc /\ CredentialDocument \in SvcCreds /\ NoSecret \in SvcSecret /\ NoMeta \in SvcMeta
  BY DEF StorageDocument, CredentialDocument, NoSecret, NoMeta, SvcDoc, SvcCreds, SvcSecret, SvcMeta, SvcEntries, Configs, NoValue, Values
<1>2. Cardinality({}) = 0 /\ IsFiniteSet({})
  BY FS_EmptySet
<1>3. Size(StorageDocument.entries) = 0
  <2>1. {k \in Keys : StorageDocument.entries[k] # NoValue} = {}
    BY DEF StorageDocument
  <2> QED
    BY <1>2, <2>1 DEF Size
<1>4. DocOk(StorageDocument)
  <2>1. StorageDocument.rev = 0 /\ Len(StorageDocument.changes) = 0
    BY DEF StorageDocument
  <2> QED
    BY <1>3, <2>1, ServiceConstants DEF DocOk, ChangesOk
<1>5. InUse(CredentialDocument.meta) = {}
  BY DEF InUse, CredentialDocument
<1>6. CredsOk(CredentialDocument)
  BY <1>2, <1>5, ServiceConstants DEF CredsOk, CredentialDocument
<1> QED
  BY <1>1, <1>4, <1>6

(* A call that ends forgets what it had read.                                *)
LEMMA SvcEnds ==
  ASSUME NEW x \in SvcWindow
  PROVE  LET y == Ends(x) IN
         /\ y \in SvcWindow /\ y.pc = "idle" /\ y.cursor = x.cursor /\ y.known = x.known /\ y.dirty = x.dirty
         /\ y.got = x.got /\ y.source = x.source
  BY SvcEmpty DEF Ends, SvcWindow

(* What the invariant says of one window.                                    *)
LEMMA SvcFacts ==
  ASSUME SvcInv, NEW w \in Windows
  PROVE  /\ store \in SvcStore /\ vault \in [Refs -> SvcSecret] /\ win \in [Windows -> SvcWindow] /\ win[w] \in SvcWindow
         /\ WindowOk(w, win[w]) /\ w # "free"
         /\ store.storage \in SvcDoc /\ store.creds \in SvcCreds /\ store.storage.rev \in Nat
         /\ win[w].source \in Sources /\ win[w].source # "none"
         /\ store.storage.entries \in SvcEntries
  BY ServiceConstants DEF SvcInv, SvcTypes, SvcStore, SvcWindow, SvcDoc

(* A step of a window that replaces neither a document nor a secret.         *)
LEMMA SvcMoves ==
  ASSUME SvcInv, NEW w \in Windows, NEW y \in SvcWindow, win' = [win EXCEPT ![w] = y],
         store' \in SvcStore, store'.storage = store.storage, store'.creds = store.creds,
         store.owner = "none" \/ store'.owner = store.owner,
         \A q \in Windows : q # w => (store'.lock = q <=> store.lock = q),
         UNCHANGED vault, hurt \subseteq hurt', win[w].pc = "json" => win[w].ref \in hurt',
         \A q \in Windows : q # w /\ win[q].pc # "idle" => hurt' = hurt,
         WindowOk(w, y)'
  PROVE  SvcInv'
<1>0. /\ win \in [Windows -> SvcWindow] /\ SvcTypes'
  BY DEF SvcInv, SvcTypes
<1>1. win'[w] = y /\ \A q \in Windows : q # w => win'[q] = win[q]
  BY <1>0
<1>2. ASSUME NEW q \in Windows, q # w
      PROVE  WindowOk(q, win[q])'
  <2>1. PICK x : x = win[q]
    OBVIOUS
  <2>2. x \in SvcWindow /\ win'[q] = x /\ WindowOk(q, x) /\ x.source # "none"
    BY <1>0, <1>1, <1>2, <2>1, SvcFacts
  <2>3. x.pc # "idle" => hurt' = hurt
    BY <1>2, <2>1
  <2>4. x.pc \in {"vault", "json"} => Writes(x)'
    <3>1. CASE x.pc = "idle"
      BY <3>1
    <3>2. CASE x.pc # "idle"
      BY <2>2, <2>3, <3>2 DEF WindowOk, Writes
    <3> QED
      BY <3>1, <3>2
  <2>5. Follows(x, store.storage)'
    BY <2>2 DEF WindowOk, Follows
  <2>6. x.pc = "commit" => (x.cursor = store.storage.rev /\ DocOk(x.doc) /\ Later(store.storage, x.doc))'
    BY <2>2 DEF WindowOk, Later
  <2>7. x.got # <<>> => x.got[1] = x.got[2].origin /\ store'.owner = x.source
    BY <2>2 DEF WindowOk
  <2>8. /\ x.pc = "vault" => x.prev = vault'[x.ref]
        /\ x.pc = "json" => x.next = vault'[x.ref]
        /\ x.pc # "idle" <=> store'.lock = q
    BY <1>2, <2>2 DEF WindowOk
  <2>9. WindowOk(q, x)'
    BY <2>4, <2>5, <2>6, <2>7, <2>8 DEF WindowOk
  <2> QED
    BY <2>2, <2>9
<1>3. \A q \in Windows : WindowOk(q, win[q])'
  BY <1>1, <1>2
<1>4. SvcSecrets'
  <2> SUFFICES ASSUME NEW r \in Refs
               PROVE  /\ SameOrigin(vault[r], store.creds.meta[r])
                      /\ \/ r \in hurt'
                         \/ \E q \in Windows : win'[q].pc = "json" /\ win'[q].ref = r
                         \/ vault[r].rev = store.creds.meta[r].updated
    BY DEF SvcSecrets, SameOrigin
  <2>1. /\ SameOrigin(vault[r], store.creds.meta[r])
        /\ \/ r \in hurt
           \/ \E q \in Windows : win[q].pc = "json" /\ win[q].ref = r
           \/ vault[r].rev = store.creds.meta[r].updated
    BY DEF SvcInv, SvcSecrets
  <2> QED
    BY <1>1, <2>1
<1>5. DocOk(store.storage)' /\ CredsOk(store.creds)'
  BY DEF SvcInv, DocOk, CredsOk, ChangesOk
<1> QED
  BY <1>0, <1>3, <1>4, <1>5 DEF SvcInv

(* The namespace is bound to the source of the caller.                       *)
LEMMA SvcOwned ==
  ASSUME SvcInv, NEW w \in Windows, namespace(w)
  PROVE  LET st == Owned(w) IN
         /\ st \in SvcStore /\ st.storage = store.storage /\ st.creds = store.creds /\ st.lock = store.lock
         /\ st.owner = win[w].source /\ st.uses = store.uses
         /\ store.owner = "none" \/ st.owner = store.owner
<1>1. store \in SvcStore /\ win[w].source \in Sources
  BY SvcFacts
<1> QED
  BY <1>1 DEF Owned, SvcStore, namespace

(* A call that only reads: the caller goes on knowing y.                     *)
LEMMA SvcReads ==
  ASSUME SvcInv, NEW w \in Windows, NEW y \in SvcWindow, win' = [win EXCEPT ![w] = y], store' = Owned(w), namespace(w),
         win[w].pc = "idle", y.pc = "idle", y.source = win[w].source, Follows(y, store.storage),
         y.got # <<>> => (y.got = win[w].got \/ y.got[1] = y.got[2].origin),
         UNCHANGED <<vault, hurt>>
  PROVE  SvcInv'
<1>1. /\ store' \in SvcStore /\ store'.storage = store.storage /\ store'.creds = store.creds /\ store'.lock = store.lock
      /\ store'.owner = win[w].source /\ (store.owner = "none" \/ store'.owner = store.owner)
  BY SvcOwned
<1>2. WindowOk(w, win[w])
  BY SvcFacts
<1>3. WindowOk(w, y)'
  <2>1. Follows(y, store.storage)'
    BY <1>1 DEF Follows
  <2>2. y.got # <<>> => y.got[1] = y.got[2].origin /\ store'.owner = y.source
    <3>1. CASE y.got = win[w].got
      BY <1>1, <1>2, <3>1 DEF WindowOk
    <3>2. CASE y.got # win[w].got
      BY <1>1, <3>2
    <3> QED
      BY <3>1, <3>2
  <2>3. store'.lock # w
    BY <1>1, <1>2 DEF WindowOk
  <2>4. y.pc # "commit" /\ y.pc \notin {"vault", "json"} /\ y.pc # "vault" /\ y.pc # "json" /\ ~ (y.pc # "idle")
    OBVIOUS
  <2> QED
    BY <2>1, <2>2, <2>3, <2>4 DEF WindowOk
<1> QED
  BY <1>1, <1>3, SvcMoves

(* A whole snapshot follows its document.                                    *)
LEMMA SvcKnows ==
  ASSUME SvcInv, NEW w \in Windows, NEW d \in SvcDoc
  PROVE  LET y == Knows(w, d) IN
         /\ y \in SvcWindow /\ y.pc = win[w].pc /\ y.source = win[w].source /\ y.got = win[w].got
         /\ y.cursor = d.rev /\ Follows(y, d)
<1>1. win[w] \in SvcWindow /\ d.rev \in Nat /\ d.entries \in SvcEntries
  BY SvcFacts DEF SvcDoc
<1>2. PICK y : y = Knows(w, d)
  OBVIOUS
<1>3. /\ y \in SvcWindow /\ y.pc = win[w].pc /\ y.source = win[w].source /\ y.got = win[w].got
      /\ y.cursor = d.rev /\ y.known = d.entries
  BY <1>1, <1>2 DEF Knows, SvcWindow
<1>4. Follows(y, d)
  BY <1>1, <1>3 DEF Follows
<1> QED
  BY <1>2, <1>3, <1>4

(* snapshot, get and list.                                                   *)
LEMMA SvcSnapshot ==
  ASSUME SvcInv, NEW w \in Windows, snapshot(w) \/ list(w) \/ \E k \in Keys : get(w, k)
  PROVE  SvcInv'
<1>0. /\ win[w] \in SvcWindow /\ store.storage \in SvcDoc /\ store.creds \in SvcCreds /\ store.creds.rev \in Nat
      /\ Follows(win[w], store.storage) /\ store.storage.entries \in SvcEntries
  BY SvcFacts DEF WindowOk, SvcCreds
<1>1. namespace(w) /\ store' = Owned(w) /\ win[w].pc = "idle" /\ UNCHANGED <<vault, hurt>>
  BY DEF snapshot, list, get, Calls
<1>2. CASE snapshot(w)
  <2>1. PICK d : d = store.storage
    OBVIOUS
  <2>2. PICK y : y = Knows(w, d)
    OBVIOUS
  <2>3. /\ y \in SvcWindow /\ y.pc = win[w].pc /\ y.source = win[w].source /\ y.got = win[w].got
        /\ Follows(y, store.storage) /\ win' = [win EXCEPT ![w] = y]
    BY <1>0, <1>2, <2>1, <2>2, SvcKnows DEF snapshot, Goes
  <2> QED
    BY <1>1, <2>3, SvcReads
<1>3. CASE list(w)
  <2>1. PICK y : y = [win[w] EXCEPT !.seen = store.creds.rev]
    OBVIOUS
  <2>2. /\ y \in SvcWindow /\ y.pc = win[w].pc /\ y.source = win[w].source /\ y.got = win[w].got
        /\ y.cursor = win[w].cursor /\ y.known = win[w].known /\ y.dirty = win[w].dirty
        /\ win' = [win EXCEPT ![w] = y]
    BY <1>0, <1>3, <2>1 DEF list, Goes, SvcWindow
  <2>3. Follows(y, store.storage)
    BY <1>0, <2>2 DEF Follows
  <2> QED
    BY <1>1, <2>2, <2>3, SvcReads
<1>4. ASSUME NEW k \in Keys, get(w, k)
      PROVE  SvcInv'
  <2>1. PICK known : known = [win[w].known EXCEPT ![k] = store.storage.entries[k]]
    OBVIOUS
  <2>2. known \in SvcEntries /\ known[k] = store.storage.entries[k] /\ \A j \in Keys : j # k => known[j] = win[w].known[j]
    BY <1>0, <2>1 DEF SvcWindow, SvcEntries
  <2>3. PICK y : y = [win[w] EXCEPT !.known = known, !.dirty = win[w].dirty \ {k}]
    OBVIOUS
  <2>4. /\ y \in SvcWindow /\ y.pc = win[w].pc /\ y.source = win[w].source /\ y.got = win[w].got
        /\ y.cursor = win[w].cursor /\ y.known = known /\ y.dirty = win[w].dirty \ {k}
    BY <1>0, <2>2, <2>3 DEF SvcWindow
  <2>5. win' = [win EXCEPT ![w] = y]
    BY <1>0, <1>4, <2>1, <2>3 DEF get, Goes
  <2>6. Follows(y, store.storage)
    <3>1. y.cursor <= store.storage.rev
      BY <1>0, <2>4 DEF Follows
    <3>2. ASSUME NEW j \in Keys \ y.dirty
          PROVE  \/ y.cursor < store.storage.rev - Len(store.storage.changes)
                 \/ y.known[j] = store.storage.entries[j]
                 \/ \E n \in 1 .. Len(store.storage.changes) :
                       store.storage.changes[n].cursor > y.cursor /\ j \in store.storage.changes[n].keys
      <4>1. CASE j = k
        BY <2>2, <2>4, <4>1
      <4>2. CASE j # k
        BY <1>0, <2>2, <2>4, <4>2 DEF Follows
      <4> QED
        BY <4>1, <4>2
    <3> QED
      BY <3>1, <3>2 DEF Follows
  <2> QED
    BY <1>1, <2>4, <2>5, <2>6, SvcReads
<1> QED
  BY <1>2, <1>3, <1>4

(* resolve, for the bound origin.                                            *)
LEMMA SvcResolves ==
  ASSUME SvcInv, NEW w \in Windows, NEW r \in Refs, NEW o \in Origins, resolve(w, r, o)
  PROVE  SvcInv'
<1>0. /\ win[w] \in SvcWindow /\ Follows(win[w], store.storage) /\ vault[r] \in SvcSecret
  BY SvcFacts DEF WindowOk
<1>1. /\ namespace(w) /\ store' = Owned(w) /\ win[w].pc = "idle" /\ UNCHANGED <<vault, hurt>>
      /\ vault[r] # NoSecret /\ store.creds.meta[r] # NoMeta /\ store.creds.meta[r].origin = o
      /\ win' = [win EXCEPT ![w] = [win[w] EXCEPT !.got = <<o, vault[r]>>]]
  BY DEF resolve, Calls, Goes
<1>2. vault[r].origin = o
  BY <1>1 DEF SvcInv, SvcSecrets, SameOrigin
<1>3. PICK g : g = <<o, vault[r]>>
  OBVIOUS
<1>4. g \in Origins \X SvcSecret /\ g[1] = g[2].origin
  BY <1>0, <1>2, <1>3
<1>5. PICK y : y = [win[w] EXCEPT !.got = g]
  OBVIOUS
<1>6. /\ y \in SvcWindow /\ y.pc = win[w].pc /\ y.source = win[w].source /\ y.got = g
      /\ y.cursor = win[w].cursor /\ y.known = win[w].known /\ y.dirty = win[w].dirty
      /\ win' = [win EXCEPT ![w] = y]
  BY <1>0, <1>1, <1>3, <1>4, <1>5 DEF SvcWindow
<1>7. Follows(y, store.storage)
  BY <1>0, <1>6 DEF Follows
<1> QED
  BY <1>1, <1>4, <1>6, <1>7, SvcReads

(* The page of changes after a cursor.                                       *)
PageIs(d, after, limit, page) ==
    page = {n \in 1 .. Len(d.changes) : d.changes[n].cursor > after /\ d.changes[n].cursor <= after + limit}

(* The first cursor of the history.                                          *)
EarliestIs(d, e) == e = IF d.changes = <<>> THEN d.rev + 1 ELSE d.changes[1].cursor

(* A page ends where its length says, and holds every change up to there.    *)
LEMMA SvcPage ==
  ASSUME NEW d \in SvcDoc, ChangesOk(d), NEW after \in Nat, after <= d.rev, NEW limit \in 1 .. 2,
         NEW earliest, EarliestIs(d, earliest), ~ Forgotten(after, earliest),
         NEW page, PageIs(d, after, limit, page)
  PROVE  /\ Cardinality(page) \in Nat /\ after + Cardinality(page) <= d.rev
         /\ \A n \in 1 .. Len(d.changes) :
               d.changes[n].cursor > after /\ d.changes[n].cursor <= after + Cardinality(page) => n \in page
<1> USE DEF PageIs, EarliestIs
<1>1. PICK v, l : v = d.rev /\ l = Len(d.changes)
  OBVIOUS
<1>2. v \in Nat /\ l \in Nat /\ l <= v /\ (v = 0 <=> l = 0) /\ after <= v
  BY <1>1 DEF SvcDoc, ChangesOk
<1>3. \A n \in 1 .. l : d.changes[n].cursor = v - l + n
  BY <1>1 DEF ChangesOk
<1>4. after + 1 >= v - l + 1
  <2>0. d.changes \in Seq(SvcChange)
    BY DEF SvcDoc
  <2>a. PICK c : c = d.changes
    OBVIOUS
  <2>b. c \in Seq(SvcChange) /\ Len(c) = l
    BY <1>1, <2>0, <2>a
  <2>1. CASE l = 0
    <3>1. c = <<>>
      BY <2>b, <2>1
    <3> QED
      BY <1>1, <1>2, <2>a, <2>1, <3>1 DEF Forgotten
  <2>2. CASE l # 0
    <3>1. d.changes # <<>> /\ d.changes[1].cursor = v - l + 1
      BY <1>1, <1>2, <1>3, <2>2 DEF SvcDoc
    <3> QED
      BY <1>2, <3>1 DEF Forgotten
  <2> QED
    BY <2>1, <2>2
<1>5. PICK a : a = after - (v - l)
  OBVIOUS
<1>6. a \in Nat /\ a <= l
  BY <1>2, <1>4, <1>5
<1>7. PICK b : b = IF a + limit <= l THEN a + limit ELSE l
  OBVIOUS
<1>8. b \in Nat /\ a <= b /\ b <= l /\ b <= a + limit /\ (b = l \/ b = a + limit)
  BY <1>2, <1>6, <1>7
<1>9. page = (a + 1) .. b
  <2>1. \A n \in 1 .. l : (d.changes[n].cursor > after /\ d.changes[n].cursor <= after + limit) <=> (n >= a + 1 /\ n <= b)
    BY <1>2, <1>3, <1>5, <1>6, <1>8
  <2>2. \A n \in 1 .. l : n \in page <=> n >= a + 1 /\ n <= b
    BY <1>1, <2>1
  <2>3. \A n \in page : n \in 1 .. l
    BY <1>1
  <2>4. \A n \in (a + 1) .. b : n \in 1 .. l /\ n >= a + 1 /\ n <= b
    BY <1>2, <1>6, <1>8
  <2>5. \A n \in 1 .. l : n >= a + 1 /\ n <= b => n \in (a + 1) .. b
    BY <1>2, <1>6, <1>8
  <2> QED
    BY <2>2, <2>3, <2>4, <2>5
<1>10. Cardinality(page) = b - a
  <2>1. a + 1 \in Int /\ b \in Int /\ (a + 1 > b => b - a = 0) /\ b - (a + 1) + 1 = b - a
    BY <1>6, <1>8
  <2> QED
    BY <1>9, <2>1, FS_Interval
<1>11. b - a \in Nat /\ after + (b - a) <= v /\ b - a <= limit
  BY <1>2, <1>5, <1>6, <1>8
<1>12. ASSUME NEW n \in 1 .. l, d.changes[n].cursor > after, d.changes[n].cursor <= after + (b - a)
       PROVE  n \in page
  <2>1. d.changes[n].cursor = v - l + n
    BY <1>3
  <2>2. n >= a + 1 /\ n <= b
    BY <1>2, <1>5, <1>6, <1>8, <1>12, <2>1
  <2> QED
    BY <1>2, <1>6, <1>8, <1>9, <2>2
<1> QED
  BY <1>1, <1>10, <1>11, <1>12

(* changes: a page, or a snapshot when the history does not reach back.      *)
LEMMA SvcPages ==
  ASSUME SvcInv, NEW w \in Windows, NEW limit \in 1 .. 2, changes(w, limit)
  PROVE  SvcInv'
<1>1. PICK d : d = store.storage
  OBVIOUS
<1>2. PICK after : after = win[w].cursor
  OBVIOUS
<1>3. PICK page : page = {n \in 1 .. Len(d.changes) : d.changes[n].cursor > after /\ d.changes[n].cursor <= after + limit}
  OBVIOUS
<1>4. PICK earliest : earliest = IF d.changes = <<>> THEN d.rev + 1 ELSE d.changes[1].cursor
  OBVIOUS
<1>5. /\ namespace(w) /\ store' = Owned(w) /\ win[w].pc = "idle" /\ UNCHANGED <<vault, hurt>> /\ after <= d.rev
      /\ Goes(w, IF Forgotten(after, earliest) THEN Knows(w, d)
                 ELSE [win[w] EXCEPT !.cursor = after + Cardinality(page),
                                     !.dirty = win[w].dirty \cup UNION {d.changes[n].keys : n \in page}])
  BY <1>1, <1>2, <1>3, <1>4 DEF changes, Calls
<1>6. win[w] \in SvcWindow /\ d \in SvcDoc /\ Follows(win[w], d) /\ after \in Nat /\ ChangesOk(d)
  BY <1>1, <1>2, SvcFacts DEF WindowOk, SvcWindow, SvcInv, DocOk
<1>7. CASE Forgotten(after, earliest)
  <2>1. PICK y : y = Knows(w, d)
    OBVIOUS
  <2>2. /\ y \in SvcWindow /\ y.pc = win[w].pc /\ y.source = win[w].source /\ y.got = win[w].got
        /\ Follows(y, store.storage) /\ win' = [win EXCEPT ![w] = y]
    BY <1>1, <1>5, <1>6, <1>7, <2>1, SvcKnows DEF Goes
  <2> QED
    BY <1>5, <2>2, SvcReads
<1>8. CASE ~ Forgotten(after, earliest)
  <2>1. PICK told : told = UNION {d.changes[n].keys : n \in page}
    OBVIOUS
  <2>2. PICK c : c = after + Cardinality(page)
    OBVIOUS
  <2>3. /\ c \in Nat /\ c >= after /\ c <= d.rev
        /\ \A n \in 1 .. Len(d.changes) : d.changes[n].cursor > after /\ d.changes[n].cursor <= c => n \in page
    <3>1. after <= d.rev
      BY <1>5
    <3>2. /\ Cardinality(page) \in Nat /\ after + Cardinality(page) <= d.rev
          /\ \A n \in 1 .. Len(d.changes) :
               d.changes[n].cursor > after /\ d.changes[n].cursor <= after + Cardinality(page) => n \in page
      <4>1. PageIs(d, after, limit, page) /\ EarliestIs(d, earliest)
        BY <1>3, <1>4 DEF PageIs, EarliestIs
      <4> QED
        BY <1>6, <1>8, <3>1, <4>1, SvcPage
    <3>3. PICK m : m = Cardinality(page)
      OBVIOUS
    <3>4. m \in Nat /\ c = after + m
      BY <2>2, <3>2, <3>3
    <3> QED
      BY <1>6, <3>2, <3>3, <3>4
  <2>4. told \in SUBSET Keys
    <3>1. PICK s : s = d.changes
      OBVIOUS
    <3>2. s \in Seq(SvcChange)
      BY <1>6, <3>1 DEF SvcDoc
    <3>3. \A n \in 1 .. Len(s) : s[n].keys \in SUBSET Keys
      <4>1. \A n \in 1 .. Len(s) : s[n] \in SvcChange
        BY <3>2
      <4> QED
        BY <4>1 DEF SvcChange
    <3> QED
      <4>1. \A n \in page : n \in 1 .. Len(s)
        BY <1>3, <3>1
      <4> QED
        BY <2>1, <3>1, <3>3, <4>1
  <2>5. PICK y : y = [win[w] EXCEPT !.cursor = c, !.dirty = win[w].dirty \cup told]
    OBVIOUS
  <2>6. /\ y \in SvcWindow /\ y.pc = win[w].pc /\ y.source = win[w].source /\ y.got = win[w].got
        /\ y.cursor = c /\ y.known = win[w].known /\ y.dirty = win[w].dirty \cup told
    BY <1>6, <2>3, <2>4, <2>5 DEF SvcWindow
  <2>7. win' = [win EXCEPT ![w] = y]
    BY <1>5, <1>8, <2>1, <2>2, <2>5 DEF Goes
  <2>8. ASSUME NEW k \in Keys \ y.dirty
        PROVE  \/ y.cursor < d.rev - Len(d.changes)
               \/ y.known[k] = d.entries[k]
               \/ \E n \in 1 .. Len(d.changes) : d.changes[n].cursor > y.cursor /\ k \in d.changes[n].keys
    <3>0. k \notin win[w].dirty /\ k \notin told /\ d.rev - Len(d.changes) \in Int /\ d.rev \in Nat /\ Len(d.changes) \in Nat
      BY <1>6, <2>6 DEF SvcDoc
    <3>1. CASE after < d.rev - Len(d.changes)
      <4>1. PICK v, l : v = d.rev /\ l = Len(d.changes)
        OBVIOUS
      <4>2. l # 0 => d.changes # <<>> /\ d.changes[1].cursor = v - l + 1
        BY <1>6, <3>0, <4>1 DEF ChangesOk
      <4>3. l = 0 => d.changes = <<>>
        <5>1. PICK s : s = d.changes
          OBVIOUS
        <5>2. s \in Seq(SvcChange)
          BY <1>6, <5>1 DEF SvcDoc
        <5>3. Len(s) = 0 => s = <<>>
          BY <5>2
        <5> QED
          BY <4>1, <5>1, <5>3
      <4>4. v \in Nat /\ l \in Nat /\ after < v - l
        BY <3>0, <3>1, <4>1
      <4>5. earliest = v - l + 1
        BY <1>4, <4>1, <4>2, <4>3, <4>4
      <4> QED
        BY <1>6, <1>8, <4>4, <4>5 DEF Forgotten
    <3>2. CASE win[w].known[k] = d.entries[k]
      BY <2>6, <3>2
    <3>3. ASSUME NEW n \in 1 .. Len(d.changes), d.changes[n].cursor > after, k \in d.changes[n].keys
          PROVE  d.changes[n].cursor > c
      <4>1. n \notin page
        BY <2>1, <3>0, <3>3
      <4>2. d.changes[n].cursor \in Nat
        <5>1. PICK s : s = d.changes
          OBVIOUS
        <5>2. s \in Seq(SvcChange) /\ n \in 1 .. Len(s)
          BY <1>6, <5>1 DEF SvcDoc
        <5>3. s[n] \in SvcChange
          BY <5>2
        <5> QED
          BY <5>1, <5>3 DEF SvcChange
      <4> QED
        BY <2>3, <3>3, <4>1, <4>2
    <3> QED
      BY <1>2, <1>6, <2>6, <3>0, <3>1, <3>2, <3>3 DEF Follows
  <2>9. Follows(y, store.storage)
    BY <1>1, <2>3, <2>6, <2>8 DEF Follows
  <2> QED
    BY <1>5, <2>6, <2>7, <2>9, SvcReads
<1> QED
  BY <1>7, <1>8

(* transaction: the new document under the lock, or nothing.                 *)
LEMMA SvcUpdates ==
  ASSUME SvcInv, NEW w \in Windows, NEW ops \in Operations, NEW config \in Configs, transaction(w, ops, config)
  PROVE  SvcInv'
<1>1. PICK d : d = store.storage
  OBVIOUS
<1>2. PICK n : n = Applied(d, ops, config)
  OBVIOUS
<1>3. /\ win[w] \in SvcWindow /\ d \in SvcDoc /\ DocOk(d) /\ WindowOk(w, win[w]) /\ Follows(win[w], d)
      /\ store \in SvcStore /\ w # "free" /\ win[w].source \in Sources
  BY <1>1, SvcFacts DEF WindowOk, SvcInv
<1>4. /\ namespace(w) /\ win[w].pc = "idle" /\ UNCHANGED <<vault, hurt>> /\ store.lock = "free"
      /\ \/ /\ d.rev = win[w].cursor /\ d.rev # MaxRevision /\ n # d /\ Size(n.entries) <= MAX_KEYS
            /\ Goes(w, [win[w] EXCEPT !.pc = "commit", !.doc = n])
            /\ store' = [Owned(w) EXCEPT !.lock = w]
         \/ Goes(w, Knows(w, d)) /\ store' = Owned(w)
         \/ store' = Owned(w) /\ UNCHANGED win
  BY <1>1, <1>2 DEF transaction, Calls, lock_file
<1>5. CASE /\ d.rev = win[w].cursor /\ d.rev # MaxRevision /\ n # d /\ Size(n.entries) <= MAX_KEYS
           /\ Goes(w, [win[w] EXCEPT !.pc = "commit", !.doc = n])
           /\ store' = [Owned(w) EXCEPT !.lock = w]
  <2>1. n \in SvcDoc /\ DocOk(n) /\ Later(d, n)
    BY <1>2, <1>3, <1>5, SvcApplied
  <2>2. PICK y : y = [win[w] EXCEPT !.pc = "commit", !.doc = n]
    OBVIOUS
  <2>3. /\ y \in SvcWindow /\ y.pc = "commit" /\ y.doc = n /\ y.source = win[w].source /\ y.got = win[w].got
        /\ y.cursor = win[w].cursor /\ y.known = win[w].known /\ y.dirty = win[w].dirty
    BY <1>3, <2>1, <2>2 DEF SvcWindow
  <2>4. win' = [win EXCEPT ![w] = y]
    BY <1>5, <2>2 DEF Goes
  <2>5. /\ store' \in SvcStore /\ store'.storage = store.storage /\ store'.creds = store.creds /\ store'.lock = w
        /\ store'.owner = win[w].source /\ (store.owner = "none" \/ store'.owner = store.owner)
    <3>1. PICK st : st = Owned(w)
      OBVIOUS
    <3>2. /\ st \in SvcStore /\ st.storage = store.storage /\ st.creds = store.creds
          /\ st.owner = win[w].source /\ (store.owner = "none" \/ st.owner = store.owner)
      BY <1>4, <3>1, SvcOwned
    <3>3. store' = [st EXCEPT !.lock = w]
      BY <1>5, <3>1
    <3> QED
      BY <3>2, <3>3 DEF SvcStore
  <2>6. WindowOk(w, y)'
    <3>1. Follows(y, store.storage)'
      BY <1>1, <1>3, <2>3, <2>5 DEF Follows
    <3>2. (y.cursor = store.storage.rev /\ DocOk(y.doc) /\ Later(store.storage, y.doc))'
      BY <1>1, <1>5, <2>1, <2>3, <2>5 DEF DocOk, ChangesOk, Later
    <3>3. y.got # <<>> => y.got[1] = y.got[2].origin /\ store'.owner = y.source
      BY <1>3, <2>3, <2>5 DEF WindowOk
    <3>4. y.pc # "idle" /\ y.pc \notin {"vault", "json"} /\ y.pc # "vault" /\ y.pc # "json" /\ store'.lock = w
      BY <2>3, <2>5
    <3> QED
      BY <3>1, <3>2, <3>3, <3>4 DEF WindowOk
  <2>7. \A q \in Windows : q # w => (store'.lock = q <=> store.lock = q)
    BY <1>4, <2>5, ServiceConstants
  <2> QED
    BY <1>4, <2>3, <2>4, <2>5, <2>6, <2>7, SvcMoves
<1>6. CASE Goes(w, Knows(w, d)) /\ store' = Owned(w)
  <2>1. PICK y : y = Knows(w, d)
    OBVIOUS
  <2>2. /\ y \in SvcWindow /\ y.pc = win[w].pc /\ y.source = win[w].source /\ y.got = win[w].got
        /\ Follows(y, store.storage) /\ win' = [win EXCEPT ![w] = y]
    BY <1>1, <1>3, <1>6, <2>1, SvcKnows DEF Goes
  <2> QED
    BY <1>4, <1>6, <2>2, SvcReads
<1>7. CASE store' = Owned(w) /\ UNCHANGED win
  <2>1. PICK y : y = win[w]
    OBVIOUS
  <2>2. win' = [win EXCEPT ![w] = y] /\ y \in SvcWindow /\ y.pc = "idle" /\ y.source = win[w].source /\ Follows(y, store.storage)
    <3>1. win \in [Windows -> SvcWindow]
      BY SvcFacts
    <3> QED
      BY <1>1, <1>3, <1>4, <1>7, <2>1, <3>1
  <2>3. y.got # <<>> => (y.got = win[w].got \/ y.got[1] = y.got[2].origin)
    BY <2>1
  <2> QED
    BY <1>4, <1>7, <2>2, <2>3, SvcReads
<1> QED
  BY <1>4, <1>5, <1>6, <1>7

(* A caller that writes holds the lock, and is the only one.                 *)
LEMMA SvcAlone ==
  ASSUME SvcInv, NEW w \in Windows, win[w].pc # "idle"
  PROVE  /\ store.lock = w /\ \A q \in Windows : q # w => win[q].pc = "idle"
  BY SvcFacts DEF SvcInv, WindowOk

(* The lock is released.                                                     *)
LEMMA SvcRelease ==
  ASSUME SvcInv
  PROVE  LET st == Release(store) IN
         /\ st \in SvcStore /\ st.storage = store.storage /\ st.creds = store.creds /\ st.lock = "free"
         /\ st.owner = store.owner /\ st.uses = store.uses
<1>1. store \in SvcStore
  BY DEF SvcInv, SvcTypes
<1> QED
  BY <1>1 DEF Release, SvcStore

(* A call ends without effect.                                               *)
LEMMA SvcGivesUp ==
  ASSUME SvcInv, NEW w \in Windows, win[w].pc # "idle", NEW x \in SvcWindow, x.cursor = win[w].cursor,
         x.known = win[w].known, x.dirty = win[w].dirty, x.source = win[w].source, x.got = win[w].got,
         win' = [win EXCEPT ![w] = Ends(x)], store' = Release(store), UNCHANGED vault,
         hurt \subseteq hurt', win[w].pc = "json" => win[w].ref \in hurt'
  PROVE  SvcInv'
<1>1. PICK y : y = Ends(x)
  OBVIOUS
<1>2. /\ y \in SvcWindow /\ y.pc = "idle" /\ y.cursor = x.cursor /\ y.known = x.known /\ y.dirty = x.dirty
      /\ y.got = x.got /\ y.source = x.source
  BY <1>1, SvcEnds
<1>3. /\ store' \in SvcStore /\ store'.storage = store.storage /\ store'.creds = store.creds /\ store'.lock = "free"
      /\ store'.owner = store.owner
  BY SvcRelease
<1>4. WindowOk(w, win[w]) /\ w # "free" /\ store.lock = w /\ \A q \in Windows : q # w => win[q].pc = "idle"
  BY SvcFacts, SvcAlone
<1>5. WindowOk(w, y)'
  <2>1. Follows(y, store.storage)'
    BY <1>2, <1>3, <1>4 DEF WindowOk, Follows
  <2>2. y.got # <<>> => y.got[1] = y.got[2].origin /\ store'.owner = y.source
    BY <1>2, <1>3, <1>4 DEF WindowOk
  <2>3. y.pc # "commit" /\ y.pc \notin {"vault", "json"} /\ y.pc # "vault" /\ y.pc # "json" /\ ~ (y.pc # "idle") /\ store'.lock # w
    BY <1>2, <1>3, <1>4
  <2> QED
    BY <2>1, <2>2, <2>3 DEF WindowOk
<1>6. \A q \in Windows : q # w => (store'.lock = q <=> store.lock = q)
  BY <1>3, <1>4, ServiceConstants
<1> QED
  BY <1>1, <1>2, <1>3, <1>4, <1>5, <1>6, SvcMoves

(* A step of the window that holds the lock, whatever it replaces.           *)
LEMMA SvcEffects ==
  ASSUME SvcInv, NEW w \in Windows, win[w].pc # "idle", NEW y \in SvcWindow, win' = [win EXCEPT ![w] = y],
         store' \in SvcStore, vault' \in [Refs -> SvcSecret], store'.owner = store.owner, store'.lock \in {w, "free"},
         DocOk(store.storage)', CredsOk(store.creds)',
         \A q \in Windows : q # w => Follows(win[q], store'.storage),
         WindowOk(w, y)', SvcSecrets'
  PROVE  SvcInv'
<1>0. win \in [Windows -> SvcWindow] /\ SvcTypes'
  BY DEF SvcInv, SvcTypes
<1>1. win'[w] = y /\ \A q \in Windows : q # w => win'[q] = win[q]
  BY <1>0
<1>2. ASSUME NEW q \in Windows, q # w
      PROVE  WindowOk(q, win[q])'
  <2>1. PICK x : x = win[q]
    OBVIOUS
  <2>2. x \in SvcWindow /\ win'[q] = x /\ WindowOk(q, x) /\ x.pc = "idle" /\ q # "free"
    BY <1>0, <1>1, <1>2, <2>1, SvcFacts, SvcAlone
  <2>3. Follows(x, store.storage)'
    BY <1>2, <2>1 DEF Follows
  <2>4. x.got # <<>> => x.got[1] = x.got[2].origin /\ store'.owner = x.source
    BY <2>2 DEF WindowOk
  <2>5. x.pc # "commit" /\ x.pc \notin {"vault", "json"} /\ x.pc # "vault" /\ x.pc # "json" /\ ~ (x.pc # "idle") /\ store'.lock # q
    BY <1>2, <2>2
  <2>6. WindowOk(q, x)'
    BY <2>3, <2>4, <2>5 DEF WindowOk
  <2> QED
    BY <2>2, <2>6
<1>3. \A q \in Windows : WindowOk(q, win[q])'
  BY <1>1, <1>2
<1> QED
  BY <1>0, <1>3 DEF SvcInv

(* atomic_json: the document is replaced.                                    *)
LEMMA SvcCommits ==
  ASSUME SvcInv, NEW w \in Windows, atomic_json(w)
  PROVE  SvcInv'
<1>1. PICK n : n = win[w].doc
  OBVIOUS
<1>2. /\ win[w].pc = "commit" /\ win[w] \in SvcWindow /\ n \in SvcDoc /\ DocOk(n) /\ Later(store.storage, n)
      /\ WindowOk(w, win[w]) /\ store.storage \in SvcDoc /\ ChangesOk(store.storage) /\ ChangesOk(n)
  BY <1>1, SvcFacts DEF atomic_json, WindowOk, SvcWindow, SvcInv, DocOk
<1>3. PICK x : x = Knows(w, n)
  OBVIOUS
<1>4. PICK y : y = Ends(x)
  OBVIOUS
<1>5. x \in SvcWindow /\ x.source = win[w].source /\ x.got = win[w].got /\ Follows(x, n)
  BY <1>2, <1>3, SvcKnows
<1>6. /\ y \in SvcWindow /\ y.pc = "idle" /\ y.source = win[w].source /\ y.got = win[w].got
      /\ y.cursor = x.cursor /\ y.known = x.known /\ y.dirty = x.dirty
  BY <1>4, <1>5, SvcEnds
<1>7. Follows(y, n)
  BY <1>5, <1>6 DEF Follows
<1>8. win' = [win EXCEPT ![w] = y] /\ UNCHANGED <<vault, hurt>>
  BY <1>1, <1>3, <1>4 DEF atomic_json, Goes
<1>9. /\ store' \in SvcStore /\ store'.storage = n /\ store'.creds = store.creds /\ store'.lock = "free"
      /\ store'.owner = store.owner
  <2>1. PICK st : st = Release(store)
    OBVIOUS
  <2>2. st \in SvcStore /\ st.creds = store.creds /\ st.lock = "free" /\ st.owner = store.owner
    BY <2>1, SvcRelease
  <2>3. store' = [st EXCEPT !.storage = n]
    BY <1>1, <2>1 DEF atomic_json
  <2> QED
    BY <1>2, <2>2, <2>3 DEF SvcStore
<1>10. \A q \in Windows : q # w => Follows(win[q], store'.storage)
  <2>1. ASSUME NEW q \in Windows
        PROVE  Follows(win[q], n)
    <3>1. PICK z, d : z = win[q] /\ d = store.storage
      OBVIOUS
    <3>2. z \in SvcWindow /\ d \in SvcDoc /\ Follows(z, d) /\ ChangesOk(d) /\ Later(d, n)
      BY <1>2, <3>1, SvcFacts DEF WindowOk
    <3>3. Follows(z, n)
      BY <1>2, <3>2, SvcFollows
    <3> QED
      BY <3>1, <3>3
  <2> QED
    BY <1>9, <2>1
<1>11. WindowOk(w, y)'
  <2>1. Follows(y, store.storage)'
    BY <1>7, <1>9 DEF Follows
  <2>2. y.got # <<>> => y.got[1] = y.got[2].origin /\ store'.owner = y.source
    BY <1>2, <1>6, <1>9 DEF WindowOk
  <2>3. y.pc # "commit" /\ y.pc \notin {"vault", "json"} /\ y.pc # "vault" /\ y.pc # "json" /\ ~ (y.pc # "idle") /\ store'.lock # w
    BY <1>6, <1>9, SvcFacts
  <2> QED
    BY <2>1, <2>2, <2>3 DEF WindowOk
<1>12. SvcSecrets'
  <2>1. \A q \in Windows : win[q].pc # "json"
    BY <1>2, SvcAlone
  <2>2. \A r \in Refs : SameOrigin(vault[r], store.creds.meta[r]) /\ (r \in hurt \/ vault[r].rev = store.creds.meta[r].updated)
    BY <2>1 DEF SvcInv, SvcSecrets
  <2> QED
    BY <1>8, <1>9, <2>2 DEF SvcSecrets, SameOrigin
<1>13. DocOk(store.storage)' /\ CredsOk(store.creds)'
  BY <1>2, <1>9 DEF SvcInv, CredsOk, DocOk, ChangesOk
<1>14. vault' \in [Refs -> SvcSecret]
  BY <1>8, SvcFacts
<1> QED
  BY <1>2, <1>6, <1>8, <1>9, <1>10, <1>11, <1>12, <1>13, <1>14, SvcEffects

(* The document cannot be written, or the process dies.                      *)
LEMMA SvcFails ==
  ASSUME SvcInv, NEW w \in Windows, CommitFails(w) \/ Dies(w)
  PROVE  SvcInv'
<1>1. win[w] \in SvcWindow
  BY SvcFacts
<1>2. CASE CommitFails(w)
  <2>1. PICK x : x = win[w]
    OBVIOUS
  <2>2. /\ x \in SvcWindow /\ win[w].pc = "commit" /\ win' = [win EXCEPT ![w] = Ends(x)] /\ store' = Release(store)
        /\ UNCHANGED vault /\ hurt' = hurt
    BY <1>1, <1>2, <2>1 DEF CommitFails, Goes
  <2> QED
    BY <2>1, <2>2, SvcGivesUp
<1>3. CASE Dies(w)
  <2>1. PICK x : x = [win[w] EXCEPT !.alive = FALSE]
    OBVIOUS
  <2>2. /\ x \in SvcWindow /\ x.cursor = win[w].cursor /\ x.known = win[w].known /\ x.dirty = win[w].dirty
        /\ x.source = win[w].source /\ x.got = win[w].got
    BY <1>1, <2>1 DEF SvcWindow
  <2>3. /\ win[w].pc # "idle" /\ win' = [win EXCEPT ![w] = Ends(x)] /\ store' = Release(store)
        /\ UNCHANGED vault /\ hurt \subseteq hurt' /\ (win[w].pc = "json" => win[w].ref \in hurt')
    BY <1>3, <2>1 DEF Dies, Goes
  <2> QED
    BY <2>2, <2>3, SvcGivesUp
<1> QED
  BY <1>2, <1>3

(* put and remove, under the lock, with what they are going to write.        *)
LEMMA SvcLocks ==
  ASSUME SvcInv, NEW w \in Windows, NEW r \in Refs, NEW doc \in SvcCreds, NEW secret \in SvcSecret,
         Calls(w, "credentials"), lock_file(w), Locked(w, "vault", r, doc, secret),
         CredsOk(doc), \A q \in Refs : q # r => doc.meta[q] = store.creds.meta[q],
         secret.rev = doc.meta[r].updated, SameOrigin(secret, doc.meta[r]), SameOrigin(secret, store.creds.meta[r])
  PROVE  SvcInv'
<1>1. /\ win[w] \in SvcWindow /\ WindowOk(w, win[w]) /\ vault \in [Refs -> SvcSecret] /\ w # "free"
      /\ store \in SvcStore /\ namespace(w) /\ win[w].pc = "idle" /\ store.lock = "free" /\ UNCHANGED <<vault, hurt>>
  BY SvcFacts DEF Calls, lock_file, Locked
<1>2. PICK y : y = [win[w] EXCEPT !.pc = "vault", !.ref = r, !.cdoc = doc, !.prev = vault[r], !.next = secret]
  OBVIOUS
<1>3. /\ y \in SvcWindow /\ y.pc = "vault" /\ y.ref = r /\ y.cdoc = doc /\ y.prev = vault[r] /\ y.next = secret
      /\ y.source = win[w].source /\ y.got = win[w].got
      /\ y.cursor = win[w].cursor /\ y.known = win[w].known /\ y.dirty = win[w].dirty
  BY <1>1, <1>2 DEF SvcWindow
<1>4. win' = [win EXCEPT ![w] = y]
  BY <1>2 DEF Locked, Goes
<1>5. /\ store' \in SvcStore /\ store'.storage = store.storage /\ store'.creds = store.creds /\ store'.lock = w
      /\ store'.owner = win[w].source /\ (store.owner = "none" \/ store'.owner = store.owner)
  <2>1. PICK st : st = Owned(w)
    OBVIOUS
  <2>2. /\ st \in SvcStore /\ st.storage = store.storage /\ st.creds = store.creds
        /\ st.owner = win[w].source /\ (store.owner = "none" \/ st.owner = store.owner)
    BY <1>1, <2>1, SvcOwned
  <2>3. store' = [st EXCEPT !.lock = w]
    BY <2>1 DEF Locked
  <2> QED
    BY <2>2, <2>3 DEF SvcStore
<1>6. \A q \in Windows : win[q].pc = "idle"
  BY <1>1, ServiceConstants, SvcFacts DEF SvcInv, WindowOk
<1>7. SameOrigin(vault[r], store.creds.meta[r]) /\ (r \in hurt \/ vault[r].rev = store.creds.meta[r].updated)
  BY <1>6 DEF SvcInv, SvcSecrets
<1>8. Writes(y)'
  BY <1>1, <1>3, <1>5, <1>7 DEF Writes, SameOrigin, CredsOk
<1>9. WindowOk(w, y)'
  <2>1. Follows(y, store.storage)'
    BY <1>1, <1>3, <1>5 DEF WindowOk, Follows
  <2>2. y.got # <<>> => y.got[1] = y.got[2].origin /\ store'.owner = y.source
    BY <1>1, <1>3, <1>5 DEF WindowOk
  <2>3. y.pc # "commit" /\ y.pc # "json" /\ y.pc # "idle" /\ store'.lock = w /\ y.prev = vault'[y.ref]
    BY <1>1, <1>3, <1>5
  <2> QED
    BY <1>8, <2>1, <2>2, <2>3 DEF WindowOk
<1>10. \A q \in Windows : q # w => (store'.lock = q <=> store.lock = q)
  BY <1>1, <1>5, ServiceConstants
<1> QED
  BY <1>1, <1>3, <1>4, <1>5, <1>9, <1>10, SvcMoves

(* put.                                                                      *)
LEMMA SvcPuts ==
  ASSUME SvcInv, NEW w \in Windows, NEW r \in Refs, NEW o \in Origins, put(w, r, o)
  PROVE  SvcInv'
<1>1. PICK c : c = store.creds
  OBVIOUS
<1>2. PICK v : v = c.rev
  OBVIOUS
<1>3. c \in SvcCreds /\ v \in Nat /\ CredsOk(c) /\ v <= MaxRevision /\ MaxRevision \in Nat /\ MAX_CREDENTIALS \in Nat
  BY <1>1, <1>2, SvcFacts, ServiceConstants DEF SvcInv, CredsOk, SvcCreds
<1>4. /\ Calls(w, "credentials") /\ lock_file(w) /\ v # MaxRevision
      /\ \/ c.meta[r] # NoMeta /\ c.meta[r].origin = o
         \/ Cardinality(InUse(c.meta)) < MAX_CREDENTIALS /\ c.meta[r] = NoMeta
      /\ Locked(w, "vault", r, PutMeta(r, o), [origin |-> o, rev |-> v + 1])
  BY <1>1, <1>2 DEF put, check_revision, new_reference, InUse
<1>5. PICK m : m = [origin |-> o, updated |-> v + 1, created |-> IF c.meta[r] = NoMeta THEN v + 1 ELSE c.meta[r].created]
  OBVIOUS
<1>6. c.meta[r] \in SvcMeta /\ (c.meta[r] # NoMeta => c.meta[r].created > 0 /\ c.meta[r].created <= v)
  <2>1. c.meta[r] \in SvcMeta
    BY <1>3 DEF SvcCreds
  <2>2. c.meta[r] # NoMeta => c.meta[r].created > 0 /\ c.meta[r].created <= c.meta[r].updated /\ c.meta[r].updated <= v
    BY <1>2, <1>3 DEF CredsOk, InUse
  <2> QED
    BY <1>3, <2>1, <2>2 DEF SvcMeta
<1>7. m \in SvcMeta /\ m.origin = o /\ m.created > 0 /\ m.created <= m.updated /\ m.updated = v + 1 /\ m # NoMeta
  BY <1>3, <1>5, <1>6, ServiceConstants DEF SvcMeta, NoMeta
<1>8. PICK doc : doc = PutMeta(r, o)
  OBVIOUS
<1>9. doc = [c EXCEPT !.rev = v + 1, !.meta[r] = m]
  BY <1>1, <1>2, <1>5, <1>8 DEF PutMeta
<1>10. /\ doc \in SvcCreds /\ doc.rev = v + 1 /\ doc.meta[r] = m /\ \A q \in Refs : q # r => doc.meta[q] = c.meta[q]
  <2>1. PICK meta : meta = [c.meta EXCEPT ![r] = m]
    OBVIOUS
  <2>2. c.meta \in [Refs -> SvcMeta] /\ v + 1 \in Nat
    BY <1>3 DEF SvcCreds
  <2>3. meta \in [Refs -> SvcMeta] /\ meta[r] = m /\ \A q \in Refs : q # r => meta[q] = c.meta[q]
    BY <1>7, <2>1, <2>2
  <2>4. doc = [c EXCEPT !.rev = v + 1, !.meta = meta]
    BY <1>9, <2>1
  <2>5. doc = [rev |-> v + 1, meta |-> meta]
    BY <1>3, <2>4 DEF SvcCreds
  <2> QED
    BY <2>2, <2>3, <2>5 DEF SvcCreds
<1>11. CredsOk(doc)
  <2>1. InUse(doc.meta) = InUse(c.meta) \cup {r}
    BY <1>7, <1>10 DEF InUse
  <2>2. IsFiniteSet(InUse(c.meta)) /\ Cardinality(InUse(c.meta)) <= MAX_CREDENTIALS
    BY <1>3 DEF CredsOk
  <2>3. IsFiniteSet(InUse(doc.meta)) /\ Cardinality(InUse(doc.meta)) <= MAX_CREDENTIALS
    <3>1. CASE c.meta[r] # NoMeta
      <4>1. InUse(doc.meta) = InUse(c.meta)
        BY <2>1, <3>1 DEF InUse
      <4> QED
        BY <2>2, <4>1
    <3>2. CASE Cardinality(InUse(c.meta)) < MAX_CREDENTIALS /\ c.meta[r] = NoMeta
      <4>1. r \notin InUse(c.meta)
        BY <3>2 DEF InUse
      <4>2. Cardinality(InUse(doc.meta)) = Cardinality(InUse(c.meta)) + 1 /\ IsFiniteSet(InUse(doc.meta))
        BY <2>1, <2>2, <4>1, FS_AddElement
      <4>3. Cardinality(InUse(c.meta)) \in Nat
        BY <2>2, FS_CardinalityType
      <4> QED
        BY <1>3, <3>2, <4>2, <4>3
    <3> QED
      BY <1>4, <3>1, <3>2
  <2>4. ASSUME NEW q \in InUse(doc.meta)
        PROVE  doc.meta[q].created > 0 /\ doc.meta[q].created <= doc.meta[q].updated /\ doc.meta[q].updated <= doc.rev
    <3>1. CASE q = r
      BY <1>3, <1>7, <1>10, <3>1
    <3>2. CASE q # r
      <4>1. q \in InUse(c.meta) /\ q \in Refs /\ doc.meta[q] = c.meta[q]
        BY <1>10, <2>1, <3>2 DEF InUse
      <4>2. c.meta[q].created > 0 /\ c.meta[q].created <= c.meta[q].updated /\ c.meta[q].updated <= v
        BY <1>2, <1>3, <4>1 DEF CredsOk
      <4>3. c.meta[q].updated \in Nat
        BY <1>3, <4>1 DEF SvcCreds, SvcMeta
      <4> QED
        BY <1>3, <1>10, <4>1, <4>2, <4>3
    <3> QED
      BY <3>1, <3>2
  <2> QED
    BY <1>3, <1>4, <1>10, <2>3, <2>4 DEF CredsOk
<1>12. PICK secret : secret = [origin |-> o, rev |-> v + 1]
  OBVIOUS
<1>13. secret \in SvcSecret /\ secret.rev = doc.meta[r].updated /\ SameOrigin(secret, doc.meta[r]) /\ SameOrigin(secret, store.creds.meta[r])
  BY <1>1, <1>3, <1>4, <1>7, <1>10, <1>12 DEF SvcSecret, SameOrigin
<1> QED
  BY <1>1, <1>4, <1>8, <1>10, <1>11, <1>12, <1>13, SvcLocks

(* remove.                                                                   *)
LEMMA SvcRemoves ==
  ASSUME SvcInv, NEW w \in Windows, NEW r \in Refs, remove(w, r)
  PROVE  SvcInv'
<1>1. PICK c : c = store.creds
  OBVIOUS
<1>2. PICK v : v = c.rev
  OBVIOUS
<1>3. c \in SvcCreds /\ v \in Nat /\ CredsOk(c) /\ v <= MaxRevision /\ MaxRevision \in Nat /\ MAX_CREDENTIALS \in Nat
  BY <1>1, <1>2, SvcFacts, ServiceConstants DEF SvcInv, CredsOk, SvcCreds
<1>4. PICK doc : doc = [c EXCEPT !.rev = v + 1, !.meta[r] = NoMeta]
  OBVIOUS
<1>5. /\ Calls(w, "credentials") /\ lock_file(w) /\ v # MaxRevision /\ c.meta[r] # NoMeta
      /\ Locked(w, "vault", r, doc, NoSecret)
  BY <1>1, <1>2, <1>4 DEF remove, check_revision
<1>6. /\ doc \in SvcCreds /\ doc.rev = v + 1 /\ doc.meta[r] = NoMeta /\ \A q \in Refs : q # r => doc.meta[q] = c.meta[q]
  <2>1. PICK meta : meta = [c.meta EXCEPT ![r] = NoMeta]
    OBVIOUS
  <2>2. c.meta \in [Refs -> SvcMeta] /\ v + 1 \in Nat
    BY <1>3 DEF SvcCreds
  <2>3. meta \in [Refs -> SvcMeta] /\ meta[r] = NoMeta /\ \A q \in Refs : q # r => meta[q] = c.meta[q]
    BY <2>1, <2>2, SvcEmpty
  <2>4. doc = [c EXCEPT !.rev = v + 1, !.meta = meta]
    BY <1>4, <2>1
  <2>5. doc = [rev |-> v + 1, meta |-> meta]
    BY <1>3, <2>4 DEF SvcCreds
  <2> QED
    BY <2>2, <2>3, <2>5 DEF SvcCreds
<1>7. CredsOk(doc)
  <2>1. InUse(doc.meta) \subseteq InUse(c.meta)
    BY <1>6 DEF InUse
  <2>2. IsFiniteSet(InUse(c.meta)) /\ Cardinality(InUse(c.meta)) <= MAX_CREDENTIALS
    BY <1>3 DEF CredsOk
  <2>3. IsFiniteSet(InUse(doc.meta)) /\ Cardinality(InUse(doc.meta)) <= Cardinality(InUse(c.meta))
    BY <2>1, <2>2, FS_Subset
  <2>4. Cardinality(InUse(doc.meta)) \in Nat /\ Cardinality(InUse(c.meta)) \in Nat
    BY <2>2, <2>3, FS_CardinalityType
  <2>5. ASSUME NEW q \in InUse(doc.meta)
        PROVE  doc.meta[q].created > 0 /\ doc.meta[q].created <= doc.meta[q].updated /\ doc.meta[q].updated <= doc.rev
    <3>1. q \in InUse(c.meta) /\ q \in Refs /\ doc.meta[q] = c.meta[q]
      BY <1>6, <2>1 DEF InUse
    <3>2. c.meta[q].created > 0 /\ c.meta[q].created <= c.meta[q].updated /\ c.meta[q].updated <= v
      BY <1>2, <1>3, <3>1 DEF CredsOk
    <3>3. c.meta[q].updated \in Nat
      BY <1>3, <3>1 DEF SvcCreds, SvcMeta
    <3> QED
      BY <1>3, <1>6, <3>1, <3>2, <3>3
  <2> QED
    BY <1>3, <1>5, <1>6, <2>2, <2>3, <2>4, <2>5 DEF CredsOk
<1>8. NoSecret \in SvcSecret /\ NoSecret.rev = doc.meta[r].updated /\ SameOrigin(NoSecret, doc.meta[r]) /\ SameOrigin(NoSecret, store.creds.meta[r])
  BY <1>6, SvcEmpty DEF NoSecret, NoMeta, SameOrigin
<1> QED
  BY <1>1, <1>5, <1>6, <1>7, <1>8, SvcLocks

(* What holds while a writer is between the secret and the metadata.         *)
LEMMA SvcWriter ==
  ASSUME SvcInv, NEW w \in Windows, win[w].pc \in {"vault", "json"}
  PROVE  /\ win[w] \in SvcWindow /\ Writes(win[w]) /\ WindowOk(w, win[w]) /\ win[w].ref \in Refs
         /\ \A q \in Windows : win[q].pc = "json" => q = w
         /\ \A r \in Refs : \/ r \in hurt
                            \/ win[w].pc = "json" /\ r = win[w].ref
                            \/ vault[r].rev = store.creds.meta[r].updated
         /\ \A r \in Refs : SameOrigin(vault[r], store.creds.meta[r])
<1>1. win[w] \in SvcWindow /\ Writes(win[w]) /\ WindowOk(w, win[w]) /\ win[w].ref \in Refs
  BY SvcFacts DEF WindowOk, Writes
<1>2. \A q \in Windows : win[q].pc = "json" => q = w
  BY SvcAlone
<1> QED
  BY <1>1, <1>2 DEF SvcInv, SvcSecrets

(* The vault takes the secret, or the call fails.                            *)
LEMMA SvcBackend ==
  ASSUME SvcInv, NEW w \in Windows, Backend(w)
  PROVE  SvcInv'
<1>1. PICK x : x = win[w]
  OBVIOUS
<1>2. /\ x \in SvcWindow /\ x.pc = "vault" /\ Writes(x) /\ WindowOk(w, x) /\ x.ref \in Refs /\ x.next \in SvcSecret
      /\ vault \in [Refs -> SvcSecret] /\ store \in SvcStore /\ store.lock = w
  BY <1>1, SvcWriter, SvcFacts, SvcAlone DEF Backend, SvcWindow
<1>3. CASE store' = Release(store) /\ Goes(w, Ends(win[w])) /\ UNCHANGED vault /\ UNCHANGED hurt
  <2>1. win' = [win EXCEPT ![w] = Ends(x)] /\ hurt' = hurt /\ win[w].pc = "vault"
    BY <1>1, <1>2, <1>3 DEF Goes
  <2> QED
    BY <1>1, <1>2, <1>3, <2>1, SvcGivesUp
<1>4. CASE /\ vault' = [vault EXCEPT ![win[w].ref] = win[w].next]
           /\ Goes(w, [win[w] EXCEPT !.pc = "json"]) /\ UNCHANGED store /\ UNCHANGED hurt
  <2>1. PICK y : y = [x EXCEPT !.pc = "json"]
    OBVIOUS
  <2>2. /\ y \in SvcWindow /\ y.pc = "json" /\ y.ref = x.ref /\ y.cdoc = x.cdoc /\ y.prev = x.prev /\ y.next = x.next
        /\ y.source = x.source /\ y.got = x.got /\ y.cursor = x.cursor /\ y.known = x.known /\ y.dirty = x.dirty
    BY <1>2, <2>1 DEF SvcWindow
  <2>3. win' = [win EXCEPT ![w] = y] /\ win'[w] = y
    BY <1>1, <1>4, <2>1, SvcFacts DEF Goes
  <2>4. /\ vault' \in [Refs -> SvcSecret] /\ vault'[x.ref] = x.next /\ \A r \in Refs : r # x.ref => vault'[r] = vault[r]
    BY <1>1, <1>2, <1>4
  <2>5. Writes(y)'
    BY <1>2, <1>4, <2>2 DEF Writes, CredsOk, SameOrigin
  <2>6. WindowOk(w, y)'
    <3>1. Follows(y, store.storage)'
      BY <1>2, <1>4, <2>2 DEF WindowOk, Follows
    <3>2. y.got # <<>> => y.got[1] = y.got[2].origin /\ store'.owner = y.source
      BY <1>2, <1>4, <2>2 DEF WindowOk
    <3>3. y.pc # "commit" /\ y.pc # "vault" /\ y.pc # "idle" /\ store'.lock = w /\ y.next = vault'[y.ref]
      BY <1>2, <1>4, <2>2, <2>4
    <3> QED
      BY <2>5, <3>1, <3>2, <3>3 DEF WindowOk
  <2>7. SvcSecrets'
    <3> SUFFICES ASSUME NEW r \in Refs
                 PROVE  /\ SameOrigin(vault'[r], store.creds.meta[r])
                        /\ \/ r \in hurt
                           \/ \E q \in Windows : win'[q].pc = "json" /\ win'[q].ref = r
                           \/ vault'[r].rev = store.creds.meta[r].updated
      BY <1>4 DEF SvcSecrets, SameOrigin
    <3>1. CASE r = x.ref
      BY <1>2, <2>2, <2>3, <2>4, <3>1 DEF Writes
    <3>2. CASE r # x.ref
      BY <1>1, <1>2, <2>4, <3>2, SvcWriter
    <3> QED
      BY <3>1, <3>2
  <2>8. DocOk(store.storage)' /\ CredsOk(store.creds)'
    BY <1>4 DEF SvcInv, DocOk, CredsOk, ChangesOk
  <2>9. \A q \in Windows : q # w => Follows(win[q], store'.storage)
    BY <1>4, SvcFacts DEF WindowOk
  <2>10. store' \in SvcStore /\ store'.owner = store.owner /\ store'.lock \in {w, "free"}
    BY <1>2, <1>4
  <2>11. win[w].pc # "idle"
    BY <1>1, <1>2
  <2> QED
    BY <2>2, <2>3, <2>4, <2>6, <2>7, <2>8, <2>9, <2>10, <2>11, SvcEffects
<1> QED
  BY <1>3, <1>4 DEF Backend

(* A writer ends its call, whatever became of the credentials.               *)
LEMMA SvcEnded ==
  ASSUME SvcInv, NEW w \in Windows, win[w].pc # "idle", NEW x \in SvcWindow, x.cursor = win[w].cursor,
         x.known = win[w].known, x.dirty = win[w].dirty, x.source = win[w].source, x.got = win[w].got,
         win' = [win EXCEPT ![w] = Ends(x)],
         store' \in SvcStore, store'.storage = store.storage, store'.lock = "free", store'.owner = store.owner,
         vault' \in [Refs -> SvcSecret], CredsOk(store.creds)', SvcSecrets'
  PROVE  SvcInv'
<1>1. PICK y : y = Ends(x)
  OBVIOUS
<1>2. /\ y \in SvcWindow /\ y.pc = "idle" /\ y.cursor = x.cursor /\ y.known = x.known /\ y.dirty = x.dirty
      /\ y.got = x.got /\ y.source = x.source
  BY <1>1, SvcEnds
<1>3. WindowOk(w, win[w]) /\ w # "free"
  BY SvcFacts
<1>4. WindowOk(w, y)'
  <2>1. Follows(y, store.storage)'
    BY <1>2, <1>3 DEF WindowOk, Follows
  <2>2. y.got # <<>> => y.got[1] = y.got[2].origin /\ store'.owner = y.source
    BY <1>2, <1>3 DEF WindowOk
  <2>3. y.pc # "commit" /\ y.pc \notin {"vault", "json"} /\ y.pc # "vault" /\ y.pc # "json" /\ ~ (y.pc # "idle") /\ store'.lock # w
    BY <1>2, <1>3
  <2> QED
    BY <2>1, <2>2, <2>3 DEF WindowOk
<1>5. \A q \in Windows : q # w => Follows(win[q], store'.storage)
  BY SvcFacts DEF WindowOk
<1>6. DocOk(store.storage)'
  BY DEF SvcInv, DocOk, ChangesOk
<1>7. win' = [win EXCEPT ![w] = y] /\ store'.lock \in {w, "free"}
  BY <1>1
<1> QED
  BY <1>2, <1>4, <1>5, <1>6, <1>7, SvcEffects

(* The metadata are written, or the secret is put back.                      *)
LEMMA SvcMetadata ==
  ASSUME SvcInv, NEW w \in Windows, CommitMetadata(w) \/ Rollback(w)
  PROVE  SvcInv'
<1>1. PICK x : x = win[w]
  OBVIOUS
<1>2. /\ x \in SvcWindow /\ x.pc = "json" /\ Writes(x) /\ WindowOk(w, x) /\ x.ref \in Refs /\ x.prev \in SvcSecret
      /\ vault \in [Refs -> SvcSecret] /\ store \in SvcStore /\ x.next = vault[x.ref] /\ x.cdoc \in SvcCreds
  BY <1>1, SvcWriter, SvcFacts DEF CommitMetadata, Rollback, SvcWindow, WindowOk
<1>3. PICK st : st = Release(store)
  OBVIOUS
<1>4. /\ st \in SvcStore /\ st.storage = store.storage /\ st.creds = store.creds /\ st.lock = "free" /\ st.owner = store.owner
  BY <1>3, SvcRelease
<1>5. /\ \A r \in Refs : r # x.ref => r \in hurt \/ vault[r].rev = store.creds.meta[r].updated
      /\ \A r \in Refs : SameOrigin(vault[r], store.creds.meta[r])
  BY <1>1, <1>2, SvcWriter
<1>6. CASE CommitMetadata(w)
  <2>1. store' = [st EXCEPT !.creds = x.cdoc] /\ UNCHANGED <<vault, hurt>>
    BY <1>1, <1>3, <1>6 DEF CommitMetadata
  <2>2. /\ store' \in SvcStore /\ store'.storage = store.storage /\ store'.creds = x.cdoc /\ store'.lock = "free"
        /\ store'.owner = store.owner
    BY <1>2, <1>4, <2>1 DEF SvcStore
  <2>3. PICK z : z = [x EXCEPT !.seen = x.cdoc.rev]
    OBVIOUS
  <2>4. /\ z \in SvcWindow /\ z.cursor = x.cursor /\ z.known = x.known /\ z.dirty = x.dirty
        /\ z.source = x.source /\ z.got = x.got
    BY <1>2, <2>3 DEF SvcWindow, SvcCreds
  <2>5. win' = [win EXCEPT ![w] = Ends(z)]
    BY <1>1, <1>6, <2>3 DEF CommitMetadata, Goes
  <2>6. CredsOk(store.creds)'
    BY <1>2, <2>2 DEF Writes, CredsOk
  <2>7. SvcSecrets'
    <3> SUFFICES ASSUME NEW r \in Refs
                 PROVE  /\ SameOrigin(vault[r], x.cdoc.meta[r])
                        /\ r \in hurt \/ vault[r].rev = x.cdoc.meta[r].updated
      BY <2>1, <2>2 DEF SvcSecrets, SameOrigin
    <3>1. CASE r = x.ref
      BY <1>2, <3>1 DEF Writes
    <3>2. CASE r # x.ref
      BY <1>2, <1>5, <3>2 DEF Writes
    <3> QED
      BY <3>1, <3>2
  <2> QED
    BY <1>1, <1>2, <2>1, <2>2, <2>4, <2>5, <2>6, <2>7, SvcEnded
<1>7. CASE Rollback(w) /\ vault' = [vault EXCEPT ![win[w].ref] = win[w].prev] /\ UNCHANGED hurt
  <2>1. store' = st /\ win' = [win EXCEPT ![w] = Ends(x)]
    BY <1>1, <1>3, <1>7 DEF Rollback, Goes
  <2>2. /\ vault' \in [Refs -> SvcSecret] /\ vault'[x.ref] = x.prev /\ \A r \in Refs : r # x.ref => vault'[r] = vault[r]
    BY <1>1, <1>2, <1>7
  <2>3. CredsOk(store.creds)'
    BY <1>4, <2>1 DEF SvcInv, CredsOk
  <2>4. SvcSecrets'
    <3> SUFFICES ASSUME NEW r \in Refs
                 PROVE  /\ SameOrigin(vault'[r], store.creds.meta[r])
                        /\ r \in hurt \/ vault'[r].rev = store.creds.meta[r].updated
      BY <1>4, <1>7, <2>1 DEF SvcSecrets, SameOrigin
    <3>1. CASE r = x.ref
      BY <1>2, <2>2, <3>1 DEF Writes
    <3>2. CASE r # x.ref
      BY <1>5, <2>2, <3>2
    <3> QED
      BY <3>1, <3>2
  <2> QED
    BY <1>1, <1>2, <1>4, <2>1, <2>2, <2>3, <2>4, SvcEnded
<1>8. CASE Rollback(w) /\ hurt' = hurt \cup {win[w].ref} /\ UNCHANGED vault
  <2>1. win[w].pc # "idle" /\ win' = [win EXCEPT ![w] = Ends(x)] /\ store' = Release(store) /\ hurt \subseteq hurt' /\ win[w].ref \in hurt'
    BY <1>1, <1>2, <1>8 DEF Rollback, Goes
  <2> QED
    BY <1>1, <1>2, <1>8, <2>1, SvcGivesUp
<1> QED
  BY <1>6, <1>7, <1>8 DEF Rollback

(* Every step keeps the invariant.                                           *)
LEMMA SvcStep == SvcInv /\ [SvcNext]_svcVars => SvcInv'
<1>1. ASSUME SvcInv, SvcNext
      PROVE  SvcInv'
  <2>1. PICK w \in Windows :
        \/ snapshot(w) \/ atomic_json(w) \/ CommitFails(w) \/ list(w)
        \/ Backend(w) \/ CommitMetadata(w) \/ Rollback(w) \/ Dies(w)
        \/ \E k \in Keys : get(w, k)
        \/ \E ops \in Operations, c \in Configs : transaction(w, ops, c)
        \/ \E n \in 1 .. 2 : changes(w, n)
        \/ \E r \in Refs : remove(w, r)
        \/ \E r \in Refs, o \in Origins : put(w, r, o) \/ resolve(w, r, o)
    BY <1>1 DEF SvcNext
  <2>2. CASE snapshot(w) \/ list(w) \/ \E k \in Keys : get(w, k)
    BY <1>1, <2>2, SvcSnapshot
  <2>3. CASE CommitFails(w) \/ Dies(w)
    BY <1>1, <2>3, SvcFails
  <2>4. CASE CommitMetadata(w) \/ Rollback(w)
    BY <1>1, <2>4, SvcMetadata
  <2>5. CASE atomic_json(w)
    BY <1>1, <2>5, SvcCommits
  <2>6. CASE Backend(w)
    BY <1>1, <2>6, SvcBackend
  <2>7. CASE \E ops \in Operations, c \in Configs : transaction(w, ops, c)
    BY <1>1, <2>7, SvcUpdates
  <2>8. CASE \E n \in 1 .. 2 : changes(w, n)
    BY <1>1, <2>8, SvcPages
  <2>9. CASE \E r \in Refs : remove(w, r)
    BY <1>1, <2>9, SvcRemoves
  <2>10. CASE \E r \in Refs, o \in Origins : put(w, r, o) \/ resolve(w, r, o)
    BY <1>1, <2>10, SvcPuts, SvcResolves
  <2> QED
    BY <2>1, <2>2, <2>3, <2>4, <2>5, <2>6, <2>7, <2>8, <2>9, <2>10
<1>2. SvcInv /\ UNCHANGED svcVars => SvcInv'
  <2> SUFFICES ASSUME SvcInv, UNCHANGED svcVars
               PROVE  SvcInv'
    OBVIOUS
  <2>1. store' = store /\ vault' = vault /\ win' = win /\ hurt' = hurt
    BY DEF svcVars
  <2>2. SvcTypes' /\ DocOk(store.storage)' /\ CredsOk(store.creds)'
    BY <2>1 DEF SvcInv, SvcTypes, DocOk, ChangesOk, CredsOk
  <2>3. SvcSecrets'
    BY <2>1 DEF SvcInv, SvcSecrets, SameOrigin
  <2>4. ASSUME NEW w \in Windows
        PROVE  WindowOk(w, win[w])'
    <3>1. PICK x : x = win[w]
      OBVIOUS
    <3>2. WindowOk(w, x)
      BY <3>1 DEF SvcInv
    <3>3. WindowOk(w, x)'
      BY <2>1, <3>2 DEF WindowOk, Follows, Writes, SameOrigin, Later
    <3> QED
      BY <2>1, <3>1, <3>3
  <2> QED
    BY <2>2, <2>3, <2>4 DEF SvcInv
<1> QED
  BY <1>1, <1>2

(* A plugin without files satisfies the invariant.                           *)
LEMMA SvcStart == SvcInit => SvcInv
<1> SUFFICES ASSUME SvcInit
             PROVE  SvcInv
  OBVIOUS
<1>1. /\ store.storage = StorageDocument /\ store.creds = CredentialDocument /\ store.lock = "free" /\ store.owner = "none"
      /\ store \in SvcStore
  BY SvcEmpty DEF SvcInit, SvcStore
<1>2. ASSUME NEW w \in Windows
      PROVE  win[w] \in SvcWindow /\ WindowOk(w, win[w]) /\ win[w].pc = "idle"
  <2>1. PICK s \in Sources : win[w] = Window(s)
    BY DEF SvcInit
  <2>2. PICK x : x = win[w]
    OBVIOUS
  <2>3. /\ x.pc = "idle" /\ x.cursor = 0 /\ x.known = [k \in Keys |-> NoValue] /\ x.dirty = {} /\ x.got = <<>> /\ x \in SvcWindow
    BY <2>1, <2>2, SvcEmpty DEF Window, SvcWindow, SvcEntries, NoValue
  <2>4. store.storage.rev = 0 /\ store.storage.entries = [k \in Keys |-> NoValue]
    BY <1>1 DEF StorageDocument
  <2>5. Follows(x, store.storage)
    BY <2>3, <2>4 DEF Follows
  <2>6. WindowOk(w, x)
    BY <1>1, <2>3, <2>5, ServiceConstants DEF WindowOk
  <2> QED
    BY <2>2, <2>3, <2>6
<1>3. SvcTypes
  BY <1>1, <1>2, SvcEmpty DEF SvcTypes, SvcInit
<1>4. SvcSecrets
  BY <1>1 DEF SvcSecrets, SvcInit, CredentialDocument, NoSecret, NoMeta, SameOrigin
<1> QED
  BY <1>1, <1>2, <1>3, <1>4, SvcEmpty DEF SvcInv

(* The invariant contains what the run checks.                               *)
LEMMA SvcImplies == SvcInv => ServicesSound
<1> SUFFICES ASSUME SvcInv
             PROVE  ServicesSound
  OBVIOUS
<1>1. PICK d : d = store.storage
  OBVIOUS
<1>2. PICK v, l : v = d.rev /\ l = Len(d.changes)
  OBVIOUS
<1>3. /\ d \in SvcDoc /\ DocOk(d) /\ v \in Nat /\ l \in Nat /\ l <= v /\ (v = 0 <=> l = 0)
      /\ \A n \in 1 .. l : d.changes[n].cursor = v - l + n
  <2>1. d \in SvcDoc /\ DocOk(d)
    BY <1>1 DEF SvcInv, SvcTypes, SvcStore
  <2>2. d.rev \in Nat /\ d.changes \in Seq(SvcChange)
    BY <2>1 DEF SvcDoc
  <2>3. PICK s : s = d.changes
    OBVIOUS
  <2>4. s \in Seq(SvcChange) /\ l = Len(s)
    BY <1>2, <2>2, <2>3
  <2>5. l \in Nat
    BY <2>4
  <2>6. v \in Nat
    BY <1>2, <2>2
  <2>7. l <= v /\ (v = 0 <=> l = 0) /\ \A n \in 1 .. l : d.changes[n].cursor = v - l + n
    BY <1>2, <2>1 DEF DocOk, ChangesOk
  <2> QED
    BY <2>1, <2>5, <2>6, <2>7
<1>4. AcceptsItsOwn
  <2>1. validate_document(d)
    <3>1. d.changes = <<>> <=> l = 0
      <4>1. PICK s : s = d.changes
        OBVIOUS
      <4>2. s \in Seq(SvcChange) /\ Len(s) = l
        BY <1>2, <1>3, <4>1 DEF SvcDoc
      <4>3. Len(s) = 0 <=> s = <<>>
        BY <4>2
      <4> QED
        BY <4>1, <4>2, <4>3
    <3>2. \A n \in 1 .. l - 1 : d.changes[n].cursor + 1 = d.changes[n + 1].cursor
      BY <1>3
    <3>3. d.changes # <<>> => d.changes[l].cursor = v
      BY <1>3, <3>1
    <3>4. \A n \in 1 .. l : d.changes[n].cursor > 0 /\ (d.changes[n].config \/ d.changes[n].keys # {})
      <4>1. \A n \in 1 .. l : d.changes[n].config \/ d.changes[n].keys # {}
        BY <1>2, <1>3 DEF DocOk, ChangesOk
      <4> QED
        BY <1>3, <4>1
    <3>5. (d.rev = 0) = (d.changes = <<>>)
      BY <1>2, <1>3, <3>1
    <3> QED
      BY <1>2, <1>3, <3>2, <3>3, <3>4, <3>5 DEF validate_document, DocOk, ChangesOk
  <2>2. validate_credentials(store.creds)
    <3>1. CredsOk(store.creds)
      BY DEF SvcInv
    <3>2. InUse(store.creds.meta) = {r \in Refs : store.creds.meta[r] # NoMeta}
      BY DEF InUse
    <3> QED
      BY <3>1, <3>2 DEF validate_credentials, CredsOk
  <2> QED
    BY <1>1, <2>1, <2>2 DEF AcceptsItsOwn
<1>5. FollowersAreCurrent
  <2>1. ASSUME NEW w \in Windows, win[w].cursor = store.storage.rev, NEW k \in Keys \ win[w].dirty
        PROVE  win[w].known[k] = store.storage.entries[k]
    <3>1. Follows(win[w], d) /\ win[w].cursor = v
      BY <1>1, <1>2, <2>1, SvcFacts DEF WindowOk
    <3>2. \/ v < v - l
          \/ win[w].known[k] = d.entries[k]
          \/ \E n \in 1 .. l : d.changes[n].cursor > v
      BY <1>2, <2>1, <3>1 DEF Follows
    <3>3. ~ (v < v - l) /\ \A n \in 1 .. l : ~ (d.changes[n].cursor > v)
      BY <1>3
    <3> QED
      BY <1>1, <3>2, <3>3
  <2> QED
    BY <2>1 DEF FollowersAreCurrent
<1>6. BuiltOnSeen
  <2>1. ASSUME NEW w \in Windows, win[w].pc = "commit"
        PROVE  store.lock = w /\ store.storage.rev = win[w].cursor /\ win[w].doc.rev = win[w].cursor + 1
    BY <2>1, SvcFacts, SvcAlone DEF WindowOk, Later
  <2> QED
    BY <2>1 DEF BuiltOnSeen
<1>7. SecretsMatch
  BY DEF SvcInv, SvcSecrets, SecretsMatch
<1>8. OriginBound
  BY SvcFacts DEF OriginBound, WindowOk
<1> QED
  BY <1>4, <1>5, <1>6, <1>7, <1>8 DEF ServicesSound

(* For any windows, sources, keys, references, origins, quotas and length of *)
(* the history: the service accepts its own files, a window that follows the *)
(* changes knows the current values, it writes on top of what its caller     *)
(* saw, and a secret goes only to the origin and the source it was stored    *)
(* for, whatever process dies (plugin_services/storage.rs, credentials.rs,   *)
(* mod.rs).                                                                  *)
THEOREM ServicesAreSound == SvcSpec => []ServicesSound
<1>1. SvcSpec => []SvcInv
  BY SvcStart, SvcStep, PTL DEF SvcSpec
<1> QED
  BY <1>1, SvcImplies, PTL
=============================================================================
