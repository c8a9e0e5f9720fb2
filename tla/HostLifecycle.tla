---------------------------- MODULE HostLifecycle ----------------------------
(* The worker that owns every Host process (src/host_runtime/lifecycle.rs,     *)
(* host_runtime.rs, lifecycle/launcher.rs).  Callers submit start and stop     *)
(* commands and wait for receipts; a launch worker creates processes; the      *)
(* owner thread collects them, applies commands, pumps each Host and settles   *)
(* receipts, turn after turn, until the runtime stops.  HostSupervisor has the *)
(* inside of one Host, RawSessions the sessions it leaves behind.              *)
EXTENDS Integers, Sequences, FiniteSets

CONSTANTS
    HostPlugin,         \* plugins with a Host entry
    MaxGeneration,      \* bound: generations of a plugin
    MaxOperations,      \* bound: commands submitted in all
    COMMAND_QUEUE,      \* commands waiting for the owner thread (8)
    MAX_OPERATIONS,     \* receipts not yet settled (16)
    MAX_HOSTS,          \* Hosts owned at once, and launches waiting (16)
    MAX_RETIRED         \* retired Hosts remembered (64)

ASSUME LifecycleConstants ==
    /\ MaxGeneration \in Nat \ {0} /\ MaxOperations \in Nat
    /\ COMMAND_QUEUE \in Nat \ {0} /\ MAX_OPERATIONS \in Nat \ {0}
    /\ MAX_HOSTS \in Nat \ {0} /\ MAX_RETIRED \in Nat

VARIABLES
    ops,        \* receipts, in the order they were admitted
    commands,   \* the command queue
    owners,     \* HostOwner of each plugin, or NoOwner
    generations,\* the identity tombstones
    launcher,   \* requests, the owner being prepared, the result channel
    os,         \* the process of each generation
    worker      \* the phase of the owner thread, and the stopping flag

lifeVars == <<ops, commands, owners, generations, launcher, os, worker>>

Generation == 1..MaxGeneration
Operation == 1..MaxOperations
NoOwner == [generation |-> 0]
Nobody == 0             \* no receipt

Receipt == [kind : {"start", "stop"}, plugin : HostPlugin, generation : Generation,
            status : {"admitted", "queued", "done", "refused"}]

(* due: no stop_deadline, one in the future, one that passed.  unclean stands  *)
(* for what retired() asks of other tables: OS operations and raw sessions     *)
(* that were not yet confirmed gone.                                           *)
HostOwner == [generation : Generation,
          state : {"starting", "active", "stopping", "exited", "failed"},
          launching : BOOLEAN, supervisor : BOOLEAN, failure : BOOLEAN, unclean : BOOLEAN,
          due : {"none", "set", "passed"}, report : {"none", "ok", "error"},
          start : 0..MaxOperations, stop : 0..MaxOperations]

NewOwner(g) ==
    [generation |-> g, state |-> "starting", launching |-> FALSE, supervisor |-> FALSE,
     failure |-> FALSE, unclean |-> FALSE, due |-> "none", report |-> "none",
     start |-> Nobody, stop |-> Nobody]

Launch == [plugin : HostPlugin, owner : HostOwner]
NoLaunch == [owner |-> NoOwner]

LifeInit ==
    /\ ops = <<>> /\ commands = <<>>
    /\ owners = [p \in HostPlugin |-> NoOwner]
    /\ generations = [p \in HostPlugin |-> 0]
    /\ launcher = [requests |-> <<>>, making |-> NoLaunch, built |-> NoLaunch,
                   result |-> NoLaunch, stopping |-> FALSE]
    /\ os = [p \in HostPlugin |-> [g \in Generation |-> "unborn"]]
    /\ worker = [stopping |-> FALSE, phase |-> "running"]

Settled == {"done", "refused"}
Pending == {o \in DOMAIN ops : ops[o].status \notin Settled}

(* Completion::finish                                                          *)
finish(table, o, status) ==
    IF o = Nobody THEN table ELSE [table EXCEPT ![o].status = status]

-----------------------------------------------------------------------------
(* HostOwner.                                                                  *)

retired_owner(o) == ~o.launching /\ ~o.supervisor /\ ~o.unclean

Owned == {p \in HostPlugin : owners[p] # NoOwner}

(* begin_retirement: with a process to stop, or one still being created, the   *)
(* deadline starts; otherwise there is nothing to wait for.                    *)
begin_retirement(o) ==
    IF o.state = "stopping" THEN o
    ELSE IF o.supervisor \/ o.launching
           THEN [o EXCEPT !.state = "stopping", !.due = IF @ = "none" THEN "set" ELSE @]
           ELSE [o EXCEPT !.state = IF o.failure THEN "failed" ELSE "exited"]

fail(o) == begin_retirement([o EXCEPT !.failure = TRUE])

(* finish_retirement, on the supervisor's exit report.                         *)
finish_retirement(o, code) ==
    LET failure == o.failure \/ code # 0
    IN  [o EXCEPT !.supervisor = FALSE, !.report = "ok", !.failure = failure,
                  !.state = IF failure THEN "failed" ELSE "exited"]

(* pump of one owner: its next states.  What it leaves unclean is retired      *)
(* whenever the browser and the operating system get to it.                    *)
Pumped(p, o) ==
    LET gone == os[p][o.generation] = "gone"
        tidy == {o} \cup (IF o.unclean /\ o.state \notin {"starting", "active"}
                            THEN {[o EXCEPT !.unclean = FALSE]} ELSE {})
    IN  IF ~o.supervisor THEN tidy
        ELSE CASE o.state = "starting" -> {o, fail(o), [o EXCEPT !.state = "active"]}
               [] o.state = "active"   -> {o, fail(o), [o EXCEPT !.unclean = TRUE]}
               [] o.state = "stopping" ->
                    UNION {IF gone THEN {t, finish_retirement(t, 0), finish_retirement(t, 1)}
                           ELSE {t} : t \in tidy}
               [] OTHER -> {o}

(* finish_operations of one owner: <<owner, receipts>>; late says that the     *)
(* startup deadline of a process still being created passed.                   *)
finish_operations(o0, table, late) ==
    LET o == IF o0.launching /\ o0.state = "starting" /\ late THEN fail(o0) ELSE o0
        first == IF o.state = "active" THEN finish(table, o.start, "done")
                 ELSE IF retired_owner(o) THEN finish(table, o.start, "refused")
                 ELSE IF o.due = "passed"
                   THEN finish(finish(table, o.start, "refused"), o.stop, "refused")
                   ELSE table
        answered == o.state = "active" \/ retired_owner(o) \/ o.due = "passed"
        expired  == o.state # "active" /\ ~retired_owner(o) /\ o.due = "passed"
        p == [o EXCEPT !.start = IF answered THEN Nobody ELSE @,
                       !.stop = IF expired THEN Nobody ELSE @]
    IN  IF retired_owner(p)
          THEN <<[p EXCEPT !.stop = Nobody],
                 finish(first, p.stop, IF p.report = "ok" THEN "done" ELSE "refused")>>
          ELSE <<p, first>>

-----------------------------------------------------------------------------
(* Callers.                                                                    *)

(* submit looks at the flag and takes a permit first ...                       *)
Admit(kind, p, g) ==
    /\ ~worker.stopping /\ Len(ops) < MaxOperations
    /\ Cardinality(Pending) < MAX_OPERATIONS
    /\ ops' = Append(ops, [kind |-> kind, plugin |-> p, generation |-> g, status |-> "admitted"])
    /\ UNCHANGED <<commands, owners, generations, launcher, os, worker>>

(* ... and sends the command after that, when the owner may have left.         *)
Send(o) ==
    /\ ops[o].status = "admitted"
    /\ IF Len(commands) < COMMAND_QUEUE /\ worker.phase # "ended"
         THEN /\ commands' = Append(commands, o)
              /\ ops' = [ops EXCEPT ![o].status = "queued"]
         ELSE /\ ops' = finish(ops, o, "refused")
              /\ UNCHANGED commands
    /\ UNCHANGED <<owners, generations, launcher, os, worker>>

(* HostRuntime::stop, also on drop.                                            *)
StopRuntime ==
    /\ ~worker.stopping
    /\ worker' = [worker EXCEPT !.stopping = TRUE]
    /\ UNCHANGED <<ops, commands, owners, generations, launcher, os>>

(* A process ends, killed or not; a deadline passes.                           *)
ProcessEnds(p, g) ==
    /\ os[p][g] \in {"alive", "killed"}
    /\ os' = [os EXCEPT ![p][g] = "gone"]
    /\ UNCHANGED <<ops, commands, owners, generations, launcher, worker>>

DeadlinePasses(p) ==
    /\ p \in Owned /\ owners[p].due = "set"
    /\ owners' = [owners EXCEPT ![p].due = "passed"]
    /\ UNCHANGED <<ops, commands, generations, launcher, os, worker>>

(* The supervisor's grace period ends (HostSupervisor, PollBegins).            *)
GraceEnds(p) ==
    /\ p \in Owned /\ owners[p].state = "stopping" /\ owners[p].supervisor
    /\ os[p][owners[p].generation] = "alive"
    /\ os' = [os EXCEPT ![p][owners[p].generation] = "killed"]
    /\ UNCHANGED <<ops, commands, owners, generations, launcher, worker>>

-----------------------------------------------------------------------------
(* The launch worker.                                                          *)

Takes ==
    /\ launcher.making = NoLaunch /\ launcher.built = NoLaunch /\ launcher.requests # <<>>
    /\ launcher' = [launcher EXCEPT !.making = Head(launcher.requests), !.requests = Tail(@)]
    /\ worker.phase # "ended"
    /\ UNCHANGED <<ops, commands, owners, generations, os, worker>>

(* The runtime stopped before, or preparation fails, or the process is created *)
(* and initialize sent; a stop seen afterwards retires it at once.             *)
Creates ==
    /\ launcher.making # NoLaunch
    /\ LET l == launcher.making
           Built(o) == launcher' = [launcher EXCEPT !.making = NoLaunch,
                                      !.built = [plugin |-> l.plugin, owner |-> o]]
           made == [NewOwner(l.owner.generation) EXCEPT !.supervisor = TRUE]
       IN  \/ Built(fail(NewOwner(l.owner.generation))) /\ UNCHANGED os
           \/ /\ ~launcher.stopping
              /\ os' = [os EXCEPT ![l.plugin][l.owner.generation] = "alive"]
              /\ Built(made) \/ Built(fail(made))
    /\ UNCHANGED <<ops, commands, owners, generations, worker>>

Delivers ==
    /\ launcher.built # NoLaunch /\ launcher.result = NoLaunch
    /\ LET l == launcher.built
       IN  launcher' = [launcher EXCEPT !.built = NoLaunch,
              !.result = [l EXCEPT !.owner = IF launcher.stopping THEN fail(@) ELSE @]]
    /\ UNCHANGED <<ops, commands, owners, generations, os, worker>>

-----------------------------------------------------------------------------
(* The owner thread.                                                           *)

(* A turn of the loop: collect, one command, pump, finish_operations,          *)
(* prune_retired.  Other threads meet it only in the two channels, so it is    *)
(* one action, written as functions of the tables it works on.                 *)
Tables == [ops |-> ops, commands |-> commands, owners |-> owners,
           generations |-> generations, launcher |-> launcher]

Become(x) ==
    /\ ops' = x.ops /\ commands' = x.commands /\ owners' = x.owners
    /\ generations' = x.generations /\ launcher' = x.launcher

OwnedIn(x) == {p \in HostPlugin : x.owners[p] # NoOwner}
Refuse(x, o) == [x EXCEPT !.ops = finish(@, o, "refused")]

(* collect: the created owner takes over receipts, failure and deadline of the *)
(* one that waited for it.                                                     *)
TakesNothingOver(waiting, created) == created

TakeOver(waiting, created) ==
    LET c == [created EXCEPT !.start = waiting.start, !.stop = waiting.stop]
        d == IF waiting.failure THEN begin_retirement([c EXCEPT !.failure = TRUE])
             ELSE IF waiting.state = "stopping" THEN begin_retirement(c) ELSE c
    IN  IF waiting.due = "none" THEN d ELSE [d EXCEPT !.due = waiting.due]

collect(x) ==
    IF x.launcher.result = NoLaunch THEN x
    ELSE LET l == x.launcher.result
         IN  [x EXCEPT !.owners[l.plugin] = TakeOver(@, l.owner),
                       !.launcher.result = NoLaunch]

(* A plugin whose owner is not completely retired.                             *)
BusyWhileActive(x, p) == p \in OwnedIn(x) /\ x.owners[p].state \in {"starting", "active"}

Busy(x, p) == p \in OwnedIn(x) /\ ~retired_owner(x.owners[p])

(* Command::Start: one owner per plugin, and never an old generation.  The     *)
(* owner it replaces is dropped; a receipt it still held is answered by that.  *)
Start(x, p, g, o) ==
    LET stale == g <= x.generations[p]
        full  == Cardinality({q \in OwnedIn(x) : ~retired_owner(x.owners[q])}) >= MAX_HOSTS
        begun == Len(x.launcher.requests) < MAX_HOSTS
        fresh == [NewOwner(g) EXCEPT !.launching = begun, !.start = o]
        old   == IF p \in OwnedIn(x) THEN {x.owners[p].start, x.owners[p].stop} ELSE {}
    IN  IF Busy(x, p) \/ stale \/ full THEN Refuse(x, o)
        ELSE [x EXCEPT !.ops = [i \in DOMAIN @ |-> IF i \in old THEN [@[i] EXCEPT !.status = "refused"]
                                                   ELSE @[i]], !.generations[p] = g,
                       !.owners[p] = IF begun THEN fresh ELSE fail(fresh),
                       !.launcher.requests =
                          IF begun THEN Append(@, [plugin |-> p, owner |-> NewOwner(g)]) ELSE @]

(* Command::Stop: only the current generation, and only one stop at a time.    *)
Stop(x, p, g, o) ==
    IF \/ p \notin OwnedIn(x) \/ x.generations[p] # g
       \/ x.owners[p].generation # g \/ x.owners[p].stop # Nobody
      THEN Refuse(x, o)
      ELSE LET y == [x.owners[p] EXCEPT !.stop = o]
           IN  [x EXCEPT !.owners[p] = IF y.state = "starting" THEN fail(y)
                                       ELSE IF ~retired_owner(y) THEN begin_retirement(y) ELSE y]

apply(x) ==
    IF x.commands = <<>> THEN x
    ELSE LET o == Head(x.commands)
             r == x.ops[o]
             y == [x EXCEPT !.commands = Tail(@)]
         IN  IF r.kind = "start" THEN Start(y, r.plugin, r.generation, o)
             ELSE Stop(y, r.plugin, r.generation, o)

(* One of the ways the owners can be pumped.                                   *)
Pump(x) ==
    LET owned == OwnedIn(x)
        ways  == UNION {Pumped(p, x.owners[p]) : p \in owned}
    IN  {[x EXCEPT !.owners = [p \in HostPlugin |-> IF p \in owned THEN f[p] ELSE NoOwner]] :
           f \in {g \in [owned -> ways] : \A p \in owned : g[p] \in Pumped(p, x.owners[p])}}

(* finish_operations of every owner; late ones missed the startup deadline.    *)
(* Each receipt has at most one owner.                                         *)
Finish(x, late) ==
    LET a == [p \in OwnedIn(x) |-> finish_operations(x.owners[p], x.ops, p \in late)]
        by(o) == {p \in OwnedIn(x) : a[p][2][o] # x.ops[o]}
    IN  [x EXCEPT
           !.ops = [o \in DOMAIN x.ops |->
                      IF by(o) = {} THEN x.ops[o] ELSE a[CHOOSE p \in by(o) : TRUE][2][o]],
           !.owners = [p \in HostPlugin |-> IF p \in OwnedIn(x) THEN a[p][1] ELSE NoOwner]]

(* prune_retired: what can be forgotten, and how many of it.                   *)
Forgettable(x) ==
    {p \in OwnedIn(x) : /\ retired_owner(x.owners[p])
                        /\ x.owners[p].start = Nobody /\ x.owners[p].stop = Nobody}

prune_retired(x) ==
    LET surplus == Cardinality({p \in OwnedIn(x) : retired_owner(x.owners[p])}) - MAX_RETIRED
        most == IF surplus < Cardinality(Forgettable(x)) THEN surplus
                ELSE Cardinality(Forgettable(x))
    IN  {[x EXCEPT !.owners = [p \in HostPlugin |-> IF p \in out THEN NoOwner ELSE @[p]]] :
           out \in {f \in SUBSET Forgettable(x) :
                      Cardinality(f) = IF surplus > 0 THEN most ELSE 0}}

LoopTurn ==
    /\ worker.phase = "running" /\ ~worker.stopping
    /\ \E y \in Pump(apply(collect(Tables))) : \E late \in SUBSET HostPlugin :
         \E z \in prune_retired(Finish(y, late)) : Become(z)
    /\ UNCHANGED <<os, worker>>

(* The end of the loop: queued commands are refused, every owner retires.      *)
Drain ==
    /\ worker.phase = "running" /\ worker.stopping
    /\ Become([Tables EXCEPT
          !.ops = [o \in DOMAIN ops |-> IF \E i \in DOMAIN commands : commands[i] = o
                                          THEN [ops[o] EXCEPT !.status = "refused"] ELSE ops[o]],
          !.commands = <<>>, !.launcher.stopping = TRUE,
          !.owners = [p \in HostPlugin |->
                        IF p \notin Owned THEN NoOwner
                        ELSE IF owners[p].state = "starting" THEN fail(owners[p])
                        ELSE begin_retirement(owners[p])]])
    /\ worker' = [worker EXCEPT !.phase = "stopping"]
    /\ UNCHANGED os

(* Creations and deadlines are waited for ...                                  *)
Waits == \E p \in Owned : \/ owners[p].launching
                          \/ ~retired_owner(owners[p]) /\ owners[p].due = "set"

StopTurn ==
    /\ worker.phase = "stopping" /\ Waits
    /\ \E y \in Pump(collect(Tables)) : \E late \in SUBSET HostPlugin : Become(Finish(y, late))
    /\ UNCHANGED <<os, worker>>

(* ... then what is left is killed.  A report is good only if the process was  *)
(* seen to end and nothing is left behind.                                     *)
Stopped(p, o) ==
    LET good == os[p][o.generation] = "gone" /\ ~o.unclean
    IN  IF o.supervisor
          THEN [o EXCEPT !.supervisor = FALSE, !.report = IF good THEN "ok" ELSE "error",
                         !.state = IF good /\ ~o.failure THEN "exited" ELSE "failed"]
          ELSE [o EXCEPT !.report = IF o.unclean THEN "error" ELSE @]

End ==
    /\ worker.phase = "stopping" /\ ~Waits
    /\ LET x == Finish([Tables EXCEPT !.owners = [p \in HostPlugin |->
                           IF p \in Owned THEN Stopped(p, owners[p]) ELSE NoOwner]], {})
       IN  Become([x EXCEPT
              !.owners = [p \in HostPlugin |-> NoOwner], !.commands = <<>>,
              !.ops = [o \in DOMAIN ops |-> IF x.ops[o].status = "queued"
                                              THEN [ops[o] EXCEPT !.status = "refused"]
                                              ELSE x.ops[o]]])
    /\ os' = [p \in HostPlugin |-> [g \in Generation |->
                 IF /\ p \in Owned /\ owners[p].supervisor /\ owners[p].generation = g
                    /\ os[p][g] = "alive" THEN "killed" ELSE os[p][g]]]
    /\ worker' = [worker EXCEPT !.phase = "ended"]

OwnerThread == LoopTurn \/ Drain \/ StopTurn \/ End

LifeNext ==
    \/ \E k \in {"start", "stop"}, p \in HostPlugin, g \in Generation : Admit(k, p, g)
    \/ \E o \in DOMAIN ops : Send(o)
    \/ StopRuntime
    \/ \E p \in HostPlugin : DeadlinePasses(p) \/ GraceEnds(p)
    \/ \E p \in HostPlugin, g \in Generation : ProcessEnds(p, g)
    \/ Takes \/ Creates \/ Delivers
    \/ OwnerThread

LifeSpec == LifeInit /\ [][LifeNext]_lifeVars

-----------------------------------------------------------------------------
LifeTypeOK ==
    /\ \A o \in DOMAIN ops : ops[o] \in Receipt
    /\ Len(commands) <= COMMAND_QUEUE
    /\ owners \in [HostPlugin -> HostOwner \cup {NoOwner}]
    /\ generations \in [HostPlugin -> 0..MaxGeneration]
    /\ os \in [HostPlugin -> [Generation -> {"unborn", "alive", "killed", "gone"}]]

(* A launch that is under way belongs to exactly one owner that waits for it,  *)
(* and every owner that waits has one: no created process is left unclaimed.   *)
InLauncher ==
    {launcher.requests[i] : i \in DOMAIN launcher.requests}
      \cup ({launcher.making, launcher.built, launcher.result} \ {NoLaunch})

LaunchesClaimed ==
    /\ \A l \in InLauncher :
         /\ l.plugin \in Owned /\ owners[l.plugin].launching
         /\ owners[l.plugin].generation = l.owner.generation
    /\ \A p \in Owned : owners[p].launching => \E l \in InLauncher : l.plugin = p

(* A plugin never has two processes, of whatever generations; a stop that was  *)
(* reported done left none; and a runtime that ended left none running.        *)
OneProcess ==
    /\ \A p \in HostPlugin :
         Cardinality({g \in Generation : os[p][g] \in {"alive", "killed"}}) <= 1
    /\ \A o \in DOMAIN ops : ops[o].kind = "stop" /\ ops[o].status = "done" =>
         os[ops[o].plugin][ops[o].generation] = "gone"
    /\ worker.phase = "ended" =>
         /\ \A p \in HostPlugin, g \in Generation : os[p][g] # "alive"
         /\ \A o \in DOMAIN ops : ops[o].status # "queued"

(* Every receipt that waits is waited for by somebody who will settle it: it   *)
(* is in the queue, or the start of one owner that has not become active, or   *)
(* the stop of one owner whose retirement has a deadline or is over.           *)
Holders(o) ==
    Cardinality({i \in DOMAIN commands : commands[i] = o})
      + Cardinality({p \in Owned : owners[p].start = o})
      + Cardinality({p \in Owned : owners[p].stop = o})

ReceiptsHeld ==
    /\ \A o \in DOMAIN ops : Holders(o) = IF ops[o].status = "queued" THEN 1 ELSE 0
    /\ \A p \in Owned :
         /\ owners[p].start # Nobody => owners[p].state # "active"
         /\ owners[p].stop # Nobody => retired_owner(owners[p]) \/ owners[p].due # "none"
         /\ owners[p].state = "stopping" => owners[p].due # "none"

(* Whatever is started, stopped, retired late or never answered: every launch  *)
(* is claimed, every receipt held once, and no plugin has two processes        *)
(* (HostRuntime, Worker::run).                                                 *)
HostsSound == LifeTypeOK /\ LaunchesClaimed /\ ReceiptsHeld /\ OneProcess
=============================================================================
