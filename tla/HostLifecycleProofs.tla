------------------------- MODULE HostLifecycleProofs -------------------------
(* That launches stay claimed, receipts held once and processes single         *)
(* (HostsSound), for any number of plugins, generations and commands.          *)
(*                                                                             *)
(* A turn of the owner thread is a composition of functions of the tables it   *)
(* works on, so the inductive invariant is a predicate of the tables x and of  *)
(* the processes s, and every function of the turn is shown to keep it.  What  *)
(* has to be added to HostsSound is where each launch is (a plugin has one at  *)
(* most), whose receipt each receipt is, and who answers for each process.     *)
EXTENDS HostLifecycle, FiniteSetTheorems, TLAPS

Living == {"alive", "killed"}

Slot == Launch \cup {NoLaunch}

TableType ==
    [ops : Seq(Receipt), commands : Seq(Operation),
     owners : [HostPlugin -> HostOwner \cup {NoOwner}],
     generations : [HostPlugin -> 0..MaxGeneration],
     launcher : [requests : Seq(Launch), making : Slot, built : Slot, result : Slot,
                 stopping : BOOLEAN]]

OsType == [HostPlugin -> [Generation -> {"unborn", "alive", "killed", "gone"}]]

TableOk(x) ==
    x \in TableType /\ Len(x.ops) <= MaxOperations /\ Len(x.commands) <= COMMAND_QUEUE

(* What the other tables need to know of an owner: the generation it waits     *)
(* for, the one whose process it holds, and the receipts it holds.             *)
LaunchGen(o) == IF o # NoOwner /\ o.launching THEN o.generation ELSE 0
SuperGen(o) == IF o # NoOwner /\ o.supervisor THEN o.generation ELSE 0
StartOf(o) == IF o # NoOwner THEN o.start ELSE Nobody
StopOf(o) == IF o # NoOwner THEN o.stop ELSE Nobody

(* A retirement that has something to wait for has a deadline.                 *)
OwnerFine(o) ==
    /\ o \in HostOwner
    /\ o.launching => ~o.supervisor
    /\ o.state = "stopping" => o.due # "none"
    /\ o.stop # Nobody => retired_owner(o) \/ o.due # "none"
    /\ o.unclean => o.supervisor \/ o.due # "none"

OwnersOk(x, s) ==
    \A p \in HostPlugin : x.owners[p] # NoOwner =>
        /\ OwnerFine(x.owners[p])
        /\ x.owners[p].report = "ok" => s[p][x.owners[p].generation] = "gone"
        /\ x.owners[p].generation <= x.generations[p]

(* Of a launch that has not created its process, and of one that has.          *)
Waiting(x, s, l) ==
    /\ LaunchGen(x.owners[l.plugin]) = l.owner.generation
    /\ s[l.plugin][l.owner.generation] = "unborn"

Created(x, l) ==
    /\ LaunchGen(x.owners[l.plugin]) = l.owner.generation
    /\ ~l.owner.launching /\ ~l.owner.unclean /\ l.owner.report = "none"
    /\ l.owner.start = Nobody /\ l.owner.stop = Nobody
    /\ l.owner.state = "stopping" => l.owner.due # "none"

InSlot(l, p) == l # NoLaunch /\ l.plugin = p
Requested(q, p) == \E i \in 1..Len(q) : q[i].plugin = p

LaunchesOk(x, s) ==
    LET q == x.launcher.requests
        m == x.launcher.making
        b == x.launcher.built
        r == x.launcher.result
    IN  /\ \A i \in 1..Len(q) : Waiting(x, s, q[i])
        /\ m # NoLaunch => Waiting(x, s, m)
        /\ b # NoLaunch => Created(x, b)
        /\ r # NoLaunch => Created(x, r)
        /\ \A i, j \in 1..Len(q) : q[i].plugin = q[j].plugin => i = j
        /\ \A p \in HostPlugin :
             /\ Requested(q, p) => ~InSlot(m, p) /\ ~InSlot(b, p) /\ ~InSlot(r, p)
             /\ InSlot(r, p) => ~InSlot(m, p) /\ ~InSlot(b, p)
             /\ LaunchGen(x.owners[p]) # 0 =>
                  Requested(q, p) \/ InSlot(m, p) \/ InSlot(b, p) \/ InSlot(r, p)
        /\ m = NoLaunch \/ b = NoLaunch

(* Every process is answered for by an owner or by the launch that made it.    *)
HoldsProcess(l, p, g) == InSlot(l, p) /\ l.owner.supervisor /\ l.owner.generation = g

ClaimsOk(x, s) ==
    \A p \in HostPlugin, g \in Generation : s[p][g] \in Living =>
        \/ SuperGen(x.owners[p]) = g
        \/ HoldsProcess(x.launcher.built, p, g) \/ HoldsProcess(x.launcher.result, p, g)

GenerationsOk(x, s) ==
    \A p \in HostPlugin, g \in Generation : s[p][g] # "unborn" => g <= x.generations[p]

OneAlive(s) ==
    \A p \in HostPlugin, g, h \in Generation :
        s[p][g] \in Living /\ s[p][h] \in Living => g = h

(* A receipt that waits is in the queue, or with the owner of its own plugin,  *)
(* as what it is.                                                              *)
QueuedIn(x, k) == \E i \in 1..Len(x.commands) : x.commands[i] = k

IsHeld(x, k, kind, p) ==
    /\ k \in 1..Len(x.ops) /\ ~QueuedIn(x, k)
    /\ x.ops[k].status = "queued" /\ x.ops[k].kind = kind /\ x.ops[k].plugin = p

CommandsOk(x) ==
    /\ \A i \in 1..Len(x.commands) :
         x.commands[i] \in 1..Len(x.ops) /\ x.ops[x.commands[i]].status = "queued"
    /\ \A i, j \in 1..Len(x.commands) : x.commands[i] = x.commands[j] => i = j

HeldOk(x) ==
    \A p \in HostPlugin :
        /\ StartOf(x.owners[p]) # Nobody => IsHeld(x, StartOf(x.owners[p]), "start", p)
        /\ StopOf(x.owners[p]) # Nobody =>
             /\ IsHeld(x, StopOf(x.owners[p]), "stop", p)
             /\ x.ops[StopOf(x.owners[p])].generation = x.owners[p].generation

NoneLost(x) ==
    \A k \in 1..Len(x.ops) : x.ops[k].status = "queued" =>
        \/ QueuedIn(x, k)
        \/ \E p \in HostPlugin : StartOf(x.owners[p]) = k \/ StopOf(x.owners[p]) = k

StopsOk(x, s) ==
    \A k \in 1..Len(x.ops) : x.ops[k].kind = "stop" /\ x.ops[k].status = "done" =>
        s[x.ops[k].plugin][x.ops[k].generation] = "gone"

TableInv(x, s) ==
    /\ TableOk(x) /\ OwnersOk(x, s) /\ LaunchesOk(x, s) /\ GenerationsOk(x, s)
    /\ CommandsOk(x) /\ HeldOk(x) /\ NoneLost(x) /\ StopsOk(x, s)

(* After a turn the start of an active Host is settled.                        *)
StartsSettled(x) ==
    \A p \in HostPlugin : StartOf(x.owners[p]) # Nobody => x.owners[p].state # "active"

(* When the runtime stops, whatever is not gone has a deadline.                *)
Retiring(x) ==
    \A p \in HostPlugin :
        x.owners[p] # NoOwner /\ (x.owners[p].launching \/ x.owners[p].supervisor)
          => x.owners[p].due # "none"

Over(x, s) ==
    /\ x.commands = <<>> /\ \A p \in HostPlugin : x.owners[p] = NoOwner
    /\ \A p \in HostPlugin, g \in Generation : s[p][g] # "alive"

WorkerType == [stopping : BOOLEAN, phase : {"running", "stopping", "ended"}]

WholeInv(x, s, w) ==
    /\ s \in OsType /\ OneAlive(s) /\ w \in WorkerType
    /\ TableInv(x, s) /\ StartsSettled(x)
    /\ w.phase # "ended" => ClaimsOk(x, s)
    /\ w.phase = "stopping" => Retiring(x)
    /\ w.phase = "ended" => Over(x, s)

HInv == WholeInv(Tables, os, worker)
-----------------------------------------------------------------------------
(* Owners, one at a time.                                                      *)

LEMMA NoOwnerApart == \A o \in HostOwner : o # NoOwner /\ o.generation # 0
  BY LifecycleConstants DEF HostOwner, NoOwner, Generation

(* What every function of an owner leaves alone.                               *)
SameOwner(o, n) ==
    /\ n.generation = o.generation /\ n.launching = o.launching
    /\ n.start = o.start /\ n.stop = o.stop

(* begin_retirement gives what it has to wait for a deadline, so it needs no   *)
(* deadline of the stop that is asked for.                                     *)
OwnerOpen(o) ==
    /\ o \in HostOwner
    /\ o.launching => ~o.supervisor
    /\ o.state = "stopping" => o.due # "none"
    /\ o.unclean => o.supervisor \/ o.due # "none"

LEMMA BeginRetirement ==
  ASSUME NEW o, OwnerOpen(o)
  PROVE  LET n == begin_retirement(o) IN
           /\ OwnerFine(n) /\ SameOwner(o, n) /\ n.supervisor = o.supervisor
           /\ n.report = o.report /\ n.failure = o.failure /\ n.unclean = o.unclean
           /\ n.state \notin {"starting", "active"}
           /\ o.due # "none" => n.due # "none"
<1>1. CASE o.state = "stopping"
  BY <1>1 DEF begin_retirement, OwnerOpen, OwnerFine, SameOwner
<1>2. CASE o.state # "stopping" /\ (o.supervisor \/ o.launching)
  <2> DEFINE n == [o EXCEPT !.state = "stopping", !.due = IF @ = "none" THEN "set" ELSE @]
  <2>1. n \in HostOwner /\ n.state = "stopping" /\ n.due # "none"
    BY DEF OwnerOpen, HostOwner
  <2>2. /\ SameOwner(o, n) /\ n.supervisor = o.supervisor /\ n.unclean = o.unclean
        /\ n.report = o.report /\ n.failure = o.failure
    BY DEF OwnerOpen, HostOwner, SameOwner
  <2>3. begin_retirement(o) = n
    BY <1>2 DEF begin_retirement
  <2> HIDE DEF n
  <2> QED
    BY <2>1, <2>2, <2>3 DEF OwnerOpen, OwnerFine, SameOwner
<1>3. CASE o.state # "stopping" /\ ~o.supervisor /\ ~o.launching
  <2> DEFINE n == [o EXCEPT !.state = IF o.failure THEN "failed" ELSE "exited"]
  <2>1. n \in HostOwner /\ n.state \in {"failed", "exited"} /\ n.due = o.due
    BY DEF OwnerOpen, HostOwner
  <2>2. /\ SameOwner(o, n) /\ n.supervisor = o.supervisor /\ n.unclean = o.unclean
        /\ n.report = o.report /\ n.failure = o.failure
    BY DEF OwnerOpen, HostOwner, SameOwner
  <2>3. begin_retirement(o) = n
    BY <1>3 DEF begin_retirement
  <2> HIDE DEF n
  <2> QED
    BY <1>3, <2>1, <2>2, <2>3 DEF OwnerOpen, OwnerFine, SameOwner, retired_owner
<1> QED
  BY <1>1, <1>2, <1>3 DEF OwnerOpen, HostOwner

LEMMA Fail ==
  ASSUME NEW o, OwnerOpen(o)
  PROVE  LET n == fail(o) IN
           /\ OwnerFine(n) /\ SameOwner(o, n) /\ n.supervisor = o.supervisor
           /\ n.report = o.report /\ n.unclean = o.unclean
           /\ n.state \notin {"starting", "active"}
           /\ o.due # "none" => n.due # "none"
<1> DEFINE f == [o EXCEPT !.failure = TRUE]
<1>1. /\ OwnerOpen(f) /\ SameOwner(o, f) /\ f.supervisor = o.supervisor
      /\ f.report = o.report /\ f.unclean = o.unclean /\ f.due = o.due
  BY DEF OwnerOpen, HostOwner, SameOwner
<1>2. fail(o) = begin_retirement(f)
  BY DEF fail
<1> HIDE DEF f
<1> QED
  BY <1>1, <1>2, BeginRetirement DEF SameOwner

(* A pump keeps an owner sound, and gives the process up only when it is gone. *)
LEMMA PumpedOwner ==
  ASSUME NEW p, NEW o, OwnerFine(o), NEW n \in Pumped(p, o),
         o.report = "ok" => os[p][o.generation] = "gone"
  PROVE  /\ OwnerFine(n) /\ SameOwner(o, n)
         /\ n.supervisor = o.supervisor \/ (~n.supervisor /\ os[p][o.generation] = "gone")
         /\ n.report = "ok" => os[p][o.generation] = "gone"
         /\ o.due # "none" => n.due # "none"
<1> DEFINE c == [o EXCEPT !.unclean = FALSE]
<1> DEFINE tidy == {o} \cup (IF o.unclean /\ o.state \notin {"starting", "active"} THEN {c} ELSE {})
<1>0. OwnerOpen(o)
  BY DEF OwnerFine, OwnerOpen
<1>1. ASSUME NEW t \in tidy
      PROVE  /\ OwnerFine(t) /\ SameOwner(o, t) /\ t.supervisor = o.supervisor
             /\ t.report = o.report /\ t.state = o.state /\ t.due = o.due
  <2>1. CASE t = o
    BY <2>1 DEF SameOwner
  <2>2. CASE t = c
    <3>1. /\ c \in HostOwner /\ SameOwner(o, c) /\ c.supervisor = o.supervisor /\ ~c.unclean
          /\ c.report = o.report /\ c.state = o.state /\ c.due = o.due
      BY DEF OwnerFine, HostOwner, SameOwner
    <3> HIDE DEF c
    <3> QED
      BY <2>2, <3>1 DEF OwnerFine, SameOwner, retired_owner
  <2> QED
    BY <1>1, <2>1, <2>2
<1>2. CASE n = o
  BY <1>2 DEF SameOwner
<1>3. CASE n \in tidy
  BY <1>1, <1>3
<1>4. CASE n = fail(o)
  BY <1>0, <1>4, Fail
<1>5. CASE o.supervisor /\ o.state = "starting" /\ n = [o EXCEPT !.state = "active"]
  <2>1. /\ n \in HostOwner /\ SameOwner(o, n) /\ n.supervisor = o.supervisor /\ n.unclean = o.unclean
        /\ n.report = o.report /\ n.state = "active" /\ n.due = o.due
    BY <1>5 DEF OwnerFine, HostOwner, SameOwner
  <2> QED
    BY <1>5, <2>1 DEF OwnerFine, SameOwner, retired_owner
<1>6. CASE o.supervisor /\ o.state = "active" /\ n = [o EXCEPT !.unclean = TRUE]
  <2>1. /\ n \in HostOwner /\ SameOwner(o, n) /\ n.supervisor = o.supervisor /\ n.unclean
        /\ n.report = o.report /\ n.state = "active" /\ n.due = o.due
    BY <1>6 DEF OwnerFine, HostOwner, SameOwner
  <2> QED
    BY <1>6, <2>1 DEF OwnerFine, SameOwner, retired_owner
<1>7. ASSUME NEW t \in tidy, NEW code \in {0, 1}, n = finish_retirement(t, code),
             o.state = "stopping", os[p][o.generation] = "gone"
      PROVE  OwnerFine(n) /\ SameOwner(o, n) /\ ~n.supervisor /\ n.due # "none"
  <2>1. t \in HostOwner /\ t.due # "none" /\ SameOwner(o, t)
    BY <1>1, <1>7 DEF OwnerFine
  <2> HIDE DEF tidy
  <2>2. /\ n \in HostOwner /\ SameOwner(o, n) /\ ~n.supervisor /\ n.unclean = t.unclean
        /\ n.state \in {"failed", "exited"} /\ n.due = t.due
    BY <1>7, <2>1 DEF finish_retirement, HostOwner, SameOwner
  <2> QED
    BY <2>1, <2>2 DEF OwnerFine
<1>8. \/ n \in tidy \/ n = o \/ n = fail(o)
      \/ o.supervisor /\ o.state = "starting" /\ n = [o EXCEPT !.state = "active"]
      \/ o.supervisor /\ o.state = "active" /\ n = [o EXCEPT !.unclean = TRUE]
      \/ /\ o.state = "stopping" /\ os[p][o.generation] = "gone"
         /\ \E t \in tidy, code \in {0, 1} : n = finish_retirement(t, code)
  <2>0. n \in Pumped(p, o)
    OBVIOUS
  <2>1. CASE ~o.supervisor
    BY <2>0, <2>1 DEF Pumped
  <2>2. CASE o.supervisor /\ o.state = "starting"
    BY <2>0, <2>2 DEF Pumped
  <2>3. CASE o.supervisor /\ o.state = "active"
    BY <2>0, <2>3 DEF Pumped
  <2>4. CASE o.supervisor /\ o.state = "stopping"
    <3>1. n \in UNION {IF os[p][o.generation] = "gone" THEN {t, finish_retirement(t, 0), finish_retirement(t, 1)}
                       ELSE {t} : t \in tidy}
      BY <2>0, <2>4 DEF Pumped
    <3> HIDE DEF tidy
    <3> QED
      BY <3>1, <2>4
  <2>5. CASE o.supervisor /\ o.state \notin {"starting", "active", "stopping"}
    BY <2>0, <2>5 DEF Pumped
  <2> QED
    BY <2>1, <2>2, <2>3, <2>4, <2>5
<1> QED
  <2>1. CASE o.state = "stopping" /\ os[p][o.generation] = "gone" /\ ~(n \in tidy \/ n = o \/ n = fail(o))
    BY <1>7, <1>8, <2>1
  <2>2. CASE \/ o.supervisor /\ o.state = "starting" /\ n = [o EXCEPT !.state = "active"]
             \/ o.supervisor /\ o.state = "active" /\ n = [o EXCEPT !.unclean = TRUE]
    BY <1>5, <1>6, <2>2 DEF OwnerFine, HostOwner
  <2>3. CASE n \in tidy
    BY <1>1, <2>3
  <2>4. CASE n = fail(o)
    BY <1>0, <2>4, Fail
  <2> QED
    BY <1>2, <1>8, <2>1, <2>2, <2>3, <2>4

(* finish_operations answers receipts for good and frees the owner of them; a  *)
(* stop is answered well only by a good report.                                *)
SettledBy(o, n, table, after) ==
    /\ n.start = o.start \/ n.start = Nobody
    /\ n.stop = o.stop \/ n.stop = Nobody
    /\ after \in Seq(Receipt) /\ Len(after) = Len(table)
    /\ \A k \in 1..Len(table) :
         /\ after[k].kind = table[k].kind /\ after[k].plugin = table[k].plugin
         /\ after[k].generation = table[k].generation
         /\ after[k] # table[k] => \/ k = o.start /\ n.start = Nobody
                                   \/ k = o.stop /\ n.stop = Nobody
         /\ k = o.start /\ n.start = Nobody => after[k].status \in Settled
         /\ k = o.stop /\ n.stop = Nobody =>
              /\ after[k].status \in Settled
              /\ after[k].status = "done" => o.report = "ok"

Marked(table, k, status, after) ==
    /\ after \in Seq(Receipt) /\ Len(after) = Len(table)
    /\ \A i \in 1..Len(table) :
         /\ after[i].kind = table[i].kind /\ after[i].plugin = table[i].plugin
         /\ after[i].generation = table[i].generation
         /\ i # k => after[i] = table[i]
         /\ i = k => after[i].status = status

LEMMA FinishTable ==
  ASSUME NEW table \in Seq(Receipt), NEW k, k = Nobody \/ k \in 1..Len(table),
         NEW status \in Settled
  PROVE  Marked(table, k, status, finish(table, k, status))
<1>1. CASE k = Nobody
  BY <1>1 DEF finish, Nobody, Marked
<1>2. CASE k # Nobody
  <2> DEFINE r == [table[k] EXCEPT !.status = status]
  <2>0. k \in 1..Len(table) /\ table[k] \in Receipt
    BY <1>2
  <2>1. /\ r \in Receipt /\ r.status = status /\ r.kind = table[k].kind
        /\ r.plugin = table[k].plugin /\ r.generation = table[k].generation
    BY <2>0 DEF Receipt, Settled
  <2>2. finish(table, k, status) = [table EXCEPT ![k] = r]
    BY <1>2 DEF finish
  <2> HIDE DEF r
  <2> QED
    BY <2>0, <2>1, <2>2 DEF Marked
<1> QED
  BY <1>1, <1>2

Finished(p, o, table, late) == finish_operations(o, table, p \in late)

LEMMA FinishOperations ==
  ASSUME NEW table \in Seq(Receipt), NEW o, OwnerFine(o), NEW p, NEW late,
         o.start = Nobody \/ o.start \in 1..Len(table),
         o.stop = Nobody \/ o.stop \in 1..Len(table),
         o.start # Nobody => o.start # o.stop
  PROVE  LET n == Finished(p, o, table, late)[1]
             after == Finished(p, o, table, late)[2]
         IN  /\ OwnerFine(n) /\ n.generation = o.generation /\ n.launching = o.launching
             /\ n.supervisor = o.supervisor /\ n.report = o.report
             /\ SettledBy(o, n, table, after)
             /\ n.start # Nobody => n.state # "active"
             /\ o.due # "none" => n.due # "none"
<1> DEFINE f == IF o.launching /\ o.state = "starting" /\ p \in late THEN fail(o) ELSE o
<1>1. /\ OwnerFine(f) /\ SameOwner(o, f) /\ f.supervisor = o.supervisor /\ f.report = o.report
      /\ o.due # "none" => f.due # "none"
  BY Fail DEF OwnerFine, OwnerOpen, SameOwner
<1> DEFINE retired == retired_owner(f)
           first == IF f.state = "active" THEN finish(table, f.start, "done")
                    ELSE IF retired_owner(f) THEN finish(table, f.start, "refused")
                    ELSE IF f.due = "passed"
                      THEN finish(finish(table, f.start, "refused"), f.stop, "refused")
                      ELSE table
           answered == f.state = "active" \/ retired_owner(f) \/ f.due = "passed"
           expired == f.state # "active" /\ ~retired_owner(f) /\ f.due = "passed"
           g == [f EXCEPT !.start = IF answered THEN Nobody ELSE @,
                          !.stop = IF expired THEN Nobody ELSE @]
           h == [g EXCEPT !.stop = Nobody]
<1>2. Finished(p, o, table, late) =
        IF retired_owner(g) THEN <<h, finish(first, g.stop, IF g.report = "ok" THEN "done" ELSE "refused")>>
        ELSE <<g, first>>
  BY DEF finish_operations, Finished
<1>3. /\ g \in HostOwner /\ g.generation = f.generation /\ g.launching = f.launching
      /\ g.supervisor = f.supervisor /\ g.report = f.report /\ g.state = f.state
      /\ g.due = f.due /\ g.unclean = f.unclean
      /\ g.start = (IF answered THEN Nobody ELSE f.start) /\ g.stop = (IF expired THEN Nobody ELSE f.stop)
  <2> HIDE DEF f, first, retired, answered, expired
  <2>1. f \in HostOwner /\ Nobody \in 0..MaxOperations
    BY <1>1, LifecycleConstants DEF OwnerFine, Nobody
  <2> QED
    BY <2>1 DEF HostOwner
<1>4. /\ h \in HostOwner /\ h.generation = g.generation /\ h.launching = g.launching
      /\ h.supervisor = g.supervisor /\ h.report = g.report /\ h.state = g.state
      /\ h.due = g.due /\ h.unclean = g.unclean /\ h.start = g.start /\ h.stop = Nobody
  <2> HIDE DEF f, first, retired, answered, expired, g
  <2>1. g \in HostOwner /\ Nobody \in 0..MaxOperations
    BY <1>3, LifecycleConstants DEF Nobody
  <2> QED
    BY <2>1 DEF HostOwner
<1>5. retired_owner(g) <=> retired
  BY <1>3 DEF retired_owner
<1>6. answered <=> (f.state = "active" \/ retired \/ f.due = "passed")
  OBVIOUS
<1>7. expired <=> (f.state # "active" /\ ~retired /\ f.due = "passed")
  OBVIOUS
<1>8. OwnerFine(g) /\ OwnerFine(h)
  BY <1>1, <1>3, <1>4, <1>5 DEF OwnerFine, retired_owner
<1> DEFINE once == finish(table, f.start, "refused")
<1> HIDE DEF g, h
<1>9. f.start = o.start /\ f.stop = o.stop
  BY <1>1 DEF SameOwner
<1>10. CASE retired
  <2> DEFINE status == IF g.report = "ok" THEN "done" ELSE "refused"
             kind == IF f.state = "active" THEN "done" ELSE "refused"
             after == finish(first, f.stop, status)
  <2>1. first = finish(table, o.start, kind)
    BY <1>9, <1>10
  <2>2. Finished(p, o, table, late) = <<h, after>> /\ h.start = Nobody /\ h.stop = Nobody
    BY <1>2, <1>3, <1>4, <1>5, <1>10
  <2>3. kind \in Settled /\ status \in Settled /\ (status = "done" => o.report = "ok")
    BY <1>1, <1>3 DEF Settled
  <2> HIDE DEF first, kind, status
  <2>4. Marked(table, o.start, kind, first)
    BY <2>1, <2>3, FinishTable
  <2>5. Marked(first, o.stop, status, after)
    <3>1. first \in Seq(Receipt) /\ Len(first) = Len(table)
      BY <2>4 DEF Marked
    <3> QED
      BY <1>9, <2>3, <3>1, FinishTable
  <2> HIDE DEF after
  <2>6. SettledBy(o, h, table, after)
    BY <2>2, <2>3, <2>4, <2>5 DEF SettledBy, Marked
  <2> QED
    BY <1>1, <1>3, <1>4, <1>8, <2>2, <2>6 DEF SameOwner
<1>11. CASE ~retired
  <2>1. Finished(p, o, table, late) = <<g, first>>
    BY <1>2, <1>5, <1>11
  <2>2. CASE f.state = "active"
    <3>1. first = finish(table, o.start, "done") /\ g.start = Nobody /\ g.stop = o.stop
      BY <1>3, <1>7, <1>9, <2>2
    <3> HIDE DEF first
    <3>2. SettledBy(o, g, table, first)
      <4>1. "done" \in Settled
        BY DEF Settled
      <4>2. Marked(table, o.start, "done", first)
        BY <3>1, <4>1, FinishTable
      <4> QED
        BY <3>1, <4>1, <4>2 DEF SettledBy, Marked, Nobody
    <3> QED
      BY <1>1, <1>3, <1>8, <2>1, <3>1, <3>2 DEF SameOwner
  <2>3. CASE f.state # "active" /\ f.due = "passed"
    <3>1. first = finish(once, o.stop, "refused") /\ g.start = Nobody /\ g.stop = Nobody
      BY <1>3, <1>9, <1>11, <2>3
    <3>2. once = finish(table, o.start, "refused")
      BY <1>9
    <3> HIDE DEF first, once
    <3>3. SettledBy(o, g, table, first)
      <4>1. "refused" \in Settled
        BY DEF Settled
      <4>2. Marked(table, o.start, "refused", once)
        BY <3>2, <4>1, FinishTable
      <4>3. Marked(once, o.stop, "refused", first)
        BY <3>1, <4>1, <4>2, FinishTable DEF Marked
      <4> QED
        BY <3>1, <4>1, <4>2, <4>3 DEF SettledBy, Marked
    <3> QED
      BY <1>1, <1>3, <1>8, <2>1, <3>1, <3>3 DEF SameOwner
  <2>4. CASE f.state # "active" /\ f.due # "passed"
    <3>1. first = table /\ g.start = o.start /\ g.stop = o.stop
      BY <1>3, <1>9, <1>11, <2>4
    <3>2. SettledBy(o, g, table, first)
      BY <3>1 DEF SettledBy, Nobody
    <3> QED
      BY <1>1, <1>3, <1>8, <2>1, <2>4, <3>1, <3>2 DEF SameOwner
  <2> QED
    BY <2>2, <2>3, <2>4
<1> QED
  BY <1>10, <1>11

(* The created owner takes over what was asked of the one that waited.         *)
LEMMA TakeOverOwner ==
  ASSUME NEW w, OwnerFine(w), w.launching,
         NEW c \in HostOwner, ~c.launching, ~c.unclean, c.report = "none",
         c.state = "stopping" => c.due # "none"
  PROVE  LET n == TakeOver(w, c) IN
           /\ OwnerFine(n) /\ ~n.launching /\ n.supervisor = c.supervisor
           /\ n.generation = c.generation /\ n.report = "none"
           /\ n.start = w.start /\ n.stop = w.stop
           /\ w.due # "none" => n.due # "none"
<1> DEFINE e == [c EXCEPT !.start = w.start, !.stop = w.stop]
           f == [e EXCEPT !.failure = TRUE]
           d == IF w.failure THEN begin_retirement(f)
                ELSE IF w.state = "stopping" THEN begin_retirement(e) ELSE e
           n == [d EXCEPT !.due = w.due]
<1>1. /\ e \in HostOwner /\ e.launching = c.launching /\ e.supervisor = c.supervisor
      /\ e.unclean = c.unclean /\ e.report = c.report /\ e.state = c.state /\ e.due = c.due
      /\ e.generation = c.generation /\ e.start = w.start /\ e.stop = w.stop
  BY DEF OwnerFine, HostOwner
<1>2. /\ f \in HostOwner /\ f.launching = e.launching /\ f.supervisor = e.supervisor
      /\ f.unclean = e.unclean /\ f.report = e.report /\ f.state = e.state /\ f.due = e.due
      /\ f.generation = e.generation /\ f.start = e.start /\ f.stop = e.stop
  <2> HIDE DEF e
  <2> QED
    BY <1>1 DEF HostOwner
<1> HIDE DEF e, f
<1>3. OwnerOpen(e) /\ OwnerOpen(f)
  BY <1>1, <1>2 DEF OwnerOpen
<1>4. /\ d \in HostOwner /\ ~d.launching /\ d.supervisor = c.supervisor /\ ~d.unclean
      /\ d.report = "none" /\ d.generation = c.generation /\ d.start = w.start /\ d.stop = w.stop
      /\ d.state = "stopping" => d.due # "none"
      /\ w.due = "none" => OwnerFine(d)
  <2>1. CASE w.failure
    BY <1>1, <1>2, <1>3, <2>1, BeginRetirement DEF OwnerFine, SameOwner
  <2>2. CASE ~w.failure /\ w.state = "stopping"
    BY <1>1, <1>3, <2>2, BeginRetirement DEF OwnerFine, SameOwner
  <2>3. CASE ~w.failure /\ w.state # "stopping"
    BY <1>1, <2>3 DEF OwnerFine, retired_owner
  <2> QED
    BY <2>1, <2>2, <2>3
<1>5. TakeOver(w, c) = IF w.due = "none" THEN d ELSE n
  BY DEF TakeOver, e, f
<1> HIDE DEF d
<1>6. CASE w.due = "none"
  BY <1>4, <1>5, <1>6
<1>7. CASE w.due # "none"
  <2>1. /\ n \in HostOwner /\ n.launching = d.launching /\ n.supervisor = d.supervisor
        /\ n.unclean = d.unclean /\ n.report = d.report /\ n.state = d.state /\ n.due = w.due
        /\ n.generation = d.generation /\ n.start = d.start /\ n.stop = d.stop
    BY <1>4 DEF OwnerFine, HostOwner
  <2> HIDE DEF n
  <2> QED
    BY <1>4, <1>5, <1>7, <2>1 DEF OwnerFine
<1> QED
  BY <1>6, <1>7

-----------------------------------------------------------------------------
(* Tables.  What each part of the invariant depends on.                        *)

SameReceipts(x, y) ==
    /\ y.ops = x.ops /\ y.commands = x.commands
    /\ \A p \in HostPlugin :
         /\ StartOf(y.owners[p]) = StartOf(x.owners[p])
         /\ StopOf(y.owners[p]) = StopOf(x.owners[p])
         /\ StopOf(x.owners[p]) # Nobody => y.owners[p].generation = x.owners[p].generation

ReceiptsInv(x, s) == CommandsOk(x) /\ HeldOk(x) /\ NoneLost(x) /\ StopsOk(x, s)

LEMMA ReceiptsMove ==
  ASSUME NEW x, NEW y, NEW s, SameReceipts(x, y), ReceiptsInv(x, s)
  PROVE  ReceiptsInv(y, s)
<1>1. \A k : QueuedIn(y, k) <=> QueuedIn(x, k)
  BY DEF QueuedIn, SameReceipts
<1>2. \A k, kind, p : IsHeld(y, k, kind, p) <=> IsHeld(x, k, kind, p)
  BY <1>1 DEF IsHeld, SameReceipts
<1>3. CommandsOk(y) /\ StopsOk(y, s)
  BY DEF SameReceipts, ReceiptsInv, CommandsOk, StopsOk
<1>4. HeldOk(y)
  BY <1>2 DEF SameReceipts, ReceiptsInv, HeldOk
<1>5. NoneLost(y)
  BY <1>1 DEF SameReceipts, ReceiptsInv, NoneLost
<1> QED
  BY <1>3, <1>4, <1>5 DEF ReceiptsInv

SameLaunches(x, y) ==
    /\ y.launcher.requests = x.launcher.requests /\ y.launcher.making = x.launcher.making
    /\ y.launcher.built = x.launcher.built /\ y.launcher.result = x.launcher.result
    /\ \A p \in HostPlugin : LaunchGen(y.owners[p]) = LaunchGen(x.owners[p])

LEMMA LaunchesMove ==
  ASSUME NEW x, NEW y, NEW s, TableOk(x), SameLaunches(x, y), LaunchesOk(x, s)
  PROVE  LaunchesOk(y, s)
<1>1. \A l \in Launch :
        /\ Waiting(x, s, l) => Waiting(y, s, l)
        /\ Created(x, l) => Created(y, l)
  BY DEF SameLaunches, Waiting, Created, Launch
<1>2. /\ x.launcher.requests \in Seq(Launch)
      /\ x.launcher.making \in Launch \cup {NoLaunch}
      /\ x.launcher.built \in Launch \cup {NoLaunch} /\ x.launcher.result \in Launch \cup {NoLaunch}
  BY DEF TableOk, TableType, Slot
<1>3. /\ \A i \in 1..Len(y.launcher.requests) : Waiting(y, s, y.launcher.requests[i])
      /\ y.launcher.making # NoLaunch => Waiting(y, s, y.launcher.making)
      /\ y.launcher.built # NoLaunch => Created(y, y.launcher.built)
      /\ y.launcher.result # NoLaunch => Created(y, y.launcher.result)
  BY <1>1, <1>2 DEF SameLaunches, LaunchesOk
<1> QED
  BY <1>3 DEF SameLaunches, LaunchesOk

TurnInv(x, s) == TableInv(x, s) /\ ClaimsOk(x, s)

(* collect takes the launch out of the channel and its owner's claim with it.  *)
LEMMA CollectKeeps ==
  ASSUME NEW x, NEW s \in OsType, TurnInv(x, s)
  PROVE  TurnInv(collect(x), s) /\ (Retiring(x) => Retiring(collect(x)))
<1> DEFINE l == x.launcher.result
           p == l.plugin
           w == x.owners[p]
           n == TakeOver(w, l.owner)
           y == [x EXCEPT !.owners[p] = n, !.launcher.result = NoLaunch]
<1>1. CASE l = NoLaunch
  BY <1>1 DEF collect
<1>2. CASE l # NoLaunch
  <2>1. /\ l \in Launch /\ p \in HostPlugin /\ l.owner \in HostOwner /\ Created(x, l)
        /\ w \in HostOwner \cup {NoOwner}
    BY <1>2 DEF TurnInv, TableInv, TableOk, TableType, Slot, Launch, LaunchesOk
  <2>2. w # NoOwner /\ w.launching /\ w.generation = l.owner.generation
    BY <2>1, NoOwnerApart DEF Created, LaunchGen
  <2>3. OwnerFine(w) /\ w.generation <= x.generations[p]
    BY <2>1, <2>2 DEF TurnInv, TableInv, OwnersOk
  <2>4. /\ OwnerFine(n) /\ ~n.launching /\ n.supervisor = l.owner.supervisor
        /\ n.generation = w.generation /\ n.report = "none" /\ n.start = w.start /\ n.stop = w.stop
        /\ w.due # "none" => n.due # "none"
    <3> HIDE DEF w, l
    <3> QED
      BY <2>1, <2>2, <2>3, TakeOverOwner DEF Created
  <2>5. collect(x) = y
    BY <1>2 DEF collect
  <2> HIDE DEF n
  <2>6. n \in HostOwner /\ n # NoOwner
    BY <2>4, NoOwnerApart DEF OwnerFine
  <2>7. /\ y.ops = x.ops /\ y.commands = x.commands /\ y.generations = x.generations
        /\ y.owners = [x.owners EXCEPT ![p] = n]
        /\ y.launcher.requests = x.launcher.requests /\ y.launcher.making = x.launcher.making
        /\ y.launcher.built = x.launcher.built /\ y.launcher.result = NoLaunch
        /\ y \in TableType
    BY <2>1, <2>6 DEF TurnInv, TableInv, TableOk, TableType, Slot
  <2>8. x.owners \in [HostPlugin -> HostOwner \cup {NoOwner}]
    BY DEF TurnInv, TableInv, TableOk, TableType
  <2>9. y.owners[p] = n /\ \A q \in HostPlugin : q # p => y.owners[q] = x.owners[q]
    BY <2>1, <2>7, <2>8
  <2> HIDE DEF y
  <2>10. TableOk(y)
    BY <2>7 DEF TurnInv, TableInv, TableOk
  <2>11. OwnersOk(y, s)
    BY <2>3, <2>4, <2>7, <2>9 DEF TurnInv, TableInv, OwnersOk
  <2>12. GenerationsOk(y, s)
    BY <2>7 DEF TurnInv, TableInv, GenerationsOk
  <2>13. SameReceipts(x, y)
    BY <2>2, <2>4, <2>6, <2>7, <2>9 DEF SameReceipts, StartOf, StopOf
  <2>14. ReceiptsInv(y, s)
    BY <2>13, ReceiptsMove DEF TurnInv, TableInv, ReceiptsInv
  <2>15. /\ LaunchGen(y.owners[p]) = 0 /\ \A q \in HostPlugin : q # p => LaunchGen(y.owners[q]) = LaunchGen(x.owners[q])
    BY <2>4, <2>9 DEF LaunchGen
  <2>16. /\ ~Requested(x.launcher.requests, p) /\ ~InSlot(x.launcher.making, p)
         /\ ~InSlot(x.launcher.built, p)
    BY <1>2, <2>1 DEF TurnInv, TableInv, LaunchesOk, InSlot
  <2>17. LaunchesOk(y, s)
    <3>1. \A k \in Launch : k.plugin # p =>
            /\ Waiting(x, s, k) => Waiting(y, s, k)
            /\ Created(x, k) => Created(y, k)
      BY <2>15 DEF Waiting, Created, Launch
    <3>2. /\ x.launcher.requests \in Seq(Launch)
          /\ x.launcher.making \in Launch \cup {NoLaunch}
          /\ x.launcher.built \in Launch \cup {NoLaunch}
      BY DEF TurnInv, TableInv, TableOk, TableType, Slot
    <3>3. /\ \A i \in 1..Len(y.launcher.requests) : Waiting(y, s, y.launcher.requests[i])
          /\ y.launcher.making # NoLaunch => Waiting(y, s, y.launcher.making)
          /\ y.launcher.built # NoLaunch => Created(y, y.launcher.built)
      <4>1. \A i \in 1..Len(x.launcher.requests) :
              x.launcher.requests[i] \in Launch /\ x.launcher.requests[i].plugin # p
        BY <2>16, <3>2 DEF Requested
      <4>2. /\ \A i \in 1..Len(x.launcher.requests) : Waiting(x, s, x.launcher.requests[i])
            /\ x.launcher.making # NoLaunch => Waiting(x, s, x.launcher.making)
            /\ x.launcher.built # NoLaunch => Created(x, x.launcher.built)
        BY DEF TurnInv, TableInv, LaunchesOk
      <4>3. /\ x.launcher.making # NoLaunch => x.launcher.making.plugin # p
            /\ x.launcher.built # NoLaunch => x.launcher.built.plugin # p
        BY <2>16 DEF InSlot
      <4>4. \A i \in 1..Len(x.launcher.requests) : Waiting(y, s, x.launcher.requests[i])
        BY <3>1, <4>1, <4>2
      <4>5. x.launcher.making # NoLaunch => Waiting(y, s, x.launcher.making)
        BY <3>1, <3>2, <4>2, <4>3
      <4>6. x.launcher.built # NoLaunch => Created(y, x.launcher.built)
        BY <3>1, <3>2, <4>2, <4>3
      <4> QED
        BY <2>7, <4>4, <4>5, <4>6
    <3>4. \A q \in HostPlugin : ~InSlot(y.launcher.result, q)
      BY <2>7 DEF InSlot
    <3>5. \A q \in HostPlugin : InSlot(l, q) => q = p
      BY DEF InSlot
    <3> QED
      BY <2>7, <2>15, <3>3, <3>4, <3>5 DEF TurnInv, TableInv, LaunchesOk
  <2>18. ClaimsOk(y, s)
    <3> SUFFICES ASSUME NEW q \in HostPlugin, NEW g \in Generation, s[q][g] \in Living
                 PROVE  SuperGen(y.owners[q]) = g \/ HoldsProcess(y.launcher.built, q, g)
      BY DEF ClaimsOk
    <3>1. SuperGen(x.owners[q]) = g \/ HoldsProcess(x.launcher.built, q, g) \/ HoldsProcess(l, q, g)
      BY DEF TurnInv, ClaimsOk
    <3>2. CASE HoldsProcess(l, q, g)
      BY <2>2, <2>4, <2>6, <2>9, <3>2 DEF HoldsProcess, InSlot, SuperGen
    <3>3. SuperGen(w) # g
      BY <2>2, <2>3, LifecycleConstants DEF OwnerFine, SuperGen, Generation
    <3> QED
      BY <2>7, <2>9, <3>1, <3>2, <3>3
  <2>19. Retiring(x) => Retiring(y)
    BY <2>1, <2>2, <2>4, <2>9 DEF Retiring
  <2> QED
    BY <2>5, <2>10, <2>11, <2>12, <2>14, <2>17, <2>18, <2>19 DEF TurnInv, TableInv, ReceiptsInv
<1> QED
  BY <1>1, <1>2

-----------------------------------------------------------------------------
(* One command.  o left the queue, and nobody holds it yet.                    *)
PoppedInv(x, s, o) ==
    /\ TableOk(x) /\ OwnersOk(x, s) /\ LaunchesOk(x, s) /\ GenerationsOk(x, s)
    /\ CommandsOk(x) /\ HeldOk(x) /\ StopsOk(x, s) /\ ClaimsOk(x, s)
    /\ o \in 1..Len(x.ops) /\ x.ops[o].status = "queued" /\ ~QueuedIn(x, o)
    /\ \A p \in HostPlugin : StartOf(x.owners[p]) # o /\ StopOf(x.owners[p]) # o
    /\ \A k \in 1..Len(x.ops) : x.ops[k].status = "queued" =>
         \/ k = o \/ QueuedIn(x, k)
         \/ \E p \in HostPlugin : StartOf(x.owners[p]) = k \/ StopOf(x.owners[p]) = k

LEMMA PopKeeps ==
  ASSUME NEW x, NEW s, TurnInv(x, s), x.commands # <<>>
  PROVE  PoppedInv([x EXCEPT !.commands = Tail(@)], s, Head(x.commands))
<1> DEFINE o == Head(x.commands)
           y == [x EXCEPT !.commands = Tail(@)]
<1>1. x \in TableType /\ x.commands \in Seq(Operation) /\ TableOk(x)
  BY DEF TurnInv, TableInv, TableOk, TableType
<1>2. /\ y \in TableType /\ y.ops = x.ops /\ y.commands = Tail(x.commands)
      /\ y.owners = x.owners /\ y.generations = x.generations /\ y.launcher = x.launcher
  <2>1. Tail(x.commands) \in Seq(Operation)
    BY <1>1
  <2> QED
    BY <1>1, <2>1 DEF TableType
<1>3. /\ Len(Tail(x.commands)) = Len(x.commands) - 1 /\ Len(x.commands) \in Nat \ {0}
      /\ \A i \in 1..Len(Tail(x.commands)) : Tail(x.commands)[i] = x.commands[i + 1]
      /\ o = x.commands[1]
  BY <1>1
<1> HIDE DEF y, o
<1>4. CommandsOk(x) /\ HeldOk(x) /\ NoneLost(x) /\ StopsOk(x, s)
  BY DEF TurnInv, TableInv
<1>5. \A k : QueuedIn(y, k) <=> QueuedIn(x, k) /\ k # o
  <2>1. ASSUME NEW k, QueuedIn(y, k) PROVE QueuedIn(x, k) /\ k # o
    <3>1. PICK i \in 1..Len(Tail(x.commands)) : Tail(x.commands)[i] = k
      BY <1>2, <2>1 DEF QueuedIn
    <3>2. i + 1 \in 1..Len(x.commands) /\ x.commands[i + 1] = k /\ 1 \in 1..Len(x.commands) /\ i + 1 # 1
      BY <1>3, <3>1
    <3> QED
      BY <1>3, <1>4, <3>2 DEF QueuedIn, CommandsOk
  <2>2. ASSUME NEW k, QueuedIn(x, k), k # o PROVE QueuedIn(y, k)
    <3>1. PICK i \in 1..Len(x.commands) : x.commands[i] = k
      BY <2>2 DEF QueuedIn
    <3>2. i # 1
      BY <1>3, <2>2, <3>1
    <3>3. i - 1 \in 1..Len(Tail(x.commands)) /\ Tail(x.commands)[i - 1] = k
      BY <1>3, <3>1, <3>2
    <3> QED
      BY <1>2, <3>3 DEF QueuedIn
  <2> QED
    BY <2>1, <2>2
<1>6. CommandsOk(y)
  <2>1. \A i \in 1..Len(y.commands) : i + 1 \in 1..Len(x.commands) /\ y.commands[i] = x.commands[i + 1]
    BY <1>2, <1>3
  <2>2. \A i, j \in 1..Len(y.commands) : i + 1 = j + 1 => i = j
    BY <1>2, <1>3
  <2> QED
    BY <1>2, <1>4, <2>1, <2>2 DEF CommandsOk
<1>7. o \in 1..Len(y.ops) /\ y.ops[o].status = "queued" /\ ~QueuedIn(y, o) /\ QueuedIn(x, o)
  BY <1>2, <1>3, <1>4, <1>5 DEF CommandsOk, QueuedIn
<1>8. HeldOk(y) /\ \A p \in HostPlugin : StartOf(y.owners[p]) # o /\ StopOf(y.owners[p]) # o
  <2>1. \A k, kind, p : IsHeld(x, k, kind, p) => k # o /\ IsHeld(y, k, kind, p)
    BY <1>2, <1>5, <1>7 DEF IsHeld
  <2>2. o # Nobody
    BY <1>1, <1>2, <1>7 DEF TableType, Nobody
  <2> QED
    BY <1>2, <1>4, <2>1, <2>2 DEF HeldOk
<1>9. \A k \in 1..Len(y.ops) : y.ops[k].status = "queued" =>
         \/ k = o \/ QueuedIn(y, k)
         \/ \E p \in HostPlugin : StartOf(y.owners[p]) = k \/ StopOf(y.owners[p]) = k
  BY <1>2, <1>4, <1>5 DEF NoneLost
<1>10. StopsOk(y, s)
  BY <1>2, <1>4 DEF StopsOk
<1>11. TableOk(y)
  BY <1>1, <1>2, <1>3, LifecycleConstants DEF TableOk
<1>12. OwnersOk(y, s) /\ GenerationsOk(y, s) /\ ClaimsOk(y, s)
  BY <1>2 DEF TurnInv, TableInv, OwnersOk, GenerationsOk, ClaimsOk
<1>13. LaunchesOk(y, s)
  <2>1. SameLaunches(x, y)
    BY <1>2 DEF SameLaunches
  <2> QED
    BY <1>1, <2>1, LaunchesMove DEF TurnInv, TableInv
<1>14. PoppedInv(y, s, o)
  BY <1>6, <1>7, <1>8, <1>9, <1>10, <1>11, <1>12, <1>13 DEF PoppedInv
<1> QED
  BY <1>14 DEF y, o

LEMMA RefuseKeeps ==
  ASSUME NEW x, NEW s, NEW o, PoppedInv(x, s, o)
  PROVE  TurnInv(Refuse(x, o), s)
<1> DEFINE y == Refuse(x, o)
           r == [x.ops[o] EXCEPT !.status = "refused"]
<1>1. x \in TableType /\ o \in 1..Len(x.ops) /\ x.ops \in Seq(Receipt) /\ o # Nobody
  BY DEF PoppedInv, TableOk, TableType, Nobody
<1>2. /\ r \in Receipt /\ r.status = "refused" /\ r.kind = x.ops[o].kind
      /\ r.plugin = x.ops[o].plugin /\ r.generation = x.ops[o].generation
  <2>1. x.ops[o] \in Receipt
    BY <1>1
  <2> QED
    BY <2>1 DEF Receipt
<1>3. finish(x.ops, o, "refused") = [x.ops EXCEPT ![o] = r]
  BY <1>1 DEF finish
<1> HIDE DEF r
<1>4. /\ y \in TableType /\ y.ops = [x.ops EXCEPT ![o] = r] /\ y.commands = x.commands
      /\ y.owners = x.owners /\ y.generations = x.generations /\ y.launcher = x.launcher
  <2>1. [x.ops EXCEPT ![o] = r] \in Seq(Receipt)
    BY <1>1, <1>2
  <2> QED
    BY <1>1, <1>3, <2>1 DEF Refuse, TableType
<1>5. /\ Len(y.ops) = Len(x.ops) /\ y.ops[o] = r
      /\ \A k \in 1..Len(x.ops) : k # o => y.ops[k] = x.ops[k]
  BY <1>1, <1>4
<1> HIDE DEF y
<1>6. \A k : QueuedIn(y, k) <=> QueuedIn(x, k)
  BY <1>4 DEF QueuedIn
<1>7. \A k, kind, p : k # o /\ IsHeld(x, k, kind, p) => IsHeld(y, k, kind, p)
  BY <1>5, <1>6 DEF IsHeld
<1>8. CommandsOk(y)
  BY <1>4, <1>5 DEF PoppedInv, CommandsOk, QueuedIn
<1>9. HeldOk(y)
  <2>1. \A k, kind, p : IsHeld(x, k, kind, p) => k \in 1..Len(x.ops)
    BY DEF IsHeld
  <2> QED
    BY <1>4, <1>5, <1>7, <2>1 DEF PoppedInv, HeldOk
<1>10. NoneLost(y)
  BY <1>2, <1>4, <1>5, <1>6 DEF PoppedInv, NoneLost
<1>11. StopsOk(y, s)
  BY <1>2, <1>5 DEF PoppedInv, StopsOk
<1>12. TableOk(y) /\ OwnersOk(y, s) /\ GenerationsOk(y, s) /\ ClaimsOk(y, s)
  BY <1>4, <1>5 DEF PoppedInv, TableOk, OwnersOk, GenerationsOk, ClaimsOk
<1>13. LaunchesOk(y, s)
  <2>1. SameLaunches(x, y)
    BY <1>4 DEF SameLaunches
  <2> QED
    BY <2>1, LaunchesMove DEF PoppedInv
<1> QED
  BY <1>8, <1>9, <1>10, <1>11, <1>12, <1>13 DEF TurnInv, TableInv, y

(* One owner takes the receipt, and keeps what the other tables know of it.    *)
LEMMA StopKeeps ==
  ASSUME NEW x, NEW s, NEW o, PoppedInv(x, s, o), x.ops[o].kind = "stop"
  PROVE  TurnInv(Stop(x, x.ops[o].plugin, x.ops[o].generation, o), s)
<1> DEFINE p == x.ops[o].plugin
           g == x.ops[o].generation
           w == x.owners[p]
           v == [w EXCEPT !.stop = o]
           n == IF v.state = "starting" THEN fail(v)
                ELSE IF ~retired_owner(v) THEN begin_retirement(v) ELSE v
           y == [x EXCEPT !.owners[p] = n]
<1>1. CASE p \notin OwnedIn(x) \/ x.generations[p] # g \/ w.generation # g \/ w.stop # Nobody
  BY <1>1, RefuseKeeps DEF Stop
<1>2. CASE ~(p \notin OwnedIn(x) \/ x.generations[p] # g \/ w.generation # g \/ w.stop # Nobody)
  <2>1. Stop(x, p, g, o) = y
    BY <1>2 DEF Stop
  <2>2. /\ x \in TableType /\ o \in Operation /\ o # Nobody /\ p \in HostPlugin /\ w # NoOwner
        /\ x.ops[o] \in Receipt /\ w.generation = g /\ w.stop = Nobody
    <3>1. x \in TableType /\ Len(x.ops) <= MaxOperations /\ x.ops \in Seq(Receipt) /\ o \in 1..Len(x.ops)
      BY DEF PoppedInv, TableOk, TableType
    <3>2. x.ops[o] \in Receipt /\ o \in Operation /\ o # Nobody
      BY <3>1, LifecycleConstants DEF Operation, Nobody
    <3>3. p \in HostPlugin
      BY <3>2 DEF Receipt
    <3> QED
      BY <1>2, <3>1, <3>2, <3>3 DEF OwnedIn
  <2>3. OwnerFine(w) /\ w \in HostOwner
    BY <2>2 DEF PoppedInv, OwnersOk, OwnerFine
  <2> HIDE DEF w
  <2>4. /\ v \in HostOwner /\ v.stop = o /\ v.start = w.start /\ v.generation = w.generation
        /\ v.launching = w.launching /\ v.supervisor = w.supervisor /\ v.unclean = w.unclean
        /\ v.state = w.state /\ v.due = w.due /\ v.report = w.report
    BY <2>2, <2>3 DEF HostOwner, Operation
  <2> HIDE DEF v
  <2>5. OwnerOpen(v)
    BY <2>3, <2>4 DEF OwnerFine, OwnerOpen
  <2>6. /\ OwnerFine(n) /\ SameOwner(v, n) /\ n.supervisor = v.supervisor /\ n.report = v.report
    BY <2>4, <2>5, Fail, BeginRetirement DEF OwnerFine, OwnerOpen, SameOwner
  <2> HIDE DEF n
  <2>7. /\ OwnerFine(n) /\ n.launching = w.launching /\ n.supervisor = w.supervisor
        /\ n.generation = g /\ n.start = w.start /\ n.stop = o /\ n.report = w.report
        /\ n \in HostOwner /\ n # NoOwner
    BY <2>2, <2>4, <2>6, NoOwnerApart DEF SameOwner, OwnerFine
  <2>8. x.owners \in [HostPlugin -> HostOwner \cup {NoOwner}]
    BY <2>2 DEF TableType
  <2>9. /\ y.ops = x.ops /\ y.commands = x.commands /\ y.generations = x.generations
        /\ y.launcher = x.launcher /\ y.owners = [x.owners EXCEPT ![p] = n] /\ y \in TableType
    BY <2>2, <2>7 DEF TableType
  <2>10. y.owners[p] = n /\ \A q \in HostPlugin : q # p => y.owners[q] = x.owners[q]
    BY <2>2, <2>8, <2>9
  <2> HIDE DEF y
  <2>11. /\ StopOf(y.owners[p]) = o /\ StartOf(y.owners[p]) = StartOf(x.owners[p])
         /\ SuperGen(y.owners[p]) = SuperGen(x.owners[p])
         /\ LaunchGen(y.owners[p]) = LaunchGen(x.owners[p])
         /\ StopOf(x.owners[p]) = Nobody
    BY <2>2, <2>7, <2>10 DEF StopOf, StartOf, SuperGen, LaunchGen, w
  <2>12. \A k : QueuedIn(y, k) <=> QueuedIn(x, k)
    BY <2>9 DEF QueuedIn
  <2>13. \A k, kind, q : IsHeld(y, k, kind, q) <=> IsHeld(x, k, kind, q)
    BY <2>9, <2>12 DEF IsHeld
  <2>14. IsHeld(x, o, "stop", p)
    BY DEF PoppedInv, IsHeld
  <2>15. HeldOk(y)
    <3> SUFFICES ASSUME NEW q \in HostPlugin
                 PROVE  /\ StartOf(y.owners[q]) # Nobody => IsHeld(y, StartOf(y.owners[q]), "start", q)
                        /\ StopOf(y.owners[q]) # Nobody =>
                             /\ IsHeld(y, StopOf(y.owners[q]), "stop", q)
                             /\ y.ops[StopOf(y.owners[q])].generation = y.owners[q].generation
      BY DEF HeldOk
    <3>1. /\ StartOf(x.owners[q]) # Nobody => IsHeld(x, StartOf(x.owners[q]), "start", q)
          /\ StopOf(x.owners[q]) # Nobody =>
               /\ IsHeld(x, StopOf(x.owners[q]), "stop", q)
               /\ x.ops[StopOf(x.owners[q])].generation = x.owners[q].generation
      BY DEF PoppedInv, HeldOk
    <3>2. CASE q = p
      BY <2>7, <2>9, <2>10, <2>11, <2>13, <2>14, <3>1, <3>2
    <3>3. CASE q # p
      BY <2>9, <2>10, <2>13, <3>1, <3>3
    <3> QED
      BY <3>2, <3>3
  <2>16. NoneLost(y)
    <3> SUFFICES ASSUME NEW k \in 1..Len(x.ops), x.ops[k].status = "queued", ~QueuedIn(x, k)
                 PROVE  \E q \in HostPlugin : StartOf(y.owners[q]) = k \/ StopOf(y.owners[q]) = k
      BY <2>9, <2>12 DEF NoneLost
    <3>1. CASE k = o
      BY <2>2, <2>11, <3>1
    <3>2. CASE k # o
      <4>1. PICK q \in HostPlugin : StartOf(x.owners[q]) = k \/ StopOf(x.owners[q]) = k
        BY <3>2 DEF PoppedInv
      <4>2. k # Nobody
        BY <2>2 DEF TableType, Nobody
      <4> QED
        BY <2>10, <2>11, <4>1, <4>2
    <3> QED
      BY <3>1, <3>2
  <2>17. StopsOk(y, s) /\ CommandsOk(y) /\ TableOk(y) /\ GenerationsOk(y, s)
    BY <2>9, <2>12 DEF PoppedInv, StopsOk, CommandsOk, TableOk, GenerationsOk
  <2>18. OwnersOk(y, s)
    <3> SUFFICES ASSUME NEW q \in HostPlugin, y.owners[q] # NoOwner
                 PROVE  /\ OwnerFine(y.owners[q])
                        /\ y.owners[q].report = "ok" => s[q][y.owners[q].generation] = "gone"
                        /\ y.owners[q].generation <= y.generations[q]
      BY DEF OwnersOk
    <3>1. \A k \in HostPlugin : x.owners[k] # NoOwner =>
            /\ OwnerFine(x.owners[k])
            /\ x.owners[k].report = "ok" => s[k][x.owners[k].generation] = "gone"
            /\ x.owners[k].generation <= x.generations[k]
      BY DEF PoppedInv, OwnersOk
    <3>2. CASE q = p
      <4>1. w = x.owners[p]
        BY DEF w
      <4>2. y.owners[q] = n /\ n.generation = w.generation /\ n.report = w.report /\ y.generations = x.generations
        BY <2>2, <2>7, <2>9, <2>10, <3>2
      <4>3. /\ w.report = "ok" => s[p][w.generation] = "gone"
            /\ w.generation <= x.generations[p]
        BY <2>2, <3>1, <4>1
      <4> QED
        BY <2>7, <3>2, <4>2, <4>3
    <3>3. CASE q # p
      BY <2>9, <2>10, <3>1, <3>3
    <3> QED
      BY <3>2, <3>3
  <2>19. LaunchesOk(y, s)
    <3>1. SameLaunches(x, y)
      BY <2>9, <2>10, <2>11 DEF SameLaunches
    <3> QED
      BY <3>1, LaunchesMove DEF PoppedInv
  <2>20. ClaimsOk(y, s)
    BY <2>9, <2>10, <2>11 DEF PoppedInv, ClaimsOk
  <2> QED
    BY <2>1, <2>15, <2>16, <2>17, <2>18, <2>19, <2>20 DEF TurnInv, TableInv
<1> QED
  BY <1>1, <1>2

(* The owner that is replaced holds nothing, so its plugin has no launch; the  *)
(* generation is new, so its process was never created.                        *)
OnlyOwner(x, y, p) == \A q \in HostPlugin : q # p => y.owners[q] = x.owners[q]

OldRefused(x, y, p) ==
    \A k \in 1..Len(x.ops) :
        IF k \in {StartOf(x.owners[p]), StopOf(x.owners[p])}
          THEN /\ y.ops[k].status = "refused" /\ y.ops[k].kind = x.ops[k].kind
               /\ y.ops[k].plugin = x.ops[k].plugin
          ELSE y.ops[k] = x.ops[k]

LEMMA StartReceipts ==
  ASSUME NEW x, NEW y, NEW s, NEW o, PoppedInv(x, s, o), NEW p \in HostPlugin,
         x.ops[o].kind = "start", x.ops[o].plugin = p,
         y.commands = x.commands, Len(y.ops) = Len(x.ops),
         StartOf(y.owners[p]) = o, StopOf(y.owners[p]) = Nobody,
         OnlyOwner(x, y, p), OldRefused(x, y, p)
  PROVE  CommandsOk(y) /\ HeldOk(y) /\ NoneLost(y) /\ StopsOk(y, s)
<1> USE DEF OnlyOwner, OldRefused
<1> DEFINE old == {StartOf(x.owners[p]), StopOf(x.owners[p])}
<1>0. HeldOk(x) /\ CommandsOk(x) /\ StopsOk(x, s)
  BY DEF PoppedInv
<1>1. \A k : QueuedIn(y, k) <=> QueuedIn(x, k)
  BY DEF QueuedIn
<1>2. \A k \in old : k # Nobody => ~QueuedIn(x, k) /\ x.ops[k].plugin = p
  BY <1>0 DEF HeldOk, IsHeld
<1>3. \A k \in 1..Len(x.ops) : k # Nobody
  BY DEF PoppedInv, TableOk, TableType, Nobody
<1>4. CommandsOk(y)
  BY <1>0, <1>2, <1>3 DEF CommandsOk, QueuedIn
<1>5. o \notin old
  BY DEF PoppedInv
<1>6. HeldOk(y)
  <2>1. ASSUME NEW q \in HostPlugin, q # p, NEW k, NEW kind, k # Nobody, IsHeld(x, k, kind, q)
        PROVE  IsHeld(y, k, kind, q) /\ y.ops[k] = x.ops[k]
    BY <1>1, <1>2, <2>1 DEF IsHeld
  <2>2. IsHeld(y, o, "start", p)
    BY <1>1, <1>5 DEF IsHeld, PoppedInv
  <2> SUFFICES ASSUME NEW q \in HostPlugin
               PROVE  /\ StartOf(y.owners[q]) # Nobody => IsHeld(y, StartOf(y.owners[q]), "start", q)
                      /\ StopOf(y.owners[q]) # Nobody =>
                           /\ IsHeld(y, StopOf(y.owners[q]), "stop", q)
                           /\ y.ops[StopOf(y.owners[q])].generation = y.owners[q].generation
    BY DEF HeldOk
  <2>3. CASE q = p
    BY <2>2, <2>3
  <2>4. CASE q # p
    <3>1. /\ StartOf(x.owners[q]) # Nobody => IsHeld(x, StartOf(x.owners[q]), "start", q)
          /\ StopOf(x.owners[q]) # Nobody =>
               /\ IsHeld(x, StopOf(x.owners[q]), "stop", q)
               /\ x.ops[StopOf(x.owners[q])].generation = x.owners[q].generation
      BY <1>0 DEF HeldOk
    <3>2. y.owners[q] = x.owners[q]
      BY <2>4
    <3>3. StartOf(y.owners[q]) # Nobody => IsHeld(y, StartOf(y.owners[q]), "start", q)
      BY <2>1, <2>4, <3>1, <3>2
    <3>4. ASSUME StopOf(y.owners[q]) # Nobody
          PROVE  /\ IsHeld(y, StopOf(y.owners[q]), "stop", q)
                 /\ y.ops[StopOf(y.owners[q])] = x.ops[StopOf(x.owners[q])]
      BY <2>1, <2>4, <3>1, <3>2, <3>4
    <3> QED
      BY <3>1, <3>2, <3>3, <3>4
  <2> QED
    BY <2>3, <2>4
<1>7. NoneLost(y)
  <2> SUFFICES ASSUME NEW k \in 1..Len(x.ops), y.ops[k].status = "queued", ~QueuedIn(x, k), k # o
               PROVE  \E q \in HostPlugin : StartOf(y.owners[q]) = k \/ StopOf(y.owners[q]) = k
    BY <1>1 DEF NoneLost
  <2>1. k \notin old /\ x.ops[k].status = "queued"
    OBVIOUS
  <2>2. PICK q \in HostPlugin : StartOf(x.owners[q]) = k \/ StopOf(x.owners[q]) = k
    BY <2>1 DEF PoppedInv
  <2> QED
    BY <2>1, <2>2
<1>8. StopsOk(y, s)
  BY <1>0 DEF StopsOk
<1> QED
  BY <1>4, <1>6, <1>7, <1>8

(* A free plugin: no launch anywhere, and nothing of its owner's is claimed.   *)
LEMMA StartLaunches ==
  ASSUME NEW x, NEW y, NEW s, NEW p \in HostPlugin, NEW g \in Generation, NEW begun \in BOOLEAN,
         TableOk(x), LaunchesOk(x, s), LaunchGen(x.owners[p]) = 0, s[p][g] = "unborn",
         \A q \in HostPlugin : q # p => y.owners[q] = x.owners[q],
         LaunchGen(y.owners[p]) = IF begun THEN g ELSE 0,
         y.launcher = [x.launcher EXCEPT !.requests =
                         IF begun THEN Append(@, [plugin |-> p, owner |-> NewOwner(g)]) ELSE @]
  PROVE  LaunchesOk(y, s)
<1> DEFINE q == x.launcher.requests
           l == [plugin |-> p, owner |-> NewOwner(g)]
           m == x.launcher.making
           b == x.launcher.built
           r == x.launcher.result
<1>1. /\ q \in Seq(Launch) /\ m \in Launch \cup {NoLaunch}
      /\ b \in Launch \cup {NoLaunch} /\ r \in Launch \cup {NoLaunch}
  BY DEF TableOk, TableType, Slot
<1>2. /\ y.launcher.making = m /\ y.launcher.built = b /\ y.launcher.result = r
      /\ y.launcher.requests = IF begun THEN Append(q, l) ELSE q
  BY DEF TableOk, TableType
<1>3. \A k \in Launch : Waiting(x, s, k) \/ Created(x, k) => k.plugin # p /\ k.plugin \in HostPlugin
  <2>1. \A k \in Launch : k.owner.generation # 0 /\ k.plugin \in HostPlugin
    BY NoOwnerApart DEF Launch
  <2> QED
    BY <2>1 DEF Waiting, Created
<1>4. /\ \A i \in 1..Len(q) : Waiting(x, s, q[i])
      /\ m # NoLaunch => Waiting(x, s, m)
      /\ b # NoLaunch => Created(x, b)
      /\ r # NoLaunch => Created(x, r)
      /\ \A i, j \in 1..Len(q) : q[i].plugin = q[j].plugin => i = j
  BY DEF LaunchesOk
<1>5. \A k \in Launch : /\ Waiting(x, s, k) => Waiting(y, s, k)
                        /\ Created(x, k) => Created(y, k)
  BY <1>3 DEF Waiting, Created
<1>6. ~Requested(q, p) /\ ~InSlot(m, p) /\ ~InSlot(b, p) /\ ~InSlot(r, p)
  <2>1. \A i \in 1..Len(q) : q[i].plugin # p
    BY <1>1, <1>3, <1>4
  <2> QED
    BY <1>1, <1>3, <1>4, <2>1 DEF Requested, InSlot
<1> DEFINE z == Append(q, l)
<1>7. /\ Len(z) = Len(q) + 1 /\ z[Len(z)] = l /\ Len(q) \in Nat
      /\ \A i \in 1..Len(q) : z[i] = q[i]
  <2> HIDE DEF l
  <2> QED
    BY <1>1
<1>8. l.plugin = p /\ l.owner.generation = g
  BY DEF NewOwner
<1> HIDE DEF q, l, m, b, r, z
<1>9. /\ m # NoLaunch => Waiting(y, s, m)
      /\ b # NoLaunch => Created(y, b)
      /\ r # NoLaunch => Created(y, r)
      /\ \A i \in 1..Len(q) : Waiting(y, s, q[i])
  BY <1>1, <1>4, <1>5
<1>10. CASE ~begun
  <2>1. \A k \in HostPlugin : LaunchGen(y.owners[k]) = LaunchGen(x.owners[k])
    BY <1>10
  <2> QED
    BY <1>2, <1>9, <1>10, <2>1 DEF LaunchesOk, q, m, b, r
<1>11. CASE begun
  <2>1. Waiting(y, s, l)
    BY <1>8, <1>11 DEF Waiting
  <2>2. \A i \in 1..Len(z) : i \in 1..Len(q) \/ i = Len(z)
    BY <1>7
  <2>3. \A i \in 1..Len(z) : Waiting(y, s, z[i])
    BY <1>7, <1>9, <2>1, <2>2
  <2>4. \A i \in 1..Len(q) : z[i].plugin # p
    BY <1>6, <1>7 DEF Requested
  <2>5. \A i, j \in 1..Len(z) : z[i].plugin = z[j].plugin => i = j
    <3> SUFFICES ASSUME NEW i \in 1..Len(z), NEW j \in 1..Len(z), z[i].plugin = z[j].plugin
                 PROVE  i = j
      OBVIOUS
    <3>1. CASE i \in 1..Len(q) /\ j \in 1..Len(q)
      BY <1>4, <1>7, <3>1
    <3>2. CASE i = Len(z) /\ j \in 1..Len(q)
      BY <1>7, <1>8, <2>4, <3>2
    <3>3. CASE j = Len(z) /\ i \in 1..Len(q)
      BY <1>7, <1>8, <2>4, <3>3
    <3> QED
      BY <2>2, <3>1, <3>2, <3>3
  <2>6. \A k \in HostPlugin : Requested(z, k) <=> Requested(q, k) \/ k = p
    <3>1. \A k : Requested(q, k) => Requested(z, k)
      BY <1>7 DEF Requested
    <3>2. Requested(z, p)
      BY <1>7, <1>8 DEF Requested
    <3>3. \A k : Requested(z, k) => Requested(q, k) \/ k = p
      BY <1>7, <1>8, <2>2 DEF Requested
    <3> QED
      BY <3>1, <3>2, <3>3
  <2>7. \A k \in HostPlugin :
             /\ Requested(z, k) => ~InSlot(m, k) /\ ~InSlot(b, k) /\ ~InSlot(r, k)
             /\ InSlot(r, k) => ~InSlot(m, k) /\ ~InSlot(b, k)
             /\ LaunchGen(y.owners[k]) # 0 =>
                  Requested(z, k) \/ InSlot(m, k) \/ InSlot(b, k) \/ InSlot(r, k)
    BY <1>6, <2>6 DEF LaunchesOk, q, m, b, r
  <2>8. m = NoLaunch \/ b = NoLaunch
    BY DEF LaunchesOk, m, b
  <2>9. y.launcher.requests = z
    BY <1>2, <1>11 DEF z
  <2> QED
    BY <1>2, <1>9, <2>3, <2>5, <2>7, <2>8, <2>9 DEF LaunchesOk
<1> QED
  BY <1>10, <1>11

Started(g, waiting, o) ==
    LET w == [NewOwner(g) EXCEPT !.launching = waiting < MAX_HOSTS, !.start = o]
    IN  IF waiting < MAX_HOSTS THEN w ELSE fail(w)

LEMMA NewOwnerFine ==
  ASSUME NEW g \in Generation, NEW waiting \in Nat, NEW o \in 1..MaxOperations
  PROVE  LET n == Started(g, waiting, o)
         IN  /\ OwnerFine(n) /\ n.generation = g /\ ~n.supervisor
             /\ n.launching <=> waiting < MAX_HOSTS
             /\ n.report = "none" /\ n.start = o /\ n.stop = Nobody
<1> DEFINE begun == waiting < MAX_HOSTS
           w == [NewOwner(g) EXCEPT !.launching = begun, !.start = o]
<1>0. begun = TRUE \/ begun = FALSE
  OBVIOUS
<1>1. /\ w \in HostOwner /\ w.generation = g /\ w.launching = begun /\ ~w.supervisor /\ ~w.unclean
      /\ w.state = "starting" /\ w.report = "none" /\ w.start = o /\ w.stop = Nobody
  <2> DEFINE v == NewOwner(g)
  <2>1. /\ v \in HostOwner /\ v.generation = g /\ ~v.launching /\ ~v.supervisor /\ ~v.unclean
        /\ v.state = "starting" /\ v.report = "none" /\ v.stop = Nobody /\ v.due = "none"
    BY LifecycleConstants DEF NewOwner, HostOwner, Nobody
  <2> HIDE DEF v
  <2>2. o \in 0..MaxOperations
    BY LifecycleConstants
  <2>3. w = [v EXCEPT !.launching = begun, !.start = o]
    BY DEF v
  <2> HIDE DEF w, begun
  <2>4. CASE begun = TRUE
    BY <2>1, <2>2, <2>3, <2>4 DEF HostOwner
  <2>5. CASE begun = FALSE
    BY <2>1, <2>2, <2>3, <2>5 DEF HostOwner
  <2> QED
    BY <1>0, <2>4, <2>5
<1> HIDE DEF w
<1>2. OwnerOpen(w) /\ OwnerFine(w)
  BY <1>1 DEF OwnerOpen, OwnerFine
<1>3. LET n == fail(w) IN
        /\ OwnerFine(n) /\ SameOwner(w, n) /\ n.supervisor = w.supervisor /\ n.report = w.report
  BY <1>2, Fail
<1>4. Started(g, waiting, o) = IF begun THEN w ELSE fail(w)
  BY DEF Started, w, begun
<1> QED
  BY <1>0, <1>1, <1>2, <1>3, <1>4 DEF SameOwner, begun

(* The refusals of Start leave the popped table; otherwise the plugin's owner, *)
(* if there is one, is retired, and its generation is older than g.            *)
LEMMA StartKeeps ==
  ASSUME NEW x, NEW s \in OsType, NEW o, PoppedInv(x, s, o), x.ops[o].kind = "start"
  PROVE  TurnInv(Start(x, x.ops[o].plugin, x.ops[o].generation, o), s)
<1> DEFINE p == x.ops[o].plugin
           g == x.ops[o].generation
           full == Cardinality({q \in OwnedIn(x) : ~retired_owner(x.owners[q])}) >= MAX_HOSTS
           begun == Len(x.launcher.requests) < MAX_HOSTS
           w == [NewOwner(g) EXCEPT !.launching = begun, !.start = o]
           n == IF begun THEN w ELSE fail(w)
           old == IF p \in OwnedIn(x) THEN {x.owners[p].start, x.owners[p].stop} ELSE {}
           after == [i \in DOMAIN x.ops |-> IF i \in old THEN [x.ops[i] EXCEPT !.status = "refused"]
                                            ELSE x.ops[i]]
           queue == IF begun THEN Append(x.launcher.requests, [plugin |-> p, owner |-> NewOwner(g)])
                    ELSE x.launcher.requests
           y == [x EXCEPT !.ops = after, !.generations[p] = g, !.owners[p] = n,
                          !.launcher.requests = queue]
<1>1. CASE Busy(x, p) \/ g <= x.generations[p] \/ full
  BY <1>1, RefuseKeeps DEF Start
<1>2. CASE ~Busy(x, p) /\ ~(g <= x.generations[p]) /\ ~full
  <2>1. Start(x, p, g, o) = y
    BY <1>2 DEF Start
  <2>2. /\ x \in TableType /\ Len(x.ops) <= MaxOperations /\ x.ops \in Seq(Receipt)
        /\ o \in 1..Len(x.ops) /\ x.launcher.requests \in Seq(Launch)
        /\ x.owners \in [HostPlugin -> HostOwner \cup {NoOwner}]
        /\ x.generations \in [HostPlugin -> 0..MaxGeneration]
    BY DEF PoppedInv, TableOk, TableType
  <2>3. x.ops[o] \in Receipt /\ o \in 1..MaxOperations
    BY <2>2, LifecycleConstants
  <2>4. p \in HostPlugin /\ g \in Generation
    BY <2>3 DEF Receipt
  <2>5. begun \in BOOLEAN
    OBVIOUS
  <2>6. /\ OwnerFine(n) /\ n.generation = g /\ (n.launching <=> begun) /\ ~n.supervisor
        /\ n.report = "none" /\ n.start = o /\ n.stop = Nobody
    <3>1. Len(x.launcher.requests) \in Nat
      BY <2>2
    <3>2. n = Started(g, Len(x.launcher.requests), o)
      BY DEF Started
    <3> HIDE DEF n, w
    <3> QED
      BY <2>3, <2>4, <3>1, <3>2, NewOwnerFine
  <2> HIDE DEF n, w, begun
  <2>7. n \in HostOwner /\ n # NoOwner
    BY <2>6, NoOwnerApart DEF OwnerFine
  <2>8. after \in Seq(Receipt) /\ Len(after) = Len(x.ops)
    <3>2. DOMAIN x.ops = 1..Len(x.ops) /\ Len(x.ops) \in Nat
      BY <2>2
    <3>0. \A i \in DOMAIN x.ops : x.ops[i] \in Receipt
      BY <2>2, <3>2
    <3>1. \A i \in DOMAIN x.ops : x.ops[i] \in Receipt /\ [x.ops[i] EXCEPT !.status = "refused"] \in Receipt
      BY <3>0 DEF Receipt
    <3> HIDE DEF old
    <3> QED
      BY <3>1, <3>2
  <2>9. \A k \in 1..Len(x.ops) :
          IF k \in {StartOf(x.owners[p]), StopOf(x.owners[p])}
            THEN /\ after[k].status = "refused" /\ after[k].kind = x.ops[k].kind
                 /\ after[k].plugin = x.ops[k].plugin
            ELSE after[k] = x.ops[k]
    <3>1. \A k \in 1..Len(x.ops) : k # Nobody /\ x.ops[k] \in Receipt
      BY <2>2 DEF Nobody
    <3>2. \A k \in 1..Len(x.ops) : k \in {StartOf(x.owners[p]), StopOf(x.owners[p])} <=> k \in old
      BY <2>4, <3>1 DEF StartOf, StopOf, OwnedIn
    <3> HIDE DEF old
    <3>3. \A k \in 1..Len(x.ops) : after[k] = IF k \in old THEN [x.ops[k] EXCEPT !.status = "refused"] ELSE x.ops[k]
      BY <2>2
    <3> HIDE DEF after
    <3> QED
      BY ZenonT(60), <3>1, <3>2, <3>3 DEF Receipt
  <2> HIDE DEF after
  <2>10. queue \in Seq(Launch)
    <3>1. NewOwner(g) \in HostOwner
      BY <2>4, LifecycleConstants DEF NewOwner, HostOwner, Nobody
    <3>2. [plugin |-> p, owner |-> NewOwner(g)] \in Launch
      BY <2>4, <3>1 DEF Launch
    <3> QED
      BY <2>2, <3>2
  <2>11. y.launcher = [x.launcher EXCEPT !.requests = queue]
    BY <2>2 DEF TableType
  <2> HIDE DEF queue
  <2>12. /\ y \in TableType /\ y.ops = after /\ y.commands = x.commands
         /\ y.generations = [x.generations EXCEPT ![p] = g]
         /\ y.owners = [x.owners EXCEPT ![p] = n]
         /\ y.launcher.making = x.launcher.making /\ y.launcher.built = x.launcher.built
         /\ y.launcher.result = x.launcher.result
    <3>1. /\ [x.generations EXCEPT ![p] = g] \in [HostPlugin -> 0..MaxGeneration]
          /\ [x.owners EXCEPT ![p] = n] \in [HostPlugin -> HostOwner \cup {NoOwner}]
      BY <2>2, <2>4, <2>7 DEF Generation
    <3> QED
      BY <2>2, <2>8, <2>10, <3>1 DEF TableType
  <2>13. /\ y.owners[p] = n /\ \A q \in HostPlugin : q # p => y.owners[q] = x.owners[q]
         /\ y.generations[p] = g /\ \A q \in HostPlugin : q # p => y.generations[q] = x.generations[q]
    BY <2>2, <2>4, <2>12
  <2> HIDE DEF y
  <2>14. LaunchGen(x.owners[p]) = 0 /\ SuperGen(x.owners[p]) = 0
    BY <1>2, <2>4 DEF Busy, OwnedIn, retired_owner, LaunchGen, SuperGen
  <2>15. x.generations[p] < g /\ x.generations[p] \in Nat /\ g \in Nat
    BY SMTT(30), <1>2, <2>2, <2>4, LifecycleConstants DEF Generation
  <2>16. s[p][g] = "unborn"
    BY <2>4, <2>15 DEF PoppedInv, GenerationsOk
  <2>17. CommandsOk(y) /\ HeldOk(y) /\ NoneLost(y) /\ StopsOk(y, s)
    <3>1. StartOf(y.owners[p]) = o /\ StopOf(y.owners[p]) = Nobody
      BY <2>6, <2>7, <2>13 DEF StartOf, StopOf
    <3>2. OldRefused(x, y, p)
      BY <2>9, <2>12 DEF OldRefused
    <3>3. y.commands = x.commands /\ Len(y.ops) = Len(x.ops) /\ x.ops[o].plugin = p
      BY <2>8, <2>12
    <3>4. OnlyOwner(x, y, p)
      BY <2>13 DEF OnlyOwner
    <3> HIDE DEF p
    <3> QED
      BY <2>4, <3>1, <3>2, <3>3, <3>4, StartReceipts
  <2>18. LaunchesOk(y, s)
    <3>1. LaunchGen(y.owners[p]) = IF begun THEN g ELSE 0
      BY <2>6, <2>7, <2>13 DEF LaunchGen
    <3>2. y.launcher = [x.launcher EXCEPT !.requests =
                          IF begun THEN Append(@, [plugin |-> p, owner |-> NewOwner(g)]) ELSE @]
      BY <2>11 DEF queue
    <3> QED
      BY SMTT(30), <2>4, <2>5, <2>13, <2>14, <2>16, <3>1, <3>2, StartLaunches DEF PoppedInv
  <2>19. TableOk(y)
    BY <2>8, <2>12 DEF PoppedInv, TableOk
  <2>20. GenerationsOk(y, s)
    <3> SUFFICES ASSUME NEW q \in HostPlugin, NEW h \in Generation, s[q][h] # "unborn"
                 PROVE  h <= y.generations[q]
      BY DEF GenerationsOk
    <3>1. h <= x.generations[q]
      BY DEF PoppedInv, GenerationsOk
    <3> QED
      BY <2>13, <2>15, <3>1, LifecycleConstants DEF Generation
  <2>21. OwnersOk(y, s)
    BY <2>6, <2>13, <2>15 DEF PoppedInv, OwnersOk
  <2>22. ClaimsOk(y, s)
    <3>1. \A q \in HostPlugin : SuperGen(x.owners[q]) # 0 => SuperGen(y.owners[q]) = SuperGen(x.owners[q])
      BY <2>13, <2>14
    <3>2. \A h \in Generation : h # 0
      BY DEF Generation
    <3> QED
      BY <2>12, <3>1, <3>2 DEF PoppedInv, ClaimsOk
  <2> QED
    BY <2>1, <2>17, <2>18, <2>19, <2>20, <2>21, <2>22 DEF TurnInv, TableInv
<1> QED
  BY <1>1, <1>2

LEMMA ApplyKeeps ==
  ASSUME NEW x, NEW s \in OsType, TurnInv(x, s)
  PROVE  TurnInv(apply(x), s)
<1> DEFINE o == Head(x.commands)
           r == x.ops[o]
           y == [x EXCEPT !.commands = Tail(@)]
<1>1. CASE x.commands = <<>>
  BY <1>1 DEF apply
<1>2. CASE x.commands # <<>>
  <2>1. PoppedInv(y, s, o)
    BY <1>2, PopKeeps
  <2>2. y.ops = x.ops
    BY DEF TurnInv, TableInv, TableOk, TableType
  <2>3. apply(x) = IF r.kind = "start" THEN Start(y, r.plugin, r.generation, o)
                   ELSE Stop(y, r.plugin, r.generation, o)
    BY <1>2 DEF apply
  <2> HIDE DEF y, o
  <2>4. r.kind \in {"start", "stop"}
    <3>1. y.ops \in Seq(Receipt) /\ o \in 1..Len(y.ops)
      BY <2>1 DEF PoppedInv, TableOk, TableType
    <3>2. y.ops[o] \in Receipt
      BY <3>1
    <3> QED
      BY <2>2, <3>2 DEF Receipt
  <2> QED
    BY <2>1, <2>2, <2>3, <2>4, StartKeeps, StopKeeps
<1> QED
  BY <1>1, <1>2

-----------------------------------------------------------------------------
(* All owners at once.  A launch is claimed as before, and a process is given  *)
(* up only when it is gone.                                                    *)
Kept(o, n, s) ==
    /\ LaunchGen(n) = LaunchGen(o)
    /\ SuperGen(n) = SuperGen(o) \/ (SuperGen(n) = 0 /\ s[SuperGen(o)] = "gone")
    /\ n # NoOwner =>
         /\ o # NoOwner /\ OwnerFine(n) /\ n.generation = o.generation
         /\ o.due # "none" => n.due # "none"
         /\ n.report = "ok" => s[n.generation] = "gone"

OwnersMoved(x, y, s) ==
    /\ y.generations = x.generations
    /\ y.launcher.requests = x.launcher.requests /\ y.launcher.making = x.launcher.making
    /\ y.launcher.built = x.launcher.built /\ y.launcher.result = x.launcher.result
    /\ \A p \in HostPlugin : Kept(x.owners[p], y.owners[p], s[p])

LEMMA OwnersMove ==
  ASSUME NEW x, NEW y, NEW s, TableOk(x), OwnersMoved(x, y, s),
         OwnersOk(x, s), LaunchesOk(x, s), GenerationsOk(x, s)
  PROVE  /\ OwnersOk(y, s) /\ LaunchesOk(y, s) /\ GenerationsOk(y, s)
         /\ ClaimsOk(x, s) => ClaimsOk(y, s)
         /\ Retiring(x) => Retiring(y)
<1>1. OwnersOk(y, s)
  BY DEF OwnersMoved, Kept, OwnersOk
<1>2. GenerationsOk(y, s)
  BY DEF OwnersMoved, GenerationsOk
<1>3. LaunchesOk(y, s)
  <2>1. SameLaunches(x, y)
    BY DEF OwnersMoved, SameLaunches, Kept
  <2> QED
    BY <2>1, LaunchesMove
<1>4. ASSUME ClaimsOk(x, s) PROVE ClaimsOk(y, s)
  <2> SUFFICES ASSUME NEW p \in HostPlugin, NEW g \in Generation, s[p][g] \in Living
               PROVE  \/ SuperGen(y.owners[p]) = g
                      \/ HoldsProcess(y.launcher.built, p, g) \/ HoldsProcess(y.launcher.result, p, g)
    BY DEF ClaimsOk
  <2>1. CASE SuperGen(x.owners[p]) = g
    <3>1. g # 0 /\ s[p][g] # "gone"
      BY DEF Living, Generation
    <3> QED
      BY <2>1, <3>1 DEF OwnersMoved, Kept
  <2> QED
    BY <1>4, <2>1 DEF ClaimsOk, OwnersMoved
<1>5. ASSUME Retiring(x) PROVE Retiring(y)
  <2> SUFFICES ASSUME NEW p \in HostPlugin, y.owners[p] # NoOwner,
                      y.owners[p].launching \/ y.owners[p].supervisor
               PROVE  y.owners[p].due # "none"
    BY DEF Retiring
  <2> DEFINE o == x.owners[p]
             n == y.owners[p]
  <2>1. Kept(o, n, s[p])
    BY DEF OwnersMoved
  <2>2. o # NoOwner /\ n \in HostOwner /\ n.generation # 0
    BY <2>1, NoOwnerApart DEF Kept, OwnerFine
  <2>3. o.launching \/ o.supervisor
    BY <2>1, <2>2 DEF Kept, LaunchGen, SuperGen
  <2> QED
    BY <1>5, <2>1, <2>2, <2>3 DEF Retiring, Kept
<1> QED
  BY <1>1, <1>2, <1>3, <1>4, <1>5

LEMMA PumpKeeps ==
  ASSUME NEW x, os \in OsType, TableInv(x, os), NEW y \in Pump(x)
  PROVE  /\ TableInv(y, os) /\ (ClaimsOk(x, os) => ClaimsOk(y, os))
         /\ Retiring(x) => Retiring(y)
<1> DEFINE owned == OwnedIn(x)
           ways == UNION {Pumped(p, x.owners[p]) : p \in owned}
<1>1. PICK f \in [owned -> ways] :
        /\ \A p \in owned : f[p] \in Pumped(p, x.owners[p])
        /\ y = [x EXCEPT !.owners = [p \in HostPlugin |-> IF p \in owned THEN f[p] ELSE NoOwner]]
  <2> HIDE DEF ways, owned
  <2>1. y \in {[x EXCEPT !.owners = [p \in HostPlugin |-> IF p \in owned THEN f[p] ELSE NoOwner]] :
                 f \in {g \in [owned -> ways] : \A p \in owned : g[p] \in Pumped(p, x.owners[p])}}
    BY DEF Pump, ways, owned
  <2> QED
    BY <2>1
<1> HIDE DEF ways
<1>2. /\ x \in TableType /\ TableOk(x) /\ OwnersOk(x, os) /\ LaunchesOk(x, os) /\ GenerationsOk(x, os)
      /\ x.owners \in [HostPlugin -> HostOwner \cup {NoOwner}]
  BY DEF TableInv, TableOk, TableType
<1>3. /\ y.owners = [p \in HostPlugin |-> IF p \in owned THEN f[p] ELSE NoOwner]
      /\ y.ops = x.ops /\ y.commands = x.commands /\ y.generations = x.generations
      /\ y.launcher = x.launcher
  BY <1>1, <1>2 DEF TableType
<1>4. ASSUME NEW p \in HostPlugin
      PROVE  /\ Kept(x.owners[p], y.owners[p], os[p])
             /\ StartOf(y.owners[p]) = StartOf(x.owners[p])
             /\ StopOf(y.owners[p]) = StopOf(x.owners[p])
             /\ StopOf(x.owners[p]) # Nobody => y.owners[p].generation = x.owners[p].generation
             /\ y.owners[p] \in HostOwner \cup {NoOwner}
  <2>1. CASE x.owners[p] = NoOwner
    <3>1. y.owners[p] = NoOwner
      BY <1>3, <2>1 DEF OwnedIn
    <3> QED
      BY <2>1, <3>1 DEF Kept, StartOf, StopOf
  <2>2. CASE x.owners[p] # NoOwner
    <3> DEFINE o == x.owners[p]
               n == y.owners[p]
    <3>1. n \in Pumped(p, o)
      BY <1>1, <1>3, <2>2 DEF OwnedIn
    <3>2. OwnerFine(o) /\ (o.report = "ok" => os[p][o.generation] = "gone")
      BY <1>2, <2>2 DEF OwnersOk
    <3> HIDE DEF n, o
    <3>3. /\ OwnerFine(n) /\ SameOwner(o, n)
          /\ n.supervisor = o.supervisor \/ (~n.supervisor /\ os[p][o.generation] = "gone")
          /\ n.report = "ok" => os[p][o.generation] = "gone"
          /\ o.due # "none" => n.due # "none"
      BY <3>1, <3>2, PumpedOwner
    <3>4. o # NoOwner /\ n # NoOwner /\ n \in HostOwner /\ o.generation # 0
      BY <3>2, <3>3, NoOwnerApart DEF OwnerFine
    <3>5. SuperGen(n) = SuperGen(o) \/ (SuperGen(n) = 0 /\ os[p][SuperGen(o)] = "gone")
      BY <3>3, <3>4 DEF SuperGen, SameOwner
    <3>6. LaunchGen(n) = LaunchGen(o)
      BY <3>3, <3>4 DEF LaunchGen, SameOwner
    <3>7. Kept(o, n, os[p])
      BY <3>3, <3>4, <3>5, <3>6 DEF Kept, SameOwner
    <3>8. /\ StartOf(n) = StartOf(o) /\ StopOf(n) = StopOf(o) /\ n.generation = o.generation
      BY <3>3, <3>4 DEF StartOf, StopOf, SameOwner
    <3> QED
      BY <3>4, <3>7, <3>8 DEF n, o
  <2> QED
    BY <2>1, <2>2
<1>5. OwnersMoved(x, y, os)
  BY <1>3, <1>4 DEF OwnersMoved
<1>6. ReceiptsInv(y, os)
  <2>1. SameReceipts(x, y)
    BY <1>3, <1>4 DEF SameReceipts
  <2> QED
    BY <2>1, ReceiptsMove DEF TableInv, ReceiptsInv
<1>7. TableOk(y)
  <2>1. y.owners \in [HostPlugin -> HostOwner \cup {NoOwner}]
    BY <1>3, <1>4
  <2>2. y \in TableType
    BY <1>1, <1>2, <1>3, <2>1 DEF TableType
  <2> QED
    BY <1>2, <1>3, <2>2 DEF TableOk
<1> QED
  BY <1>2, <1>5, <1>6, <1>7, OwnersMove DEF TableInv, ReceiptsInv

(* What finish_operations did for the owner of p, which was o and is n.        *)
OwnerSettled(x, p, o, n, after) ==
    /\ OwnerFine(n) /\ n.generation = o.generation /\ n.launching = o.launching
    /\ n.supervisor = o.supervisor /\ n.report = o.report
    /\ SettledBy(o, n, x.ops, after)
    /\ n.start # Nobody => n.state # "active"
    /\ o.due # "none" => n.due # "none"

(* A receipt is settled by the owner of its plugin or by none.                 *)
LEMMA FinishKeeps ==
  ASSUME NEW x, NEW s, TableInv(x, s), NEW late
  PROVE  LET y == Finish(x, late) IN
           /\ TableInv(y, s) /\ StartsSettled(y) /\ (ClaimsOk(x, s) => ClaimsOk(y, s))
           /\ Retiring(x) => Retiring(y)
<1> DEFINE y == Finish(x, late)
           a == [p \in OwnedIn(x) |-> finish_operations(x.owners[p], x.ops, p \in late)]
           by(k) == {p \in OwnedIn(x) : a[p][2][k] # x.ops[k]}
           N(p) == a[p][1]
           T(p) == a[p][2]
<1>1. /\ x \in TableType /\ TableOk(x) /\ OwnersOk(x, s) /\ LaunchesOk(x, s) /\ GenerationsOk(x, s)
      /\ x.owners \in [HostPlugin -> HostOwner \cup {NoOwner}] /\ x.ops \in Seq(Receipt)
      /\ CommandsOk(x) /\ HeldOk(x) /\ NoneLost(x) /\ StopsOk(x, s)
      /\ DOMAIN x.ops = 1..Len(x.ops) /\ Len(x.ops) \in Nat
  BY DEF TableInv, TableOk, TableType
<1>2. \A p \in OwnedIn(x) : p \in HostPlugin /\ x.owners[p] # NoOwner
  BY DEF OwnedIn
<1>3. ASSUME NEW p \in OwnedIn(x)
      PROVE  /\ StartOf(x.owners[p]) = x.owners[p].start /\ StopOf(x.owners[p]) = x.owners[p].stop
             /\ x.owners[p].start # Nobody => IsHeld(x, x.owners[p].start, "start", p)
             /\ x.owners[p].stop # Nobody =>
                  /\ IsHeld(x, x.owners[p].stop, "stop", p)
                  /\ x.ops[x.owners[p].stop].generation = x.owners[p].generation
             /\ x.owners[p].start # Nobody => x.owners[p].start # x.owners[p].stop
  <2>1. StartOf(x.owners[p]) = x.owners[p].start /\ StopOf(x.owners[p]) = x.owners[p].stop
    BY <1>2 DEF StartOf, StopOf
  <2>2. /\ x.owners[p].start # Nobody => IsHeld(x, x.owners[p].start, "start", p)
        /\ x.owners[p].stop # Nobody =>
             /\ IsHeld(x, x.owners[p].stop, "stop", p)
             /\ x.ops[x.owners[p].stop].generation = x.owners[p].generation
    BY <1>1, <1>2, <2>1 DEF HeldOk
  <2> QED
    BY <2>1, <2>2 DEF IsHeld
<1>4. \A p \in OwnedIn(x) : OwnerSettled(x, p, x.owners[p], N(p), T(p))
  <2> SUFFICES ASSUME NEW p \in OwnedIn(x) PROVE OwnerSettled(x, p, x.owners[p], N(p), T(p))
    OBVIOUS
  <2> DEFINE o == x.owners[p]
  <2>1. /\ N(p) = Finished(p, o, x.ops, late)[1]
        /\ T(p) = Finished(p, o, x.ops, late)[2]
    BY DEF Finished
  <2>2. OwnerFine(o)
    BY <1>1, <1>2 DEF OwnersOk
  <2>3. /\ o.start = Nobody \/ o.start \in 1..Len(x.ops)
        /\ o.stop = Nobody \/ o.stop \in 1..Len(x.ops)
        /\ o.start # Nobody => o.start # o.stop
    BY <1>3 DEF IsHeld
  <2> HIDE DEF o, a, N, T
  <2>4. OwnerSettled(x, p, o, N(p), T(p))
    BY <1>1, <2>1, <2>2, <2>3, FinishOperations DEF OwnerSettled
  <2> QED
    BY <2>4 DEF o
<1>5. y = [x EXCEPT
             !.ops = [k \in DOMAIN x.ops |->
                        IF by(k) = {} THEN x.ops[k] ELSE a[CHOOSE p \in by(k) : TRUE][2][k]],
             !.owners = [p \in HostPlugin |-> IF p \in OwnedIn(x) THEN a[p][1] ELSE NoOwner]]
  BY DEF Finish
<1> HIDE DEF a, y
<1>6. ASSUME NEW k \in 1..Len(x.ops), NEW p \in by(k)
      PROVE  /\ p \in OwnedIn(x) /\ p = x.ops[k].plugin /\ T(p)[k] # x.ops[k]
             /\ x.ops[k].status = "queued" /\ ~QueuedIn(x, k)
             /\ \/ k = x.owners[p].start /\ N(p).start = Nobody /\ x.ops[k].kind = "start"
                \/ k = x.owners[p].stop /\ N(p).stop = Nobody /\ x.ops[k].kind = "stop"
  <2>1. p \in OwnedIn(x) /\ T(p)[k] # x.ops[k] /\ k # Nobody
    BY DEF Nobody
  <2>2. \/ k = x.owners[p].start /\ N(p).start = Nobody
        \/ k = x.owners[p].stop /\ N(p).stop = Nobody
    BY <1>4, <2>1 DEF OwnerSettled, SettledBy
  <2> QED
    BY <1>3, <2>1, <2>2 DEF IsHeld
<1>7. ASSUME NEW k \in 1..Len(x.ops)
      PROVE  \/ by(k) = {}
             \/ \E p \in by(k) : by(k) = {p} /\ (CHOOSE q \in by(k) : TRUE) = p
  <2>1. \A p, q \in by(k) : p = q
    BY <1>6
  <2> HIDE DEF by
  <2> QED
    BY <2>1
<1>8. ASSUME NEW k \in 1..Len(x.ops)
      PROVE  \/ by(k) = {} /\ y.ops[k] = x.ops[k]
             \/ \E p \in by(k) : y.ops[k] = T(p)[k]
  <2>1. y.ops[k] = IF by(k) = {} THEN x.ops[k] ELSE a[CHOOSE p \in by(k) : TRUE][2][k]
    BY <1>1, <1>5 DEF TableType
  <2> HIDE DEF by
  <2> QED
    BY <1>7, <2>1
<1>9. ASSUME NEW k \in 1..Len(x.ops)
      PROVE  /\ y.ops[k] \in Receipt /\ y.ops[k].kind = x.ops[k].kind
             /\ y.ops[k].plugin = x.ops[k].plugin /\ y.ops[k].generation = x.ops[k].generation
             /\ y.ops[k] # x.ops[k] => y.ops[k].status \in Settled
  <2>1. CASE y.ops[k] = x.ops[k]
    BY <1>1, <2>1
  <2>2. ASSUME NEW p \in by(k), y.ops[k] = T(p)[k]
        PROVE  /\ y.ops[k] \in Receipt /\ y.ops[k].kind = x.ops[k].kind
               /\ y.ops[k].plugin = x.ops[k].plugin /\ y.ops[k].generation = x.ops[k].generation
               /\ y.ops[k].status \in Settled
    <3>1. OwnerSettled(x, p, x.owners[p], N(p), T(p))
      BY <1>4, <1>6
    <3>2. T(p) \in Seq(Receipt) /\ Len(T(p)) = Len(x.ops)
      BY <3>1 DEF OwnerSettled, SettledBy
    <3>3. T(p)[k] \in Receipt
      BY <3>2
    <3> HIDE DEF by
    <3>4. /\ T(p)[k].kind = x.ops[k].kind /\ T(p)[k].plugin = x.ops[k].plugin
          /\ T(p)[k].generation = x.ops[k].generation /\ T(p)[k].status \in Settled
      BY <1>6, <3>1 DEF OwnerSettled, SettledBy
    <3> QED
      BY <2>2, <3>3, <3>4
  <2> QED
    BY <1>8, <2>1, <2>2
<1>10. /\ y.owners = [p \in HostPlugin |-> IF p \in OwnedIn(x) THEN N(p) ELSE NoOwner]
       /\ y.commands = x.commands /\ y.generations = x.generations /\ y.launcher = x.launcher
       /\ y.ops \in Seq(Receipt) /\ Len(y.ops) = Len(x.ops)
  <2> DEFINE z == [k \in DOMAIN x.ops |->
                     IF by(k) = {} THEN x.ops[k] ELSE a[CHOOSE p \in by(k) : TRUE][2][k]]
  <2>1. y.ops = z
    BY <1>1, <1>5 DEF TableType
  <2>2. DOMAIN z = 1..Len(x.ops)
    BY <1>1
  <2> HIDE DEF z
  <2>3. \A k \in 1..Len(x.ops) : z[k] \in Receipt
    BY <1>9, <2>1
  <2>4. z = [k \in 1..Len(x.ops) |-> z[k]]
    BY <2>2 DEF z
  <2>5. z \in Seq(Receipt) /\ Len(z) = Len(x.ops)
    BY SMTT(30), <1>1, <2>2, <2>3, <2>4
  <2> HIDE DEF by
  <2> QED
    BY <1>1, <1>5, <2>1, <2>5 DEF TableType
<1> HIDE DEF by, N, T
<1>11. \A p \in HostPlugin : y.owners[p] = IF p \in OwnedIn(x) THEN N(p) ELSE NoOwner
  BY <1>10
<1>12. ASSUME NEW p \in HostPlugin
       PROVE  /\ Kept(x.owners[p], y.owners[p], s[p])
              /\ y.owners[p] \in HostOwner \cup {NoOwner}
              /\ StartOf(y.owners[p]) # Nobody => /\ StartOf(y.owners[p]) = StartOf(x.owners[p])
                                                 /\ y.owners[p].state # "active"
              /\ StopOf(y.owners[p]) # Nobody => /\ StopOf(y.owners[p]) = StopOf(x.owners[p])
                                                /\ y.owners[p].generation = x.owners[p].generation
  <2>1. CASE p \notin OwnedIn(x)
    <3>1. x.owners[p] = NoOwner /\ y.owners[p] = NoOwner
      BY <1>11, <2>1 DEF OwnedIn
    <3> QED
      BY <3>1 DEF Kept, StartOf, StopOf
  <2>2. CASE p \in OwnedIn(x)
    <3> DEFINE o == x.owners[p]
               n == N(p)
    <3>1. /\ OwnerFine(n) /\ n.generation = o.generation /\ n.launching = o.launching
          /\ n.supervisor = o.supervisor /\ n.report = o.report
          /\ n.start = o.start \/ n.start = Nobody
          /\ n.stop = o.stop \/ n.stop = Nobody
          /\ n.start # Nobody => n.state # "active"
          /\ o.due # "none" => n.due # "none"
      BY <1>4, <2>2 DEF OwnerSettled, SettledBy
    <3>2. y.owners[p] = n /\ o # NoOwner /\ (o.report = "ok" => s[p][o.generation] = "gone")
      BY <1>1, <1>2, <1>11, <2>2 DEF OwnersOk
    <3> HIDE DEF o, n
    <3>3. n \in HostOwner /\ n # NoOwner
      BY <3>1, NoOwnerApart DEF OwnerFine
    <3>4. Kept(o, n, s[p])
      BY <3>1, <3>2, <3>3 DEF Kept, LaunchGen, SuperGen
    <3>5. /\ StartOf(n) = n.start /\ StopOf(n) = n.stop /\ StartOf(o) = o.start /\ StopOf(o) = o.stop
      BY <3>2, <3>3 DEF StartOf, StopOf
    <3> QED
      BY <3>1, <3>2, <3>3, <3>4, <3>5 DEF o
  <2> QED
    BY <2>1, <2>2
<1>13. OwnersMoved(x, y, s)
  BY <1>10, <1>12 DEF OwnersMoved
<1>14. TableOk(y)
  <2>1. y.owners \in [HostPlugin -> HostOwner \cup {NoOwner}]
    BY <1>10, <1>12
  <2>2. y \in TableType
    <3>1. y = [x EXCEPT !.ops = y.ops, !.owners = y.owners]
      BY <1>1, <1>5 DEF TableType
    <3> QED
      BY <1>1, <1>10, <2>1, <3>1 DEF TableType
  <2> QED
    BY <1>1, <1>10, <2>2 DEF TableOk
<1>15. \A k : QueuedIn(y, k) <=> QueuedIn(x, k)
  BY <1>10 DEF QueuedIn
<1>16. ASSUME NEW k \in 1..Len(x.ops), QueuedIn(x, k) PROVE y.ops[k] = x.ops[k]
  BY <1>6, <1>8, <1>16
<1>17. CommandsOk(y)
  <2>1. \A i \in 1..Len(x.commands) : QueuedIn(x, x.commands[i]) /\ x.commands[i] \in 1..Len(x.ops)
    BY <1>1 DEF QueuedIn, CommandsOk
  <2> QED
    BY <1>1, <1>10, <1>16, <2>1 DEF CommandsOk
<1>18. ASSUME NEW p \in OwnedIn(x), NEW k, k # Nobody,
              \/ k = x.owners[p].start /\ N(p).start = k
              \/ k = x.owners[p].stop /\ N(p).stop = k
       PROVE  k \in 1..Len(x.ops) /\ y.ops[k] = x.ops[k]
  <2>1. k \in 1..Len(x.ops) /\ x.ops[k].plugin = p
    BY <1>3, <1>18 DEF IsHeld
  <2>2. k = x.owners[p].start => x.ops[k].kind = "start"
    BY <1>3, <1>18 DEF IsHeld
  <2>3. k = x.owners[p].stop => x.ops[k].kind = "stop"
    BY <1>3, <1>18 DEF IsHeld
  <2>4. ASSUME NEW q \in by(k) PROVE FALSE
    <3>1. /\ q = p
          /\ \/ k = x.owners[q].start /\ N(q).start = Nobody /\ x.ops[k].kind = "start"
             \/ k = x.owners[q].stop /\ N(q).stop = Nobody /\ x.ops[k].kind = "stop"
      BY <1>6, <2>1, <2>4
    <3> QED
      BY <1>18, <2>2, <2>3, <3>1
  <2> QED
    BY <1>8, <2>1, <2>4
<1>19. HeldOk(y)
  <2> SUFFICES ASSUME NEW p \in HostPlugin
               PROVE  /\ StartOf(y.owners[p]) # Nobody => IsHeld(y, StartOf(y.owners[p]), "start", p)
                      /\ StopOf(y.owners[p]) # Nobody =>
                           /\ IsHeld(y, StopOf(y.owners[p]), "stop", p)
                           /\ y.ops[StopOf(y.owners[p])].generation = y.owners[p].generation
    BY DEF HeldOk
  <2>1. CASE p \notin OwnedIn(x)
    BY <1>11, <2>1 DEF StartOf, StopOf
  <2>2. CASE p \in OwnedIn(x)
    <3>1. y.owners[p] = N(p) /\ N(p) \in HostOwner
      BY <1>4, <1>11, <2>2 DEF OwnerSettled, OwnerFine
    <3>2. StartOf(y.owners[p]) = N(p).start /\ StopOf(y.owners[p]) = N(p).stop
      BY <3>1, NoOwnerApart DEF StartOf, StopOf
    <3>3. ASSUME StartOf(y.owners[p]) # Nobody
          PROVE  IsHeld(y, StartOf(y.owners[p]), "start", p)
      <4>1. N(p).start # Nobody /\ N(p).start = x.owners[p].start
        BY <1>3, <1>12, <2>2, <3>2, <3>3
      <4>2. IsHeld(x, N(p).start, "start", p)
        BY <1>3, <2>2, <4>1
      <4>3. y.ops[N(p).start] = x.ops[N(p).start]
        BY <1>18, <2>2, <4>1
      <4> QED
        BY <1>10, <1>15, <3>2, <4>2, <4>3 DEF IsHeld
    <3>4. ASSUME StopOf(y.owners[p]) # Nobody
          PROVE  /\ IsHeld(y, StopOf(y.owners[p]), "stop", p)
                 /\ y.ops[StopOf(y.owners[p])].generation = y.owners[p].generation
      <4>1. /\ N(p).stop # Nobody /\ N(p).stop = x.owners[p].stop
            /\ y.owners[p].generation = x.owners[p].generation
        BY <1>3, <1>12, <2>2, <3>2, <3>4
      <4>2. IsHeld(x, N(p).stop, "stop", p) /\ x.ops[N(p).stop].generation = x.owners[p].generation
        BY <1>3, <2>2, <4>1
      <4>3. y.ops[N(p).stop] = x.ops[N(p).stop]
        BY <1>18, <2>2, <4>1
      <4> QED
        BY <1>10, <1>15, <3>2, <4>1, <4>2, <4>3 DEF IsHeld
    <3> QED
      BY <3>3, <3>4
  <2> QED
    BY <2>1, <2>2
<1>20. NoneLost(y)
  <2> SUFFICES ASSUME NEW k \in 1..Len(x.ops), y.ops[k].status = "queued", ~QueuedIn(x, k)
               PROVE  \E p \in HostPlugin : StartOf(y.owners[p]) = k \/ StopOf(y.owners[p]) = k
    BY <1>10, <1>15 DEF NoneLost
  <2>1. y.ops[k] = x.ops[k]
    BY <1>9 DEF Settled
  <2>2. PICK p \in HostPlugin : StartOf(x.owners[p]) = k \/ StopOf(x.owners[p]) = k
    BY <1>1, <2>1 DEF NoneLost
  <2>3. k # Nobody /\ p \in OwnedIn(x)
    BY <2>2 DEF Nobody, StartOf, StopOf, OwnedIn
  <2>4. by(k) = {}
    <3>1. \A q \in by(k) : T(q)[k] # x.ops[k]
      BY <1>6
    <3> QED
      BY <1>8, <2>1, <3>1
  <2>5. T(p)[k] = x.ops[k]
    BY <2>3, <2>4 DEF by, T
  <2>6. /\ k = x.owners[p].start => N(p).start = k
        /\ k = x.owners[p].stop => N(p).stop = k
    BY <1>4, <2>1, <2>3, <2>5 DEF OwnerSettled, SettledBy, Settled
  <2>7. N(p) # NoOwner
    BY <1>4, <2>3, NoOwnerApart DEF OwnerSettled, OwnerFine
  <2> QED
    BY <1>3, <1>11, <2>2, <2>3, <2>6, <2>7 DEF StartOf, StopOf
<1>21. StopsOk(y, s)
  <2> SUFFICES ASSUME NEW k \in 1..Len(x.ops), y.ops[k].kind = "stop", y.ops[k].status = "done"
               PROVE  s[y.ops[k].plugin][y.ops[k].generation] = "gone"
    BY <1>10 DEF StopsOk
  <2>1. CASE y.ops[k] = x.ops[k]
    BY <1>1, <2>1 DEF StopsOk
  <2>2. ASSUME NEW p \in by(k), y.ops[k] = T(p)[k]
        PROVE  s[y.ops[k].plugin][y.ops[k].generation] = "gone"
    <3>1. p \in OwnedIn(x) /\ x.ops[k].plugin = p /\ x.ops[k].kind = "stop" /\ k # Nobody
      BY <1>6, <1>9, <2>2 DEF Nobody
    <3>2. k = x.owners[p].stop /\ N(p).stop = Nobody
      BY <1>6, <2>2, <3>1
    <3>3. x.owners[p].report = "ok"
      BY <1>4, <2>2, <3>1, <3>2 DEF OwnerSettled, SettledBy
    <3>4. s[p][x.owners[p].generation] = "gone" /\ x.ops[k].generation = x.owners[p].generation
      BY <1>1, <1>2, <1>3, <3>1, <3>2, <3>3 DEF OwnersOk
    <3> QED
      BY <1>9, <3>1, <3>4
  <2> QED
    BY <1>8, <2>1, <2>2
<1>22. StartsSettled(y)
  BY <1>12 DEF StartsSettled
<1>23. TableInv(y, s) /\ (ClaimsOk(x, s) => ClaimsOk(y, s)) /\ (Retiring(x) => Retiring(y))
  BY <1>1, <1>13, <1>14, <1>17, <1>19, <1>20, <1>21, OwnersMove DEF TableInv
<1> QED
  BY <1>22, <1>23 DEF y

(* A Host that is forgotten held nothing.                                      *)
LEMMA PruneKeeps ==
  ASSUME NEW x, NEW s, TurnInv(x, s), StartsSettled(x), NEW y \in prune_retired(x)
  PROVE  TurnInv(y, s) /\ StartsSettled(y)
<1>1. PICK out \in SUBSET Forgettable(x) :
        y = [x EXCEPT !.owners = [p \in HostPlugin |-> IF p \in out THEN NoOwner ELSE x.owners[p]]]
  BY DEF prune_retired
<1>2. /\ x \in TableType /\ TableOk(x) /\ OwnersOk(x, s) /\ LaunchesOk(x, s) /\ GenerationsOk(x, s)
      /\ x.owners \in [HostPlugin -> HostOwner \cup {NoOwner}]
  BY DEF TurnInv, TableInv, TableOk, TableType
<1>3. /\ y.owners = [p \in HostPlugin |-> IF p \in out THEN NoOwner ELSE x.owners[p]]
      /\ y.ops = x.ops /\ y.commands = x.commands /\ y.generations = x.generations
      /\ y.launcher = x.launcher /\ y \in TableType
  <2>1. [p \in HostPlugin |-> IF p \in out THEN NoOwner ELSE x.owners[p]]
          \in [HostPlugin -> HostOwner \cup {NoOwner}]
    BY <1>2
  <2> QED
    BY <1>1, <1>2, <2>1 DEF TableType
<1>4. ASSUME NEW p \in HostPlugin
      PROVE  /\ Kept(x.owners[p], y.owners[p], s[p])
             /\ StartOf(y.owners[p]) = StartOf(x.owners[p])
             /\ StopOf(y.owners[p]) = StopOf(x.owners[p])
             /\ y.owners[p] = x.owners[p] \/ StopOf(x.owners[p]) = Nobody
             /\ y.owners[p] = x.owners[p] \/ StartOf(x.owners[p]) = Nobody
  <2>1. CASE p \in out
    <3>1. /\ y.owners[p] = NoOwner /\ retired_owner(x.owners[p]) /\ x.owners[p] # NoOwner
          /\ x.owners[p].start = Nobody /\ x.owners[p].stop = Nobody
      BY <1>1, <1>3, <2>1 DEF Forgettable, OwnedIn
    <3> QED
      BY <3>1 DEF Kept, LaunchGen, SuperGen, StartOf, StopOf, retired_owner
  <2>2. CASE p \notin out
    <3>1. y.owners[p] = x.owners[p]
      BY <1>3, <2>2
    <3> QED
      BY <1>2, <3>1 DEF Kept, OwnersOk
  <2> QED
    BY <2>1, <2>2
<1>5. OwnersMoved(x, y, s)
  BY <1>3, <1>4 DEF OwnersMoved
<1>6. ReceiptsInv(y, s)
  <2>1. SameReceipts(x, y)
    BY <1>3, <1>4 DEF SameReceipts
  <2> QED
    BY <2>1, ReceiptsMove DEF TurnInv, TableInv, ReceiptsInv
<1>7. TableOk(y)
  BY <1>2, <1>3 DEF TableOk
<1>8. StartsSettled(y)
  BY <1>4 DEF StartsSettled
<1> QED
  BY <1>2, <1>5, <1>6, <1>7, <1>8, OwnersMove DEF TurnInv, TableInv, ReceiptsInv

-----------------------------------------------------------------------------
(* Callers.                                                                    *)
LEMMA AdmitKeeps ==
  ASSUME NEW x, NEW s, NEW w, WholeInv(x, s, w), NEW r \in Receipt, r.status = "admitted",
         Len(x.ops) < MaxOperations
  PROVE  WholeInv([x EXCEPT !.ops = Append(@, r)], s, w)
<1> DEFINE y == [x EXCEPT !.ops = Append(@, r)]
<1>1. x \in TableType /\ TableInv(x, s) /\ x.ops \in Seq(Receipt)
  BY DEF WholeInv, TableInv, TableOk, TableType
<1>2. /\ y.ops = Append(x.ops, r) /\ y.commands = x.commands /\ y.owners = x.owners
      /\ y.generations = x.generations /\ y.launcher = x.launcher /\ y \in TableType
  <2>1. Append(x.ops, r) \in Seq(Receipt)
    BY <1>1
  <2> QED
    BY <1>1, <2>1 DEF TableType
<1>3. /\ Len(y.ops) = Len(x.ops) + 1 /\ Len(x.ops) \in Nat /\ y.ops[Len(x.ops) + 1] = r
      /\ \A k \in 1..Len(x.ops) : k \in 1..Len(y.ops) /\ y.ops[k] = x.ops[k]
      /\ \A k \in 1..Len(y.ops) : k \in 1..Len(x.ops) \/ k = Len(x.ops) + 1
  BY <1>1, <1>2
<1> HIDE DEF y
<1>4. TableOk(y) /\ OwnersOk(y, s) /\ GenerationsOk(y, s)
  BY <1>1, <1>2, <1>3, LifecycleConstants DEF TableInv, TableOk, OwnersOk, GenerationsOk
<1>5. LaunchesOk(y, s)
  <2>1. SameLaunches(x, y)
    BY <1>2 DEF SameLaunches
  <2> QED
    BY <1>1, <2>1, LaunchesMove DEF TableInv
<1>6. \A k : QueuedIn(y, k) <=> QueuedIn(x, k)
  BY <1>2 DEF QueuedIn
<1>7. \A k, kind, p : IsHeld(x, k, kind, p) => IsHeld(y, k, kind, p) /\ y.ops[k] = x.ops[k]
  BY <1>3, <1>6 DEF IsHeld
<1>8. CommandsOk(y)
  BY <1>1, <1>2, <1>3 DEF TableInv, CommandsOk
<1>9. HeldOk(y)
  <2> SUFFICES ASSUME NEW p \in HostPlugin
               PROVE  /\ StartOf(x.owners[p]) # Nobody => IsHeld(y, StartOf(x.owners[p]), "start", p)
                      /\ StopOf(x.owners[p]) # Nobody =>
                           /\ IsHeld(y, StopOf(x.owners[p]), "stop", p)
                           /\ y.ops[StopOf(x.owners[p])].generation = x.owners[p].generation
    BY <1>2 DEF HeldOk
  <2>1. /\ StartOf(x.owners[p]) # Nobody => IsHeld(x, StartOf(x.owners[p]), "start", p)
        /\ StopOf(x.owners[p]) # Nobody =>
             /\ IsHeld(x, StopOf(x.owners[p]), "stop", p)
             /\ x.ops[StopOf(x.owners[p])].generation = x.owners[p].generation
    BY <1>1 DEF TableInv, HeldOk
  <2> QED
    BY <1>7, <2>1
<1>10. NoneLost(y)
  BY <1>1, <1>2, <1>3, <1>6 DEF TableInv, NoneLost
<1>11. StopsOk(y, s)
  BY <1>1, <1>3 DEF TableInv, StopsOk
<1>12. /\ StartsSettled(y) /\ (w.phase # "ended" => ClaimsOk(y, s))
       /\ w.phase = "stopping" => Retiring(y)
       /\ w.phase = "ended" => Over(y, s)
  BY <1>2 DEF WholeInv, StartsSettled, ClaimsOk, Retiring, Over
<1> QED
  BY <1>4, <1>5, <1>8, <1>9, <1>10, <1>11, <1>12 DEF WholeInv, TableInv, y

(* The receipt becomes queued, or is refused; nobody held it.                  *)
LEMMA SendKeeps ==
  ASSUME NEW x, NEW s, NEW w, WholeInv(x, s, w),
         NEW o \in 1..Len(x.ops), x.ops[o].status = "admitted",
         NEW status \in {"queued", "refused"}, NEW more,
         status = "queued" => /\ w.phase # "ended" /\ Len(x.commands) < COMMAND_QUEUE
                              /\ more = Append(x.commands, o),
         status = "refused" => more = x.commands
  PROVE  WholeInv([x EXCEPT !.ops[o].status = status, !.commands = more], s, w)
<1> DEFINE r == [x.ops[o] EXCEPT !.status = status]
           y == [x EXCEPT !.ops[o].status = status, !.commands = more]
<1>1. /\ x \in TableType /\ TableInv(x, s) /\ x.ops \in Seq(Receipt) /\ x.commands \in Seq(Operation)
      /\ o \in Operation /\ Len(x.commands) \in Nat /\ Len(x.ops) \in Nat /\ x.ops[o] \in Receipt
  <2>1. x \in TableType /\ TableInv(x, s) /\ x.ops \in Seq(Receipt) /\ x.commands \in Seq(Operation)
    BY DEF WholeInv, TableInv, TableOk, TableType
  <2> QED
    BY <2>1, LifecycleConstants DEF WholeInv, TableInv, TableOk, Operation
<1>2. /\ r \in Receipt /\ r.status = status /\ r.kind = x.ops[o].kind
      /\ r.plugin = x.ops[o].plugin /\ r.generation = x.ops[o].generation
  BY <1>1 DEF Receipt
<1>3. more \in Seq(Operation)
  <2>1. Append(x.commands, o) \in Seq(Operation)
    BY <1>1
  <2> QED
    BY <1>1, <2>1
<1> HIDE DEF r
<1>4. /\ y.ops = [x.ops EXCEPT ![o] = r] /\ y.commands = more /\ y.owners = x.owners
      /\ y.generations = x.generations /\ y.launcher = x.launcher /\ y \in TableType
  <2>1. [x.ops EXCEPT ![o] = r] \in Seq(Receipt)
    BY <1>1, <1>2
  <2>2. y = [x EXCEPT !.ops = [x.ops EXCEPT ![o] = r], !.commands = more]
    BY DEF r
  <2> HIDE DEF y
  <2> QED
    BY <1>1, <1>3, <2>1, <2>2 DEF TableType
<1> HIDE DEF y
<1>5. /\ Len(y.ops) = Len(x.ops) /\ y.ops[o] = r
      /\ \A k \in 1..Len(x.ops) : k # o => y.ops[k] = x.ops[k]
  BY <1>1, <1>4
<1>6. ~QueuedIn(x, o)
  BY <1>1 DEF TableInv, CommandsOk, QueuedIn
<1>7. /\ \A k : QueuedIn(y, k) => QueuedIn(x, k) \/ (k = o /\ status = "queued")
      /\ \A k : QueuedIn(x, k) => QueuedIn(y, k)
      /\ status = "queued" => QueuedIn(y, o)
      /\ \A i, j \in 1..Len(y.commands) : y.commands[i] = y.commands[j] => i = j
  <2>0. \A i, j \in 1..Len(x.commands) : x.commands[i] = x.commands[j] => i = j
    BY <1>1 DEF TableInv, CommandsOk
  <2>1. CASE status = "refused"
    BY <1>4, <2>0, <2>1 DEF QueuedIn
  <2>2. CASE status = "queued"
    <3>1. /\ Len(more) = Len(x.commands) + 1 /\ more[Len(x.commands) + 1] = o
          /\ \A i \in 1..Len(x.commands) : i \in 1..Len(more) /\ more[i] = x.commands[i]
          /\ \A i \in 1..Len(more) : i \in 1..Len(x.commands) \/ i = Len(x.commands) + 1
          /\ Len(x.commands) + 1 \in 1..Len(more)
      BY <1>1, <2>2
    <3>2. \A i, j \in 1..Len(more) : more[i] = more[j] => i = j
      BY <1>6, <2>0, <3>1 DEF QueuedIn
    <3> QED
      BY ZenonT(60), <1>4, <2>2, <3>1, <3>2 DEF QueuedIn
  <2> QED
    BY <2>1, <2>2
<1>8. CommandsOk(y)
  <2>1. \A i \in 1..Len(y.commands) : QueuedIn(y, y.commands[i])
    BY DEF QueuedIn
  <2>2. \A k : QueuedIn(x, k) => k \in 1..Len(x.ops) /\ x.ops[k].status = "queued"
    BY <1>1 DEF TableInv, CommandsOk, QueuedIn
  <2>3. \A k : QueuedIn(y, k) => k \in 1..Len(y.ops) /\ y.ops[k].status = "queued"
    BY <1>2, <1>5, <1>6, <1>7, <2>2
  <2> QED
    BY <1>7, <2>1, <2>3 DEF CommandsOk
<1>9. TableOk(y) /\ OwnersOk(y, s) /\ GenerationsOk(y, s)
  <2>1. Len(y.commands) <= COMMAND_QUEUE
    BY <1>1, <1>4, LifecycleConstants DEF TableInv, TableOk
  <2> QED
    BY <1>1, <1>4, <1>5, <2>1 DEF TableInv, TableOk, OwnersOk, GenerationsOk
<1>10. LaunchesOk(y, s)
  <2>1. SameLaunches(x, y)
    BY <1>4 DEF SameLaunches
  <2> QED
    BY <1>1, <2>1, LaunchesMove DEF TableInv
<1>11. \A k, kind, p : IsHeld(x, k, kind, p) => IsHeld(y, k, kind, p) /\ y.ops[k] = x.ops[k]
  BY <1>5, <1>7 DEF IsHeld
<1>12. HeldOk(y)
  <2> SUFFICES ASSUME NEW p \in HostPlugin
               PROVE  /\ StartOf(x.owners[p]) # Nobody => IsHeld(y, StartOf(x.owners[p]), "start", p)
                      /\ StopOf(x.owners[p]) # Nobody =>
                           /\ IsHeld(y, StopOf(x.owners[p]), "stop", p)
                           /\ y.ops[StopOf(x.owners[p])].generation = x.owners[p].generation
    BY <1>4 DEF HeldOk
  <2>1. /\ StartOf(x.owners[p]) # Nobody => IsHeld(x, StartOf(x.owners[p]), "start", p)
        /\ StopOf(x.owners[p]) # Nobody =>
             /\ IsHeld(x, StopOf(x.owners[p]), "stop", p)
             /\ x.ops[StopOf(x.owners[p])].generation = x.owners[p].generation
    BY <1>1 DEF TableInv, HeldOk
  <2> QED
    BY <1>11, <2>1
<1>13. NoneLost(y)
  BY <1>1, <1>2, <1>4, <1>5, <1>7 DEF TableInv, NoneLost
<1>14. StopsOk(y, s)
  <2>1. r.status # "done"
    BY <1>2
  <2> QED
    BY <1>1, <1>5, <2>1 DEF TableInv, StopsOk
<1>15. /\ StartsSettled(y) /\ (w.phase # "ended" => ClaimsOk(y, s))
       /\ w.phase = "stopping" => Retiring(y)
       /\ w.phase = "ended" => Over(y, s)
  BY <1>4 DEF WholeInv, StartsSettled, ClaimsOk, Retiring, Over
<1> QED
  BY <1>8, <1>9, <1>10, <1>12, <1>13, <1>14, <1>15 DEF WholeInv, TableInv, y

-----------------------------------------------------------------------------
(* Processes end; deadlines and launches move on.                              *)
ProcessesMoved(s, u) ==
    \A p \in HostPlugin, g \in Generation :
        u[p][g] = s[p][g] \/ (s[p][g] \in Living /\ u[p][g] \in {"killed", "gone"})

LEMMA ProcessesMove ==
  ASSUME NEW x, NEW s, NEW u, TableInv(x, s), ProcessesMoved(s, u)
  PROVE  /\ TableInv(x, u)
         /\ OneAlive(s) => OneAlive(u)
         /\ ClaimsOk(x, s) => ClaimsOk(x, u)
         /\ Over(x, s) => Over(x, u)
<1>1. ASSUME NEW p \in HostPlugin, NEW g \in Generation
      PROVE  /\ s[p][g] = "gone" => u[p][g] = "gone"
             /\ s[p][g] = "unborn" <=> u[p][g] = "unborn"
             /\ u[p][g] \in Living => s[p][g] \in Living
             /\ u[p][g] = "alive" => s[p][g] = "alive"
  BY DEF ProcessesMoved, Living
<1>2. x \in TableType /\ TableOk(x)
  BY DEF TableInv, TableOk
<1>3. OwnersOk(x, u)
  <2>1. ASSUME NEW p \in HostPlugin, x.owners[p] # NoOwner
        PROVE  /\ OwnerFine(x.owners[p]) /\ x.owners[p].generation \in Generation
               /\ x.owners[p].report = "ok" => s[p][x.owners[p].generation] = "gone"
               /\ x.owners[p].generation <= x.generations[p]
    BY <2>1 DEF TableInv, OwnersOk, OwnerFine, HostOwner
  <2> QED
    BY <1>1, <2>1 DEF OwnersOk
<1>4. LaunchesOk(x, u)
  <2>1. \A l \in Launch : Waiting(x, s, l) => Waiting(x, u, l)
    <3>1. \A l \in Launch : l.plugin \in HostPlugin /\ l.owner.generation \in Generation
      BY DEF Launch, HostOwner
    <3> QED
      BY <1>1, <3>1 DEF Waiting
  <2>2. x.launcher.requests \in Seq(Launch) /\ x.launcher.making \in Launch \cup {NoLaunch}
    BY <1>2 DEF TableType, Slot
  <2>3. /\ \A i \in 1..Len(x.launcher.requests) : Waiting(x, s, x.launcher.requests[i])
        /\ x.launcher.making # NoLaunch => Waiting(x, s, x.launcher.making)
    BY DEF TableInv, LaunchesOk
  <2>4. /\ \A i \in 1..Len(x.launcher.requests) : Waiting(x, u, x.launcher.requests[i])
        /\ x.launcher.making # NoLaunch => Waiting(x, u, x.launcher.making)
    BY <2>1, <2>2, <2>3
  <2> QED
    BY <2>4 DEF TableInv, LaunchesOk
<1>5. GenerationsOk(x, u)
  BY <1>1 DEF TableInv, GenerationsOk
<1>6. StopsOk(x, u)
  <2>1. \A k \in 1..Len(x.ops) : x.ops[k].plugin \in HostPlugin /\ x.ops[k].generation \in Generation
    <3>1. \A k \in 1..Len(x.ops) : x.ops[k] \in Receipt
      BY <1>2 DEF TableType
    <3> QED
      BY <3>1 DEF Receipt
  <2> QED
    BY <1>1, <2>1 DEF TableInv, StopsOk
<1>7. OneAlive(s) => OneAlive(u)
  BY <1>1 DEF OneAlive
<1>8. ClaimsOk(x, s) => ClaimsOk(x, u)
  BY <1>1 DEF ClaimsOk
<1>9. Over(x, s) => Over(x, u)
  BY <1>1 DEF Over
<1> QED
  BY <1>3, <1>4, <1>5, <1>6, <1>7, <1>8, <1>9 DEF TableInv

(* A deadline passes.                                                          *)
LEMMA PassKeeps ==
  ASSUME NEW x, NEW s, NEW w, WholeInv(x, s, w),
         NEW p \in HostPlugin, x.owners[p] # NoOwner, x.owners[p].due = "set"
  PROVE  WholeInv([x EXCEPT !.owners[p].due = "passed"], s, w)
<1> DEFINE o == x.owners[p]
           n == [o EXCEPT !.due = "passed"]
           y == [x EXCEPT !.owners[p].due = "passed"]
<1>1. /\ x \in TableType /\ x.owners \in [HostPlugin -> HostOwner \cup {NoOwner}] /\ TableInv(x, s)
  BY DEF WholeInv, TableInv, TableOk, TableType
<1>2. OwnerFine(o) /\ o \in HostOwner
  BY <1>1 DEF TableInv, OwnersOk, OwnerFine
<1>3. /\ n \in HostOwner /\ n.due = "passed" /\ n.generation = o.generation /\ n.state = o.state
      /\ n.launching = o.launching /\ n.supervisor = o.supervisor /\ n.unclean = o.unclean
      /\ n.report = o.report /\ n.start = o.start /\ n.stop = o.stop
  <2> HIDE DEF o
  <2> QED
    BY <1>2 DEF HostOwner
<1>4. y = [x EXCEPT !.owners = [x.owners EXCEPT ![p] = n]]
  OBVIOUS
<1> HIDE DEF n, y
<1>5. OwnerFine(n) /\ n # NoOwner
  BY <1>2, <1>3, NoOwnerApart DEF OwnerFine
<1>6. /\ y.ops = x.ops /\ y.commands = x.commands /\ y.generations = x.generations
      /\ y.launcher = x.launcher /\ y \in TableType /\ y.owners = [x.owners EXCEPT ![p] = n]
  <2>1. [x.owners EXCEPT ![p] = n] \in [HostPlugin -> HostOwner \cup {NoOwner}]
    BY <1>1, <1>3
  <2> QED
    BY <1>1, <1>4, <2>1 DEF TableType
<1>7. y.owners[p] = n /\ \A q \in HostPlugin : q # p => y.owners[q] = x.owners[q]
  BY <1>1, <1>6
<1>8. ASSUME NEW q \in HostPlugin
      PROVE  /\ Kept(x.owners[q], y.owners[q], s[q])
             /\ StartOf(y.owners[q]) = StartOf(x.owners[q])
             /\ StopOf(y.owners[q]) = StopOf(x.owners[q])
             /\ x.owners[q] # NoOwner => /\ y.owners[q].generation = x.owners[q].generation
                                         /\ y.owners[q].state = x.owners[q].state
             /\ x.owners[q] = NoOwner => y.owners[q] = NoOwner
  <2>1. CASE q = p
    BY <1>1, <1>3, <1>5, <1>7, <2>1 DEF TableInv, OwnersOk, Kept, LaunchGen, SuperGen, StartOf, StopOf
  <2>2. CASE q # p
    BY <1>1, <1>7, <2>2 DEF TableInv, OwnersOk, Kept
  <2> QED
    BY <2>1, <2>2
<1>9. OwnersMoved(x, y, s)
  BY <1>6, <1>8 DEF OwnersMoved
<1>10. ReceiptsInv(y, s)
  <2>1. SameReceipts(x, y)
    BY <1>6, <1>8 DEF SameReceipts, StopOf
  <2> QED
    BY <1>1, <2>1, ReceiptsMove DEF TableInv, ReceiptsInv
<1>11. TableOk(y)
  BY <1>1, <1>6 DEF TableInv, TableOk
<1>12. StartsSettled(y)
  BY <1>8 DEF WholeInv, StartsSettled, StartOf
<1>13. w.phase = "ended" => Over(y, s)
  BY DEF WholeInv, Over
<1>14. /\ TableInv(y, s) /\ (ClaimsOk(x, s) => ClaimsOk(y, s)) /\ (Retiring(x) => Retiring(y))
  BY <1>1, <1>9, <1>10, <1>11, OwnersMove DEF TableInv, ReceiptsInv
<1> QED
  BY <1>12, <1>13, <1>14 DEF WholeInv, y

-----------------------------------------------------------------------------
(* The launch worker moves a launch from place to place.                       *)
LauncherType ==
    [requests : Seq(Launch), making : Slot, built : Slot, result : Slot, stopping : BOOLEAN]

(* Processes may be born, of generations that were announced.                  *)
ProcessesBorn(x, s, t) ==
    \A p \in HostPlugin, g \in Generation :
        /\ s[p][g] = "gone" => t[p][g] = "gone"
        /\ t[p][g] # "unborn" => g <= x.generations[p]

LEMMA LauncherMoves ==
  ASSUME NEW x, NEW s, NEW w, WholeInv(x, s, w), w.phase # "ended",
         NEW l \in LauncherType, NEW t \in OsType, OneAlive(t), ProcessesBorn(x, s, t),
         LaunchesOk([x EXCEPT !.launcher = l], t), ClaimsOk([x EXCEPT !.launcher = l], t)
  PROVE  WholeInv([x EXCEPT !.launcher = l], t, w)
<1> DEFINE y == [x EXCEPT !.launcher = l]
<1>1. x \in TableType /\ TableOk(x) /\ TableInv(x, s)
  BY DEF WholeInv, TableInv, TableOk
<1>2. /\ y.ops = x.ops /\ y.commands = x.commands /\ y.owners = x.owners
      /\ y.generations = x.generations /\ y \in TableType
  BY <1>1 DEF TableType, LauncherType
<1>3. LaunchesOk(y, t) /\ ClaimsOk(y, t)
  OBVIOUS
<1> HIDE DEF y
<1>4. TableOk(y) /\ GenerationsOk(y, t)
  BY <1>1, <1>2 DEF TableOk, GenerationsOk, ProcessesBorn
<1>5. OwnersOk(y, t)
  <2>1. ASSUME NEW p \in HostPlugin, x.owners[p] # NoOwner
        PROVE  /\ OwnerFine(x.owners[p]) /\ x.owners[p].generation \in Generation
               /\ x.owners[p].report = "ok" => s[p][x.owners[p].generation] = "gone"
               /\ x.owners[p].generation <= x.generations[p]
    BY <1>1, <2>1 DEF TableInv, OwnersOk, OwnerFine, HostOwner
  <2> QED
    BY <1>2, <2>1 DEF OwnersOk, ProcessesBorn
<1>6. SameReceipts(x, y)
  BY <1>2 DEF SameReceipts
<1>7. ReceiptsInv(y, s)
  BY <1>1, <1>6, ReceiptsMove DEF TableInv, ReceiptsInv
<1>8. StopsOk(y, t)
  <2>1. \A k \in 1..Len(x.ops) : x.ops[k].plugin \in HostPlugin /\ x.ops[k].generation \in Generation
    <3>1. \A k \in 1..Len(x.ops) : x.ops[k] \in Receipt
      BY <1>1 DEF TableType
    <3> QED
      BY <3>1 DEF Receipt
  <2> QED
    BY <1>2, <1>7, <2>1 DEF ReceiptsInv, StopsOk, ProcessesBorn
<1>9. StartsSettled(y) /\ (w.phase = "stopping" => Retiring(y)) /\ w \in WorkerType
  BY <1>2 DEF WholeInv, StartsSettled, Retiring
<1> QED
  BY <1>3, <1>4, <1>5, <1>7, <1>8, <1>9 DEF WholeInv, TableInv, ReceiptsInv, y

(* The oldest request is prepared next; no other is of its plugin.             *)
LEMMA TakesKeeps ==
  ASSUME NEW x, NEW s, NEW w, WholeInv(x, s, w), w.phase # "ended",
         x.launcher.making = NoLaunch, x.launcher.built = NoLaunch, x.launcher.requests # <<>>
  PROVE  WholeInv([x EXCEPT !.launcher = [x.launcher EXCEPT !.making = Head(x.launcher.requests),
                                                            !.requests = Tail(@)]], s, w)
<1> DEFINE q == x.launcher.requests
           l == [x.launcher EXCEPT !.making = Head(q), !.requests = Tail(@)]
           y == [x EXCEPT !.launcher = l]
<1>1. /\ x \in TableType /\ TableInv(x, s) /\ x.launcher \in LauncherType /\ q \in Seq(Launch)
      /\ LaunchesOk(x, s) /\ ClaimsOk(x, s)
  BY DEF WholeInv, TableInv, TableOk, TableType, LauncherType
<1>2. /\ Head(q) \in Launch /\ Tail(q) \in Seq(Launch) /\ Head(q) = q[1] /\ 1 \in 1..Len(q)
      /\ Len(Tail(q)) = Len(q) - 1 /\ Len(q) \in Nat
      /\ \A i \in 1..Len(Tail(q)) : Tail(q)[i] = q[i + 1] /\ i + 1 \in 1..Len(q)
  BY <1>1
<1>3. /\ l \in LauncherType /\ l.requests = Tail(q) /\ l.making = Head(q)
      /\ l.built = NoLaunch /\ l.result = x.launcher.result
  BY <1>1, <1>2 DEF LauncherType, Slot
<1>4. y.launcher = l /\ y.owners = x.owners
  BY <1>1 DEF TableType
<1>5. ClaimsOk(y, s)
  BY <1>1, <1>3, <1>4 DEF ClaimsOk
<1>6. \A k : (Waiting(x, s, k) <=> Waiting(y, s, k)) /\ (Created(x, k) <=> Created(y, k))
  BY <1>4 DEF Waiting, Created
<1>7. \A p : Requested(q, p) <=> (Head(q).plugin = p \/ Requested(Tail(q), p))
  <2>1. \A p : Requested(Tail(q), p) => Requested(q, p)
    BY <1>2 DEF Requested
  <2>2. \A p : Head(q).plugin = p => Requested(q, p)
    BY <1>2 DEF Requested
  <2>3. \A i \in 1..Len(q) : i = 1 \/ (i - 1 \in 1..Len(Tail(q)) /\ Tail(q)[i - 1] = q[i])
    BY <1>2
  <2>4. \A p : Requested(q, p) => (Head(q).plugin = p \/ Requested(Tail(q), p))
    BY <1>2, <2>3 DEF Requested
  <2> QED
    BY <2>1, <2>2, <2>4
<1>8. ~Requested(Tail(q), Head(q).plugin)
  <2>1. \A i, j \in 1..Len(q) : q[i].plugin = q[j].plugin => i = j
    BY <1>1 DEF LaunchesOk
  <2>2. \A i \in 1..Len(Tail(q)) : i + 1 # 1
    BY <1>2
  <2> QED
    BY <1>2, <2>1, <2>2 DEF Requested
<1>9. LaunchesOk(y, s)
  <2>1. \A i \in 1..Len(l.requests) : Waiting(y, s, l.requests[i])
    BY <1>1, <1>2, <1>3, <1>6 DEF LaunchesOk
  <2>2. Waiting(y, s, l.making)
    BY <1>1, <1>2, <1>3, <1>6 DEF LaunchesOk
  <2>3. l.result # NoLaunch => Created(y, l.result)
    BY <1>1, <1>3, <1>6 DEF LaunchesOk
  <2>4. \A i, j \in 1..Len(l.requests) : l.requests[i].plugin = l.requests[j].plugin => i = j
    <3>1. \A i, j \in 1..Len(q) : q[i].plugin = q[j].plugin => i = j
      BY <1>1 DEF LaunchesOk
    <3>2. \A i, j \in 1..Len(Tail(q)) : q[i + 1].plugin = q[j + 1].plugin => i + 1 = j + 1
      BY <1>2, <3>1
    <3>3. \A i, j \in 1..Len(Tail(q)) : Tail(q)[i].plugin = Tail(q)[j].plugin => i = j
      <4> SUFFICES ASSUME NEW i \in 1..Len(Tail(q)), NEW j \in 1..Len(Tail(q)),
                          Tail(q)[i].plugin = Tail(q)[j].plugin
                   PROVE  i = j
        OBVIOUS
      <4>1. i + 1 = j + 1
        BY <1>2, <3>2
      <4> QED
        BY <1>2, <4>1
    <3> HIDE DEF l
    <3> QED
      BY <1>3, <3>3
  <2>5. \A p \in HostPlugin : InSlot(l.making, p) => Head(q).plugin = p
    BY <1>3 DEF InSlot
  <2>6. \A p \in HostPlugin : Head(q).plugin = p => InSlot(l.making, p)
    BY <1>2, <1>3 DEF InSlot, Launch, NoLaunch
  <2>7. \A p \in HostPlugin :
             /\ Requested(Tail(q), p) => ~InSlot(l.making, p) /\ ~InSlot(l.built, p) /\ ~InSlot(l.result, p)
             /\ InSlot(l.result, p) => ~InSlot(l.making, p) /\ ~InSlot(l.built, p)
             /\ LaunchGen(y.owners[p]) # 0 =>
                  Requested(Tail(q), p) \/ InSlot(l.making, p) \/ InSlot(l.built, p) \/ InSlot(l.result, p)
    <3> SUFFICES ASSUME NEW p \in HostPlugin
                 PROVE  /\ Requested(Tail(q), p) => ~InSlot(l.making, p) /\ ~InSlot(l.built, p) /\ ~InSlot(l.result, p)
                        /\ InSlot(l.result, p) => ~InSlot(l.making, p) /\ ~InSlot(l.built, p)
                        /\ LaunchGen(y.owners[p]) # 0 =>
                             Requested(Tail(q), p) \/ InSlot(l.making, p) \/ InSlot(l.built, p) \/ InSlot(l.result, p)
      OBVIOUS
    <3>1. /\ Requested(q, p) => ~InSlot(x.launcher.making, p) /\ ~InSlot(x.launcher.built, p) /\ ~InSlot(x.launcher.result, p)
          /\ LaunchGen(x.owners[p]) # 0 =>
               \/ Requested(q, p) \/ InSlot(x.launcher.making, p)
               \/ InSlot(x.launcher.built, p) \/ InSlot(x.launcher.result, p)
      BY <1>1 DEF LaunchesOk
    <3>2. ~InSlot(x.launcher.making, p) /\ ~InSlot(x.launcher.built, p) /\ ~InSlot(l.built, p)
      BY <1>3 DEF InSlot
    <3> QED
      BY <1>3, <1>4, <1>7, <1>8, <2>5, <2>6, <3>1, <3>2
  <2> HIDE DEF l, q, y
  <2> QED
    BY <1>3, <1>4, <2>1, <2>2, <2>3, <2>4, <2>7 DEF LaunchesOk
<1>10. s \in OsType /\ OneAlive(s) /\ ProcessesBorn(x, s, s)
  BY <1>1 DEF WholeInv, TableInv, GenerationsOk, ProcessesBorn
<1> HIDE DEF l
<1> QED
  BY <1>3, <1>5, <1>9, <1>10, LauncherMoves DEF l

(* What a launch delivers: an owner that was never asked anything.             *)
Fresh(n, g) ==
    /\ n \in HostOwner /\ n.generation = g
    /\ ~n.launching /\ ~n.unclean /\ n.report = "none"
    /\ n.start = Nobody /\ n.stop = Nobody
    /\ n.state = "stopping" => n.due # "none"

LEMMA FailedFresh ==
  ASSUME NEW g, NEW n, Fresh(n, g)
  PROVE  Fresh(fail(n), g) /\ fail(n).supervisor = n.supervisor
<1>1. OwnerOpen(n)
  BY DEF Fresh, OwnerOpen
<1> QED
  BY <1>1, Fail DEF Fresh, OwnerFine, SameOwner

LEMMA NewOwnerFresh ==
  ASSUME NEW g \in Generation
  PROVE  /\ Fresh(NewOwner(g), g) /\ ~NewOwner(g).supervisor
         /\ Fresh([NewOwner(g) EXCEPT !.supervisor = TRUE], g)
         /\ [NewOwner(g) EXCEPT !.supervisor = TRUE].supervisor
<1>1. Nobody \in 0..MaxOperations
  BY LifecycleConstants DEF Nobody
<1>2. Fresh(NewOwner(g), g) /\ ~NewOwner(g).supervisor
  BY <1>1 DEF Fresh, NewOwner, HostOwner
<1> DEFINE n == NewOwner(g)
<1> HIDE DEF n
<1>3. Fresh([n EXCEPT !.supervisor = TRUE], g) /\ [n EXCEPT !.supervisor = TRUE].supervisor
  BY <1>2 DEF Fresh, HostOwner, n
<1> QED
  BY <1>2, <1>3 DEF n

(* The process is created, or not, for the launch that was being prepared.     *)
(* Its generation had none, and no other generation of the plugin has one.     *)
LEMMA CreatesKeeps ==
  ASSUME NEW x, NEW s, NEW w, WholeInv(x, s, w), x.launcher.making # NoLaunch,
         NEW n, Fresh(n, x.launcher.making.owner.generation), NEW t,
         \/ ~n.supervisor /\ t = s
         \/ n.supervisor /\ t = [s EXCEPT ![x.launcher.making.plugin][x.launcher.making.owner.generation] = "alive"]
  PROVE  WholeInv([x EXCEPT !.launcher = [x.launcher EXCEPT
                     !.making = NoLaunch,
                     !.built = [plugin |-> x.launcher.making.plugin, owner |-> n]]], t, w)
<1> DEFINE m == x.launcher.making
           p == m.plugin
           g == m.owner.generation
           b == [plugin |-> p, owner |-> n]
           l == [x.launcher EXCEPT !.making = NoLaunch, !.built = b]
           y == [x EXCEPT !.launcher = l]
<1>1. /\ x \in TableType /\ TableInv(x, s) /\ x.launcher \in LauncherType /\ m \in Launch
      /\ LaunchesOk(x, s) /\ s \in OsType /\ OneAlive(s)
  BY DEF WholeInv, TableInv, TableOk, TableType, LauncherType, Slot
<1>2. /\ p \in HostPlugin /\ g \in Generation /\ m.owner \in HostOwner
      /\ LaunchGen(x.owners[p]) = g /\ s[p][g] = "unborn" /\ x.launcher.built = NoLaunch
  BY <1>1 DEF Launch, HostOwner, LaunchesOk, Waiting
<1>3. x.owners[p] # NoOwner /\ x.owners[p].launching /\ x.owners[p].generation = g
  BY <1>2, LifecycleConstants DEF LaunchGen, Generation
<1>4. w.phase # "ended" /\ ClaimsOk(x, s)
  BY <1>2, <1>3 DEF WholeInv, Over
<1>5. SuperGen(x.owners[p]) = 0 /\ g <= x.generations[p]
  <2>1. OwnerFine(x.owners[p]) /\ x.owners[p].generation <= x.generations[p]
    BY <1>1, <1>2, <1>3 DEF TableInv, OwnersOk
  <2> QED
    BY <1>3, <2>1 DEF OwnerFine, SuperGen
<1>6. InSlot(m, p) /\ ~Requested(x.launcher.requests, p) /\ ~InSlot(x.launcher.result, p)
  BY <1>1, <1>2 DEF LaunchesOk, InSlot
<1>7. b \in Launch /\ b # NoLaunch /\ b.plugin = p /\ b.owner = n
  BY <1>2 DEF Fresh, Launch, NoLaunch
<1>8. /\ l \in LauncherType /\ l.requests = x.launcher.requests /\ l.making = NoLaunch
      /\ l.built = b /\ l.result = x.launcher.result
  BY <1>1, <1>7 DEF LauncherType, Slot
<1>9. y.launcher = l /\ y.owners = x.owners
  BY <1>1 DEF TableType
<1> HIDE DEF b, l, y
<1>10. /\ t \in OsType /\ t[p][g] \in {"unborn", "alive"}
       /\ t[p][g] = "alive" => n.supervisor
       /\ \A q \in HostPlugin, h \in Generation : q # p \/ h # g => t[q][h] = s[q][h]
  <2>1. CASE t = s
    BY <1>1, <1>2, <2>1
  <2>2. CASE n.supervisor /\ t = [s EXCEPT ![p][g] = "alive"]
    BY <1>1, <1>2, <2>2 DEF OsType
  <2> QED
    BY <2>1, <2>2
<1>11. \A h \in Generation : s[p][h] \notin Living
  <2> SUFFICES ASSUME NEW h \in Generation, s[p][h] \in Living
               PROVE  FALSE
    OBVIOUS
  <2>1. /\ ~HoldsProcess(x.launcher.built, p, h) /\ ~HoldsProcess(x.launcher.result, p, h)
        /\ SuperGen(x.owners[p]) # h
    BY <1>2, <1>5, <1>6, LifecycleConstants DEF HoldsProcess, InSlot, Generation
  <2> QED
    BY <1>2, <1>4, <2>1 DEF ClaimsOk
<1>12. OneAlive(t)
  <2> SUFFICES ASSUME NEW q \in HostPlugin, NEW h \in Generation, NEW k \in Generation,
                      t[q][h] \in Living, t[q][k] \in Living
               PROVE  h = k
    BY DEF OneAlive
  <2>1. CASE q = p
    BY <1>10, <1>11, <2>1
  <2>2. CASE q # p
    BY <1>1, <1>10, <2>2 DEF OneAlive
  <2> QED
    BY <2>1, <2>2
<1>13. ProcessesBorn(x, s, t)
  BY <1>1, <1>2, <1>5, <1>10 DEF ProcessesBorn, TableInv, GenerationsOk
<1>14. ClaimsOk(y, t)
  <2> SUFFICES ASSUME NEW q \in HostPlugin, NEW h \in Generation, t[q][h] \in Living
               PROVE  \/ SuperGen(x.owners[q]) = h
                      \/ HoldsProcess(b, q, h) \/ HoldsProcess(x.launcher.result, q, h)
    BY <1>8, <1>9 DEF ClaimsOk
  <2>1. CASE q = p /\ h = g
    <3>1. n.supervisor /\ n.generation = g
      BY <1>10, <2>1 DEF Living, Fresh
    <3> QED
      BY <1>7, <2>1, <3>1 DEF HoldsProcess, InSlot
  <2>2. CASE ~(q = p /\ h = g)
    <3>1. s[q][h] \in Living
      BY <1>10, <2>2
    <3>2. ~HoldsProcess(x.launcher.built, q, h)
      BY <1>2 DEF HoldsProcess, InSlot
    <3> QED
      BY <1>4, <3>1, <3>2 DEF ClaimsOk
  <2> QED
    BY <2>1, <2>2
<1>15. LaunchesOk(y, t)
  <2>1. Created(y, b)
    BY <1>2, <1>7, <1>9 DEF Created, Fresh
  <2>2. \A k \in Launch : k.plugin # p => (Waiting(x, s, k) => Waiting(y, t, k))
    <3>1. \A k \in Launch : k.plugin \in HostPlugin /\ k.owner.generation \in Generation
      BY DEF Launch, HostOwner
    <3> QED
      BY <1>9, <1>10, <3>1 DEF Waiting
  <2>3. \A i \in 1..Len(l.requests) : Waiting(y, t, l.requests[i])
    <3>1. \A i \in 1..Len(x.launcher.requests) :
            /\ x.launcher.requests[i] \in Launch /\ x.launcher.requests[i].plugin # p
            /\ Waiting(x, s, x.launcher.requests[i])
      BY <1>1, <1>6 DEF LauncherType, Requested, LaunchesOk
    <3> QED
      BY <1>8, <2>2, <3>1
  <2>4. l.result # NoLaunch => Created(y, l.result)
    BY <1>1, <1>8, <1>9 DEF LaunchesOk, Created
  <2>5. \A q : /\ InSlot(b, q) <=> q = p
               /\ InSlot(m, q) <=> q = p
               /\ ~InSlot(NoLaunch, q)
    BY <1>6, <1>7 DEF InSlot
  <2>6. \A i, j \in 1..Len(l.requests) : l.requests[i].plugin = l.requests[j].plugin => i = j
    BY <1>1, <1>8 DEF LaunchesOk
  <2>7. \A q \in HostPlugin :
          /\ Requested(l.requests, q) => ~InSlot(l.making, q) /\ ~InSlot(b, q) /\ ~InSlot(l.result, q)
          /\ InSlot(l.result, q) => ~InSlot(l.making, q) /\ ~InSlot(b, q)
          /\ LaunchGen(y.owners[q]) # 0 =>
               Requested(l.requests, q) \/ InSlot(l.making, q) \/ InSlot(b, q) \/ InSlot(l.result, q)
    <3> SUFFICES ASSUME NEW q \in HostPlugin
                 PROVE  /\ Requested(l.requests, q) => ~InSlot(l.making, q) /\ ~InSlot(b, q) /\ ~InSlot(l.result, q)
                        /\ InSlot(l.result, q) => ~InSlot(l.making, q) /\ ~InSlot(b, q)
                        /\ LaunchGen(y.owners[q]) # 0 =>
                             Requested(l.requests, q) \/ InSlot(l.making, q) \/ InSlot(b, q) \/ InSlot(l.result, q)
      OBVIOUS
    <3>1. /\ Requested(x.launcher.requests, q) => ~InSlot(m, q) /\ ~InSlot(x.launcher.result, q)
          /\ InSlot(x.launcher.result, q) => ~InSlot(m, q)
          /\ LaunchGen(x.owners[q]) # 0 =>
               \/ Requested(x.launcher.requests, q) \/ InSlot(m, q)
               \/ InSlot(x.launcher.built, q) \/ InSlot(x.launcher.result, q)
      BY <1>1 DEF LaunchesOk
    <3> QED
      BY <1>2, <1>8, <1>9, <2>5, <3>1
  <2> QED
    BY <1>8, <1>9, <2>1, <2>3, <2>4, <2>6, <2>7 DEF LaunchesOk
<1> QED
  BY <1>4, <1>8, <1>10, <1>12, <1>13, <1>14, <1>15, LauncherMoves DEF y, l, b

(* A created owner moves on to the channel, as it is or failed.                *)
LEMMA DeliversKeeps ==
  ASSUME NEW x, NEW s, NEW w, WholeInv(x, s, w),
         x.launcher.built # NoLaunch, x.launcher.result = NoLaunch,
         NEW n, n = x.launcher.built.owner \/ n = fail(x.launcher.built.owner)
  PROVE  WholeInv([x EXCEPT !.launcher = [x.launcher EXCEPT
                     !.built = NoLaunch, !.result = [x.launcher.built EXCEPT !.owner = n]]], s, w)
<1> DEFINE b == x.launcher.built
           p == b.plugin
           g == b.owner.generation
           r == [b EXCEPT !.owner = n]
           l == [x.launcher EXCEPT !.built = NoLaunch, !.result = r]
           y == [x EXCEPT !.launcher = l]
<1>1. /\ x \in TableType /\ TableInv(x, s) /\ x.launcher \in LauncherType /\ b \in Launch
      /\ LaunchesOk(x, s) /\ s \in OsType /\ OneAlive(s)
  BY DEF WholeInv, TableInv, TableOk, TableType, LauncherType, Slot
<1>2. p \in HostPlugin /\ g \in Generation /\ b.owner \in HostOwner /\ Created(x, b)
  BY <1>1 DEF Launch, HostOwner, LaunchesOk
<1>3. x.owners[p] # NoOwner /\ LaunchGen(x.owners[p]) = g
  BY <1>2, LifecycleConstants DEF Created, LaunchGen, Generation
<1>4. w.phase # "ended" /\ ClaimsOk(x, s)
  BY <1>2, <1>3 DEF WholeInv, Over
<1>5. Fresh(b.owner, g)
  BY <1>2 DEF Created, Fresh
<1>6. Fresh(n, g) /\ n.supervisor = b.owner.supervisor
  <2> DEFINE o == b.owner
  <2>1. Fresh(o, g) /\ (n = o \/ n = fail(o))
    BY <1>5
  <2> HIDE DEF o, g
  <2>2. Fresh(n, g) /\ n.supervisor = o.supervisor
    BY <2>1, FailedFresh
  <2> QED
    BY <2>2 DEF o
<1>7. r \in Launch /\ r # NoLaunch /\ r.plugin = p /\ r.owner = n
  BY <1>1, <1>6 DEF Fresh, Launch, NoLaunch
<1>8. InSlot(b, p) /\ ~Requested(x.launcher.requests, p)
  BY <1>1, <1>2 DEF LaunchesOk, InSlot
<1>9. /\ l \in LauncherType /\ l.requests = x.launcher.requests /\ l.making = NoLaunch
      /\ l.built = NoLaunch /\ l.result = r /\ x.launcher.making = NoLaunch
  BY <1>1, <1>7 DEF LauncherType, Slot, LaunchesOk
<1>10. y.launcher = l /\ y.owners = x.owners
  BY <1>1 DEF TableType
<1> HIDE DEF r, l, y
<1>11. ClaimsOk(y, s)
  <2> SUFFICES ASSUME NEW q \in HostPlugin, NEW h \in Generation, s[q][h] \in Living
               PROVE  SuperGen(x.owners[q]) = h \/ HoldsProcess(r, q, h)
    BY <1>9, <1>10 DEF ClaimsOk
  <2>1. SuperGen(x.owners[q]) = h \/ HoldsProcess(b, q, h)
    BY <1>4 DEF ClaimsOk, HoldsProcess, InSlot
  <2>2. HoldsProcess(b, q, h) => HoldsProcess(r, q, h)
    BY <1>5, <1>6, <1>7 DEF HoldsProcess, InSlot, Fresh
  <2> QED
    BY <2>1, <2>2
<1>12. LaunchesOk(y, s)
  <2>1. Created(y, r)
    BY <1>3, <1>6, <1>7, <1>10 DEF Created, Fresh
  <2>2. \A i \in 1..Len(l.requests) : Waiting(y, s, l.requests[i])
    BY <1>1, <1>9, <1>10 DEF LaunchesOk, Waiting
  <2>3. \A q : /\ InSlot(r, q) <=> q = p
               /\ InSlot(b, q) <=> q = p
               /\ ~InSlot(NoLaunch, q)
    BY <1>7, <1>8 DEF InSlot
  <2>4. \A i, j \in 1..Len(l.requests) : l.requests[i].plugin = l.requests[j].plugin => i = j
    BY <1>1, <1>9 DEF LaunchesOk
  <2>5. \A q \in HostPlugin :
          /\ Requested(l.requests, q) => ~InSlot(l.making, q) /\ ~InSlot(l.built, q) /\ ~InSlot(r, q)
          /\ InSlot(r, q) => ~InSlot(l.making, q) /\ ~InSlot(l.built, q)
          /\ LaunchGen(y.owners[q]) # 0 =>
               Requested(l.requests, q) \/ InSlot(l.making, q) \/ InSlot(l.built, q) \/ InSlot(r, q)
    <3> SUFFICES ASSUME NEW q \in HostPlugin
                 PROVE  /\ Requested(l.requests, q) => ~InSlot(l.making, q) /\ ~InSlot(l.built, q) /\ ~InSlot(r, q)
                        /\ InSlot(r, q) => ~InSlot(l.making, q) /\ ~InSlot(l.built, q)
                        /\ LaunchGen(y.owners[q]) # 0 =>
                             Requested(l.requests, q) \/ InSlot(l.making, q) \/ InSlot(l.built, q) \/ InSlot(r, q)
      OBVIOUS
    <3>1. /\ Requested(x.launcher.requests, q) => ~InSlot(b, q)
          /\ LaunchGen(x.owners[q]) # 0 =>
               \/ Requested(x.launcher.requests, q) \/ InSlot(x.launcher.making, q)
               \/ InSlot(b, q) \/ InSlot(x.launcher.result, q)
      BY <1>1 DEF LaunchesOk
    <3>2. ~InSlot(x.launcher.result, q)
      BY DEF InSlot
    <3> QED
      BY <1>9, <1>10, <2>3, <3>1, <3>2
  <2> QED
    BY <1>9, <1>10, <2>1, <2>2, <2>4, <2>5 DEF LaunchesOk
<1>13. ProcessesBorn(x, s, s)
  BY <1>1 DEF TableInv, GenerationsOk, ProcessesBorn
<1> QED
  BY <1>1, <1>4, <1>9, <1>11, <1>12, <1>13, LauncherMoves DEF y, l, r, b

-----------------------------------------------------------------------------
(* The turns of the owner thread.                                              *)
LEMMA LoopTurnKeeps ==
  ASSUME NEW x, NEW w, WholeInv(x, os, w), w.phase = "running",
         NEW y \in Pump(apply(collect(x))), NEW late, NEW z \in prune_retired(Finish(y, late))
  PROVE  WholeInv(z, os, w)
<1>1. os \in OsType /\ OneAlive(os) /\ TurnInv(x, os) /\ w \in WorkerType
  BY DEF WholeInv, TurnInv
<1>2. TurnInv(collect(x), os)
  BY <1>1, CollectKeeps
<1>3. TurnInv(apply(collect(x)), os)
  BY <1>1, <1>2, ApplyKeeps
<1>4. TurnInv(y, os)
  BY <1>1, <1>3, PumpKeeps DEF TurnInv
<1>5. TurnInv(Finish(y, late), os) /\ StartsSettled(Finish(y, late))
  BY <1>4, FinishKeeps DEF TurnInv
<1>6. TurnInv(z, os) /\ StartsSettled(z)
  BY <1>5, PruneKeeps
<1> QED
  BY <1>1, <1>6 DEF WholeInv, TurnInv

LEMMA StopTurnKeeps ==
  ASSUME NEW x, NEW w, WholeInv(x, os, w), w.phase = "stopping",
         NEW y \in Pump(collect(x)), NEW late
  PROVE  WholeInv(Finish(y, late), os, w)
<1>1. os \in OsType /\ OneAlive(os) /\ TurnInv(x, os) /\ Retiring(x) /\ w \in WorkerType
  BY DEF WholeInv, TurnInv
<1>2. TurnInv(collect(x), os) /\ Retiring(collect(x))
  BY <1>1, CollectKeeps
<1>3. TurnInv(y, os) /\ Retiring(y)
  BY <1>1, <1>2, PumpKeeps DEF TurnInv
<1>4. /\ TurnInv(Finish(y, late), os) /\ StartsSettled(Finish(y, late))
      /\ Retiring(Finish(y, late))
  BY <1>3, FinishKeeps DEF TurnInv
<1> QED
  BY <1>1, <1>4 DEF WholeInv, TurnInv

(* The queue is refused; what owners hold is not in it.                        *)
QueueRefused(x, y) ==
    /\ y.commands = <<>> /\ Len(y.ops) = Len(x.ops)
    /\ \A k \in 1..Len(x.ops) :
         y.ops[k] = IF QueuedIn(x, k) THEN [x.ops[k] EXCEPT !.status = "refused"] ELSE x.ops[k]
    /\ \A p \in HostPlugin :
         /\ StartOf(y.owners[p]) = StartOf(x.owners[p])
         /\ StopOf(y.owners[p]) = StopOf(x.owners[p])
         /\ StopOf(x.owners[p]) # Nobody => y.owners[p].generation = x.owners[p].generation

LEMMA RefuseQueue ==
  ASSUME NEW x, NEW y, NEW s, TableOk(x), ReceiptsInv(x, s), QueueRefused(x, y)
  PROVE  ReceiptsInv(y, s)
<1>1. \A k \in 1..Len(x.ops) : x.ops[k] \in Receipt
  BY DEF TableOk, TableType
<1>2. \A k : ~QueuedIn(y, k)
  BY DEF QueueRefused, QueuedIn
<1>3. ASSUME NEW k \in 1..Len(x.ops)
      PROVE  /\ ~QueuedIn(x, k) => y.ops[k] = x.ops[k]
             /\ QueuedIn(x, k) => y.ops[k].status = "refused"
  <2>1. [x.ops[k] EXCEPT !.status = "refused"].status = "refused"
    BY <1>1 DEF Receipt
  <2> QED
    BY <2>1 DEF QueueRefused
<1>4. \A k, kind, p : IsHeld(x, k, kind, p) => IsHeld(y, k, kind, p) /\ y.ops[k] = x.ops[k]
  BY <1>2, <1>3 DEF IsHeld, QueueRefused
<1>5. CommandsOk(y)
  BY DEF CommandsOk, QueueRefused
<1>6. HeldOk(y)
  BY <1>4 DEF ReceiptsInv, HeldOk, QueueRefused
<1>7. NoneLost(y)
  BY <1>3 DEF ReceiptsInv, NoneLost, QueueRefused
<1>8. StopsOk(y, s)
  <2> SUFFICES ASSUME NEW k \in 1..Len(x.ops), y.ops[k].kind = "stop", y.ops[k].status = "done"
               PROVE  s[y.ops[k].plugin][y.ops[k].generation] = "gone"
    BY DEF StopsOk, QueueRefused
  <2>1. y.ops[k] = x.ops[k]
    BY <1>3
  <2> QED
    BY <2>1 DEF ReceiptsInv, StopsOk
<1> QED
  BY <1>5, <1>6, <1>7, <1>8 DEF ReceiptsInv

(* The end of the loop gives every owner with something to wait for a deadline. *)
Drained(o) == IF o.state = "starting" THEN fail(o) ELSE begin_retirement(o)

LEMMA DrainedOwner ==
  ASSUME NEW o, OwnerFine(o)
  PROVE  LET n == Drained(o) IN
           /\ OwnerFine(n) /\ SameOwner(o, n) /\ n.supervisor = o.supervisor
           /\ n.report = o.report /\ n.state # "active"
           /\ o.due # "none" => n.due # "none"
           /\ n.launching \/ n.supervisor => n.due # "none"
<1>1. OwnerOpen(o)
  BY DEF OwnerFine, OwnerOpen
<1>2. \A c : OwnerOpen(c) /\ (c.launching \/ c.supervisor) => begin_retirement(c).due # "none"
  <2> SUFFICES ASSUME NEW c, OwnerOpen(c), c.launching \/ c.supervisor
               PROVE  begin_retirement(c).due # "none"
    OBVIOUS
  <2>1. c.state = "stopping" \/ begin_retirement(c) = [c EXCEPT !.state = "stopping", !.due = IF @ = "none" THEN "set" ELSE @]
    BY DEF begin_retirement
  <2> QED
    BY <2>1 DEF OwnerOpen, HostOwner, begin_retirement
<1>3. CASE o.state = "starting"
  <2> DEFINE c == [o EXCEPT !.failure = TRUE]
  <2>1. OwnerOpen(c) /\ c.launching = o.launching /\ c.supervisor = o.supervisor
    BY <1>1 DEF OwnerOpen, HostOwner
  <2>2. fail(o) = begin_retirement(c)
    BY DEF fail
  <2> HIDE DEF c
  <2> QED
    BY <1>1, <1>2, <1>3, <2>1, <2>2, Fail DEF Drained, SameOwner
<1>4. CASE o.state # "starting"
  BY <1>1, <1>2, <1>4, BeginRetirement DEF Drained, SameOwner
<1> QED
  BY <1>3, <1>4

DrainedTables(x) ==
    [x EXCEPT
        !.ops = [o \in DOMAIN x.ops |-> IF \E i \in DOMAIN x.commands : x.commands[i] = o
                                          THEN [x.ops[o] EXCEPT !.status = "refused"] ELSE x.ops[o]],
        !.commands = <<>>, !.launcher.stopping = TRUE,
        !.owners = [p \in HostPlugin |-> IF p \notin OwnedIn(x) THEN NoOwner ELSE Drained(x.owners[p])]]

LEMMA DrainKeeps ==
  ASSUME NEW x, NEW s, NEW w, WholeInv(x, s, w), w.phase = "running"
  PROVE  WholeInv(DrainedTables(x), s, [w EXCEPT !.phase = "stopping"])
<1> DEFINE r == [o \in DOMAIN x.ops |-> IF \E i \in DOMAIN x.commands : x.commands[i] = o
                                          THEN [x.ops[o] EXCEPT !.status = "refused"] ELSE x.ops[o]]
           q == [p \in HostPlugin |-> IF p \notin OwnedIn(x) THEN NoOwner ELSE Drained(x.owners[p])]
           l == [x.launcher EXCEPT !.stopping = TRUE]
           y == DrainedTables(x)
<1>1. /\ x \in TableType /\ TableOk(x) /\ TableInv(x, s) /\ ClaimsOk(x, s) /\ s \in OsType
      /\ x.ops \in Seq(Receipt) /\ x.commands \in Seq(Operation) /\ x.launcher \in LauncherType
  BY DEF WholeInv, TableInv, TableOk, TableType, LauncherType
<1>2. r \in Seq(Receipt) /\ Len(r) = Len(x.ops) /\ DOMAIN r = 1..Len(x.ops)
  <2>1. DOMAIN x.ops = 1..Len(x.ops) /\ Len(x.ops) \in Nat /\ \A k \in 1..Len(x.ops) : x.ops[k] \in Receipt
    BY <1>1
  <2>2. \A k \in 1..Len(x.ops) : [x.ops[k] EXCEPT !.status = "refused"] \in Receipt
    <3> SUFFICES ASSUME NEW k \in 1..Len(x.ops)
                 PROVE  [x.ops[k] EXCEPT !.status = "refused"] \in Receipt
      OBVIOUS
    <3>1. x.ops[k] \in Receipt
      BY <2>1
    <3> QED
      BY <3>1 DEF Receipt
  <2>3. r \in [1..Len(x.ops) -> Receipt]
    BY <2>1, <2>2
  <2> QED
    BY <2>1, <2>3
<1>3. ASSUME NEW p \in HostPlugin
      PROVE  /\ q[p] \in HostOwner \cup {NoOwner}
             /\ x.owners[p] = NoOwner => q[p] = NoOwner
             /\ x.owners[p] # NoOwner =>
                  /\ q[p] # NoOwner /\ q[p] = Drained(x.owners[p])
                  /\ OwnerFine(q[p]) /\ SameOwner(x.owners[p], q[p])
                  /\ q[p].supervisor = x.owners[p].supervisor
                  /\ q[p].report = x.owners[p].report /\ q[p].state # "active"
                  /\ x.owners[p].due # "none" => q[p].due # "none"
                  /\ q[p].launching \/ q[p].supervisor => q[p].due # "none"
  <2>1. CASE x.owners[p] = NoOwner
    BY <2>1 DEF OwnedIn
  <2>2. CASE x.owners[p] # NoOwner
    <3>1. OwnerFine(x.owners[p])
      BY <1>1, <2>2 DEF TableInv, OwnersOk
    <3>2. q[p] = Drained(x.owners[p])
      BY <2>2 DEF OwnedIn
    <3> HIDE DEF q
    <3> QED
      BY <2>2, <3>1, <3>2, DrainedOwner, NoOwnerApart DEF OwnerFine
  <2> QED
    BY <2>1, <2>2
<1>4. l \in LauncherType /\ l.requests = x.launcher.requests /\ l.making = x.launcher.making
      /\ l.built = x.launcher.built /\ l.result = x.launcher.result
  BY <1>1 DEF LauncherType
<1>5. y = [x EXCEPT !.ops = r, !.commands = <<>>, !.launcher = l, !.owners = q]
  BY <1>1 DEF DrainedTables
<1>6. \A k \in 1..Len(x.ops) : r[k] = IF QueuedIn(x, k) THEN [x.ops[k] EXCEPT !.status = "refused"] ELSE x.ops[k]
  BY SMTT(30), <1>1 DEF QueuedIn
<1>7. q \in [HostPlugin -> HostOwner \cup {NoOwner}]
  BY <1>3
<1> HIDE DEF r, l, q, y
<1>8. /\ y.ops = r /\ y.commands = <<>> /\ y.launcher = l /\ y.owners = q
      /\ y.generations = x.generations /\ y \in TableType
  <2>1. <<>> \in Seq(Operation)
    OBVIOUS
  <2>2. TableType = [ops : Seq(Receipt), commands : Seq(Operation),
                     owners : [HostPlugin -> HostOwner \cup {NoOwner}],
                     generations : [HostPlugin -> 0..MaxGeneration], launcher : LauncherType]
    BY DEF TableType, LauncherType
  <2> QED
    BY <1>1, <1>2, <1>4, <1>5, <1>7, <2>1, <2>2
<1>9. TableOk(y)
  BY <1>1, <1>2, <1>8, LifecycleConstants DEF TableOk
<1>10. OwnersMoved(x, y, s)
  <2>1. \A p \in HostPlugin : Kept(x.owners[p], y.owners[p], s[p])
    <3> SUFFICES ASSUME NEW p \in HostPlugin PROVE Kept(x.owners[p], q[p], s[p])
      BY <1>8
    <3>1. CASE x.owners[p] = NoOwner
      BY <1>3, <3>1 DEF Kept, LaunchGen, SuperGen
    <3>2. CASE x.owners[p] # NoOwner
      <4>1. x.owners[p].report = "ok" => s[p][x.owners[p].generation] = "gone"
        BY <1>1, <3>2 DEF TableInv, OwnersOk
      <4> QED
        BY <1>3, <3>2, <4>1 DEF Kept, LaunchGen, SuperGen, SameOwner
    <3> QED
      BY <3>1, <3>2
  <2> QED
    BY <1>4, <1>8, <2>1 DEF OwnersMoved
<1>11. OwnersOk(y, s) /\ LaunchesOk(y, s) /\ GenerationsOk(y, s) /\ ClaimsOk(y, s)
  BY <1>1, <1>10, OwnersMove DEF TableInv
<1>12. ReceiptsInv(y, s)
  <2>1. QueueRefused(x, y)
    <3>1. \A p \in HostPlugin :
            /\ StartOf(q[p]) = StartOf(x.owners[p])
            /\ StopOf(q[p]) = StopOf(x.owners[p])
            /\ StopOf(x.owners[p]) # Nobody => q[p].generation = x.owners[p].generation
      BY <1>3 DEF StartOf, StopOf, SameOwner
    <3> QED
      BY <1>2, <1>6, <1>8, <3>1 DEF QueueRefused
  <2> QED
    BY <1>1, <2>1, RefuseQueue DEF TableInv, ReceiptsInv
<1>13. StartsSettled(y) /\ Retiring(y)
  BY <1>3, <1>8 DEF StartsSettled, Retiring, StartOf
<1>14. [w EXCEPT !.phase = "stopping"] \in WorkerType /\ [w EXCEPT !.phase = "stopping"].phase = "stopping"
  BY DEF WholeInv, WorkerType
<1> QED
  BY <1>1, <1>9, <1>11, <1>12, <1>13, <1>14 DEF WholeInv, TableInv, ReceiptsInv, y

(* The runtime ends.  Nobody waits, so no launch is left; every process that   *)
(* is still alive is some owner's, and is killed.                              *)
WaitsIn(x) ==
    \E p \in OwnedIn(x) : \/ x.owners[p].launching
                          \/ ~retired_owner(x.owners[p]) /\ x.owners[p].due = "set"

StoppedTables(x) ==
    [x EXCEPT !.owners = [p \in HostPlugin |->
                            IF p \in OwnedIn(x) THEN Stopped(p, x.owners[p]) ELSE NoOwner]]

EndedTables(x) ==
    LET z == Finish(StoppedTables(x), {})
    IN  [z EXCEPT
           !.owners = [p \in HostPlugin |-> NoOwner], !.commands = <<>>,
           !.ops = [o \in DOMAIN x.ops |-> IF z.ops[o].status = "queued"
                                             THEN [x.ops[o] EXCEPT !.status = "refused"]
                                             ELSE z.ops[o]]]

EndedOs(x) ==
    [p \in HostPlugin |-> [g \in Generation |->
        IF /\ p \in OwnedIn(x) /\ x.owners[p].supervisor /\ x.owners[p].generation = g
           /\ os[p][g] = "alive" THEN "killed" ELSE os[p][g]]]

LEMMA StoppedOwner ==
  ASSUME NEW p, NEW o, OwnerFine(o), ~o.launching, o.supervisor => o.due # "none",
         o.report = "ok" => os[p][o.generation] = "gone"
  PROVE  LET n == Stopped(p, o) IN
           /\ OwnerFine(n) /\ SameOwner(o, n)
           /\ n.report = "ok" => os[p][o.generation] = "gone"
<1> DEFINE good == os[p][o.generation] = "gone" /\ ~o.unclean
<1>1. CASE o.supervisor
  <2> DEFINE n == [o EXCEPT !.supervisor = FALSE, !.report = IF good THEN "ok" ELSE "error",
                            !.state = IF good /\ ~o.failure THEN "exited" ELSE "failed"]
  <2>1. Stopped(p, o) = n
    BY <1>1 DEF Stopped
  <2>2. /\ n \in HostOwner /\ SameOwner(o, n) /\ n.due = o.due /\ n.unclean = o.unclean
        /\ n.state \in {"exited", "failed"}
    BY DEF OwnerFine, HostOwner, SameOwner
  <2>3. n.report = "ok" => os[p][o.generation] = "gone"
    BY DEF OwnerFine, HostOwner
  <2> HIDE DEF n
  <2>4. OwnerFine(n)
    BY <1>1, <2>2 DEF OwnerFine, SameOwner
  <2> QED
    BY <2>1, <2>2, <2>3, <2>4
<1>2. CASE ~o.supervisor
  <2> DEFINE n == [o EXCEPT !.report = IF o.unclean THEN "error" ELSE @]
  <2>1. Stopped(p, o) = n
    BY <1>2 DEF Stopped
  <2>2. /\ n \in HostOwner /\ SameOwner(o, n) /\ n.due = o.due /\ n.unclean = o.unclean
        /\ n.state = o.state /\ n.supervisor = o.supervisor
        /\ n.report = "ok" => o.report = "ok"
    BY DEF OwnerFine, HostOwner, SameOwner
  <2> HIDE DEF n
  <2> QED
    BY <1>2, <2>1, <2>2 DEF OwnerFine, SameOwner, retired_owner
<1> QED
  BY <1>1, <1>2

LEMMA StoppedKeeps ==
  ASSUME NEW x, TableInv(x, os), Retiring(x), ~WaitsIn(x)
  PROVE  TableInv(StoppedTables(x), os)
<1> DEFINE q == [p \in HostPlugin |-> IF p \in OwnedIn(x) THEN Stopped(p, x.owners[p]) ELSE NoOwner]
           y == StoppedTables(x)
<1>1. x \in TableType /\ TableOk(x)
  BY DEF TableInv, TableOk
<1>2. ASSUME NEW p \in HostPlugin
      PROVE  /\ q[p] \in HostOwner \cup {NoOwner}
             /\ x.owners[p] = NoOwner => q[p] = NoOwner
             /\ x.owners[p] # NoOwner =>
                  /\ q[p] # NoOwner /\ OwnerFine(q[p]) /\ SameOwner(x.owners[p], q[p])
                  /\ q[p].report = "ok" => os[p][x.owners[p].generation] = "gone"
  <2>1. CASE x.owners[p] = NoOwner
    BY <2>1 DEF OwnedIn
  <2>2. CASE x.owners[p] # NoOwner
    <3>1. /\ OwnerFine(x.owners[p])
          /\ x.owners[p].report = "ok" => os[p][x.owners[p].generation] = "gone"
      BY <2>2 DEF TableInv, OwnersOk
    <3>2. ~x.owners[p].launching
      BY <2>2 DEF WaitsIn, OwnedIn
    <3>3. x.owners[p].supervisor => x.owners[p].due # "none"
      BY <2>2 DEF Retiring
    <3>4. q[p] = Stopped(p, x.owners[p])
      BY <2>2 DEF OwnedIn
    <3> HIDE DEF q
    <3> QED
      BY <2>2, <3>1, <3>2, <3>3, <3>4, StoppedOwner, NoOwnerApart DEF OwnerFine
  <2> QED
    BY <2>1, <2>2
<1>3. q \in [HostPlugin -> HostOwner \cup {NoOwner}]
  BY <1>2
<1>4. y = [x EXCEPT !.owners = q]
  BY DEF StoppedTables
<1> HIDE DEF q, y
<1>5. /\ y.ops = x.ops /\ y.commands = x.commands /\ y.launcher = x.launcher /\ y.owners = q
      /\ y.generations = x.generations /\ y \in TableType
  BY <1>1, <1>3, <1>4 DEF TableType
<1>6. TableOk(y) /\ GenerationsOk(y, os)
  BY <1>1, <1>5 DEF TableOk, TableInv, GenerationsOk
<1>7. OwnersOk(y, os)
  BY <1>2, <1>5 DEF TableInv, OwnersOk, SameOwner
<1>8. SameLaunches(x, y)
  BY <1>2, <1>5 DEF SameLaunches, LaunchGen, SameOwner
<1>9. SameReceipts(x, y)
  BY <1>2, <1>5 DEF SameReceipts, StartOf, StopOf, SameOwner
<1> QED
  BY <1>1, <1>5, <1>6, <1>7, <1>8, <1>9, LaunchesMove, ReceiptsMove DEF TableInv, ReceiptsInv, y

LEMMA EndKeeps ==
  ASSUME NEW x, NEW w, WholeInv(x, os, w), w.phase = "stopping", ~WaitsIn(x)
  PROVE  WholeInv(EndedTables(x), EndedOs(x), [w EXCEPT !.phase = "ended"])
<1> DEFINE X == StoppedTables(x)
           z == Finish(X, {})
           r == [o \in DOMAIN x.ops |-> IF z.ops[o].status = "queued"
                                          THEN [x.ops[o] EXCEPT !.status = "refused"] ELSE z.ops[o]]
           none == [p \in HostPlugin |-> NoOwner]
           y == EndedTables(x)
           u == EndedOs(x)
<1>1. /\ x \in TableType /\ TableInv(x, os) /\ Retiring(x) /\ ClaimsOk(x, os) /\ OneAlive(os)
      /\ os \in OsType /\ x.launcher \in LauncherType /\ x.ops \in Seq(Receipt) /\ w \in WorkerType
      /\ TableOk(x)
  BY DEF WholeInv, TableInv, TableOk, TableType, LauncherType
<1>2. X.launcher = x.launcher /\ X.ops = x.ops /\ X \in TableType /\ TableInv(X, os)
  <2>1. TableInv(X, os)
    BY <1>1, StoppedKeeps
  <2>2. X.launcher = x.launcher /\ X.ops = x.ops
    BY <1>1 DEF StoppedTables, TableType
  <2> QED
    BY <2>1, <2>2 DEF TableInv, TableOk
<1>3. z.launcher = x.launcher /\ Len(z.ops) = Len(x.ops) /\ TableInv(z, os) /\ z \in TableType
  <2>1. TableInv(z, os) /\ z \in TableType
    BY <1>2, FinishKeeps DEF TableInv, TableOk
  <2> HIDE DEF X
  <2>2. z.launcher = x.launcher
    BY <1>2 DEF Finish, TableType
  <2>3. DOMAIN z.ops = DOMAIN X.ops
    BY <1>2 DEF Finish, TableType
  <2>4. z.ops \in Seq(Receipt)
    BY <2>1 DEF TableType
  <2>5. DOMAIN z.ops = 1..Len(z.ops) /\ DOMAIN x.ops = 1..Len(x.ops) /\ Len(z.ops) \in Nat /\ Len(x.ops) \in Nat
    BY <1>1, <2>4
  <2> QED
    BY <1>2, <2>1, <2>2, <2>3, <2>5
<1> HIDE DEF X, z
<1>4. /\ r \in Seq(Receipt) /\ Len(r) = Len(x.ops)
      /\ \A k \in 1..Len(x.ops) : r[k].status # "queued" /\ (r[k].status = "done" => r[k] = z.ops[k])
  <2>1. /\ DOMAIN x.ops = 1..Len(x.ops) /\ Len(x.ops) \in Nat
        /\ \A k \in 1..Len(x.ops) : x.ops[k] \in Receipt /\ z.ops[k] \in Receipt
    <3>1. z.ops \in Seq(Receipt)
      BY <1>3 DEF TableType
    <3> QED
      BY <1>1, <1>3, <3>1
  <2>2. ASSUME NEW k \in 1..Len(x.ops)
        PROVE  /\ [x.ops[k] EXCEPT !.status = "refused"] \in Receipt
               /\ [x.ops[k] EXCEPT !.status = "refused"].status = "refused"
    <3>1. x.ops[k] \in Receipt
      BY <2>1
    <3> QED
      BY <3>1 DEF Receipt
  <2>3. \A k \in 1..Len(x.ops) : r[k] = IF z.ops[k].status = "queued"
                                          THEN [x.ops[k] EXCEPT !.status = "refused"] ELSE z.ops[k]
    BY <2>1
  <2>4. r \in [1..Len(x.ops) -> Receipt]
    BY <2>1, <2>2
  <2> HIDE DEF r
  <2>5. r \in Seq(Receipt) /\ Len(r) = Len(x.ops)
    BY <2>1, <2>4
  <2>6. \A k \in 1..Len(x.ops) : r[k].status # "queued" /\ (r[k].status = "done" => r[k] = z.ops[k])
    BY <2>2, <2>3
  <2> QED
    BY <2>5, <2>6
<1>5. none \in [HostPlugin -> HostOwner \cup {NoOwner}] /\ \A p \in HostPlugin : none[p] = NoOwner
  OBVIOUS
<1>6. y = [z EXCEPT !.owners = none, !.commands = <<>>, !.ops = r]
  BY DEF EndedTables, z, X
<1> HIDE DEF r, none, y, u
<1>7. /\ y.ops = r /\ y.commands = <<>> /\ y.launcher = x.launcher /\ y.owners = none
      /\ y.generations = z.generations /\ y \in TableType
  <2>1. <<>> \in Seq(Operation)
    OBVIOUS
  <2>2. TableType = [ops : Seq(Receipt), commands : Seq(Operation),
                     owners : [HostPlugin -> HostOwner \cup {NoOwner}],
                     generations : [HostPlugin -> 0..MaxGeneration], launcher : LauncherType]
    BY DEF TableType, LauncherType
  <2> QED
    BY <1>3, <1>4, <1>5, <1>6, <2>1, <2>2
<1>8. TableOk(y) /\ OwnersOk(y, os) /\ GenerationsOk(y, os)
  BY <1>1, <1>3, <1>4, <1>5, <1>7, LifecycleConstants DEF TableOk, OwnersOk, TableInv, GenerationsOk
<1>9. \A p \in HostPlugin : LaunchGen(x.owners[p]) = 0
  BY DEF WaitsIn, OwnedIn, LaunchGen
<1>10. /\ Len(x.launcher.requests) = 0 /\ x.launcher.making = NoLaunch
       /\ x.launcher.built = NoLaunch /\ x.launcher.result = NoLaunch
  <2>1. \A l \in Launch : ~Waiting(x, os, l) /\ ~Created(x, l)
    BY <1>9, LifecycleConstants DEF Launch, HostOwner, Generation, Waiting, Created
  <2>2. /\ \A i \in 1..Len(x.launcher.requests) : x.launcher.requests[i] \in Launch
        /\ x.launcher.making \in Launch \cup {NoLaunch} /\ x.launcher.built \in Launch \cup {NoLaunch}
        /\ x.launcher.result \in Launch \cup {NoLaunch} /\ Len(x.launcher.requests) \in Nat
    BY <1>1 DEF LauncherType, Slot
  <2>3. \A i \in 1..Len(x.launcher.requests) : FALSE
    BY <1>1, <2>1, <2>2 DEF TableInv, LaunchesOk
  <2>4. Len(x.launcher.requests) = 0
    BY <2>2, <2>3
  <2> QED
    BY <1>1, <2>1, <2>2, <2>4 DEF TableInv, LaunchesOk
<1>11. LaunchesOk(y, os)
  BY <1>5, <1>7, <1>10 DEF LaunchesOk, InSlot, Requested, LaunchGen
<1>12. CommandsOk(y) /\ HeldOk(y) /\ NoneLost(y)
  BY <1>4, <1>5, <1>7 DEF CommandsOk, HeldOk, NoneLost, StartOf, StopOf
<1>13. StopsOk(y, os)
  <2> SUFFICES ASSUME NEW k \in 1..Len(x.ops), r[k].kind = "stop", r[k].status = "done"
               PROVE  os[r[k].plugin][r[k].generation] = "gone"
    BY <1>4, <1>7 DEF StopsOk
  <2> QED
    BY <1>3, <1>4 DEF TableInv, StopsOk
<1>14. TableInv(y, os)
  BY <1>8, <1>11, <1>12, <1>13 DEF TableInv
<1>15. /\ u \in OsType
       /\ \A p \in HostPlugin, g \in Generation :
            u[p][g] = IF /\ p \in OwnedIn(x) /\ x.owners[p].supervisor /\ x.owners[p].generation = g
                         /\ os[p][g] = "alive" THEN "killed" ELSE os[p][g]
  BY <1>1 DEF OsType, EndedOs, u
<1>16. ProcessesMoved(os, u)
  BY <1>15 DEF ProcessesMoved, Living
<1>17. TableInv(y, u) /\ OneAlive(u)
  BY <1>1, <1>14, <1>16, ProcessesMove
<1>18. Over(y, u)
  <2> SUFFICES ASSUME NEW p \in HostPlugin, NEW g \in Generation, u[p][g] = "alive"
               PROVE  FALSE
    BY <1>5, <1>7 DEF Over
  <2>1. os[p][g] = "alive"
    BY <1>15
  <2>2. SuperGen(x.owners[p]) = g
    BY <1>1, <1>10, <2>1 DEF ClaimsOk, Living, HoldsProcess, InSlot
  <2>3. p \in OwnedIn(x) /\ x.owners[p].supervisor /\ x.owners[p].generation = g
    BY <2>2, LifecycleConstants DEF SuperGen, OwnedIn, Generation
  <2> QED
    BY <1>15, <2>1, <2>3
<1>19. StartsSettled(y)
  BY <1>5, <1>7 DEF StartsSettled, StartOf
<1>20. [w EXCEPT !.phase = "ended"] \in WorkerType /\ [w EXCEPT !.phase = "ended"].phase = "ended"
  BY <1>1 DEF WorkerType
<1> QED
  BY <1>15, <1>17, <1>18, <1>19, <1>20 DEF WholeInv, y, u

-----------------------------------------------------------------------------
(* The specification.                                                          *)
LEMMA Rebuilt ==
  ASSUME NEW z \in TableType
  PROVE  z = [ops |-> z.ops, commands |-> z.commands, owners |-> z.owners,
              generations |-> z.generations, launcher |-> z.launcher]
BY DEF TableType

LEMMA Replaced ==
  ASSUME NEW a, NEW c
  PROVE  [Tables EXCEPT !.ops = a, !.commands = c] =
           [ops |-> a, commands |-> c, owners |-> owners,
            generations |-> generations, launcher |-> launcher]
<1> DEFINE R == [ops : {ops, a}, commands : {commands, c}, owners : {owners},
                 generations : {generations}, launcher : {launcher}]
           y == [Tables EXCEPT !.ops = a, !.commands = c]
<1>1. Tables \in R
  BY DEF Tables
<1>2. /\ y \in R /\ y.ops = a /\ y.commands = c /\ y.owners = owners
      /\ y.generations = generations /\ y.launcher = launcher
  BY <1>1
<1> HIDE DEF y
<1>3. y = [ops |-> y.ops, commands |-> y.commands, owners |-> y.owners,
           generations |-> y.generations, launcher |-> y.launcher]
  BY <1>2
<1> QED
  BY <1>2, <1>3 DEF y

LEMMA BecomeTables ==
  ASSUME NEW z, Become(z), NEW u, NEW w, WholeInv(z, u, w)
  PROVE  WholeInv(Tables', u, w)
<1>1. z \in TableType
  BY DEF WholeInv, TableInv, TableOk
<1>2. Tables' = z
  BY <1>1, Rebuilt DEF Become, Tables
<1> QED
  BY <1>2

LEMMA ProcessesOnly ==
  ASSUME NEW x, NEW s, NEW u, NEW w, WholeInv(x, s, w), u \in OsType, ProcessesMoved(s, u)
  PROVE  WholeInv(x, u, w)
BY ProcessesMove DEF WholeInv

LEMMA HInvInit == LifeInit => HInv
<1> SUFFICES ASSUME LifeInit PROVE HInv
  OBVIOUS
<1>1. /\ Tables.ops = <<>> /\ Tables.commands = <<>>
      /\ Tables.owners = [p \in HostPlugin |-> NoOwner]
      /\ Tables.generations = [p \in HostPlugin |-> 0]
      /\ Tables.launcher = [requests |-> <<>>, making |-> NoLaunch, built |-> NoLaunch,
                            result |-> NoLaunch, stopping |-> FALSE]
  BY DEF LifeInit, Tables
<1>2. /\ \A p \in HostPlugin : Tables.owners[p] = NoOwner
      /\ \A p \in HostPlugin, g \in Generation : os[p][g] = "unborn"
      /\ os \in OsType /\ worker \in WorkerType /\ worker.phase = "running"
  BY DEF LifeInit, Tables, OsType, WorkerType
<1>3. TableOk(Tables)
  <2>1. <<>> \in Seq(Receipt) /\ <<>> \in Seq(Operation) /\ <<>> \in Seq(Launch)
    OBVIOUS
  <2>2. 0 \in 0..MaxGeneration
    BY LifecycleConstants
  <2>3. [p \in HostPlugin |-> 0] \in [HostPlugin -> 0..MaxGeneration]
    BY <2>2
  <2>4. [p \in HostPlugin |-> NoOwner] \in [HostPlugin -> HostOwner \cup {NoOwner}]
    OBVIOUS
  <2>5. Tables \in TableType
    BY <2>1, <2>3, <2>4 DEF LifeInit, Tables, TableType, Slot
  <2> QED
    BY <1>1, <2>5, LifecycleConstants DEF TableOk
<1>4. OwnersOk(Tables, os) /\ GenerationsOk(Tables, os)
  BY <1>2 DEF OwnersOk, GenerationsOk
<1>5. LaunchesOk(Tables, os)
  <2>1. /\ Tables.launcher.requests = <<>> /\ Tables.launcher.making = NoLaunch
        /\ Tables.launcher.built = NoLaunch /\ Tables.launcher.result = NoLaunch
    BY <1>1
  <2> QED
    BY <1>2, <2>1 DEF LaunchesOk, InSlot, Requested, LaunchGen
<1>6. CommandsOk(Tables) /\ HeldOk(Tables) /\ NoneLost(Tables) /\ StopsOk(Tables, os)
  BY <1>1, <1>2 DEF CommandsOk, HeldOk, NoneLost, StopsOk, StartOf, StopOf
<1>7. StartsSettled(Tables) /\ ClaimsOk(Tables, os) /\ OneAlive(os)
  BY <1>2 DEF StartsSettled, ClaimsOk, OneAlive, StartOf, Living
<1> QED
  BY <1>2, <1>3, <1>4, <1>5, <1>6, <1>7 DEF HInv, WholeInv, TableInv

LEMMA HInvCallers ==
  ASSUME HInv,
         \/ \E k \in {"start", "stop"}, p \in HostPlugin, g \in Generation : Admit(k, p, g)
         \/ \E o \in DOMAIN ops : Send(o)
         \/ StopRuntime
  PROVE  HInv'
<1> DEFINE x == Tables
<1>1. /\ WholeInv(x, os, worker) /\ x.ops = ops /\ x.commands = commands
      /\ ops \in Seq(Receipt) /\ worker \in WorkerType
  BY DEF HInv, Tables, WholeInv, TableInv, TableOk, TableType
<1>2. ASSUME NEW k \in {"start", "stop"}, NEW p \in HostPlugin, NEW g \in Generation, Admit(k, p, g)
      PROVE  HInv'
  <2> DEFINE r == [kind |-> k, plugin |-> p, generation |-> g, status |-> "admitted"]
  <2>1. r \in Receipt /\ r.status = "admitted"
    BY DEF Receipt
  <2>2. /\ Len(ops) < MaxOperations /\ os' = os /\ worker' = worker
        /\ ops' = Append(ops, r) /\ commands' = commands /\ owners' = owners
        /\ generations' = generations /\ launcher' = launcher
    BY <1>2 DEF Admit
  <2> HIDE DEF r
  <2>3. Tables' = [x EXCEPT !.ops = Append(@, r)]
    <3> DEFINE a == Append(ops, r)
    <3>1. ops' = a
      BY <2>2
    <3>2. [x EXCEPT !.ops = Append(@, r)] = [x EXCEPT !.ops = a]
      BY DEF Tables
    <3> HIDE DEF a
    <3> QED
      BY <2>2, <3>1, <3>2 DEF Tables
  <2> HIDE DEF x
  <2>4. WholeInv([x EXCEPT !.ops = Append(@, r)], os, worker)
    BY <1>1, <2>1, <2>2, AdmitKeeps
  <2> QED
    BY <2>2, <2>3, <2>4 DEF HInv
<1>3. ASSUME NEW o \in DOMAIN ops, Send(o)
      PROVE  HInv'
  <2>1. o \in 1..Len(x.ops) /\ x.ops[o].status = "admitted" /\ o # Nobody
    BY <1>1, <1>3 DEF Send, Nobody
  <2>2. CASE Len(commands) < COMMAND_QUEUE /\ worker.phase # "ended"
    <3> DEFINE a == [ops EXCEPT ![o].status = "queued"]
               c == Append(commands, o)
    <3>0. /\ ops' = a /\ commands' = c /\ owners' = owners /\ generations' = generations
          /\ launcher' = launcher /\ os' = os /\ worker' = worker
      BY <1>3, <2>2 DEF Send
    <3>1. Tables' = [x EXCEPT !.ops[o].status = "queued", !.commands = Append(x.commands, o)]
      <4>1. [x EXCEPT !.ops[o].status = "queued", !.commands = Append(x.commands, o)]
              = [x EXCEPT !.ops = a, !.commands = c]
        BY DEF Tables
      <4> HIDE DEF a, c
      <4>2. Tables' = [x EXCEPT !.ops = a, !.commands = c]
        BY <3>0, Replaced DEF Tables
      <4> HIDE DEF x
      <4> QED
        BY <4>1, <4>2
    <3>2. WholeInv([x EXCEPT !.ops[o].status = "queued", !.commands = Append(x.commands, o)], os, worker)
      <4> HIDE DEF x
      <4> QED
        BY <1>1, <2>1, <2>2, SendKeeps
    <3> QED
      BY <3>0, <3>1, <3>2 DEF HInv
  <2>3. CASE ~(Len(commands) < COMMAND_QUEUE /\ worker.phase # "ended")
    <3> DEFINE a == [ops EXCEPT ![o].status = "refused"]
    <3>0. /\ ops' = a /\ commands' = commands /\ owners' = owners /\ generations' = generations
          /\ launcher' = launcher /\ os' = os /\ worker' = worker
      BY <1>3, <2>1, <2>3 DEF Send, finish
    <3>1. Tables' = [x EXCEPT !.ops[o].status = "refused", !.commands = x.commands]
      <4>1. [x EXCEPT !.ops[o].status = "refused", !.commands = x.commands]
              = [x EXCEPT !.ops = a, !.commands = commands]
        BY DEF Tables
      <4> HIDE DEF a
      <4>2. Tables' = [x EXCEPT !.ops = a, !.commands = commands]
        BY <3>0, Replaced DEF Tables
      <4> HIDE DEF x
      <4> QED
        BY <4>1, <4>2
    <3>2. WholeInv([x EXCEPT !.ops[o].status = "refused", !.commands = x.commands], os, worker)
      <4> HIDE DEF x
      <4> QED
        BY <1>1, <2>1, SendKeeps
    <3> QED
      BY <3>0, <3>1, <3>2 DEF HInv
  <2> QED
    BY <2>2, <2>3
<1>4. CASE StopRuntime
  <2>1. /\ Tables' = x /\ os' = os
        /\ worker' \in WorkerType /\ worker'.phase = worker.phase
    BY <1>1, <1>4 DEF StopRuntime, Tables, WorkerType
  <2> QED
    BY <1>1, <2>1 DEF HInv, WholeInv
<1> QED
  BY <1>2, <1>3, <1>4

LEMMA HInvEnvironment ==
  ASSUME HInv,
         \/ \E p \in HostPlugin : DeadlinePasses(p) \/ GraceEnds(p)
         \/ \E p \in HostPlugin, g \in Generation : ProcessEnds(p, g)
  PROVE  HInv'
<1> DEFINE x == Tables
<1>1. /\ WholeInv(x, os, worker) /\ x.owners = owners /\ os \in OsType
      /\ owners \in [HostPlugin -> HostOwner \cup {NoOwner}]
  BY DEF HInv, Tables, WholeInv, TableInv, TableOk, TableType
<1>2. ASSUME NEW p \in HostPlugin, DeadlinePasses(p)
      PROVE  HInv'
  <2>1. /\ Tables' = [x EXCEPT !.owners[p].due = "passed"] /\ os' = os /\ worker' = worker
        /\ x.owners[p] # NoOwner /\ x.owners[p].due = "set"
    BY <1>2 DEF DeadlinePasses, Tables, Owned
  <2>2. WholeInv([x EXCEPT !.owners[p].due = "passed"], os, worker)
    <3> HIDE DEF x
    <3> QED
      BY <1>1, <2>1, PassKeeps
  <2> QED
    BY <2>1, <2>2 DEF HInv
<1>3. ASSUME NEW p \in HostPlugin, NEW g \in Generation, NEW to \in {"killed", "gone"},
             os[p][g] \in Living, os' = [os EXCEPT ![p][g] = to],
             Tables' = x, worker' = worker
      PROVE  HInv'
  <2>1. os' \in OsType /\ ProcessesMoved(os, os')
    BY <1>1, <1>3 DEF OsType, ProcessesMoved
  <2> QED
    BY <1>1, <1>3, <2>1, ProcessesOnly DEF HInv
<1>4. ASSUME NEW p \in HostPlugin, GraceEnds(p)
      PROVE  HInv'
  <2>1. owners[p].generation \in Generation
    BY <1>1, <1>4 DEF GraceEnds, Owned, HostOwner
  <2>2. /\ os[p][owners[p].generation] \in Living /\ worker' = worker /\ Tables' = x
        /\ os' = [os EXCEPT ![p][owners[p].generation] = "killed"]
    BY <1>4 DEF GraceEnds, Living, Tables
  <2> QED
    BY <1>3, <2>1, <2>2
<1>5. ASSUME NEW p \in HostPlugin, NEW g \in Generation, ProcessEnds(p, g)
      PROVE  HInv'
  <2>1. /\ os[p][g] \in Living /\ worker' = worker /\ Tables' = x
        /\ os' = [os EXCEPT ![p][g] = "gone"]
    BY <1>5 DEF ProcessEnds, Living, Tables
  <2> QED
    BY <1>3, <2>1
<1> QED
  BY <1>2, <1>4, <1>5

LEMMA HInvLauncher ==
  ASSUME HInv, Takes \/ Creates \/ Delivers
  PROVE  HInv'
<1> DEFINE x == Tables
<1>1. /\ WholeInv(x, os, worker) /\ x.launcher = launcher /\ launcher \in LauncherType
      /\ LaunchesOk(x, os)
  BY DEF HInv, Tables, WholeInv, TableInv, TableOk, TableType, LauncherType
<1>2. CASE Takes
  <2>1. /\ Tables' = [x EXCEPT !.launcher = [x.launcher EXCEPT !.making = Head(x.launcher.requests),
                                                               !.requests = Tail(@)]]
        /\ os' = os /\ worker' = worker
    BY <1>2 DEF Takes, Tables
  <2>2. /\ x.launcher.making = NoLaunch /\ x.launcher.built = NoLaunch
        /\ x.launcher.requests # <<>> /\ worker.phase # "ended"
    BY <1>1, <1>2 DEF Takes
  <2> HIDE DEF x
  <2> QED
    BY <1>1, <2>1, <2>2, TakesKeeps DEF HInv
<1>3. CASE Creates
  <2> DEFINE m == launcher.making
             g == m.owner.generation
             made == [NewOwner(g) EXCEPT !.supervisor = TRUE]
  <2>1. m # NoLaunch /\ worker' = worker /\ g \in Generation
    BY <1>1, <1>3 DEF Creates, LauncherType, Slot, Launch, HostOwner
  <2>2. ASSUME NEW n, Fresh(n, g),
               launcher' = [launcher EXCEPT !.making = NoLaunch, !.built = [plugin |-> m.plugin, owner |-> n]],
               \/ ~n.supervisor /\ os' = os
               \/ n.supervisor /\ os' = [os EXCEPT ![m.plugin][g] = "alive"]
        PROVE  HInv'
    <3>1. Tables' = [x EXCEPT !.launcher = [x.launcher EXCEPT !.making = NoLaunch,
                                !.built = [plugin |-> x.launcher.making.plugin, owner |-> n]]]
      BY <1>3, <2>2 DEF Creates, Tables
    <3>2. WholeInv([x EXCEPT !.launcher = [x.launcher EXCEPT !.making = NoLaunch,
                      !.built = [plugin |-> x.launcher.making.plugin, owner |-> n]]], os', worker)
      <4> HIDE DEF x
      <4> QED
        BY <1>1, <2>1, <2>2, CreatesKeeps
    <3> QED
      BY <2>1, <3>1, <3>2 DEF HInv
  <2>3. /\ Fresh(fail(NewOwner(g)), g) /\ ~fail(NewOwner(g)).supervisor
        /\ Fresh(made, g) /\ made.supervisor
        /\ Fresh(fail(made), g) /\ fail(made).supervisor
    BY <2>1, NewOwnerFresh, FailedFresh
  <2>4. \E n \in {fail(NewOwner(g)), made, fail(made)} :
           /\ launcher' = [launcher EXCEPT !.making = NoLaunch, !.built = [plugin |-> m.plugin, owner |-> n]]
           /\ n = fail(NewOwner(g)) => os' = os
           /\ n # fail(NewOwner(g)) => os' = [os EXCEPT ![m.plugin][g] = "alive"]
    <3>1. \/ /\ launcher' = [launcher EXCEPT !.making = NoLaunch, !.built = [plugin |-> m.plugin, owner |-> fail(NewOwner(g))]]
             /\ os' = os
          \/ /\ os' = [os EXCEPT ![m.plugin][g] = "alive"]
             /\ \/ launcher' = [launcher EXCEPT !.making = NoLaunch, !.built = [plugin |-> m.plugin, owner |-> made]]
                \/ launcher' = [launcher EXCEPT !.making = NoLaunch, !.built = [plugin |-> m.plugin, owner |-> fail(made)]]
      BY <1>3 DEF Creates
    <3>2. made # fail(NewOwner(g)) /\ fail(made) # fail(NewOwner(g))
      BY <2>3
    <3> HIDE DEF made, m, g
    <3> QED
      BY <3>1, <3>2
  <2> HIDE DEF made, m, g
  <2> QED
    BY <2>2, <2>3, <2>4
<1>4. CASE Delivers
  <2> DEFINE b == launcher.built
             n == IF launcher.stopping THEN fail(b.owner) ELSE b.owner
  <2>1. b # NoLaunch /\ launcher.result = NoLaunch /\ worker' = worker /\ os' = os /\ b \in Launch
    BY <1>1, <1>4 DEF Delivers, LauncherType, Slot
  <2>2. [b EXCEPT !.owner = IF launcher.stopping THEN fail(@) ELSE @] = [b EXCEPT !.owner = n]
    BY <2>1 DEF Launch
  <2>3. launcher' = [launcher EXCEPT !.built = NoLaunch, !.result = [b EXCEPT !.owner = n]]
    BY <1>4, <2>2 DEF Delivers
  <2>4. n = b.owner \/ n = fail(b.owner)
    OBVIOUS
  <2> HIDE DEF n
  <2>5. Tables' = [x EXCEPT !.launcher = [x.launcher EXCEPT !.built = NoLaunch,
                                            !.result = [x.launcher.built EXCEPT !.owner = n]]]
    BY <1>4, <2>3 DEF Delivers, Tables
  <2> HIDE DEF x
  <2> QED
    BY <1>1, <2>1, <2>4, <2>5, DeliversKeeps DEF HInv
<1> QED
  BY <1>2, <1>3, <1>4

LEMMA HInvOwnerThread ==
  ASSUME HInv, OwnerThread
  PROVE  HInv'
<1> DEFINE x == Tables
<1>1. WholeInv(x, os, worker) /\ worker \in WorkerType /\ x.owners = owners /\ x.ops = ops
  BY DEF HInv, Tables, WholeInv
<1>2. CASE LoopTurn
  <2>0. PICK y \in Pump(apply(collect(x))), late \in SUBSET HostPlugin :
          \E z \in prune_retired(Finish(y, late)) : Become(z)
    BY <1>2 DEF LoopTurn
  <2>1. PICK z \in prune_retired(Finish(y, late)) : Become(z)
    BY <2>0
  <2>2. worker.phase = "running" /\ os' = os /\ worker' = worker
    BY <1>2 DEF LoopTurn
  <2> HIDE DEF x
  <2>3. WholeInv(z, os, worker)
    BY <1>1, <2>2, LoopTurnKeeps
  <2> QED
    BY <2>1, <2>2, <2>3, BecomeTables DEF HInv
<1>3. CASE StopTurn
  <2>1. PICK y \in Pump(collect(x)), late \in SUBSET HostPlugin : Become(Finish(y, late))
    BY <1>3 DEF StopTurn
  <2>2. worker.phase = "stopping" /\ os' = os /\ worker' = worker
    BY <1>3 DEF StopTurn
  <2> HIDE DEF x
  <2>3. WholeInv(Finish(y, late), os, worker)
    BY <1>1, <2>2, StopTurnKeeps
  <2> QED
    BY <2>1, <2>2, <2>3, BecomeTables DEF HInv
<1>4. CASE Drain
  <2>1. Become(DrainedTables(x))
    BY <1>4 DEF Drain, DrainedTables, Drained, Tables, OwnedIn, Owned
  <2>2. worker.phase = "running" /\ os' = os /\ worker' = [worker EXCEPT !.phase = "stopping"]
    BY <1>4 DEF Drain
  <2> HIDE DEF x
  <2>3. WholeInv(DrainedTables(x), os, [worker EXCEPT !.phase = "stopping"])
    BY <1>1, <2>2, DrainKeeps
  <2> QED
    BY <2>1, <2>2, <2>3, BecomeTables DEF HInv
<1>5. CASE End
  <2>1. Become(EndedTables(x))
    BY <1>5 DEF End, EndedTables, StoppedTables, Tables, OwnedIn, Owned
  <2>2. /\ worker.phase = "stopping" /\ worker' = [worker EXCEPT !.phase = "ended"]
        /\ ~WaitsIn(x) /\ os' = EndedOs(x)
    BY <1>5 DEF End, EndedOs, WaitsIn, Waits, Tables, OwnedIn, Owned
  <2> HIDE DEF x
  <2>3. WholeInv(EndedTables(x), EndedOs(x), [worker EXCEPT !.phase = "ended"])
    BY <1>1, <2>2, EndKeeps
  <2> QED
    BY <2>1, <2>2, <2>3, BecomeTables DEF HInv
<1> QED
  BY <1>2, <1>3, <1>4, <1>5 DEF OwnerThread

LEMMA HInvStep == HInv /\ [LifeNext]_lifeVars => HInv'
<1> SUFFICES ASSUME HInv, [LifeNext]_lifeVars PROVE HInv'
  OBVIOUS
<1>1. CASE UNCHANGED lifeVars
  BY <1>1 DEF lifeVars, HInv, Tables
<1>2. CASE LifeNext
  BY <1>2, HInvCallers, HInvEnvironment, HInvLauncher, HInvOwnerThread DEF LifeNext
<1> QED
  BY <1>1, <1>2

-----------------------------------------------------------------------------
(* What the invariant says of the variables.                                   *)
LEMMA HInvFacts ==
  ASSUME HInv
  PROVE  /\ TableOk(Tables) /\ OwnersOk(Tables, os) /\ LaunchesOk(Tables, os)
         /\ CommandsOk(Tables) /\ HeldOk(Tables) /\ NoneLost(Tables) /\ StopsOk(Tables, os)
         /\ StartsSettled(Tables) /\ OneAlive(os) /\ os \in OsType
         /\ worker.phase = "ended" => Over(Tables, os)
         /\ Tables.ops = ops /\ Tables.commands = commands /\ Tables.owners = owners
         /\ Tables.generations = generations /\ Tables.launcher = launcher
         /\ ops \in Seq(Receipt) /\ commands \in Seq(Operation)
         /\ owners \in [HostPlugin -> HostOwner \cup {NoOwner}]
         /\ generations \in [HostPlugin -> 0..MaxGeneration] /\ launcher \in LauncherType
         /\ Len(commands) <= COMMAND_QUEUE
<1>1. /\ Tables.ops = ops /\ Tables.commands = commands /\ Tables.owners = owners
      /\ Tables.generations = generations /\ Tables.launcher = launcher
  BY DEF Tables
<1> QED
  BY <1>1 DEF HInv, WholeInv, TableInv, TableOk, TableType, LauncherType

LEMMA TypesFollow == HInv => LifeTypeOK
BY HInvFacts DEF LifeTypeOK, OsType

LEMMA LaunchesFollow == HInv => LaunchesClaimed
<1> SUFFICES ASSUME HInv PROVE LaunchesClaimed
  OBVIOUS
<1>1. ASSUME NEW l \in InLauncher
      PROVE  /\ l.plugin \in Owned /\ owners[l.plugin].launching
             /\ owners[l.plugin].generation = l.owner.generation
  <2>1. l \in Launch /\ LaunchGen(owners[l.plugin]) = l.owner.generation
    <3>1. /\ \A i \in DOMAIN launcher.requests : launcher.requests[i] \in Launch
          /\ DOMAIN launcher.requests = 1..Len(launcher.requests)
          /\ launcher.making \in Launch \cup {NoLaunch} /\ launcher.built \in Launch \cup {NoLaunch}
          /\ launcher.result \in Launch \cup {NoLaunch}
      BY HInvFacts DEF LauncherType, Slot
    <3>2. CASE \E i \in DOMAIN launcher.requests : l = launcher.requests[i]
      BY <3>1, <3>2, HInvFacts DEF LaunchesOk, Waiting
    <3>3. CASE l \in {launcher.making, launcher.built, launcher.result} /\ l # NoLaunch
      <4>1. /\ launcher.making # NoLaunch => Waiting(Tables, os, launcher.making)
            /\ launcher.built # NoLaunch => Created(Tables, launcher.built)
            /\ launcher.result # NoLaunch => Created(Tables, launcher.result)
        BY HInvFacts DEF LaunchesOk
      <4>2. l \in Launch
        BY <3>1, <3>3
      <4>3. LaunchGen(Tables.owners[l.plugin]) = l.owner.generation
        BY <3>3, <4>1 DEF Waiting, Created
      <4> QED
        BY <4>2, <4>3, HInvFacts
    <3> QED
      BY <3>2, <3>3 DEF InLauncher
  <2>2. l.owner.generation # 0 /\ l.plugin \in HostPlugin
    BY <2>1, LifecycleConstants DEF Launch, HostOwner, Generation
  <2> QED
    BY <2>1, <2>2 DEF LaunchGen, Owned
<1>2. ASSUME NEW p \in Owned, owners[p].launching
      PROVE  \E l \in InLauncher : l.plugin = p
  <2>1. LaunchGen(owners[p]) # 0 /\ p \in HostPlugin
    BY <1>2, HInvFacts, LifecycleConstants DEF Owned, LaunchGen, HostOwner, Generation
  <2>2. \/ Requested(launcher.requests, p) \/ InSlot(launcher.making, p)
        \/ InSlot(launcher.built, p) \/ InSlot(launcher.result, p)
    BY <2>1, HInvFacts DEF LaunchesOk
  <2>3. DOMAIN launcher.requests = 1..Len(launcher.requests)
    BY HInvFacts DEF LauncherType
  <2> QED
    BY <2>2, <2>3 DEF Requested, InSlot, InLauncher
<1> QED
  BY <1>1, <1>2 DEF LaunchesClaimed

LEMMA SingletonCounted ==
  ASSUME NEW S, \A i, j \in S : i = j, S # {}
  PROVE  Cardinality(S) = 1
<1>1. PICK i : i \in S
  OBVIOUS
<1>2. S = {i}
  BY <1>1
<1> QED
  BY <1>2, FS_Singleton

LEMMA ProcessesFollow == HInv => OneProcess
<1> SUFFICES ASSUME HInv PROVE OneProcess
  OBVIOUS
<1>1. ASSUME NEW p \in HostPlugin
      PROVE  Cardinality({g \in Generation : os[p][g] \in {"alive", "killed"}}) <= 1
  <2> DEFINE S == {g \in Generation : os[p][g] \in {"alive", "killed"}}
  <2>1. \A g, h \in S : g = h
    BY HInvFacts DEF OneAlive, Living
  <2> HIDE DEF S
  <2>2. S = {} \/ Cardinality(S) = 1
    BY <2>1, SingletonCounted
  <2>3. Cardinality(S) <= 1
    BY <2>2, FS_EmptySet
  <2> QED
    BY <2>3 DEF S
<1>2. \A o \in DOMAIN ops : ops[o].kind = "stop" /\ ops[o].status = "done" =>
        os[ops[o].plugin][ops[o].generation] = "gone"
  <2>1. DOMAIN ops = 1..Len(ops)
    BY HInvFacts
  <2> QED
    BY <2>1, HInvFacts DEF StopsOk
<1>3. ASSUME worker.phase = "ended"
      PROVE  /\ \A p \in HostPlugin, g \in Generation : os[p][g] # "alive"
             /\ \A o \in DOMAIN ops : ops[o].status # "queued"
  <2>1. Over(Tables, os) /\ DOMAIN ops = 1..Len(ops)
    BY <1>3, HInvFacts
  <2>2. \A p \in HostPlugin, g \in Generation : os[p][g] # "alive"
    BY <2>1 DEF Over
  <2>3. \A k : ~QueuedIn(Tables, k)
    BY <2>1 DEF Over, QueuedIn
  <2>4. \A p \in HostPlugin : StartOf(owners[p]) = Nobody /\ StopOf(owners[p]) = Nobody
    BY <2>1, HInvFacts DEF Over, StartOf, StopOf
  <2> QED
    BY SMTT(30), <2>1, <2>2, <2>3, <2>4, HInvFacts DEF NoneLost, Nobody
<1> QED
  BY <1>1, <1>2, <1>3 DEF OneProcess

LEMMA HoldersCounted ==
  ASSUME HInv, NEW o \in DOMAIN ops
  PROVE  Holders(o) = IF ops[o].status = "queued" THEN 1 ELSE 0
<1> DEFINE A == {i \in DOMAIN commands : commands[i] = o}
           B == {p \in Owned : owners[p].start = o}
           C == {p \in Owned : owners[p].stop = o}
<1>1. o \in 1..Len(ops) /\ o # Nobody /\ DOMAIN commands = 1..Len(commands)
  BY HInvFacts DEF Nobody
<1>2. /\ QueuedIn(Tables, o) <=> A # {}
      /\ \A i, j \in A : i = j
  BY <1>1, HInvFacts DEF QueuedIn, CommandsOk
<1>3. /\ \A p \in B : p \in HostPlugin /\ IsHeld(Tables, o, "start", p)
      /\ \A p \in C : p \in HostPlugin /\ IsHeld(Tables, o, "stop", p)
  BY <1>1, HInvFacts DEF Owned, HeldOk, StartOf, StopOf
<1>4. /\ \A p, q \in B : p = q
      /\ \A p, q \in C : p = q
      /\ B = {} \/ C = {}
      /\ B # {} \/ C # {} => A = {} /\ ops[o].status = "queued"
  BY <1>2, <1>3, HInvFacts DEF IsHeld
<1>5. A # {} => ops[o].status = "queued"
  BY <1>2, HInvFacts DEF QueuedIn, CommandsOk
<1>6. ops[o].status = "queued" => A # {} \/ B # {} \/ C # {}
  <2> SUFFICES ASSUME ops[o].status = "queued", A = {}
               PROVE  B # {} \/ C # {}
    OBVIOUS
  <2>1. PICK p \in HostPlugin : StartOf(owners[p]) = o \/ StopOf(owners[p]) = o
    BY <1>1, <1>2, HInvFacts DEF NoneLost
  <2>2. p \in Owned /\ (owners[p].start = o \/ owners[p].stop = o)
    BY <1>1, <2>1 DEF StartOf, StopOf, Owned
  <2>3. p \in B \/ p \in C
    BY <2>2
  <2> QED
    BY <2>3
<1>7. Holders(o) = Cardinality(A) + Cardinality(B) + Cardinality(C)
  BY DEF Holders
<1> HIDE DEF A, B, C
<1>8. \A S : (\A i, j \in S : i = j) /\ S # {} => Cardinality(S) = 1
  BY SingletonCounted
<1>9. /\ Cardinality(A) = IF A = {} THEN 0 ELSE 1
      /\ Cardinality(B) = IF B = {} THEN 0 ELSE 1
      /\ Cardinality(C) = IF C = {} THEN 0 ELSE 1
  BY <1>2, <1>4, <1>8, FS_EmptySet
<1> QED
  BY <1>4, <1>5, <1>6, <1>7, <1>9

LEMMA ReceiptsFollow == HInv => ReceiptsHeld
<1> SUFFICES ASSUME HInv PROVE ReceiptsHeld
  OBVIOUS
<1>1. \A p \in Owned : p \in HostPlugin /\ OwnerFine(owners[p])
  BY HInvFacts DEF Owned, OwnersOk
<1>2. \A p \in Owned : owners[p].start # Nobody => owners[p].state # "active"
  BY HInvFacts DEF Owned, StartsSettled, StartOf
<1> QED
  BY <1>1, <1>2, HoldersCounted DEF ReceiptsHeld, OwnerFine

(* Whatever is started, stopped, retired late or never answered, by any number *)
(* of callers of any number of Hosts: every launch is claimed, every receipt   *)
(* held once, no plugin has two processes, and none outlives the runtime       *)
(* (HostRuntime, Worker::run).                                                 *)
THEOREM HostsAreSound == LifeSpec => []HostsSound
<1>1. LifeInit => HInv
  BY HInvInit
<1>2. HInv /\ [LifeNext]_lifeVars => HInv'
  BY HInvStep
<1>3. HInv => HostsSound
  BY TypesFollow, LaunchesFollow, ReceiptsFollow, ProcessesFollow DEF HostsSound
<1> QED
  BY <1>1, <1>2, <1>3, PTL DEF LifeSpec
=============================================================================
