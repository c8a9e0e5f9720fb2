--------------------------- MODULE PluginProcesses ---------------------------
(***************************************************************************)
(* The child processes of one owner: spawning under an operation key, the  *)
(* sequenced writer of standard input, the monitor thread of each process, *)
(* closing, and the owner's retirement.  Calls run on several workers; the *)
(* stdin lock of a process is held from the check of a write to its        *)
(* receipt, every other critical section is one step.                      *)
(*                                                                         *)
(* Bytes are values of Data.  What the child received is recorded in       *)
(* `got`, which the code does not have.                                    *)
(***************************************************************************)
EXTENDS Naturals, FiniteSets, Sequences

CONSTANTS
  Callers,         \* calls in flight at once
  OperationKeys,   \* operation keys
  Params,          \* the parameters of a spawn
  Data,            \* chunks of standard input
  MaxProcesses,    \* bound: processes ever started
  MaxSequence,     \* bound: stdin sequence numbers
  MaxCalls,        \* bound: calls begun
  MAX_ENTRIES      \* processes of one owner: 4

ASSUME ProcAssumption == MaxSequence \in Nat /\ MaxCalls \in Nat

VARIABLES
  table,  \* entries, operations, whether the owner retired, calls begun
  proc,      \* process -> its state, the child's and the monitor's
  caller,    \* caller -> the call it executes
  closer     \* the retirement: processes still to be asked and to be closed

procVars == <<table, proc, caller, closer>>

Processes == 1..MaxProcesses
Sequence0 == 0..MaxSequence
Unborn == [born |-> FALSE, key |-> "none", child |-> "none", kin |-> FALSE, doomed |-> FALSE, zero |-> FALSE,
           stdin |-> FALSE, stop |-> FALSE, closed |-> FALSE, next |-> 0, last |-> << >>, got |-> << >>,
           worker |-> "none", reaped |-> FALSE]

\* A call: what it is, its process, its stdin chunk, how it ended.
NoCall == [at |-> "idle", m |-> "none", p |-> 0, seq |-> 0, data |-> "none", out |-> "none"]

ProcInit ==
  /\ table = [entries |-> {}, operations |-> {}, retired |-> FALSE, calls |-> 0]
  /\ proc = [p \in Processes |-> Unborn]
  /\ caller = [c \in Callers |-> NoCall]
  /\ closer = [ask |-> {}, close |-> {}]

Born == {p \in Processes : proc[p].born}
StdinHeld(p) == \E c \in Callers : caller[c].at = "writing" /\ caller[c].p = p
Started(c) == caller[c].at = "idle" /\ table.calls < MaxCalls
Count == [table EXCEPT !.calls = @ + 1]
Out(c, result) == caller' = [caller EXCEPT ![c].at = "idle", ![c].out = result]
----------------------------------------------------------------------------
(* Spawning.                                                               *)

\* OwnedPluginProcess::spawn: the child starts suspended in its job and runs
\* once it is assigned; a spawn that fails leaves no process.
Child(k) == [Unborn EXCEPT !.born = TRUE, !.key = k, !.child = "running", !.stdin = TRUE, !.worker = "pumps"]

Operation(k) == {o \in table.operations : o.key = k}
Full == Cardinality(table.entries) >= MAX_ENTRIES

\* The whole of processes.spawn holds the state lock: the same key with the same
\* parameters is answered with the original process.
spawn(c, k, params) ==
  /\ Started(c)
  /\ LET again == {o \in Operation(k) : o.params = params}
         p == CHOOSE x \in Processes \ Born : TRUE
     IN \/ /\ ~table.retired /\ again # {}
           /\ caller' = [caller EXCEPT ![c] = [NoCall EXCEPT !.at = "spawned", !.m = "spawn", !.p = (CHOOSE o \in again : TRUE).p]]
           /\ table' = Count /\ UNCHANGED proc
        \/ /\ \/ table.retired
              \/ Operation(k) # {} /\ again = {}
              \/ Operation(k) = {} /\ Full
           /\ caller' = [caller EXCEPT ![c] = [NoCall EXCEPT !.m = "spawn", !.out = "refused"]]
           /\ table' = Count /\ UNCHANGED proc
        \/ /\ ~table.retired /\ Operation(k) = {} /\ ~Full /\ Born # Processes
           /\ proc' = [proc EXCEPT ![p] = Child(k)]
           /\ table' = [Count EXCEPT !.entries = @ \cup {p}, !.operations = @ \cup {[key |-> k, params |-> params, p |-> p]}]
           /\ caller' = [caller EXCEPT ![c] = [NoCall EXCEPT !.at = "spawned", !.m = "spawn", !.p = p]]
  /\ UNCHANGED closer

\* The service answers, or its second check fails and it closes the process it names.
Confirms(c) ==
  /\ caller[c].at = "spawned"
  /\ \/ Out(c, "ok")
     \/ /\ caller[c].p \in table.entries /\ ~table.retired
        /\ caller' = [caller EXCEPT ![c].at = "closes", ![c].m = "rollback"]
     \/ Out(c, "refused") /\ (caller[c].p \notin table.entries \/ table.retired)
  /\ UNCHANGED <<table, proc, closer>>
----------------------------------------------------------------------------
(* Calls on a process.  Each looks the process up under the state lock.    *)

Names(c, p) == Started(c) /\ p \in Born /\ table' = Count
Found(p) == p \in table.entries /\ ~table.retired

\* write under the stdin lock: a repeated sequence is answered from its receipt,
\* any other than the next is refused, and so is a closed process or stdin.
Replays(p, seq) == proc[p].last # << >> /\ proc[p].last[1] = seq

ReceiptOfAny(p, seq, data) == proc[p].last[3]

Receipt(p, seq, data) ==
  IF proc[p].last[2] # data THEN "refused" ELSE proc[p].last[3]

write(c, p, seq, data) ==
  /\ Names(c, p) /\ ~StdinHeld(p)
  /\ LET call == [NoCall EXCEPT !.m = "write", !.p = p, !.seq = seq, !.data = data]
     IN caller' = [caller EXCEPT ![c] =
          IF ~Found(p) THEN [call EXCEPT !.out = "refused"]
          ELSE IF Replays(p, seq) THEN [call EXCEPT !.at = "leaves", !.out = Receipt(p, seq, data)]
          ELSE IF seq # proc[p].next \/ proc[p].closed \/ ~proc[p].stdin THEN [call EXCEPT !.out = "refused"]
          ELSE [call EXCEPT !.at = "writing"]]
  /\ UNCHANGED <<proc, closer>>

\* The bytes are written before the deadline, or the write is not confirmed:
\* then the child may have them or not, stdin closes and the scope is terminated.
Unconfirmed(p) == [proc[p] EXCEPT !.stdin = FALSE, !.stop = TRUE, !.doomed = TRUE]

Written(c) ==
  LET p == caller[c].p
      entry == <<caller[c].seq, caller[c].data>>
      numbered(r, result) == [r EXCEPT !.next = @ + 1, !.last = <<caller[c].seq, caller[c].data, result>>]
  IN /\ caller[c].at = "writing"
     /\ \/ /\ proc[p].child = "running" /\ ~proc[p].stop
           /\ proc' = [proc EXCEPT ![p] = [numbered(proc[p], "ok") EXCEPT !.got = Append(@, entry)]]
           /\ caller' = [caller EXCEPT ![c].at = "leaves", ![c].out = "ok"]
        \/ \E got \in {proc[p].got, Append(proc[p].got, entry)} :
             /\ proc' = [proc EXCEPT ![p] = [numbered(Unconfirmed(p), "unknown") EXCEPT !.got = got]]
             /\ caller' = [caller EXCEPT ![c].at = "leaves", ![c].out = "unknown"]
     /\ UNCHANGED <<table, closer>>

\* Every call ends by looking whether its owner retired meanwhile.
Leaves(c) ==
  /\ caller[c].at = "leaves"
  /\ Out(c, IF table.retired /\ caller[c].out = "ok" THEN "retired" ELSE caller[c].out)
  /\ UNCHANGED <<table, proc, closer>>

endInput(c, p) ==
  /\ Names(c, p) /\ Found(p) /\ ~StdinHeld(p)
  /\ proc' = [proc EXCEPT ![p].stdin = FALSE]
  /\ caller' = [caller EXCEPT ![c] = [NoCall EXCEPT !.at = "leaves", !.m = "endInput", !.p = p, !.out = "ok"]]
  /\ UNCHANGED closer

terminate(c, p) ==
  /\ Names(c, p) /\ Found(p)
  /\ proc' = [proc EXCEPT ![p].stop = TRUE, ![p].doomed = TRUE]
  /\ caller' = [caller EXCEPT ![c] = [NoCall EXCEPT !.at = "leaves", !.m = "terminate", !.p = p, !.out = "ok"]]
  /\ UNCHANGED closer

request_close(p) == [proc EXCEPT ![p].closed = TRUE, ![p].stop = TRUE, ![p].doomed = TRUE]

\* close: the request, the stdin lock, and a bounded wait for the monitor.
close(c, p) ==
  /\ Names(c, p) /\ Found(p)
  /\ caller' = [caller EXCEPT ![c] = [NoCall EXCEPT !.at = "closes", !.m = "close", !.p = p]]
  /\ UNCHANGED <<proc, closer>>

Requests(c) ==
  /\ caller[c].at = "closes"
  /\ proc' = request_close(caller[c].p)
  /\ caller' = [caller EXCEPT ![c].at = "drops"]
  /\ UNCHANGED <<table, closer>>

Drops(c) ==
  /\ caller[c].at = "drops" /\ ~StdinHeld(caller[c].p)
  /\ proc' = [proc EXCEPT ![caller[c].p].stdin = FALSE]
  /\ caller' = [caller EXCEPT ![c].at = "waits"]
  /\ UNCHANGED <<table, closer>>

ProcessComplete(p) == proc[p].worker = "done" /\ proc[p].reaped

\* Only a close that is complete takes the process out of the table.
CloseEnds(c) ==
  LET p == caller[c].p
  IN /\ caller[c].at = "waits"
     /\ IF ProcessComplete(p)
        THEN table' = [table EXCEPT !.entries = @ \ {p}] /\ caller' = [caller EXCEPT ![c].at = "leaves", ![c].out = "ok"]
        ELSE UNCHANGED table /\ Out(c, "incomplete")
     /\ UNCHANGED <<proc, closer>>
----------------------------------------------------------------------------
(* Retirement of the owner.                                                *)

\* The tables are emptied under the lock; then every process is asked to close
\* before the first one is waited for.
RetireOwner ==
  /\ ~table.retired
  /\ table' = [table EXCEPT !.retired = TRUE, !.entries = {}, !.operations = {}]
  /\ closer' = [closer EXCEPT !.ask = table.entries]
  /\ UNCHANGED <<proc, caller>>

AsksProcess(p) ==
  /\ p \in closer.ask
  /\ proc' = request_close(p)
  /\ closer' = [ask |-> closer.ask \ {p}, close |-> closer.close \cup {p}]
  /\ UNCHANGED <<table, caller>>

ClosesProcess(p) ==
  /\ closer.ask = {} /\ p \in closer.close /\ ~StdinHeld(p)
  /\ proc' = [proc EXCEPT ![p].stdin = FALSE]
  /\ closer' = [closer EXCEPT !.close = @ \ {p}]
  /\ UNCHANGED <<table, caller>>
----------------------------------------------------------------------------
(* The child and its monitor thread.                                       *)

\* The child makes descendants, exits by itself, and dies with its job.
Forks(p) ==
  /\ p \in Born /\ proc[p].child = "running" /\ ~proc[p].kin /\ ~proc[p].doomed
  /\ proc' = [proc EXCEPT ![p].kin = TRUE]
  /\ UNCHANGED <<table, caller, closer>>

Exits(p) ==
  /\ p \in Born /\ proc[p].child = "running"
  /\ proc' = [proc EXCEPT ![p].child = "exited"]
  /\ UNCHANGED <<table, caller, closer>>

Dies(p) ==
  /\ p \in Born /\ (proc[p].child = "running" \/ proc[p].kin)
  /\ proc[p].doomed
  /\ proc' = [proc EXCEPT ![p].child = "exited", ![p].kin = FALSE]
  /\ UNCHANGED <<table, caller, closer>>

\* The job reports that its last process is gone; the report may be lost.
ReportsZero(p) ==
  /\ p \in Born /\ proc[p].child = "exited" /\ ~proc[p].kin /\ ~proc[p].zero
  /\ proc' = [proc EXCEPT ![p].zero = TRUE]
  /\ UNCHANGED <<table, caller, closer>>

process_scope_is_empty(p) == proc[p].child = "exited" /\ ~proc[p].kin /\ proc[p].zero

\* The monitor pumps output until it is told to stop, a pipe fails, or the
\* scope is empty; descendants that outlive the child are terminated.
Pumps(p) ==
  /\ proc[p].worker = "pumps"
  /\ proc' = [proc EXCEPT ![p] =
       IF @.stop THEN [@ EXCEPT !.worker = "reaps", !.doomed = TRUE]
       ELSE IF process_scope_is_empty(p) THEN [@ EXCEPT !.worker = "reaps", !.reaped = TRUE]
       ELSE IF @.child = "exited" THEN [@ EXCEPT !.doomed = TRUE]
       ELSE @]
  /\ UNCHANGED <<table, caller, closer>>

PipeFails(p) ==
  /\ proc[p].worker = "pumps" /\ ~proc[p].stop
  /\ proc' = [proc EXCEPT ![p].worker = "reaps", ![p].stop = TRUE, ![p].doomed = TRUE]
  /\ UNCHANGED <<table, caller, closer>>

\* The scope is confirmed empty, or two seconds pass without that.
Reaps(p) ==
  /\ proc[p].worker = "reaps"
  /\ proc' = [proc EXCEPT ![p].worker = "done", ![p].reaped = process_scope_is_empty(p)]
  /\ UNCHANGED <<table, caller, closer>>

ProcNext ==
  \/ RetireOwner
  \/ \E c \in Callers :
       \/ \E k \in OperationKeys, params \in Params : spawn(c, k, params)
       \/ \E p \in Born : \/ \E seq \in Sequence0, data \in Data : write(c, p, seq, data)
                          \/ endInput(c, p) \/ terminate(c, p) \/ close(c, p)
       \/ Confirms(c) \/ Written(c) \/ Leaves(c) \/ Requests(c) \/ Drops(c) \/ CloseEnds(c)
  \/ \E p \in Processes : \/ AsksProcess(p) \/ ClosesProcess(p) \/ Forks(p) \/ Exits(p) \/ Dies(p) \/ ReportsZero(p)
                          \/ Pumps(p) \/ PipeFails(p) \/ Reaps(p)

ProcSpec == ProcInit /\ [][ProcNext]_procVars
----------------------------------------------------------------------------
ProcTypeOK ==
  /\ table.entries \subseteq Born /\ table.calls \in 0..MaxCalls
  /\ \A p \in Processes : proc[p].worker \in {"none", "pumps", "reaps", "done"}
  /\ \A c \in Callers : caller[c].at \in {"idle", "spawned", "writing", "leaves", "closes", "drops", "waits"}

\* A sequence number reaches the child once, in order, whatever calls are
\* repeated; after a write that was not confirmed nothing reaches it any more.
WrittenOnce ==
  \A p \in Born :
    /\ \A i, j \in 1..Len(proc[p].got) : i < j => proc[p].got[i][1] < proc[p].got[j][1]
    /\ \A i \in 1..Len(proc[p].got) : proc[p].got[i][1] < proc[p].next
    /\ proc[p].last # << >> /\ proc[p].last[3] = "unknown" => ~proc[p].stdin /\ proc[p].next = proc[p].last[1] + 1

\* A write answered with success put these bytes, under this number, into the child.
ReceiptsTrue ==
  \A c \in Callers : caller[c].m = "write" /\ caller[c].out = "ok" =>
    \E i \in 1..Len(proc[caller[c].p].got) : proc[caller[c].p].got[i] = <<caller[c].seq, caller[c].data>>

\* A close answered with success left no process of the scope alive.
ClosedMeansGone ==
  \A c \in Callers : caller[c].m \in {"close", "rollback"} /\ caller[c].out = "ok" =>
    proc[caller[c].p].child = "exited" /\ ~proc[caller[c].p].kin /\ proc[caller[c].p].worker = "done"

\* An operation key starts one process in the life of its owner.
OneChildPerKey == \A p, q \in Born : proc[p].key = proc[q].key => p = q

\* Once its owner's retirement has asked every process, each has been told to stop.
RetiredIsStopped ==
  table.retired /\ closer.ask = {} => \A p \in Born : proc[p].stop \/ proc[p].worker = "done" \/ proc[p].reaped

ProcessesSound == ProcTypeOK /\ WrittenOnce /\ ReceiptsTrue /\ ClosedMeansGone /\ OneChildPerKey /\ RetiredIsStopped
=============================================================================
