------------------------ MODULE PluginProcessesProofs -------------------------
(* Proofs about PluginProcesses, for any callers, processes, keys and chunks  *)
(* of standard input.  A call is several steps, so the invariant says what    *)
(* each step of a call still relies on: a writer holds the next number of its *)
(* process, a receipt repeats what the child received, and a process that is  *)
(* not tracked any more is done or has been told to stop.                     *)
(* The second part is about CoreServices: every entry of a table of a service *)
(* is there only while its call can still undo it, its generation owns the    *)
(* services, or a retirement has yet to come to that table.                   *)
EXTENDS PluginProcesses, CoreServices, TLAPS

(* The record of a process, and a call.                                       *)
Chunk == Sequence0 \X Data
ReceiptRecord == Sequence0 \X Data \X {"ok", "unknown"}

ProcRecord ==
    [born : BOOLEAN, key : OperationKeys \cup {"none"}, child : {"none", "running", "exited"},
     kin : BOOLEAN, doomed : BOOLEAN, zero : BOOLEAN, stdin : BOOLEAN, stop : BOOLEAN,
     closed : BOOLEAN, next : Nat, last : {<< >>} \cup ReceiptRecord, got : Seq(Chunk),
     worker : {"none", "pumps", "reaps", "done"}, reaped : BOOLEAN]

Call ==
    [at : {"idle", "spawned", "writing", "leaves", "closes", "drops", "waits"},
     m : {"none", "spawn", "rollback", "write", "endInput", "terminate", "close"},
     p : Processes \cup {0}, seq : Nat, data : Data \cup {"none"},
     out : {"none", "ok", "refused", "unknown", "retired", "incomplete"}]

(* The operations of an owner.                                                *)
OperationRecord == [key : OperationKeys, params : Params, p : Processes]

Types ==
    /\ table \in [entries : SUBSET Processes, operations : SUBSET OperationRecord,
                  retired : BOOLEAN, calls : 0 .. MaxCalls]
    /\ proc \in [Processes -> ProcRecord]
    /\ caller \in [Callers -> Call]
    /\ closer \in [ask : SUBSET Processes, close : SUBSET Processes]

(* The scope of a process whose job reported zero, or whose monitor saw that, *)
(* has neither the child nor a descendant of it.                              *)
Gone(r) == r.child = "exited" /\ ~r.kin
ScopeOK(r) == (r.zero => Gone(r)) /\ (r.reaped => Gone(r) /\ r.zero)

(* What the child received is numbered upwards, below the next number.        *)
Ascends(r) ==
    /\ \A i, j \in 1 .. Len(r.got) : i < j => r.got[i][1] < r.got[j][1]
    /\ \A i \in 1 .. Len(r.got) : r.got[i][1] < r.next

Received(r, entry) == \E i \in 1 .. Len(r.got) : r.got[i] = entry

(* The last receipt is that of the number before the next, and true.          *)
ReceiptOK(r) ==
    r.last # << >> =>
        /\ r.next = r.last[1] + 1
        /\ r.last[3] = "unknown" => ~r.stdin
        /\ r.last[3] = "ok" => Received(r, <<r.last[1], r.last[2]>>)

Sane(r) == ScopeOK(r) /\ Ascends(r) /\ ReceiptOK(r)

(* A call under way names a process that exists and has no result yet.        *)
CallOK(k, born, procs) ==
    /\ k.at # "idle" \/ k.out = "ok" => k.p \in born
    /\ k.at \in {"spawned", "writing", "closes", "drops", "waits"} => k.out = "none"
    /\ k.at = "spawned" => k.m = "spawn"
    /\ k.at \in {"closes", "drops", "waits"} => k.m \in {"close", "rollback"}
    /\ k.at = "writing" => k.m = "write" /\ k.seq \in Sequence0 /\ k.data \in Data
                           /\ k.seq = procs[k.p].next

(* The stdin lock of a process is held by one writer.                         *)
OneWriter ==
    \A c, d \in Callers :
        caller[c].at = "writing" /\ caller[d].at = "writing" /\ caller[c].p = caller[d].p => c = d

(* What a call that succeeded promised.                                       *)
Kept(k, procs) ==
    k.out = "ok" =>
        /\ k.m = "write" => Received(procs[k.p], <<k.seq, k.data>>)
        /\ k.m \in {"close", "rollback"} => Gone(procs[k.p]) /\ procs[k.p].worker = "done"

(* Every process is tracked, or over, or told to stop by the retirement.      *)
Tracked ==
    /\ table.entries \cup closer.ask \cup closer.close \subseteq Born
    /\ \A o \in table.operations : o.p \in Born
    /\ ~table.retired =>
          \A p \in Born : /\ p \in table.entries \/ proc[p].worker = "done"
                          /\ \E o \in table.operations : o.key = proc[p].key
    /\ table.retired =>
          \A p \in Born : p \in closer.ask \/ proc[p].stop \/ proc[p].worker = "done"

PInv ==
    /\ Types
    /\ \A p \in Processes : Sane(proc[p])
    /\ \A c \in Callers : CallOK(caller[c], Born, proc) /\ Kept(caller[c], proc)
    /\ OneWriter
    /\ Tracked
    /\ OneChildPerKey

-----------------------------------------------------------------------------
(* A process that only goes on: its book of standard input stays, what has    *)
(* ended has ended.                                                           *)
Onward(r, s) ==
    /\ s.got = r.got /\ s.last = r.last /\ s.next = r.next /\ s.key = r.key /\ s.born = r.born
    /\ s.stdin => r.stdin
    /\ r.stop => s.stop
    /\ r.worker = "done" => s.worker = "done"
    /\ Gone(r) => Gone(s)

(* Every process goes on, and its scope is what the job reported.             *)
GoOn ==
    /\ proc' \in [Processes -> ProcRecord]
    /\ \A p \in Processes : Onward(proc[p], proc'[p]) /\ ScopeOK(proc'[p])

LEMMA SaneGoesOn == ASSUME NEW r, NEW s, Sane(r), Onward(r, s), ScopeOK(s) PROVE Sane(s)
  BY DEF Sane, Onward, ReceiptOK, Ascends, Received

LEMMA SameProcesses == PInv /\ UNCHANGED proc => GoOn
  BY DEF PInv, Types, GoOn, Onward, Sane

(* One process is changed to a record that goes on.                           *)
LEMMA OneGoesOn ==
    ASSUME PInv, NEW p \in Processes, NEW r \in ProcRecord, proc' = [proc EXCEPT ![p] = r],
           Onward(proc[p], r), ScopeOK(r)
    PROVE  GoOn
  BY DEF PInv, Types, GoOn, Onward, Sane

(* What the steps do to a process.                                            *)
LEMMA Asked ==
    ASSUME PInv, NEW p \in Processes, proc' = request_close(p)
    PROVE  GoOn /\ proc'[p].stop
<1>1. proc[p] \in ProcRecord /\ ScopeOK(proc[p])
  BY DEF PInv, Types, Sane
<1> DEFINE r == [proc[p] EXCEPT !.closed = TRUE, !.stop = TRUE, !.doomed = TRUE]
<1>2. proc' = [proc EXCEPT ![p] = r]
  BY DEF request_close, PInv, Types
<1>3. r \in ProcRecord /\ Onward(proc[p], r) /\ ScopeOK(r) /\ r.stop
  BY <1>1 DEF ProcRecord, Onward, ScopeOK, Gone
<1> HIDE DEF r
<1>4. GoOn
  BY <1>2, <1>3, OneGoesOn
<1> QED
  BY <1>2, <1>3, <1>4 DEF PInv, Types

LEMMA Stopped ==
    ASSUME PInv, NEW p \in Processes, proc' = [proc EXCEPT ![p].stop = TRUE, ![p].doomed = TRUE]
    PROVE  GoOn
<1>1. proc[p] \in ProcRecord /\ ScopeOK(proc[p])
  BY DEF PInv, Types, Sane
<1> DEFINE r == [proc[p] EXCEPT !.stop = TRUE, !.doomed = TRUE]
<1>2. proc' = [proc EXCEPT ![p] = r]
  BY DEF PInv, Types
<1>3. r \in ProcRecord /\ Onward(proc[p], r) /\ ScopeOK(r)
  BY <1>1 DEF ProcRecord, Onward, ScopeOK, Gone
<1> HIDE DEF r
<1> QED
  BY <1>2, <1>3, OneGoesOn

LEMMA InputEnded ==
    ASSUME PInv, NEW p \in Processes, proc' = [proc EXCEPT ![p].stdin = FALSE]
    PROVE  GoOn
<1>1. proc[p] \in ProcRecord /\ ScopeOK(proc[p])
  BY DEF PInv, Types, Sane
<1> DEFINE r == [proc[p] EXCEPT !.stdin = FALSE]
<1>2. proc' = [proc EXCEPT ![p] = r]
  BY DEF PInv, Types
<1>3. r \in ProcRecord /\ Onward(proc[p], r) /\ ScopeOK(r)
  BY <1>1 DEF ProcRecord, Onward, ScopeOK, Gone
<1> HIDE DEF r
<1> QED
  BY <1>2, <1>3, OneGoesOn

(* The child, its job and the monitor.                                        *)
ChildSteps(p) == Forks(p) \/ Exits(p) \/ Dies(p) \/ ReportsZero(p) \/ Pumps(p) \/ PipeFails(p) \/ Reaps(p)

LEMMA ChildGoesOn == ASSUME PInv, NEW p \in Processes, ChildSteps(p) PROVE GoOn
<1>1. proc[p] \in ProcRecord /\ ScopeOK(proc[p]) /\ proc \in [Processes -> ProcRecord]
  BY DEF PInv, Types, Sane
<1> DEFINE Goes(r) == r \in ProcRecord /\ Onward(proc[p], r) /\ ScopeOK(r)
<1>2. ASSUME NEW r, Goes(r), proc' = [proc EXCEPT ![p] = r] PROVE GoOn
  BY <1>2, OneGoesOn
<1>3. CASE Forks(p)
  <2> DEFINE r == [proc[p] EXCEPT !.kin = TRUE]
  <2>1. proc' = [proc EXCEPT ![p] = r] /\ Goes(r)
    BY <1>1, <1>3 DEF Forks, ProcRecord, Onward, ScopeOK, Gone
  <2> QED BY <2>1, <1>2
<1>4. CASE Exits(p)
  <2> DEFINE r == [proc[p] EXCEPT !.child = "exited"]
  <2>1. proc' = [proc EXCEPT ![p] = r] /\ Goes(r)
    BY <1>1, <1>4 DEF Exits, ProcRecord, Onward, ScopeOK, Gone
  <2> QED BY <2>1, <1>2
<1>5. CASE Dies(p)
  <2> DEFINE r == [proc[p] EXCEPT !.child = "exited", !.kin = FALSE]
  <2>1. proc' = [proc EXCEPT ![p] = r] /\ Goes(r)
    BY ZenonT(60), <1>1, <1>5 DEF Dies, ProcRecord, Onward, ScopeOK, Gone
  <2> QED BY <2>1, <1>2
<1>6. CASE ReportsZero(p)
  <2> DEFINE r == [proc[p] EXCEPT !.zero = TRUE]
  <2>1. proc' = [proc EXCEPT ![p] = r] /\ Goes(r)
    BY <1>1, <1>6 DEF ReportsZero, ProcRecord, Onward, ScopeOK, Gone
  <2> QED BY <2>1, <1>2
<1>7. CASE PipeFails(p)
  <2> DEFINE r == [proc[p] EXCEPT !.worker = "reaps", !.stop = TRUE, !.doomed = TRUE]
  <2>1. proc' = [proc EXCEPT ![p] = r] /\ Goes(r)
    BY <1>1, <1>7 DEF PipeFails, ProcRecord, Onward, ScopeOK, Gone
  <2> QED BY <2>1, <1>2
<1>8. CASE Reaps(p)
  <2> DEFINE r == [proc[p] EXCEPT !.worker = "done", !.reaped = process_scope_is_empty(p)]
  <2>1. proc' = [proc EXCEPT ![p] = r] /\ Goes(r)
    BY <1>1, <1>8 DEF Reaps, process_scope_is_empty, ProcRecord, Onward, ScopeOK, Gone
  <2> QED BY <2>1, <1>2
<1>9. CASE Pumps(p)
  <2> DEFINE stops == [proc[p] EXCEPT !.worker = "reaps", !.doomed = TRUE]
             empty == [proc[p] EXCEPT !.worker = "reaps", !.reaped = TRUE]
             lonely == [proc[p] EXCEPT !.doomed = TRUE]
  <2>1. Goes(stops) /\ Goes(lonely) /\ Goes(proc[p])
    BY <1>1, <1>9 DEF Pumps, ProcRecord, Onward, ScopeOK, Gone
  <2>2. process_scope_is_empty(p) => Goes(empty)
    BY <1>1, <1>9 DEF Pumps, process_scope_is_empty, ProcRecord, Onward, ScopeOK, Gone
  <2>3. \E r : proc' = [proc EXCEPT ![p] = r]
               /\ (r = stops \/ r = lonely \/ r = proc[p] \/ (r = empty /\ process_scope_is_empty(p)))
    BY <1>9 DEF Pumps
  <2> HIDE DEF stops, empty, lonely, Goes
  <2> QED BY <2>1, <2>2, <2>3, <1>2
<1> QED
  BY <1>3, <1>4, <1>5, <1>6, <1>7, <1>8, <1>9 DEF ChildSteps

-----------------------------------------------------------------------------
(* Calls.                                                                     *)

(* While processes go on, a call that does not move stays right.              *)
LEMMA CallsStay ==
    ASSUME PInv, GoOn, NEW d \in Callers
    PROVE  CallOK(caller[d], Born', proc') /\ Kept(caller[d], proc')
<1>1. Born' = Born
  BY DEF Born, GoOn, Onward
<1>2. CallOK(caller[d], Born, proc) /\ Kept(caller[d], proc)
  BY DEF PInv
<1>3. Born \subseteq Processes
  BY DEF Born
<1>4. CallOK(caller[d], Born', proc')
  BY <1>1, <1>2, <1>3 DEF CallOK, GoOn, Onward
<1>5. Kept(caller[d], proc')
  BY <1>2, <1>3 DEF CallOK, Kept, GoOn, Onward, Received
<1> QED
  BY <1>4, <1>5

(* A step under which processes go on keeps the invariant, if what it does to *)
(* calls and tables is right.                                                 *)
LEMMA StepKeeps ==
    ASSUME PInv, Types', GoOn, Tracked', OneWriter',
           \A d \in Callers : caller'[d] = caller[d]
                 \/ (CallOK(caller'[d], Born', proc') /\ Kept(caller'[d], proc'))
    PROVE  PInv'
<1>1. \A p \in Processes : Sane(proc'[p])
  BY SaneGoesOn DEF PInv, GoOn
<1>2. \A d \in Callers : CallOK(caller'[d], Born', proc') /\ Kept(caller'[d], proc')
  BY CallsStay
<1>3. OneChildPerKey'
  BY DEF PInv, OneChildPerKey, GoOn, Onward, Born
<1> QED
  BY <1>1, <1>2, <1>3 DEF PInv

LEMMA TrackedStays ==
    ASSUME PInv, GoOn, table' = table \/ table' = Count, closer' = closer
    PROVE  Tracked'
<1>1. /\ table'.entries = table.entries /\ table'.operations = table.operations
      /\ table'.retired = table.retired
  BY DEF Count, PInv, Types
<1>2. Born' = Born /\ Born \subseteq Processes
  BY DEF Born, GoOn, Onward
<1> QED
  BY <1>1, <1>2 DEF PInv, Tracked, GoOn, Onward

(* A call takes a step that leaves the tables of the owner.                   *)
LEMMA CallSteps ==
    ASSUME PInv, GoOn, NEW c \in Callers, NEW k \in Call, caller' = [caller EXCEPT ![c] = k],
           k.at # "writing", CallOK(k, Born', proc'), Kept(k, proc'),
           table' = table \/ (table' = Count /\ table.calls < MaxCalls), closer' = closer
    PROVE  PInv'
<1>1. Types'
  BY ProcAssumption DEF PInv, Types, GoOn, Count
<1>2. OneWriter'
  BY DEF PInv, Types, OneWriter
<1>3. \A d \in Callers : caller'[d] = caller[d]
             \/ (CallOK(caller'[d], Born', proc') /\ Kept(caller'[d], proc'))
  BY DEF PInv, Types
<1> QED
  BY <1>1, <1>2, <1>3, TrackedStays, StepKeeps

LEMMA ChildKeeps == ASSUME PInv, NEW p \in Processes, ChildSteps(p) PROVE PInv'
<1>1. GoOn
  BY ChildGoesOn
<1>2. UNCHANGED <<table, caller, closer>>
  BY DEF ChildSteps, Forks, Exits, Dies, ReportsZero, Pumps, PipeFails, Reaps
<1>3. Types' /\ OneWriter'
  BY <1>1, <1>2 DEF PInv, Types, OneWriter, GoOn
<1> QED
  BY <1>1, <1>2, <1>3, TrackedStays, StepKeeps

LEMMA StutterKeeps == PInv /\ UNCHANGED procVars => PInv'
<1> SUFFICES ASSUME PInv, UNCHANGED procVars PROVE PInv'
  OBVIOUS
<1>1. GoOn
  BY SameProcesses DEF procVars
<1>2. Types' /\ OneWriter'
  BY DEF PInv, Types, OneWriter, procVars
<1> QED
  BY <1>1, <1>2, TrackedStays, StepKeeps DEF procVars

(* The facts about a call and its process that the steps of a call start from. *)
LEMMA CallFacts ==
    ASSUME PInv, NEW c \in Callers
    PROVE  /\ caller[c] \in Call /\ caller \in [Callers -> Call]
           /\ CallOK(caller[c], Born, proc) /\ Kept(caller[c], proc)
  BY DEF PInv, Types

LEMMA SameBorn == GoOn => Born' = Born
  BY DEF GoOn, Onward, Born

LEMMA ConfirmsKeeps == ASSUME PInv, NEW c \in Callers, Confirms(c) PROVE PInv'
<1>1. GoOn /\ UNCHANGED <<table, closer, proc>> /\ Born' = Born
  BY SameProcesses, SameBorn DEF Confirms
<1>2. caller[c].at = "spawned" /\ caller[c].m = "spawn" /\ caller[c].p \in Born /\ caller[c].out = "none"
  BY CallFacts DEF Confirms, CallOK
<1>3. PICK k \in {[caller[c] EXCEPT !.at = "idle", !.out = "ok"], [caller[c] EXCEPT !.at = "idle", !.out = "refused"],
                  [caller[c] EXCEPT !.at = "closes", !.m = "rollback"]} :
        caller' = [caller EXCEPT ![c] = k]
  BY CallFacts DEF Confirms, Out
<1>4. k \in Call /\ k.at # "writing" /\ CallOK(k, Born, proc) /\ Kept(k, proc)
  BY ZenonT(60), <1>2, CallFacts DEF Call, CallOK, Kept
<1> QED
  BY <1>1, <1>3, <1>4, CallSteps

LEMMA LeavesKeeps == ASSUME PInv, NEW c \in Callers, Leaves(c) PROVE PInv'
<1>1. GoOn /\ UNCHANGED <<table, closer, proc>> /\ Born' = Born
  BY SameProcesses, SameBorn DEF Leaves
<1>2. PICK result \in {"retired", caller[c].out} :
        caller' = [caller EXCEPT ![c] = [caller[c] EXCEPT !.at = "idle", !.out = result]]
  BY CallFacts DEF Leaves, Out
<1> DEFINE k == [caller[c] EXCEPT !.at = "idle", !.out = result]
<1>3. k \in Call /\ k.at # "writing" /\ CallOK(k, Born, proc) /\ Kept(k, proc)
  BY ZenonT(60), CallFacts DEF Call, CallOK, Kept, Leaves
<1> HIDE DEF k
<1> QED
  BY <1>1, <1>2, <1>3, CallSteps DEF k

LEMMA endInputKeeps == ASSUME PInv, NEW c \in Callers, NEW p \in Born, endInput(c, p) PROVE PInv'
<1>0. p \in Processes
  BY DEF Born
<1>1. GoOn /\ Born' = Born
  BY <1>0, InputEnded, SameBorn DEF endInput
<1> DEFINE k == [NoCall EXCEPT !.at = "leaves", !.m = "endInput", !.p = p, !.out = "ok"]
<1>2. k \in Call /\ k.at # "writing" /\ CallOK(k, Born', proc') /\ Kept(k, proc')
  BY <1>0, <1>1 DEF NoCall, Call, CallOK, Kept
<1>3. caller' = [caller EXCEPT ![c] = k] /\ table' = Count /\ table.calls < MaxCalls /\ closer' = closer
  BY DEF endInput, Names, Started
<1> HIDE DEF k
<1> QED
  BY <1>1, <1>2, <1>3, CallSteps

LEMMA terminateKeeps == ASSUME PInv, NEW c \in Callers, NEW p \in Born, terminate(c, p) PROVE PInv'
<1>0. p \in Processes
  BY DEF Born
<1>1. GoOn /\ Born' = Born
  BY <1>0, Stopped, SameBorn DEF terminate
<1> DEFINE k == [NoCall EXCEPT !.at = "leaves", !.m = "terminate", !.p = p, !.out = "ok"]
<1>2. k \in Call /\ k.at # "writing" /\ CallOK(k, Born', proc') /\ Kept(k, proc')
  BY <1>0, <1>1 DEF NoCall, Call, CallOK, Kept
<1>3. caller' = [caller EXCEPT ![c] = k] /\ table' = Count /\ table.calls < MaxCalls /\ closer' = closer
  BY DEF terminate, Names, Started
<1> HIDE DEF k
<1> QED
  BY <1>1, <1>2, <1>3, CallSteps

LEMMA closeKeeps == ASSUME PInv, NEW c \in Callers, NEW p \in Born, close(c, p) PROVE PInv'
<1>0. p \in Processes
  BY DEF Born
<1>1. GoOn /\ Born' = Born
  BY SameProcesses, SameBorn DEF close
<1> DEFINE k == [NoCall EXCEPT !.at = "closes", !.m = "close", !.p = p]
<1>2. k \in Call /\ k.at # "writing" /\ CallOK(k, Born', proc') /\ Kept(k, proc')
  BY <1>0, <1>1 DEF NoCall, Call, CallOK, Kept
<1>3. caller' = [caller EXCEPT ![c] = k] /\ table' = Count /\ table.calls < MaxCalls /\ closer' = closer
  BY DEF close, Names, Started
<1> HIDE DEF k
<1> QED
  BY <1>1, <1>2, <1>3, CallSteps

LEMMA RequestsKeeps == ASSUME PInv, NEW c \in Callers, Requests(c) PROVE PInv'
<1>1. /\ caller[c].p \in Born /\ caller[c].out = "none" /\ caller[c].m \in {"close", "rollback"}
      /\ caller[c].p \in Processes
  BY CallFacts DEF Requests, CallOK, Born
<1>2. GoOn /\ Born' = Born
  BY <1>1, Asked, SameBorn DEF Requests
<1> DEFINE k == [caller[c] EXCEPT !.at = "drops"]
<1>3. k \in Call /\ k.at # "writing" /\ CallOK(k, Born', proc') /\ Kept(k, proc')
  BY <1>1, <1>2, CallFacts DEF Call, CallOK, Kept
<1>4. caller' = [caller EXCEPT ![c] = k] /\ table' = table /\ closer' = closer
  BY CallFacts DEF Requests
<1> HIDE DEF k
<1> QED
  BY <1>2, <1>3, <1>4, CallSteps

LEMMA DropsKeeps == ASSUME PInv, NEW c \in Callers, Drops(c) PROVE PInv'
<1>1. /\ caller[c].p \in Born /\ caller[c].out = "none" /\ caller[c].m \in {"close", "rollback"}
      /\ caller[c].p \in Processes
  BY CallFacts DEF Drops, CallOK, Born
<1>2. GoOn /\ Born' = Born
  BY <1>1, InputEnded, SameBorn DEF Drops
<1> DEFINE k == [caller[c] EXCEPT !.at = "waits"]
<1>3. k \in Call /\ k.at # "writing" /\ CallOK(k, Born', proc') /\ Kept(k, proc')
  BY <1>1, <1>2, CallFacts DEF Call, CallOK, Kept
<1>4. caller' = [caller EXCEPT ![c] = k] /\ table' = table /\ closer' = closer
  BY CallFacts DEF Drops
<1> HIDE DEF k
<1> QED
  BY <1>2, <1>3, <1>4, CallSteps

(* The process leaves the table only when it is over.                         *)
LEMMA CloseEndsKeeps == ASSUME PInv, NEW c \in Callers, CloseEnds(c) PROVE PInv'
<1> DEFINE p == caller[c].p
<1>1. /\ p \in Born /\ p \in Processes /\ caller[c].out = "none"
      /\ caller[c].m \in {"close", "rollback"}
  BY CallFacts DEF CloseEnds, CallOK, Born
<1>2. GoOn /\ Born' = Born /\ UNCHANGED <<proc, closer>>
  BY SameProcesses, SameBorn DEF CloseEnds
<1>3. CASE ~ProcessComplete(p)
  <2> DEFINE k == [caller[c] EXCEPT !.at = "idle", !.out = "incomplete"]
  <2>1. k \in Call /\ k.at # "writing" /\ CallOK(k, Born', proc') /\ Kept(k, proc')
    BY ZenonT(60), <1>1, <1>2, CallFacts DEF Call, CallOK, Kept
  <2>2. caller' = [caller EXCEPT ![c] = k] /\ table' = table
    BY <1>3, CallFacts DEF CloseEnds, Out
  <2> HIDE DEF k
  <2> QED
    BY <1>2, <2>1, <2>2, CallSteps
<1>4. CASE ProcessComplete(p)
  <2> DEFINE k == [caller[c] EXCEPT !.at = "leaves", !.out = "ok"]
  <2>1. Gone(proc[p]) /\ proc[p].worker = "done"
    BY <1>1, <1>4 DEF ProcessComplete, PInv, Sane, ScopeOK
  <2>2. k \in Call /\ k.at # "writing" /\ CallOK(k, Born', proc') /\ Kept(k, proc')
    BY ZenonT(60), <1>1, <1>2, <2>1, CallFacts DEF Call, CallOK, Kept
  <2>3. caller' = [caller EXCEPT ![c] = k] /\ table' = [table EXCEPT !.entries = @ \ {p}]
    BY <1>4, CallFacts DEF CloseEnds
  <2> HIDE DEF k
  <2>4. Types'
    BY <1>2, <2>2, <2>3 DEF PInv, Types
  <2>5. OneWriter'
    BY <2>2, <2>3 DEF PInv, Types, OneWriter
  <2>6. Tracked'
    BY <1>1, <1>2, <2>1, <2>3 DEF PInv, Types, Tracked
  <2>7. \A d \in Callers : caller'[d] = caller[d]
               \/ (CallOK(caller'[d], Born', proc') /\ Kept(caller'[d], proc'))
    BY <2>2, <2>3 DEF PInv, Types
  <2> QED
    BY <1>2, <2>4, <2>5, <2>6, <2>7, StepKeeps
<1> QED
  BY <1>3, <1>4

(* A repeated write is answered as the first one was; a new one takes the     *)
(* stdin lock with the next number.                                           *)
LEMMA writeKeeps ==
    ASSUME PInv, NEW c \in Callers, NEW p \in Born, NEW seq \in Sequence0, NEW data \in Data,
           write(c, p, seq, data)
    PROVE  PInv'
<1>0. p \in Processes /\ seq \in Nat
  BY ProcAssumption DEF Born, Sequence0
<1>1. GoOn /\ Born' = Born /\ UNCHANGED <<proc, closer>> /\ table' = Count /\ table.calls < MaxCalls
  BY SameProcesses, SameBorn DEF write, Names, Started
<1> DEFINE call == [NoCall EXCEPT !.m = "write", !.p = p, !.seq = seq, !.data = data]
           refused == [call EXCEPT !.out = "refused"]
           answered == [call EXCEPT !.at = "leaves", !.out = Receipt(p, seq, data)]
           writing == [call EXCEPT !.at = "writing"]
<1>2. \/ caller' = [caller EXCEPT ![c] = refused]
      \/ Replays(p, seq) /\ caller' = [caller EXCEPT ![c] = answered]
      \/ seq = proc[p].next /\ caller' = [caller EXCEPT ![c] = writing]
  BY DEF write
<1>3. CASE caller' = [caller EXCEPT ![c] = refused]
  <2>1. refused \in Call /\ refused.at # "writing" /\ CallOK(refused, Born', proc') /\ Kept(refused, proc')
    BY <1>0, <1>1 DEF NoCall, Call, CallOK, Kept
  <2> HIDE DEF refused
  <2> QED
    BY <1>1, <1>3, <2>1, CallSteps
<1>4. CASE Replays(p, seq) /\ caller' = [caller EXCEPT ![c] = answered]
  <2>1. proc[p].last \in ReceiptRecord /\ ReceiptOK(proc[p])
    BY <1>0, <1>4 DEF PInv, Types, ProcRecord, Sane, Replays
  <2>2. Receipt(p, seq, data) \in {"ok", "unknown", "refused"}
    BY <2>1 DEF Receipt, ReceiptRecord
  <2>3. Receipt(p, seq, data) = "ok" => Received(proc[p], <<seq, data>>)
    BY <1>4, <2>1 DEF Receipt, Replays, ReceiptOK
  <2>4. answered \in Call /\ answered.at # "writing" /\ CallOK(answered, Born', proc')
    BY <1>0, <1>1, <2>2 DEF NoCall, Call, CallOK
  <2>5. Kept(answered, proc')
    BY <1>0, <1>1, <2>3 DEF NoCall, Kept
  <2> HIDE DEF answered
  <2> QED
    BY <1>1, <1>4, <2>4, <2>5, CallSteps
<1>5. CASE seq = proc[p].next /\ caller' = [caller EXCEPT ![c] = writing]
  <2>1. writing \in Call /\ CallOK(writing, Born', proc') /\ Kept(writing, proc') /\ writing.p = p
    BY <1>0, <1>1, <1>5 DEF NoCall, Call, CallOK, Kept
  <2> HIDE DEF writing
  <2>2. Types'
    BY <1>1, <1>5, <2>1, ProcAssumption DEF PInv, Types, Count
  <2>3. OneWriter'
    BY <1>5, <2>1 DEF PInv, Types, OneWriter, write, StdinHeld
  <2>4. \A d \in Callers : caller'[d] = caller[d]
               \/ (CallOK(caller'[d], Born', proc') /\ Kept(caller'[d], proc'))
    BY <1>5, <2>1 DEF PInv, Types
  <2> QED
    BY <1>1, <2>2, <2>3, <2>4, TrackedStays, StepKeeps
<1> QED
  BY <1>2, <1>3, <1>4, <1>5

LEMMA AppendFacts ==
    ASSUME NEW S, NEW g \in Seq(S), NEW e \in S
    PROVE  /\ Append(g, e) \in Seq(S) /\ Len(g) \in Nat /\ Len(Append(g, e)) = Len(g) + 1
           /\ \A i \in 1 .. Len(g) : Append(g, e)[i] = g[i]
           /\ Append(g, e)[Len(g) + 1] = e
  OBVIOUS

(* What the child receives under the next number keeps its book.              *)
LEMMA BookGrows ==
    ASSUME NEW r \in ProcRecord, Ascends(r), NEW e \in Chunk, e[1] = r.next,
           NEW s \in ProcRecord, s.got = r.got \/ s.got = Append(r.got, e), s.next = r.next + 1
    PROVE  /\ Ascends(s)
           /\ \A old : Received(r, old) => Received(s, old)
           /\ s.got = Append(r.got, e) => Received(s, e)
<1>1. r.got \in Seq(Chunk) /\ r.next \in Nat /\ Len(r.got) \in Nat
  BY DEF ProcRecord
<1>2. \A i \in 1 .. Len(r.got) : r.got[i] \in Chunk /\ r.got[i][1] \in Nat
  BY <1>1, ProcAssumption DEF Chunk, Sequence0
<1>3. CASE s.got = r.got
  <2>1. Ascends(s) /\ \A old : Received(r, old) => Received(s, old)
    BY <1>1, <1>2, <1>3 DEF Ascends, Received
  <2>2. s.got # Append(r.got, e)
    BY <1>1, <1>3, AppendFacts
  <2> QED
    BY <2>1, <2>2
<1>4. CASE s.got = Append(r.got, e)
  <2> DEFINE g == s.got
  <2>1. /\ Len(g) = Len(r.got) + 1 /\ \A i \in 1 .. Len(r.got) : g[i] = r.got[i]
        /\ g[Len(r.got) + 1] = e
    BY <1>1, <1>4, AppendFacts
  <2> HIDE DEF g
  <2>2. ASSUME NEW i \in 1 .. Len(g) PROVE g[i][1] \in Nat /\ g[i][1] < s.next
    <3>1. CASE i = Len(r.got) + 1
      BY <1>1, <2>1, <3>1
    <3>2. CASE i # Len(r.got) + 1
      <4>1. i \in 1 .. Len(r.got)
        BY <1>1, <2>1, <3>2
      <4> QED
        BY <1>1, <1>2, <2>1, <4>1 DEF Ascends
    <3> QED
      BY <3>1, <3>2
  <2>3. ASSUME NEW i \in 1 .. Len(g), NEW j \in 1 .. Len(g), i < j PROVE g[i][1] < g[j][1]
    <3>0. i \in 1 .. Len(r.got)
      BY <1>1, <2>1, <2>3
    <3>1. CASE j = Len(r.got) + 1
      BY <1>1, <1>2, <2>1, <3>0, <3>1 DEF Ascends
    <3>2. CASE j # Len(r.got) + 1
      <4>1. j \in 1 .. Len(r.got)
        BY <1>1, <2>1, <3>2
      <4> QED
        BY <1>1, <1>2, <2>1, <2>3, <3>0, <4>1 DEF Ascends
    <3> QED
      BY <3>1, <3>2
  <2>4. \A old : Received(r, old) => Received(s, old)
    BY <1>1, <2>1 DEF Received, g
  <2>5. Received(s, e)
    BY <1>1, <2>1 DEF Received, g
  <2> QED
    BY <2>2, <2>3, <2>4, <2>5 DEF Ascends, g
<1> QED
  BY <1>3, <1>4

(* What a write that ended makes of a process: the next number is taken and   *)
(* has its receipt; without a confirmation standard input is closed.          *)
Numbers(r, s, longer, entry, result) ==
    /\ s.got \in {r.got, longer}
    /\ s.next = r.next + 1
    /\ s.last = <<entry[1], entry[2], result>>
    /\ result = "ok" => s.got = longer
    /\ result = "unknown" => ~s.stdin
    /\ s.key = r.key /\ s.born = r.born /\ s.child = r.child /\ s.kin = r.kin /\ s.zero = r.zero
    /\ s.worker = r.worker /\ s.reaped = r.reaped /\ (r.stop => s.stop)

LEMMA Confirmed ==
    ASSUME NEW r \in ProcRecord, NEW seq \in Sequence0, NEW data \in Data, NEW g \in Seq(Chunk)
    PROVE  /\ [r EXCEPT !.next = r.next + 1, !.last = <<seq, data, "ok">>, !.got = g] \in ProcRecord
           /\ Numbers(r, [r EXCEPT !.next = r.next + 1, !.last = <<seq, data, "ok">>, !.got = g],
                      g, <<seq, data>>, "ok")
<1> DEFINE last == <<seq, data, "ok">>
           s == [r EXCEPT !.next = r.next + 1, !.last = last, !.got = g]
<1>1. last \in ReceiptRecord
  BY DEF ReceiptRecord
<1>0. r.next + 1 \in Nat /\ g \in Seq(Chunk)
  BY DEF ProcRecord
<1> HIDE DEF last
<1>2. s \in ProcRecord /\ s.next = r.next + 1 /\ s.last = last /\ s.got = g
  BY <1>0, <1>1 DEF ProcRecord
<1>3. /\ s.key = r.key /\ s.born = r.born /\ s.child = r.child /\ s.kin = r.kin /\ s.zero = r.zero
      /\ s.worker = r.worker /\ s.reaped = r.reaped /\ s.stop = r.stop
  BY DEF ProcRecord
<1> HIDE DEF s
<1>4. s \in ProcRecord /\ Numbers(r, s, g, <<seq, data>>, "ok")
  BY <1>2, <1>3 DEF Numbers, last
<1> QED
  BY <1>4, Zenon DEF s, last

LEMMA NotConfirmed ==
    ASSUME NEW r \in ProcRecord, NEW seq \in Sequence0, NEW data \in Data, NEW longer \in Seq(Chunk),
           NEW g \in {r.got, longer}
    PROVE  /\ [r EXCEPT !.stdin = FALSE, !.stop = TRUE, !.doomed = TRUE, !.next = r.next + 1,
                        !.last = <<seq, data, "unknown">>, !.got = g] \in ProcRecord
           /\ Numbers(r, [r EXCEPT !.stdin = FALSE, !.stop = TRUE, !.doomed = TRUE, !.next = r.next + 1,
                                   !.last = <<seq, data, "unknown">>, !.got = g],
                      longer, <<seq, data>>, "unknown")
<1> DEFINE last == <<seq, data, "unknown">>
           s == [r EXCEPT !.stdin = FALSE, !.stop = TRUE, !.doomed = TRUE, !.next = r.next + 1,
                          !.last = last, !.got = g]
<1>1. last \in ReceiptRecord
  BY DEF ReceiptRecord
<1>0. r.next + 1 \in Nat /\ g \in Seq(Chunk)
  BY DEF ProcRecord
<1> HIDE DEF last
<1>2. s \in ProcRecord /\ s.next = r.next + 1 /\ s.last = last /\ s.got = g /\ ~s.stdin
  BY <1>0, <1>1 DEF ProcRecord
<1>3. /\ s.key = r.key /\ s.born = r.born /\ s.child = r.child /\ s.kin = r.kin /\ s.zero = r.zero
      /\ s.worker = r.worker /\ s.reaped = r.reaped /\ s.stop
  BY DEF ProcRecord
<1> HIDE DEF s
<1>4. s \in ProcRecord /\ Numbers(r, s, longer, <<seq, data>>, "unknown")
  BY <1>2, <1>3 DEF Numbers, last
<1> QED
  BY <1>4, Zenon DEF s, last

(* Such a write keeps the book and the scope of the process.                  *)
LEMMA NumbersSane ==
    ASSUME NEW r \in ProcRecord, NEW s \in ProcRecord, NEW seq \in Sequence0, NEW data \in Data,
           NEW result \in {"ok", "unknown"}, Sane(r), seq = r.next, Numbers(r, s, Append(r.got, <<seq, data>>), <<seq, data>>, result)
    PROVE  /\ Sane(s)
           /\ \A old : Received(r, old) => Received(s, old)
           /\ result = "ok" => Received(s, <<seq, data>>)
<1> DEFINE e == <<seq, data>>
<1>1. e \in Chunk /\ e[1] = seq /\ e[2] = data
  BY DEF Chunk
<1> HIDE DEF e
<1>2. /\ Ascends(s) /\ (\A old : Received(r, old) => Received(s, old))
      /\ s.got = Append(r.got, e) => Received(s, e)
  BY <1>1, BookGrows DEF Sane, Numbers, e
<1>3. ScopeOK(s)
  BY DEF Numbers, Sane, ScopeOK, Gone
<1>4. s.last[1] = seq /\ s.last[2] = data /\ s.last[3] = result
  BY DEF Numbers
<1>5. ReceiptOK(s)
  BY <1>2, <1>4 DEF ReceiptOK, Numbers, e
<1> QED
  BY <1>2, <1>3, <1>5 DEF Sane, Numbers, e

(* The bytes of a write are confirmed, or nothing is written any more.        *)
LEMMA WrittenKeeps == ASSUME PInv, NEW c \in Callers, Written(c) PROVE PInv'
<1> DEFINE p == caller[c].p
           r == proc[p]
           seq == caller[c].seq
           data == caller[c].data
           entry == <<seq, data>>
<1>1. /\ caller[c].at = "writing" /\ caller[c].m = "write" /\ seq \in Sequence0 /\ data \in Data
      /\ seq = r.next /\ p \in Born /\ p \in Processes /\ UNCHANGED <<table, closer>>
  BY CallFacts DEF Written, CallOK, Born
<1>2. r \in ProcRecord /\ Sane(r) /\ entry \in Chunk /\ seq \in Nat /\ r.got \in Seq(Chunk)
  BY <1>1, ProcAssumption DEF PInv, Types, Chunk, ProcRecord
<1> DEFINE Result(s, result) ==
               /\ proc' = [proc EXCEPT ![p] = s]
               /\ caller' = [caller EXCEPT ![c].at = "leaves", ![c].out = result]
               /\ Numbers(r, s, Append(r.got, entry), entry, result)
<1>3. PICK s \in ProcRecord, result \in {"ok", "unknown"} : Result(s, result)
  <2>1. Append(r.got, entry) \in Seq(Chunk)
    BY <1>2, AppendFacts
  <2>2. CASE /\ proc' = [proc EXCEPT ![p] = [[r EXCEPT !.next = r.next + 1, !.last = <<seq, data, "ok">>]
                                                EXCEPT !.got = Append(@, entry)]]
             /\ caller' = [caller EXCEPT ![c].at = "leaves", ![c].out = "ok"]
    <3> DEFINE s == [r EXCEPT !.next = r.next + 1, !.last = <<seq, data, "ok">>, !.got = Append(r.got, entry)]
    <3>1. proc' = [proc EXCEPT ![p] = s]
      BY <2>2, <1>2 DEF ProcRecord
    <3>2. s \in ProcRecord /\ Numbers(r, s, Append(r.got, entry), entry, "ok")
      BY <1>1, <1>2, <2>1, Confirmed
    <3> HIDE DEF s
    <3> QED
      BY <2>2, <3>1, <3>2
  <2>3. ASSUME NEW got \in {r.got, Append(r.got, entry)},
               proc' = [proc EXCEPT ![p] =
                 [[Unconfirmed(p) EXCEPT !.next = @ + 1, !.last = <<seq, data, "unknown">>] EXCEPT !.got = got]],
               caller' = [caller EXCEPT ![c].at = "leaves", ![c].out = "unknown"]
        PROVE  Result([r EXCEPT !.stdin = FALSE, !.stop = TRUE, !.doomed = TRUE, !.next = r.next + 1,
                                !.last = <<seq, data, "unknown">>, !.got = got], "unknown")
               /\ [r EXCEPT !.stdin = FALSE, !.stop = TRUE, !.doomed = TRUE, !.next = r.next + 1,
                            !.last = <<seq, data, "unknown">>, !.got = got] \in ProcRecord
    <3> DEFINE s == [r EXCEPT !.stdin = FALSE, !.stop = TRUE, !.doomed = TRUE, !.next = r.next + 1,
                              !.last = <<seq, data, "unknown">>, !.got = got]
    <3>1. proc' = [proc EXCEPT ![p] = s]
      BY <2>3, <1>2 DEF ProcRecord, Unconfirmed
    <3>2. s \in ProcRecord /\ Numbers(r, s, Append(r.got, entry), entry, "unknown")
      BY <1>1, <1>2, <2>1, NotConfirmed
    <3> HIDE DEF s
    <3>3. Result(s, "unknown") /\ s \in ProcRecord
      BY <2>3, <3>1, <3>2
    <3> QED
      BY <3>3 DEF s
  <2> QED
    <3> HIDE DEF Result
    <3> QED
      BY <2>2, <2>3 DEF Written
<1>4. Born' = Born /\ proc' \in [Processes -> ProcRecord]
  BY <1>1, <1>3 DEF Born, Numbers, PInv, Types
<1>5. Types'
  <2> DEFINE k == [caller[c] EXCEPT !.at = "leaves", !.out = result]
  <2>1. k \in Call
    BY CallFacts DEF Call
  <2>2. caller' = [caller EXCEPT ![c] = k]
    BY <1>3, CallFacts
  <2> HIDE DEF k
  <2>3. caller' \in [Callers -> Call]
    BY <2>1, <2>2, CallFacts
  <2> QED
    BY <1>1, <1>4, <2>3 DEF PInv, Types
<1>6. Sane(s) /\ (\A old : Received(r, old) => Received(s, old)) /\ (result = "ok" => Received(s, entry))
  BY <1>1, <1>2, <1>3, NumbersSane
<1>7. /\ s.key = r.key /\ s.born = r.born /\ s.child = r.child /\ s.kin = r.kin
      /\ s.worker = r.worker /\ (r.stop => s.stop)
  BY <1>3 DEF Numbers
<1>8. \A q \in Processes : Sane(proc'[q])
  BY <1>1, <1>3, <1>6 DEF PInv, Types
<1>9. ASSUME NEW d \in Callers PROVE CallOK(caller'[d], Born', proc') /\ Kept(caller'[d], proc')
  <2>1. CASE d = c
    <3>1. /\ caller'[d].at = "leaves" /\ caller'[d].p = p /\ caller'[d].m = "write"
          /\ caller'[d].out = result /\ caller'[d].seq = seq /\ caller'[d].data = data
      BY <1>1, <1>3, <2>1, CallFacts DEF Call
    <3>2. proc'[p] = s
      BY <1>1, <1>3 DEF PInv, Types
    <3>3. CallOK(caller'[d], Born', proc')
      BY <1>1, <1>4, <3>1 DEF CallOK
    <3>4. Kept(caller'[d], proc')
      BY <1>3, <1>6, <3>1, <3>2 DEF Kept
    <3> QED
      BY <3>3, <3>4
  <2>2. CASE d # c
    <3>1. caller'[d] = caller[d]
      BY <1>3, <2>2 DEF PInv, Types
    <3>2. caller[d].at = "writing" => caller[d].p # p
      BY <1>1, <2>2 DEF PInv, OneWriter
    <3>3. caller[d].p \in Born => caller[d].p \in Processes
      BY DEF Born
    <3>4. \A q \in Processes : q # p => proc'[q] = proc[q]
      BY <1>3 DEF PInv, Types
    <3>5. proc'[p] = s
      BY <1>1, <1>3 DEF PInv, Types
    <3>6. CallOK(caller'[d], Born', proc')
      BY <1>4, <3>1, <3>2, <3>3, <3>4, CallFacts DEF CallOK
    <3>7. Gone(proc[p]) => Gone(proc'[p])
      BY <1>7, <3>5 DEF Gone
    <3>8. CASE caller[d].p = p
      BY <1>6, <1>7, <3>1, <3>5, <3>6, <3>7, <3>8, CallFacts DEF Kept
    <3>9. CASE caller[d].p # p
      BY <3>1, <3>3, <3>4, <3>6, <3>9, CallFacts DEF Kept, CallOK
    <3> QED
      BY <3>8, <3>9
  <2> QED
    BY <2>1, <2>2
<1>10. OneWriter'
  <2>1. \A d \in Callers : caller'[d].at = "writing" => caller'[d] = caller[d]
    BY <1>3, CallFacts DEF Call
  <2> QED
    BY <2>1 DEF PInv, OneWriter
<1>11. Tracked'
  <2>1. \A q \in Processes : /\ proc'[q].key = proc[q].key
                             /\ proc[q].worker = "done" => proc'[q].worker = "done"
                             /\ proc[q].stop => proc'[q].stop
    BY <1>1, <1>3, <1>7 DEF PInv, Types
  <2> QED
    BY <1>1, <1>4, <2>1 DEF PInv, Tracked, Born
<1>12. OneChildPerKey'
  <2>1. \A q \in Processes : proc'[q].key = proc[q].key
    BY <1>1, <1>3, <1>7 DEF PInv, Types
  <2> QED
    BY <1>4, <2>1 DEF PInv, OneChildPerKey, Born
<1> QED
  BY <1>5, <1>8, <1>9, <1>10, <1>11, <1>12 DEF PInv

-----------------------------------------------------------------------------
(* Spawning.                                                                  *)
LEMMA ChildRecord ==
    ASSUME NEW k \in OperationKeys
    PROVE  /\ Child(k) \in ProcRecord /\ Sane(Child(k)) /\ Child(k).born /\ Child(k).key = k
           /\ Child(k).worker = "pumps"
<1>1. << >> \in Seq(Chunk) /\ Len(<< >>) = 0
  OBVIOUS
<1>2. Child(k) \in ProcRecord
  BY <1>1 DEF Child, Unborn, ProcRecord
<1>3. /\ Child(k).born /\ Child(k).key = k /\ Child(k).worker = "pumps" /\ ~Child(k).zero
      /\ ~Child(k).reaped /\ Child(k).last = << >> /\ Child(k).got = << >>
  BY DEF Child, Unborn
<1>4. Sane(Child(k))
  BY <1>1, <1>3 DEF Sane, ScopeOK, Ascends, ReceiptOK
<1> QED
  BY <1>2, <1>3, <1>4

(* The answer to a spawn that was made before, or that is refused.            *)
LEMMA SpawnAnswered ==
    ASSUME PInv, NEW c \in Callers, UNCHANGED <<proc, closer>>, table' = Count, table.calls < MaxCalls,
           \/ caller' = [caller EXCEPT ![c] = [NoCall EXCEPT !.m = "spawn", !.out = "refused"]]
           \/ \E p \in Born : caller' = [caller EXCEPT ![c] = [NoCall EXCEPT !.at = "spawned", !.m = "spawn", !.p = p]]
    PROVE  PInv'
<1>1. GoOn /\ Born' = Born
  BY SameProcesses, SameBorn
<1>2. CASE caller' = [caller EXCEPT ![c] = [NoCall EXCEPT !.m = "spawn", !.out = "refused"]]
  <2> DEFINE k == [NoCall EXCEPT !.m = "spawn", !.out = "refused"]
  <2>1. k \in Call /\ k.at # "writing" /\ CallOK(k, Born', proc') /\ Kept(k, proc')
    BY <1>1 DEF NoCall, Call, CallOK, Kept
  <2> HIDE DEF k
  <2> QED
    BY <1>1, <1>2, <2>1, CallSteps DEF k
<1>3. ASSUME NEW p \in Born,
             caller' = [caller EXCEPT ![c] = [NoCall EXCEPT !.at = "spawned", !.m = "spawn", !.p = p]]
      PROVE  PInv'
  <2> DEFINE k == [NoCall EXCEPT !.at = "spawned", !.m = "spawn", !.p = p]
  <2>1. k \in Call /\ k.at # "writing" /\ CallOK(k, Born', proc') /\ Kept(k, proc')
    BY <1>1 DEF NoCall, Call, CallOK, Kept, Born
  <2> HIDE DEF k
  <2> QED
    BY <1>1, <1>3, <2>1, CallSteps DEF k
<1> QED
  BY <1>2, <1>3

(* A new process, under a key that has none.                                  *)
LEMMA SpawnBirth ==
    ASSUME PInv, NEW c \in Callers, NEW k \in OperationKeys, NEW params \in Params, NEW p \in Processes \ Born,
           ~table.retired, Operation(k) = {}, table.calls < MaxCalls, closer' = closer,
           proc' = [proc EXCEPT ![p] = Child(k)],
           table' = [Count EXCEPT !.entries = @ \cup {p},
                                  !.operations = @ \cup {[key |-> k, params |-> params, p |-> p]}],
           caller' = [caller EXCEPT ![c] = [NoCall EXCEPT !.at = "spawned", !.m = "spawn", !.p = p]]
    PROVE  PInv'
<1> DEFINE new == [NoCall EXCEPT !.at = "spawned", !.m = "spawn", !.p = p]
           op == [key |-> k, params |-> params, p |-> p]
<1>1. /\ Child(k) \in ProcRecord /\ Sane(Child(k)) /\ Child(k).born /\ Child(k).key = k
      /\ Child(k).worker = "pumps"
  BY ChildRecord
<1>2. /\ proc' \in [Processes -> ProcRecord] /\ proc'[p] = Child(k)
      /\ \A q \in Processes : q # p => proc'[q] = proc[q]
  BY <1>1 DEF PInv, Types
<1>3. Born' = Born \cup {p} /\ p \notin Born /\ Born \subseteq Processes
  BY <1>1, <1>2 DEF Born
<1>4. new \in Call /\ new.at = "spawned" /\ new.m = "spawn" /\ new.p = p /\ new.out = "none"
  BY DEF NoCall, Call
<1>5. op \in OperationRecord /\ op.key = k /\ op.p = p
  BY DEF OperationRecord
<1>6. /\ table'.entries = table.entries \cup {p} /\ table'.operations = table.operations \cup {op}
      /\ table'.retired = table.retired /\ table'.calls = table.calls + 1
      /\ table' \in [entries : SUBSET Processes, operations : SUBSET OperationRecord,
                     retired : BOOLEAN, calls : 0 .. MaxCalls]
  <2> HIDE DEF op
  <2>1. /\ table \in [entries : SUBSET Processes, operations : SUBSET OperationRecord,
                      retired : BOOLEAN, calls : 0 .. MaxCalls]
        /\ table.calls + 1 \in 0 .. MaxCalls
    BY ProcAssumption DEF PInv, Types
  <2>2. table' = [table EXCEPT !.calls = table.calls + 1, !.entries = table.entries \cup {p},
                               !.operations = table.operations \cup {op}]
    BY <2>1 DEF Count, op
  <2>3. table.entries \cup {p} \in SUBSET Processes /\ table.operations \cup {op} \in SUBSET OperationRecord
    BY <1>5, <2>1
  <2> QED
    BY <2>1, <2>2, <2>3
<1> HIDE DEF new, op
<1>7. caller' = [caller EXCEPT ![c] = new]
  BY DEF new
<1>8. Types'
  BY <1>2, <1>4, <1>6, <1>7 DEF PInv, Types
<1>9. \A q \in Processes : Sane(proc'[q])
  BY <1>1, <1>2 DEF PInv
<1>10. ASSUME NEW d \in Callers PROVE CallOK(caller'[d], Born', proc') /\ Kept(caller'[d], proc')
  <2>1. CASE d = c
    BY <1>3, <1>4, <1>7, <2>1, CallFacts DEF CallOK, Kept
  <2>2. CASE d # c
    <3>1. caller'[d] = caller[d]
      BY <1>7, <2>2, CallFacts
    <3>2. caller[d].p \in Born => proc'[caller[d].p] = proc[caller[d].p]
      BY <1>2, <1>3
    <3>3. CallOK(caller[d], Born', proc')
      <4>1. caller[d].at # "idle" \/ caller[d].out = "ok" => caller[d].p \in Born'
        BY <1>3, CallFacts DEF CallOK
      <4>2. caller[d].at = "writing" => proc'[caller[d].p] = proc[caller[d].p]
        BY <3>2, CallFacts DEF CallOK
      <4>3. caller[d].at = "writing" => caller[d].seq = proc'[caller[d].p].next
        BY <4>2, CallFacts DEF CallOK
      <4> QED
        BY <4>1, <4>3, CallFacts DEF CallOK
    <3>4. caller[d].out = "ok" => caller[d].p \in Born
      BY CallFacts DEF CallOK
    <3>5. Kept(caller[d], proc) /\ (caller[d].out = "ok" => proc'[caller[d].p] = proc[caller[d].p])
      BY <3>2, <3>4, CallFacts
    <3>6. Kept(caller[d], proc')
      BY <3>5 DEF Kept
    <3> QED
      BY <3>1, <3>3, <3>6
  <2> QED
    BY <2>1, <2>2
<1>11. OneWriter'
  BY <1>4, <1>7, CallFacts DEF PInv, OneWriter
<1>12. Tracked'
  BY <1>1, <1>2, <1>3, <1>5, <1>6 DEF PInv, Tracked
<1>13. OneChildPerKey'
  <2>1. \A q \in Born : proc[q].key # k
    BY DEF PInv, Tracked, Operation
  <2> QED
    BY <1>1, <1>2, <1>3, <2>1 DEF PInv, OneChildPerKey
<1> QED
  BY <1>8, <1>9, <1>10, <1>11, <1>12, <1>13 DEF PInv

LEMMA spawnKeeps ==
    ASSUME PInv, NEW c \in Callers, NEW k \in OperationKeys, NEW params \in Params, spawn(c, k, params)
    PROVE  PInv'
<1> DEFINE again == {o \in Operation(k) : o.params = params}
           q == (CHOOSE o \in again : TRUE).p
           p == CHOOSE x \in Processes \ Born : TRUE
<1>1. closer' = closer /\ table.calls < MaxCalls
  BY DEF spawn, Started
<1>2. CASE /\ ~table.retired /\ again # {}
           /\ caller' = [caller EXCEPT ![c] = [NoCall EXCEPT !.at = "spawned", !.m = "spawn", !.p = q]]
           /\ table' = Count /\ UNCHANGED proc
  <2>1. (CHOOSE o \in again : TRUE) \in again
    BY <1>2
  <2>2. q \in Born
    BY <2>1 DEF Operation, PInv, Tracked
  <2> HIDE DEF q
  <2> QED
    BY <1>1, <1>2, <2>2, SpawnAnswered
<1>3. CASE /\ caller' = [caller EXCEPT ![c] = [NoCall EXCEPT !.m = "spawn", !.out = "refused"]]
           /\ table' = Count /\ UNCHANGED proc
  BY <1>1, <1>3, SpawnAnswered
<1>4. CASE /\ ~table.retired /\ Operation(k) = {} /\ ~Full /\ Born # Processes
           /\ proc' = [proc EXCEPT ![p] = Child(k)]
           /\ table' = [Count EXCEPT !.entries = @ \cup {p},
                                     !.operations = @ \cup {[key |-> k, params |-> params, p |-> p]}]
           /\ caller' = [caller EXCEPT ![c] = [NoCall EXCEPT !.at = "spawned", !.m = "spawn", !.p = p]]
  <2>1. p \in Processes \ Born
    BY <1>4 DEF Born
  <2> HIDE DEF p
  <2> QED
    BY <1>1, <1>4, <2>1, SpawnBirth
<1> QED
  BY <1>2, <1>3, <1>4 DEF spawn

-----------------------------------------------------------------------------
(* Retirement of the owner.  No call moves in these steps.                    *)
LEMMA RetirementKeeps ==
    ASSUME PInv, GoOn, Types', Tracked', UNCHANGED caller
    PROVE  PInv'
<1>1. OneWriter'
  BY DEF PInv, OneWriter
<1> QED
  BY <1>1, StepKeeps

LEMMA RetireOwnerKeeps == ASSUME PInv, RetireOwner PROVE PInv'
<1>1. GoOn /\ Born' = Born /\ UNCHANGED <<proc, caller>>
  BY SameProcesses, SameBorn DEF RetireOwner
<1>2. /\ table'.retired /\ table'.entries = {} /\ table'.operations = {}
      /\ closer'.ask = table.entries /\ closer'.close = closer.close
  BY DEF RetireOwner, PInv, Types
<1>3. Types'
  BY <1>1 DEF RetireOwner, PInv, Types
<1>4. Tracked'
  BY <1>1, <1>2 DEF RetireOwner, PInv, Tracked
<1> QED
  BY <1>1, <1>3, <1>4, RetirementKeeps

LEMMA AsksProcessKeeps == ASSUME PInv, NEW p \in Processes, AsksProcess(p) PROVE PInv'
<1>1. GoOn /\ proc'[p].stop /\ Born' = Born /\ UNCHANGED <<table, caller>>
  BY Asked, SameBorn DEF AsksProcess
<1>2. closer'.ask = closer.ask \ {p} /\ closer'.close = closer.close \cup {p} /\ p \in closer.ask
  BY DEF AsksProcess
<1>3. Types'
  BY <1>1 DEF AsksProcess, PInv, Types, GoOn
<1>4. Tracked'
  <2>1. Born \subseteq Processes
    BY DEF Born
  <2> QED
    BY <1>1, <1>2, <2>1 DEF PInv, Tracked, GoOn, Onward
<1> QED
  BY <1>1, <1>3, <1>4, RetirementKeeps

LEMMA ClosesProcessKeeps == ASSUME PInv, NEW p \in Processes, ClosesProcess(p) PROVE PInv'
<1>1. GoOn /\ Born' = Born /\ UNCHANGED <<table, caller>>
  BY InputEnded, SameBorn DEF ClosesProcess
<1>2. closer'.ask = closer.ask /\ closer'.close = closer.close \ {p}
  BY DEF ClosesProcess, PInv, Types
<1>3. Types'
  BY <1>1, <1>2 DEF ClosesProcess, PInv, Types, GoOn
<1>4. Tracked'
  <2>1. Born \subseteq Processes
    BY DEF Born
  <2> QED
    BY <1>1, <1>2, <2>1 DEF PInv, Tracked, GoOn, Onward
<1> QED
  BY <1>1, <1>3, <1>4, RetirementKeeps

-----------------------------------------------------------------------------
(* The invariant, and what it says of the reachable states.                   *)
LEMMA InitPInv == ProcInit => PInv
<1> SUFFICES ASSUME ProcInit PROVE PInv
  OBVIOUS
<1>1. << >> \in Seq(Chunk) /\ Len(<< >>) = 0
  OBVIOUS
<1>2. Unborn \in ProcRecord
  BY <1>1 DEF Unborn, ProcRecord
<1>3. ~Unborn.born /\ ~Unborn.zero /\ ~Unborn.reaped /\ Unborn.last = << >> /\ Unborn.got = << >>
  BY DEF Unborn
<1>4. Sane(Unborn)
  BY <1>1, <1>3 DEF Sane, ScopeOK, Ascends, ReceiptOK
<1>5. NoCall \in Call /\ NoCall.at = "idle" /\ NoCall.out = "none"
  BY DEF NoCall, Call
<1>6. Types
  BY <1>2, <1>5, ProcAssumption DEF ProcInit, Types
<1>7. Born = {}
  BY <1>3 DEF ProcInit, Born
<1>8. \A p \in Processes : Sane(proc[p])
  BY <1>4 DEF ProcInit
<1>9. \A c \in Callers : caller[c] = NoCall
  BY DEF ProcInit
<1>10. \A c \in Callers : CallOK(caller[c], Born, proc) /\ Kept(caller[c], proc)
  BY <1>5, <1>9 DEF CallOK, Kept
<1>11. OneWriter
  BY <1>5, <1>9 DEF OneWriter
<1>12. Tracked
  BY <1>7 DEF ProcInit, Tracked
<1>13. OneChildPerKey
  BY <1>7 DEF OneChildPerKey
<1> QED
  BY <1>6, <1>8, <1>10, <1>11, <1>12, <1>13 DEF PInv

LEMMA NextPInv == PInv /\ [ProcNext]_procVars => PInv'
<1> SUFFICES ASSUME PInv, [ProcNext]_procVars PROVE PInv'
  OBVIOUS
<1>1. ASSUME NEW c \in Callers, NEW k \in OperationKeys, NEW params \in Params, spawn(c, k, params)
      PROVE  PInv'
  BY <1>1, spawnKeeps
<1>2. ASSUME NEW c \in Callers, NEW p \in Born, NEW seq \in Sequence0, NEW data \in Data, write(c, p, seq, data)
      PROVE  PInv'
  BY <1>2, writeKeeps
<1>3. ASSUME NEW c \in Callers, NEW p \in Born, endInput(c, p) \/ terminate(c, p) \/ close(c, p)
      PROVE  PInv'
  BY <1>3, endInputKeeps, terminateKeeps, closeKeeps
<1>4. ASSUME NEW c \in Callers,
             Confirms(c) \/ Written(c) \/ Leaves(c) \/ Requests(c) \/ Drops(c) \/ CloseEnds(c)
      PROVE  PInv'
  BY <1>4, ConfirmsKeeps, WrittenKeeps, LeavesKeeps, RequestsKeeps, DropsKeeps, CloseEndsKeeps
<1>5. CASE RetireOwner
  BY <1>5, RetireOwnerKeeps
<1>6. ASSUME NEW p \in Processes, AsksProcess(p) \/ ClosesProcess(p) \/ ChildSteps(p)
      PROVE  PInv'
  BY <1>6, AsksProcessKeeps, ClosesProcessKeeps, ChildKeeps
<1>7. CASE UNCHANGED procVars
  BY <1>7, StutterKeeps
<1> QED
  BY <1>1, <1>2, <1>3, <1>4, <1>5, <1>6, <1>7 DEF ProcNext, ChildSteps

(* What the invariant says of calls, receipts, keys and the retirement.       *)
LEMMA PInvSound == PInv => ProcessesSound
<1> SUFFICES ASSUME PInv PROVE ProcessesSound
  OBVIOUS
<1>0. Born \subseteq Processes
  BY DEF Born
<1>1. ProcTypeOK
  BY DEF PInv, Types, Tracked, ProcTypeOK, ProcRecord, Call
<1>2. WrittenOnce
  BY <1>0 DEF PInv, Sane, Ascends, ReceiptOK, WrittenOnce
<1>3. ReceiptsTrue
  BY DEF PInv, Kept, Received, ReceiptsTrue
<1>4. ClosedMeansGone
  BY DEF PInv, Kept, Gone, ClosedMeansGone
<1>5. RetiredIsStopped
  BY DEF PInv, Tracked, RetiredIsStopped
<1> QED
  BY <1>1, <1>2, <1>3, <1>4, <1>5 DEF PInv, ProcessesSound

(* A sequence number reaches a child at most once and in order, a write that  *)
(* was answered with success is what the child received, a close that         *)
(* succeeded left nothing alive, a key starts one process, and a retirement   *)
(* leaves none that was not told to stop (plugin_process), whatever calls are *)
(* repeated and however their steps interleave.                               *)
THEOREM ProcessesAreSound == ProcSpec => []ProcessesSound
<1>1. ProcSpec => []PInv
  BY InitPInv, NextPInv, PTL DEF ProcSpec
<1> QED
  BY <1>1, PInvSound, PTL

-----------------------------------------------------------------------------
(* The service calls of a plugin.                                            *)

(* The types of the registered owner, ...                                    *)
SvcOwnRecord == [owner : {0} \cup Gens, retired : {0} \cup Gens, trust : Nat, auth : [Gens -> Nat],
              last : Gens, reg : {0} \cup Gens, refused : SUBSET Gens, events : Nat]
(* ... of a call, ...                                                        *)
SvcWorkRecord == [at : Places, m : Methods \cup {"none"}, gen : {0} \cup Gens, doc : BOOLEAN,
               epoch : Nat, dead : BOOLEAN, out : {"none", "ok", "refused", "unknown"}]
(* ... of a renderer document, ...                                           *)
SvcDocumentRecord == [known : BOOLEAN, epoch : Nat, held : SUBSET Calls, ending : SUBSET Calls]
(* ... of a command for the desktop thread, ...                              *)
SvcCommandRecord == [op : {"register", "release", "retire"}, k : Calls \cup {0}, gen : Gens]
(* ... and of a retirement under way.                                        *)
SvcRetireRecord == [gen : Gens, step : {"resources", "files", "rest"}, by : Threads]

(* The steps of a retirement that are still to come, ...                     *)
SvcAnyStep == {"resources", "files", "rest"}
(* ... up to the files, which is where watches and dialogs go.               *)
SvcBeforeRest == {"resources", "files"}
(* The places of a call without an outcome.                                  *)
SvcNotYetOut == {"free", "queued", "acts", "ends", "registers", "commits", "waits"}

(* Generation g is the owner, or its retirement has one of these steps still *)
(* to do: what it registered is still going to be removed.                   *)
SvcOwned(o, R, g, steps) == o.owner = g \/ \E x \in R : x.gen = g /\ x.step \in steps

(* Only a generation that is refused, or was replaced, is being retired.     *)
SvcOwnHolds(o, R) ==
  /\ o \in SvcOwnRecord /\ R \subseteq SvcRetireRecord
  /\ o.owner <= o.last /\ o.reg \in {0, o.last}
  /\ \A r \in R : r.gen <= o.retired \/ r.gen < o.owner

(* Where a call may be: one of a generation that is gone is refused; the     *)
(* commit of a write still has the owner, or a retirement that has not come  *)
(* to the rest.                                                              *)
SvcPlaced(o, R, c) ==
  /\ c \in SvcWorkRecord
  /\ c.at = "free" => c.gen = 0 /\ c.m = "none"
  /\ c.at # "free" => 
       /\ c.gen \in Gens
       /\ c.gen \in o.refused \/ SvcOwned(o, R, c.gen, {"resources"})
       /\ c.gen <= o.owner \/ c.gen <= o.retired
  /\ c.at \in SvcNotYetOut => c.out = "none"
  /\ c.out = "ok" => c.at = "done"
  /\ c.at \in {"locked", "commits"} => c.m = "write"
  /\ c.at = "commits" => SvcOwned(o, R, c.gen, SvcBeforeRest)
  /\ c.at \in {"waits", "unwinds"} => c.m \in Desktop

(* What a call registered stays while the call can still undo it, or while   *)
(* somebody else is going to remove it.                                      *)
SvcLasts(o, R, c, steps) ==
  c.at \in {"ends", "undoes"} \/ (c.at \in {"registers", "done"} /\ SvcOwned(o, R, c.gen, steps))

(* What each table may hold: only what its call can undo, or what a          *)
(* retirement or the desktop thread will remove.                             *)
SvcListed(o, R, D, c, t, k) ==
  /\ k \in t.runner => c.m = "runner" /\ c.at \in {"ends", "registers", "undoes", "done"} /\ SvcOwned(o, R, c.gen, {"resources"})
  /\ k \in t.watch => c.m = "watch" /\ SvcLasts(o, R, c, SvcBeforeRest)
  /\ k \in t.profile => c.m = "profile" /\ SvcLasts(o, R, c, SvcAnyStep)
  /\ k \in t.selecting => c.m = "dialog" /\ k \in t.dialog /\ (k \in t.cancelled \/ SvcLasts(o, R, c, SvcBeforeRest))
  /\ k \in t.shortcut \cup t.notice => c.m \in Desktop /\ (SvcOwned(o, R, c.gen, SvcAnyStep) \/ c.gen \in D)
  /\ k \in t.written => c.m = "write" /\ c.at \in {"ends", "registers", "undoes", "done"} /\ c.out # "refused"

(* Another dialog succeeded: it took the place of this one among the dialogs *)
(* of the document.                                                          *)
SvcAnotherOk(cs, k) == \E j \in Calls \ {k} : cs[j].m = "dialog" /\ cs[j].out = "ok"

(* A runner or a dialog of a finished call of a document is held by its      *)
(* document, or is being ended with it.                                      *)
SvcKept(o, docs, cs, t, k) ==
  LET c == cs[k]
  IN c.at = "done" /\ c.doc /\ o.owner = c.gen /\ o.owner > o.retired /\ 
     (k \in t.runner \/ (c.m = "dialog" /\ k \in t.selecting \ t.cancelled /\ ~SvcAnotherOk(cs, k)))
     => IF docs[c.gen].epoch = c.epoch THEN k \in docs[c.gen].held ELSE k \in docs[c.gen].ending

(* The queue of the pool holds queued calls, once each.                      *)
SvcQueueHolds(q, cs) ==
  /\ q \in Seq(Calls)
  /\ \A i \in DOMAIN q : cs[q[i]].at = "queued"
  /\ \A i, j \in DOMAIN q : q[i] = q[j] => i = j

(* The commands of the desktop thread, and which of its registrations will   *)
(* be removed.                                                               *)
SvcDeskHolds(o, R, d, cs) ==
  /\ d.retired \subseteq Gens
  /\ d.commands \in Seq(SvcCommandRecord)
  /\ d = [commands |-> d.commands, retired |-> d.retired]
  /\ \A i \in DOMAIN d.commands : LET c == d.commands[i] IN
       /\ c.op # "retire" => c.k \in Calls /\ cs[c.k].m \in Desktop /\ cs[c.k].gen = c.gen /\ cs[c.k].at # "free"
       /\ c.op = "register" => SvcOwned(o, R, c.gen, SvcAnyStep) \/ c.gen \in d.retired

(* The inductive invariant, of any values of the state, ...                  *)
SvcHolds(o, cs, q, t, docs, d, R) ==
  /\ SvcOwnHolds(o, R)
  /\ DOMAIN cs = Calls
  /\ t \in [Kinds -> SUBSET Calls]
  /\ docs \in [Gens -> SvcDocumentRecord]
  /\ \A k \in Calls : SvcPlaced(o, R, cs[k]) /\ SvcListed(o, R, d.retired, cs[k], t, k) /\ SvcKept(o, docs, cs, t, k)
  /\ SvcQueueHolds(q, cs)
  /\ SvcDeskHolds(o, R, d, cs)

(* ... and of the services.                                                  *)
SvcInv == SvcHolds(own, calls, queue, tables, documents, desk, retiring)
(* A change of the owner: nothing that was going to be removed is forgotten. *)
SvcOnward(o, R, o2, R2) ==
  /\ o.refused \subseteq o2.refused
  /\ \A g \in Gens :
       /\ SvcOwned(o, R, g, {"resources"}) => SvcOwned(o2, R2, g, {"resources"})
       /\ SvcOwned(o, R, g, SvcBeforeRest) => SvcOwned(o2, R2, g, SvcBeforeRest)
       /\ SvcOwned(o, R, g, SvcAnyStep) => SvcOwned(o2, R2, g, SvcAnyStep)
       /\ g <= o.owner \/ g <= o.retired => g <= o2.owner \/ g <= o2.retired

(* The tables have lost entries of call k, if anything.                      *)
SvcFewer(t, t2, k) ==
  /\ \A x \in {"runner", "watch", "profile", "selecting", "shortcut", "notice", "written"} : k \in t2[x] => k \in t[x]
  /\ k \in t2.selecting /\ k \in t.dialog => k \in t2.dialog
  /\ k \in t.cancelled => k \in t2.cancelled

(* Generations are the positive numbers up to the bound.                     *)
LEMMA SvcGens == Gens \subseteq Nat \ {0} /\ (\A h \in Gens : h \in Nat /\ h > 0) /\ 1 \in Gens /\ 0 \notin Gens
BY GenAssumption DEF Gens

(* The place of a call, ...                                                  *)
LEMMA SvcPlacedOn ==
  ASSUME NEW o, NEW R, NEW o2, NEW R2, NEW c, SvcPlaced(o, R, c), SvcOnward(o, R, o2, R2)
  PROVE  SvcPlaced(o2, R2, c)
BY DEF SvcPlaced, SvcOnward

(* ... and its entries, after a change of the owner.                         *)
LEMMA SvcListedOn ==
  ASSUME NEW o, NEW R, NEW o2, NEW R2, NEW D, NEW c, NEW t, NEW k,
         SvcPlaced(o, R, c), SvcListed(o, R, D, c, t, k), SvcOnward(o, R, o2, R2)
  PROVE  SvcListed(o2, R2, D, c, t, k)
<1>1. ASSUME c.m # "none" PROVE c.gen \in Gens
  BY <1>1 DEF SvcPlaced
<1>2. ASSUME NEW S, S \in {{"resources"}, SvcBeforeRest, SvcAnyStep}, c.m # "none", SvcOwned(o, R, c.gen, S)
      PROVE  SvcOwned(o2, R2, c.gen, S)
  BY <1>1, <1>2 DEF SvcOnward
<1>3. ASSUME NEW S, S \in {{"resources"}, SvcBeforeRest, SvcAnyStep}, c.m # "none", SvcLasts(o, R, c, S)
      PROVE  SvcLasts(o2, R2, c, S)
  BY <1>2, <1>3 DEF SvcLasts
<1>4. \A m \in Desktop : m # "none"
  BY DEF Desktop
<1> HIDE DEF SvcOwned
<1> QED BY <1>2, <1>3, <1>4 DEF SvcListed

(* A change of the owner that forgets nothing.                               *)
LEMMA SvcOwnStep ==
  ASSUME NEW o, NEW cs, NEW q, NEW t, NEW docs, NEW d, NEW R, SvcHolds(o, cs, q, t, docs, d, R),
         NEW o2, NEW R2, SvcOwnHolds(o2, R2), SvcOnward(o, R, o2, R2),
         o2.owner > o2.retired => \/ o2.owner = o.owner /\ o.owner > o.retired
                                  \/ \A k \in Calls : cs[k].gen # o2.owner
  PROVE  SvcHolds(o2, cs, q, t, docs, d, R2)
<1>1. \A k \in Calls : SvcPlaced(o2, R2, cs[k]) /\ SvcListed(o2, R2, d.retired, cs[k], t, k)
  BY SvcPlacedOn, SvcListedOn DEF SvcHolds
<1>2. \A k \in Calls : SvcKept(o2, docs, cs, t, k)
  BY DEF SvcHolds, SvcKept
<1>3. SvcDeskHolds(o2, R2, d, cs)
  <2>1. \A i \in DOMAIN d.commands : d.commands[i].gen \in Gens
    <3>1. d.commands \in Seq(SvcCommandRecord)
      BY DEF SvcHolds, SvcDeskHolds
    <3>2. \A i \in DOMAIN d.commands : d.commands[i] \in SvcCommandRecord
      BY <3>1
    <3> QED BY <3>2 DEF SvcCommandRecord
  <2> QED BY <2>1 DEF SvcHolds, SvcDeskHolds, SvcOnward
<1> QED BY <1>1, <1>2, <1>3 DEF SvcHolds

(* A generation is retired by any thread.                                    *)
LEMMA SvcRetire ==
  ASSUME NEW cs, NEW q, NEW t, NEW docs, NEW d, SvcHolds(own, cs, q, t, docs, d, retiring),
         NEW g \in Gens, NEW by \in Threads, retire(g, by)
  PROVE  SvcHolds(own', cs, q, t, docs, d, retiring')
<1>o. SvcOwnHolds(own, retiring)
  BY DEF SvcHolds
<1>1. SvcOwnHolds(own', retiring')
  <2>1. own' \in SvcOwnRecord
    <3> DEFINE e == IF by = Main THEN own.events + 1 ELSE own.events
              ret == IF g > own.retired THEN g ELSE own.retired
              ow == IF own.owner # 0 /\ own.owner <= g THEN 0 ELSE own.owner
    <3>1. own' = [own EXCEPT !.events = e, !.retired = ret, !.owner = ow]
      BY DEF retire, NoGen
    <3>2. own \in SvcOwnRecord
      BY <1>o DEF SvcOwnHolds
    <3>3. e \in Nat /\ ret \in {0} \cup Gens /\ ow \in {0} \cup Gens
      BY <3>2, SvcGens DEF SvcOwnRecord
    <3> HIDE DEF e, ret, ow
    <3> QED BY <3>1, <3>2, <3>3 DEF SvcOwnRecord
  <2>0. /\ own \in SvcOwnRecord
        /\ own'.owner = (IF own.owner # 0 /\ own.owner <= g THEN 0 ELSE own.owner)
        /\ own'.retired = (IF g > own.retired THEN g ELSE own.retired)
    BY <1>o DEF SvcOwnHolds, SvcOwnRecord, retire, NoGen
  <2>n. own.retired \in Nat /\ own'.retired \in Nat /\ g \in Nat /\ own.owner \in Nat /\ own'.owner \in Nat
    <3>1. own.retired \in {0} \cup Gens /\ own.owner \in {0} \cup Gens
      BY <2>0 DEF SvcOwnRecord
    <3>2. own'.retired \in {0} \cup Gens /\ own'.owner \in {0} \cup Gens
      BY <2>1 DEF SvcOwnRecord
    <3>3. \A x \in {0} \cup Gens : x \in Nat
      BY SvcGens
    <3>4. g \in Nat
      BY SvcGens
    <3> QED BY <3>1, <3>2, <3>3, <3>4
  <2>2. retiring' \subseteq SvcRetireRecord
    <3>1. CASE own.owner \in 1 .. g
      <4>1. own.owner \in Gens
        BY <3>1, <1>o, SvcGens DEF SvcOwnHolds, SvcOwnRecord
      <4> QED BY <4>1, <3>1, <1>o DEF SvcOwnHolds, SvcRetireRecord, retire
    <3> QED BY <3>1, <1>o DEF SvcOwnHolds, retire
  <2>3. own'.last = own.last /\ own'.reg = own.reg /\ own'.owner \in {0, own.owner} /\ own.owner \in Nat /\ own.last \in Nat
    BY <1>o, SvcGens DEF SvcOwnHolds, SvcOwnRecord, retire, NoGen
  <2>4. ASSUME NEW r \in retiring' PROVE r.gen <= own'.retired \/ r.gen < own'.owner
    <3>1. own'.retired >= own.retired /\ own'.retired >= g
      BY <2>0, <2>n
    <3>2. own'.owner = own.owner \/ (own'.owner = 0 /\ own.owner <= g)
      BY <2>0, <2>n
    <3>3. r \in retiring \/ r.gen \in 1 .. g
      BY <2>4 DEF retire
    <3>4. r.gen \in Nat /\ own.retired \in Nat /\ own'.retired \in Nat
      <4>1. r.gen \in Gens
        BY <2>2, <2>4 DEF SvcRetireRecord
      <4> QED BY <4>1, <2>n, SvcGens
    <3> QED BY <3>1, <3>2, <3>3, <3>4, <2>3, <1>o, SvcGens DEF SvcOwnHolds
  <2> QED BY <2>1, <2>2, <2>3, <2>4, <1>o DEF SvcOwnHolds
<1>2. SvcOnward(own, retiring, own', retiring')
  <2>1. own'.refused = own.refused
    BY <1>o DEF SvcOwnHolds, SvcOwnRecord, retire
  <2>2. \A h \in Gens : h <= own.owner \/ h <= own.retired => h <= own'.owner \/ h <= own'.retired
    BY <1>o, SvcGens DEF SvcOwnHolds, SvcOwnRecord, retire, NoGen
  <2>3. ASSUME NEW h \in Gens, NEW S, "resources" \in S, SvcOwned(own, retiring, h, S)
        PROVE  SvcOwned(own', retiring', h, S)
    <3>1. CASE own.owner # h
      BY <3>1, <2>3 DEF SvcOwned, retire
    <3>2. CASE own.owner = h /\ h <= g
      <4>1. own.owner \in 1 .. g
        BY <3>2, SvcGens
      <4>2. [gen |-> h, step |-> "resources", by |-> by] \in retiring'
        BY <4>1, <3>2 DEF retire
      <4> QED BY <4>2, <2>3 DEF SvcOwned
    <3>3. CASE own.owner = h /\ ~(h <= g)
      BY <3>3, <1>o, SvcGens DEF SvcOwned, retire, SvcOwnHolds, SvcOwnRecord
    <3> QED BY <3>1, <3>2, <3>3
  <2>4. "resources" \in {"resources"} /\ "resources" \in SvcBeforeRest /\ "resources" \in SvcAnyStep
    BY DEF SvcBeforeRest, SvcAnyStep
  <2> QED BY <2>1, <2>2, <2>3, <2>4 DEF SvcOnward
<1>3. own'.owner > own'.retired => own'.owner = own.owner /\ own.owner > own.retired
  BY <1>o, SvcGens DEF SvcOwnHolds, SvcOwnRecord, retire, NoGen
<1> QED BY <1>1, <1>2, <1>3, SvcOwnStep

(* A failed check retires the generation of its call when the trust is gone. *)
LEMMA SvcFails ==
  ASSUME NEW cs, NEW q, NEW t, NEW docs, NEW d, SvcHolds(own, cs, q, t, docs, d, retiring),
         NEW k \in Calls, calls[k].gen \in Gens, Fails(k)
  PROVE  SvcHolds(own', cs, q, t, docs, d, retiring')
<1>1. Worker(k) \in Threads
  BY DEF Threads
<1> QED BY <1>1, SvcRetire DEF Fails

(* Fewer entries in the tables.                                              *)
LEMMA SvcListedFewer ==
  ASSUME NEW o, NEW R, NEW D, NEW c, NEW t, NEW t2, NEW k,
         SvcListed(o, R, D, c, t, k), SvcFewer(t, t2, k)
  PROVE  SvcListed(o, R, D, c, t2, k)
BY DEF SvcListed, SvcFewer

(* The document of call j still holds what it held.                          *)
SvcDocsStay(docs, docs2, cs, cs2, j) ==
  LET g == cs[j].gen IN
  /\ docs2[g].epoch = docs[g].epoch /\ docs2[g].ending = docs[g].ending
  /\ j \in docs[g].held => j \in docs2[g].held \/ (cs[j].m = "dialog" /\ SvcAnotherOk(cs2, j))

(* What is kept stays kept.                                                  *)
LEMMA SvcKeptStays ==
  ASSUME NEW o, NEW R, NEW D, NEW docs, NEW docs2, NEW cs, NEW cs2, NEW t, NEW t2, NEW j,
         SvcKept(o, docs, cs, t, j), SvcListed(o, R, D, cs[j], t, j), SvcFewer(t, t2, j), cs2[j] = cs[j],
         cs[j].gen \in Gens => SvcDocsStay(docs, docs2, cs, cs2, j), o \in SvcOwnRecord,
         SvcAnotherOk(cs, j) => SvcAnotherOk(cs2, j)
  PROVE  SvcKept(o, docs2, cs2, t2, j)
<1> SUFFICES ASSUME cs[j].at = "done", cs[j].doc, o.owner = cs[j].gen, o.owner > o.retired,
                    j \in t2.runner \/ (cs[j].m = "dialog" /\ j \in t2.selecting \ t2.cancelled /\ ~SvcAnotherOk(cs2, j))
             PROVE  IF docs2[cs[j].gen].epoch = cs[j].epoch THEN j \in docs2[cs[j].gen].held ELSE j \in docs2[cs[j].gen].ending
  BY DEF SvcKept
<1>1. j \in t.runner \/ (cs[j].m = "dialog" /\ j \in t.selecting \ t.cancelled /\ ~SvcAnotherOk(cs, j))
  BY DEF SvcFewer, SvcListed
<1>2. IF docs[cs[j].gen].epoch = cs[j].epoch THEN j \in docs[cs[j].gen].held ELSE j \in docs[cs[j].gen].ending
  BY <1>1 DEF SvcKept
<1>3. cs[j].gen \in Gens
  <2>1. o.owner \in {0} \cup Gens /\ o.retired \in {0} \cup Gens
    BY DEF SvcOwnRecord
  <2>2. \A x \in {0} \cup Gens : x \in Nat
    BY SvcGens
  <2>3. o.owner \in Nat /\ o.retired \in Nat
    BY <2>1, <2>2
  <2>4. o.owner # 0
    BY <2>3
  <2> QED BY <2>1, <2>4
<1>4. SvcDocsStay(docs, docs2, cs, cs2, j)
  BY <1>3
<1>5. ~(cs[j].m = "dialog" /\ SvcAnotherOk(cs2, j))
  BY DEF SvcFewer, SvcListed
<1> QED BY <1>2, <1>4, <1>5 DEF SvcDocsStay

(* A step of one call: what is to be shown of the new values.                *)
SvcCallOk(o, cs, t, docs, d, R, k, c2, cs2, q2, t2, docs2, d2) ==
  /\ cs2 = [cs EXCEPT ![k] = c2]
  /\ t2 \in [Kinds -> SUBSET Calls]
  /\ docs2 \in [Gens -> SvcDocumentRecord]
  /\ SvcPlaced(o, R, c2)
  /\ SvcListed(o, R, d.retired, c2, t2, k)
  /\ SvcKept(o, docs2, cs2, t2, k)
  /\ \A j \in Calls \ {k} : SvcFewer(t, t2, j)
  /\ \A j \in Calls \ {k} : cs[j].gen \in Gens => SvcDocsStay(docs, docs2, cs, cs2, j)
  /\ cs[k].out = "ok" => c2.out = "ok" /\ c2.m = cs[k].m
  /\ SvcQueueHolds(q2, cs2)
  /\ SvcDeskHolds(o, R, d2, cs2)
  /\ d2.retired = d.retired

(* A step of one call.                                                       *)
LEMMA SvcCallStep ==
  ASSUME NEW o, NEW cs, NEW q, NEW t, NEW docs, NEW d, NEW R, SvcHolds(o, cs, q, t, docs, d, R),
         NEW k \in Calls, NEW c2, NEW cs2, NEW q2, NEW t2, NEW docs2, NEW d2,
         SvcCallOk(o, cs, t, docs, d, R, k, c2, cs2, q2, t2, docs2, d2)
  PROVE  SvcHolds(o, cs2, q2, t2, docs2, d2, R)
<1> USE DEF SvcCallOk
<1>1. DOMAIN cs2 = Calls /\ cs2[k] = c2 /\ \A j \in Calls \ {k} : cs2[j] = cs[j]
  BY DEF SvcHolds
<1>2. ASSUME NEW j \in Calls \ {k}
      PROVE  SvcPlaced(o, R, cs2[j]) /\ SvcListed(o, R, d2.retired, cs2[j], t2, j) /\ SvcKept(o, docs2, cs2, t2, j)
  <2>1. SvcPlaced(o, R, cs[j]) /\ SvcListed(o, R, d.retired, cs[j], t, j) /\ SvcKept(o, docs, cs, t, j) /\ o \in SvcOwnRecord
    BY DEF SvcHolds, SvcOwnHolds
  <2>2. SvcAnotherOk(cs, j) => SvcAnotherOk(cs2, j)
    BY <1>1 DEF SvcAnotherOk
  <2>3. SvcListed(o, R, d.retired, cs[j], t2, j)
    BY <2>1, SvcListedFewer
  <2>4. SvcKept(o, docs2, cs2, t2, j)
    BY <2>1, <2>2, <1>1, SvcKeptStays
  <2> QED BY <2>1, <2>3, <2>4, <1>1
<1>3. \A j \in Calls : SvcPlaced(o, R, cs2[j]) /\ SvcListed(o, R, d2.retired, cs2[j], t2, j) /\ SvcKept(o, docs2, cs2, t2, j)
  BY <1>1, <1>2
<1>4. SvcOwnHolds(o, R)
  BY DEF SvcHolds
<1> QED BY <1>1, <1>3, <1>4 DEF SvcHolds

(* The commands stay good when a call moves on.                              *)
LEMMA SvcDeskStays ==
  ASSUME NEW o, NEW R, NEW d, NEW cs, SvcDeskHolds(o, R, d, cs), DOMAIN cs = Calls,
         NEW k \in Calls, NEW c2, NEW cs2, cs2 = [cs EXCEPT ![k] = c2],
         cs[k].at # "free" => c2.at # "free" /\ c2.m = cs[k].m /\ c2.gen = cs[k].gen
  PROVE  SvcDeskHolds(o, R, d, cs2)
<1>1. \A j \in Calls : cs[j].at # "free" => cs2[j].at # "free" /\ cs2[j].m = cs[j].m /\ cs2[j].gen = cs[j].gen
  OBVIOUS
<1> QED BY <1>1 DEF SvcDeskHolds

(* The queue stays good when a call that is not queued moves.                *)
LEMMA SvcQueueStays ==
  ASSUME NEW q, NEW cs, SvcQueueHolds(q, cs), DOMAIN cs = Calls,
         NEW k \in Calls, NEW c2, NEW cs2, cs2 = [cs EXCEPT ![k] = c2],
         cs[k].at = "queued" => c2.at = "queued"
  PROVE  SvcQueueHolds(q, cs2)
<1>1. \A j \in Calls : cs[j].at = "queued" => cs2[j].at = "queued"
  OBVIOUS
<1>2. \A i \in DOMAIN q : q[i] \in Calls
  BY DEF SvcQueueHolds
<1> QED BY <1>1, <1>2 DEF SvcQueueHolds

(* A call moves on, the tables losing entries if anything.                   *)
LEMMA SvcMoves ==
  ASSUME NEW o, NEW cs, NEW q, NEW t, NEW docs, NEW d, NEW R, SvcHolds(o, cs, q, t, docs, d, R),
         NEW k \in Calls, NEW c2, NEW cs2, cs2 = [cs EXCEPT ![k] = c2], NEW t2,
         t2 \in [Kinds -> SUBSET Calls],
         cs[k].at # "free", c2.at # "free", cs[k].at = "queued" => c2.at = "queued",
         c2.m = cs[k].m, c2.gen = cs[k].gen, cs[k].out = "ok" => c2.out = "ok",
         SvcPlaced(o, R, c2), SvcListed(o, R, d.retired, c2, t2, k), SvcKept(o, docs, cs2, t2, k),
         \A j \in Calls \ {k} : SvcFewer(t, t2, j)
  PROVE  SvcHolds(o, cs2, q, t2, docs, d, R)
<1>1. SvcDeskHolds(o, R, d, cs2)
  BY SvcDeskStays DEF SvcHolds
<1>2. SvcQueueHolds(q, cs2)
  BY SvcQueueStays DEF SvcHolds
<1>3. \A j \in Calls \ {k} : SvcDocsStay(docs, docs, cs, cs2, j)
  BY DEF SvcDocsStay
<1>4. docs \in [Gens -> SvcDocumentRecord]
  BY DEF SvcHolds
<1>5. SvcCallOk(o, cs, t, docs, d, R, k, c2, cs2, q, t2, docs, d)
  BY <1>1, <1>2, <1>3, <1>4 DEF SvcCallOk
<1> QED BY <1>5, SvcCallStep

(* A mark on the owner that is not about who owns.                           *)
LEMMA SvcMarks ==
  ASSUME NEW o, NEW cs, NEW q, NEW t, NEW docs, NEW d, NEW R, SvcHolds(o, cs, q, t, docs, d, R),
         NEW o2, o2 \in SvcOwnRecord, o2.owner = o.owner, o2.retired = o.retired, o2.refused = o.refused,
         o2.last >= o.last, o2.reg \in {0, o2.last}
  PROVE  SvcHolds(o2, cs, q, t, docs, d, R)
<1>1. SvcOwnHolds(o, R)
  BY DEF SvcHolds
<1>n. o.owner \in Nat /\ o.last \in Nat /\ o2.last \in Nat
  <2>1. o.owner \in {0} \cup Gens /\ o.last \in Gens /\ o2.last \in Gens
    BY <1>1 DEF SvcOwnHolds, SvcOwnRecord
  <2> QED BY <2>1, SvcGens
<1>2. SvcOwnHolds(o2, R)
  <2>1. o.owner <= o2.last
    BY <1>1, <1>n DEF SvcOwnHolds
  <2> QED BY <1>1, <2>1 DEF SvcOwnHolds
<1>3. SvcOnward(o, R, o2, R)
  BY DEF SvcOnward, SvcOwned
<1> QED BY <1>2, <1>3, SvcOwnStep

(* An event is counted.                                                      *)
LEMMA SvcEvent ==
  ASSUME SvcInv, NEW cs, NEW q, NEW t, NEW docs, NEW d, SvcHolds(own, cs, q, t, docs, d, retiring),
         own' = [own EXCEPT !.events = @ + 1]
  PROVE  SvcHolds(own', cs, q, t, docs, d, retiring)
<1>1. SvcOwnHolds(own, retiring)
  BY DEF SvcHolds
<1>2. own' \in SvcOwnRecord /\ own'.owner = own.owner /\ own'.retired = own.retired /\ own'.refused = own.refused
      /\ own'.last = own.last /\ own'.reg = own.reg
  BY <1>1 DEF SvcOwnHolds, SvcOwnRecord
<1>3. own.last \in Nat
  BY <1>1, SvcGens DEF SvcOwnHolds, SvcOwnRecord
<1>4. own'.last >= own.last /\ own'.reg \in {0, own'.last}
  BY <1>1, <1>2, <1>3 DEF SvcOwnHolds
<1> QED BY <1>2, <1>4, SvcMarks

(* A generation is registered.                                               *)
LEMMA SvcRegisters ==
  ASSUME SvcInv, NEW g \in Gens, register(g)
  PROVE  SvcInv'
<1>1. SvcOwnHolds(own, retiring)
  BY DEF SvcInv, SvcHolds
<1> DEFINE au == IF g > own.last THEN [own.auth EXCEPT ![g] = own.trust] ELSE own.auth
<1>2. own' = [own EXCEPT !.reg = g, !.last = g, !.events = own.events + 1, !.auth = au]
  BY DEF register
<1>3. own \in SvcOwnRecord /\ au \in [Gens -> Nat]
  BY <1>1 DEF SvcOwnHolds, SvcOwnRecord
<1>4. own' \in SvcOwnRecord /\ own'.owner = own.owner /\ own'.retired = own.retired /\ own'.refused = own.refused
      /\ own'.last = g /\ own'.reg = g
  <2> HIDE DEF au
  <2>1. own.events + 1 \in Nat /\ own = [own EXCEPT !.events = own.events]
    BY <1>3 DEF SvcOwnRecord
  <2>2. own' \in SvcOwnRecord
    BY <1>2, <1>3, <2>1 DEF SvcOwnRecord
  <2> QED BY <1>2, <1>3, <2>2 DEF SvcOwnRecord
<1>5. own.last \in Nat /\ g \in {own.last, own.last + 1}
  BY <1>3, SvcGens DEF SvcOwnRecord, register
<1>6. own'.last >= own.last /\ own'.reg \in {0, own'.last}
  BY <1>4, <1>5
<1>7. SvcHolds(own', calls, queue, tables, documents, desk, retiring)
  BY <1>4, <1>6, SvcMarks DEF SvcInv
<1> QED BY <1>7 DEF register, SvcInv

(* The record of trust is edited.                                            *)
LEMMA SvcEdits ==
  ASSUME SvcInv, Edit
  PROVE  SvcInv'
<1>1. SvcOwnHolds(own, retiring)
  BY DEF SvcInv, SvcHolds
<1>2. own' \in SvcOwnRecord /\ own'.owner = own.owner /\ own'.retired = own.retired /\ own'.refused = own.refused
      /\ own'.last = own.last /\ own'.reg = own.reg
  <2>1. own \in SvcOwnRecord /\ own' = [own EXCEPT !.trust = own.trust + 1, !.events = own.events + 1]
    BY <1>1 DEF SvcOwnHolds, Edit
  <2>2. own.trust + 1 \in Nat /\ own.events + 1 \in Nat
    BY <2>1 DEF SvcOwnRecord
  <2> QED BY <2>1, <2>2 DEF SvcOwnRecord
<1>3. own.last \in Nat
  BY <1>1, SvcGens DEF SvcOwnHolds, SvcOwnRecord
<1>4. own'.last >= own.last /\ own'.reg \in {0, own'.last}
  BY <1>1, <1>2, <1>3 DEF SvcOwnHolds
<1>5. SvcHolds(own', calls, queue, tables, documents, desk, retiring)
  BY <1>2, <1>4, SvcMarks DEF SvcInv
<1> QED BY <1>5 DEF Edit, SvcInv

(* The monitor sees that the trust is gone.                                  *)
LEMMA SvcMonitors ==
  ASSUME SvcInv, monitor
  PROVE  SvcInv'
<1>1. own.owner \in Gens /\ Monitor \in Threads
  BY DEF SvcInv, SvcHolds, SvcOwnHolds, SvcOwnRecord, monitor, NoGen, Threads
<1>2. SvcHolds(own', calls, queue, tables, documents, desk, retiring')
  BY <1>1, SvcRetire DEF SvcInv, monitor
<1> QED BY <1>2 DEF SvcInv, monitor

(* A generation is retired from outside.                                     *)
LEMMA SvcRetiresAll ==
  ASSUME SvcInv, NEW g \in Gens, Retires(g)
  PROVE  SvcInv'
<1>1. Main \in Threads
  BY DEF Threads
<1>2. SvcHolds(own', calls, queue, tables, documents, desk, retiring')
  BY <1>1, SvcRetire DEF SvcInv, Retires
<1> QED BY <1>2 DEF SvcInv, Retires

(* The registered generation becomes the owner.                              *)
LEMMA SvcInserts ==
  ASSUME SvcInv, Inserts
  PROVE  SvcInv'
<1>o. SvcOwnHolds(own, retiring) /\ own \in SvcOwnRecord
  BY DEF SvcInv, SvcHolds, SvcOwnHolds
<1>1. own.reg \in Gens /\ own.reg = own.last
  BY <1>o DEF SvcOwnHolds, SvcOwnRecord, Inserts, NoGen
<1>n. own.reg \in Nat /\ own.owner \in Nat /\ own.owner <= own.reg /\ own.retired \in Nat
  <2>1. own.owner \in {0} \cup Gens /\ own.retired \in {0} \cup Gens
    BY <1>o DEF SvcOwnRecord
  <2>2. \A x \in {0} \cup Gens : x \in Nat
    BY SvcGens
  <2>3. own.owner <= own.last
    BY <1>o DEF SvcOwnHolds
  <2> QED BY <1>1, <2>1, <2>2, <2>3
<1>2. own' \in SvcOwnRecord /\ own'.owner = own.reg /\ own'.retired = own.retired /\ own'.refused = own.refused
      /\ own'.last = own.last /\ own'.reg = 0
  BY <1>o, <1>1 DEF SvcOwnRecord, Inserts, NoGen
<1>3. retiring' \subseteq SvcRetireRecord
  <2>1. CASE own.owner \in {0, own.reg}
    BY <2>1, <1>o DEF Inserts, SvcOwnHolds, NoGen
  <2>2. CASE own.owner \notin {0, own.reg}
    <3>1. own.owner \in Gens /\ Registrar \in Threads
      BY <2>2, <1>o DEF SvcOwnRecord, Threads
    <3> QED BY <3>1, <2>2, <1>o DEF Inserts, SvcOwnHolds, SvcRetireRecord, NoGen
  <2> QED BY <2>1, <2>2
<1>4. \A r \in retiring' : r.gen <= own'.retired \/ r.gen < own'.owner
  <2> SUFFICES ASSUME NEW r \in retiring' PROVE r.gen <= own.retired \/ r.gen < own.reg
    BY <1>2
  <2>1. r.gen \in Nat
    BY <1>3, SvcGens DEF SvcRetireRecord
  <2>2. CASE r \in retiring
    BY <2>1, <2>2, <1>n, <1>o DEF SvcOwnHolds
  <2>3. CASE r \notin retiring
    <3>1. r.gen = own.owner /\ own.owner # own.reg
      BY <2>3 DEF Inserts, NoGen
    <3> QED BY <3>1, <1>n
  <2> QED BY <2>2, <2>3
<1>5. SvcOwnHolds(own', retiring')
  BY <1>1, <1>2, <1>3, <1>4, <1>n DEF SvcOwnHolds
<1>6. SvcOnward(own, retiring, own', retiring')
  <2>1. ASSUME NEW h \in Gens, NEW S, "resources" \in S, SvcOwned(own, retiring, h, S)
        PROVE  SvcOwned(own', retiring', h, S)
    <3>1. CASE own.owner # h
      BY <3>1, <2>1, <1>2 DEF SvcOwned, Inserts
    <3>2. CASE own.owner = h /\ h = own.reg
      BY <3>2, <1>2 DEF SvcOwned
    <3>3. CASE own.owner = h /\ h # own.reg
      <4>1. [gen |-> h, step |-> "resources", by |-> Registrar] \in retiring'
        BY <3>3, SvcGens DEF Inserts, NoGen
      <4> QED BY <4>1, <2>1 DEF SvcOwned
    <3> QED BY <3>1, <3>2, <3>3
  <2>2. "resources" \in {"resources"} /\ "resources" \in SvcBeforeRest /\ "resources" \in SvcAnyStep
    BY DEF SvcBeforeRest, SvcAnyStep
  <2>3. \A h \in Gens : h <= own.owner \/ h <= own.retired => h <= own'.owner \/ h <= own'.retired
    <3> SUFFICES ASSUME NEW h \in Gens, h <= own.owner \/ h <= own.retired
                 PROVE  h <= own.reg \/ h <= own.retired
      BY <1>2
    <3>1. h \in Nat
      BY SvcGens
    <3> QED BY <3>1, <1>n
  <2> QED BY <2>1, <2>2, <2>3, <1>2 DEF SvcOnward
<1>7. ASSUME own'.owner > own'.retired
      PROVE  \/ own'.owner = own.owner /\ own.owner > own.retired
             \/ \A k \in Calls : calls[k].gen # own'.owner
  <2>1. CASE own.owner = own.reg
    BY <2>1, <1>7, <1>2
  <2>2. CASE own.owner # own.reg
    <3> SUFFICES ASSUME NEW k \in Calls, calls[k].gen = own.reg PROVE FALSE
      BY <1>2
    <3>1. SvcPlaced(own, retiring, calls[k])
      BY DEF SvcInv, SvcHolds
    <3>2. calls[k].at # "free"
      BY <3>1, <1>1, SvcGens DEF SvcPlaced
    <3>3. own.reg <= own.owner \/ own.reg <= own.retired
      BY <3>1, <3>2 DEF SvcPlaced
    <3> QED BY <3>3, <2>2, <1>n, <1>2, <1>7
  <2> QED BY <2>1, <2>2
<1>8. SvcHolds(own', calls, queue, tables, documents, desk, retiring')
  BY <1>5, <1>6, <1>7, SvcOwnStep DEF SvcInv
<1> QED BY <1>8 DEF SvcInv, Inserts

(* The retirements after a step of one of them.                              *)
SvcNextOf(R, r) == (R \ {r}) \cup (IF r.step = "rest" THEN {} ELSE {[r EXCEPT !.step = After[@]]})

(* A retirement advances: what it removed is gone.                           *)
LEMMA SvcAdvances ==
  ASSUME NEW o, NEW R, SvcOwnHolds(o, R), NEW r \in R, NEW o2, o2 \in SvcOwnRecord, o2.owner = o.owner,
         o2.retired = o.retired, o2.last = o.last, o2.reg = o.reg
  PROVE  /\ SvcOwnHolds(o2, SvcNextOf(R, r))
         /\ \A g, S : SvcOwned(o, R, g, S) => SvcOwned(o2, SvcNextOf(R, r), g, S)
                        \/ (g = r.gen /\ r.step \in S /\ (r.step = "rest" \/ After[r.step] \notin S))
<1>1. r \in SvcRetireRecord
  BY DEF SvcOwnHolds
<1>2. r.step # "rest" => /\ [r EXCEPT !.step = After[@]] \in SvcRetireRecord
                         /\ [r EXCEPT !.step = After[@]].gen = r.gen
                         /\ [r EXCEPT !.step = After[@]].step = After[r.step]
  BY <1>1 DEF SvcRetireRecord, After
<1>3. SvcOwnHolds(o2, SvcNextOf(R, r))
  BY <1>1, <1>2 DEF SvcOwnHolds, SvcNextOf
<1>4. ASSUME NEW g, NEW S, SvcOwned(o, R, g, S),
             ~(g = r.gen /\ r.step \in S /\ (r.step = "rest" \/ After[r.step] \notin S))
      PROVE  SvcOwned(o2, SvcNextOf(R, r), g, S)
  <2>1. CASE o.owner = g
    BY <2>1 DEF SvcOwned
  <2>2. CASE o.owner # g
    <3>1. PICK x \in R : x.gen = g /\ x.step \in S
      BY <1>4, <2>2 DEF SvcOwned
    <3>2. CASE x # r
      BY <3>1, <3>2 DEF SvcOwned, SvcNextOf
    <3>3. CASE x = r
      <4>1. r.step # "rest" /\ After[r.step] \in S
        BY <3>1, <3>3, <1>4
      <4> QED BY <4>1, <1>2, <3>1, <3>3 DEF SvcOwned, SvcNextOf
    <3> QED BY <3>2, <3>3
  <2> QED BY <2>1, <2>2
<1> QED BY <1>3, <1>4

(* The runners are removed, ...                                              *)
LEMMA SvcResourcesGone ==
  ASSUME SvcInv, NEW r \in retiring, r.step = "resources", Without({"runner"}, r.gen),
         own' = [own EXCEPT !.refused = @ \cup {r.gen}], retiring' = SvcNextOf(retiring, r),
         UNCHANGED <<calls, queue, documents, desk>>
  PROVE  SvcInv'
<1>o. SvcOwnHolds(own, retiring) /\ own \in SvcOwnRecord /\ r.gen \in Gens /\ After[r.step] = "files"
  BY DEF SvcInv, SvcHolds, SvcOwnHolds, SvcRetireRecord, After
<1>1. own' \in SvcOwnRecord /\ own'.owner = own.owner /\ own'.retired = own.retired /\ own'.refused = own.refused \cup {r.gen}
      /\ own'.last = own.last /\ own'.reg = own.reg
  BY <1>o DEF SvcOwnRecord
<1>2. /\ SvcOwnHolds(own', retiring')
      /\ \A g, S : SvcOwned(own, retiring, g, S) =>
           SvcOwned(own', retiring', g, S) \/ (g = r.gen /\ r.step \in S /\ After[r.step] \notin S)
  <2> DEFINE o2 == own'
  <2>1. o2 \in SvcOwnRecord /\ o2.owner = own.owner /\ o2.retired = own.retired /\ o2.last = own.last /\ o2.reg = own.reg
    BY <1>1
  <2> HIDE DEF o2
  <2>2. /\ SvcOwnHolds(o2, SvcNextOf(retiring, r))
        /\ \A g, S : SvcOwned(own, retiring, g, S) =>
             SvcOwned(o2, SvcNextOf(retiring, r), g, S) \/ (g = r.gen /\ r.step \in S /\ (r.step = "rest" \/ After[r.step] \notin S))
    BY <2>1, <1>o, SvcAdvances
  <2> QED BY <2>2 DEF o2
<1>3. \A g : /\ SvcOwned(own, retiring, g, SvcBeforeRest) => SvcOwned(own', retiring', g, SvcBeforeRest)
             /\ SvcOwned(own, retiring, g, SvcAnyStep) => SvcOwned(own', retiring', g, SvcAnyStep)
             /\ SvcOwned(own, retiring, g, {"resources"}) => SvcOwned(own', retiring', g, {"resources"}) \/ g = r.gen
  BY <1>2, <1>o DEF SvcBeforeRest, SvcAnyStep
<1>t. /\ tables' \in [Kinds -> SUBSET Calls] /\ \A x \in Kinds : tables'[x] \subseteq tables[x]
      /\ \A k \in Calls : k \in tables'.runner => calls[k].gen # r.gen
      /\ tables'.cancelled = tables.cancelled /\ tables'.dialog = tables.dialog
  BY DEF SvcInv, SvcHolds, Without, Of, Kinds
<1>4. ASSUME NEW k \in Calls
      PROVE  /\ SvcPlaced(own', retiring', calls[k])
             /\ SvcListed(own', retiring', desk.retired, calls[k], tables', k)
             /\ SvcKept(own', documents, calls, tables', k)
  <2>1. SvcPlaced(own, retiring, calls[k]) /\ SvcListed(own, retiring, desk.retired, calls[k], tables, k)
        /\ SvcKept(own, documents, calls, tables, k)
    BY DEF SvcInv, SvcHolds
  <2>2. SvcPlaced(own', retiring', calls[k])
    <3> HIDE DEF SvcOwned
    <3> QED BY <2>1, <1>3, <1>1 DEF SvcPlaced
  <2>f. SvcFewer(tables, tables', k)
    BY <1>t DEF SvcFewer, Kinds
  <2>3. SvcListed(own, retiring, desk.retired, calls[k], tables', k)
    BY <2>1, <2>f, SvcListedFewer
  <2>4. SvcListed(own', retiring', desk.retired, calls[k], tables', k)
    BY <2>3, <1>3, <1>t DEF SvcListed, SvcLasts
  <2>5. SvcKept(own, documents, calls, tables', k)
    BY <2>1, <2>f, <1>o, SvcKeptStays DEF SvcDocsStay
  <2>6. SvcKept(own', documents, calls, tables', k)
    BY <2>5, <1>1 DEF SvcKept
  <2> QED BY <2>2, <2>4, <2>6
<1>5. SvcDeskHolds(own', retiring', desk, calls)
  <2>1. SvcDeskHolds(own, retiring, desk, calls)
    BY DEF SvcInv, SvcHolds
  <2> QED BY <2>1, <1>3 DEF SvcDeskHolds
<1>6. SvcHolds(own', calls, queue, tables', documents, desk, retiring')
  BY <1>2, <1>t, <1>4, <1>5 DEF SvcInv, SvcHolds
<1> QED BY <1>6 DEF SvcInv

(* ... then the watches and the dialogs, ...                                 *)
LEMMA SvcFilesGone ==
  ASSUME SvcInv, NEW r \in retiring, r.step = "files", ~FilesHeld, FilesGone(r.gen),
         own' = own, retiring' = SvcNextOf(retiring, r),
         UNCHANGED <<calls, queue, documents, desk>>
  PROVE  SvcInv'
<1>o. SvcOwnHolds(own, retiring) /\ own \in SvcOwnRecord /\ r.gen \in Gens /\ After[r.step] = "rest"
  BY DEF SvcInv, SvcHolds, SvcOwnHolds, SvcRetireRecord, After
<1>2. /\ SvcOwnHolds(own, retiring')
      /\ \A g, S : SvcOwned(own, retiring, g, S) =>
           SvcOwned(own, retiring', g, S) \/ (g = r.gen /\ r.step \in S /\ After[r.step] \notin S)
  BY <1>o, SvcAdvances
<1>3. \A g : /\ SvcOwned(own, retiring, g, SvcBeforeRest) => SvcOwned(own, retiring', g, SvcBeforeRest) \/ g = r.gen
             /\ SvcOwned(own, retiring, g, SvcAnyStep) => SvcOwned(own, retiring', g, SvcAnyStep)
             /\ SvcOwned(own, retiring, g, {"resources"}) => SvcOwned(own, retiring', g, {"resources"})
  BY <1>2, <1>o DEF SvcBeforeRest, SvcAnyStep
<1>t. /\ tables' \in [Kinds -> SUBSET Calls]
      /\ \A k \in Calls : SvcFewer(tables, tables', k)
      /\ \A k \in Calls : k \in tables'.watch \/ k \in tables'.selecting => calls[k].gen # r.gen
  <2>1. tables \in [Kinds -> SUBSET Calls]
    BY DEF SvcInv, SvcHolds
  <2>2. /\ tables'.watch = tables.watch \ Of(r.gen) /\ tables'.dialog = tables.dialog \ Of(r.gen)
        /\ tables'.selecting = tables.selecting \ Of(r.gen) /\ tables.cancelled \subseteq tables'.cancelled
        /\ \A x \in {"runner", "profile", "shortcut", "notice", "written"} : tables'[x] = tables[x]
    BY DEF FilesGone, Kinds
  <2>3. tables' \in [Kinds -> SUBSET Calls]
    BY <2>1 DEF FilesGone, Kinds
  <2>4. \A k \in Calls : k \in Of(r.gen) <=> calls[k].gen = r.gen
    BY DEF Of
  <2> QED BY <2>2, <2>3, <2>4 DEF SvcFewer
<1>4. ASSUME NEW k \in Calls
      PROVE  /\ SvcPlaced(own, retiring', calls[k])
             /\ SvcListed(own, retiring', desk.retired, calls[k], tables', k)
             /\ SvcKept(own, documents, calls, tables', k)
  <2>1. SvcPlaced(own, retiring, calls[k]) /\ SvcListed(own, retiring, desk.retired, calls[k], tables, k)
        /\ SvcKept(own, documents, calls, tables, k)
    BY DEF SvcInv, SvcHolds
  <2>0. calls[k].at \notin {"locked", "commits"}
    BY DEF FilesHeld
  <2>2. SvcPlaced(own, retiring', calls[k])
    <3> HIDE DEF SvcOwned
    <3> QED BY <2>0, <2>1, <1>3 DEF SvcPlaced
  <2>3. SvcListed(own, retiring, desk.retired, calls[k], tables', k)
    BY <2>1, <1>t, SvcListedFewer
  <2>4. SvcListed(own, retiring', desk.retired, calls[k], tables', k)
    BY <2>3, <1>3, <1>t DEF SvcListed, SvcLasts
  <2>5. SvcKept(own, documents, calls, tables', k)
    BY <2>1, <1>t, <1>o, SvcKeptStays DEF SvcDocsStay
  <2> QED BY <2>2, <2>4, <2>5
<1>5. SvcDeskHolds(own, retiring', desk, calls)
  <2>1. SvcDeskHolds(own, retiring, desk, calls)
    BY DEF SvcInv, SvcHolds
  <2> QED BY <2>1, <1>3 DEF SvcDeskHolds
<1>6. SvcHolds(own, calls, queue, tables', documents, desk, retiring')
  BY <1>2, <1>t, <1>4, <1>5 DEF SvcInv, SvcHolds
<1> QED BY <1>6 DEF SvcInv

(* ... then the profiles, and the desktop thread is told.                    *)
LEMMA SvcRestGone ==
  ASSUME SvcInv, NEW r \in retiring, r.step = "rest", DeskGone(r.gen), Without({"profile", "status"}, r.gen),
         documents' = [documents EXCEPT ![r.gen] = [@ EXCEPT !.known = FALSE, !.epoch = 0, !.held = {}]],
         own' = own, retiring' = SvcNextOf(retiring, r), UNCHANGED <<calls, queue>>
  PROVE  SvcInv'
<1>o. SvcOwnHolds(own, retiring) /\ own \in SvcOwnRecord /\ r.gen \in Gens
  BY DEF SvcInv, SvcHolds, SvcOwnHolds, SvcRetireRecord
<1>2. /\ SvcOwnHolds(own, retiring')
      /\ \A g, S : SvcOwned(own, retiring, g, S) =>
           SvcOwned(own, retiring', g, S) \/ (g = r.gen /\ r.step \in S)
  BY <1>o, SvcAdvances
<1>3. \A g : /\ SvcOwned(own, retiring, g, SvcBeforeRest) => SvcOwned(own, retiring', g, SvcBeforeRest)
             /\ SvcOwned(own, retiring, g, SvcAnyStep) => SvcOwned(own, retiring', g, SvcAnyStep) \/ g = r.gen
             /\ SvcOwned(own, retiring, g, {"resources"}) => SvcOwned(own, retiring', g, {"resources"})
  BY <1>2 DEF SvcBeforeRest, SvcAnyStep
<1>t. /\ tables' \in [Kinds -> SUBSET Calls]
      /\ \A k \in Calls : SvcFewer(tables, tables', k)
      /\ \A k \in Calls : k \in tables'.profile => calls[k].gen # r.gen
  BY DEF SvcInv, SvcHolds, Without, Of, Kinds, SvcFewer
<1>d. documents' \in [Gens -> SvcDocumentRecord] /\ \A g \in Gens : g # r.gen => documents'[g] = documents[g]
  <2>1. documents \in [Gens -> SvcDocumentRecord]
    BY DEF SvcInv, SvcHolds
  <2> QED BY <2>1, <1>o DEF SvcDocumentRecord
<1>e. desk'.retired = desk.retired \cup {r.gen}
  BY DEF SvcInv, SvcHolds, SvcDeskHolds, DeskGone
<1>4. ASSUME NEW k \in Calls
      PROVE  /\ SvcPlaced(own, retiring', calls[k])
             /\ SvcListed(own, retiring', desk'.retired, calls[k], tables', k)
             /\ SvcKept(own, documents', calls, tables', k)
  <2>1. SvcPlaced(own, retiring, calls[k]) /\ SvcListed(own, retiring, desk.retired, calls[k], tables, k)
        /\ SvcKept(own, documents, calls, tables, k)
    BY DEF SvcInv, SvcHolds
  <2>2. SvcPlaced(own, retiring', calls[k])
    <3> HIDE DEF SvcOwned
    <3> QED BY <2>1, <1>3 DEF SvcPlaced
  <2>3. SvcListed(own, retiring, desk.retired, calls[k], tables', k)
    BY <2>1, <1>t, SvcListedFewer
  <2>4. SvcListed(own, retiring', desk'.retired, calls[k], tables', k)
    BY <2>3, <1>3, <1>t, <1>e DEF SvcListed, SvcLasts
  <2>5. ASSUME own.owner = calls[k].gen, own.owner > own.retired PROVE SvcKept(own, documents', calls, tables', k)
    <3>1. calls[k].gen # r.gen
      <4>1. r.gen <= own.retired \/ r.gen < own.owner
        BY <1>o DEF SvcOwnHolds
      <4>2. own.owner \in {0} \cup Gens /\ own.retired \in {0} \cup Gens
        BY <1>o DEF SvcOwnRecord
      <4>3. \A x \in {0} \cup Gens : x \in Nat
        BY SvcGens
      <4>4. own.owner \in Nat /\ own.retired \in Nat /\ r.gen \in Nat
        BY <4>2, <4>3, <1>o
      <4> QED BY <4>1, <4>4, <2>5
    <3>2. calls[k].gen \in Gens => SvcDocsStay(documents, documents', calls, calls, k)
      BY <3>1, <1>d DEF SvcDocsStay
    <3>3. SvcKept(own, documents', calls, tables', k)
      <4> DEFINE D == desk.retired
                 t2 == tables'
                 docs2 == documents'
      <4>1. SvcFewer(tables, t2, k) /\ SvcListed(own, retiring, D, calls[k], tables, k)
            /\ (calls[k].gen \in Gens => SvcDocsStay(documents, docs2, calls, calls, k))
        BY <3>2, <2>1, <1>t
      <4> HIDE DEF D, t2, docs2
      <4>2. SvcKept(own, docs2, calls, t2, k)
        BY <4>1, <2>1, <1>o, SvcKeptStays
      <4> QED BY <4>2 DEF t2, docs2
    <3> QED BY <3>3
  <2>6. ASSUME ~(own.owner = calls[k].gen /\ own.owner > own.retired) PROVE SvcKept(own, documents', calls, tables', k)
    <3>1. SvcKept(own, documents', calls, tables', k)
      BY <2>6 DEF SvcKept
    <3> QED BY <3>1
  <2>7. SvcKept(own, documents', calls, tables', k)
    BY <2>5, <2>6
  <2> QED BY <2>2, <2>4, <2>7
<1>5. SvcDeskHolds(own, retiring', desk', calls)
  <2>1. SvcDeskHolds(own, retiring, desk, calls)
    BY DEF SvcInv, SvcHolds
  <2>2. [op |-> "retire", k |-> 0, gen |-> r.gen] \in SvcCommandRecord
    BY <1>o DEF SvcCommandRecord
  <2> DEFINE e == [op |-> "retire", k |-> 0, gen |-> r.gen]
  <2>3. desk.commands \in Seq(SvcCommandRecord) /\ desk.retired \subseteq Gens
    BY <2>1 DEF SvcDeskHolds
  <2>4. desk' = [commands |-> desk'.commands, retired |-> desk'.retired] /\ desk'.commands \in {desk.commands, Append(desk.commands, e)}
    BY <2>1 DEF SvcDeskHolds, DeskGone
  <2>5. desk'.commands \in Seq(SvcCommandRecord)
    <3>1. e \in SvcCommandRecord
      BY <2>2
    <3> HIDE DEF e
    <3>2. Append(desk.commands, e) \in Seq(SvcCommandRecord)
      BY <3>1, <2>3
    <3> QED BY <3>2, <2>3, <2>4
  <2>6. ASSUME NEW i \in DOMAIN desk'.commands
        PROVE  (i \in DOMAIN desk.commands /\ desk'.commands[i] = desk.commands[i]) \/ desk'.commands[i] = e
    BY SMTT(30), <2>2, <2>3, <2>4
  <2>7. e.op = "retire"
    OBVIOUS
  <2> HIDE DEF e
  <2> QED BY <2>1, <2>3, <2>4, <2>5, <2>6, <2>7, <1>3, <1>e, <1>o DEF SvcDeskHolds
<1>6. SvcHolds(own, calls, queue, tables', documents', desk', retiring')
  BY <1>2, <1>t, <1>d, <1>4, <1>5 DEF SvcInv, SvcHolds
<1> QED BY <1>6 DEF SvcInv

(* A step of a retirement.                                                   *)
LEMMA SvcRetiresResources ==
  ASSUME SvcInv, NEW r \in retiring, retire_resources(r)
  PROVE  SvcInv'
<1>1. retiring' = SvcNextOf(retiring, r)
  BY DEF retire_resources, Advance, SvcNextOf
<1> QED BY <1>1, SvcResourcesGone, SvcFilesGone, SvcRestGone DEF retire_resources

(* The tables of one call.                                                   *)
LEMMA SvcTables ==
  ASSUME NEW o, NEW cs, NEW q, NEW t, NEW docs, NEW d, NEW R, SvcHolds(o, cs, q, t, docs, d, R),
         NEW t2, t2 \in [Kinds -> SUBSET Calls], \A k \in Calls : SvcFewer(t, t2, k)
  PROVE  SvcHolds(o, cs, q, t2, docs, d, R)
<1>1. ASSUME NEW k \in Calls
      PROVE  SvcListed(o, R, d.retired, cs[k], t2, k) /\ SvcKept(o, docs, cs, t2, k)
  <2>1. SvcListed(o, R, d.retired, cs[k], t, k) /\ SvcKept(o, docs, cs, t, k) /\ SvcFewer(t, t2, k) /\ o \in SvcOwnRecord
    BY DEF SvcHolds, SvcOwnHolds
  <2>2. SvcListed(o, R, d.retired, cs[k], t2, k)
    BY <2>1, SvcListedFewer
  <2>3. SvcDocsStay(docs, docs, cs, cs, k)
    BY DEF SvcDocsStay
  <2>4. SvcKept(o, docs, cs, t2, k)
    BY <2>1, <2>3, SvcKeptStays
  <2> QED BY <2>2, <2>4
<1> QED BY <1>1 DEF SvcHolds

(* The sweep of selections.                                                  *)
LEMMA SvcSweeps ==
  ASSUME SvcInv, Sweeps
  PROVE  SvcInv'
<1>1. tables' \in [Kinds -> SUBSET Calls] /\ \A k \in Calls : SvcFewer(tables, tables', k)
  BY DEF SvcInv, SvcHolds, Sweeps, SvcFewer, Kinds
<1>2. SvcHolds(own, calls, queue, tables', documents, desk, retiring)
  BY <1>1, SvcTables DEF SvcInv
<1> QED BY <1>2 DEF SvcInv, Sweeps

(* The thread of a dialog ends.                                              *)
LEMMA SvcDialogThread ==
  ASSUME SvcInv, NEW k \in Calls, DialogThread(k)
  PROVE  SvcInv'
<1>1. tables' \in [Kinds -> SUBSET Calls] /\ \A j \in Calls : SvcFewer(tables, tables', j)
  <2>1. tables \in [Kinds -> SUBSET Calls]
    BY DEF SvcInv, SvcHolds
  <2>2. CASE tables' = [tables EXCEPT !.selecting = @ \ {k}]
    BY <2>1, <2>2 DEF SvcFewer, Kinds
  <2>3. CASE tables' = [tables EXCEPT !.selecting = @ \ {k}, !.selection = @ \cup {k}]
    <3>1. \A x \in Kinds : x # "selection" => tables'[x] \subseteq tables[x] /\ (x # "selecting" => tables'[x] = tables[x])
      BY <2>1, <2>3 DEF Kinds
    <3>2. tables' \in [Kinds -> SUBSET Calls]
      BY <2>1, <2>3 DEF Kinds
    <3> QED BY <3>1, <3>2 DEF SvcFewer, Kinds
  <2> QED BY <2>2, <2>3 DEF DialogThread
<1>2. SvcHolds(own, calls, queue, tables', documents, desk, retiring)
  BY <1>1, SvcTables DEF SvcInv
<1> QED BY <1>2 DEF SvcInv, DialogThread

(* What a document that ended held is removed.                               *)
LEMMA SvcRetiresDocument ==
  ASSUME SvcInv, retire_document
  PROVE  SvcInv'
<1>o. SvcOwnHolds(own, retiring) /\ own \in SvcOwnRecord /\ documents \in [Gens -> SvcDocumentRecord]
  BY DEF SvcInv, SvcHolds, SvcOwnHolds
<1>d. documents' \in [Gens -> SvcDocumentRecord]
  <2>1. ASSUME NEW g \in Gens
        PROVE  [documents[g] EXCEPT !.epoch = @ + 1, !.held = {}, !.ending = documents[g].held] \in SvcDocumentRecord
    <3>1. documents[g] \in SvcDocumentRecord
      BY <1>o
    <3>2. documents[g].epoch + 1 \in Nat /\ documents[g].held \in SUBSET Calls /\ {} \in SUBSET Calls
      BY <3>1 DEF SvcDocumentRecord
    <3> QED BY <3>1, <3>2 DEF SvcDocumentRecord
  <2> QED BY <2>1, <1>o DEF retire_document
<1>1. ASSUME NEW k \in Calls
      PROVE  SvcKept(own, documents', calls, tables, k)
  <2> DEFINE g == calls[k].gen
  <2> SUFFICES ASSUME calls[k].at = "done", calls[k].doc, own.owner = g, own.owner > own.retired,
                      k \in tables.runner \/ (calls[k].m = "dialog" /\ k \in tables.selecting \ tables.cancelled /\ ~SvcAnotherOk(calls, k))
               PROVE  IF documents'[g].epoch = calls[k].epoch THEN k \in documents'[g].held ELSE k \in documents'[g].ending
    BY DEF SvcKept
  <2>1. IF documents[g].epoch = calls[k].epoch THEN k \in documents[g].held ELSE k \in documents[g].ending
    BY DEF SvcInv, SvcHolds, SvcKept
  <2>2. g \in Gens
    <3>1. SvcPlaced(own, retiring, calls[k])
      BY DEF SvcInv, SvcHolds
    <3> QED BY <3>1 DEF SvcPlaced
  <2>3. documents[g].ending = {}
    BY <2>2 DEF retire_document, MainFree
  <2>4. documents[g].epoch = calls[k].epoch /\ k \in documents[g].held
    BY <2>1, <2>3
  <2>5. documents[g].epoch \in Nat
    BY <1>o, <2>2 DEF SvcDocumentRecord
  <2>6. CASE documents[g].known
    <3>1. documents'[g].epoch = documents[g].epoch + 1 /\ documents'[g].ending = documents[g].held
      BY <2>2, <2>6, <1>o DEF retire_document, SvcDocumentRecord
    <3> QED BY <3>1, <2>4, <2>5
  <2>7. CASE ~documents[g].known
    <3>1. documents'[g] = documents[g]
      BY <2>2, <2>7, <1>o DEF retire_document
    <3> QED BY <3>1, <2>1
  <2> QED BY <2>6, <2>7
<1>2. SvcHolds(own, calls, queue, tables, documents', desk, retiring)
  BY <1>1, <1>d DEF SvcInv, SvcHolds
<1>3. SvcHolds(own', calls, queue, tables, documents', desk, retiring)
  BY <1>2, SvcEvent DEF retire_document
<1> QED BY <1>3 DEF SvcInv, retire_document

(* A document ends: what it held is to be removed.                           *)
LEMMA SvcDocumentEnds ==
  ASSUME SvcInv, NEW g \in Gens, DocumentEnds(g)
  PROVE  SvcInv'
<1>o. SvcOwnHolds(own, retiring) /\ own \in SvcOwnRecord /\ documents \in [Gens -> SvcDocumentRecord]
  BY DEF SvcInv, SvcHolds, SvcOwnHolds
<1>d. /\ documents' \in [Gens -> SvcDocumentRecord]
      /\ \A h \in Gens : documents'[h].epoch = documents[h].epoch /\ documents'[h].held = documents[h].held
      /\ \A h \in Gens : h # g => documents'[h].ending = documents[h].ending
  BY <1>o DEF DocumentEnds, SvcDocumentRecord
<1>t. /\ tables' \in [Kinds -> SUBSET Calls]
      /\ \A k \in Calls : SvcFewer(tables, tables', k)
      /\ own.owner = g => /\ tables'.runner = tables.runner \ documents[g].ending
                          /\ tables'.cancelled = tables.cancelled \cup (documents[g].ending \cap tables.dialog)
                          /\ tables'.selecting = tables.selecting
  <2>1. tables \in [Kinds -> SUBSET Calls] /\ documents[g].ending \subseteq Calls
    BY <1>o DEF SvcInv, SvcHolds, SvcDocumentRecord
  <2>2. CASE own.owner # g
    BY <2>1, <2>2 DEF DocumentEnds, SvcFewer
  <2>3. CASE own.owner = g
    <3> DEFINE e == documents[g].ending
               ca == tables.cancelled \cup (e \cap tables.dialog)
    <3>1. tables' = [tables EXCEPT !.runner = @ \ e, !.cancelled = ca]
      BY <2>3 DEF DocumentEnds
    <3>2. e \subseteq Calls /\ ca \subseteq Calls /\ tables.runner \subseteq Calls
      BY <2>1 DEF Kinds
    <3>3. /\ tables'.runner = tables.runner \ e /\ tables'.cancelled = ca
          /\ \A x \in Kinds \ {"runner", "cancelled"} : tables'[x] = tables[x]
      <4> HIDE DEF ca, e
      <4> QED BY <3>1, <2>1 DEF Kinds
    <3>4. tables' \in [Kinds -> SUBSET Calls]
      <4> HIDE DEF ca, e
      <4> QED BY <3>1, <3>2, <2>1 DEF Kinds
    <3>5. \A k \in Calls : SvcFewer(tables, tables', k)
      BY <3>3 DEF SvcFewer, Kinds
    <3> QED BY <3>3, <3>4, <3>5 DEF Kinds
  <2> QED BY <2>2, <2>3
<1>1. SvcHolds(own, calls, queue, tables', documents, desk, retiring)
  BY <1>t, SvcTables DEF SvcInv
<1>2. ASSUME NEW k \in Calls
      PROVE  SvcKept(own, documents', calls, tables', k)
  <2> DEFINE h == calls[k].gen
  <2> SUFFICES ASSUME calls[k].at = "done", calls[k].doc, own.owner = h, own.owner > own.retired,
                      k \in tables'.runner \/ (calls[k].m = "dialog" /\ k \in tables'.selecting \ tables'.cancelled /\ ~SvcAnotherOk(calls, k))
               PROVE  IF documents'[h].epoch = calls[k].epoch THEN k \in documents'[h].held ELSE k \in documents'[h].ending
    BY DEF SvcKept
  <2>1. IF documents[h].epoch = calls[k].epoch THEN k \in documents[h].held ELSE k \in documents[h].ending
    BY <1>1 DEF SvcHolds, SvcKept
  <2>2. h \in Gens
    <3>1. SvcPlaced(own, retiring, calls[k])
      BY DEF SvcInv, SvcHolds
    <3> QED BY <3>1 DEF SvcPlaced
  <2>3. CASE h # g
    BY <2>1, <2>2, <2>3, <1>d
  <2>4. CASE h = g
    <3>1. SvcListed(own, retiring, desk.retired, calls[k], tables, k)
      BY DEF SvcInv, SvcHolds
    <3>2. k \notin documents[g].ending
      BY <1>t, <2>4, <3>1 DEF SvcListed
    <3> QED BY <3>2, <2>1, <2>2, <2>4, <1>d
  <2> QED BY <2>3, <2>4
<1>3. SvcHolds(own, calls, queue, tables', documents', desk, retiring)
  BY <1>1, <1>2, <1>d DEF SvcHolds
<1> QED BY <1>3 DEF SvcInv, DocumentEnds

(* The places of a call before it has registered anything.                   *)
SvcEarly == {"acts", "locked", "commits", "waits", "unwinds"}

(* Call c at another place, with an outcome.                                 *)
SvcTo(c, place, outcome) == [c EXCEPT !.at = place, !.out = outcome]

(* A call may go there.                                                      *)
SvcMayBe(o, R, c, place, outcome) ==
  /\ place \in Places \ {"free", "queued"}
  /\ outcome \in {"none", "ok", "refused", "unknown"}
  /\ place \in SvcNotYetOut => outcome = "none"
  /\ outcome = "ok" => place = "done"
  /\ place \in {"locked", "commits"} => c.m = "write"
  /\ place = "commits" => SvcOwned(o, R, c.gen, SvcBeforeRest)
  /\ place \in {"waits", "unwinds"} => c.m \in Desktop

(* Nothing else of it changes, ...                                           *)
LEMMA SvcToFields ==
  ASSUME NEW c, c \in SvcWorkRecord, NEW place, NEW outcome
  PROVE  /\ SvcTo(c, place, outcome).at = place /\ SvcTo(c, place, outcome).out = outcome
         /\ SvcTo(c, place, outcome).m = c.m /\ SvcTo(c, place, outcome).gen = c.gen
         /\ SvcTo(c, place, outcome).doc = c.doc /\ SvcTo(c, place, outcome).epoch = c.epoch
         /\ SvcTo(c, place, outcome).dead = c.dead
         /\ place \in Places /\ outcome \in {"none", "ok", "refused", "unknown"} => SvcTo(c, place, outcome) \in SvcWorkRecord
BY DEF SvcTo, SvcWorkRecord

(* ... and it may be there.                                                  *)
LEMMA SvcToPlaced ==
  ASSUME NEW o, NEW R, NEW c, SvcPlaced(o, R, c), c.at # "free", NEW place, NEW outcome,
         SvcMayBe(o, R, c, place, outcome)
  PROVE  SvcPlaced(o, R, SvcTo(c, place, outcome))
<1> DEFINE e == SvcTo(c, place, outcome)
<1>1. c \in SvcWorkRecord
  BY DEF SvcPlaced
<1>2. e.at = place /\ e.out = outcome /\ e.m = c.m /\ e.gen = c.gen /\ e \in SvcWorkRecord
  BY <1>1, SvcToFields DEF SvcMayBe
<1> HIDE DEF e
<1>3. SvcPlaced(o, R, e)
  BY <1>2 DEF SvcPlaced, SvcMayBe
<1> QED BY <1>3 DEF e

(* A call goes from one place to another.                                    *)
LEMMA SvcPlaceStep ==
  ASSUME NEW o, NEW cs, NEW q, NEW t, NEW docs, NEW d, NEW R, SvcHolds(o, cs, q, t, docs, d, R),
         NEW k \in Calls, NEW place, NEW outcome, cs[k].at \notin {"free", "queued", "done"},
         SvcMayBe(o, R, cs[k], place, outcome),
         NEW cs2, cs2 = [cs EXCEPT ![k] = SvcTo(cs[k], place, outcome)],
         NEW t2, t2 \in [Kinds -> SUBSET Calls], \A j \in Calls \ {k} : SvcFewer(t, t2, j),
         SvcListed(o, R, d.retired, SvcTo(cs[k], place, outcome), t2, k), SvcKept(o, docs, cs2, t2, k)
  PROVE  SvcHolds(o, cs2, q, t2, docs, d, R)
<1>1. SvcPlaced(o, R, cs[k]) /\ cs[k] \in SvcWorkRecord
  BY DEF SvcHolds, SvcPlaced
<1> DEFINE e == SvcTo(cs[k], place, outcome)
<1>2. SvcPlaced(o, R, e)
  BY <1>1, SvcToPlaced
<1>3. e.at = place /\ e.m = cs[k].m /\ e.gen = cs[k].gen
  BY <1>1, SvcToFields
<1>4. cs[k].out # "ok"
  BY <1>1 DEF SvcPlaced
<1>5. e.at # "free"
  BY <1>3 DEF SvcMayBe
<1> HIDE DEF e
<1>6. cs2 = [cs EXCEPT ![k] = e] /\ SvcListed(o, R, d.retired, e, t2, k)
  BY DEF e
<1> HIDE DEF SvcHolds
<1> QED BY <1>2, <1>3, <1>4, <1>5, <1>6, SvcMoves

(* An early call is in no table that matters.                                *)
LEMMA SvcNotListed ==
  ASSUME NEW o, NEW R, NEW D, NEW c, NEW t, NEW k, SvcListed(o, R, D, c, t, k),
         c.at \in SvcEarly \cup {"queued", "free"}
  PROVE  /\ k \notin t.runner /\ k \notin t.watch /\ k \notin t.profile /\ k \notin t.written
         /\ k \in t.selecting => k \in t.cancelled
BY DEF SvcListed, SvcLasts, SvcEarly

(* A step of an early call.                                                  *)
LEMMA SvcMovesEarly ==
  ASSUME NEW o, NEW cs, NEW q, NEW t, NEW docs, NEW d, NEW R, SvcHolds(o, cs, q, t, docs, d, R),
         NEW k \in Calls, NEW place, NEW outcome, cs[k].at \in SvcEarly,
         SvcMayBe(o, R, cs[k], place, outcome)
  PROVE  SvcHolds(o, [cs EXCEPT ![k] = SvcTo(cs[k], place, outcome)], q, t, docs, d, R)
<1> DEFINE e == SvcTo(cs[k], place, outcome)
           cs2 == [cs EXCEPT ![k] = e]
<1>1. SvcPlaced(o, R, cs[k]) /\ cs[k] \in SvcWorkRecord /\ SvcListed(o, R, d.retired, cs[k], t, k)
      /\ t \in [Kinds -> SUBSET Calls] /\ DOMAIN cs = Calls
  BY DEF SvcHolds, SvcPlaced
<1>2. /\ k \notin t.runner /\ k \notin t.watch /\ k \notin t.profile /\ k \notin t.written
      /\ k \in t.selecting => k \in t.cancelled
  BY <1>1, SvcNotListed
<1>3. e.m = cs[k].m /\ e.gen = cs[k].gen
  BY <1>1, SvcToFields
<1>4. SvcListed(o, R, d.retired, e, t, k)
  <2> HIDE DEF e
  <2> QED BY <1>1, <1>2, <1>3 DEF SvcListed
<1>5. SvcKept(o, docs, cs2, t, k)
  BY <1>1, <1>2 DEF SvcKept
<1>6. \A j \in Calls \ {k} : SvcFewer(t, t, j)
  BY DEF SvcFewer
<1>7. cs[k].at \notin {"free", "queued", "done"}
  BY DEF SvcEarly
<1>8. cs2 = [cs EXCEPT ![k] = SvcTo(cs[k], place, outcome)] /\ SvcListed(o, R, d.retired, SvcTo(cs[k], place, outcome), t, k)
  BY <1>4
<1>9. SvcHolds(o, cs2, q, t, docs, d, R)
  <2> HIDE DEF cs2, SvcHolds
  <2> QED BY <1>1, <1>5, <1>6, <1>7, <1>8, SvcPlaceStep
<1> QED BY <1>9

(* What the invariant says of one call.                                      *)
LEMMA SvcOne ==
  ASSUME SvcInv, NEW k \in Calls
  PROVE  /\ calls[k] \in SvcWorkRecord /\ SvcPlaced(own, retiring, calls[k])
         /\ SvcListed(own, retiring, desk.retired, calls[k], tables, k)
         /\ SvcKept(own, documents, calls, tables, k)
         /\ tables \in [Kinds -> SUBSET Calls] /\ DOMAIN calls = Calls
         /\ SvcOwnHolds(own, retiring)
BY DEF SvcInv, SvcHolds, SvcPlaced

(* A call goes to a place with an outcome; the three ways to write it.       *)
SvcAtOut(cs, k, place, outcome) == [cs EXCEPT ![k].at = place, ![k].out = outcome]

(* Its place is set, ...                                                     *)
LEMMA SvcAtSet ==
  ASSUME SvcInv, NEW k \in Calls, NEW place
  PROVE  [calls EXCEPT ![k].at = place] = [calls EXCEPT ![k] = SvcTo(calls[k], place, calls[k].out)]
<1>1. calls[k] \in SvcWorkRecord
  BY SvcOne
<1>2. [calls[k] EXCEPT !.at = place] = SvcTo(calls[k], place, calls[k].out)
  BY <1>1 DEF SvcTo, SvcWorkRecord
<1> QED BY <1>2

(* ... its outcome is set, ...                                               *)
LEMMA SvcOutSet ==
  ASSUME SvcInv, NEW k \in Calls, NEW outcome
  PROVE  [calls EXCEPT ![k].out = outcome] = [calls EXCEPT ![k] = SvcTo(calls[k], calls[k].at, outcome)]
<1>1. calls[k] \in SvcWorkRecord
  BY SvcOne
<1>3. [calls[k] EXCEPT !.out = outcome] = SvcTo(calls[k], calls[k].at, outcome)
  BY <1>1 DEF SvcTo, SvcWorkRecord
<1> QED BY <1>3

(* ... or both.                                                              *)
LEMMA SvcBothSet ==
  ASSUME SvcInv, NEW k \in Calls, NEW place, NEW outcome
  PROVE  SvcAtOut(calls, k, place, outcome) = [calls EXCEPT ![k] = SvcTo(calls[k], place, outcome)]
BY SvcOne DEF SvcTo, SvcWorkRecord, SvcAtOut

(* A write takes the lock of the file, ...                                   *)
LEMMA SvcLocks ==
  ASSUME SvcInv, NEW k \in Calls, Locks(k)
  PROVE  SvcInv'
<1>1. calls[k].at = "acts" /\ calls[k].m = "write" /\ calls[k].out = "none"
  BY SvcOne DEF Locks, SvcPlaced, SvcNotYetOut
<1>2. SvcMayBe(own, retiring, calls[k], "locked", calls[k].out)
  BY <1>1 DEF SvcMayBe, Places, SvcNotYetOut
<1>3. SvcHolds(own, [calls EXCEPT ![k] = SvcTo(calls[k], "locked", calls[k].out)], queue, tables, documents, desk, retiring)
  BY <1>1, <1>2, SvcMovesEarly DEF SvcEarly, SvcInv
<1> QED BY <1>3, SvcAtSet DEF SvcInv, Locks, At

(* ... is checked under it, ...                                              *)
LEMMA SvcCheckedLocked ==
  ASSUME SvcInv, NEW k \in Calls, CheckedLocked(k)
  PROVE  SvcInv'
<1>1. calls[k].at = "locked" /\ calls[k].m = "write" /\ calls[k].out = "none" /\ calls[k].gen \in Gens
  BY SvcOne DEF CheckedLocked, SvcPlaced
<1>2. CASE check(k)
  <2>1. SvcOwned(own, retiring, calls[k].gen, SvcBeforeRest)
    BY <1>2 DEF check, OwnerOf, SvcOwned
  <2>2. SvcMayBe(own, retiring, calls[k], "commits", calls[k].out)
    BY <1>1, <2>1 DEF SvcMayBe, Places, SvcNotYetOut
  <2>3. SvcHolds(own, [calls EXCEPT ![k] = SvcTo(calls[k], "commits", calls[k].out)], queue, tables, documents, desk, retiring)
    BY <1>1, <2>2, SvcMovesEarly DEF SvcEarly, SvcInv
  <2> QED BY <1>2, <2>3, SvcAtSet DEF SvcInv, CheckedLocked, At
<1>3. CASE ~check(k)
  <2>2. SvcMayBe(own, retiring, calls[k], calls[k].at, "refused")
    BY <1>1 DEF SvcMayBe, Places, SvcNotYetOut
  <2>3. SvcHolds(own, [calls EXCEPT ![k] = SvcTo(calls[k], calls[k].at, "refused")], queue, tables, documents, desk, retiring)
    BY <1>1, <2>2, SvcMovesEarly DEF SvcEarly, SvcInv
  <2>4. calls' = [calls EXCEPT ![k] = SvcTo(calls[k], calls[k].at, "refused")] /\ Fails(k)
    BY <1>3, SvcOutSet DEF CheckedLocked
  <2>5. SvcHolds(own', calls', queue, tables, documents, desk, retiring')
    BY <2>3, <2>4, <1>1, SvcFails
  <2> QED BY <2>5 DEF SvcInv, CheckedLocked
<1> QED BY <1>2, <1>3

(* ... and lets go.                                                          *)
LEMMA SvcUnlocks ==
  ASSUME SvcInv, NEW k \in Calls, Unlocks(k)
  PROVE  SvcInv'
<1>1. calls[k].at = "locked" /\ calls[k].out = "refused"
  BY DEF Unlocks
<1>2. SvcMayBe(own, retiring, calls[k], "done", calls[k].out)
  BY <1>1 DEF SvcMayBe, Places, SvcNotYetOut
<1>3. SvcHolds(own, [calls EXCEPT ![k] = SvcTo(calls[k], "done", calls[k].out)], queue, tables, documents, desk, retiring)
  BY <1>1, <1>2, SvcMovesEarly DEF SvcEarly, SvcInv
<1> QED BY <1>3, SvcAtSet DEF SvcInv, Unlocks, At

(* The caller gives up while the desktop thread is slow.                     *)
LEMMA SvcGivesUp ==
  ASSUME SvcInv, NEW k \in Calls, GivesUp(k)
  PROVE  SvcInv'
<1> DEFINE ot == IF calls[k].at = "waits" THEN "unknown" ELSE calls[k].out
<1>1. calls[k].at \in {"waits", "unwinds"} /\ ot \in {"none", "refused", "unknown"}
  BY SvcOne DEF GivesUp, SvcPlaced, SvcWorkRecord
<1>2. SvcMayBe(own, retiring, calls[k], "done", ot)
  <2> HIDE DEF ot
  <2> QED BY <1>1 DEF SvcMayBe, Places, SvcNotYetOut
<1>3. SvcHolds(own, [calls EXCEPT ![k] = SvcTo(calls[k], "done", ot)], queue, tables, documents, desk, retiring)
  BY <1>1, <1>2, SvcMovesEarly DEF SvcEarly, SvcInv
<1>4. calls' = [calls EXCEPT ![k] = SvcTo(calls[k], "done", ot)]
  <2>1. calls' = SvcAtOut(calls, k, "done", ot)
    BY DEF GivesUp, SvcAtOut
  <2> HIDE DEF ot
  <2> QED BY <2>1, SvcBothSet
<1> QED BY <1>3, <1>4 DEF SvcInv, GivesUp

(* A call ends refused.                                                      *)
LEMMA SvcEndsRefused ==
  ASSUME SvcInv, NEW k \in Calls, calls[k].at \in SvcEarly
  PROVE  /\ SvcHolds(own, [calls EXCEPT ![k].at = "done", ![k].out = "refused"], queue, tables, documents, desk, retiring)
         /\ calls[k].gen \in Gens
<1>2. SvcMayBe(own, retiring, calls[k], "done", "refused")
  BY DEF SvcMayBe, Places, SvcNotYetOut
<1>3. SvcHolds(own, [calls EXCEPT ![k] = SvcTo(calls[k], "done", "refused")], queue, tables, documents, desk, retiring)
  BY <1>2, SvcMovesEarly DEF SvcInv
<1>4. calls[k].gen \in Gens
  BY SvcOne DEF SvcPlaced, SvcEarly
<1>5. SvcHolds(own, SvcAtOut(calls, k, "done", "refused"), queue, tables, documents, desk, retiring)
  <2>1. SvcAtOut(calls, k, "done", "refused") = [calls EXCEPT ![k] = SvcTo(calls[k], "done", "refused")]
    BY SvcBothSet
  <2> QED BY <1>3, <2>1
<1> QED BY <1>4, <1>5 DEF SvcAtOut

(* Entries of one call are added to the tables.                              *)
LEMMA SvcPuts ==
  ASSUME SvcInv, NEW k \in Calls, calls[k].at \in {"acts", "commits"}, NEW t2, t2 \in [Kinds -> SUBSET Calls],
         \A j \in Calls \ {k} : SvcFewer(tables, t2, j),
         SvcListed(own, retiring, desk.retired, SvcTo(calls[k], "ends", "none"), t2, k)
  PROVE  SvcHolds(own, [calls EXCEPT ![k].at = "ends"], queue, t2, documents, desk, retiring)
<1>1. calls[k].out = "none" /\ calls[k] \in SvcWorkRecord /\ DOMAIN calls = Calls
  BY SvcOne DEF SvcPlaced, SvcNotYetOut
<1> DEFINE cs2 == [calls EXCEPT ![k] = SvcTo(calls[k], "ends", "none")]
<1>2. SvcMayBe(own, retiring, calls[k], "ends", "none")
  BY DEF SvcMayBe, Places, SvcNotYetOut
<1>3. SvcKept(own, documents, cs2, t2, k)
  BY <1>1, SvcToFields DEF SvcKept
<1>4. calls[k].at \notin {"free", "queued", "done"}
  OBVIOUS
<1>5. SvcHolds(own, cs2, queue, t2, documents, desk, retiring)
  BY <1>2, <1>3, <1>4, SvcPlaceStep DEF SvcInv
<1>6. [calls EXCEPT ![k].at = "ends"] = cs2
  <2>1. [calls EXCEPT ![k].at = "ends"] = [calls EXCEPT ![k] = SvcTo(calls[k], "ends", calls[k].out)]
    BY SvcAtSet
  <2> QED BY <2>1, <1>1
<1> QED BY <1>5, <1>6

(* The file is replaced.                                                     *)
LEMMA SvcCommits ==
  ASSUME SvcInv, NEW k \in Calls, Commits(k)
  PROVE  SvcInv'
<1>1. /\ calls[k].at = "commits" /\ calls[k].m = "write" /\ calls[k] \in SvcWorkRecord
      /\ tables \in [Kinds -> SUBSET Calls] /\ SvcListed(own, retiring, desk.retired, calls[k], tables, k)
  BY SvcOne DEF Commits, SvcPlaced
<1>2. CASE tables' = [tables EXCEPT !.written = @ \cup {k}] /\ At(k, "ends")
  <2>1. tables' \in [Kinds -> SUBSET Calls] /\ tables'.written = tables.written \cup {k}
        /\ \A x \in Kinds \ {"written"} : tables'[x] = tables[x]
    BY <1>1, <1>2 DEF Kinds
  <2>2. \A j \in Calls \ {k} : SvcFewer(tables, tables', j)
    BY <2>1 DEF SvcFewer, Kinds
  <2> DEFINE e == SvcTo(calls[k], "ends", "none")
  <2>3. e.m = "write" /\ e.gen = calls[k].gen /\ e.at = "ends" /\ e.out = "none"
    BY <1>1, SvcToFields
  <2>4. /\ k \notin tables.runner /\ k \notin tables.watch /\ k \notin tables.profile
        /\ k \in tables.selecting => k \in tables.cancelled
    BY <1>1, SvcNotListed DEF SvcEarly
  <2>5. SvcListed(own, retiring, desk.retired, e, tables', k)
    <3> HIDE DEF e
    <3> QED BY <1>1, <2>1, <2>3, <2>4 DEF SvcListed, Kinds
  <2>6. SvcHolds(own, [calls EXCEPT ![k].at = "ends"], queue, tables', documents, desk, retiring)
    BY <1>1, <2>1, <2>2, <2>5, SvcPuts
  <2> QED BY <1>2, <2>6 DEF SvcInv, Commits, At
<1>3. CASE Refuses(k)
  <2>1. calls[k].at \in SvcEarly
    BY <1>1 DEF SvcEarly
  <2> QED BY <1>3, <2>1, SvcEndsRefused DEF SvcInv, Commits, Refuses, Ends
<1> QED BY <1>2, <1>3 DEF Commits

(* What holds of a call that acts.                                           *)
LEMMA SvcActing ==
  ASSUME SvcInv, NEW k \in Calls, calls[k].at = "acts"
  PROVE  /\ calls[k] \in SvcWorkRecord /\ calls[k].gen \in Gens /\ tables \in [Kinds -> SUBSET Calls]
         /\ k \notin tables.runner /\ k \notin tables.watch /\ k \notin tables.profile /\ k \notin tables.written
         /\ k \in tables.selecting => calls[k].m = "dialog" /\ k \in tables.dialog /\ k \in tables.cancelled
         /\ k \in tables.shortcut \cup tables.notice =>
              calls[k].m \in Desktop /\ (SvcOwned(own, retiring, calls[k].gen, SvcAnyStep) \/ calls[k].gen \in desk.retired)
         /\ calls[k].gen \in own.refused \/ SvcOwned(own, retiring, calls[k].gen, {"resources"})
         /\ SvcTo(calls[k], "ends", "none").at = "ends" /\ SvcTo(calls[k], "ends", "none").out = "none"
         /\ SvcTo(calls[k], "ends", "none").m = calls[k].m /\ SvcTo(calls[k], "ends", "none").gen = calls[k].gen
<1>1. SvcListed(own, retiring, desk.retired, calls[k], tables, k) /\ SvcPlaced(own, retiring, calls[k]) /\ calls[k] \in SvcWorkRecord
      /\ tables \in [Kinds -> SUBSET Calls]
  BY SvcOne
<1>2. /\ k \notin tables.runner /\ k \notin tables.watch /\ k \notin tables.profile /\ k \notin tables.written
      /\ k \in tables.selecting => k \in tables.cancelled
  BY <1>1, SvcNotListed DEF SvcEarly
<1>3. /\ SvcTo(calls[k], "ends", "none").at = "ends" /\ SvcTo(calls[k], "ends", "none").out = "none"
      /\ SvcTo(calls[k], "ends", "none").m = calls[k].m /\ SvcTo(calls[k], "ends", "none").gen = calls[k].gen
  BY <1>1, SvcToFields
<1>4. calls[k].gen \in Gens /\ (calls[k].gen \in own.refused \/ SvcOwned(own, retiring, calls[k].gen, {"resources"}))
  BY <1>1 DEF SvcPlaced
<1> QED BY <1>1, <1>2, <1>3, <1>4 DEF SvcListed

(* An acting call registers in one table.                                    *)
LEMMA SvcPutsOne ==
  ASSUME SvcInv, NEW k \in Calls, calls[k].at = "acts", NEW x \in {"runner", "watch", "profile"}, calls[k].m = x,
         x = "runner" => calls[k].gen \notin own.refused, Puts(k, {x}), UNCHANGED <<own, retiring, queue, documents, desk>>
  PROVE  SvcInv'
<1>1. /\ tables' \in [Kinds -> SUBSET Calls] /\ tables'[x] = tables[x] \cup {k}
      /\ \A y \in Kinds \ {x} : tables'[y] = tables[y]
  BY SvcActing DEF Puts, Kinds
<1>2. \A j \in Calls \ {k} : SvcFewer(tables, tables', j)
  BY <1>1 DEF SvcFewer, Kinds
<1> DEFINE e == SvcTo(calls[k], "ends", "none")
           t2 == tables'
<1>3. /\ e.at = "ends" /\ e.out = "none" /\ e.m = x /\ e.gen = calls[k].gen
      /\ calls[k].gen \in own.refused \/ SvcOwned(own, retiring, e.gen, {"resources"})
  BY SvcActing
<1>4. /\ x # "runner" => k \notin t2.runner
      /\ x # "watch" => k \notin t2.watch
      /\ x # "profile" => k \notin t2.profile
      /\ k \notin t2.written
      /\ k \notin t2.selecting /\ k \notin t2.shortcut /\ k \notin t2.notice
  BY <1>1, SvcActing DEF Kinds, Desktop
<1>5. SvcListed(own, retiring, desk.retired, e, t2, k)
  <2> HIDE DEF e, t2
  <2> QED BY <1>3, <1>4 DEF SvcListed, SvcLasts
<1>6. SvcHolds(own, [calls EXCEPT ![k].at = "ends"], queue, tables', documents, desk, retiring)
  BY <1>1, <1>2, <1>5, SvcPuts
<1> QED BY <1>6 DEF SvcInv, Puts, At

(* A dialog is selected.                                                     *)
LEMMA SvcDialogs ==
  ASSUME SvcInv, NEW k \in Calls, calls[k].at = "acts", calls[k].m = "dialog",
         tables.selecting \cap Of(calls[k].gen) = {}, At(k, "ends"),
         tables' = [tables EXCEPT !.dialog = (@ \ Of(calls[k].gen)) \cup {k}, !.selecting = @ \cup {k}],
         UNCHANGED <<own, retiring, queue, documents, desk>>
  PROVE  SvcInv'
<1>1. /\ tables' \in [Kinds -> SUBSET Calls] /\ tables'.dialog = (tables.dialog \ Of(calls[k].gen)) \cup {k}
      /\ tables'.selecting = tables.selecting \cup {k}
      /\ \A y \in Kinds \ {"dialog", "selecting"} : tables'[y] = tables[y]
  <2> DEFINE di == (tables.dialog \ Of(calls[k].gen)) \cup {k}
             se == tables.selecting \cup {k}
  <2>1. tables' = [tables EXCEPT !.dialog = di, !.selecting = se]
    OBVIOUS
  <2>2. di \subseteq Calls /\ se \subseteq Calls
    BY SvcActing DEF Kinds
  <2> HIDE DEF di, se
  <2>3. tables' \in [Kinds -> SUBSET Calls] /\ tables'.dialog = di /\ tables'.selecting = se
        /\ \A y \in Kinds \ {"dialog", "selecting"} : tables'[y] = tables[y]
    <3>1. tables \in [Kinds -> SUBSET Calls] /\ "dialog" \in Kinds /\ "selecting" \in Kinds
      BY SvcActing DEF Kinds
    <3>2. tables'.dialog = di /\ tables'.selecting = se /\ \A y \in Kinds \ {"dialog", "selecting"} : tables'[y] = tables[y]
      BY <2>1, <3>1
    <3>3. tables' \in [Kinds -> SUBSET Calls]
      BY <2>1, <2>2, <3>1
    <3> QED BY <3>2, <3>3
  <2> QED BY <2>3 DEF di, se
<1>2. \A j \in Calls \ {k} : SvcFewer(tables, tables', j)
  <2> SUFFICES ASSUME NEW j \in Calls \ {k} PROVE SvcFewer(tables, tables', j)
    OBVIOUS
  <2>1. j \in tables'.selecting => j \in tables.selecting /\ j \notin Of(calls[k].gen)
    BY <1>1
  <2>2. j \in tables'.selecting /\ j \in tables.dialog => j \in tables'.dialog
    BY <1>1, <2>1
  <2>3. tables'.cancelled = tables.cancelled
        /\ \A y \in {"runner", "watch", "profile", "shortcut", "notice", "written"} : tables'[y] = tables[y]
    BY <1>1 DEF Kinds
  <2> QED BY <2>1, <2>2, <2>3 DEF SvcFewer
<1> DEFINE e == SvcTo(calls[k], "ends", "none")
           t2 == tables'
<1>3. e.at = "ends" /\ e.out = "none" /\ e.m = "dialog" /\ e.gen = calls[k].gen
  BY SvcActing
<1>4. /\ k \notin t2.runner /\ k \notin t2.watch /\ k \notin t2.profile /\ k \notin t2.written
      /\ k \in t2.dialog /\ k \notin t2.shortcut /\ k \notin t2.notice
  BY <1>1, SvcActing DEF Kinds, Desktop
<1>5. SvcListed(own, retiring, desk.retired, e, t2, k)
  <2> HIDE DEF e, t2
  <2> QED BY <1>3, <1>4 DEF SvcListed, SvcLasts
<1>6. SvcHolds(own, [calls EXCEPT ![k].at = "ends"], queue, tables', documents, desk, retiring)
  BY <1>1, <1>2, <1>5, SvcPuts
<1> QED BY <1>6 DEF SvcInv, At

(* An acting call is refused.                                                *)
LEMMA SvcRefuses ==
  ASSUME SvcInv, NEW k \in Calls, calls[k].at = "acts", Refuses(k), UNCHANGED <<own, retiring, queue, documents, desk>>
  PROVE  SvcInv'
<1>1. calls[k].at \in SvcEarly
  BY DEF SvcEarly
<1> QED BY <1>1, SvcEndsRefused DEF SvcInv, Refuses, Ends

(* A fetch is done.                                                          *)
LEMMA SvcFetches ==
  ASSUME SvcInv, NEW k \in Calls, calls[k].at = "acts", fetch(k), UNCHANGED <<queue, documents, desk>>
  PROVE  SvcInv'
<1>1. /\ tables' \in [Kinds -> SUBSET Calls] /\ \A y \in Kinds \ {"status"} : tables'[y] = tables[y]
  <2>1. tables' = [tables EXCEPT !.status = @ \cup {k}]
    BY DEF fetch, Noted
  <2> QED BY <2>1, SvcActing DEF Kinds
<1>2. \A j \in Calls : SvcFewer(tables, tables', j)
  BY <1>1 DEF SvcFewer, Kinds
<1>3. CASE check(k)
  <2> DEFINE e == SvcTo(calls[k], "ends", "none")
             t2 == tables'
  <2>3. e.at = "ends" /\ e.out = "none" /\ e.m = calls[k].m /\ e.gen = calls[k].gen
    BY SvcActing
  <2>4. /\ k \notin t2.runner /\ k \notin t2.watch /\ k \notin t2.profile /\ k \notin t2.written
        /\ t2.selecting = tables.selecting /\ t2.dialog = tables.dialog /\ t2.cancelled = tables.cancelled
        /\ t2.shortcut = tables.shortcut /\ t2.notice = tables.notice
    BY <1>1, SvcActing DEF Kinds
  <2>5. SvcListed(own, retiring, desk.retired, e, t2, k)
    <3> HIDE DEF e, t2
    <3> QED BY <2>3, <2>4, SvcActing DEF SvcListed, SvcLasts
  <2>6. SvcHolds(own, [calls EXCEPT ![k].at = "ends"], queue, tables', documents, desk, retiring)
    BY <1>1, <1>2, <2>5, SvcPuts
  <2> QED BY <1>3, <2>6 DEF SvcInv, At, fetch
<1>4. CASE ~check(k)
  <2>1. calls[k].at \in SvcEarly
    BY DEF SvcEarly
  <2>2. SvcHolds(own, calls', queue, tables, documents, desk, retiring) /\ calls[k].gen \in Gens /\ Fails(k)
    BY <1>4, <2>1, SvcEndsRefused DEF Ends, fetch
  <2>3. SvcHolds(own, calls', queue, tables', documents, desk, retiring)
    BY <2>2, <1>1, <1>2, SvcTables
  <2>4. SvcHolds(own', calls', queue, tables', documents, desk, retiring')
    BY <2>2, <2>3, SvcFails
  <2> QED BY <2>4 DEF SvcInv
<1> QED BY <1>3, <1>4

(* A call acts.                                                              *)
LEMMA SvcActs ==
  ASSUME SvcInv, NEW k \in Calls, Acts(k)
  PROVE  SvcInv'
<1>1. calls[k].at = "acts" /\ UNCHANGED <<queue, documents, desk>>
  BY DEF Acts
<1>2. CASE fetch(k)
  BY <1>1, <1>2, SvcFetches
<1>3. CASE Plain(k)
  <2>1. UNCHANGED <<own, retiring>>
    BY <1>3 DEF Plain
  <2>2. CASE Registers(k)
    <3>1. CASE calls[k].gen \in own.refused
      BY <3>1, <2>1, <2>2, <1>1, SvcRefuses DEF Registers
    <3>2. CASE calls[k].gen \notin own.refused
      BY <3>2, <2>1, <2>2, <1>1, SvcPutsOne DEF Registers
    <3> QED BY <3>1, <3>2
  <2>3. CASE watch(k)
    <3>1. calls[k].m = "watch" /\ (Puts(k, {"watch"}) \/ Refuses(k))
      BY <2>3 DEF watch
    <3> QED BY <3>1, <2>1, <1>1, SvcRefuses, SvcPutsOne
  <2>4. CASE dialog(k)
    <3>1. CASE tables.selecting \cap Of(calls[k].gen) # {}
      BY <3>1, <2>1, <2>4, <1>1, SvcRefuses DEF dialog
    <3>2. CASE tables.selecting \cap Of(calls[k].gen) = {}
      BY <3>2, <2>1, <2>4, <1>1, SvcDialogs DEF dialog
    <3> QED BY <3>1, <3>2
  <2>5. CASE createProfile(k)
    BY <2>5, <2>1, <1>1, SvcPutsOne DEF createProfile
  <2> QED BY <1>3, <2>2, <2>3, <2>4, <2>5 DEF Plain
<1> QED BY <1>2, <1>3 DEF Acts

(* A call is checked once more.                                              *)
LEMMA SvcChecked ==
  ASSUME SvcInv, NEW k \in Calls, check(k)
  PROVE  own.owner = calls[k].gen /\ \A S : SvcOwned(own, retiring, calls[k].gen, S)
BY DEF check, OwnerOf, SvcOwned

(* The check after the action.                                               *)
LEMMA SvcRechecks ==
  ASSUME SvcInv, NEW k \in Calls, Rechecks(k)
  PROVE  SvcInv'
<1>1. calls[k].at = "ends" /\ calls[k].out = "none" /\ calls[k].gen \in Gens
  BY SvcOne DEF Rechecks, SvcPlaced, SvcNotYetOut
<1>f. \A j \in Calls \ {k} : SvcFewer(tables, tables, j)
  BY DEF SvcFewer
<1>a. calls[k].at \notin {"free", "queued", "done"} /\ tables \in [Kinds -> SUBSET Calls] /\ DOMAIN calls = Calls
      /\ calls[k] \in SvcWorkRecord
  BY <1>1, SvcOne
<1>2. CASE check(k)
  <2> DEFINE e == SvcTo(calls[k], "registers", "none")
             cs2 == [calls EXCEPT ![k] = e]
  <2>1. e.at = "registers" /\ e.out = "none" /\ e.m = calls[k].m /\ e.gen = calls[k].gen
    BY <1>a, SvcToFields
  <2>2. SvcMayBe(own, retiring, calls[k], "registers", "none")
    BY DEF SvcMayBe, Places, SvcNotYetOut
  <2>3. SvcListed(own, retiring, desk.retired, e, tables, k)
    <3>1. SvcListed(own, retiring, desk.retired, calls[k], tables, k)
      BY SvcOne
    <3> HIDE DEF e
    <3> QED BY <3>1, <2>1, <1>1, <1>2, SvcChecked DEF SvcListed, SvcLasts
  <2>4. SvcKept(own, documents, cs2, tables, k)
    BY <2>1, <1>a DEF SvcKept
  <2>5. SvcHolds(own, cs2, queue, tables, documents, desk, retiring)
    BY <2>2, <2>3, <2>4, <1>f, <1>a, SvcPlaceStep DEF SvcInv
  <2>6. calls' = cs2
    <3>1. calls' = [calls EXCEPT ![k].at = "registers"]
      BY <1>2 DEF Rechecks, At
    <3>2. [calls EXCEPT ![k].at = "registers"] = [calls EXCEPT ![k] = SvcTo(calls[k], "registers", calls[k].out)]
      BY SvcAtSet
    <3> QED BY <3>1, <3>2, <1>1
  <2> QED BY <1>2, <2>5, <2>6 DEF SvcInv, Rechecks
<1>3. CASE ~check(k)
  <2> DEFINE ot == IF mutates(calls[k].m) THEN "unknown" ELSE "refused"
             e == SvcTo(calls[k], "undoes", ot)
             cs2 == [calls EXCEPT ![k] = e]
  <2>0. ot \in {"unknown", "refused"} /\ (calls[k].m = "write" => ot = "unknown")
    BY DEF mutates
  <2>1. e.at = "undoes" /\ e.out = ot /\ e.m = calls[k].m /\ e.gen = calls[k].gen
    BY <1>a, SvcToFields
  <2>2. SvcMayBe(own, retiring, calls[k], "undoes", ot)
    <3> HIDE DEF ot
    <3> QED BY <2>0 DEF SvcMayBe, Places, SvcNotYetOut
  <2>3. SvcListed(own, retiring, desk.retired, e, tables, k)
    <3>1. SvcListed(own, retiring, desk.retired, calls[k], tables, k)
      BY SvcOne
    <3> HIDE DEF e, ot
    <3> QED BY <3>1, <2>0, <2>1, <1>1 DEF SvcListed, SvcLasts
  <2>4. SvcKept(own, documents, cs2, tables, k)
    BY <2>1, <1>a DEF SvcKept
  <2>5. SvcHolds(own, cs2, queue, tables, documents, desk, retiring)
    BY <2>2, <2>3, <2>4, <1>f, <1>a, SvcPlaceStep DEF SvcInv
  <2>6. calls' = cs2
    <3>1. calls' = SvcAtOut(calls, k, "undoes", ot)
      BY <1>3 DEF Rechecks, SvcAtOut
    <3>2. SvcAtOut(calls, k, "undoes", ot) = [calls EXCEPT ![k] = SvcTo(calls[k], "undoes", ot)]
      BY SvcBothSet
    <3> QED BY <3>1, <3>2
  <2>7. SvcHolds(own', calls', queue, tables, documents, desk, retiring')
    <3>1. Fails(k)
      BY <1>3 DEF Rechecks
    <3>2. SvcHolds(own, calls', queue, tables, documents, desk, retiring)
      BY <2>5, <2>6
    <3> QED BY <3>1, <3>2, <1>1, SvcFails
  <2> QED BY <2>7 DEF SvcInv, Rechecks
<1> QED BY <1>2, <1>3

(* What belongs to no document is complete.                                  *)
LEMMA SvcEnrolsPlain ==
  ASSUME SvcInv, NEW k \in Calls, calls[k].at = "registers", NEW place, NEW outcome,
         \/ ~InDocument(k) /\ place = "done" /\ outcome = "ok"
         \/ InDocument(k) /\ place = "undoes" /\ outcome = "refused"
  PROVE  SvcHolds(own, SvcAtOut(calls, k, place, outcome), queue, tables, documents, desk, retiring)
<1>f. \A j \in Calls \ {k} : SvcFewer(tables, tables, j)
  BY DEF SvcFewer
<1>a. calls[k].at \notin {"free", "queued", "done"} /\ tables \in [Kinds -> SUBSET Calls] /\ DOMAIN calls = Calls
      /\ calls[k] \in SvcWorkRecord /\ SvcListed(own, retiring, desk.retired, calls[k], tables, k)
  BY SvcOne
<1> DEFINE e == SvcTo(calls[k], place, outcome)
           cs2 == [calls EXCEPT ![k] = e]
<1>1. e.at = place /\ e.out = outcome /\ e.m = calls[k].m /\ e.gen = calls[k].gen /\ e.doc = calls[k].doc
  BY <1>a, SvcToFields
<1>2. SvcMayBe(own, retiring, calls[k], place, outcome)
  BY DEF SvcMayBe, Places, SvcNotYetOut
<1>3. SvcListed(own, retiring, desk.retired, e, tables, k)
  <2> HIDE DEF e
  <2> QED BY <1>a, <1>1 DEF SvcListed, SvcLasts, InDocument
<1>4. SvcKept(own, documents, cs2, tables, k)
  <2>1. cs2[k] = e
    BY <1>a
  <2>2. k \in tables.runner => calls[k].m = "runner"
    BY <1>a DEF SvcListed
  <2> HIDE DEF e, cs2
  <2> QED BY <2>1, <2>2, <1>1 DEF SvcKept, InDocument
<1>5. SvcHolds(own, cs2, queue, tables, documents, desk, retiring)
  BY <1>2, <1>3, <1>4, <1>f, <1>a, SvcPlaceStep DEF SvcInv
<1>6. SvcAtOut(calls, k, place, outcome) = cs2
  BY SvcBothSet
<1> QED BY <1>5, <1>6

(* What belongs to a document is held by it.                                 *)
LEMMA SvcEnrolsIn ==
  ASSUME SvcInv, NEW k \in Calls, Enrols(k), InDocument(k), Scoped(k)
  PROVE  SvcInv'
<1> DEFINE g == calls[k].gen
           kept == IF calls[k].m = "dialog" THEN {j \in documents[g].held : calls[j].m # "dialog"} ELSE documents[g].held
           e == SvcTo(calls[k], "done", "ok")
           cs2 == [calls EXCEPT ![k] = e]
           docs2 == [documents EXCEPT ![g].held = kept \cup {k}]
<1>1. calls[k].at = "registers" /\ calls' = SvcAtOut(calls, k, "done", "ok") /\ documents' = docs2
      /\ UNCHANGED <<own, queue, tables, desk, retiring>>
  BY DEF Enrols, Ends, SvcAtOut
<1>a. /\ tables \in [Kinds -> SUBSET Calls] /\ DOMAIN calls = Calls /\ calls[k] \in SvcWorkRecord
      /\ SvcListed(own, retiring, desk.retired, calls[k], tables, k) /\ SvcPlaced(own, retiring, calls[k])
      /\ documents \in [Gens -> SvcDocumentRecord]
  BY SvcOne DEF SvcInv, SvcHolds
<1>b. g \in Gens /\ calls[k].out = "none"
  BY <1>a, <1>1 DEF SvcPlaced, SvcNotYetOut
<1>2. cs2 = calls' /\ cs2[k] = e /\ \A j \in Calls \ {k} : cs2[j] = calls[j]
  BY <1>1, <1>a, SvcBothSet
<1>3. e.at = "done" /\ e.out = "ok" /\ e.m = calls[k].m /\ e.gen = g /\ e.doc = calls[k].doc /\ e.epoch = calls[k].epoch
  BY <1>a, SvcToFields
<1>k. kept \subseteq documents[g].held /\ kept \subseteq Calls
  BY <1>a, <1>b DEF SvcDocumentRecord
<1>4. /\ docs2 \in [Gens -> SvcDocumentRecord]
      /\ \A h \in Gens : docs2[h].epoch = documents[h].epoch /\ docs2[h].ending = documents[h].ending
      /\ docs2[g].held = kept \cup {k}
      /\ \A h \in Gens \ {g} : docs2[h] = documents[h]
  <2>1. kept \cup {k} \in SUBSET Calls
    BY <1>k
  <2> HIDE DEF kept
  <2> QED BY <2>1, <1>a, <1>b DEF SvcDocumentRecord
<1>5. SvcPlaced(own, retiring, e)
  <2>1. SvcMayBe(own, retiring, calls[k], "done", "ok")
    BY DEF SvcMayBe, Places, SvcNotYetOut
  <2>2. calls[k].at # "free"
    BY <1>1
  <2> QED BY <2>1, <2>2, <1>a, SvcToPlaced
<1>6. SvcListed(own, retiring, desk.retired, e, tables, k)
  <2> HIDE DEF e
  <2> QED BY <1>a, <1>1, <1>3 DEF SvcListed, SvcLasts
<1>7. SvcKept(own, docs2, cs2, tables, k)
  <2>1. documents[g].epoch = calls[k].epoch
    BY DEF Scoped, InDocument
  <2>2. docs2[g].epoch = e.epoch /\ k \in docs2[g].held
    BY <2>1, <1>3, <1>4, <1>b
  <2> HIDE DEF docs2, cs2, e
  <2> QED BY <2>2, <1>2, <1>3 DEF SvcKept
<1>8. ASSUME NEW j \in Calls \ {k}, calls[j].gen \in Gens
      PROVE  SvcDocsStay(documents, docs2, calls, cs2, j)
  <2> DEFINE h == calls[j].gen
  <2>1. docs2[h].epoch = documents[h].epoch /\ docs2[h].ending = documents[h].ending
    BY <1>4, <1>8
  <2>2. ASSUME j \in documents[h].held, j \notin docs2[h].held
        PROVE  calls[j].m = "dialog" /\ SvcAnotherOk(cs2, j)
    <3>1. h = g /\ j \notin kept
      BY <2>2, <1>4, <1>8
    <3>2. calls[k].m = "dialog" /\ calls[j].m = "dialog"
      BY <3>1, <2>2
    <3> HIDE DEF cs2, e
    <3> QED BY <3>2, <1>2, <1>3 DEF SvcAnotherOk
  <2> HIDE DEF docs2, cs2
  <2> QED BY <2>1, <2>2 DEF SvcDocsStay
<1>9. SvcDeskHolds(own, retiring, desk, cs2) /\ SvcQueueHolds(queue, cs2)
  <2>1. e.at # "free" /\ e.m = calls[k].m /\ e.gen = calls[k].gen /\ calls[k].at # "queued"
    BY <1>3, <1>1
  <2>2. SvcDeskHolds(own, retiring, desk, calls) /\ SvcQueueHolds(queue, calls)
    BY DEF SvcInv, SvcHolds
  <2> HIDE DEF e
  <2> QED BY <2>1, <2>2, <1>a, SvcDeskStays, SvcQueueStays
<1>10. \A j \in Calls \ {k} : SvcFewer(tables, tables, j)
  BY DEF SvcFewer
<1>11. calls[k].out # "ok"
  BY <1>b
<1>12. SvcCallOk(own, calls, tables, documents, desk, retiring, k, e, cs2, queue, tables, docs2, desk)
  BY <1>a, <1>4, <1>5, <1>6, <1>7, <1>8, <1>9, <1>10, <1>11 DEF SvcCallOk
<1>13. SvcHolds(own, cs2, queue, tables, docs2, desk, retiring)
  <2> HIDE DEF cs2, docs2, e
  <2> QED BY <1>12, SvcCallStep DEF SvcInv
<1> QED BY <1>13, <1>1, <1>2 DEF SvcInv

(* The document takes the resource of the call, or the document has ended    *)
(* and it has to be undone.                                                  *)
LEMMA SvcEnrols ==
  ASSUME SvcInv, NEW k \in Calls, Enrols(k)
  PROVE  SvcInv'
<1>1. CASE InDocument(k) /\ Scoped(k)
  BY <1>1, SvcEnrolsIn
<1>2. CASE InDocument(k) /\ ~Scoped(k)
  <2>1. calls[k].at = "registers" /\ calls' = SvcAtOut(calls, k, "undoes", "refused")
    BY <1>2 DEF Enrols, SvcAtOut
  <2>2. SvcHolds(own, calls', queue, tables, documents, desk, retiring)
    BY <2>1, <1>2, SvcEnrolsPlain
  <2> QED BY <2>2, <1>2 DEF SvcInv, Enrols
<1>3. CASE ~InDocument(k)
  <2>1. calls[k].at = "registers" /\ calls' = SvcAtOut(calls, k, "done", "ok")
    BY <1>3 DEF Enrols, Ends, SvcAtOut
  <2>2. SvcHolds(own, calls', queue, tables, documents, desk, retiring)
    BY <2>1, <1>3, SvcEnrolsPlain
  <2> QED BY <2>2, <1>3 DEF SvcInv, Enrols
<1> QED BY <1>1, <1>2, <1>3

(* A command is added for the desktop thread.                                *)
LEMMA SvcCommandAdded ==
  ASSUME NEW o, NEW R, NEW d, NEW cs, SvcDeskHolds(o, R, d, cs), NEW e, e \in SvcCommandRecord,
         e.op # "retire", e.k \in Calls, cs[e.k].m \in Desktop, cs[e.k].gen = e.gen, cs[e.k].at # "free",
         e.op = "register" => SvcOwned(o, R, e.gen, SvcAnyStep) \/ e.gen \in d.retired
  PROVE  /\ SvcDeskHolds(o, R, [d EXCEPT !.commands = Append(@, e)], cs)
         /\ [d EXCEPT !.commands = Append(@, e)].retired = d.retired
<1> DEFINE d2 == [d EXCEPT !.commands = Append(@, e)]
<1>1. d = [commands |-> d.commands, retired |-> d.retired] /\ d.commands \in Seq(SvcCommandRecord)
  BY DEF SvcDeskHolds
<1>2. d2.commands = Append(d.commands, e) /\ d2.retired = d.retired /\ d2 = [commands |-> d2.commands, retired |-> d2.retired]
  <2>1. PICK a, b : d = [commands |-> a, retired |-> b]
    BY <1>1
  <2>3. d.commands = a /\ d.retired = b
    BY <2>1
  <2>2. d2 = [commands |-> Append(a, e), retired |-> b]
    BY <2>1
  <2> HIDE DEF d2
  <2> QED BY <2>2, <2>3
<1>3. d2.commands \in Seq(SvcCommandRecord)
  BY <1>1, <1>2
<1>4. ASSUME NEW i \in DOMAIN d2.commands
      PROVE  (i \in DOMAIN d.commands /\ d2.commands[i] = d.commands[i]) \/ d2.commands[i] = e
  BY <1>1, <1>2
<1> HIDE DEF d2
<1>5. SvcDeskHolds(o, R, d2, cs)
  BY <1>2, <1>3, <1>4 DEF SvcDeskHolds
<1> QED BY <1>2, <1>5 DEF d2

(* rollback_resource undoes what the call registered.                        *)
LEMMA SvcRollsBack ==
  ASSUME SvcInv, NEW k \in Calls, rollback_resource(k)
  PROVE  SvcInv'
<1>a. /\ tables \in [Kinds -> SUBSET Calls] /\ DOMAIN calls = Calls /\ calls[k] \in SvcWorkRecord
      /\ SvcListed(own, retiring, desk.retired, calls[k], tables, k) /\ SvcPlaced(own, retiring, calls[k])
      /\ documents \in [Gens -> SvcDocumentRecord] /\ calls[k].at = "undoes" /\ calls[k].gen \in Gens
      /\ calls[k].out # "ok"
  BY SvcOne DEF SvcInv, SvcHolds, rollback_resource, SvcPlaced
<1>t. /\ tables' \in [Kinds -> SUBSET Calls]
      /\ tables'.runner = tables.runner \ {k} /\ tables'.watch = tables.watch \ {k} /\ tables'.profile = tables.profile \ {k}
      /\ tables'.cancelled = tables.cancelled \cup ({k} \cap tables.dialog)
      /\ \A x \in Kinds \ {"runner", "watch", "profile", "cancelled"} : tables'[x] = tables[x]
  <2> DEFINE ca == tables.cancelled \cup ({k} \cap tables.dialog)
  <2>1. tables' = [tables EXCEPT !.runner = @ \ {k}, !.watch = @ \ {k}, !.profile = @ \ {k}, !.cancelled = ca]
    BY DEF rollback_resource, Undone
  <2>2. ca \subseteq Calls
    BY <1>a DEF Kinds
  <2> HIDE DEF ca
  <2>3. /\ tables'.runner = tables.runner \ {k} /\ tables'.watch = tables.watch \ {k} /\ tables'.profile = tables.profile \ {k}
        /\ tables'.cancelled = ca
        /\ \A x \in Kinds \ {"runner", "watch", "profile", "cancelled"} : tables'[x] = tables[x]
    BY <2>1, <1>a DEF Kinds
  <2>4. tables' \in [Kinds -> SUBSET Calls]
    BY ZenonT(60), <2>1, <2>2, <1>a DEF Kinds
  <2> QED BY <2>3, <2>4 DEF ca
<1>f. \A j \in Calls \ {k} : SvcFewer(tables, tables', j)
  BY <1>t DEF SvcFewer, Kinds
<1>l. /\ k \notin tables'.runner /\ k \notin tables'.watch /\ k \notin tables'.profile
      /\ k \in tables'.selecting => calls[k].m = "dialog" /\ k \in tables'.dialog /\ k \in tables'.cancelled
      /\ tables'.shortcut = tables.shortcut /\ tables'.notice = tables.notice /\ tables'.written = tables.written
  BY <1>t, <1>a DEF SvcListed, Kinds
<1>1. ASSUME NEW place, NEW d2, calls' = [calls EXCEPT ![k].at = place], place = "done" \/ (place = "unwinds" /\ calls[k].m \in Desktop),
             SvcDeskHolds(own, retiring, d2, calls), d2.retired = desk.retired
      PROVE  SvcHolds(own, calls', queue, tables', documents, d2, retiring)
  <2> DEFINE e == SvcTo(calls[k], place, calls[k].out)
             cs2 == [calls EXCEPT ![k] = e]
             t2 == tables'
  <2>1. calls' = cs2
    BY <1>1, SvcAtSet
  <2>2. cs2[k] = e /\ \A j \in Calls \ {k} : cs2[j] = calls[j]
    BY <1>a
  <2>3. e.at = place /\ e.out = calls[k].out /\ e.m = calls[k].m /\ e.gen = calls[k].gen
    BY <1>a, SvcToFields
  <2>4. SvcPlaced(own, retiring, e)
    <3>1. calls[k].out \in {"none", "ok", "refused", "unknown"}
      BY <1>a DEF SvcWorkRecord
    <3>2. SvcMayBe(own, retiring, calls[k], place, calls[k].out)
      BY <1>1, <1>a, <3>1 DEF SvcMayBe, Places, SvcNotYetOut
    <3>3. calls[k].at # "free"
      BY <1>a
    <3> QED BY <3>2, <3>3, <1>a, SvcToPlaced
  <2>5. SvcListed(own, retiring, desk.retired, e, t2, k)
    <3>1. k \in t2.written => calls[k].m = "write" /\ calls[k].out # "refused" /\ place = "done"
      BY <1>l, <1>a, <1>1 DEF SvcListed, Desktop
    <3>2. k \in t2.shortcut \cup t2.notice => calls[k].m \in Desktop /\ (SvcOwned(own, retiring, calls[k].gen, SvcAnyStep) \/ calls[k].gen \in desk.retired)
      BY <1>l, <1>a DEF SvcListed
    <3>3. /\ k \notin t2.runner /\ k \notin t2.watch /\ k \notin t2.profile
          /\ k \in t2.selecting => calls[k].m = "dialog" /\ k \in t2.dialog /\ k \in t2.cancelled
      BY <1>l
    <3> HIDE DEF e, t2
    <3> QED BY <3>1, <3>2, <3>3, <2>3 DEF SvcListed
  <2>6. SvcKept(own, documents, cs2, t2, k)
    <3> HIDE DEF e
    <3> QED BY <1>l, <2>2 DEF SvcKept
  <2>7. SvcDeskHolds(own, retiring, d2, cs2) /\ SvcQueueHolds(queue, cs2)
    <3>1. e.at # "free" /\ calls[k].at # "queued" /\ e.m = calls[k].m /\ e.gen = calls[k].gen
      BY <2>3, <1>1, <1>a
    <3>2. SvcQueueHolds(queue, calls)
      BY DEF SvcInv, SvcHolds
    <3> HIDE DEF e
    <3> QED BY <3>1, <3>2, <1>1, <1>a, SvcDeskStays, SvcQueueStays
  <2>8. \A j \in Calls \ {k} : calls[j].gen \in Gens => SvcDocsStay(documents, documents, calls, cs2, j)
    BY DEF SvcDocsStay
  <2>9. SvcCallOk(own, calls, tables, documents, desk, retiring, k, e, cs2, queue, t2, documents, d2)
    BY <1>a, <1>t, <1>f, <1>1, <2>4, <2>5, <2>6, <2>7, <2>8 DEF SvcCallOk
  <2>10. SvcHolds(own, cs2, queue, t2, documents, d2, retiring)
    <3> HIDE DEF cs2, e, t2
    <3> QED BY <2>9, SvcCallStep DEF SvcInv
  <2> QED BY <2>10, <2>1
<1>d. SvcDeskHolds(own, retiring, desk, calls)
  BY DEF SvcInv, SvcHolds
<1>2. CASE calls[k].m \in Desktop /\ Len(desk.commands) < MAX_COMMANDS
  <2> DEFINE c == [op |-> "release", k |-> k, gen |-> calls[k].gen]
  <2>1. c \in SvcCommandRecord /\ c.op = "release" /\ c.k = k /\ c.gen = calls[k].gen
    BY <1>a DEF SvcCommandRecord
  <2>2. desk' = [desk EXCEPT !.commands = Append(@, c)] /\ At(k, "unwinds")
    BY <1>2 DEF rollback_resource
  <2> HIDE DEF c
  <2>3. SvcDeskHolds(own, retiring, desk', calls) /\ desk'.retired = desk.retired
    BY <2>1, <2>2, <1>2, <1>a, <1>d, SvcCommandAdded
  <2>4. SvcHolds(own, calls', queue, tables', documents, desk', retiring)
    BY <2>2, <2>3, <1>1, <1>2 DEF At
  <2> QED BY <2>4 DEF SvcInv, rollback_resource
<1>3. CASE ~(calls[k].m \in Desktop /\ Len(desk.commands) < MAX_COMMANDS)
  <2>1. At(k, "done") /\ UNCHANGED desk
    BY <1>3 DEF rollback_resource
  <2>2. SvcHolds(own, calls', queue, tables', documents, desk, retiring)
    BY <2>1, <1>1, <1>d DEF At
  <2> QED BY <2>1, <2>2 DEF SvcInv, rollback_resource
<1> QED BY <1>2, <1>3

(* A desktop call sends its command.                                         *)
LEMMA SvcSends ==
  ASSUME SvcInv, NEW k \in Calls, Sends(k)
  PROVE  SvcInv'
<1>1. /\ calls[k].at = "acts" /\ calls[k].m \in Desktop /\ calls[k].gen \in Gens /\ calls[k].out = "none"
      /\ UNCHANGED <<queue, tables, documents>> /\ calls[k].at \in SvcEarly
  BY SvcOne DEF Sends, SvcPlaced, SvcEarly, SvcNotYetOut
<1>2. SvcHolds(own, [calls EXCEPT ![k].at = "done", ![k].out = "refused"], queue, tables, documents, desk, retiring)
  BY <1>1, SvcEndsRefused
<1>3. CASE ~check(k)
  <2>1. SvcHolds(own, calls', queue, tables, documents, desk, retiring) /\ Fails(k) /\ UNCHANGED desk
    BY <1>3, <1>2 DEF Sends, Ends
  <2>2. SvcHolds(own', calls', queue, tables, documents, desk, retiring')
    BY <2>1, <1>1, SvcFails
  <2> QED BY <2>1, <2>2, <1>1 DEF SvcInv
<1>4. CASE check(k) /\ ~(Len(desk.commands) < MAX_COMMANDS)
  <2>1. SvcHolds(own, calls', queue, tables, documents, desk, retiring) /\ UNCHANGED <<own, retiring, desk>>
    BY <1>4, <1>2 DEF Sends, Ends
  <2> QED BY <2>1, <1>1 DEF SvcInv
<1>5. CASE check(k) /\ Len(desk.commands) < MAX_COMMANDS
  <2> DEFINE c == [op |-> "register", k |-> k, gen |-> calls[k].gen]
  <2>1. At(k, "waits") /\ desk' = [desk EXCEPT !.commands = Append(@, c)] /\ UNCHANGED <<own, retiring>>
    BY <1>5 DEF Sends
  <2>2. SvcMayBe(own, retiring, calls[k], "waits", calls[k].out)
    BY <1>1 DEF SvcMayBe, Places, SvcNotYetOut
  <2>3. SvcHolds(own, [calls EXCEPT ![k] = SvcTo(calls[k], "waits", calls[k].out)], queue, tables, documents, desk, retiring)
    BY <1>1, <2>2, SvcMovesEarly DEF SvcInv
  <2>4. SvcHolds(own, calls', queue, tables, documents, desk, retiring)
    BY <2>1, <2>3, SvcAtSet DEF At
  <2>5. calls'[k].m = calls[k].m /\ calls'[k].gen = calls[k].gen /\ calls'[k].at = "waits"
    BY <2>1, SvcOne DEF At, SvcWorkRecord
  <2>6. c \in SvcCommandRecord /\ c.op = "register" /\ c.k = k /\ c.gen = calls[k].gen
    BY <1>1 DEF SvcCommandRecord
  <2>7. SvcOwned(own, retiring, calls[k].gen, SvcAnyStep)
    BY <1>5, SvcChecked
  <2> HIDE DEF c
  <2>8. SvcDeskHolds(own, retiring, desk, calls')
    BY <2>4 DEF SvcHolds
  <2>9. SvcDeskHolds(own, retiring, desk', calls') /\ desk'.retired = desk.retired
    <3> DEFINE cs2 == calls'
    <3>1. /\ SvcDeskHolds(own, retiring, desk, cs2) /\ c \in SvcCommandRecord /\ c.op # "retire" /\ c.k \in Calls
          /\ cs2[c.k].m \in Desktop /\ cs2[c.k].gen = c.gen /\ cs2[c.k].at # "free"
          /\ SvcOwned(own, retiring, c.gen, SvcAnyStep)
      BY <2>5, <2>6, <2>7, <2>8, <1>1
    <3> HIDE DEF cs2
    <3>2. /\ SvcDeskHolds(own, retiring, [desk EXCEPT !.commands = Append(@, c)], cs2)
          /\ [desk EXCEPT !.commands = Append(@, c)].retired = desk.retired
      BY <3>1, SvcCommandAdded
    <3> QED BY <3>2, <2>1 DEF cs2
  <2>10. SvcHolds(own, calls', queue, tables, documents, desk', retiring)
    BY <2>4, <2>9 DEF SvcHolds
  <2> QED BY <2>10, <2>1, <1>1 DEF SvcInv
<1> QED BY <1>3, <1>4, <1>5

(* The command that the desktop thread takes.                                *)
LEMMA SvcCommandTaken ==
  ASSUME NEW o, NEW R, NEW d, NEW cs, SvcDeskHolds(o, R, d, cs), d.commands # << >>, NEW d2, d2 = [d EXCEPT !.commands = Tail(@)]
  PROVE  /\ SvcDeskHolds(o, R, d2, cs) /\ d2.retired = d.retired
         /\ LET c == Head(d.commands) IN
              /\ c \in SvcCommandRecord
              /\ c.op # "retire" => c.k \in Calls /\ cs[c.k].m \in Desktop /\ cs[c.k].gen = c.gen
              /\ c.op = "register" => SvcOwned(o, R, c.gen, SvcAnyStep) \/ c.gen \in d.retired
<1>1. PICK a, b : d = [commands |-> a, retired |-> b]
  BY DEF SvcDeskHolds
<1>2. d.commands = a /\ d.retired = b
  BY <1>1
<1>3. d2 = [commands |-> Tail(a), retired |-> b]
  BY <1>1
<1>4. a \in Seq(SvcCommandRecord) /\ a # << >>
  BY <1>2 DEF SvcDeskHolds
<1>5. Tail(a) \in Seq(SvcCommandRecord) /\ Head(a) = a[1] /\ 1 \in DOMAIN a
      /\ \A i \in DOMAIN Tail(a) : i + 1 \in DOMAIN a /\ Tail(a)[i] = a[i + 1]
  BY <1>4
<1>6. Head(a) \in SvcCommandRecord
  BY <1>4
<1>7. d2.commands = Tail(a) /\ d2.retired = b /\ d2 = [commands |-> d2.commands, retired |-> d2.retired]
  <2>1. d2.commands = Tail(a) /\ d2.retired = b
    BY <1>3
  <2>2. [commands |-> Tail(a), retired |-> b] = [commands |-> d2.commands, retired |-> d2.retired]
    BY <2>1
  <2> QED BY <2>1, <2>2, <1>3
<1>8. SvcDeskHolds(o, R, d2, cs)
  BY <1>2, <1>5, <1>7 DEF SvcDeskHolds
<1>9. 1 \in DOMAIN d.commands /\ Head(d.commands) = d.commands[1]
  BY <1>2, <1>5
<1>10. LET c == Head(d.commands) IN
         /\ c.op # "retire" => c.k \in Calls /\ cs[c.k].m \in Desktop /\ cs[c.k].gen = c.gen
         /\ c.op = "register" => SvcOwned(o, R, c.gen, SvcAnyStep) \/ c.gen \in d.retired
  BY <1>9 DEF SvcDeskHolds
<1> QED BY <1>2, <1>6, <1>7, <1>8, <1>10

(* The desktop thread answers a call that waits.                             *)
LEMMA SvcAnswers ==
  ASSUME SvcInv, NEW t, NEW d, SvcHolds(own, calls, queue, t, documents, d, retiring),
         NEW k \in Calls, NEW made \in BOOLEAN, Answers(k, made)
  PROVE  SvcHolds(own, calls', queue, t, documents, d, retiring)
<1>0. calls[k].out \in {"none", "refused", "unknown"} \/ calls[k].at \notin {"waits", "unwinds"}
  BY SvcOne DEF SvcPlaced, SvcWorkRecord
<1>m. calls[k].at = "waits" => calls[k].m \in Desktop
  BY SvcOne DEF SvcPlaced
<1>1. CASE calls[k].at = "waits"
  <2> DEFINE pl == IF made THEN "ends" ELSE "done"
             ot == IF made THEN "none" ELSE "refused"
  <2>1. (pl = "ends" /\ ot = "none") \/ (pl = "done" /\ ot = "refused")
    OBVIOUS
  <2>2. calls' = SvcAtOut(calls, k, pl, ot)
    BY <1>1 DEF Answers, SvcAtOut
  <2> HIDE DEF pl, ot
  <2>3. SvcMayBe(own, retiring, calls[k], pl, ot)
    BY <2>1 DEF SvcMayBe, Places, SvcNotYetOut
  <2>4. calls[k].at \in SvcEarly
    BY <1>1 DEF SvcEarly
  <2>5. SvcHolds(own, [calls EXCEPT ![k] = SvcTo(calls[k], pl, ot)], queue, t, documents, d, retiring)
    BY <2>3, <2>4, SvcMovesEarly
  <2>6. SvcAtOut(calls, k, pl, ot) = [calls EXCEPT ![k] = SvcTo(calls[k], pl, ot)]
    BY SvcBothSet
  <2> QED BY <2>2, <2>5, <2>6
<1>2. CASE calls[k].at = "unwinds"
  <2>3. SvcMayBe(own, retiring, calls[k], "done", calls[k].out)
    BY <1>0, <1>2 DEF SvcMayBe, Places, SvcNotYetOut
  <2>4. calls[k].at \in SvcEarly
    BY <1>2 DEF SvcEarly
  <2>5. SvcHolds(own, [calls EXCEPT ![k] = SvcTo(calls[k], "done", calls[k].out)], queue, t, documents, d, retiring)
    BY <2>3, <2>4, SvcMovesEarly
  <2>6. calls' = [calls EXCEPT ![k].at = "done"]
    BY <1>2 DEF Answers
  <2> QED BY <2>5, <2>6, SvcAtSet
<1>3. CASE calls[k].at \notin {"waits", "unwinds"}
  BY <1>3 DEF Answers
<1> QED BY <1>1, <1>2, <1>3

(* The desktop thread executes a command.                                    *)
LEMMA SvcCommand ==
  ASSUME SvcInv, Command
  PROVE  SvcInv'
<1> DEFINE c == Head(desk.commands)
<1>d. SvcDeskHolds(own, retiring, desk, calls)
  BY DEF SvcInv, SvcHolds
<1>1. /\ SvcDeskHolds(own, retiring, desk', calls) /\ desk'.retired = desk.retired /\ c \in SvcCommandRecord
      /\ c.op # "retire" => c.k \in Calls /\ calls[c.k].m \in Desktop /\ calls[c.k].gen = c.gen
      /\ c.op = "register" => SvcOwned(own, retiring, c.gen, SvcAnyStep) \/ c.gen \in desk.retired
  <2> DEFINE d2 == desk'
  <2>1. desk.commands # << >> /\ d2 = [desk EXCEPT !.commands = Tail(@)]
    BY DEF Command
  <2> HIDE DEF d2
  <2>2. /\ SvcDeskHolds(own, retiring, d2, calls) /\ d2.retired = desk.retired /\ c \in SvcCommandRecord
        /\ c.op # "retire" => c.k \in Calls /\ calls[c.k].m \in Desktop /\ calls[c.k].gen = c.gen
        /\ c.op = "register" => SvcOwned(own, retiring, c.gen, SvcAnyStep) \/ c.gen \in desk.retired
    BY <2>1, <1>d, SvcCommandTaken
  <2> QED BY <2>2 DEF d2
<1>2. SvcHolds(own, calls, queue, tables, documents, desk', retiring)
  BY <1>1 DEF SvcInv, SvcHolds
<1> HIDE DEF c
<1>t. tables \in [Kinds -> SUBSET Calls] /\ UNCHANGED <<own, queue, documents, retiring>>
  BY DEF SvcInv, SvcHolds, Command
<1>3. CASE c.op = "retire" /\ Without(Desktop, c.gen) /\ UNCHANGED calls
  <2>1. tables' \in [Kinds -> SUBSET Calls] /\ \A k \in Calls : SvcFewer(tables, tables', k)
    BY <1>3, <1>t DEF Without, SvcFewer, Kinds, Desktop
  <2>2. SvcHolds(own, calls, queue, tables', documents, desk', retiring)
    <3> DEFINE t2 == tables'
               d2 == desk'
    <3>1. t2 \in [Kinds -> SUBSET Calls] /\ (\A k \in Calls : SvcFewer(tables, t2, k)) /\ SvcHolds(own, calls, queue, tables, documents, d2, retiring)
      BY <2>1, <1>2
    <3> HIDE DEF t2, d2
    <3>2. SvcHolds(own, calls, queue, t2, documents, d2, retiring)
      BY <3>1, SvcTables
    <3> QED BY <3>2 DEF t2, d2
  <2> QED BY <2>2, <1>3, <1>t DEF SvcInv
<1>4. ASSUME NEW made \in BOOLEAN, c.op # "retire", Answers(c.k, made), tables' = tables
      PROVE  SvcInv'
  <2>1. SvcHolds(own, calls', queue, tables, documents, desk', retiring)
    BY <1>1, <1>2, <1>4, SvcAnswers
  <2> QED BY <2>1, <1>4, <1>t DEF SvcInv
<1>5. CASE c.op = "register" /\ tables' = [tables EXCEPT ![calls[c.k].m] = @ \cup {c.k}] /\ Answers(c.k, TRUE)
  <2> DEFINE k == c.k
             t2 == tables'
  <2>1. k \in Calls /\ calls[k].m \in Desktop /\ (SvcOwned(own, retiring, calls[k].gen, SvcAnyStep) \/ calls[k].gen \in desk'.retired)
    BY <1>1, <1>5
  <2>2. t2 \in [Kinds -> SUBSET Calls] /\ (\A x \in Kinds \ Desktop : t2[x] = tables[x])
        /\ \A j \in Calls \ {k} : SvcFewer(tables, t2, j)
    BY <2>1, <1>5, <1>t DEF Kinds, Desktop, SvcFewer
  <2>3. \A x \in {"runner", "watch", "profile", "selecting", "dialog", "cancelled", "written"} : t2[x] = tables[x]
    BY <2>2 DEF Kinds, Desktop
  <2> HIDE DEF k, t2
  <2>4. ASSUME NEW j \in Calls
        PROVE  SvcListed(own, retiring, desk'.retired, calls[j], t2, j) /\ SvcKept(own, documents, calls, t2, j)
    <3>1. SvcListed(own, retiring, desk'.retired, calls[j], tables, j) /\ SvcKept(own, documents, calls, tables, j) /\ own \in SvcOwnRecord
      BY <1>2 DEF SvcHolds, SvcOwnHolds
    <3>2. SvcKept(own, documents, calls, t2, j)
      BY <3>1, <2>3 DEF SvcKept
    <3>3. CASE j # k
      BY <3>1, <3>2, <3>3, <2>2, SvcListedFewer
    <3>4. CASE j = k
      BY <3>1, <3>2, <3>4, <2>1, <2>3 DEF SvcListed
    <3> QED BY <3>3, <3>4
  <2>5. SvcHolds(own, calls, queue, t2, documents, desk', retiring)
    BY <1>2, <2>2, <2>4 DEF SvcHolds
  <2>6. SvcHolds(own, calls', queue, t2, documents, desk', retiring)
    BY <2>1, <2>5, <1>5, SvcAnswers DEF k
  <2> QED BY <2>6, <1>t DEF SvcInv, t2
<1>6. CASE c.op = "release" /\ tables' = [tables EXCEPT ![calls[c.k].m] = @ \ {c.k}] /\ Answers(c.k, TRUE)
  <2> DEFINE t2 == tables'
             d2 == desk'
  <2>1. c.k \in Calls /\ calls[c.k].m \in Desktop
    BY <1>1, <1>6
  <2>2. t2 \in [Kinds -> SUBSET Calls] /\ \A j \in Calls : SvcFewer(tables, t2, j)
    BY <2>1, <1>6, <1>t DEF Kinds, Desktop, SvcFewer
  <2>3. SvcHolds(own, calls, queue, tables, documents, d2, retiring)
    BY <1>2
  <2> HIDE DEF t2, d2
  <2>4. SvcHolds(own, calls, queue, t2, documents, d2, retiring)
    BY <2>2, <2>3, SvcTables
  <2>5. SvcHolds(own, calls', queue, t2, documents, d2, retiring)
    BY <2>1, <2>4, <1>6, SvcAnswers
  <2> QED BY <2>5, <1>t DEF SvcInv, t2, d2
<1>7. \/ c.op = "retire" /\ Without(Desktop, c.gen) /\ UNCHANGED calls
      \/ c.op # "retire" /\ Answers(c.k, FALSE) /\ UNCHANGED tables
      \/ c.op = "register" /\ tables' = [tables EXCEPT ![calls[c.k].m] = @ \cup {c.k}] /\ Answers(c.k, TRUE)
      \/ c.op = "release" /\ tables' = [tables EXCEPT ![calls[c.k].m] = @ \ {c.k}] /\ Answers(c.k, TRUE)
  BY DEF Command, c
<1>8. CASE c.op # "retire" /\ Answers(c.k, FALSE) /\ UNCHANGED tables
  BY <1>4, <1>8
<1> QED BY <1>3, <1>5, <1>6, <1>7, <1>8

(* A call is cancelled.                                                      *)
LEMMA SvcCancels ==
  ASSUME SvcInv, NEW k \in Calls, Cancels(k)
  PROVE  SvcInv'
<1> DEFINE e == [calls[k] EXCEPT !.dead = TRUE]
           cs2 == [calls EXCEPT ![k] = e]
<1>a. /\ tables \in [Kinds -> SUBSET Calls] /\ DOMAIN calls = Calls /\ calls[k] \in SvcWorkRecord
      /\ SvcListed(own, retiring, desk.retired, calls[k], tables, k) /\ SvcPlaced(own, retiring, calls[k])
  BY SvcOne
<1>1. e.at = calls[k].at /\ e.m = calls[k].m /\ e.gen = calls[k].gen /\ e.out = calls[k].out /\ e \in SvcWorkRecord
  BY <1>a DEF SvcWorkRecord
<1>2. calls[k].at \notin {"free", "done"} /\ calls' = cs2
  BY DEF Cancels, Pending, Executing
<1>3. SvcPlaced(own, retiring, e) /\ SvcListed(own, retiring, desk.retired, e, tables, k)
  <2> HIDE DEF e
  <2> QED BY <1>a, <1>1 DEF SvcPlaced, SvcListed, SvcLasts
<1>4. SvcKept(own, documents, cs2, tables, k)
  BY <1>a, <1>1, <1>2 DEF SvcKept
<1>5. \A j \in Calls \ {k} : SvcFewer(tables, tables, j)
  BY DEF SvcFewer
<1>6. SvcHolds(own, cs2, queue, tables, documents, desk, retiring)
  <2>1. cs2 = [calls EXCEPT ![k] = e] /\ calls[k].at # "free" /\ e.at # "free" /\ (calls[k].at = "queued" => e.at = "queued")
        /\ e.m = calls[k].m /\ e.gen = calls[k].gen /\ (calls[k].out = "ok" => e.out = "ok")
    BY <1>1, <1>2
  <2> HIDE DEF cs2, e
  <2> QED BY <2>1, <1>3, <1>4, <1>5, <1>a, SvcMoves DEF SvcInv
<1>7. SvcHolds(own', calls', queue, tables, documents, desk, retiring)
  BY <1>2, <1>6, SvcEvent DEF Cancels
<1> QED BY <1>7 DEF SvcInv, Cancels

(* A worker takes a call from the queue.                                     *)
LEMMA SvcStarts ==
  ASSUME SvcInv, Starts
  PROVE  SvcInv'
<1> DEFINE k == Head(queue)
           q2 == Tail(queue)
<1>q. SvcQueueHolds(queue, calls) /\ queue # << >>
  BY DEF SvcInv, SvcHolds, Starts
<1>1. /\ k \in Calls /\ calls[k].at = "queued" /\ q2 \in Seq(Calls)
      /\ \A i \in DOMAIN q2 : calls[q2[i]].at = "queued" /\ q2[i] # k
      /\ \A i, j \in DOMAIN q2 : q2[i] = q2[j] => i = j
  <2>1. k = queue[1] /\ 1 \in DOMAIN queue /\ queue \in Seq(Calls) /\ q2 \in Seq(Calls)
        /\ \A i \in DOMAIN q2 : i + 1 \in DOMAIN queue /\ q2[i] = queue[i + 1] /\ i \in Nat /\ i + 1 # 1
    BY <1>q DEF SvcQueueHolds
  <2>2. \A i \in DOMAIN queue : calls[queue[i]].at = "queued"
    BY <1>q DEF SvcQueueHolds
  <2>3. \A i, j \in DOMAIN queue : queue[i] = queue[j] => i = j
    BY <1>q DEF SvcQueueHolds
  <2>4. k \in Calls
    BY <2>1
  <2>5. \A i \in DOMAIN q2 : calls[q2[i]].at = "queued" /\ q2[i] # k
    BY <2>1, <2>2, <2>3
  <2>6. ASSUME NEW i \in DOMAIN q2, NEW j \in DOMAIN q2, q2[i] = q2[j] PROVE i = j
    <3>1. i + 1 = j + 1 /\ i \in Nat /\ j \in Nat
      BY <2>1, <2>3, <2>6
    <3> QED BY <3>1
  <2> QED BY <2>1, <2>2, <2>4, <2>5, <2>6
<1>u. queue' = q2 /\ UNCHANGED <<tables, documents, desk>>
  BY DEF Starts
<1>c. IF check(k) THEN At(k, "acts") /\ UNCHANGED <<own, retiring>> ELSE Ends(k, "refused") /\ Fails(k)
  BY DEF Starts
<1> HIDE DEF k, q2
<1>a. /\ tables \in [Kinds -> SUBSET Calls] /\ DOMAIN calls = Calls /\ calls[k] \in SvcWorkRecord
      /\ SvcListed(own, retiring, desk.retired, calls[k], tables, k) /\ SvcPlaced(own, retiring, calls[k])
      /\ documents \in [Gens -> SvcDocumentRecord] /\ calls[k].gen \in Gens /\ calls[k].out = "none"
  BY <1>1, SvcOne DEF SvcInv, SvcHolds, SvcPlaced, SvcNotYetOut
<1>n. /\ k \notin tables.runner /\ k \notin tables.watch /\ k \notin tables.profile /\ k \notin tables.written
      /\ k \in tables.selecting => k \in tables.cancelled
  BY <1>a, <1>1, SvcNotListed
<1>2. ASSUME NEW place, NEW outcome, (place = "acts" /\ outcome = "none") \/ (place = "done" /\ outcome = "refused")
      PROVE  SvcHolds(own, [calls EXCEPT ![k] = SvcTo(calls[k], place, outcome)], q2, tables, documents, desk, retiring)
  <2> DEFINE e == SvcTo(calls[k], place, outcome)
             cs2 == [calls EXCEPT ![k] = e]
  <2>1. e.at = place /\ e.m = calls[k].m /\ e.gen = calls[k].gen
    BY <1>a, SvcToFields
  <2>2. cs2[k] = e /\ \A j \in Calls \ {k} : cs2[j] = calls[j]
    BY <1>a, <1>1
  <2>3. SvcPlaced(own, retiring, e)
    <3>1. SvcMayBe(own, retiring, calls[k], place, outcome) /\ calls[k].at # "free"
      BY <1>2, <1>1 DEF SvcMayBe, Places, SvcNotYetOut
    <3> QED BY <3>1, <1>a, SvcToPlaced
  <2>4. SvcListed(own, retiring, desk.retired, e, tables, k)
    <3> HIDE DEF e
    <3> QED BY <1>a, <1>n, <2>1 DEF SvcListed
  <2>5. SvcKept(own, documents, cs2, tables, k)
    <3> HIDE DEF e
    <3> QED BY <1>n, <2>2 DEF SvcKept
  <2>6. SvcQueueHolds(q2, cs2)
    <3> HIDE DEF cs2
    <3>1. \A i \in DOMAIN q2 : q2[i] \in Calls
      BY <1>1
    <3> QED BY <1>1, <2>2, <3>1 DEF SvcQueueHolds
  <2>7. SvcDeskHolds(own, retiring, desk, cs2)
    <3>1. e.at # "free" /\ e.m = calls[k].m /\ e.gen = calls[k].gen /\ k \in Calls
      BY <2>1, <1>2, <1>1
    <3>2. SvcDeskHolds(own, retiring, desk, calls)
      BY DEF SvcInv, SvcHolds
    <3> HIDE DEF e
    <3> QED BY <3>1, <3>2, <1>a, SvcDeskStays
  <2>8. /\ \A j \in Calls \ {k} : calls[j].gen \in Gens => SvcDocsStay(documents, documents, calls, cs2, j)
        /\ \A j \in Calls \ {k} : SvcFewer(tables, tables, j)
    BY DEF SvcDocsStay, SvcFewer
  <2>9. SvcCallOk(own, calls, tables, documents, desk, retiring, k, e, cs2, q2, tables, documents, desk)
    BY <1>a, <2>3, <2>4, <2>5, <2>6, <2>7, <2>8 DEF SvcCallOk
  <2>10. SvcHolds(own, cs2, q2, tables, documents, desk, retiring)
    <3> HIDE DEF cs2, e
    <3> QED BY <2>9, <1>1, SvcCallStep DEF SvcInv
  <2> QED BY <2>10
<1>3. CASE check(k)
  <2>1. SvcHolds(own, [calls EXCEPT ![k] = SvcTo(calls[k], "acts", "none")], q2, tables, documents, desk, retiring)
    BY <1>2
  <2>2. calls' = [calls EXCEPT ![k] = SvcTo(calls[k], "acts", "none")]
    <3>1. calls' = [calls EXCEPT ![k].at = "acts"]
      BY <1>3, <1>c DEF At
    <3>2. [calls EXCEPT ![k].at = "acts"] = [calls EXCEPT ![k] = SvcTo(calls[k], "acts", calls[k].out)]
      BY <1>1, SvcAtSet
    <3> QED BY <3>1, <3>2, <1>a
  <2> QED BY <2>1, <2>2, <1>3, <1>c, <1>u DEF SvcInv
<1>4. CASE ~check(k)
  <2>1. SvcHolds(own, [calls EXCEPT ![k] = SvcTo(calls[k], "done", "refused")], q2, tables, documents, desk, retiring)
    BY <1>2
  <2>2. calls' = [calls EXCEPT ![k] = SvcTo(calls[k], "done", "refused")]
    <3>1. calls' = SvcAtOut(calls, k, "done", "refused")
      BY <1>4, <1>c DEF Ends, SvcAtOut
    <3> QED BY <3>1, <1>1, SvcBothSet
  <2>3. SvcHolds(own, calls', q2, tables, documents, desk, retiring)
    BY <2>1, <2>2
  <2>4. Fails(k)
    BY <1>4, <1>c
  <2>5. SvcHolds(own', calls', q2, tables, documents, desk, retiring')
    BY <2>3, <2>4, <1>1, <1>a, SvcFails
  <2> QED BY <2>5, <1>u DEF SvcInv
<1> QED BY <1>3, <1>4

(* A call begins, queued or refused.                                         *)
LEMMA SvcBeginsCall ==
  ASSUME SvcInv, NEW k \in Calls, calls[k].at = "free", own.owner \in Gens, NEW c2, NEW q2, NEW docs2,
         c2 \in SvcWorkRecord, c2.gen = own.owner,
         \/ c2.at = "queued" /\ c2.out = "none" /\ q2 = Append(queue, k)
         \/ c2.at = "done" /\ c2.out = "refused" /\ q2 = queue,
         docs2 \in [Gens -> SvcDocumentRecord],
         \A g \in Gens : docs2[g].epoch = documents[g].epoch /\ docs2[g].held = documents[g].held /\ docs2[g].ending = documents[g].ending
  PROVE  SvcHolds(own, [calls EXCEPT ![k] = c2], q2, tables, docs2, desk, retiring)
<1> DEFINE cs2 == [calls EXCEPT ![k] = c2]
<1>a. /\ tables \in [Kinds -> SUBSET Calls] /\ DOMAIN calls = Calls /\ calls[k] \in SvcWorkRecord
      /\ SvcListed(own, retiring, desk.retired, calls[k], tables, k) /\ SvcPlaced(own, retiring, calls[k])
      /\ SvcOwnHolds(own, retiring) /\ calls[k].m = "none" /\ calls[k].out = "none"
  BY SvcOne DEF SvcPlaced, SvcNotYetOut
<1>n. /\ k \notin tables.runner /\ k \notin tables.watch /\ k \notin tables.profile /\ k \notin tables.written
      /\ k \notin tables.selecting /\ k \notin tables.shortcut /\ k \notin tables.notice
  BY <1>a DEF SvcListed, Desktop
<1>2. cs2[k] = c2 /\ \A j \in Calls \ {k} : cs2[j] = calls[j]
  BY <1>a
<1>3. SvcPlaced(own, retiring, c2)
  <2>1. SvcOwned(own, retiring, c2.gen, {"resources"})
    BY DEF SvcOwned
  <2>2. own.owner \in Nat /\ own.owner # 0
    BY SvcGens
  <2>3. c2.gen <= own.owner /\ c2.gen \in Gens
    BY <2>2
  <2> QED BY <2>1, <2>3 DEF SvcPlaced, SvcNotYetOut
<1>4. SvcListed(own, retiring, desk.retired, c2, tables, k) /\ SvcKept(own, docs2, cs2, tables, k)
  BY <1>n DEF SvcListed, SvcKept
<1>5. SvcQueueHolds(q2, cs2)
  <2>1. SvcQueueHolds(queue, calls) /\ queue \in Seq(Calls)
    BY DEF SvcInv, SvcHolds, SvcQueueHolds
  <2>2. \A i \in DOMAIN queue : queue[i] \in Calls /\ calls[queue[i]].at = "queued" /\ queue[i] # k
    BY <2>1 DEF SvcQueueHolds
  <2>3. SvcQueueHolds(queue, cs2)
    <3> HIDE DEF cs2
    <3> QED BY <2>1, <2>2, <1>2 DEF SvcQueueHolds
  <2>4. CASE q2 = Append(queue, k) /\ c2.at = "queued"
    <3>1. q2 \in Seq(Calls) /\ Len(q2) = Len(queue) + 1 /\ q2[Len(q2)] = k
          /\ DOMAIN q2 = 1 .. Len(queue) + 1 /\ DOMAIN queue = 1 .. Len(queue) /\ Len(queue) \in Nat
          /\ \A i \in DOMAIN queue : q2[i] = queue[i]
      BY <2>1, <2>4
    <3>2. \A i \in DOMAIN q2 : i \in DOMAIN queue \/ i = Len(q2)
      BY <3>1
    <3>3. \A i \in DOMAIN q2 : cs2[q2[i]].at = "queued"
      <4> HIDE DEF cs2
      <4> QED BY <3>1, <3>2, <2>2, <1>2, <2>4
    <3>4. \A i, j \in DOMAIN q2 : q2[i] = q2[j] => i = j
      <4>1. \A i, j \in DOMAIN queue : queue[i] = queue[j] => i = j
        BY <2>1 DEF SvcQueueHolds
      <4> QED BY <4>1, <3>1, <3>2, <2>2
    <3> HIDE DEF cs2
    <3> QED BY <3>1, <3>3, <3>4 DEF SvcQueueHolds
  <2> QED BY <2>3, <2>4
<1>6. SvcDeskHolds(own, retiring, desk, cs2)
  <2>1. SvcDeskHolds(own, retiring, desk, calls)
    BY DEF SvcInv, SvcHolds
  <2> QED BY <2>1, <1>a, SvcDeskStays
<1>7. /\ \A j \in Calls \ {k} : calls[j].gen \in Gens => SvcDocsStay(documents, docs2, calls, cs2, j)
      /\ \A j \in Calls \ {k} : SvcFewer(tables, tables, j)
  BY DEF SvcDocsStay, SvcFewer
<1>8. SvcCallOk(own, calls, tables, documents, desk, retiring, k, c2, cs2, q2, tables, docs2, desk)
  BY <1>a, <1>3, <1>4, <1>5, <1>6, <1>7 DEF SvcCallOk
<1>9. SvcHolds(own, cs2, q2, tables, docs2, desk, retiring)
  <2> HIDE DEF cs2
  <2> QED BY <1>8, SvcCallStep DEF SvcInv
<1> QED BY <1>9

(* begin, with room and trust or without.                                    *)
LEMMA SvcBegins ==
  ASSUME SvcInv, NEW k \in Calls, NEW m \in Methods, begin(k, m)
  PROVE  SvcInv'
<1> DEFINE g == own.owner
           doc == m \in Rendered
           room == Cardinality(Pending) < MAX_PENDING /\ Len(queue) < MAX_QUEUE
           call == [calls[k] EXCEPT !.m = m, !.gen = g, !.doc = doc]
           c2 == IF room /\ Trusted(g) THEN [call EXCEPT !.at = "queued", !.epoch = documents[g].epoch]
                 ELSE [call EXCEPT !.at = "done", !.out = "refused"]
<1>1. calls[k].at = "free" /\ g \in Gens /\ UNCHANGED <<tables, desk>>
  BY SvcOne DEF begin, NoGen, SvcOwnHolds, SvcOwnRecord
<1>a. calls[k] \in SvcWorkRecord /\ calls[k].out = "none" /\ DOMAIN calls = Calls /\ documents \in [Gens -> SvcDocumentRecord]
  BY <1>1, SvcOne DEF SvcPlaced, SvcNotYetOut, SvcInv, SvcHolds
<1>2. c2 \in SvcWorkRecord /\ c2.gen = g /\ ((room /\ Trusted(g) /\ c2.at = "queued" /\ c2.out = "none") \/ (~(room /\ Trusted(g)) /\ c2.at = "done" /\ c2.out = "refused"))
  <2>1. documents[g].epoch \in Nat /\ doc \in BOOLEAN /\ m \in Methods \cup {"none"} /\ g \in {0} \cup Gens
    BY <1>1, <1>a DEF SvcDocumentRecord
  <2>2. call \in SvcWorkRecord /\ call.gen = g /\ call.out = "none"
    <3> HIDE DEF doc, g
    <3> QED BY <2>1, <1>a DEF SvcWorkRecord
  <2> HIDE DEF call, g, room
  <2> QED BY <2>1, <2>2 DEF SvcWorkRecord, Places
<1>3. CASE Trusted(g)
  <2>1. /\ documents' = [documents EXCEPT ![g].known = @ \/ doc]
        /\ queue' = (IF room THEN Append(queue, k) ELSE queue)
        /\ calls' = [calls EXCEPT ![k] = c2]
        /\ UNCHANGED <<own, retiring>>
    BY <1>3 DEF begin
  <2>2. /\ documents' \in [Gens -> SvcDocumentRecord]
        /\ \A h \in Gens : documents'[h].epoch = documents[h].epoch /\ documents'[h].held = documents[h].held /\ documents'[h].ending = documents[h].ending
    <3> DEFINE kn == documents[g].known \/ doc
    <3>1. kn \in BOOLEAN
      OBVIOUS
    <3>2. documents' = [documents EXCEPT ![g].known = kn]
      BY <2>1
    <3> HIDE DEF kn, doc
    <3>3. documents' = [documents EXCEPT ![g] = [documents[g] EXCEPT !.known = kn]]
      BY <3>2, <1>1, <1>a
    <3>4. documents[g] \in SvcDocumentRecord
      BY <1>1, <1>a
    <3> DEFINE d2 == [documents[g] EXCEPT !.known = kn]
    <3>5. /\ d2 \in SvcDocumentRecord
          /\ d2.epoch = documents[g].epoch /\ d2.held = documents[g].held /\ d2.ending = documents[g].ending
      BY <3>1, <3>4 DEF SvcDocumentRecord
    <3>6. documents' = [documents EXCEPT ![g] = d2]
      BY <3>3
    <3> HIDE DEF d2, g
    <3> QED BY <3>5, <3>6, <1>1, <1>a
  <2> DEFINE q2 == queue'
             docs2 == documents'
  <2>3. \/ c2.at = "queued" /\ c2.out = "none" /\ q2 = Append(queue, k)
        \/ c2.at = "done" /\ c2.out = "refused" /\ q2 = queue
    BY <1>2, <1>3, <2>1
  <2>4. /\ docs2 \in [Gens -> SvcDocumentRecord]
        /\ \A h \in Gens : docs2[h].epoch = documents[h].epoch /\ docs2[h].held = documents[h].held /\ docs2[h].ending = documents[h].ending
    BY <2>2
  <2> HIDE DEF c2, q2, docs2
  <2>5. SvcHolds(own, [calls EXCEPT ![k] = c2], q2, tables, docs2, desk, retiring)
    BY <1>1, <1>2, <2>3, <2>4, SvcBeginsCall
  <2> QED BY <2>1, <2>5, <1>1 DEF SvcInv, q2, docs2
<1>4. CASE ~Trusted(g)
  <2>1. retire(g, Worker(k)) /\ calls' = [calls EXCEPT ![k] = c2] /\ UNCHANGED <<documents, queue>>
    BY <1>4 DEF begin
  <2>2. c2.at = "done" /\ c2.out = "refused"
    BY <1>2, <1>4
  <2> HIDE DEF c2
  <2>3. SvcHolds(own, [calls EXCEPT ![k] = c2], queue, tables, documents, desk, retiring)
    BY <1>1, <1>2, <1>a, <2>2, SvcBeginsCall
  <2>4. Worker(k) \in Threads
    BY DEF Threads
  <2>5. SvcHolds(own', [calls EXCEPT ![k] = c2], queue, tables, documents, desk, retiring')
    BY <2>1, <2>3, <2>4, <1>1, SvcRetire
  <2> QED BY <2>1, <2>5, <1>1 DEF SvcInv
<1> QED BY <1>3, <1>4

(* Every step keeps the invariant.                                           *)
LEMMA SvcStep ==
  ASSUME SvcInv, [SvcNext]_svcVars
  PROVE  SvcInv'
<1>1. CASE UNCHANGED svcVars
  BY <1>1 DEF svcVars, SvcInv
<1>2. ASSUME NEW g \in Gens, register(g) \/ Retires(g) \/ DocumentEnds(g) PROVE SvcInv'
  BY <1>2, SvcRegisters, SvcRetiresAll, SvcDocumentEnds
<1>3. CASE Inserts \/ Edit \/ monitor \/ retire_document \/ Starts \/ Sweeps \/ Command
  BY <1>3, SvcInserts, SvcEdits, SvcMonitors, SvcRetiresDocument, SvcStarts, SvcSweeps, SvcCommand
<1>4. ASSUME NEW r \in retiring, retire_resources(r) PROVE SvcInv'
  BY <1>4, SvcRetiresResources
<1>5. ASSUME NEW k \in Calls, NEW m \in Methods, begin(k, m) PROVE SvcInv'
  BY <1>5, SvcBegins
<1>6. ASSUME NEW k \in Calls,
             \/ Cancels(k) \/ Acts(k) \/ Locks(k) \/ CheckedLocked(k)
             \/ Unlocks(k) \/ Commits(k) \/ Rechecks(k) \/ Enrols(k) \/ rollback_resource(k)
             \/ Sends(k) \/ GivesUp(k) \/ DialogThread(k)
      PROVE  SvcInv'
  BY <1>6, SvcCancels, SvcActs, SvcLocks, SvcCheckedLocked, SvcUnlocks, SvcCommits, SvcRechecks, SvcEnrols,
     SvcRollsBack, SvcSends, SvcGivesUp, SvcDialogThread
<1> QED BY <1>1, <1>2, <1>3, <1>4, <1>5, <1>6 DEF SvcNext

(* Services without a generation satisfy the invariant.                      *)
LEMMA SvcBeginsHolding ==
  ASSUME SvcInit
  PROVE  SvcInv
<1>1. SvcOwnHolds(own, retiring)
  BY SvcGens DEF SvcInit, NewShared, SvcOwnHolds, SvcOwnRecord, NoGen
<1>2. \A k \in Calls : SvcPlaced(own, retiring, calls[k]) /\ SvcListed(own, retiring, desk.retired, calls[k], tables, k)
                       /\ SvcKept(own, documents, calls, tables, k)
  BY DEF SvcInit, NoWork, SvcPlaced, SvcWorkRecord, Places, NoGen, SvcListed, SvcKept, Kinds
<1>3. SvcQueueHolds(queue, calls) /\ SvcDeskHolds(own, retiring, desk, calls)
  BY DEF SvcInit, SvcQueueHolds, SvcDeskHolds, NewDesktop
<1>4. DOMAIN calls = Calls /\ tables \in [Kinds -> SUBSET Calls] /\ documents \in [Gens -> SvcDocumentRecord]
  BY DEF SvcInit, SvcDocumentRecord
<1> QED BY <1>1, <1>2, <1>3, <1>4 DEF SvcInv, SvcHolds

(* The invariant contains what the run checks.                               *)
LEMMA SvcImplies ==
  ASSUME SvcInv
  PROVE  CoreServicesSound
<1>1. SvcTypeOK
  BY DEF SvcInv, SvcHolds, SvcOwnHolds, SvcOwnRecord, SvcPlaced, SvcWorkRecord, SvcRetireRecord, SvcTypeOK, NoGen
<1>2. NothingLeft
  <2> SUFFICES ASSUME NEW g \in Gens, g # own.owner, Quiet(g)
               PROVE  /\ Of(g) \cap (tables.runner \cup tables.watch \cup tables.profile) = {}
                      /\ Of(g) \cap tables.selecting \subseteq tables.cancelled
                      /\ Of(g) \cap (tables.shortcut \cup tables.notice) # {} => g \in desk.retired
    BY DEF NothingLeft
  <2>1. \A S : ~SvcOwned(own, retiring, g, S)
    BY DEF SvcOwned, Quiet
  <2>2. ASSUME NEW k \in Of(g)
        PROVE  /\ k \notin tables.runner /\ k \notin tables.watch /\ k \notin tables.profile
               /\ k \in tables.selecting => k \in tables.cancelled
               /\ k \in tables.shortcut \cup tables.notice => g \in desk.retired
    <3>1. SvcListed(own, retiring, desk.retired, calls[k], tables, k) /\ calls[k].gen = g /\ calls[k].at \notin Unfinished
      BY SvcOne DEF Of, Quiet
    <3>2. calls[k].at \notin {"ends", "undoes", "registers"}
      BY <3>1 DEF Unfinished, Executing
    <3> QED BY <3>1, <3>2, <2>1 DEF SvcListed, SvcLasts
  <2> QED BY <2>2
<1>3. DocumentsClean
  <2> SUFFICES ASSUME NEW k \in Calls, calls[k].at = "done", InDocument(k), OwnerOf(k), own.owner > own.retired,
                      documents[calls[k].gen].epoch # calls[k].epoch, Quiet(calls[k].gen)
               PROVE  /\ k \notin tables.runner
                      /\ k \in tables.selecting => k \in tables.cancelled \/ \E j \in Calls \ {k} : calls[j].m = "dialog" /\ calls[j].out = "ok"
    BY DEF DocumentsClean
  <2>1. SvcKept(own, documents, calls, tables, k) /\ SvcListed(own, retiring, desk.retired, calls[k], tables, k)
    BY SvcOne
  <2>2. documents[calls[k].gen].ending = {}
    BY DEF Quiet
  <2>3. k \in tables.selecting => calls[k].m = "dialog"
    BY <2>1 DEF SvcListed
  <2> QED BY <2>1, <2>2, <2>3 DEF SvcKept, SvcAnotherOk, InDocument, OwnerOf
<1>4. RefusedMeansNot
  BY SvcOne DEF RefusedMeansNot, SvcListed
<1> QED BY <1>1, <1>2, <1>3, <1>4 DEF CoreServicesSound

(* For any calls, methods, generations, workers and limits of the queues: a  *)
(* generation that is not registered keeps nothing once nothing runs for it  *)
(* (no runner, watch or profile, open dialogs cancelled, desktop             *)
(* registrations left to the next sweep); a document that ended keeps no     *)
(* runner and no dialog that could still select, within the limits           *)
(* DocumentsClean names; and a file write that was refused left the file     *)
(* unwritten (core_services.rs).                                             *)
THEOREM CoreServicesAreSound == SvcSpec => []CoreServicesSound
<1>1. SvcInit => SvcInv
  BY SvcBeginsHolding
<1>2. SvcInv /\ [SvcNext]_svcVars => SvcInv'
  BY SvcStep
<1>3. SvcInv => CoreServicesSound
  BY SvcImplies
<1> QED BY <1>1, <1>2, <1>3, PTL DEF SvcSpec

(* A file is replaced only by a commit, and a commit has an owner.           *)
LEMMA SvcWritten ==
  ASSUME SvcInv, [SvcNext]_svcVars, NEW k \in Calls, k \in tables'.written \ tables.written
  PROVE  OwnerOf(k) \/ \E r \in retiring : r.gen = calls[k].gen /\ r.step \in {"resources", "files"}
<1>t. tables \in [Kinds -> SUBSET Calls]
  BY SvcOne
<1>1. ASSUME NEW j \in Calls, Commits(j) PROVE j = k /\ calls[j].at = "commits"
  <2>1. tables' = tables \/ tables' = [tables EXCEPT !.written = @ \cup {j}]
    BY <1>1 DEF Commits, Refuses
  <2> QED BY <1>1, <2>1, <1>t DEF Commits, Kinds
<1>2. ASSUME tables'.written \subseteq tables.written PROVE FALSE
  BY <1>2
<1>3. ASSUME NEW j \in Calls, Commits(j)
      PROVE  OwnerOf(k) \/ \E r \in retiring : r.gen = calls[k].gen /\ r.step \in {"resources", "files"}
  <2>1. SvcOwned(own, retiring, calls[k].gen, SvcBeforeRest)
    BY <1>1, <1>3, SvcOne DEF SvcPlaced
  <2> QED BY <2>1 DEF SvcOwned, OwnerOf, SvcBeforeRest
<1>4. ASSUME NEW g \in Gens, register(g) \/ Retires(g) \/ DocumentEnds(g) PROVE FALSE
  BY <1>4, <1>2, <1>t DEF register, Retires, DocumentEnds, Kinds
<1>5. ASSUME Inserts \/ Edit \/ monitor \/ retire_document \/ Starts \/ Sweeps PROVE FALSE
  BY <1>5, <1>2, <1>t DEF Inserts, Edit, monitor, retire_document, Starts, Sweeps, Kinds
<1>6. ASSUME Command PROVE FALSE
  <2>1. \A c \in SvcCommandRecord : calls[c.k].m \in Desktop => calls[c.k].m # "written"
    BY DEF Desktop
  <2>2. Head(desk.commands) \in SvcCommandRecord /\
        (Head(desk.commands).op # "retire" => calls[Head(desk.commands).k].m \in Desktop)
    <3>1. SvcDeskHolds(own, retiring, desk, calls)
      BY DEF SvcInv, SvcHolds
    <3>2. desk.commands # << >>
      BY <1>6 DEF Command
    <3> QED BY ZenonT(60), <3>1, <3>2, SvcCommandTaken
  <2>3. "written" \notin Desktop
    BY DEF Desktop
  <2> QED BY <1>6, <1>2, <1>t, <2>2, <2>3 DEF Command, Without, Kinds
<1>7. ASSUME NEW r \in retiring, retire_resources(r) PROVE FALSE
  BY <1>7, <1>2, <1>t DEF retire_resources, Without, FilesGone, Kinds
<1>8. ASSUME NEW j \in Calls, \E m \in Methods : begin(j, m) PROVE FALSE
  BY <1>8, <1>2 DEF begin
<1>9. ASSUME NEW j \in Calls, Acts(j) PROVE FALSE
  BY <1>9, <1>2, <1>t DEF Acts, Plain, Registers, watch, dialog, createProfile, fetch, Puts, Refuses, Noted, Kinds
<1>10. ASSUME NEW j \in Calls, Cancels(j) \/ Locks(j) \/ CheckedLocked(j) \/ Unlocks(j) \/ Rechecks(j) \/ Enrols(j) \/ Sends(j) \/ GivesUp(j)
       PROVE  FALSE
  BY <1>10, <1>2 DEF Cancels, Locks, CheckedLocked, Unlocks, Rechecks, Enrols, Sends, GivesUp
<1>11. ASSUME NEW j \in Calls, rollback_resource(j) \/ DialogThread(j) PROVE FALSE
  BY <1>11, <1>2, <1>t DEF rollback_resource, Undone, DialogThread, Kinds
<1>12. CASE UNCHANGED svcVars
  BY <1>12, <1>2 DEF svcVars
<1> QED BY <1>3, <1>4, <1>5, <1>6, <1>7, <1>8, <1>9, <1>10, <1>11, <1>12 DEF SvcNext

(* For the same constants: no file is written for a generation after its     *)
(* retirement has got past its files (core_services.rs).                     *)
THEOREM WrittenUnderOwner == SvcSpec => WritesUnderOwner
<1>1. SvcInit => SvcInv
  BY SvcBeginsHolding
<1>2. SvcInv /\ [SvcNext]_svcVars => SvcInv'
  BY SvcStep
<1>3. SvcInv /\ [SvcNext]_svcVars =>
        [\A k \in Calls : k \in tables'.written \ tables.written =>
           OwnerOf(k) \/ \E r \in retiring : r.gen = calls[k].gen /\ r.step \in {"resources", "files"}]_svcVars
  BY SvcWritten
<1> QED BY <1>1, <1>2, <1>3, PTL DEF SvcSpec, WritesUnderOwner
=============================================================================
