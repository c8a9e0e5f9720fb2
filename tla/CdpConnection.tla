---------------------------- MODULE CdpConnection ----------------------------
(* The CDP client of one connection (src/cdp/client.rs, client/raw_access.rs): *)
(* callers issue requests, a writer thread and a reader thread own the pipes,  *)
(* and whoever meets the first error ends the connection for everyone.         *)
EXTENDS Integers, Sequences, FiniteSets

CONSTANTS
    MAX_RAW_QUEUED_WRITES,  \* raw frames queued or being written (16)
    MaxRequests,            \* bound: requests issued
    Closers                 \* threads that may call shutdown

ASSUME ConnectionConstants ==
    MAX_RAW_QUEUED_WRITES \in Nat \ {0} /\ MaxRequests \in Nat

VARIABLES
    conn,   \* State, the writer's queue and what terminate has still to tell
    wires,  \* the two workers: what each is doing, the raw write deadline
    asked,  \* every issued request: its channels, permit and owner
    closing \* the shutdown status and its callers

connVars == <<conn, wires, asked, closing>>

ReqId == 1..MaxRequests
Thread == {"reader", "writer"}
ReqKind == {"plain", "raw", "attach"}   \* request, begin_raw_request, and its use by an attachment
QueuesBounded(k) == k # "plain"

\* Whether the connection ended; a deadline that ended it names its request.
Reason == {"none", "error", "timeout"}
Outcome == {"none", "response", "timeout", "connection", "cancelled", "dropped"}

Asked == [kind : ReqKind \cup {"unused"}, 
          ack : {"none", "ok", "timeout", "failed"},
          box : {"empty", "response", "connection"},
          permit : 0..2, expired : BOOLEAN, seen : BOOLEAN,
          stage : {"unused", "writing", "waiting", "expiring", "done", "panic"},
          outcome : Outcome, wrote : BOOLEAN]

ConnTypeOK ==
    /\ conn \in [terminal : Reason, by : 0..MaxRequests, pending : SUBSET ReqId, issued : 0..MaxRequests,
                 told : SUBSET ReqId, queue : Seq(0..MaxRequests)]
    /\ wires \in [run : SUBSET Thread, at : 0..MaxRequests, deadline : BOOLEAN, late : BOOLEAN]
    /\ asked \in [ReqId -> Asked]
    /\ closing \in [status : {"starting", "running", "joining", "done", "failed", "aborted"},
                    handles : SUBSET Thread,
                    pc : [Closers -> {"idle", "called", "joining", "ok", "error"}]]

NoRequest == [kind |-> "unused", ack |-> "none", box |-> "empty", permit |-> 0,
              expired |-> FALSE, seen |-> FALSE, stage |-> "unused", outcome |-> "none", wrote |-> FALSE]

(* spawn_with_cancellation: the writer is started first.                       *)
ConnInit ==
    /\ conn = [terminal |-> "none", by |-> 0, pending |-> {}, issued |-> 0, told |-> {}, queue |-> <<>>]
    /\ wires = [run |-> {"writer"}, at |-> 0, deadline |-> FALSE, late |-> FALSE]
    /\ asked = [i \in ReqId |-> NoRequest]
    /\ closing = [status |-> "starting", handles |-> {"writer"}, pc |-> [c \in Closers |-> "idle"]]

-----------------------------------------------------------------------------
(* Helpers on the shared state.                                                *)

Closed == conn.terminal # "none"
SHUTDOWN == 0   \* WriterCommand::Shutdown in the queue

(* terminate under the lock: the first error wins, and everybody registered at *)
(* that moment is taken out to be told after the lock is released.             *)
terminate(c, e, i) ==
    IF c.terminal # "none" THEN c
    ELSE [c EXCEPT !.terminal = e, !.by = i, !.pending = {}, !.told = c.pending]

(* Runtime::stop: terminate, Shutdown to the writer, cancel both workers' IO.  *)
Stop(c, e, i) ==
    LET t == terminate(c, e, i) IN
    IF "writer" \in wires.run /\ (t.queue = <<>> \/ t.queue[Len(t.queue)] # SHUTDOWN)
      THEN [t EXCEPT !.queue = Append(@, SHUTDOWN)] ELSE t

(* Every change of the activity epoch ends what a drive has observed.          *)
NewEpoch(r) == [i \in ReqId |-> [r[i] EXCEPT !.seen = FALSE]]

(* Runtime::stop with an error that names no request.                          *)
Stops == conn' = Stop(conn, "error", 0)

(* The raw frames the queue and the writer hold: RawWritePermit's count.       *)
QueuedIds == {i \in ReqId : \E n \in 1..Len(conn.queue) : conn.queue[n] = i}
raw_writes == Cardinality({i \in QueuedIds \cup ({wires.at} \ {0}) : QueuesBounded(asked[i].kind)})

(* Mutant of Retire: the queued handle forgets its frame.                      *)
RetireKeepsFrame(r, i, o) ==
    [r EXCEPT ![i].stage = "done", ![i].outcome = o, ![i].seen = FALSE, ![i].expired = FALSE,
              ![i].ack = "none", ![i].box = "empty"]

(* Drop of a request that was not completed, and of its queued handle, which   *)
(* cancels a raw frame the writer has not begun.                               *)
Retire(r, i, o) ==
    [r EXCEPT ![i].stage = "done", ![i].outcome = o, ![i].seen = FALSE, ![i].expired = FALSE,
              ![i].ack = "none", ![i].box = "empty", ![i].permit = IF QueuesBounded(r[i].kind) /\ @ = 0 THEN 2 ELSE @]

(* What is sent to a caller that is gone is lost.                              *)
Acks(r, i, a) == IF r[i].stage = "done" THEN r ELSE [r EXCEPT ![i].ack = a]

Withdraw(c, i) == [c EXCEPT !.pending = @ \ {i}]

-----------------------------------------------------------------------------
(* Startup.                                                                    *)

ReaderStarts ==
    /\ closing.status = "starting" /\ ~Closed
    /\ closing' = [closing EXCEPT !.status = "running", !.handles = Thread]
    /\ wires' = [wires EXCEPT !.run = @ \cup {"reader"}]
    /\ UNCHANGED <<conn, asked>>

(* spawn_worker fails for the reader: cleanup_failed_startup stops and joins   *)
(* the writer.                                                                 *)
ReaderFailsToStart ==
    /\ closing.status = "starting" /\ ~Closed
    /\ Stops
    /\ UNCHANGED <<asked, wires, closing>>

(* ... or, when the writer does not stop in time, aborts the process.          *)
cleanup_failed_startup ==
    /\ closing.status = "starting" /\ Closed
    /\ \/ closing.handles \cap wires.run = {} /\ closing' = [closing EXCEPT !.status = "failed", !.handles = {}]
       \/ closing.handles \cap wires.run # {} /\ closing' = [closing EXCEPT !.status = "aborted"]
    /\ UNCHANGED <<conn, wires, asked>>

Usable == closing.status \notin {"starting", "failed", "aborted"}

-----------------------------------------------------------------------------
(* Issuing.                                                                    *)

(* The early returns of enqueue_request_until, none of which takes an id.      *)
ConnRefused(k) ==
    \/ QueuesBounded(k) /\ raw_writes >= MAX_RAW_QUEUED_WRITES
    \/ Closed

enqueue_request_until(k) ==
    LET i == conn.issued + 1 IN
    /\ Usable /\ conn.issued < MaxRequests /\ ~ConnRefused(k)
    /\ conn' = [conn EXCEPT !.queue = Append(@, i), !.pending = @ \cup {i}, !.issued = i]
    /\ asked' = [asked EXCEPT ![i] = [NoRequest EXCEPT !.kind = k, !.stage = "writing"]]
    /\ UNCHANGED <<wires, closing>>

(* encode_json_frame fails for another reason than the size.                   *)
EncodingFails ==
    /\ Usable /\ ~Closed /\ conn.issued < MaxRequests
    /\ Stops /\ asked' = NewEpoch(asked)
    /\ UNCHANGED <<wires, closing>>

DeadlinePasses(i) ==
    /\ asked[i].stage \in {"writing", "waiting"} /\ ~asked[i].expired
    /\ asked' = [asked EXCEPT ![i].expired = TRUE]
    /\ UNCHANGED <<conn, wires, closing>>

-----------------------------------------------------------------------------
(* The workers.                                                                *)

(* A worker that returns drops its end; the frames left in the writer's queue  *)
(* drop their acknowledgement channel and their permit.                        *)
Abandon(r, ids) == [i \in ReqId |-> IF i \in ids /\ r[i].ack = "none" THEN Acks(r, i, "failed")[i] ELSE r[i]]

WriterReturns(c, r) ==
    /\ conn' = [c EXCEPT !.queue = <<>>]
    /\ asked' = Abandon(r, QueuedIds)
    /\ wires' = [wires EXCEPT !.run = @ \ {"writer"}, !.at = 0, !.deadline = FALSE, !.late = FALSE]

writer_loop ==
    /\ "writer" \in wires.run /\ wires.at = 0 /\ conn.queue # <<>>
    /\ LET i == Head(conn.queue)
           rest == [conn EXCEPT !.queue = Tail(@)]
       IN \/ /\ (i = SHUTDOWN \/ Closed)
             /\ WriterReturns(conn, asked)
          \/ /\ i # SHUTDOWN /\ ~Closed /\ asked[i].expired /\ ~QueuesBounded(asked[i].kind)
             /\ WriterReturns(Stop(rest, "timeout", i), NewEpoch(Acks(asked, i, "timeout")))
          \/ /\ i # SHUTDOWN /\ ~Closed /\ QueuesBounded(asked[i].kind)
             /\ asked[i].expired \/ asked[i].permit = 2
             /\ conn' = rest /\ asked' = Acks(asked, i, "timeout")
             /\ UNCHANGED wires
          \/ /\ i # SHUTDOWN /\ ~Closed /\ ~asked[i].expired /\ asked[i].permit # 2
             /\ conn' = rest
             /\ wires' = [wires EXCEPT !.at = i, !.deadline = QueuesBounded(asked[i].kind)]
             /\ asked' = [asked EXCEPT ![i].permit = IF QueuesBounded(asked[i].kind) THEN 1 ELSE 0]
            
    /\ UNCHANGED closing

(* write_all and flush end: well, or with an error, which cancelling forces.   *)
Written ==
    /\ wires.at # 0
    /\ \/ /\ wires' = [wires EXCEPT !.at = 0, !.deadline = FALSE, !.late = FALSE]
          /\ asked' = Acks([asked EXCEPT ![wires.at].wrote = TRUE], wires.at, "ok")
          /\ UNCHANGED <<conn>>
       \/ /\ WriterReturns(Stop(conn, "error", 0), NewEpoch(Acks([asked EXCEPT ![wires.at].wrote = TRUE],
                                                                 wires.at, "failed")))
    /\ UNCHANGED closing

(* The reader stops the connection and returns.                                *)
ReaderReturns ==
    /\ Stops /\ asked' = (IF Closed THEN asked ELSE NewEpoch(asked))
    /\ wires' = [wires EXCEPT !.run = @ \ {"reader"}]

(* route_response: a late or repeated answer is ignored; an id never issued,   *)
(* or the wrong session, ends the connection.                                  *)
route_response(i, good) ==
    /\ "reader" \in wires.run /\ i \in 0..(MaxRequests + 1)
    /\ \/ /\ i \in conn.pending /\ good
          /\ conn' = Withdraw(conn, i)
          /\ asked' = NewEpoch([asked EXCEPT ![i].box = "response"])
          /\ UNCHANGED wires
       \/ /\ i \notin conn.pending /\ i \in 1..conn.issued
          /\ UNCHANGED <<conn, asked, wires>>
       \/ /\ (i \in conn.pending /\ ~good) \/ (i \notin conn.pending /\ i \notin 1..conn.issued)
          /\ ReaderReturns
    /\ UNCHANGED closing

(* route_message: an event completes no request, but it is activity (its       *)
(* subscribers and sessions are in CdpTargets).                                *)
route_message ==
    /\ "reader" \in wires.run /\ Usable
    /\ asked' = NewEpoch(asked)
    /\ UNCHANGED <<conn, wires, closing>>

(* reader_loop: end of file, a read error (which cancelling forces), a frame   *)
(* that is no JSON.                                                            *)
reader_loop ==
    /\ "reader" \in wires.run
    /\ ReaderReturns
    /\ UNCHANGED closing

(* terminate after the lock: one sender at a time is told.                     *)
Tell ==
    /\ \E x \in conn.told :
          /\ conn' = [conn EXCEPT !.told = @ \ {x}]
          /\ asked' = [asked EXCEPT ![x].box = IF asked[x].stage = "done" THEN @ ELSE "connection"]
    /\ UNCHANGED <<wires, closing>>

-----------------------------------------------------------------------------
(* The owners of requests.                                                     *)

Finishes(i, o) ==
    /\ asked' = Retire(asked, i, o)
    /\ conn' = Withdraw(conn, i)
    /\ UNCHANGED wires

(* request_error: the own deadline, or the connection's error.                 *)
request_error(i) == IF asked[i].ack = "timeout" THEN "timeout" ELSE "connection"

(* wait_written: a plain caller blocks for the acknowledgement.  Its deadline  *)
(* ends the connection, for a frame may be half written.                       *)
wait_written(i) ==
    /\ asked[i].stage = "writing" /\ asked[i].kind = "plain"
    /\ \/ /\ asked[i].ack = "ok"
          /\ asked' = [asked EXCEPT ![i].stage = "waiting"] /\ UNCHANGED <<conn, wires>>
       \/ asked[i].ack \in {"timeout", "failed"} /\ Finishes(i, request_error(i))
       \/ /\ asked[i].ack = "none" /\ asked[i].expired
          /\ conn' = Withdraw(Stop(conn, "timeout", i), i)
          /\ UNCHANGED wires
          /\ asked' = LET r == Retire(asked, i, "timeout") IN IF Closed THEN r ELSE NewEpoch(r)
    /\ UNCHANGED closing

(* try_response while the frame is queued: only this frame is given up.        *)
poll_written(i) ==
    /\ asked[i].stage = "writing" /\ asked[i].kind = "raw"
    /\ \/ /\ asked[i].ack = "ok"
          /\ asked' = [asked EXCEPT ![i].stage = "waiting"] /\ UNCHANGED <<conn, wires>>
       \/ asked[i].ack \in {"timeout", "failed"} /\ Finishes(i, request_error(i))
       \/ asked[i].ack = "none" /\ asked[i].expired /\ Finishes(i, "timeout")
    /\ UNCHANGED closing

(* An attachment is polled without a deadline: its owner keeps the receiver.   *)
try_attachment_response(i) ==
    /\ asked[i].kind = "attach"
    /\ \/ /\ asked[i].stage = "writing" /\ asked[i].ack = "ok"
          /\ asked' = [asked EXCEPT ![i].stage = "waiting"] /\ UNCHANGED <<conn, wires>>
       \/ asked[i].stage = "writing" /\ asked[i].ack \in {"timeout", "failed"} /\ Finishes(i, request_error(i))
       \/ asked[i].stage = "waiting" /\ asked[i].box # "empty" /\ Finishes(i, asked[i].box)
    /\ UNCHANGED closing

(* CdpRequest::try_response and wait.                                          *)
try_response(i) ==
    /\ asked[i].stage = "waiting" /\ asked[i].kind # "attach"
    /\ \/ asked[i].box # "empty" /\ Finishes(i, asked[i].box)
       \/ /\ asked[i].box = "empty" /\ asked[i].expired
          /\ asked' = [asked EXCEPT ![i].stage = "expiring"] /\ UNCHANGED <<conn, wires>>
    /\ UNCHANGED closing

(* expire_request, under the lock a second look at what the reader has done    *)
(* meanwhile.  "panic" is its unreachable!.                                    *)
expire_request(i) ==
    /\ asked[i].stage = "expiring"
    /\ IF Closed THEN Finishes(i, "connection")
       ELSE IF i \in conn.pending THEN Finishes(i, "timeout")
       ELSE IF asked[i].box # "empty" THEN Finishes(i, asked[i].box)
       ELSE asked' = [asked EXCEPT ![i].stage = "panic"] /\ UNCHANGED <<conn, wires>>
    /\ UNCHANGED closing

(* A drive reads the epoch, looks for its answer, and sleeps while the epoch   *)
(* stays (activity_epoch, wait_for_activity).                                  *)
activity_epoch(i) ==
    /\ asked[i].stage = "waiting" /\ ~asked[i].seen /\ asked[i].box = "empty" /\ ~Closed
    /\ asked' = [asked EXCEPT ![i].seen = TRUE]
    /\ UNCHANGED <<conn, wires, closing>>

wait_for_activity(i) == asked[i].stage = "waiting" /\ asked[i].seen /\ ~Closed /\ ~asked[i].expired

(* cancel_attachment_before_write: true proves that the writer never began.    *)
(* Otherwise the owner keeps the receiver, or closes the connection.           *)
cancel_attachment_before_write(i) ==
    /\ asked[i].kind = "attach" /\ asked[i].stage \in {"writing", "waiting"}
    /\ asked[i].permit \in {0, 2} /\ Finishes(i, "cancelled")
    /\ UNCHANGED closing

close_unconfirmed_attachment(i) ==
    /\ asked[i].kind = "attach" /\ asked[i].stage \in {"writing", "waiting"} /\ asked[i].permit = 1
    /\ ~Closed /\ Stops
    /\ asked' = NewEpoch(asked) /\ UNCHANGED <<wires, closing>>

(* An owner may drop what it waits for, except a caller blocked in it.         *)
DropRequest(i) ==
    /\ asked[i].stage \in {"writing", "waiting"}
    /\ asked[i].kind = "raw" \/ (asked[i].kind = "plain" /\ asked[i].stage = "waiting")
    /\ Finishes(i, "dropped")
    /\ UNCHANGED closing

(* The raw write budget runs out, and poll_raw_io notices.                     *)
RawWriteLate ==
    /\ wires.deadline /\ ~wires.late
    /\ wires' = [wires EXCEPT !.late = TRUE]
    /\ UNCHANGED <<conn, asked, closing>>

poll_raw_io ==
    /\ wires.late /\ ~Closed
    /\ conn' = Stop(conn, "timeout", wires.at)
    /\ asked' = NewEpoch(asked)
    /\ UNCHANGED <<wires, closing>>

-----------------------------------------------------------------------------
(* Shutdown.                                                                   *)

(* ClientInner::shutdown begins with stop, whatever the state.                 *)
shutdown(c) ==
    /\ Usable /\ closing.pc[c] = "idle"
    /\ Stops /\ asked' = (IF Closed THEN asked ELSE NewEpoch(asked))
    /\ UNCHANGED wires
    /\ closing' = [closing EXCEPT !.pc[c] = "called"]

(* Then it becomes the joiner, waits for the one there is, or reads its result.*)
JoinOrWait(c) ==
    /\ closing.pc[c] = "called"
    /\ \/ closing.status = "running" /\ closing' = [closing EXCEPT !.status = "joining", !.pc[c] = "joining"]
       \/ closing.status = "done" /\ closing' = [closing EXCEPT !.pc[c] = "ok"]
       \/ closing.status = "joining" /\ closing' = [closing EXCEPT !.pc[c] = "error"]
    /\ UNCHANGED <<conn, wires, asked>>

(* reap_finished_workers: the threads that still run.                          *)
reap_finished_workers(h) == h \cap wires.run

(* join_workers: it keeps cancelling until both are gone, or hands back the    *)
(* threads that are left at its deadline.                                      *)
join_workers(c) ==
    /\ closing.pc[c] = "joining"
    /\ LET left == reap_finished_workers(closing.handles) IN
       \/ left = {} /\ closing' = [closing EXCEPT !.status = "done", !.handles = {}, !.pc[c] = "ok"]
       \/ left # {} /\ closing' = [closing EXCEPT !.status = "running", !.handles = left, !.pc[c] = "error"]
    /\ UNCHANGED <<conn, wires, asked>>

(* A caller that got an error may try again; the drop of the last client       *)
(* aborts the process instead.                                                 *)
AfterError(c) ==
    /\ closing.pc[c] = "error"
    /\ \/ closing' = [closing EXCEPT !.pc[c] = "idle"]
       \/ /\ \A d \in Closers \ {c} : closing.pc[d] \in {"idle", "ok"}
          /\ \A i \in ReqId : asked[i].stage \in {"unused", "done"}
          /\ closing.status # "joining"
          /\ closing' = [closing EXCEPT !.status = "aborted"]
    /\ UNCHANGED <<conn, wires, asked>>

ConnNext ==
    /\ closing.status # "aborted"
    /\ \/ ReaderStarts \/ ReaderFailsToStart \/ cleanup_failed_startup \/ EncodingFails
       \/ \E k \in ReqKind : enqueue_request_until(k)
       \/ writer_loop \/ Written \/ reader_loop \/ Tell \/ RawWriteLate \/ poll_raw_io \/ route_message
       \/ \E i \in 0..(MaxRequests + 1), good \in BOOLEAN : route_response(i, good)
       \/ \E i \in ReqId :
             \/ DeadlinePasses(i) \/ wait_written(i) \/ poll_written(i) \/ try_response(i) \/ try_attachment_response(i)
             \/ expire_request(i) \/ activity_epoch(i) \/ cancel_attachment_before_write(i)
             \/ close_unconfirmed_attachment(i) \/ DropRequest(i)
       \/ \E c \in Closers : shutdown(c) \/ JoinOrWait(c) \/ join_workers(c) \/ AfterError(c)

ConnSpec == ConnInit /\ [][ConnNext]_connVars

-----------------------------------------------------------------------------
(* What has to hold.                                                           *)

(* A request that its owner still waits for has an entry, an answer in its     *)
(* channel, or an ended connection: expire_request never meets its             *)
(* unreachable!.  After the end nobody is registered any more.                 *)
NobodyForgotten ==
    /\ Closed => conn.pending = {}
    /\ \A i \in ReqId :
          /\ asked[i].stage # "panic"
          /\ asked[i].stage \in {"writing", "waiting", "expiring"} =>
                \/ i \in conn.pending \/ asked[i].box # "empty" \/ i \in conn.told
          /\ i \in conn.pending => asked[i].stage \in {"writing", "waiting", "expiring"} /\ asked[i].box = "empty"

(* A worker is gone, or an acknowledgement channel is dropped, only once the   *)
(* connection has its reason: terminal_reason never finds none.                *)
DeadHasReason ==
    /\ ~Closed => wires.run = (IF closing.status = "starting" THEN {"writer"} ELSE Thread)
    /\ \A i \in ReqId : asked[i].ack = "failed" => Closed

(* A raw frame that was cancelled was never begun, a deadline of a raw request *)
(* ends the connection only while its own frame is being written, and a frame  *)
(* is on the pipe only if it was begun.                                        *)
RawIsContained ==
    /\ \A i \in ReqId : asked[i].outcome = "cancelled" => ~asked[i].wrote /\ wires.at # i
    /\ \A i \in ReqId : conn.terminal = "timeout" /\ conn.by = i /\ QueuesBounded(asked[i].kind) => asked[i].permit = 1
    /\ raw_writes <= MAX_RAW_QUEUED_WRITES
    /\ wires.deadline => wires.at # 0 /\ QueuesBounded(asked[wires.at].kind) /\ asked[wires.at].permit = 1

(* A drive that sleeps has no answer to take.                                  *)
NoMissedAnswer == \A i \in ReqId : wait_for_activity(i) => asked[i].box = "empty" /\ i \in conn.pending

(* A thread that runs is held by the status or by a joiner, a finished         *)
(* shutdown leaves no thread, and one joiner works at a time.                  *)
NoDetachedWorker ==
    /\ wires.run \subseteq closing.handles
    /\ closing.status = "done" => wires.run = {}
    /\ (closing.status = "joining") = (\E c \in Closers : closing.pc[c] = "joining")
    /\ \A c, d \in Closers : closing.pc[c] = "joining" /\ closing.pc[d] = "joining" => c = d

(* The CDP connection: no caller is forgotten, no worker is lost, a raw        *)
(* request cannot hurt the others.                                             *)
ConnectionSound ==
    /\ ConnTypeOK /\ NobodyForgotten /\ DeadHasReason /\ RawIsContained
    /\ NoMissedAnswer /\ NoDetachedWorker
=============================================================================
