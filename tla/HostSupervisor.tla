---------------------------- MODULE HostSupervisor ----------------------------
(* One Host process and its stdio (src/plugin_host/supervisor.rs).  The owner  *)
(* sends requests, answers those of the child and polls; three IO workers move *)
(* frames between the pipes and two short queues; the child writes what it     *)
(* likes, leaves descendants behind and dies when it wants to.  A poll reads   *)
(* the shared state in several places, so it is several steps here.            *)
EXTENDS Integers, Sequences, FiniteSets

CONSTANTS
    QUEUE_FRAMES,               \* frames either queue holds (4)
    MAX_HOST_PENDING_REQUESTS,  \* unanswered requests in either direction (16)
    MaxId,                      \* bound: request ids used in either direction
    MaxFrames                   \* bound: frames the child writes

ASSUME SupervisorConstants ==
    /\ QUEUE_FRAMES \in Nat \ {0} /\ MAX_HOST_PENDING_REQUESTS \in Nat \ {0}
    /\ MaxId \in Nat \ {0} /\ MaxFrames \in Nat

VARIABLES
    child,      \* the operating system's side: process, job, stdout pipe
    io,         \* IoState, the two queues and the workers that still run
    sup,        \* HostSupervisor
    past        \* history: outcomes of issued ids, answers to the child

supVars == <<child, io, sup, past>>

Id == 1..MaxId
Worker == {"stdout", "stdin", "stderr"}

(* What the child can write: a request, a response, or a line decode_frame     *)
(* refuses (another generation, version, method, id).  Notifications only pass *)
(* through.                                                                    *)
Frame == [kind : {"request", "response"}, id : Id] \cup [kind : {"invalid"}, id : {0}]

Child == [alive : BOOLEAN, killed : BOOLEAN, job : BOOLEAN,
          out : {"open", "torn", "closed"}, pipe : Seq(Frame), wrote : 0..MaxFrames]

IoState == [stopping : BOOLEAN, failure : BOOLEAN, stdoutClosed : BOOLEAN,
            incoming : Seq(Frame), outgoing : 0..QUEUE_FRAMES, running : SUBSET Worker]

HostState == {"starting", "ready", "stopping", "exited", "failed"}
Turn == {"idle", "frames"}

Supervisor == [state : HostState, open : BOOLEAN, joined : BOOLEAN,
               pending : SUBSET Id, asked : SUBSET Id, issued : 0..MaxId, received : 0..MaxId,
               exit : BOOLEAN, jobEmpty : BOOLEAN,
               reported : BOOLEAN, shutdown : 0..MaxId, allow : BOOLEAN,
               grace : BOOLEAN, late : BOOLEAN, began : BOOLEAN,
               turn : Turn, final : BOOLEAN, exhausted : BOOLEAN, frames : 0..QUEUE_FRAMES]

(* spawn: the process runs, the three workers are started.                     *)
SupInit ==
    /\ child = [alive |-> TRUE, killed |-> FALSE, job |-> FALSE,
                out |-> "open", pipe |-> <<>>, wrote |-> 0]
    /\ io = [stopping |-> FALSE, failure |-> FALSE, stdoutClosed |-> FALSE,
             incoming |-> <<>>, outgoing |-> 0, running |-> Worker]
    /\ sup = [state |-> "starting", open |-> TRUE, joined |-> FALSE,
              pending |-> {}, asked |-> {}, issued |-> 0, received |-> 0,
              exit |-> FALSE, jobEmpty |-> FALSE,
              reported |-> FALSE, shutdown |-> 0, allow |-> FALSE,
              grace |-> FALSE, late |-> FALSE, began |-> FALSE,
              turn |-> "idle", final |-> FALSE, exhausted |-> FALSE, frames |-> 0]
    /\ past = [outcomes |-> [i \in Id |-> 0], answers |-> [i \in Id |-> 0]]

-----------------------------------------------------------------------------
(* The child.                                                                  *)

(* While it lives, or through a descendant that kept the pipe, the child       *)
(* writes a frame, or the beginning of one.                                    *)
CanWrite == (child.alive \/ child.job) /\ child.out = "open"

ChildWrites ==
    /\ CanWrite /\ child.wrote < MaxFrames
    /\ \/ \E f \in Frame :
             child' = [child EXCEPT !.pipe = Append(@, f), !.wrote = @ + 1]
       \/ child' = [child EXCEPT !.out = "torn", !.wrote = @ + 1]
    /\ UNCHANGED <<io, sup, past>>

(* It starts a descendant inside its job, or closes stdout and lives on.       *)
ChildChanges ==
    /\ child.alive
    /\ \/ ~child.job /\ ~child.killed /\ child' = [child EXCEPT !.job = TRUE]
       \/ child.out = "open" /\ child' = [child EXCEPT !.out = "closed"]
    /\ UNCHANGED <<io, sup, past>>

ChildDies ==
    /\ child.alive
    /\ child' = [child EXCEPT !.alive = FALSE]
    /\ UNCHANGED <<io, sup, past>>

(* terminate kills the whole job.                                              *)
JobEmpties ==
    /\ child.job /\ child.killed
    /\ child' = [child EXCEPT !.job = FALSE]
    /\ UNCHANGED <<io, sup, past>>

EndOfFile == child.out = "closed" \/ (~child.alive /\ ~child.job)

-----------------------------------------------------------------------------
(* The workers.                                                                *)

Ends(w, s) == [s EXCEPT !.running = @ \ {w}]

(* read_stdout: one frame at a time.                                           *)
read_stdout ==
    /\ "stdout" \in io.running
    /\ \/ /\ ~io.stopping /\ child.pipe # <<>>
          /\ child' = [child EXCEPT !.pipe = Tail(@)]
          /\ IF Len(io.incoming) < QUEUE_FRAMES
               THEN io' = [io EXCEPT !.incoming = Append(@, Head(child.pipe))]
               ELSE io' = Ends("stdout", [io EXCEPT !.failure = TRUE, !.stdoutClosed = TRUE])
       \/ /\ io.stopping \/ (child.pipe = <<>> /\ EndOfFile)
          /\ io' = Ends("stdout", [io EXCEPT
                      !.failure = @ \/ (child.out = "torn" /\ ~io.stopping),
                      !.stdoutClosed = TRUE])
          /\ UNCHANGED child
    /\ UNCHANGED <<sup, past>>

(* write_stdin: a frame whose request was cancelled or has expired is skipped; *)
(* a write fails when the child is gone or does not read.                      *)
write_stdin ==
    /\ "stdin" \in io.running
    /\ \/ /\ ~io.stopping /\ io.outgoing > 0
          /\ io' = [io EXCEPT !.outgoing = @ - 1]
       \/ /\ ~io.stopping /\ io.outgoing > 0
          /\ io' = Ends("stdin", [io EXCEPT !.outgoing = @ - 1, !.failure = TRUE])
       \/ /\ io.stopping \/ (io.outgoing = 0 /\ ~sup.open)
          /\ io' = Ends("stdin", io)
    /\ UNCHANGED <<child, sup, past>>

(* read_stderr keeps a tail of text; only its end matters here.                *)
read_stderr ==
    /\ "stderr" \in io.running
    /\ io.stopping \/ (~child.alive /\ ~child.job)
    /\ io' = Ends("stderr", io)
    /\ UNCHANGED <<child, sup, past>>

-----------------------------------------------------------------------------
(* Pieces of the owner's calls, over the triple <<child, io, sup>> as a record *)
(* of the three, because one call makes several of them in a row.              *)

Now == [child |-> child, io |-> io, sup |-> sup]

Becomes(x) == child' = x.child /\ io' = x.io /\ sup' = x.sup

(* fail: both directions end, the process and the workers are told to.         *)
Fail(x) ==
    [x EXCEPT !.sup.state = "failed", !.sup.pending = {}, !.sup.asked = {},
              !.sup.open = FALSE, !.child.killed = TRUE, !.io.stopping = TRUE]

(* enqueue_cancellable: a full or closed queue is a failure of the Host.       *)
(* What a frame says does not matter here, only that the queue took it.        *)
enqueue(x) ==
    IF x.sup.open /\ "stdin" \in x.io.running /\ x.io.outgoing < QUEUE_FRAMES
      THEN [x EXCEPT !.io.outgoing = @ + 1]
      ELSE IF x.sup.open THEN Fail(x) ELSE x

Enqueued(x, y) == x.io.outgoing # y.io.outgoing

ensure_admission == sup.state \in {"starting", "ready"}

(* send_request: the id counts as issued and pending only when the frame was   *)
(* taken.                                                                      *)
Issue(x) ==
    LET id == x.sup.issued + 1
        y  == enqueue(x)
    IN  IF Enqueued(x, y)
          THEN [y EXCEPT !.sup.issued = id, !.sup.pending = @ \cup {id}]
          ELSE y

send_request ==
    /\ sup.turn = "idle" /\ ensure_admission /\ ~sup.began
    /\ Cardinality(sup.pending) < MAX_HOST_PENDING_REQUESTS
    /\ sup.issued < MaxId - 1            \* the last id is for shutdown
    /\ Becomes(Issue(Now))
    /\ UNCHANGED past

notify ==
    /\ sup.turn = "idle" /\ ensure_admission
    /\ Becomes(enqueue(Now))
    /\ UNCHANGED past

cancel_request(id) ==
    /\ sup.turn = "idle" /\ id \in sup.pending
    /\ sup' = [sup EXCEPT !.pending = @ \ {id}]
    /\ UNCHANGED <<child, io, past>>

mark_ready ==
    /\ sup.turn = "idle" /\ sup.state = "starting"
    /\ sup' = [sup EXCEPT !.state = "ready"]
    /\ UNCHANGED <<child, io, past>>

(* respond: refused when the request is not pending; an expired one is         *)
(* forgotten without an answer; what the queue refuses stays pending.          *)
respond(id) ==
    /\ sup.turn = "idle" /\ id \in sup.asked
    /\ ensure_admission \/ (sup.state = "stopping" /\ sup.allow /\ sup.grace)
    /\ \/ /\ sup' = [sup EXCEPT !.asked = @ \ {id}]
          /\ UNCHANGED <<child, io, past>>
       \/ LET y == enqueue(Now)
          IN  /\ Becomes([y EXCEPT !.sup.asked = @ \ {id}])
              /\ past' = [past EXCEPT !.answers[id] =
                             IF Enqueued(Now, y) THEN @ + 1 ELSE @]

(* begin_stop, begin_stop_with_requests: the grace period starts once; a live  *)
(* Host gets one shutdown request in place of everything outstanding.          *)
begin_stop(with_requests) ==
    /\ sup.turn = "idle" /\ ~sup.began
    /\ LET x == [Now EXCEPT !.sup.grace = TRUE, !.sup.began = TRUE,
                            !.sup.allow = with_requests /\ ensure_admission]
           y == Issue([x EXCEPT !.sup.asked = {}, !.sup.pending = {}])
       IN  IF ~sup.exit /\ ensure_admission
             THEN Becomes(IF y.sup.issued = x.sup.issued THEN Fail(y)
                          ELSE [y EXCEPT !.sup.shutdown = y.sup.issued,
                                         !.sup.state = "stopping"])
             ELSE Becomes(x)
    /\ UNCHANGED past

(* stop, also on drop: after its own wait it terminates what still runs.       *)
stop ==
    /\ sup.turn = "idle" /\ sup.began /\ ~sup.exit
    /\ child' = [child EXCEPT !.killed = TRUE]
    /\ sup' = [sup EXCEPT !.open = FALSE]
    /\ UNCHANGED <<io, past>>

-----------------------------------------------------------------------------
(* poll.                                                                       *)

(* The end of the grace period, whether every worker was joined before, and    *)
(* what a worker reported.                                                     *)
PollBegins(late) ==
    /\ sup.turn = "idle"
    /\ late => sup.grace
    /\ LET x == IF ~sup.exit /\ late
                  THEN [Now EXCEPT !.child.killed = TRUE, !.io.stopping = TRUE,
                                   !.sup.open = FALSE, !.sup.grace = FALSE]
                  ELSE Now
           y == [x EXCEPT !.sup.late = late, !.sup.final = sup.joined,
                          !.sup.exhausted = (sup.state = "failed"),
                          !.sup.frames = 0, !.sup.turn = "frames"]
       IN  Becomes(IF io.failure THEN Fail(y) ELSE y)
    /\ UNCHANGED past

Reads == \/ sup.state \in {"starting", "ready", "stopping"}
         \/ sup.state = "exited" /\ ~sup.reported

(* accept of a request: ids increase; while stopping only with the remaining   *)
(* cleanup window; an expired one is answered at once.                         *)
AcceptsCleanup == sup.allow /\ sup.grace /\ ~sup.late

AcceptRequest(x, id) ==
    IF x.sup.exit THEN {<<x, 0>>}
    ELSE IF id <= x.sup.received \/ Cardinality(x.sup.asked) >= MAX_HOST_PENDING_REQUESTS
      THEN {<<Fail(x), 0>>}
      ELSE LET y == [x EXCEPT !.sup.received = id]
               z == enqueue(y)
               refused == <<IF Enqueued(y, z) THEN z ELSE Fail(z), IF Enqueued(y, z) THEN 1 ELSE 0>>
           IN  IF x.sup.state = "stopping" /\ ~AcceptsCleanup
                 THEN {refused}
                 ELSE {refused, <<[y EXCEPT !.sup.asked = @ \cup {id}], 0>>}

(* One frame of a turn; a failure ends the frames.                             *)
PollFrame ==
    /\ sup.turn = "frames" /\ Reads /\ sup.frames < QUEUE_FRAMES /\ io.incoming # <<>>
    /\ LET f == Head(io.incoming)
           x == [Now EXCEPT !.io.incoming = Tail(@), !.sup.frames = @ + 1]
       IN  \/ /\ f.kind = "request"
              /\ \E r \in AcceptRequest(x, f.id) :
                   /\ Becomes(r[1])
                   /\ past' = [past EXCEPT !.answers[f.id] = @ + r[2]]
           \/ /\ f.kind = "response"
              /\ IF f.id > x.sup.issued
                   THEN Becomes(Fail(x)) /\ UNCHANGED past
                   ELSE /\ Becomes([x EXCEPT !.sup.pending = @ \ {f.id}])
                        /\ past' = [past EXCEPT !.outcomes[f.id] =
                                       IF f.id \in x.sup.pending THEN @ + 1 ELSE @]
           \/ f.kind = "invalid" /\ Becomes(Fail(x)) /\ UNCHANGED past

(* After the frames, the deadlines: initialization, an incomplete frame, a     *)
(* frame the child does not read, requests in either direction.  Each result   *)
(* comes with the ids that had their outcome and the ids that were answered.   *)
Expires == sup.state \in {"starting", "ready"} \/ (sup.state = "stopping" /\ AcceptsCleanup)

Unanswered(x, id) ==
    LET y == [x EXCEPT !.sup.asked = @ \ {id}]
        z == enqueue(y)
    IN  <<z, {}, IF Enqueued(y, z) THEN {id} ELSE {}>>

Expired(x) ==
    {<<x, {}, {}>>}
      \cup (IF ~Expires THEN {} ELSE
              {<<Fail(x), {}, {}>>}
                \cup {<<[x EXCEPT !.sup.pending = @ \ {id}], {id}, {}>> : id \in sup.pending}
                \cup {Unanswered(x, id) : id \in sup.asked})

(* The process: the first sight of its end closes the job and both queues; the *)
(* workers are cancelled only after they had time to read what it left.        *)
Exited(x) == [x EXCEPT !.sup.exit = TRUE,
                       !.sup.state = IF @ = "failed" THEN @ ELSE "exited"]

Waited(x) ==
    IF ~child.alive
      THEN IF ~sup.exit
             THEN {[Exited(x) EXCEPT !.child.killed = TRUE, !.sup.open = FALSE,
                                     !.sup.asked = {}]}
             ELSE {Exited(x), [Exited(x) EXCEPT !.io.stopping = TRUE]}
      ELSE {x} \cup (IF io.stdoutClosed /\ x.sup.state \in {"starting", "ready"}
                       THEN {Fail(x)} ELSE {})

(* What was read before the workers ended has been looked at, in a turn that   *)
(* began after they had.                                                       *)
DrainedOnce(x) == x.sup.state = "failed" \/ x.sup.exhausted

Drained(x) == x.sup.state = "failed" \/ (x.sup.final /\ x.sup.exhausted)

(* join_finished, the job query, and what the owner is told.                   *)
Reported(x) ==
    LET joined == x.io.running = {}
        empty  == x.sup.jobEmpty \/ (x.sup.exit /\ ~x.child.job)
        ended  == x.sup.exit /\ joined /\ empty /\ Drained(x)
    IN  [x EXCEPT !.sup.joined = joined, !.sup.jobEmpty = empty,
                  !.sup.reported = @ \/ ended,
                  !.sup.pending = IF ended THEN {} ELSE @,
                  !.sup.late = FALSE, !.sup.final = FALSE, !.sup.exhausted = FALSE,
                  !.sup.frames = 0, !.sup.turn = "idle"]

Bump(f, ids) == [i \in Id |-> IF i \in ids THEN f[i] + 1 ELSE f[i]]

PollEnds ==
    /\ sup.turn = "frames"
    /\ ~Reads \/ sup.frames = QUEUE_FRAMES \/ io.incoming = <<>>
    /\ LET x == [Now EXCEPT !.sup.exhausted = @ \/ (Reads /\ sup.frames < QUEUE_FRAMES)]
       IN  \E e \in Expired(x) : \E w \in Waited(e[1]) :
             /\ Becomes(Reported(w))
             /\ past' = [past EXCEPT !.outcomes = Bump(@, e[2]), !.answers = Bump(@, e[3])]

Poll == \/ \E late \in BOOLEAN : PollBegins(late)
        \/ PollFrame \/ PollEnds

OwnerCalls ==
    \/ send_request \/ notify \/ mark_ready \/ stop
    \/ \E id \in Id : cancel_request(id) \/ respond(id)
    \/ \E w \in BOOLEAN : begin_stop(w)

SupNext ==
    \/ ~sup.reported /\ (Poll \/ OwnerCalls)
    \/ ChildWrites \/ ChildChanges \/ ChildDies \/ JobEmpties
    \/ read_stdout \/ write_stdin \/ read_stderr

SupSpec == SupInit /\ [][SupNext]_supVars

-----------------------------------------------------------------------------
SupTypeOK ==
    /\ child \in Child /\ io \in IoState /\ sup \in Supervisor
    /\ Len(io.incoming) <= QUEUE_FRAMES

(* The exit is reported once the process, its job and the workers are gone;    *)
(* unless the Host failed, every frame that was read was looked at first, and  *)
(* a truncated last frame that was read to its end made it fail.               *)
ExitIsFinal ==
    sup.reported =>
      /\ ~child.alive /\ ~child.job /\ io.running = {} /\ sup.pending = {}
      /\ sup.state # "failed" => io.incoming = <<>> /\ ~io.failure

(* A request of Core has one outcome, response or timeout, and none while it   *)
(* is pending; a request of the child is answered once.                        *)
OneOutcome ==
    \A i \in Id :
      /\ past.outcomes[i] <= 1 /\ past.answers[i] <= 1
      /\ i \in sup.pending => past.outcomes[i] = 0
      /\ i \in sup.asked => past.answers[i] = 0

SupervisorSound == SupTypeOK /\ ExitIsFinal /\ OneOutcome
=============================================================================
