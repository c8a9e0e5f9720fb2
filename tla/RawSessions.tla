----------------------------- MODULE RawSessions -----------------------------
(* One Host generation attaches flattened CDP sessions and retires            *)
(* (src/host_runtime/attachments.rs, services.rs, cleanup.rs).  An attach     *)
(* whose frame was written creates a session whether or not anybody still     *)
(* waits for its answer, so the owner keeps the answer, then detaches the     *)
(* session, and closes the shared connection when it cannot.  Owner, browser, *)
(* Host worker and the thread that revokes authority interleave.              *)
EXTENDS CoreState, Sequences

CONSTANTS
    Request,           \* Target.attachToTarget requests of the Host, numbered as they are made
    This,              \* the owner: its plugin and generation
    MAX_PENDING        \* requests a Host may have in flight (4)

ASSUME RawConstants ==
    /\ This \in Owner /\ MAX_PENDING \in Nat
    /\ Request \subseteq Nat /\ Session \subseteq Nat

VARIABLES
    core,              \* CoreRpcShared: raw_sessions, retiring, reserved, cleanup
    attach,            \* phase, frame and session of each attach request
    remote,            \* sessions the browser holds attached
    used,              \* sessions the browser ever created
    closed,            \* the shared CDP connection ended, and remote with it
    state,             \* observation.state; "gone" after stop
    running,           \* cleanup_phase is Running
    defer,             \* defer_scope_cleanup
    services,          \* services_active
    quarantined,       \* cleanup_quarantined
    failure,           \* attachment_failure is set
    queue,             \* scope_cleanup_queue
    detaching,         \* scope_cleanup: detach requests in flight, and answered
    report             \* what the stop operation was told

xvars == <<core, attach, remote, used, closed, state, running, defer, services,
           quarantined, failure, queue, detaching, report>>

(* What the owner has of a request: nothing yet, a waiting caller and a       *)
(* permit, a permit only (retiring_attachments), a reply in the outbox, or    *)
(* nothing any more.                                                          *)
AttachPhase == {"new", "pending", "retiring", "undelivered", "done"}

(* The frame: raw_state 0 (or 2, cancelled: none) and 1, then the answer.     *)
Frame == {"none", "queued", "written", "attached", "refused"}

Attach == [phase : AttachPhase, frame : Frame, session : Session \cup {None}]

New == [phase |-> "new", frame |-> "none", session |-> None]

(* Nothing is kept of a request whose answer was taken or whose frame cannot  *)
(* be written any more.                                                       *)
Done == [New EXCEPT !.phase = "done"]

RawInit ==
    /\ core = InitialState
    /\ attach = [q \in Request |-> New]
    /\ remote = {} /\ used = {} /\ closed = FALSE
    /\ state = "active" /\ running = FALSE /\ defer = FALSE /\ services = TRUE
    /\ quarantined = FALSE /\ failure = FALSE
    /\ queue = <<>> /\ detaching = [s \in {} |-> FALSE]
    /\ report = "none"

In(phase) == {q \in Request : attach[q].phase = phase}

-----------------------------------------------------------------------------
(* The writer and the browser.                                                *)

browserIdle == <<core, state, running, defer, services, quarantined, failure, queue, report>>

WriteFrame(q) ==
    /\ attach[q].frame = "queued" /\ ~closed
    /\ attach' = [attach EXCEPT ![q].frame = "written"]
    /\ UNCHANGED <<browserIdle, remote, used, closed, detaching>>

BrowserAttaches(q) ==
    /\ attach[q].frame = "written" /\ ~closed
    /\ \/ \E s \in Session \ used :
             /\ \A later \in Session \ used : s <= later
             /\ attach' = [attach EXCEPT ![q].frame = "attached", ![q].session = s]
             /\ remote' = remote \cup {s}
             /\ used' = used \cup {s}
       \/ /\ attach' = [attach EXCEPT ![q].frame = "refused"]
          /\ UNCHANGED <<remote, used>>
    /\ UNCHANGED <<browserIdle, closed, detaching>>

(* A detach request of the owner is executed and answered.                    *)
BrowserDetaches(s) ==
    /\ s \in DOMAIN detaching /\ ~detaching[s] /\ ~closed
    /\ detaching' = [detaching EXCEPT ![s] = TRUE]
    /\ remote' = remote \ {s}
    /\ UNCHANGED <<browserIdle, attach, used, closed>>

(* The session ends by itself, or the Host detaches it.                       *)
SessionEnds(s) ==
    /\ s \in remote
    /\ remote' = remote \ {s}
    /\ UNCHANGED <<browserIdle, attach, used, closed, detaching>>

ConnectionCloses ==
    /\ ~closed
    /\ closed' = TRUE /\ remote' = {}
    /\ UNCHANGED <<browserIdle, attach, used, detaching>>

(* The Host worker hears of a session that ended.                             *)
ObserveDetached(s) ==
    /\ s \in used \ remote
    /\ core.raw_sessions[s] # None \/ core.retiring[s] # None
    /\ core' = RetireSessions(core, {s})
    /\ UNCHANGED <<attach, remote, used, closed, state, running, defer, services,
                   quarantined, failure, queue, detaching, report>>

-----------------------------------------------------------------------------
(* Ordinary requests.                                                         *)

idle == <<remote, used, closed, state, running, defer, services, quarantined, failure,
          queue, detaching, report>>

(* dispatch cdp.request; cleanup.request reaches the same code.               *)
Dispatch(q) ==
    /\ state = "active" \/ (state = "stopping" /\ running)
    /\ ~closed
    /\ attach[q].phase = "new" /\ \A earlier \in In("new") : q <= earlier
    /\ Cardinality(In("pending") \cup In("retiring")) < MAX_PENDING
    /\ AttachRoom(core)
    /\ core' = ReserveRawAttach(core)
    /\ attach' = [attach EXCEPT ![q].phase = "pending", ![q].frame = "queued"]
    /\ UNCHANGED idle

(* What would be wrong: a caller that stops waiting proves nothing.           *)
CancelledUnseen(q) == TRUE

(* cancel_attachment_before_write: true proves that no session can come.      *)
CancelledBeforeWrite(q) == attach[q].frame = "queued"

(* cancel_raw_request for every request of Q, and finish_raw_reply(false) for *)
(* those whose reply was not delivered.                                       *)
Cancelled(Q) ==
    [q \in Request |->
        IF q \notin Q THEN attach[q]
        ELSE CASE attach[q].phase = "pending" ->
                    IF CancelledBeforeWrite(q)
                    THEN [attach[q] EXCEPT !.phase = "done", !.frame = IF @ = "queued" THEN "none" ELSE @]
                    ELSE [attach[q] EXCEPT !.phase = "retiring"]
               [] attach[q].phase = "undelivered" -> Done
               [] OTHER -> attach[q]]

Undelivered(Q) == {attach[q].session : q \in Q \cap In("undelivered")}

CancelIn(c, Q) ==
    LET dropped == {q \in Q \cap In("pending") : CancelledBeforeWrite(q)}
        permits == [c EXCEPT !.reserved = @ - Cardinality(dropped)]
        late == {s \in Undelivered(Q) : Owns(c, This, s)}
    IN  IF late = {} THEN permits ELSE ScheduleCleanup(permits, This, late)

(* The caller cancels, its deadline passes, or its parent call ends.          *)
CancelRequest(q) ==
    /\ state \in {"active", "stopping"}
    /\ attach[q].phase \in {"pending", "undelivered"}
    /\ core' = CancelIn(core, {q})
    /\ attach' = Cancelled({q})
    /\ UNCHANGED idle

(* pump_raw_pending and finish_raw_metadata: the session is Core's before its *)
(* identity is anybody else's.                                                *)
RawAnswered(q) ==
    /\ state \in {"active", "stopping"}
    /\ attach[q].phase = "pending"
    /\ \/ /\ attach[q].frame = "attached" /\ TracksAttach(core, attach[q].session)
          /\ core' = TrackRawAttach(core, This, attach[q].session)
          /\ attach' = [attach EXCEPT ![q].phase = "undelivered"]
       \/ /\ attach[q].frame = "refused" \/ (closed /\ attach[q].frame # "attached")
          /\ core' = DropPermit(core)
          /\ attach' = [attach EXCEPT ![q] = Done]
    /\ UNCHANGED idle

(* flush_outbox: the reply is delivered; a failed delivery is CancelRequest.  *)
Deliver(q) ==
    /\ state \in {"active", "stopping"}
    /\ attach[q].phase = "undelivered"
    /\ attach' = [attach EXCEPT ![q] = Done]
    /\ UNCHANGED <<core, idle>>

-----------------------------------------------------------------------------
(* Retirement.                                                                *)

(* CoreServices::invalidate, from the thread that revokes authority.          *)
Invalidate ==
    /\ \E s \in Session : Owns(core, This, s)
    /\ core' = RetireHostScopes(RetirePlugin(core, This.id, This.generation), This)
    /\ UNCHANGED <<attach, idle>>

(* begin_retirement: scopes first, then every waiting caller; the Host gets a *)
(* cleanup phase if it can still run one.                                     *)
BeginRetirement ==
    /\ state = "active"
    /\ state' = "stopping"
    /\ defer' \in BOOLEAN /\ running' \in BOOLEAN
    /\ core' = CancelIn(IF services THEN RetireHostScopes(core, This) ELSE core, Request)
    /\ attach' = Cancelled(Request)
    /\ UNCHANGED <<remote, used, closed, services, quarantined, failure, queue,
                   detaching, report>>

(* The cleanup budget ends or deactivate answered (pump_cleanup).             *)
CleanupEnds ==
    /\ state = "stopping" /\ running
    /\ running' = FALSE
    /\ core' = CancelIn(core, Request)
    /\ attach' = Cancelled(Request)
    /\ UNCHANGED <<remote, used, closed, state, defer, services, quarantined, failure,
                   queue, detaching, report>>

RetireServices(c) == RetireHostScopes(c, This)

(* finish_retirement, once the process is gone: what the Host attached in its *)
(* cleanup phase is retired with the rest.                                    *)
FinishRetirement ==
    /\ state = "stopping"
    /\ state' = "exited" /\ running' = FALSE /\ services' = FALSE
    /\ core' = CancelIn(IF services THEN RetireServices(core) ELSE core, Request)
    /\ attach' = Cancelled(Request)
    /\ UNCHANGED <<remote, used, closed, defer, quarantined, failure, queue, detaching,
                   report>>

(* unconfirmed_attachment with close_unconfirmed_attachment.                  *)
Unconfirmed ==
    /\ quarantined' = TRUE /\ failure' = TRUE
    /\ closed' = TRUE /\ remote' = {}

(* pump_scope_cleanup: the sessions Core scheduled become this owner's work,  *)
(* unless the plugin is still in its own cleanup phase.                       *)
ScopeWork == state # "gone" /\ ~(defer /\ running)

TakeSessions ==
    /\ ScopeWork
    /\ core.cleanup[This] # {}
    /\ core' = TakeCleanupSessions(core, This)
    /\ \E order \in [1 .. Cardinality(core.cleanup[This]) -> core.cleanup[This]] :
          /\ \A i, j \in DOMAIN order : order[i] = order[j] => i = j
          /\ queue' = queue \o order
    /\ UNCHANGED <<attach, remote, used, closed, state, running, defer, services,
                   quarantined, failure, detaching, report>>

StartDetach ==
    /\ ScopeWork /\ queue # <<>> /\ ~closed
    /\ Cardinality(DOMAIN detaching) < MAX_PENDING
    /\ detaching' = [s \in DOMAIN detaching \cup {Head(queue)} |->
                        s \in DOMAIN detaching /\ detaching[s]]
    /\ queue' = Tail(queue)
    /\ UNCHANGED <<core, attach, remote, used, closed, state, running, defer, services,
                   quarantined, failure, report>>

(* The head of the queue is past its deadline, or the request cannot be sent: *)
(* the whole queue is given up with the connection.                           *)
GiveUpQueue ==
    /\ ScopeWork /\ queue # <<>>
    /\ Unconfirmed
    /\ core' = RetireSessions(core, {queue[i] : i \in DOMAIN queue})
    /\ queue' = <<>>
    /\ UNCHANGED <<attach, used, state, running, defer, services, detaching, report>>

Without(s) == [u \in DOMAIN detaching \ {s} |-> detaching[u]]

DetachAnswered(s) ==
    /\ ScopeWork /\ s \in DOMAIN detaching /\ detaching[s]
    /\ detaching' = Without(s)
    /\ core' = RetireSessions(core, {s})
    /\ UNCHANGED <<attach, remote, used, closed, state, running, defer, services,
                   quarantined, failure, queue, report>>

(* The detach timed out or its connection is gone.                            *)
DetachUnconfirmed(s) ==
    /\ ScopeWork /\ s \in DOMAIN detaching /\ ~detaching[s]
    /\ Unconfirmed
    /\ detaching' = Without(s)
    /\ core' = RetireSessions(core, {s})
    /\ UNCHANGED <<attach, used, state, running, defer, services, queue, report>>

(* pump_attachment_retirement: the late session is tracked only to be         *)
(* scheduled for its detach.                                                  *)
LateAnswer(q) ==
    /\ state # "gone" /\ attach[q].phase = "retiring"
    /\ \/ /\ attach[q].frame = "attached" /\ TracksAttach(core, attach[q].session)
          /\ core' = RetireLateAttachment(TrackRawAttach(core, This, attach[q].session),
                                          This, attach[q].session)
       \/ /\ attach[q].frame = "refused" \/ (closed /\ attach[q].frame # "attached")
          /\ core' = DropPermit(core)
    /\ attach' = [attach EXCEPT ![q] = Done]
    /\ UNCHANGED idle

(* fail: every waiting caller is cancelled and retirement begins.             *)
Fails(c, attaching) ==
    /\ attach' = attaching
    /\ failure' = FALSE
    /\ running' = FALSE
    /\ IF state = "active"
       THEN /\ state' = "stopping"
            /\ defer' \in BOOLEAN
            /\ core' = IF services THEN RetireHostScopes(c, This) ELSE c
       ELSE UNCHANGED <<state, defer>> /\ core' = c

(* What would be wrong: a late attach is given up as if it had failed.        *)
LateForgotten(q) ==
    /\ state # "gone" /\ attach[q].phase = "retiring"
    /\ attach[q].frame \in {"queued", "written"}
    /\ core' = DropPermit(core)
    /\ attach' = [attach EXCEPT ![q].phase = "done"]
    /\ UNCHANGED idle

(* The answer did not come within the retirement budget: the owner is         *)
(* quarantined, the connection is closed and the Host fails.                  *)
LateUnanswered(q) ==
    /\ state # "gone" /\ attach[q].phase = "retiring"
    /\ attach[q].frame \in {"queued", "written"}
    /\ quarantined' = TRUE
    /\ closed' = TRUE /\ remote' = {}
    /\ Fails(DropPermit(CancelIn(core, Request)), [Cancelled(Request) EXCEPT ![q] = Done])
    /\ UNCHANGED <<used, services, queue, detaching, report>>

(* attachment_failure left by pump_scope_cleanup fails the Host next.         *)
TakeFailure ==
    /\ state # "gone" /\ failure
    /\ Fails(CancelIn(core, Request), Cancelled(Request))
    /\ UNCHANGED <<remote, used, closed, services, quarantined, queue, detaching, report>>

(* What would be wrong: the answers still awaited are not asked for.          *)
RetiredIgnoringLate == state = "exited" /\ queue = <<>> /\ ~quarantined

(* retired                                                                    *)
RetiredOwner ==
    /\ state = "exited"
    /\ In("retiring") = {} /\ DOMAIN detaching = {} /\ queue = <<>>
    /\ ~quarantined
    /\ core.cleanup[This] = {}

(* finish_operations answers the stop operation.                              *)
AnswerStop ==
    /\ state \in {"stopping", "exited"} /\ report = "none"
    /\ report' = IF RetiredOwner THEN "stopped" ELSE "incomplete"
    /\ UNCHANGED <<core, attach, remote, used, closed, state, running, defer, services,
                   quarantined, failure, queue, detaching>>

(* The end of the worker: finish_attachment_shutdown, then stop.              *)
Shutdown ==
    LET left == \/ In("retiring") # {} \/ queue # <<>> \/ DOMAIN detaching # {}
                \/ core.cleanup[This] # {}
        cleared == In("retiring")
        ended == CancelIn([IF services THEN RetireServices(core) ELSE core EXCEPT
                              !.reserved = @ - Cardinality(cleared)], Request)
        last == [q \in Request |-> IF q \in cleared THEN Done ELSE Cancelled(Request)[q]]
        clean == /\ ~quarantined /\ ~left
                 /\ ended.cleanup[This] = {}
                 /\ \A q \in Request : last[q].phase # "retiring"
    IN  /\ state \in {"stopping", "exited"}
        /\ state' = "gone" /\ running' = FALSE /\ services' = FALSE
        /\ core' = ended
        /\ attach' = last
        /\ quarantined' = (quarantined \/ left)
        /\ closed' = (closed \/ left)
        /\ remote' = IF left THEN {} ELSE remote
        /\ report' = IF clean THEN "stopped" ELSE "incomplete"
        /\ UNCHANGED <<used, defer, failure, queue, detaching>>

-----------------------------------------------------------------------------
Browser ==
    \/ \E q \in Request : WriteFrame(q) \/ BrowserAttaches(q)
    \/ \E s \in Session : BrowserDetaches(s) \/ SessionEnds(s) \/ ObserveDetached(s)
    \/ ConnectionCloses

OwnerPump ==
    \/ TakeSessions \/ StartDetach \/ GiveUpQueue \/ TakeFailure
    \/ \E s \in Session : DetachAnswered(s) \/ DetachUnconfirmed(s)
    \/ \E q \in Request : LateAnswer(q) \/ LateUnanswered(q)

RawNext ==
    \/ Browser
    \/ \E q \in Request : Dispatch(q) \/ CancelRequest(q) \/ RawAnswered(q) \/ Deliver(q)
    \/ Invalidate
    \/ BeginRetirement \/ CleanupEnds \/ FinishRetirement
    \/ OwnerPump
    \/ AnswerStop \/ Shutdown

(* The worker pumps every owner each turn and its deadlines pass; the browser *)
(* and the process promise nothing.                                           *)
RawSpec == RawInit /\ [][RawNext]_xvars
                   /\ WF_xvars(TakeSessions) /\ WF_xvars(GiveUpQueue) /\ WF_xvars(TakeFailure)
                   /\ \A s \in Session : /\ WF_xvars(DetachAnswered(s))
                                         /\ WF_xvars(DetachUnconfirmed(s))
                   /\ \A q \in Request : /\ WF_xvars(LateAnswer(q))
                                         /\ WF_xvars(LateUnanswered(q))
                   /\ WF_xvars(AnswerStop)

-----------------------------------------------------------------------------
(* The types of the tables, the worker, the browser and the connection.       *)
RawTypeOK ==
    /\ core \in State
    /\ attach \in [Request -> Attach]
    /\ remote \subseteq used /\ used \subseteq Session
    /\ {closed, running, defer, services, quarantined, failure} \subseteq BOOLEAN
    /\ state \in {"active", "stopping", "exited", "gone"}
    /\ queue \in Seq(Session)
    /\ detaching \in UNION {[D -> BOOLEAN] : D \in SUBSET Session}
    /\ report \in {"none", "stopped", "incomplete"}

(* A session the browser holds for this Host is never forgotten: it is        *)
(* tracked, or being retired, or its answer is still awaited                  *)
(* (cancel_raw_request, pump_attachment_retirement).                          *)
NoneForgotten ==
    \A s \in remote :
        \/ core.raw_sessions[s] = This \/ core.retiring[s] = This
        \/ \E q \in Request : attach[q].session = s /\ attach[q].phase \in {"pending", "retiring"}

(* A generation reported as stopped has left nothing: neither a session, nor  *)
(* an attach that may still create one (retired, finish_operations, stop).    *)
StoppedIsClean ==
    report = "stopped" =>
        /\ remote = {}
        /\ \A q \in Request : ~closed => attach[q].frame # "written"

(* The reservation counter is exactly the attach permits that exist: none     *)
(* leaks, none is returned twice, and the three tables keep their bound.      *)
PermitsExact ==
    /\ core.reserved = Cardinality(In("pending") \cup In("retiring"))
    /\ Cardinality({s \in Session : core.raw_sessions[s] # None})
         + Cardinality({s \in Session : core.retiring[s] # None})
         + core.reserved <= MAX_RAW_SESSIONS

(* The work a retiring session waits for is somebody's: scheduled, queued or  *)
(* in flight, exactly once.                                                   *)
RetiringOwned ==
    \A s \in Session : core.retiring[s] = This =>
        /\ s \in core.cleanup[This] \/ s \in DOMAIN detaching
             \/ \E i \in DOMAIN queue : queue[i] = s
        /\ Cardinality({i \in DOMAIN queue : queue[i] = s}) <= 1

(* Permits and retiring sessions are accounted for, whichever thread moved    *)
(* them last (reserve_raw_attach, retire_raw_session, pump_scope_cleanup).    *)
RawConsistent == RawTypeOK /\ PermitsExact /\ RetiringOwned

(* When the process is gone, retirement ends: every session the browser holds *)
(* or is about to create for it is ended for good, by its detach or with the  *)
(* connection, and the stop operation is answered (pump_scope_cleanup,        *)
(* pump_attachment_retirement, finish_operations).                            *)
RetirementEnds == (state = "exited") ~> [](remote = {} /\ report # "none")

(* Whatever is cancelled, late or unanswered: permits are exact, no session   *)
(* of the browser is forgotten, and a stop that was reported left nothing.    *)
RawSound == RawConsistent /\ NoneForgotten /\ StoppedIsClean
=============================================================================
