----------------------------- MODULE CdpTargets -----------------------------
(* Targets, sessions and execution contexts over one CDP connection            *)
(* (src/cdp/target.rs, the event half of client.rs, client/contexts.rs): the   *)
(* reader thread routes the browser's messages in order, the controller thread *)
(* follows the targets and attaches to the main renderers.                     *)
EXTENDS Integers, Sequences, FiniteSets, SequencesExt

CONSTANTS
    Pages,          \* target ids of the browser
    MaxSess,        \* bound: session ids the browser gives out
    MaxWebMoves,    \* bound: things the browser does by itself
    EventCapacity   \* events a bounded subscription holds (4, or 128)

ASSUME TargetConstants == MaxSess \in Nat /\ MaxWebMoves \in Nat /\ EventCapacity \in Nat \ {0}

VARIABLES
    web,    \* external: the browser's targets, documents and sessions
    pipe,   \* what it has written and the reader has not read
    targetHub,    \* the client's State: sessions, default contexts, event sinks, one reply
    ctl     \* TargetController and the attachment it is in

tgtVars == <<web, pipe, targetHub, ctl>>

SessId == 1..MaxSess
Doc == 0..(MaxWebMoves + 1)     \* 0 is no document, or no context

\* A message: an event or the answer to the controller's one open request.
Msg == [m : {"created", "changed", "destroyed", "detached", "context", "cleared",
             "targets", "attached", "enabled", "refused"},
        t : Pages \cup {"none"}, s : 0..MaxSess, main : BOOLEAN, doc : Doc, list : SUBSET Pages]

TargetEvent(m, t, s, main, d) == [m |-> m, t |-> t, s |-> s, main |-> main, doc |-> d, list |-> {}]
TargetReply(m, s, l) == [m |-> m, t |-> "none", s |-> s, main |-> FALSE, doc |-> 0, list |-> l]
IsReply(x) == x.m \in {"targets", "attached", "enabled", "refused"}
NoReply == TargetReply("refused", 0, Pages)

CtlPc == {"start", "poll", "listing", "attach", "asked", "scan", "enable", "enabling",
          "page", "paging", "ready", "failed"}

TargetTypeOK ==
    /\ web \in [page : [Pages -> {"absent", "main", "other", "gone"}], doc : [Pages -> Doc],
                owner : [SessId -> Pages \cup {"none"}], ended : SUBSET SessId,
                enabled : SUBSET SessId, discover : BOOLEAN, moves : 0..MaxWebMoves]
    /\ pipe \in Seq(Msg)
    /\ targetHub \in [root : Seq(Msg), extra : Seq(Msg), extraOn : BOOLEAN, reply : Msg, closed : BOOLEAN,
                session : [SessId -> {"none", "live", "ended"}], ctx : [SessId -> Doc],
                routed : SUBSET SessId,
                bounded : [on : BOOLEAN, held : 0..EventCapacity, overflowed : BOOLEAN, missed : BOOLEAN]]
    /\ ctl \in [pc : CtlPc, found : BOOLEAN, todo : SUBSET Pages, at : Pages \cup {"none"}, s : 0..MaxSess,
                sessions : [Pages -> 0..MaxSess]]

TgtInit ==
    /\ \E p \in [Pages -> {"absent", "main", "other"}] :
          web = [page |-> p, doc |-> [t \in Pages |-> IF p[t] = "absent" THEN 0 ELSE 1],
                 owner |-> [s \in SessId |-> "none"], ended |-> {}, enabled |-> {},
                 discover |-> FALSE, moves |-> 0]
    /\ pipe = <<>>
    /\ targetHub = [root |-> <<>>, extra |-> <<>>, extraOn |-> FALSE, reply |-> NoReply, closed |-> FALSE,
              session |-> [s \in SessId |-> "none"], ctx |-> [s \in SessId |-> 0], routed |-> {},
              bounded |-> [on |-> TRUE, held |-> 0, overflowed |-> FALSE, missed |-> FALSE]]
    /\ ctl = [pc |-> "start", found |-> FALSE, todo |-> {}, at |-> "none", s |-> 0,
              sessions |-> [t \in Pages |-> 0]]

-----------------------------------------------------------------------------
(* The browser.                                                                *)

PageAlive(s) == web.owner[s] # "none" /\ s \notin web.ended
SessionsOf(t) == {s \in SessId : web.owner[s] = t /\ s \notin web.ended}
Moves == web.moves < MaxWebMoves /\ ~targetHub.closed

\* One event per member of a set of sessions.
Each(m, t, ss) == [n \in 1..Cardinality(ss) |-> TargetEvent(m, t, SetToSeq(ss)[n], FALSE, 0)]
Root(t, m, main) == IF web.discover THEN <<TargetEvent(m, t, 0, main, 0)>> ELSE <<>>

TargetAppears(t) ==
    /\ Moves /\ web.page[t] = "absent"
    /\ \E main \in BOOLEAN :
          /\ web' = [web EXCEPT !.page[t] = IF main THEN "main" ELSE "other", !.doc[t] = 1, !.moves = @ + 1]
          /\ pipe' = pipe \o Root(t, "created", main)
    /\ UNCHANGED <<targetHub, ctl>>

TargetNavigates(t) ==
    /\ Moves /\ web.page[t] \in {"main", "other"}
    /\ \E main \in BOOLEAN :
          LET d == web.doc[t] + 1
              on == SessionsOf(t) \cap web.enabled
              fresh == [n \in 1..Cardinality(on) |-> TargetEvent("context", t, SetToSeq(on)[n], FALSE, d)]
          IN /\ web' = [web EXCEPT !.page[t] = IF main THEN "main" ELSE "other", !.doc[t] = d, !.moves = @ + 1]
             /\ pipe' = pipe \o Each("cleared", t, on) \o fresh \o Root(t, "changed", main)
    /\ UNCHANGED <<targetHub, ctl>>

TargetCloses(t) ==
    /\ Moves /\ web.page[t] \in {"main", "other"}
    /\ web' = [web EXCEPT !.page[t] = "gone", !.ended = @ \cup SessionsOf(t), !.moves = @ + 1]
    /\ pipe' = pipe \o Each("detached", t, SessionsOf(t)) \o Root(t, "destroyed", FALSE)
    /\ UNCHANGED <<targetHub, ctl>>

SessionDetaches(s) ==
    /\ Moves /\ PageAlive(s)
    /\ web' = [web EXCEPT !.ended = @ \cup {s}, !.moves = @ + 1]
    /\ pipe' = Append(pipe, TargetEvent("detached", web.owner[s], s, FALSE, 0))
    /\ UNCHANGED <<targetHub, ctl>>

-----------------------------------------------------------------------------
(* The reader.                                                                 *)

(* Which tracked sessions an event ends.                                       *)
EndedBy(e) ==
    {s \in SessId : /\ targetHub.session[s] # "none"
                    /\ \/ e.m = "destroyed" /\ web.owner[s] = e.t
                       \/ e.m = "detached" /\ e.s = s}

\* History: what the event ends in the browser, tracked or not.
Announces(e) == {s \in SessId : (e.m = "destroyed" /\ web.owner[s] = e.t) \/ (e.m = "detached" /\ e.s = s)}

(* DefaultContexts::observe, for a live session only; forget for an ended one. *)
observe_target(e, ended) ==
    [s \in SessId |->
        IF s \in ended THEN 0
        ELSE IF e.s # s \/ targetHub.session[s] # "live" THEN targetHub.ctx[s]
        ELSE IF e.m = "context" THEN e.doc
        ELSE IF e.m = "cleared" THEN 0
        ELSE targetHub.ctx[s]]

(* publish: an overflow retires the subscription and is remembered.            *)
publish_targets(b) ==
    IF ~b.on THEN b
    ELSE IF b.held = EventCapacity THEN [b EXCEPT !.on = FALSE, !.overflowed = TRUE, !.missed = TRUE]
    ELSE [b EXCEPT !.held = @ + 1]

\* A root event carries no session id of its own.
IsRoot(e) == e.m \in {"created", "changed", "destroyed", "detached"}

route_event(e) ==
    LET ended == EndedBy(e) IN
    targetHub' = [targetHub EXCEPT !.session = [s \in SessId |-> IF s \in ended THEN "ended" ELSE @[s]],
                       !.ctx = observe_target(e, ended),
                       !.routed = @ \cup Announces(e),
                       !.root = IF IsRoot(e) THEN Append(@, e) ELSE @,
                       !.extra = IF IsRoot(e) /\ targetHub.extraOn THEN Append(@, e) ELSE @,
                       !.bounded = IF e.m \in {"destroyed", "detached"} THEN publish_targets(@) ELSE @]

RouteMessage ==
    /\ pipe # <<>> /\ ~targetHub.closed
    /\ pipe' = Tail(pipe)
    /\ IF IsReply(Head(pipe)) THEN targetHub' = [targetHub EXCEPT !.reply = Head(pipe)] ELSE route_event(Head(pipe))
    /\ UNCHANGED <<web, ctl>>

(* The connection ends: terminate closes every sink, and whoever waits fails.  *)
ConnectionEnds ==
    /\ ~targetHub.closed
    /\ targetHub' = [targetHub EXCEPT !.closed = TRUE, !.extraOn = FALSE, !.bounded.on = FALSE,
                          !.bounded.overflowed = @ \/ (targetHub.bounded.on /\ targetHub.bounded.held = EventCapacity)]
    /\ UNCHANGED <<web, pipe, ctl>>

(* The scope observer subscribes again after an overflow.                      *)
subscribe_scope_lifecycle ==
    /\ ~targetHub.closed /\ targetHub.bounded.overflowed
    /\ targetHub' = [targetHub EXCEPT !.bounded = [on |-> TRUE, held |-> 0, overflowed |-> FALSE, missed |-> FALSE]]
    /\ UNCHANGED <<web, pipe, ctl>>

BoundedEvent ==
    /\ ~targetHub.bounded.overflowed /\ targetHub.bounded.held > 0
    /\ targetHub' = [targetHub EXCEPT !.bounded.held = @ - 1]
    /\ UNCHANGED <<web, pipe, ctl>>

-----------------------------------------------------------------------------
(* The controller.                                                             *)

GivesUp == ctl' = [ctl EXCEPT !.pc = "failed"]
AnsweredBy == targetHub.reply # NoReply
TakesReply == [targetHub EXCEPT !.reply = NoReply]
AsksFor(answer) == pipe' = pipe \o answer

(* discover: Target.setDiscoverTargets announces the targets there are.        *)
discover ==
    /\ ctl.pc = "start" /\ ~targetHub.closed
    /\ LET there == {t \in Pages : web.page[t] \in {"main", "other"}} IN
       AsksFor([n \in 1..Cardinality(there) |->
               LET t == SetToSeq(there)[n] IN TargetEvent("created", t, 0, web.page[t] = "main", 0)])
    /\ web' = [web EXCEPT !.discover = TRUE]
    /\ ctl' = [ctl EXCEPT !.pc = "poll"]
    /\ UNCHANGED targetHub

(* Target.getTargets, asked again until a main renderer was attached.          *)
GetTargets ==
    /\ ctl.pc = "poll" /\ ~targetHub.closed
    /\ AsksFor(<<TargetReply("targets", 0, {t \in Pages : web.page[t] = "main"})>>)
    /\ ctl' = [ctl EXCEPT !.pc = "listing"]
    /\ UNCHANGED <<web, targetHub>>

Listed ==
    /\ ctl.pc = "listing" /\ AnsweredBy
    /\ ctl' = [ctl EXCEPT !.pc = IF targetHub.reply.list = {} THEN "poll" ELSE "attach", !.todo = targetHub.reply.list]
    /\ targetHub' = TakesReply
    /\ UNCHANGED <<web, pipe>>

(* TargetSession::attach, first half: subscribe before asking.                 *)
AskAttach(t) ==
    /\ ctl.pc = "attach" /\ t \in ctl.todo /\ ctl.sessions[t] = 0 /\ ~targetHub.closed
    /\ targetHub' = [targetHub EXCEPT !.extraOn = TRUE, !.extra = <<>>]
    /\ LET free == {s \in SessId : web.owner[s] = "none"}
           s == CHOOSE x \in free : \A y \in free : x <= y
       IN \/ /\ web.page[t] \in {"main", "other"} /\ free # {}
             /\ web' = [web EXCEPT !.owner[s] = t]
             /\ AsksFor(<<TargetReply("attached", s, {})>>)
          \/ /\ web.page[t] = "gone"
             /\ AsksFor(<<TargetReply("refused", 0, {})>>) /\ UNCHANGED web
    /\ ctl' = [ctl EXCEPT !.pc = "asked", !.at = t]

(* attach_matching skips a target it holds, and ends when none is left.        *)
attach_matching ==
    /\ ctl.pc = "attach"
    /\ \E t \in ctl.todo : ctl.sessions[t] # 0 /\ ctl' = [ctl EXCEPT !.todo = @ \ {t}]
    /\ UNCHANGED <<web, pipe, targetHub>>

AllAttached ==
    /\ ctl.pc = "attach" /\ ctl.todo = {}
    /\ ctl' = [ctl EXCEPT !.pc = IF ctl.found THEN "ready" ELSE "poll"]
    /\ UNCHANGED <<web, pipe, targetHub>>

(* The answer: track_session, or the error that ends the controller.           *)
track_session ==
    /\ ctl.pc = "asked" /\ AnsweredBy
    /\ \/ /\ targetHub.reply.m = "attached"
          /\ targetHub' = [TakesReply EXCEPT !.session[targetHub.reply.s] = "live", !.ctx[targetHub.reply.s] = 0]
          /\ ctl' = [ctl EXCEPT !.pc = "scan", !.s = targetHub.reply.s]
       \/ /\ targetHub.reply.m = "refused"
          /\ targetHub' = [TakesReply EXCEPT !.extraOn = FALSE, !.extra = <<>>] /\ GivesUp
    /\ UNCHANGED <<web, pipe>>

(* Mutant of ScanEvent: only the reader marks a session as ended.              *)
ScanIgnores ==
    /\ ctl.pc = "scan" /\ targetHub.extra # <<>>
    /\ targetHub' = [targetHub EXCEPT !.extra = Tail(@)]
    /\ UNCHANGED <<web, pipe, ctl>>

(* Then what reached the extra stream before the session was tracked.          *)
ScanEvent ==
    /\ ctl.pc = "scan" /\ targetHub.extra # <<>>
    /\ LET e == Head(targetHub.extra)
           mine == (e.m = "destroyed" /\ e.t = ctl.at) \/ (e.m = "detached" /\ e.s = ctl.s)
       IN targetHub' = [targetHub EXCEPT !.extra = Tail(@), !.session[ctl.s] = IF mine THEN "ended" ELSE @]
    /\ UNCHANGED <<web, pipe, ctl>>

TargetScanEnds ==
    /\ ctl.pc = "scan" /\ targetHub.extra = <<>>
    /\ targetHub' = [targetHub EXCEPT !.extraOn = FALSE]
    /\ ctl' = [ctl EXCEPT !.pc = "enable"]
    /\ UNCHANGED <<web, pipe>>

(* A request on a session that is known to have ended is refused at once, one  *)
(* on a session the browser has ended is refused by the browser.               *)
Enable(from, to) ==
    /\ ctl.pc = from /\ ~targetHub.closed
    /\ \/ /\ targetHub.session[ctl.s] = "ended" /\ GivesUp /\ UNCHANGED <<web, pipe>>
       \/ /\ targetHub.session[ctl.s] = "live"
          /\ IF PageAlive(ctl.s)
               THEN /\ web' = [web EXCEPT !.enabled = @ \cup {ctl.s}]
                    /\ AsksFor(IF ctl.s \in web.enabled THEN <<TargetReply("enabled", ctl.s, {})>>
                            ELSE <<TargetEvent("context", ctl.at, ctl.s, FALSE, web.doc[ctl.at]),
                                   TargetReply("enabled", ctl.s, {})>>)
               ELSE AsksFor(<<TargetReply("refused", 0, {})>>) /\ UNCHANGED web
          /\ ctl' = [ctl EXCEPT !.pc = to]
    /\ UNCHANGED targetHub

Enabled ==
    /\ ctl.pc \in {"enabling", "paging"} /\ AnsweredBy
    /\ \/ targetHub.reply.m = "refused" /\ GivesUp
       \/ /\ targetHub.reply.m = "enabled" /\ ctl.pc = "enabling" /\ ctl' = [ctl EXCEPT !.pc = "page"]
       \/ /\ targetHub.reply.m = "enabled" /\ ctl.pc = "paging"
          /\ ctl' = [ctl EXCEPT !.pc = "attach", !.sessions[ctl.at] = ctl.s, !.found = TRUE,
                                !.todo = @ \ {ctl.at}, !.at = "none", !.s = 0]
    /\ targetHub' = TakesReply
    /\ UNCHANGED <<web, pipe>>

(* A deadline, or the end of the connection, ends the controller.              *)
RequestFails ==
    /\ ctl.pc \notin {"ready", "failed", "attach", "scan"} \/ (ctl.pc \in {"attach", "ready"} /\ targetHub.closed)
    /\ GivesUp
    /\ targetHub' = [targetHub EXCEPT !.extraOn = FALSE, !.extra = <<>>]
    /\ UNCHANGED <<web, pipe>>

end_target_session(t) == [ctl EXCEPT !.sessions[t] = 0]

end_exact_session(s) ==
    [ctl EXCEPT !.sessions = [t \in Pages |-> IF s # 0 /\ @[t] = s THEN 0 ELSE @[t]]]

(* handle_event: one event of the root stream.                                 *)
handle_event ==
    /\ ctl.pc = "ready" /\ targetHub.root # <<>> /\ ~targetHub.closed
    /\ LET e == Head(targetHub.root) IN
       ctl' = CASE e.m \in {"created", "changed"} /\ e.main -> [ctl EXCEPT !.pc = "attach", !.todo = {e.t}]
                [] e.m = "changed" /\ ~e.main -> [ctl EXCEPT !.sessions[e.t] = 0]
                [] e.m = "created" /\ ~e.main -> ctl
                [] e.m = "destroyed" -> end_target_session(e.t)
                [] e.m = "detached" -> end_exact_session(e.s)
    /\ targetHub' = [targetHub EXCEPT !.root = Tail(@)]
    /\ UNCHANGED <<web, pipe>>

TgtNext ==
    \/ \E t \in Pages : TargetAppears(t) \/ TargetNavigates(t) \/ TargetCloses(t) \/ AskAttach(t)
    \/ \E s \in SessId : SessionDetaches(s)
    \/ RouteMessage \/ ConnectionEnds \/ subscribe_scope_lifecycle \/ BoundedEvent
    \/ discover \/ GetTargets \/ Listed \/ attach_matching \/ AllAttached \/ track_session
    \/ ScanEvent \/ TargetScanEnds \/ Enable("enable", "enabling") \/ Enable("page", "paging") \/ Enabled
    \/ RequestFails \/ handle_event

TgtSpec == TgtInit /\ [][TgtNext]_tgtVars

-----------------------------------------------------------------------------
(* What has to hold.                                                           *)

CtlRunning == ~targetHub.closed /\ ctl.pc # "failed"
PendingTargets(q, s) == \E n \in 1..Len(q) : s \in Announces(q[n])

(* A session whose end the reader has routed is not live, however the end and  *)
(* the attach response overlapped; while attach still scans, the end is among  *)
(* the events it will read.                                                    *)
EndedIsNotLive ==
    \A s \in targetHub.routed : targetHub.session[s] = "live" =>
        \/ ctl.pc = "scan" /\ ctl.s = s /\ PendingTargets(targetHub.extra, s)
        \/ ~CtlRunning

(* The controller holds a session that has ended only while the end is in its  *)
(* stream, and a session it holds is tracked for the target it is under.       *)
MapFollowsEvents ==
    \A t \in Pages : ctl.sessions[t] # 0 =>
        LET s == ctl.sessions[t] IN
        /\ web.owner[s] = t /\ targetHub.session[s] # "none"
        /\ (s \in targetHub.routed /\ CtlRunning) => PendingTargets(targetHub.root, s)

(* Once everything is read the controller and the browser agree: it holds      *)
(* main renderers only, each by a session that is alive and enabled, and every *)
(* main renderer whose sessions were not taken away.                           *)
SettlesTarget ==
    (CtlRunning /\ ctl.pc = "ready" /\ pipe = <<>> /\ targetHub.root = <<>>) =>
        \A t \in Pages :
            /\ ctl.sessions[t] # 0 => web.page[t] = "main" /\ PageAlive(ctl.sessions[t]) /\ ctl.sessions[t] \in web.enabled
            /\ web.page[t] = "main" /\ ctl.sessions[t] = 0 => \E s \in web.ended : web.owner[s] = t

(* The default context of a live session is the document's, or the message     *)
(* that corrects it has not been read yet.                                     *)
ContextIsCurrent ==
    \A s \in SessId : (targetHub.session[s] = "live" /\ targetHub.ctx[s] # 0 /\ ~targetHub.closed) =>
        \/ targetHub.ctx[s] = web.doc[web.owner[s]] /\ PageAlive(s)
        \/ \E n \in 1..Len(pipe) : pipe[n].s = s \/ s \in Announces(pipe[n])
        \/ s \in targetHub.routed

(* A bounded subscription that lost an event says so first.                    *)
LossIsTold == targetHub.bounded.missed => targetHub.bounded.overflowed /\ ~targetHub.bounded.on

TargetsSound ==
    /\ TargetTypeOK /\ EndedIsNotLive /\ MapFollowsEvents /\ SettlesTarget /\ ContextIsCurrent /\ LossIsTold
=============================================================================
