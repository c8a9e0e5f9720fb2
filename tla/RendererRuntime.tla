--------------------------- MODULE RendererRuntime ---------------------------
(***************************************************************************)
(* The foreground owner of all renderer realms (src/src/renderer.rs and    *)
(* src/src/renderer/): attaching a target, installing the plugins of a     *)
(* document in activation order, the events of the page that arrive while  *)
(* an evaluation is being waited for, retiring and replacing plugins on    *)
(* every target with a rollback, and the budget of isolated worlds.        *)
(*                                                                         *)
(* One thread runs all of it.  `work' is its call stack: the head is the   *)
(* step being executed, an evaluation waits at the head while events of    *)
(* its target are handled (drive_evaluation), and between two turns of the *)
(* foreground loop it is empty.  `page' is the browser.                    *)
(***************************************************************************)
EXTENDS Naturals, Sequences, FiniteSets, SequencesExt, FiniteSetsExt, Functions

CONSTANTS
    Targets,        \* the pages, as a sequence in the order of their ids
    Order,          \* the plugins in activation order
    Requires,       \* [plugin -> the plugins whose capabilities it requires]
    WorldLimit,     \* WORLD_LIMIT: isolated worlds of one Core lifetime
    MaxDoc,         \* bound: documents of one page
    MaxSessions,    \* bound: sessions of one page
    MaxOps,         \* bound: management operations
    MaxFaults,      \* bound: refused requests, rejected activations, deadlines
    MaxMoves        \* bound: navigations, ended sessions, calls, edits by others

PageId == Range(Targets)
Plugin == Range(Order)

ASSUME RendererAssumption ==
    /\ Targets \in Seq(PageId) /\ Order \in Seq(Plugin)
    /\ Requires \in [Plugin -> SUBSET Plugin]
    /\ {WorldLimit, MaxDoc, MaxSessions, MaxOps, MaxFaults, MaxMoves} \subseteq Nat

VARIABLES
    page,       \* [Target -> the browser's side: session, document, scripts, events]
    session,    \* [Target -> NoSession or the RendererSession]
    rend,       \* the rest of RendererRuntime
    work,       \* the steps the owner has yet to run, the current one first
    reg,        \* the registry file: [enabled, trust]
    moves       \* the bounds used up: [ops, faults, moves]

rendVars == <<page, session, rend, work, reg, moves>>

NoSession == [sid |-> 0]

\* A registration as the running snapshot sees it: as it was loaded, edited but
\* still granting what the snapshot needs, or no longer trusting it.
Trust == {"loaded", "edited", "denied"}

NoOp == [kind |-> "none"]

RendInit ==
    /\ page = [t \in PageId |-> [sid |-> 0, live |-> FALSE, doc |-> 0, scripts |-> {}, events |-> <<>>, notices |-> <<>>]]
    /\ session = [t \in PageId |-> NoSession]
    /\ rend = [plugins |-> [i \in DOMAIN Order |-> [p |-> Order[i], gen |-> 1]],
               gens |-> [p \in Plugin |-> 1], attempts |-> 0, reserve |-> [t \in PageId |-> 0],
               managing |-> FALSE, pending |-> {}, op |-> NoOp, report |-> "none", leaked |-> {}]
    /\ work = <<>>
    /\ reg = [enabled |-> Plugin, trust |-> [p \in Plugin |-> "loaded"]]
    /\ moves = [ops |-> 0, faults |-> 0, moves |-> 0]

-----------------------------------------------------------------------------
(* Reading the owner's records.                                            *)

AttachedTo(t) == session[t] # NoSession /\ page[t].live /\ page[t].sid = session[t].sid
Recovering(t) == session[t] # NoSession /\ session[t].recovery
Records(t) == IF session[t] = NoSession THEN <<>> ELSE session[t].plugins
Record(t, p) == SelectSeq(Records(t), LAMBDA r : r.p = p)[1]
Holds(t, p) == \E i \in DOMAIN Records(t) : Records(t)[i].p = p
KeyOfRecord(t, r) == [p |-> r.p, gen |-> r.gen, epoch |-> session[t].epoch]
Loaded == ToSet(rend.plugins)
Runs(p) == \E r \in Loaded : r.p = p
GenOf(p) == (CHOOSE r \in Loaded : r.p = p).gen
Idle == work = <<>>
Head1 == work[1]
Waiting == ~Idle /\ Head1.op \in {"activating", "deactivating", "invoking"}
Mishap == moves.faults < MaxFaults
Faulty == moves' = [moves EXCEPT !.faults = @ + 1]
Moved == /\ moves.moves < MaxMoves
         /\ moves' = [moves EXCEPT !.moves = @ + 1]

\* The plugins that depend on p among those of S, p included
\* (plugin_lifecycle::dependent_closure).
dependent_closure(S, p) ==
    LET grow[n \in Nat] == IF n = 0 THEN {p}
                           ELSE grow[n - 1] \cup {q \in S : Requires[q] \cap grow[n - 1] # {}}
    IN  grow[Cardinality(Plugin)]

\* The plugins that would have to be disabled with p: the running ones and the
\* enabled ones that depend on it (disable_closure).
disable_closure(p) == dependent_closure({r.p : r \in Loaded} \cup reg.enabled, p)

Step(op, t, p, managed) == [op |-> op, t |-> t, p |-> p, managed |-> managed, ctx |-> 0]

\* One step for every pair, the plugins in the outer loop.
Across(op, plugins, targets, managed) ==
    FlattenSeq([i \in DOMAIN plugins |->
        [j \in DOMAIN targets |-> Step(op, targets[j], plugins[i], managed)]])

\* retire_managed_plugins: target by target, the last installed plugin first.
retire_managed_plugins(affected) ==
    FlattenSeq([j \in DOMAIN Targets |->
        LET held == SelectSeq(Reverse(Records(Targets[j])), LAMBDA r : r.p \in affected)
        IN  [i \in DOMAIN held |-> Step("retire", Targets[j], held[i].p, TRUE)]])

Ordered(S) == SelectSeq(Order, LAMBDA p : p \in S)

-----------------------------------------------------------------------------
(* The world budget.                                                       *)

Reserved(res) == SumFunction(res)

NeedsNoRollback(affected) == Cardinality(affected)

\* reserve_world_capacity: a world for every candidate and one for every
\* plugin a rollback would have to bring back, on every live target.
Needs(affected) == Cardinality(affected) + Cardinality({r \in Loaded : r.p \in affected})

Reservation(affected) == [t \in PageId |-> IF AttachedTo(t) THEN Needs(affected) ELSE 0]
reserve_world_capacity(affected) ==
    Reserved(Reservation(affected)) <= WorldLimit - rend.attempts

\* charge_world: a managed installation uses its own reservation, any other one
\* may only use what nobody reserved.
OwnReservation(s) == s.managed /\ rend.reserve[s.t] > 0
Chargeable(s) == OwnReservation(s) \/ rend.attempts + Reserved(rend.reserve) < WorldLimit
charge_world(s, rd) ==
    [rd EXCEPT !.attempts = @ + 1, !.reserve[s.t] = IF OwnReservation(s) THEN @ - 1 ELSE @]

-----------------------------------------------------------------------------
(* What a failed or finished step means for the operation around it.       *)

\* The failures of a managed operation are collected, by the stage they belong
\* to; those of a startup installation concern the target alone.
Collects(rd, stage) == IF rd.op = NoOp THEN rd ELSE [rd EXCEPT !.op.failures = @ \cup {stage}]

\* The target is gone from the owner's records.
Dropped(t) == [session EXCEPT ![t] = NoSession]

\* Wherever the owner looks at a target, a session that ended is dropped.
ensure_live_target(t) == IF AttachedTo(t) THEN session ELSE Dropped(t)

\* An installation failed.  A managed one is a failure of the operation, and
\* the loop stops before the next plugin; at startup it ends the attachment
\* when the session or the document is lost, and otherwise only retires this
\* plugin (install_startup_plugin).
StartupFails(s, sess, rd) ==
    LET rest == Tail(work)
        lost == sess[s.t] = NoSession \/ ~page[s.t].live \/ Recovering(s.t)
    IN  IF s.managed
        THEN /\ rend' = Collects(rd, "activate")
             /\ work' = SelectSeq(rest, LAMBDA x : x.op # "install" \/ x.p = s.p)
        ELSE /\ rend' = rd
             /\ work' = IF lost
                        THEN LET keep == SelectSeq(rest, LAMBDA x : ~(x.op \in {"install", "attached"} /\ x.t = s.t))
                             IN  <<Step("detach", s.t, s.p, FALSE)>> \o keep
                        ELSE <<Step("retire", s.t, s.p, FALSE)>> \o rest

\* The steps of deactivate_target: every plugin, the last one first, then the
\* session itself.
deactivate_target(t) ==
    LET held == Reverse(Records(t))
    IN  [i \in DOMAIN held |-> Step("retire", t, held[i].p, FALSE)] \o <<Step("forget", t, "", FALSE)>>

-----------------------------------------------------------------------------
(* Installing and retiring one plugin in one document.                     *)

\* The context of the plugin's world in the document that is loaded now.
current_renderer_context(t) == page[t].doc

\* The record of a plugin whose activation is about to be evaluated.
ActivePlugin(t, p) ==
    [p |-> p, gen |-> GenOf(p), ctx |-> current_renderer_context(t), confirmed |-> FALSE, state |-> "activating"]

\* Its binding and its scripts for new documents, registered with and removed
\* from the session of the page.
add_renderer_binding(t, k) == [page EXCEPT ![t].scripts = @ \cup {k}]
remove_bootstrap_scripts(t, k) == [page EXCEPT ![t].scripts = @ \ {k}]

\* At startup every provider of a plugin must be active in the same document.
ProvidersActive(t, p) ==
    \A q \in Requires[p] : Runs(q) => Holds(t, q) /\ Record(t, q).state = "active"

\* install_plugins up to the evaluation: the world is charged, the binding and
\* the scripts for new documents are registered and the plugin is recorded as
\* activating in the context of the current document.
BeginInstall ==
    LET s == Head1
        r == ActivePlugin(s.t, s.p)
    IN  /\ ~Idle /\ s.op = "install"
        /\ AttachedTo(s.t) /\ ~Recovering(s.t)
        /\ s.managed \/ ProvidersActive(s.t, s.p)
        /\ Chargeable(s)
        /\ rend' = charge_world(s, rend)
        /\ session' = [session EXCEPT ![s.t].plugins = Append(@, r)]
        /\ page' = add_renderer_binding(s.t, KeyOfRecord(s.t, r))
        /\ work' = <<[s EXCEPT !.op = "activating", !.ctx = r.ctx]>> \o Tail(work)
        /\ UNCHANGED <<reg, moves>>

\* The same call when it ends early: the session ended, the document is being
\* recovered, a provider is missing, the budget is used up, or a request of the
\* browser fails after the world was charged; what was registered is removed.
RefuseInstall ==
    LET s == Head1
        dead == ~AttachedTo(s.t)
        pending == ~dead /\ Recovering(s.t)
        missing == ~s.managed /\ ~ProvidersActive(s.t, s.p)
        broke == ~Chargeable(s)
        sess == ensure_live_target(s.t)
    IN  /\ ~Idle /\ s.op = "install"
        /\ IF dead /\ s.managed
           THEN /\ work' = Tail(work)
                /\ UNCHANGED <<rend, moves>>
           ELSE /\ \/ (dead \/ pending \/ missing \/ broke) /\ UNCHANGED moves
                   \/ Mishap /\ Faulty
                /\ StartupFails(s, sess, IF dead \/ pending \/ missing \/ broke THEN rend ELSE charge_world(s, rend))
        /\ session' = sess
        /\ UNCHANGED <<page, reg>>

\* The evaluation of the activation ended.  It counts only if the session lives
\* and no other document replaced this one while it ran.
EndInstall ==
    LET s == Head1
        at == CHOOSE i \in DOMAIN Records(s.t) : Records(s.t)[i].p = s.p
        dead == ~AttachedTo(s.t)
        sess == ensure_live_target(s.t)
    IN  /\ ~Idle /\ s.op = "activating"
        /\ \/ /\ ~dead /\ ~Recovering(s.t) /\ Holds(s.t, s.p)
              /\ session' = [session EXCEPT ![s.t].plugins[at].state = "active",
                                            ![s.t].plugins[at].confirmed = (Records(s.t)[at].ctx = s.ctx)]
              /\ work' = Tail(work)
              /\ UNCHANGED <<rend, moves>>
           \/ /\ \/ (dead \/ Recovering(s.t)) /\ UNCHANGED moves
                 \/ Mishap /\ Faulty
              /\ session' = sess
              /\ StartupFails(s, sess, rend)
        /\ UNCHANGED <<page, reg>>

\* deactivate_plugin up to the evaluation of the plugin's own deactivation.
BeginRetire ==
    LET s == Head1
        r == Record(s.t, s.p)
        at == CHOOSE i \in DOMAIN Records(s.t) : Records(s.t)[i].p = s.p
    IN  /\ ~Idle /\ s.op = "retire"
        /\ IF AttachedTo(s.t) /\ Holds(s.t, s.p)
           THEN /\ session' = [session EXCEPT ![s.t].plugins[at].state = "stopping"]
                /\ work' = <<[s EXCEPT !.op = IF r.state # "activating" /\ r.ctx # 0 THEN "deactivating" ELSE "cleanup",
                                       !.ctx = r.gen]>> \o Tail(work)
           ELSE /\ session' = ensure_live_target(s.t)
                /\ work' = Tail(work)
        /\ UNCHANGED <<page, rend, reg, moves>>

\* That evaluation ended, well or not; the bounded cleanup follows either way.
EndDeactivation ==
    /\ ~Idle /\ Head1.op = "deactivating"
    /\ \/ rend' = rend /\ UNCHANGED moves
       \/ Mishap /\ Faulty /\ rend' = Collects(rend, Head1.op)
    /\ work' = <<[Head1 EXCEPT !.op = "cleanup"]>> \o Tail(work)
    /\ session' = ensure_live_target(Head1.t)
    /\ UNCHANGED <<page, reg>>

\* The rest of deactivate_plugin: the scripts and the binding are removed from a
\* session that lives, and the record goes whatever came of it.
CleanUp ==
    LET s == Head1
        k == [p |-> s.p, gen |-> s.ctx, epoch |-> session[s.t].epoch]
    IN  /\ ~Idle /\ s.op = "cleanup"
        /\ work' = Tail(work)
        /\ UNCHANGED reg
        /\ IF ~AttachedTo(s.t)
           THEN session' = Dropped(s.t) /\ UNCHANGED <<page, rend, moves>>
           ELSE /\ session' = [session EXCEPT ![s.t].plugins = SelectSeq(@, LAMBDA r : r.p # s.p)]
                /\ \/ /\ page' = remove_bootstrap_scripts(s.t, k)
                      /\ UNCHANGED <<rend, moves>>
                   \/ /\ Mishap /\ Faulty
                      /\ rend' = Collects([rend EXCEPT !.leaked = @ \cup {<<s.t, k>>}], "deactivating")
                      /\ UNCHANGED page

\* The end of deactivate_target, after its plugins; a failed attachment goes
\* through it, and so does the recovery of a document.
Forget ==
    /\ ~Idle /\ Head1.op \in {"forget", "detach"}
    /\ IF Head1.op = "detach"
       THEN work' = deactivate_target(Head1.t) \o Tail(work) /\ UNCHANGED session
       ELSE work' = Tail(work) /\ session' = Dropped(Head1.t)
    /\ UNCHANGED <<page, rend, reg, moves>>

-----------------------------------------------------------------------------
(* Attaching a target and recovering a document.                           *)

NewSession(t, epoch) ==
    [sid |-> page[t].sid, epoch |-> epoch, recovery |-> FALSE, plugins |-> <<>>]

\* attach_document: the session is recorded and its plugins are installed in
\* activation order.
attach_document(t, epoch) ==
    /\ session' = [session EXCEPT ![t] = NewSession(t, epoch)]
    /\ work' = Across("install", [i \in DOMAIN rend.plugins |-> rend.plugins[i].p], <<t>>, FALSE)
               \o <<Step("attached", t, "", FALSE)>> \o Tail(work)

\* Only a report about the session the owner holds has an effect.
Matches(t, n) == session[t] # NoSession /\ session[t].sid = n.sid

\* What persists over documents is removed from the session.
remove_persisted_resources(t, pg) == [pg EXCEPT ![t].scripts = {}]

\* The page left the client's pages: that happens before it is detached.
handle_navigation_away(t, n, pg) ==
    IF Matches(t, n)
    THEN /\ session' = Dropped(t)
         /\ page' = IF page[t].sid = n.sid THEN [remove_persisted_resources(t, pg) EXCEPT ![t].live = FALSE] ELSE pg
    ELSE page' = pg /\ UNCHANGED session

handle_session_ended(t, n, pg) ==
    /\ session' = IF Matches(t, n) THEN Dropped(t) ELSE session
    /\ page' = pg

\* attach_all: at startup the pages found so far are attached together, so that
\* one plugin reaches every document before the next one begins.
attach_all ==
    LET found == {t \in PageId : page[t].notices # <<>> /\ Head(page[t].notices).kind = "attached"}
        ids == [i \in DOMAIN rend.plugins |-> rend.plugins[i].p]
        ts == SelectSeq(Targets, LAMBDA t : t \in found)
    IN  /\ Idle /\ Cardinality(found) > 1
        /\ \A t \in PageId : session[t] = NoSession
        /\ session' = [t \in PageId |-> IF t \in found THEN NewSession(t, 1) ELSE NoSession]
        /\ page' = [t \in PageId |-> IF t \in found THEN [page[t] EXCEPT !.notices = Tail(@)] ELSE page[t]]
        /\ work' = Across("install", ids, ts, FALSE) \o Across("attached", <<"">>, ts, FALSE)
        /\ UNCHANGED <<rend, reg, moves>>

\* apply_target_change: an attachment, a departure and the end of a session as
\* the target controller reports them.
apply_target_change(t) ==
    /\ Idle /\ page[t].notices # <<>>
    /\ LET n == Head(page[t].notices)
           gone == [page EXCEPT ![t].notices = Tail(@)]
       IN  \/ /\ n.kind = "attached"
              /\ page' = gone
              /\ IF session[t] # NoSession
                 THEN UNCHANGED <<session, work>>
                 ELSE /\ session' = [session EXCEPT ![t] = [NewSession(t, 1) EXCEPT !.sid = n.sid]]
                      /\ work' = Across("install", [i \in DOMAIN rend.plugins |-> rend.plugins[i].p], <<t>>, FALSE)
                                 \o <<Step("attached", t, "", FALSE)>>
           \/ n.kind = "away" /\ handle_navigation_away(t, n, gone) /\ UNCHANGED work
           \/ n.kind = "ended" /\ handle_session_ended(t, n, gone) /\ UNCHANGED work
    /\ UNCHANGED <<rend, reg, moves>>

\* The last step of an attachment: the target is reported.
Attached ==
    /\ ~Idle /\ Head1.op = "attached"
    /\ work' = Tail(work)
    /\ UNCHANGED <<page, session, rend, reg, moves>>

\* recover_documents, for one document: its plugins are retired and installed
\* again under the next epoch; not while an evaluation is being waited for.
recover_documents(t) ==
    /\ Idle /\ AttachedTo(t) /\ Recovering(t)
    /\ session' = [session EXCEPT ![t].recovery = FALSE]
    /\ work' = deactivate_target(t) \o <<[Step("reattach", t, "", FALSE) EXCEPT !.ctx = session[t].epoch + 1]>>
    /\ UNCHANGED <<page, rend, reg, moves>>

\* A cleanup that failed leaves an observer of the target without plugins.
Reattach ==
    /\ ~Idle /\ Head1.op = "reattach"
    /\ UNCHANGED <<page, rend, reg>>
    /\ IF ~page[Head1.t].live
       THEN work' = Tail(work) /\ UNCHANGED <<session, moves>>
       ELSE \/ attach_document(Head1.t, Head1.ctx) /\ UNCHANGED moves
            \/ /\ Mishap /\ Faulty
               /\ session' = [session EXCEPT ![Head1.t] = NewSession(Head1.t, Head1.ctx)]
               /\ work' = Tail(work)

-----------------------------------------------------------------------------
(* The events of a page, handled between turns or during an evaluation.    *)

Forgets(recs, S) == [i \in DOMAIN recs |->
    IF recs[i].ctx \in S THEN [recs[i] EXCEPT !.ctx = 0, !.confirmed = FALSE] ELSE recs[i]]

\* "Page.frameNavigated" of the main frame.
FrameNavigated(t) ==
    [session EXCEPT ![t].recovery = TRUE, ![t].plugins = Forgets(@, 0 .. MaxDoc)]

\* "Runtime.executionContextCreated": the named world of a plugin that is not
\* stopping has a new context, in which nothing was activated yet.
ContextCreated(t, e) ==
    [session EXCEPT ![t].plugins = [i \in DOMAIN @ |->
        IF @[i].state # "stopping" /\ KeyOfRecord(t, @[i]) \in e.keys
        THEN [@[i] EXCEPT !.ctx = e.doc, !.confirmed = @ /\ session[t].plugins[i].ctx = e.doc]
        ELSE @[i]]]

\* "Runtime.executionContextDestroyed" and "executionContextsCleared".
ContextsGone(t, S) == [session EXCEPT ![t].plugins = Forgets(@, S)]

\* A plugin that asks to be disabled must be active here, and nothing that runs
\* or is enabled may depend on it (invoke_builtin_host_endpoint, "disableSelf").
DisablesSelf(t, p) ==
    ~rend.managing /\ Record(t, p).state = "active" /\ disable_closure(p) = {p}

\* queue_host_action: the preference is on disk, the plugin is stopping on every
\* target and is retired when no evaluation is under way.
queue_host_action(p) ==
    /\ reg' = [reg EXCEPT !.enabled = @ \ {p}]
    /\ rend' = [rend EXCEPT !.pending = @ \cup {p}]
    /\ session' = [t \in PageId |-> IF session[t] = NoSession THEN NoSession ELSE
          [session[t] EXCEPT !.plugins = [i \in DOMAIN @ |->
              IF @[i].p = p THEN [@[i] EXCEPT !.state = "stopping"] ELSE @[i]]]]

\* A call as the page sends it: the binding, the context and what is asked.
BindingCall(t, r, kind) == [kind |-> kind, p |-> r.p, key |-> KeyOfRecord(t, r), doc |-> page[t].doc]

\* route_binding_call: a call counts only for a binding the owner still holds
\* and from the context it tracks; the provider of a capability is evaluated in
\* its own context while the caller waits.
route_binding_call(t, e) ==
    LET mine == Holds(t, e.p) /\ KeyOfRecord(t, Record(t, e.p)) = e.key /\ Record(t, e.p).ctx = e.doc
        provs == {q \in Requires[e.p] : Holds(t, q) /\ Record(t, q).state = "active" /\ Record(t, q).ctx # 0}
    IN  IF ~mine THEN UNCHANGED <<session, rend, reg, work>>
        ELSE \/ /\ e.kind = "disableSelf" /\ UNCHANGED work
                /\ IF DisablesSelf(t, e.p) THEN queue_host_action(e.p) ELSE UNCHANGED <<session, rend, reg>>
             \/ /\ e.kind = "invoke" /\ UNCHANGED <<session, rend, reg>>
                /\ IF provs = {} THEN UNCHANGED work
                   ELSE \E q \in provs : work' = <<Step("invoking", t, q, FALSE)>> \o work

handle_renderer_event(t) ==
    LET e == Head(page[t].events)
    IN  /\ page' = [page EXCEPT ![t].events = Tail(@)]
        /\ UNCHANGED moves
        /\ IF ~AttachedTo(t) THEN session' = Dropped(t) /\ UNCHANGED <<rend, reg, work>>
           ELSE \/ e.kind = "navigated" /\ session' = FrameNavigated(t) /\ UNCHANGED <<rend, reg, work>>
                \/ e.kind = "created" /\ session' = ContextCreated(t, e) /\ UNCHANGED <<rend, reg, work>>
                \/ e.kind = "destroyed" /\ session' = ContextsGone(t, {e.doc}) /\ UNCHANGED <<rend, reg, work>>
                \/ e.kind = "cleared" /\ session' = ContextsGone(t, 0 .. MaxDoc) /\ UNCHANGED <<rend, reg, work>>
                \/ e.kind \in {"disableSelf", "invoke"} /\ route_binding_call(t, e)

\* Between turns the events of every target are handled.
pump_bindings(t) ==
    /\ Idle /\ session[t] # NoSession /\ page[t].events # <<>>
    /\ handle_renderer_event(t)

\* While an evaluation is waited for, those of its target are.
drive_evaluation(t) ==
    /\ Waiting /\ Head1.t = t /\ session[t] # NoSession /\ page[t].events # <<>>
    /\ handle_renderer_event(t)

\* A provider answered, or the wait for it was given up; the answer is delivered
\* only if the caller's binding and context are still there.
EndInvocation ==
    /\ ~Idle /\ Head1.op = "invoking"
    /\ work' = Tail(work)
    /\ session' = ensure_live_target(Head1.t)
    /\ UNCHANGED <<page, rend, reg, moves>>

\* flush_host_actions and disable_committed: once nothing is being driven, the
\* plugin that disabled itself is retired on every target.
flush_host_actions(p) ==
    /\ Idle /\ ~rend.managing /\ p \in rend.pending
    /\ rend' = [rend EXCEPT !.pending = @ \ {p}, !.managing = TRUE,
                            !.op = [kind |-> "self", affected |-> {p}, failures |-> {}]]
    /\ work' = retire_managed_plugins({p}) \o <<Step("drop", "", "", TRUE), Step("report", "", "", TRUE)>>
    /\ UNCHANGED <<page, session, reg, moves>>

-----------------------------------------------------------------------------
(* Management: enable, reload and disable with a rollback.                 *)

Bounded == moves.ops < MaxOps
Began == moves' = [moves EXCEPT !.ops = @ + 1]

\* validate_snapshot_trust and the reading of a source for a new generation: the
\* registration must grant what the plugin needs.
TrustedAll(S) == \A p \in S : reg.trust[p] # "denied"

\* next_generation, for every plugin of S.
next_generation(S) == [q \in Plugin |-> IF q \in S THEN rend.gens[q] + 1 ELSE rend.gens[q]]

\* order: the loaded plugins and those of S, which have the generations of gens,
\* in activation order.
plugin_order(kept, S, gens) ==
    LET ids == Ordered({r.p : r \in ToSet(kept)} \cup S)
    IN  [i \in DOMAIN ids |-> [p |-> ids[i], gen |-> IF ids[i] \in S THEN gens[ids[i]] ELSE GenOf(ids[i])]]

\* verify_registrations: the registrations on disk are the expected ones.
verify_registrations(op) == \A p \in op.affected : reg.trust[p] = op.expected[p]

persist_disabled_closure(S) == [reg EXCEPT !.enabled = @ \ S]
persist_preference(p) == [reg EXCEPT !.enabled = @ \cup {p}]

NewOp(kind, p, affected) ==
    [kind |-> kind, id |-> p, affected |-> affected, previous |-> SelectSeq(rend.plugins, LAMBDA r : r.p \in affected),
     expected |-> reg.trust, failures |-> {}, stage |-> "forward", cleanup |-> FALSE, atVerify |-> reg.trust]

\* manage_plugin "disable": the closure is written to disk in one piece before
\* anything is retired; without `cascade' dependents refuse it.
Disable(p, cascade) ==
    LET affected == disable_closure(p)
    IN  /\ Idle /\ rend.pending = {} /\ Bounded /\ Began
        /\ cascade \/ affected = {p}
        /\ reg' = persist_disabled_closure(affected)
        /\ rend' = [rend EXCEPT !.managing = TRUE, !.op = NewOp("disable", p, affected)]
        /\ work' = retire_managed_plugins(affected) \o <<Step("drop", "", "", TRUE), Step("report", "", "", TRUE)>>
        /\ UNCHANGED <<page, session>>

\* The plugin runs in every document already.
package_is_active(p) ==
    /\ Runs(p)
    /\ \A t \in PageId : AttachedTo(t) =>
         /\ ~Recovering(t) /\ Holds(t, p)
         /\ Record(t, p).state = "active" /\ Record(t, p).confirmed /\ Record(t, p).ctx # 0

\* manage_plugin "enable" of such a plugin only writes the preference.
EnableRunning(p) ==
    /\ Idle /\ rend.pending = {} /\ Bounded /\ Began
    /\ package_is_active(p) /\ TrustedAll({p})
    /\ reg' = persist_preference(p)
    /\ UNCHANGED <<page, session, rend, work>>

\* manage_plugin "enable" and "reload": the plan is prepared without effect, the
\* budget for it and for its rollback is reserved, and the old generation is
\* retired before the new one is installed.
Activates(p, kind) ==
    LET affected == IF Runs(p) THEN dependent_closure({r.p : r \in Loaded}, p) ELSE {p}
    IN  /\ Idle /\ rend.pending = {} /\ Bounded /\ Began
        /\ IF kind = "reload" THEN Runs(p) ELSE ~package_is_active(p)
        /\ Requires[p] \subseteq {r.p : r \in Loaded}
        /\ TrustedAll(affected)
        /\ reserve_world_capacity(affected)
        /\ rend' = [rend EXCEPT !.managing = TRUE, !.op = NewOp(kind, p, affected), !.reserve = Reservation(affected),
                                !.gens = next_generation(affected)]
        /\ work' = retire_managed_plugins(affected) \o <<Step("drop", "", "", TRUE), Step("activate", "", "", TRUE)>>
        /\ UNCHANGED <<page, session, reg>>

\* remove_managed_providers, and the plugin list without the affected ones or,
\* on the way forward, with their candidates.
Drop ==
    LET op == rend.op
        kept == SelectSeq(rend.plugins, LAMBDA r : r.p \notin op.affected)
        next == plugin_order(kept, op.affected, rend.gens)
    IN  /\ ~Idle /\ Head1.op = "drop"
        /\ rend' = [rend EXCEPT !.plugins = IF op.kind \in {"enable", "reload"} /\ op.stage = "forward" THEN next ELSE kept]
        /\ work' = Tail(work)
        /\ UNCHANGED <<page, session, reg, moves>>

\* activate_managed_plugins: nothing is started after a failed retirement.
ActivateAll ==
    /\ ~Idle /\ Head1.op = "activate"
    /\ work' = (IF rend.op.failures = {} THEN Across("install", Ordered(rend.op.affected), Targets, TRUE) ELSE <<>>)
               \o <<Step("commit", "", "", TRUE)>>
    /\ UNCHANGED <<page, session, rend, reg, moves>>

\* The commit: nothing failed and the registrations are the ones the plan was
\* made from; an enablement is written in the same step.  Otherwise everything
\* of the candidate is retired before anything old is restored.
Commit ==
    LET op == rend.op
        good == op.failures = {} /\ verify_registrations(op)
    IN  /\ ~Idle /\ Head1.op = "commit"
        /\ IF good
           THEN /\ reg' = IF op.kind = "enable" THEN persist_preference(op.id) ELSE reg
                /\ rend' = [rend EXCEPT !.op.stage = "applied", !.op.atVerify = reg.trust]
                /\ work' = <<Step("report", "", "", TRUE)>>
           ELSE /\ rend' = [rend EXCEPT !.op.stage = "back", !.op.failures = @ \cup {"commit"}]
                /\ work' = retire_managed_plugins(op.affected) \o <<Step("drop", "", "", TRUE), Step("restore", "", "", TRUE)>>
                /\ UNCHANGED reg
        /\ UNCHANGED <<page, session, moves>>

RestoresAnything(back) == back # {}

\* rollback_plugins: there is something to restore and all of it is trusted now.
MayRestore(back) == back # {} /\ TrustedAll(back)

\* The compensation: the registry is read again, every old snapshot is checked
\* against the trust of this moment and comes back under a new generation.
Restore ==
    LET op == rend.op
        back == {r.p : r \in ToSet(op.previous)}
        gens == next_generation(back)
    IN  /\ ~Idle /\ Head1.op = "restore"
        /\ IF MayRestore(back)
           THEN /\ rend' = [rend EXCEPT !.gens = gens, !.plugins = plugin_order(rend.plugins, back, gens), !.op.expected = reg.trust,
                                        !.op.cleanup = "deactivating" \in op.failures, !.op.failures = {}]
                /\ work' = Across("install", Ordered(back), Targets, TRUE) \o <<Step("verify", "", "", TRUE)>>
           ELSE /\ rend' = [rend EXCEPT !.op.cleanup = "deactivating" \in op.failures,
                                        !.op.failures = IF back = {} THEN {} ELSE {"restore"}]
                /\ work' = <<Step("verify", "", "", TRUE)>>
        /\ UNCHANGED <<page, session, reg, moves>>

\* Whether the compensation held: nothing failed in it and the registrations are
\* still the ones it was checked against.  If not, what it started is retired.
Verify ==
    LET op == rend.op
        good == op.failures = {} /\ (op.previous # <<>> => verify_registrations(op))
    IN  /\ ~Idle /\ Head1.op = "verify"
        /\ rend' = [rend EXCEPT !.op.stage = IF good THEN "restored" ELSE "stopped", !.op.atVerify = reg.trust]
        /\ work' = (IF good THEN <<>> ELSE retire_managed_plugins(op.affected) \o <<Step("drop", "", "", TRUE)>>)
                   \o <<Step("report", "", "", TRUE)>>
        /\ UNCHANGED <<page, session, reg, moves>>

\* What the operation is reported to have done.
control_report(op) ==
    CASE op.kind \in {"disable", "self"} -> IF op.failures = {} THEN "applied" ELSE "degraded"
      [] op.stage = "applied" -> "applied"
      [] op.stage = "restored" /\ ~op.cleanup /\ op.failures = {} -> "rolled_back"
      [] OTHER -> "degraded"

\* The report and the end of manage_plugin: what was reserved is given back.
Report ==
    /\ ~Idle /\ Head1.op = "report"
    /\ rend' = [rend EXCEPT !.managing = FALSE, !.op = NoOp, !.reserve = [t \in PageId |-> 0],
                            !.report = control_report(rend.op)]
    /\ work' = Tail(work)
    /\ UNCHANGED <<page, session, reg, moves>>

-----------------------------------------------------------------------------
(* The browser, the target controller and other processes.                 *)

\* A page of the client appears; the controller attaches to it and reports it.
Appears(t) ==
    /\ ~page[t].live /\ page[t].sid < MaxSessions
    /\ page' = [page EXCEPT ![t] = [sid |-> @.sid + 1, live |-> TRUE, doc |-> 1, scripts |-> {}, events |-> <<>>,
                                    notices |-> Append(@.notices, [kind |-> "attached", sid |-> @.sid + 1])]]
    /\ UNCHANGED <<session, rend, work, reg, moves>>

\* The main frame loads another document: the old contexts go, the scripts for
\* new documents create the worlds of the new one.
Navigates(t) ==
    /\ page[t].live /\ page[t].doc < MaxDoc /\ Moved
    /\ \E how \in {"destroyed", "cleared"} :
         page' = [page EXCEPT ![t].doc = @ + 1,
                    ![t].events = @ \o <<[kind |-> how, doc |-> page[t].doc], [kind |-> "navigated", doc |-> page[t].doc + 1],
                                         [kind |-> "created", doc |-> page[t].doc + 1, keys |-> page[t].scripts]>>]
    /\ UNCHANGED <<session, rend, work, reg>>

\* The session of a page ends, or the page leaves the client's pages.
SessionEnds(t) ==
    /\ page[t].live /\ Moved
    /\ \E kind \in {"away", "ended"} :
         page' = [page EXCEPT ![t].live = (kind = "away"),
                              ![t].notices = Append(@, [kind |-> kind, sid |-> page[t].sid])]
    /\ UNCHANGED <<session, rend, work, reg>>

\* The code of an installed plugin calls its binding in the current document.
BindingCalls(t) ==
    /\ page[t].live /\ session[t] # NoSession /\ Moved
    /\ \E r \in ToSet(Records(t)), kind \in {"disableSelf", "invoke"} :
         page' = [page EXCEPT ![t].events = Append(@, BindingCall(t, r, kind))]
    /\ UNCHANGED <<session, rend, work, reg>>

\* Another process edits the registration of a plugin.
Edits(p) ==
    /\ Moved
    /\ \E v \in Trust \ {reg.trust[p], "loaded"} : reg' = [reg EXCEPT !.trust[p] = v]
    /\ UNCHANGED <<page, session, rend, work>>

OwnerSteps ==
    \/ BeginInstall \/ RefuseInstall \/ EndInstall \/ BeginRetire \/ EndDeactivation \/ CleanUp \/ Forget
    \/ Attached \/ Reattach \/ EndInvocation \/ Drop \/ ActivateAll \/ Commit \/ Restore \/ Verify \/ Report

RendNext ==
    \/ OwnerSteps
    \/ \E t \in PageId : apply_target_change(t) \/ recover_documents(t) \/ pump_bindings(t) \/ drive_evaluation(t)
    \/ attach_all
    \/ \E p \in Plugin : \/ flush_host_actions(p)
                         \/ \E c \in BOOLEAN : Disable(p, c)
                         \/ \E k \in {"enable", "reload"} : Activates(p, k)
                         \/ EnableRunning(p)
                         \/ Edits(p)
    \/ \E t \in PageId : Appears(t) \/ Navigates(t) \/ SessionEnds(t) \/ BindingCalls(t)

RendSpec == RendInit /\ [][RendNext]_rendVars

-----------------------------------------------------------------------------
(* Properties.                                                             *)

RendTypeOK ==
    /\ \A t \in PageId :
         /\ session[t] # NoSession =>
              /\ session[t].sid \in Nat \ {0} /\ session[t].epoch \in Nat \ {0} /\ session[t].recovery \in BOOLEAN
              /\ \A r \in ToSet(session[t].plugins) :
                   /\ r.p \in Plugin /\ r.gen \in Nat /\ r.ctx \in 0 .. MaxDoc
                   /\ r.confirmed \in BOOLEAN /\ r.state \in {"activating", "active", "stopping"}
         /\ page[t].doc \in 0 .. MaxDoc
    /\ rend.reserve \in [PageId -> Nat] /\ rend.attempts \in Nat
    /\ rend.report \in {"none", "applied", "rolled_back", "degraded"}
    /\ reg.trust \in [Plugin -> Trust] /\ reg.enabled \subseteq Plugin

\* The budget of isolated worlds is never exceeded, what is reserved for a
\* running operation included, and the operation it was reserved for, its
\* rollback included, never finds it used up, whatever other documents were
\* recovered in between (renderer/world_budget.rs).
BudgetHolds ==
    /\ rend.attempts + Reserved(rend.reserve) <= WorldLimit
    /\ ~Idle /\ Head1.op = "install" /\ Head1.managed /\ AttachedTo(Head1.t) => Chargeable(Head1)

\* A page never keeps a script or a binding of a plugin the owner has forgotten,
\* except one whose removal the browser refused: retirement, failed
\* installations, departures and recoveries all take them along.
NoOrphans ==
    \A t \in PageId : page[t].live /\ (session[t] = NoSession \/ session[t].sid = page[t].sid) =>
        \A k \in page[t].scripts :
            \/ session[t] # NoSession /\ \E r \in ToSet(Records(t)) : KeyOfRecord(t, r) = k
            \/ <<t, k>> \in rend.leaked

\* What is taken for activated ran in the document that is loaded: once the
\* events of a page are handled, a confirmed plugin has the current context.
ConfirmedIsCurrent ==
    \A t \in PageId : AttachedTo(t) /\ page[t].events = <<>> =>
        \A r \in ToSet(Records(t)) : r.confirmed => r.ctx = page[t].doc

\* Between two turns every realm runs the one generation the runtime has loaded
\* of a plugin, each plugin once; and until an operation replaces one of them (a
\* transactional installation does not look at its providers' realms) a plugin
\* only runs where the plugins it requires do.
RealmsAgree ==
    Idle => \A t \in PageId : AttachedTo(t) =>
        /\ \A i, j \in DOMAIN Records(t) : Records(t)[i].p = Records(t)[j].p => i = j
        /\ \A r \in ToSet(Records(t)) :
             /\ Runs(r.p) /\ r.gen = GenOf(r.p) /\ r.state # "activating"
             /\ rend.report = "none" => \A q \in Requires[r.p] : Holds(t, q)

\* What an operation reports is so: when it is applied or rolled back, every
\* affected plugin runs with its new generation in every document that was not
\* replaced meanwhile, and a rollback only restored what the registry trusted
\* when it was verified, not when the operation began
\* (renderer/management.rs, execute_activation).
Settles(t) == AttachedTo(t) /\ ~Recovering(t)
OutcomeHolds ==
    ~Idle /\ Head1.op = "report" /\ rend.op.kind \in {"enable", "reload"} =>
        LET op == rend.op
            back == {r.p : r \in ToSet(op.previous)}
            expected == CASE op.stage = "applied" -> op.affected [] op.stage = "restored" -> back [] OTHER -> {}
        IN  /\ \A t \in PageId : Settles(t) =>
                 \A p \in op.affected : IF p \in expected
                     THEN Holds(t, p) /\ Record(t, p).state = "active" /\ Record(t, p).gen = rend.gens[p]
                     ELSE ~Holds(t, p)
            /\ op.stage = "restored" => \A p \in back : op.atVerify[p] # "denied"
            /\ op.stage = "stopped" => op.affected \cap {r.p : r \in Loaded} = {}

\* Through every attachment, navigation, recovery, fault and replacement: the
\* budget, the worlds, the confirmed documents and the records of all pages agree,
\* and what an operation reports is so (RendererRuntime, execute_activation).
RendererSound ==
    RendTypeOK /\ BudgetHolds /\ NoOrphans /\ ConfirmedIsCurrent /\ RealmsAgree /\ OutcomeHolds
==============================================================================
