------------------------------- MODULE CoreRpc -------------------------------
(* Managed RPC over the shared Core state: the renderer owner publishes the   *)
(* documents and realms it installs (src/renderer/host_rpc.rs), Host owners   *)
(* hold raw sessions and scope handles and route calls                        *)
(* (src/host_runtime/rpc.rs), and the Host worker observes the browser's      *)
(* events behind the browser and behind the renderer owner                    *)
(* (src/host_runtime/lifecycle.rs).  Each takes the lock once per action.     *)
EXTENDS CoreState, Sequences

CONSTANTS
    Manifests,         \* the manifests each plugin may be loaded with
    ManagedSession,    \* sessions of the renderer owner; Hosts have the others
    MaxEvents,         \* scope events queued for the Host worker
    MaxNavigations     \* bound on main-frame navigations

VARIABLES
    core,              \* CoreRpcShared
    routes,            \* managed calls in flight
    issued,            \* calls started so far
    page,              \* the renderer owner's session of each target
    contexts,          \* execution contexts created so far
    session,           \* CDP's own state of each session
    browser,           \* main-frame navigations of each target
    events,            \* scope lifecycle events the worker has not seen
    lost               \* the worker's event queue overflowed

cvars == <<core, routes, issued, page, contexts, session, browser, events, lost>>

Closed == [session |-> None, document |-> 0, at |-> 0, realms |-> {}, left |-> FALSE]

Page == [session : Session \cup {None}, document : 0 .. MaxDocument,
         at : 0 .. MaxNavigations, realms : SUBSET Endpoint, left : BOOLEAN]

Event == [kind : {"detached", "navigated"}, session : Session]
         \cup [kind : {"destroyed"}, target : Target]

Phase == {"waiting", "checked", "found", "renderer", "host", "core"}

Route == [id : 1 .. MaxRoutes, caller : Owner, lease : Lease, lineage : Lineage,
          phase : Phase, endpoint : Endpoint \cup {None}, token : 0 .. MaxId]

CoreInit ==
    /\ core = InitialState
    /\ routes = {}
    /\ issued = 0
    /\ page = [t \in Target |-> Closed]
    /\ contexts = 0
    /\ session = [s \in Session |-> "unused"]
    /\ browser = [t \in Target |-> 0]
    /\ events = <<>>
    /\ lost = FALSE

(* A method's effect on the shared state, within the bound on epochs.         *)
Commit(c) ==
    /\ c.registry.next_epoch <= MaxEpoch
    /\ core' = c

Alive(s) == session[s] = "live"

(* has_runtime_host, and whether a manifest has a renderer.                   *)
Declares(p, entry) == \E m \in Manifests[p] : entry \in DOMAIN m

-----------------------------------------------------------------------------
(* The browser.                                                               *)

Emits(queue) ==
    IF lost \/ Len(events \o queue) > MaxEvents
    THEN events' = <<>> /\ lost' = TRUE
    ELSE events' = events \o queue /\ UNCHANGED lost

Detach(s) ==
    /\ Alive(s)
    /\ session' = [session EXCEPT ![s] = "gone"]
    /\ Emits(<<[kind |-> "detached", session |-> s]>>)
    /\ UNCHANGED <<core, routes, issued, page, contexts, browser>>

TargetGoes(t) ==
    /\ \E s \in Session : TargetOf[s] = t /\ Alive(s)
    /\ session' = [s \in Session |-> IF TargetOf[s] = t THEN "gone" ELSE session[s]]
    /\ Emits(<<[kind |-> "destroyed", target |-> t]>>)
    /\ UNCHANGED <<core, routes, issued, page, contexts, browser>>

(* A main-frame navigation, reported on one of the Hosts' sessions, if any.   *)
Navigate(t) ==
    /\ browser[t] < MaxNavigations
    /\ browser' = [browser EXCEPT ![t] = @ + 1]
    /\ LET raw == {s \in Session \ ManagedSession : TargetOf[s] = t /\ Alive(s)}
       IN  IF raw = {} THEN UNCHANGED <<events, lost>>
           ELSE \E s \in raw : Emits(<<[kind |-> "navigated", session |-> s]>>)
    /\ UNCHANGED <<core, routes, issued, page, contexts, session>>

-----------------------------------------------------------------------------
(* The renderer owner.                                                        *)

DocumentOf(t) == [session |-> page[t].session, epoch |-> page[t].document]

(* attach_document of a new session                                           *)
AttachDocument(s) ==
    LET t == TargetOf[s]
    IN  /\ session[s] = "unused" /\ page[t].session = None
        /\ session' = [session EXCEPT ![s] = "live"]
        /\ page' = [page EXCEPT ![t] = [session |-> s, document |-> 1, at |-> browser[t],
                                        realms |-> {}, left |-> FALSE]]
        /\ Commit(PublishDocument(core, t, [session |-> s, epoch |-> 1]))
        /\ UNCHANGED <<routes, issued, contexts, browser, events, lost>>

(* recover_documents, first half: deactivate_target after a navigation.       *)
LeaveDocument(t) ==
    /\ page[t].session # None /\ Alive(page[t].session) /\ ~page[t].left
    /\ page[t].at # browser[t]
    /\ page' = [page EXCEPT ![t].left = TRUE, ![t].realms = {}]
    /\ Commit(RetireRenderers(core, t, Plugin))
    /\ UNCHANGED <<routes, issued, contexts, session, browser, events, lost>>

(* recover_documents, second half: attach_document with the next epoch.       *)
RecoverDocument(t) ==
    /\ page[t].left /\ page[t].document < MaxDocument
    /\ page' = [page EXCEPT ![t].document = @ + 1, ![t].at = browser[t],
                            ![t].left = FALSE]
    /\ Commit(PublishDocument(core, t, DocumentOf(t)'))
    /\ UNCHANGED <<routes, issued, contexts, session, browser, events, lost>>

(* A plugin of the owner's catalog is installed in a fresh context and, once  *)
(* activation is confirmed, published (publish_rpc_renderers).                *)
ActivateRealm(t, p, generation) ==
    LET e == [plugin |-> p, generation |-> generation, document |-> DocumentOf(t),
              context |-> contexts + 1]
    IN  /\ Declares(p, RendererEntry[p])
        /\ page[t].session # None /\ ~page[t].left
        /\ contexts < MaxContext
        /\ \A f \in page[t].realms : f.plugin # p
        /\ contexts' = contexts + 1
        /\ page' = [page EXCEPT ![t].realms = @ \cup {e}]
        /\ Commit(IF Publishes(core, e) THEN PublishRenderer(core, e) ELSE core)
        /\ UNCHANGED <<routes, issued, session, browser, events, lost>>

DeactivateRealm(t, p) ==
    /\ \E e \in page[t].realms : e.plugin = p
    /\ page' = [page EXCEPT ![t].realms = {e \in @ : e.plugin # p}]
    /\ Commit(RetireRenderers(core, t, {p}))
    /\ UNCHANGED <<routes, issued, contexts, session, browser, events, lost>>

ClosePage(t) ==
    /\ page[t].session # None /\ ~Alive(page[t].session)
    /\ page' = [page EXCEPT ![t] = Closed]
    /\ Commit(RetireRenderers(core, t, Plugin))
    /\ UNCHANGED <<routes, issued, contexts, session, browser, events, lost>>

RendererOwner ==
    \/ \E s \in ManagedSession : AttachDocument(s)
    \/ \E t \in Target : LeaveDocument(t) \/ RecoverDocument(t) \/ ClosePage(t)
    \/ \E t \in Target, p \in Plugin :
          DeactivateRealm(t, p) \/ \E g \in Generation : ActivateRealm(t, p, g)

-----------------------------------------------------------------------------
(* Plugins and their Hosts.                                                   *)

(* Of several plugins in one call, one step each: a refusal keeps the effects *)
(* of the entries before it.                                                  *)
RegisterPlugins(p, manifest) ==
    /\ Commit(RegisterPlugin(core, p, manifest))
    /\ core' # core
    /\ UNCHANGED <<routes, issued, page, contexts, session, browser, events, lost>>

RetirePlugins(p, generation) ==
    /\ Commit(RetirePlugin(core, p, generation))
    /\ core' # core
    /\ UNCHANGED <<routes, issued, page, contexts, session, browser, events, lost>>

(* A Host starts with a fresh generation, becomes active and ends.            *)
ChangeHost(p, generation) ==
    /\ Declares(p, HostEntry[p])
    /\ \/ /\ core.hosts[p].state = "ended" /\ core.hosts[p].generation < generation
          /\ Commit(SetHostState(core, p, generation, "starting"))
       \/ /\ core.hosts[p] = [generation |-> generation, state |-> "starting"]
          /\ \E state \in {"active", "ended"} :
                Commit(SetHostState(core, p, generation, state))
       \/ /\ core.hosts[p] = [generation |-> generation, state |-> "active"]
          /\ Commit(SetHostState(core, p, generation, "ended"))
    /\ UNCHANGED <<routes, issued, page, contexts, session, browser, events, lost>>

(* A Host attaches a session of its own; RawSessions has the steps between    *)
(* the reservation and the answer.                                            *)
AttachRaw(owner, s) ==
    /\ HostReady(core, owner.id, owner.generation)
    /\ session[s] = "unused"
    /\ AttachRoom(core) /\ TracksAttach(core, s)
    /\ session' = [session EXCEPT ![s] = "live"]
    /\ Commit(TrackRawAttach(ReserveRawAttach(core), owner, s))
    /\ UNCHANGED <<routes, issued, page, contexts, browser, events, lost>>

RetireScopes(owner) ==
    /\ \E s \in Session : Owns(core, owner, s)
    /\ Commit(RetireHostScopes(core, owner))
    /\ UNCHANGED <<routes, issued, page, contexts, session, browser, events, lost>>

(* The detach of a session its owner left is confirmed (pump_scope_cleanup).  *)
DetachConfirmed(owner, s) ==
    /\ core.retiring[s] = owner
    /\ session' = [session EXCEPT ![s] = "gone"]
    /\ Commit(RetireSessions(TakeCleanupSessions(core, owner), {s}))
    /\ UNCHANGED <<routes, issued, page, contexts, browser, events, lost>>

(* rpc.target, when Page.getFrameTree has answered.                           *)
IssueScope(owner, s) ==
    /\ IssuesHandle(core, owner, s)
    /\ Commit(IssueHandle(core, owner, s))
    /\ UNCHANGED <<routes, issued, page, contexts, session, browser, events, lost>>

CloseScope(owner, h) ==
    /\ h.owner = owner
    /\ Commit(RetireHandles(core, {h}))
    /\ UNCHANGED <<routes, issued, page, contexts, session, browser, events, lost>>

HostOwner(owner) ==
    \/ ChangeHost(owner.id, owner.generation)
    \/ RetireScopes(owner)
    \/ \E s \in Session \ ManagedSession :
          AttachRaw(owner, s) \/ DetachConfirmed(owner, s) \/ IssueScope(owner, s)
    \/ \E h \in core.handles : CloseScope(owner, h)

-----------------------------------------------------------------------------
(* The Host worker's view of the browser.                                     *)

Observe ==
    /\ events # <<>>
    /\ events' = Tail(events)
    /\ LET event == Head(events)
       IN  Commit(CASE event.kind = "detached" -> RetireSessions(core, {event.session})
                    [] event.kind = "destroyed" -> DestroyTarget(core, event.target)
                    [] event.kind = "navigated" -> ObserveNavigation(core, event.session))
    /\ UNCHANGED <<routes, issued, page, contexts, session, browser, lost>>

(* Events were dropped: no scope may be trusted, and the worker subscribes    *)
(* again (invalidate_targets).                                                *)
Resubscribe ==
    /\ lost
    /\ lost' = FALSE
    /\ Commit(RetireDocuments(core, Target))
    /\ UNCHANGED <<routes, issued, page, contexts, session, browser, events>>

-----------------------------------------------------------------------------
(* Calls.                                                                     *)

NewRoute(caller, entry, lineage, d) ==
    /\ issued < MaxRoutes
    /\ Resolvable(core, entry, caller.generation, lineage, d)
    /\ issued' = issued + 1
    /\ routes' = routes \cup
         {[id |-> issued + 1, caller |-> caller,
           lease |-> ResolveLease(core, entry, caller.generation, lineage, d),
           lineage |-> [lineage EXCEPT !.flags = @ \cup {CallFlag(issued + 1)}],
           phase |-> "waiting", endpoint |-> None, token |-> 0]}
    /\ UNCHANGED <<core, page, contexts, session, browser, events, lost>>

RuntimeLineage == [scope |-> Runtime, epoch |-> 0, depth |-> 1, flags |-> {}]

HandleLineage(h) == [scope |-> h.target, epoch |-> h.epoch, depth |-> 1,
                     flags |-> {HandleFlag(h.id)}]

Deeper(lineage) == [lineage EXCEPT !.depth = @ + 1]

(* resolve_host without a parent: the Runtime scope or a scope handle.        *)
ResolveHost(owner, d) ==
    /\ HostReady(core, owner.id, owner.generation)
    /\ \/ /\ KeyOf[d] \in RuntimeKey
          /\ NewRoute(owner, HostEntry[owner.id], RuntimeLineage, d)
       \/ \E h \in core.handles :
             h.owner = owner /\ NewRoute(owner, HostEntry[owner.id], HandleLineage(h), d)

(* resolve_host inside an invocation of this Host: the parent's scope, or     *)
(* that of a handle, one level deeper and under every flag of the parent.     *)
ResolveNested(owner, d, parent) ==
    /\ parent.phase = "host"
    /\ parent.lease.provider = HostEntry[owner.id]
    /\ parent.lease.providerGeneration = owner.generation
    /\ parent.lineage.depth < MaxDepth
    /\ \/ NewRoute(owner, HostEntry[owner.id], Deeper(parent.lineage), d)
       \/ \E h \in core.handles :
             /\ h.owner = owner
             /\ NewRoute(owner, HostEntry[owner.id],
                         [HandleLineage(h) EXCEPT !.depth = parent.lineage.depth + 1,
                                                  !.flags = @ \cup parent.lineage.flags], d)

DocumentLineage(t) == [scope |-> t, epoch |-> core.targets[t].epoch, depth |-> 1,
                       flags |-> {}]

(* resolve_renderer from a realm of the owner, maybe inside an invocation of  *)
(* that very realm.                                                           *)
ResolveRenderer(t, e, d) ==
    /\ Present(core, t)
    /\ LET caller == [id |-> e.plugin, generation |-> e.generation]
           entry == RendererEntry[e.plugin]
       IN  \/ NewRoute(caller, entry, DocumentLineage(t), d)
           \/ \E i \in core.invocations :
                 /\ i.endpoint = e /\ Alive(e.document.session)
                 /\ i.lineage.depth < MaxDepth
                 /\ NewRoute(caller, entry,
                             [DocumentLineage(t) EXCEPT !.depth = i.lineage.depth + 1,
                                                        !.flags = i.lineage.flags], d)

Becomes(r, s) == routes' = (routes \ {r}) \cup {s}

(* A waiting call is validated; a Host provider must be ready, a renderer     *)
(* provider is looked up next.                                                *)
CheckRoute(r) ==
    /\ r.phase = "waiting" /\ ValidRoute(core, r)
    /\ \/ /\ r.lease.provider = Builtin
          /\ Becomes(r, [r EXCEPT !.phase = "core"])
       \/ \E p \in Plugin :
             /\ r.lease.provider = HostEntry[p]
             /\ HostReady(core, p, r.lease.providerGeneration)
             /\ Becomes(r, [r EXCEPT !.phase = "host"])
       \/ \E p \in Plugin :
             /\ r.lease.provider = RendererEntry[p]
             /\ r.lineage.scope # Runtime
             /\ Becomes(r, [r EXCEPT !.phase = "checked"])
    /\ UNCHANGED <<core, issued, page, contexts, session, browser, events, lost>>

(* renderer_endpoint, under a second lock.                                    *)
FindRenderer(r) ==
    /\ r.phase = "checked"
    /\ LET found == {e \in core.renderers :
                        /\ EndpointTarget(e) = r.lineage.scope
                        /\ RendererEntry[e.plugin] = r.lease.provider
                        /\ e.generation = r.lease.providerGeneration
                        /\ Alive(e.document.session)}
       IN  IF found = {} THEN Becomes(r, [r EXCEPT !.phase = "waiting"])
           ELSE \E e \in found : Becomes(r, [r EXCEPT !.phase = "found", !.endpoint = e])
    /\ UNCHANGED <<core, issued, page, contexts, session, browser, events, lost>>

(* begin_renderer_invocation validates the lineage again, not the lease.      *)
InvokeRenderer(r) ==
    /\ r.phase = "found"
    /\ BeginsInvocation(core, r.lineage)
    /\ Commit(BeginInvocation(core, r.endpoint, r.lineage))
    /\ Becomes(r, [r EXCEPT !.phase = "renderer", !.token = core.next_id + 1])
    /\ UNCHANGED <<issued, page, contexts, session, browser, events, lost>>

(* The caller cancels, or the deadline passes: the flag is up at once, the    *)
(* call ends when its owner next looks.                                       *)
CancelCall(r) ==
    /\ CallFlag(r.id) \notin core.cancelled
    /\ Commit(Cancel(core, CallFlag(r.id)))
    /\ UNCHANGED <<routes, issued, page, contexts, session, browser, events, lost>>

(* retire_rpc_phase, RendererCall::drop: whatever ended the call.             *)
Retired(r) == Cancel(EndInvocation(core, r.token), CallFlag(r.id))

EndCall(r) ==
    /\ routes' = routes \ {r}
    /\ Commit(Retired(r))
    /\ UNCHANGED <<issued, page, contexts, session, browser, events, lost>>

Calls ==
    \/ \E o \in Owner, d \in Descriptor :
          ResolveHost(o, d) \/ \E r \in routes : ResolveNested(o, d, r)
    \/ \E t \in Target, d \in Descriptor : \E e \in page[t].realms : ResolveRenderer(t, e, d)
    \/ \E r \in routes : CheckRoute(r) \/ FindRenderer(r) \/ InvokeRenderer(r)
                            \/ CancelCall(r) \/ EndCall(r)

(* start_with_services registers the complete catalog, in its order, before   *)
(* it launches a worker.                                                      *)
Booting == {p \in Plugin : {HostEntry[p], RendererEntry[p]} \cap Identities(core) = {}}

Boot ==
    LET p == CHOOSE q \in Booting : TRUE
    IN  \E m \in Manifests[p] : RegisterPlugins(p, m)

Running ==
    \/ \E s \in Session : Detach(s)
    \/ \E t \in Target : TargetGoes(t) \/ Navigate(t)
    \/ RendererOwner
    \/ \E p \in Plugin : \/ \E m \in Manifests[p] : RegisterPlugins(p, m)
                         \/ \E g \in Generation : RetirePlugins(p, g)
    \/ \E o \in Owner : HostOwner(o)
    \/ Observe \/ Resubscribe
    \/ Calls

CoreNext == IF Booting # {} THEN Boot ELSE Running

CoreSpec == CoreInit /\ [][CoreNext]_cvars

-----------------------------------------------------------------------------
(* The types of Core's tables and of the owners that use them.                *)
CoreTypeOK ==
    /\ core \in State
    /\ routes \subseteq Route /\ issued \in 0 .. MaxRoutes
    /\ page \in [Target -> Page] /\ contexts \in 0 .. MaxContext
    /\ session \in [Session -> {"unused", "live", "gone"}]
    /\ browser \in [Target -> 0 .. MaxNavigations]
    /\ events \in Seq(Event) /\ Len(events) <= MaxEvents /\ lost \in BOOLEAN

(* The target table and the registry's active scopes are two records of one   *)
(* fact: a lineage checked against the first is the one leases are held to.   *)
ScopesAligned == \A t \in Target : core.targets[t].epoch = core.registry.active[t]

(* A live handle names the current scope of its target and a raw session its  *)
(* owner still holds (issue_handle, retire_session, retire_target_document).  *)
HandlesLive ==
    \A h \in core.handles :
        /\ core.targets[h.target].epoch = h.epoch
        /\ Owns(core, h.owner, h.session) /\ TargetOf[h.session] = h.target

(* A published realm belongs to the document its target has now.              *)
RenderersLive ==
    \A e \in core.renderers : core.targets[EndpointTarget(e)].document = e.document

(* Core's tables tell one story about every target: one scope, one document,  *)
(* within their bounds, whoever moved them last.                              *)
CoreConsistent == CoreTypeOK /\ ScopesAligned /\ RenderersLive

(* A running renderer invocation belongs to the scope it was started for, in  *)
(* the document of that scope, although the endpoint was looked up under      *)
(* another lock; and some call in flight will end it.                         *)
InvocationsLive ==
    \A i \in core.invocations :
        /\ i.lineage.scope = EndpointTarget(i.endpoint)
        /\ core.targets[i.lineage.scope] = [epoch |-> i.lineage.epoch,
                                            document |-> i.endpoint.document]
        /\ \E r \in routes : r.token = i.id

(* No entry is registered with a generation that was retired, in whatever     *)
(* order the renderer and the Host owner register and retire it.              *)
RetiredStaysRetired ==
    \A e \in Provider \ {Builtin} : Registered(core.registry, e) =>
        /\ core.registry.registrations[e].generation > core.blocked[e]
        /\ core.declarations[e] # None
        /\ core.declarations[e].generation = core.registry.registrations[e].generation

(* A call does not outlive what it was made under: when a call it is nested   *)
(* in has ended or its scope handle is gone, it no longer validates.          *)
LineageDies ==
    \A r \in routes : ValidLineage(core, r.lineage) =>
        /\ \A id \in 1 .. MaxRoutes : CallFlag(id) \in r.lineage.flags =>
              \E q \in routes : q.id = id
        /\ \A id \in 1 .. MaxId : HandleFlag(id) \in r.lineage.flags =>
              \E h \in core.handles : h.id = id

(* A call that was ever refused is never accepted again, whatever registers,  *)
(* navigates or reconnects later.                                             *)
RefusedForever ==
    [][\A r \in routes : ~ValidRoute(core, r) =>
          \A q \in routes' : q.id = r.id => ~ValidRoute(core', q)]_cvars

(* The scope of a managed document lives as long as the document: a late copy *)
(* of the navigation that led to it does not end it (observe).                *)
ScopeSurvives ==
    [][\A t \in Target :
          (/\ core.targets[t].document # None
           /\ core.targets[t].document = DocumentOf(t)
           /\ page[t].at = browser[t] /\ ~page[t].left
           /\ Alive(page[t].session) /\ ~lost)
          => core'.targets[t].epoch = core.targets[t].epoch]_cvars

(* Whatever registers, navigates, is retired or reconnects behind a call: the *)
(* tables agree, handles and invocations name what is still there, a retired  *)
(* generation stays retired and no call outlives what it was made under.      *)
CoreSound ==
    CoreConsistent /\ HandlesLive /\ InvocationsLive /\ RetiredStaysRetired /\ LineageDies

(* Over every interleaving of the owners, the browser and the worker: what    *)
(* Core keeps is sound, a document keeps its scope, and a refused call stays  *)
(* refused.                                                                   *)
ManagedRpcSound == []CoreSound /\ ScopeSurvives /\ RefusedForever
=============================================================================
