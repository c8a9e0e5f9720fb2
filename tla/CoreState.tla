------------------------------ MODULE CoreState ------------------------------
(* The state both executors share (State in src/host_runtime/rpc_state.rs):   *)
(* entry registrations, browser target scopes, raw CDP sessions, scope        *)
(* handles, published renderer realms and running renderer invocations.       *)
(* CoreRpcShared keeps it behind one mutex, so every method is a function of  *)
(* the state; the modules that drive it decide what interleaves.              *)
EXTENDS CapabilityRegistry

CONSTANTS
    Plugin,
    HostEntry,             \* the Host entry identity of each plugin
    RendererEntry,         \* its renderer entry identity
    Builtin,               \* the provider of Core's own capabilities
    BuiltinProvides,
    Session,               \* CDP session identities
    TargetOf,              \* the target each session is attached to
    MaxDocument,           \* u64::MAX of document_epoch
    MaxContext,            \* bound on execution contexts
    MaxId,                 \* u64::MAX of next_id
    MaxRoutes,             \* bound on the calls ever started
    MaxDepth,              \* nesting of managed RPC (8)
    MAX_HANDLES, MAX_RAW_SESSIONS, MAX_TARGETS, MAX_RENDERER_INVOCATIONS,
    MAX_ENTRY_IDENTITIES

ASSUME CoreConstants ==
    /\ HostEntry \in [Plugin -> Provider]
    /\ RendererEntry \in [Plugin -> Provider]
    /\ Builtin \in Provider
    /\ BuiltinProvides \subseteq Descriptor
    /\ TargetOf \in [Session -> Target]
    /\ {MaxDocument, MaxContext, MaxId, MaxRoutes, MaxDepth, MAX_HANDLES,
        MAX_RAW_SESSIONS, MAX_TARGETS, MAX_RENDERER_INVOCATIONS,
        MAX_ENTRY_IDENTITIES} \subseteq Nat
    /\ None \notin Target \cup Session

Owner == [id : Plugin, generation : Generation]

Declaration == [generation : Generation, provides : SUBSET Descriptor,
                requires : SUBSET Descriptor]

(* A renderer document: the managed session and its document counter.         *)
Document == [session : Session, epoch : 1 .. MaxDocument]

(* A renderer realm of one plugin in one document.                            *)
Endpoint == [plugin : Plugin, generation : Generation, document : Document,
             context : 1 .. MaxContext]

EndpointTarget(e) == TargetOf[e.document.session]

(* Cancellation flags (Arc<AtomicBool>): one per scope handle, one per call.  *)
HandleFlag(id) == <<"handle", id>>

CallFlag(id) == <<"call", id>>

Flag == {HandleFlag(id) : id \in 1 .. MaxId} \cup {CallFlag(id) : id \in 1 .. MaxRoutes}

(* A lineage's deadline never exceeds its parent's, so that it has passed is  *)
(* one more way for its own call flag to be up.                               *)
Lineage == [scope : Scope, epoch : Epoch, depth : 1 .. MaxDepth, flags : SUBSET Flag]

Handle == [id : 1 .. MaxId, owner : Owner, session : Session, target : Target,
           epoch : Epoch]

Invocation == [id : 1 .. MaxId, endpoint : Endpoint, lineage : Lineage]

HostState == {"starting", "active", "ended"}

State == [registry     : Registry,
          declarations : [Provider -> Declaration \cup {None}],
          blocked      : [Provider -> 0 .. MaxGeneration],
          hosts        : [Plugin -> [generation : 0 .. MaxGeneration, state : HostState]],
          targets      : [Target -> [epoch : Epoch, document : Document \cup {None}]],
          raw_sessions : [Session -> Owner \cup {None}],
          reserved     : 0 .. MAX_RAW_SESSIONS,
          retiring     : [Session -> Owner \cup {None}],
          cleanup      : [Owner -> SUBSET Session],
          handles      : SUBSET Handle,
          cancelled    : SUBSET Flag,
          renderers    : SUBSET Endpoint,
          invocations  : SUBSET Invocation,
          next_id      : 0 .. MaxId]

NoTarget == [epoch |-> 0, document |-> None]

(* Default for State: Core's provider and the Runtime scope come first.       *)
InitialState ==
    [registry     |-> ActivateScope(RegisterProvider(EmptyRegistry, Builtin, 1,
                                                     BuiltinProvides, {}), Runtime),
     declarations |-> [e \in Provider |-> None],
     blocked      |-> [e \in Provider |-> 0],
     hosts        |-> [p \in Plugin |-> [generation |-> 0, state |-> "ended"]],
     targets      |-> [t \in Target |-> NoTarget],
     raw_sessions |-> [s \in Session |-> None],
     reserved     |-> 0,
     retiring     |-> [s \in Session |-> None],
     cleanup      |-> [o \in Owner |-> {}],
     handles      |-> {},
     cancelled    |-> {},
     renderers    |-> {},
     invocations  |-> {},
     next_id      |-> 0]

-----------------------------------------------------------------------------
(* Entries.                                                                   *)

Identities(c) == {e \in Provider : c.declarations[e] # None \/ c.blocked[e] # 0}

NeverBlocked(c, e, d) == FALSE

Blocked(c, e, d) == d.generation <= c.blocked[e]

RegisterOutcome(c, e, d) ==
    IF e \notin Identities(c) /\ Cardinality(Identities(c)) >= MAX_ENTRY_IDENTITIES
      THEN "identity_limit"
    ELSE IF Blocked(c, e, d) \/ c.declarations[e] = d
      THEN "kept"
    ELSE IF c.declarations[e] # None /\ c.declarations[e].generation >= d.generation
      THEN "stale_generation"
    ELSE IF RegisterConflicts(UnregisterProvider(c.registry, e), e, d.provides)
      THEN "dependency_conflict"
    ELSE "registered"

Refuses(outcome) ==
    outcome \in {"identity_limit", "stale_generation", "dependency_conflict"}

(* One entry of register_plugins.  A conflict is found after the old          *)
(* registration is gone: the declaration then outlives its registration.      *)
RegisterEntry(c, e, d) ==
    LET outcome == RegisterOutcome(c, e, d)
        cleared == UnregisterProvider(c.registry, e)
    IN  CASE outcome = "dependency_conflict" -> [c EXCEPT !.registry = cleared]
          [] outcome = "registered" ->
                [c EXCEPT !.registry = RegisterProvider(cleared, e, d.generation,
                                                        d.provides, d.requires),
                          !.declarations[e] = d]
          [] OTHER -> c

(* register_plugins for one plugin: the Host entry, then the renderer entry,  *)
(* unless the first was refused.  A manifest maps the entries it has.         *)
RegisterPlugin(c, p, manifest) ==
    LET host == HostEntry[p]
        renderer == RendererEntry[p]
        first == IF host \in DOMAIN manifest THEN RegisterEntry(c, host, manifest[host])
                 ELSE c
        refused == /\ host \in DOMAIN manifest
                   /\ Refuses(RegisterOutcome(c, host, manifest[host]))
    IN  IF renderer \in DOMAIN manifest /\ ~refused
        THEN RegisterEntry(first, renderer, manifest[renderer])
        ELSE first

Retires(c, e, generation) ==
    c.declarations[e] # None /\ c.declarations[e].generation <= generation

RetireEntry(c, e, generation) ==
    LET blocked == [c EXCEPT !.blocked[e] = IF @ < generation THEN generation ELSE @]
    IN  IF Retires(c, e, generation)
        THEN [blocked EXCEPT !.registry = UnregisterProvider(@, e),
                             !.declarations[e] = None]
        ELSE blocked

(* retire_plugin: both entries, its realms and its invocations.               *)
RetirePlugin(c, p, generation) ==
    LET entries == RetireEntry(RetireEntry(c, RendererEntry[p], generation),
                               HostEntry[p], generation)
        Goes(e) == e.plugin = p /\ e.generation <= generation
    IN  [entries EXCEPT !.renderers = {e \in @ : ~Goes(e)},
                        !.invocations = {i \in @ : ~Goes(i.endpoint)}]

SetHostState(c, p, generation, state) ==
    [c EXCEPT !.hosts[p] = [generation |-> generation, state |-> state]]

HostReady(c, p, generation) ==
    c.hosts[p] = [generation |-> generation, state |-> "active"]

-----------------------------------------------------------------------------
(* Target scopes.                                                             *)

Present(c, t) == c.targets[t].epoch # 0

TargetRoom(c, t) ==
    Present(c, t) \/ Cardinality({u \in Target : Present(c, u)}) < MAX_TARGETS

EnsureTarget(c, t) ==
    IF Present(c, t) THEN c
    ELSE [c EXCEPT !.registry = ActivateScope(@, t),
                   !.targets[t] = [epoch |-> AllocateEpoch(c.registry), document |-> None]]

(* The order in which several targets are retired: any, each its own epoch.   *)
Turns(T) == CHOOSE f \in [T -> 1 .. Cardinality(T)] : \A t, u \in T : f[t] = f[u] => t = u

(* Handles never leave the table without their flag going up.                 *)
RetireHandles(c, handles) ==
    [c EXCEPT !.handles = @ \ handles,
              !.cancelled = @ \cup {HandleFlag(h.id) : h \in handles}]

(* Present targets of T get a new epoch and lose their document.              *)
RenewScopes(c, T) ==
    LET gone == {t \in T : Present(c, t)}
        fresh == [t \in gone |-> c.registry.next_epoch + Turns(gone)[t]]
    IN  [c EXCEPT
           !.registry.active = [s \in Scope |-> IF s \in gone THEN fresh[s] ELSE @[s]],
           !.registry.next_epoch = @ + Cardinality(gone),
           !.targets = [t \in Target |->
               IF t \in gone THEN [epoch |-> fresh[t], document |-> None] ELSE @[t]]]

(* retire_target_document for each of them: nothing that was bound to the old *)
(* scope survives it.                                                         *)
RetireDocuments(c, T) ==
    LET gone == {t \in T : Present(c, t)}
    IN  [RetireHandles(RenewScopes(c, T), {h \in c.handles : h.target \in gone}) EXCEPT
           !.renderers = {e \in @ : EndpointTarget(e) \notin gone},
           !.invocations = {i \in @ : EndpointTarget(i.endpoint) \notin gone}]

DocumentKept(c, t, document) == FALSE

DocumentChanges(c, t, document) == c.targets[t].document \notin {None, document}

PublishDocument(c, t, document) ==
    LET retired == IF DocumentChanges(c, t, document) THEN RetireDocuments(c, {t}) ELSE c
    IN  IF TargetRoom(retired, t)
        THEN [EnsureTarget(retired, t) EXCEPT !.targets[t].document = document]
        ELSE retired

Publishes(c, e) ==
    /\ Registered(c.registry, RendererEntry[e.plugin])
    /\ c.registry.registrations[RendererEntry[e.plugin]].generation = e.generation

SameRealm(e, f) == EndpointTarget(e) = EndpointTarget(f) /\ e.plugin = f.plugin

(* publish_renderer of a registered generation.                               *)
PublishRenderer(c, e) ==
    LET published == PublishDocument(c, EndpointTarget(e), e.document)
    IN  IF TargetRoom(published, EndpointTarget(e))
        THEN [published EXCEPT !.renderers = {f \in @ : ~SameRealm(e, f)} \cup {e}]
        ELSE published

RetireRenderers(c, t, plugins) ==
    LET Goes(e) == EndpointTarget(e) = t /\ e.plugin \in plugins
    IN  [c EXCEPT !.renderers = {e \in @ : ~Goes(e)},
                  !.invocations = {i \in @ : ~Goes(i.endpoint)}]

-----------------------------------------------------------------------------
(* Raw sessions.                                                              *)

(* What would be wrong: the sessions being retired are not counted.           *)
AttachRoomIgnoringRetiring(c) ==
    Cardinality({s \in Session : c.raw_sessions[s] # None}) + c.reserved < MAX_RAW_SESSIONS

AttachRoom(c) ==
    Cardinality({s \in Session : c.raw_sessions[s] # None})
      + Cardinality({s \in Session : c.retiring[s] # None}) + c.reserved
    < MAX_RAW_SESSIONS

ReserveRawAttach(c) == [c EXCEPT !.reserved = @ + 1]

DropPermit(c) == [c EXCEPT !.reserved = @ - 1]

TracksAttach(c, s) == c.raw_sessions[s] = None /\ c.retiring[s] = None

TrackRawAttach(c, owner, s) ==
    [c EXCEPT !.reserved = @ - 1, !.raw_sessions[s] = owner]

Owns(c, owner, s) == c.raw_sessions[s] = owner

ForgetSessions(c, S) ==
    [c EXCEPT !.raw_sessions = [s \in Session |-> IF s \in S THEN None ELSE @[s]],
              !.retiring = [s \in Session |-> IF s \in S THEN None ELSE @[s]],
              !.cleanup = [o \in Owner |-> @[o] \ S]]

(* retire_session for every session of S: the session leaves every table, and *)
(* with it its handles and, for a managed session, its document.              *)
RetireSessions(c, S) ==
    LET ended == {t \in Target : /\ c.targets[t].document # None
                                 /\ c.targets[t].document.session \in S}
    IN  RetireDocuments(RetireHandles(ForgetSessions(c, S),
                                      {h \in c.handles : h.session \in S}), ended)

(* schedule_session_cleanup: the owner is asked to detach what it leaves.     *)
ScheduleCleanup(c, owner, S) ==
    [RetireSessions(c, S) EXCEPT
        !.retiring = [s \in Session |-> IF s \in S THEN owner ELSE @[s]],
        !.cleanup[owner] = @ \cup S]

RetireHostScopes(c, owner) ==
    ScheduleCleanup(c, owner, {s \in Session : Owns(c, owner, s)})

RetireLateAttachment(c, owner, s) ==
    IF Owns(c, owner, s) THEN ScheduleCleanup(c, owner, {s}) ELSE c

TakeCleanupSessions(c, owner) == [c EXCEPT !.cleanup[owner] = {}]

DestroyTargetOnly(c, t) == [RetireDocuments(c, {t}) EXCEPT !.targets[t] = NoTarget]

(* observe(Target.targetDestroyed)                                            *)
DestroyTarget(c, t) ==
    LET retired == RetireDocuments(c, {t})
        absent == [retired EXCEPT !.targets[t] = NoTarget,
                                  !.registry = DeactivateScope(@, t)]
    IN  RetireSessions(absent, {s \in Session : c.raw_sessions[s] # None /\ TargetOf[s] = t})

NavigationObserved(c, s) == c.raw_sessions[s] # None

(* observe(Page.frameNavigated): a managed document has another owner of its  *)
(* navigation.                                                                *)
NavigationRetires(c, s) ==
    /\ c.raw_sessions[s] # None
    /\ c.targets[TargetOf[s]].document = None

ObserveNavigation(c, s) ==
    IF NavigationRetires(c, s) THEN RetireDocuments(c, {TargetOf[s]}) ELSE c

-----------------------------------------------------------------------------
(* Handles, routes and invocations.                                           *)

(* issue_handle: the target scope is ensured before the identity is drawn.    *)
IssueHandle(c, owner, s) ==
    LET t == TargetOf[s]
        ensured == EnsureTarget(c, t)
        handle == [id |-> c.next_id + 1, owner |-> owner, session |-> s, target |-> t,
                   epoch |-> ensured.targets[t].epoch]
    IN  IF c.next_id = MaxId THEN ensured
        ELSE [ensured EXCEPT !.next_id = @ + 1, !.handles = @ \cup {handle}]

IssuesHandle(c, owner, s) ==
    /\ Owns(c, owner, s)
    /\ Cardinality(c.handles) < MAX_HANDLES
    /\ TargetRoom(c, TargetOf[s])

(* validate_lineage                                                           *)
ValidLineage(c, lineage) ==
    /\ lineage.flags \cap c.cancelled = {}
    /\ lineage.scope # Runtime => c.targets[lineage.scope].epoch = lineage.epoch

(* validate: the lineage, and the lease against the registry.                 *)
ValidRoute(c, route) ==
    /\ ValidLineage(c, route.lineage)
    /\ LeaseIsCurrent(c.registry, route.lease)

(* resolve: a consumer entry of this generation asks for a capability.        *)
Resolvable(c, entry, generation, lineage, d) ==
    LET principal == IssuePrincipal(c.registry, entry, generation, lineage.scope)
    IN  /\ ValidLineage(c, lineage)
        /\ IssuesPrincipal(c.registry, entry, generation, lineage.scope)
        /\ Resolves(c.registry, principal, d)

ResolveLease(c, entry, generation, lineage, d) ==
    ResolveCapability(c.registry, IssuePrincipal(c.registry, entry, generation,
                                                 lineage.scope), d)

BeginsInvocation(c, lineage) ==
    /\ ValidLineage(c, lineage)
    /\ Cardinality(c.invocations) < MAX_RENDERER_INVOCATIONS
    /\ c.next_id < MaxId

BeginInvocation(c, e, lineage) ==
    [c EXCEPT !.next_id = @ + 1,
              !.invocations = @ \cup {[id |-> c.next_id + 1, endpoint |-> e,
                                       lineage |-> lineage]}]

EndInvocation(c, id) == [c EXCEPT !.invocations = {i \in @ : i.id # id}]

(* What would be wrong: the flag that goes up takes the place of another      *)
(* call's.                                                                    *)
CancelOnly(c, flag) ==
    [c EXCEPT !.cancelled = {f \in @ : f[1] = "handle"} \cup {flag}]

Cancel(c, flag) == [c EXCEPT !.cancelled = @ \cup {flag}]
=============================================================================
