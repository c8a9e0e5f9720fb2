--------------------------- MODULE CapabilityLeases ---------------------------
(* The registry as its owners drive it: entries register and unregister,      *)
(* scopes come and go, and leases are resolved in any order.  A lease, once   *)
(* issued, stays in somebody's hands and may be presented at any later time.  *)
EXTENDS CapabilityRegistry

CONSTANT MaxLeases     \* bound on the leases remembered

ASSUME LeaseBound == MaxLeases \in Nat

VARIABLES registry, leases

rvars == <<registry, leases>>

Init ==
    /\ registry = EmptyRegistry
    /\ leases = {}

(* allocate_epoch panics rather than wrap.                                    *)
EpochLeft == registry.next_epoch < MaxEpoch

Register(p, generation, provides, requires) ==
    /\ EpochLeft
    /\ ~RegisterConflicts(registry, p, provides)
    /\ registry' = RegisterProvider(registry, p, generation, provides, requires)
    /\ UNCHANGED leases

Unregister(p) ==
    /\ Registered(registry, p)
    /\ registry' = UnregisterProvider(registry, p)
    /\ UNCHANGED leases

Activate(s) ==
    /\ EpochLeft
    /\ ~Active(registry, s)
    /\ registry' = ActivateScope(registry, s)
    /\ UNCHANGED leases

Deactivate(s) ==
    /\ Active(registry, s)
    /\ registry' = DeactivateScope(registry, s)
    /\ UNCHANGED leases

Resolve(p, generation, s, d) ==
    LET principal == IssuePrincipal(registry, p, generation, s)
    IN  /\ Cardinality(leases) < MaxLeases
        /\ IssuesPrincipal(registry, p, generation, s)
        /\ Resolves(registry, principal, d)
        /\ leases' = leases \cup {ResolveCapability(registry, principal, d)}
        /\ UNCHANGED registry

Next ==
    \/ \E p \in Provider, generation \in Generation,
          provides, requires \in SUBSET Descriptor :
              Register(p, generation, provides, requires)
    \/ \E p \in Provider : Unregister(p)
    \/ \E s \in Scope : Activate(s) \/ Deactivate(s)
    \/ \E p \in Provider, generation \in Generation, s \in Scope, d \in Descriptor :
              Resolve(p, generation, s, d)

Spec == Init /\ [][Next]_rvars

-----------------------------------------------------------------------------
(* The types of the registry and of the leases handed out.                    *)
TypeOK ==
    /\ registry \in Registry
    /\ leases \subseteq Lease

(* The key index and the registrations tell the same story: a key names the   *)
(* entry that is registered for it now, and every key an entry declares is in *)
(* the index (unregister_provider and register_provider keep two maps).       *)
ProvidersExact ==
    /\ \A k \in Key : registry.providers[k] # None =>
          LET record == registry.providers[k]
          IN  /\ Registered(registry, record.id)
              /\ registry.registrations[record.id].generation = record.generation
              /\ registry.registrations[record.id].epoch = record.epoch
              /\ record.descriptor \in registry.registrations[record.id].provides
              /\ KeyOf[record.descriptor] = k
    /\ \A p \in Provider : \A d \in registry.registrations[p].provides :
          registry.providers[KeyOf[d]] # None /\ registry.providers[KeyOf[d]].id = p

(* A usable lease is backed: both ends are registered and both scopes active. *)
CurrentLeaseBacked ==
    \A l \in leases : LeaseIsCurrent(registry, l) =>
        /\ Registered(registry, l.owner.consumer) /\ Registered(registry, l.provider)
        /\ l.requirement \in registry.registrations[l.provider].provides
        /\ Active(registry, l.owner.scope) /\ Active(registry, l.providerScope)

(* A lease that was ever refused is refused for ever, even when the same      *)
(* entry registers again with the same generation and capabilities and the    *)
(* same target is activated again (registration and scope epochs).            *)
StaleForever ==
    [][\A l \in leases : ~LeaseIsCurrent(registry, l) => ~LeaseIsCurrent(registry', l)]_rvars

(* The two maps of the registry agree, and a lease that still counts is       *)
(* backed by both of its ends (lease_is_current, unregister_provider).        *)
LeasesSound == ProvidersExact /\ CurrentLeaseBacked
=============================================================================
