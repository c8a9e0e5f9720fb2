-------------------------- MODULE CapabilityRegistry --------------------------
(* The capability registry (src/capabilities.rs): which entry provides which  *)
(* capability, which scopes are active, and the leases that connect the two.  *)
(* Its methods are functions of the registry value, because its owners call   *)
(* several of them under one lock.  Names, APIs and grants are reduced to     *)
(* descriptors: a descriptor has a key (name and scope kind) and an api.      *)
EXTENDS Integers, FiniteSets

CONSTANTS
    Provider,          \* entry identities
    Descriptor,        \* capability descriptors
    Key,               \* capability keys
    KeyOf,             \* the key of each descriptor
    RuntimeKey,        \* keys of Runtime scope; the others are of Target scope
    Target,            \* browser targets, each a scope instance
    Runtime,           \* the Runtime scope instance
    None,              \* no provider
    MaxGeneration,
    MaxEpoch           \* u64::MAX, where allocate_epoch panics

Scope == Target \cup {Runtime}

Generation == 1 .. MaxGeneration

Epoch == 0 .. MaxEpoch

(* Epoch 0 marks an entry that is not registered and a scope that is not      *)
(* active; allocate_epoch starts at 1.                                        *)
Registration == [generation : 0 .. MaxGeneration, epoch : Epoch,
                 provides : SUBSET Descriptor, requires : SUBSET Descriptor]

Unregistered == [generation |-> 0, epoch |-> 0, provides |-> {}, requires |-> {}]

(* ProviderRecord: who provides a key, and which descriptor exactly.          *)
ProviderRecord == [id : Provider, generation : Generation, epoch : Epoch,
                   descriptor : Descriptor]

ASSUME RegistryConstants ==
    /\ KeyOf \in [Descriptor -> Key]
    /\ RuntimeKey \subseteq Key
    /\ Runtime \notin Target
    /\ None \notin Provider \cup ProviderRecord
    /\ MaxGeneration \in Nat
    /\ MaxEpoch \in Nat

Registry == [registrations : [Provider -> Registration],
             providers     : [Key -> ProviderRecord \cup {None}],
             active        : [Scope -> Epoch],
             next_epoch    : Epoch]

EmptyRegistry ==
    [registrations |-> [p \in Provider |-> Unregistered],
     providers     |-> [k \in Key |-> None],
     active        |-> [s \in Scope |-> 0],
     next_epoch    |-> 0]

Keys(descriptors) == {KeyOf[d] : d \in descriptors}

Registered(r, p) == r.registrations[p].epoch # 0

-----------------------------------------------------------------------------
(* allocate_epoch: every registration and every activation gets a number of   *)
(* its own.                                                                   *)
AllocateEpoch(r) == r.next_epoch + 1

(* register_provider refuses an id that is registered and a key that is       *)
(* declared twice or provided by another entry.                               *)
RegisterConflicts(r, p, provides) ==
    \/ Registered(r, p)
    \/ \E d, e \in provides : d # e /\ KeyOf[d] = KeyOf[e]
    \/ \E k \in Keys(provides) : r.providers[k] # None

RegisterProvider(r, p, generation, provides, requires) ==
    [r EXCEPT
       !.next_epoch = AllocateEpoch(r),
       !.providers = [k \in Key |->
           IF k \in Keys(provides)
           THEN [id |-> p, generation |-> generation, epoch |-> AllocateEpoch(r),
                 descriptor |-> CHOOSE d \in provides : KeyOf[d] = k]
           ELSE r.providers[k]],
       !.registrations[p] = [generation |-> generation, epoch |-> AllocateEpoch(r),
                             provides |-> provides, requires |-> requires]]

UnregisterKeepsProviders(r, p) == [r EXCEPT !.registrations[p] = Unregistered]

UnregisterProvider(r, p) ==
    [r EXCEPT
       !.providers = [k \in Key |->
           IF k \in Keys(r.registrations[p].provides) THEN None ELSE r.providers[k]],
       !.registrations[p] = Unregistered]

Active(r, s) == r.active[s] # 0

ActivateScope(r, s) ==
    [r EXCEPT !.next_epoch = AllocateEpoch(r), !.active[s] = AllocateEpoch(r)]

DeactivateScope(r, s) == [r EXCEPT !.active[s] = 0]

-----------------------------------------------------------------------------
(* Principals and leases.  A lease carries the facts of its principal too.    *)
Principal == [consumer : Provider, generation : Generation, registration : Epoch,
              scope : Scope, scopeEpoch : Epoch]

Lease == [owner : Principal, provider : Provider, providerGeneration : Generation,
          providerEpoch : Epoch, providerScope : Scope,
          providerScopeEpoch : Epoch, requirement : Descriptor]

IssuesPrincipal(r, p, generation, s) ==
    Registered(r, p) /\ r.registrations[p].generation = generation /\ Active(r, s)

IssuePrincipal(r, p, generation, s) ==
    [consumer |-> p, generation |-> generation,
     registration |-> r.registrations[p].epoch, scope |-> s, scopeEpoch |-> r.active[s]]

ProviderScope(s, d) == IF KeyOf[d] \in RuntimeKey THEN Runtime ELSE s

(* resolve_capability: the requirement is declared, its scope kind fits, and  *)
(* a provider has exactly this key and api.                                   *)
Resolves(r, principal, d) ==
    /\ d \in r.registrations[principal.consumer].requires
    /\ principal.scope = Runtime => KeyOf[d] \in RuntimeKey
    /\ Active(r, ProviderScope(principal.scope, d))
    /\ r.providers[KeyOf[d]] # None
    /\ r.providers[KeyOf[d]].descriptor = d

ResolveCapability(r, principal, d) ==
    [owner |-> principal,
     provider |-> r.providers[KeyOf[d]].id,
     providerGeneration |-> r.providers[KeyOf[d]].generation,
     providerEpoch |-> r.providers[KeyOf[d]].epoch,
     providerScope |-> ProviderScope(principal.scope, d),
     providerScopeEpoch |-> r.active[ProviderScope(principal.scope, d)],
     requirement |-> d]

PrincipalIsCurrent(r, principal) ==
    /\ r.active[principal.scope] = principal.scopeEpoch
    /\ r.registrations[principal.consumer].generation = principal.generation
    /\ r.registrations[principal.consumer].epoch = principal.registration

LeaseIgnoringRegistration(r, lease) ==
    /\ r.active[lease.owner.scope] = lease.owner.scopeEpoch
    /\ r.registrations[lease.owner.consumer].generation = lease.owner.generation
    /\ r.active[lease.providerScope] = lease.providerScopeEpoch
    /\ lease.requirement \in r.registrations[lease.owner.consumer].requires
    /\ r.providers[KeyOf[lease.requirement]] # None
    /\ r.providers[KeyOf[lease.requirement]].id = lease.provider
    /\ r.providers[KeyOf[lease.requirement]].descriptor = lease.requirement

LeaseIgnoringScope(r, lease) ==
    /\ r.registrations[lease.owner.consumer].epoch = lease.owner.registration
    /\ r.providers[KeyOf[lease.requirement]] # None
    /\ r.providers[KeyOf[lease.requirement]].epoch = lease.providerEpoch

(* lease_is_current with the principal that owns the lease: what invoke and   *)
(* invoke_endpoint check before every call.                                   *)
LeaseIsCurrent(r, lease) ==
    /\ PrincipalIsCurrent(r, lease.owner)
    /\ r.active[lease.providerScope] = lease.providerScopeEpoch
    /\ lease.requirement \in r.registrations[lease.owner.consumer].requires
    /\ r.providers[KeyOf[lease.requirement]] # None
    /\ r.providers[KeyOf[lease.requirement]].id = lease.provider
    /\ r.providers[KeyOf[lease.requirement]].generation = lease.providerGeneration
    /\ r.providers[KeyOf[lease.requirement]].epoch = lease.providerEpoch
    /\ r.providers[KeyOf[lease.requirement]].descriptor = lease.requirement
=============================================================================
