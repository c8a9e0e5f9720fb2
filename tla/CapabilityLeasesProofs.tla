------------------------ MODULE CapabilityLeasesProofs ------------------------
(* Proofs about CapabilityLeases, for any entries, capabilities and scopes,   *)
(* and in the parts after it about JsProvision, ClientLaunch and              *)
(* CdpConnection, which share no state with it.                               *)
(* The key is that every epoch in use is at most next_epoch and not 0, so an  *)
(* epoch allocated later differs from every epoch a lease remembers.          *)
EXTENDS CapabilityLeases, JsProvision, ClientLaunch, CdpConnection, FiniteSetTheorems, SequenceTheorems, TLAPS

(* Every epoch of the registry has been allocated.                            *)
EpochsAllocated ==
    /\ \A p \in Provider : registry.registrations[p].epoch <= registry.next_epoch
    /\ \A s \in Scope : registry.active[s] <= registry.next_epoch

(* Every epoch a lease remembers has been allocated and is a real one.        *)
LeaseEpochs ==
    \A l \in leases :
        /\ l.owner.registration \in 1 .. registry.next_epoch
        /\ l.owner.scopeEpoch \in 1 .. registry.next_epoch
        /\ l.providerEpoch \in 1 .. registry.next_epoch
        /\ l.providerScopeEpoch \in 1 .. registry.next_epoch

IInv == TypeOK /\ EpochsAllocated /\ LeaseEpochs /\ ProvidersExact

-----------------------------------------------------------------------------
(* A registration gives the registry its type again.                          *)
LEMMA RegisterType ==
    ASSUME TypeOK, NEW p \in Provider, NEW generation \in Generation,
           NEW provides \in SUBSET Descriptor, NEW requires \in SUBSET Descriptor,
           Register(p, generation, provides, requires)
    PROVE  registry' \in Registry
<1> DEFINE e == AllocateEpoch(registry)
<1>1. e \in Epoch
  BY RegistryConstants DEF TypeOK, Registry, Register, EpochLeft, AllocateEpoch, Epoch
<1>2. \A k \in Keys(provides) : (CHOOSE d \in provides : KeyOf[d] = k) \in Descriptor
  BY DEF Keys
<1> DEFINE rec(k) == [id |-> p, generation |-> generation, epoch |-> e,
                      descriptor |-> CHOOSE d \in provides : KeyOf[d] = k]
<1>3. \A k \in Keys(provides) : rec(k) \in ProviderRecord
  BY <1>1, <1>2 DEF ProviderRecord
<1> DEFINE provs == [k \in Key |-> IF k \in Keys(provides) THEN rec(k) ELSE registry.providers[k]]
<1>4. provs \in [Key -> ProviderRecord \cup {None}]
  BY <1>3 DEF TypeOK, Registry
<1> DEFINE reg == [generation |-> generation, epoch |-> e, provides |-> provides, requires |-> requires]
<1>5. reg \in Registration
  BY <1>1, RegistryConstants DEF Registration, Generation
<1>6. registry' = [registry EXCEPT !.next_epoch = e, !.providers = provs,
                                   !.registrations[p] = reg]
  BY DEF Register, RegisterProvider
<1> HIDE DEF e, provs, reg
<1> QED
  BY <1>1, <1>4, <1>5, <1>6 DEF TypeOK, Registry

(* Every step keeps the types.                                                *)
LEMMA TypeStep == TypeOK /\ [Next]_rvars => TypeOK'
<1> SUFFICES ASSUME TypeOK, [Next]_rvars PROVE TypeOK'
  OBVIOUS
<1>1. ASSUME NEW p \in Provider, NEW generation \in Generation,
             NEW provides \in SUBSET Descriptor, NEW requires \in SUBSET Descriptor,
             Register(p, generation, provides, requires)
      PROVE  TypeOK'
  BY <1>1, RegisterType DEF Register, TypeOK
<1>2. ASSUME NEW p \in Provider, Unregister(p) PROVE TypeOK'
  <2>1. Unregistered \in Registration
    BY RegistryConstants DEF Unregistered, Registration, Epoch
  <2>2. [k \in Key |-> IF k \in Keys(registry.registrations[p].provides)
                       THEN None ELSE registry.providers[k]]
            \in [Key -> ProviderRecord \cup {None}]
    BY DEF TypeOK, Registry
  <2>3. registry' \in Registry
    BY <1>2, <2>1, <2>2 DEF Unregister, UnregisterProvider, TypeOK, Registry
  <2> QED
    BY <1>2, <2>3 DEF Unregister, TypeOK
<1>3. ASSUME NEW s \in Scope, Activate(s) PROVE TypeOK'
  <2>1. AllocateEpoch(registry) \in Epoch
    BY <1>3, RegistryConstants DEF TypeOK, Registry, Activate, EpochLeft, AllocateEpoch, Epoch
  <2> QED
    BY <1>3, <2>1 DEF Activate, ActivateScope, TypeOK, Registry
<1>4. ASSUME NEW s \in Scope, Deactivate(s) PROVE TypeOK'
  <2>1. 0 \in Epoch
    BY RegistryConstants DEF Epoch
  <2> QED
    BY <1>4, <2>1 DEF Deactivate, DeactivateScope, TypeOK, Registry
<1>5. ASSUME NEW p \in Provider, NEW generation \in Generation, NEW s \in Scope,
             NEW d \in Descriptor, Resolve(p, generation, s, d)
      PROVE  TypeOK'
  <2> DEFINE principal == IssuePrincipal(registry, p, generation, s)
  <2>1. principal \in Principal
    BY DEF IssuePrincipal, Principal, TypeOK, Registry, Registration
  <2>2. ProviderScope(s, d) \in Scope
    BY DEF ProviderScope, Scope
  <2>3. principal.scope = s
    BY DEF IssuePrincipal
  <2>4. KeyOf[d] \in Key /\ registry.providers[KeyOf[d]] \in ProviderRecord
    BY <1>5, RegistryConstants DEF Resolve, Resolves, TypeOK, Registry
  <2> HIDE DEF principal
  <2>5. ResolveCapability(registry, principal, d) \in Lease
    BY <2>1, <2>2, <2>3, <2>4 DEF ResolveCapability, Lease, ProviderRecord, TypeOK, Registry
  <2> QED
    BY <1>5, <2>5 DEF Resolve, TypeOK, principal
<1>6. CASE UNCHANGED rvars
  BY <1>6 DEF rvars, TypeOK
<1> QED
  BY <1>1, <1>2, <1>3, <1>4, <1>5, <1>6 DEF Next

(* Epochs stay allocated, and leases remember real ones.                      *)
LEMMA EpochStep ==
    ASSUME TypeOK, EpochsAllocated, LeaseEpochs, ProvidersExact, [Next]_rvars
    PROVE  EpochsAllocated' /\ LeaseEpochs'
<1>0. registry.next_epoch \in Nat
  BY DEF TypeOK, Registry, Epoch
<1>1. ASSUME NEW p \in Provider, NEW generation \in Generation,
             NEW provides \in SUBSET Descriptor, NEW requires \in SUBSET Descriptor,
             Register(p, generation, provides, requires)
      PROVE  EpochsAllocated' /\ LeaseEpochs'
  <2>1. /\ registry'.next_epoch = registry.next_epoch + 1
        /\ registry'.active = registry.active
        /\ leases' = leases
    BY <1>1 DEF Register, RegisterProvider, AllocateEpoch, TypeOK, Registry
  <2>2. \A q \in Provider : registry'.registrations[q].epoch =
            IF q = p THEN registry.next_epoch + 1 ELSE registry.registrations[q].epoch
    BY <1>1 DEF Register, RegisterProvider, AllocateEpoch, TypeOK, Registry
  <2>3. \A q \in Provider : registry.registrations[q].epoch \in Nat
    BY DEF TypeOK, Registry, Registration, Epoch
  <2>4. \A s \in Scope : registry.active[s] \in Nat
    BY DEF TypeOK, Registry, Epoch
  <2>5. EpochsAllocated'
    BY <1>0, <2>1, <2>2, <2>3, <2>4 DEF EpochsAllocated
  <2>6. LeaseEpochs'
    BY <1>0, <2>1 DEF LeaseEpochs
  <2> QED
    BY <2>5, <2>6
<1>2. ASSUME NEW p \in Provider, Unregister(p) PROVE EpochsAllocated' /\ LeaseEpochs'
  <2>1. /\ registry'.next_epoch = registry.next_epoch
        /\ registry'.active = registry.active
        /\ leases' = leases
    BY <1>2 DEF Unregister, UnregisterProvider, TypeOK, Registry
  <2>2. \A q \in Provider : registry'.registrations[q].epoch =
            IF q = p THEN 0 ELSE registry.registrations[q].epoch
    BY <1>2 DEF Unregister, UnregisterProvider, Unregistered, TypeOK, Registry
  <2> QED
    BY <1>0, <2>1, <2>2 DEF EpochsAllocated, LeaseEpochs
<1>3. ASSUME NEW s \in Scope, Activate(s) PROVE EpochsAllocated' /\ LeaseEpochs'
  <2>1. /\ registry'.next_epoch = registry.next_epoch + 1
        /\ registry'.registrations = registry.registrations
        /\ leases' = leases
    BY <1>3 DEF Activate, ActivateScope, AllocateEpoch, TypeOK, Registry
  <2>2. \A x \in Scope : registry'.active[x] =
            IF x = s THEN registry.next_epoch + 1 ELSE registry.active[x]
    BY <1>3 DEF Activate, ActivateScope, AllocateEpoch, TypeOK, Registry
  <2>3. \A q \in Provider : registry.registrations[q].epoch \in Nat
    BY DEF TypeOK, Registry, Registration, Epoch
  <2>4. \A x \in Scope : registry.active[x] \in Nat
    BY DEF TypeOK, Registry, Epoch
  <2> QED
    BY <1>0, <2>1, <2>2, <2>3, <2>4 DEF EpochsAllocated, LeaseEpochs
<1>4. ASSUME NEW s \in Scope, Deactivate(s) PROVE EpochsAllocated' /\ LeaseEpochs'
  <2>1. /\ registry'.next_epoch = registry.next_epoch
        /\ registry'.registrations = registry.registrations
        /\ leases' = leases
    BY <1>4 DEF Deactivate, DeactivateScope, TypeOK, Registry
  <2>2. \A x \in Scope : registry'.active[x] = IF x = s THEN 0 ELSE registry.active[x]
    BY <1>4 DEF Deactivate, DeactivateScope, TypeOK, Registry
  <2> QED
    BY <1>0, <2>1, <2>2 DEF EpochsAllocated, LeaseEpochs
<1>5. ASSUME NEW p \in Provider, NEW generation \in Generation, NEW s \in Scope,
             NEW d \in Descriptor, Resolve(p, generation, s, d)
      PROVE  EpochsAllocated' /\ LeaseEpochs'
  <2> DEFINE principal == IssuePrincipal(registry, p, generation, s)
             lease == ResolveCapability(registry, principal, d)
             record == registry.providers[KeyOf[d]]
             scope == ProviderScope(s, d)
  <2>1. scope \in Scope
    BY DEF ProviderScope, Scope
  <2>2. KeyOf[d] \in Key /\ record # None
    BY <1>5, RegistryConstants DEF Resolve, Resolves
  <2>3. record \in ProviderRecord
    BY <2>2 DEF TypeOK, Registry
  <2>4. /\ lease.owner.registration = registry.registrations[p].epoch
        /\ lease.owner.scopeEpoch = registry.active[s]
        /\ lease.providerEpoch = record.epoch
        /\ lease.providerScopeEpoch = registry.active[scope]
    BY DEF ResolveCapability, IssuePrincipal
  <2>5. registry.registrations[p].epoch # 0 /\ registry.active[s] # 0
    BY <1>5 DEF Resolve, IssuesPrincipal, Registered, Active
  <2>6. registry.active[scope] # 0
    BY <1>5 DEF Resolve, Resolves, IssuePrincipal, Active
  <2>7. /\ record.epoch # 0 /\ record.epoch = registry.registrations[record.id].epoch
        /\ record.id \in Provider
    BY <2>2, <2>3 DEF ProvidersExact, Registered, ProviderRecord
  <2>8. \A q \in Provider : registry.registrations[q].epoch \in Nat
    BY DEF TypeOK, Registry, Registration, Epoch
  <2>9. \A x \in Scope : registry.active[x] \in Nat
    BY DEF TypeOK, Registry, Epoch
  <2>10. registry' = registry /\ leases' = leases \cup {lease}
    BY <1>5 DEF Resolve
  <2> HIDE DEF lease, record, scope, principal
  <2>11. /\ lease.owner.registration \in 1 .. registry.next_epoch
         /\ lease.owner.scopeEpoch \in 1 .. registry.next_epoch
         /\ lease.providerEpoch \in 1 .. registry.next_epoch
         /\ lease.providerScopeEpoch \in 1 .. registry.next_epoch
    BY <1>0, <2>1, <2>4, <2>5, <2>6, <2>7, <2>8, <2>9 DEF EpochsAllocated
  <2> QED
    BY <2>10, <2>11 DEF EpochsAllocated, LeaseEpochs
<1>6. CASE UNCHANGED rvars
  BY <1>6 DEF rvars, EpochsAllocated, LeaseEpochs
<1> QED
  BY <1>1, <1>2, <1>3, <1>4, <1>5, <1>6 DEF Next

(* The key index keeps matching the registrations.                            *)
LEMMA ProvidersStep ==
    ASSUME TypeOK, ProvidersExact, [Next]_rvars
    PROVE  ProvidersExact'
<1>1. ASSUME NEW p \in Provider, NEW generation \in Generation,
             NEW provides \in SUBSET Descriptor, NEW requires \in SUBSET Descriptor,
             Register(p, generation, provides, requires)
      PROVE  ProvidersExact'
  <2> DEFINE e == registry.next_epoch + 1
             chosen == [k \in Key |-> CHOOSE d \in provides : KeyOf[d] = k]
  <2>1. \A q \in Provider : registry'.registrations[q] =
            IF q = p THEN [generation |-> generation, epoch |-> e,
                           provides |-> provides, requires |-> requires]
            ELSE registry.registrations[q]
    BY <1>1 DEF Register, RegisterProvider, AllocateEpoch, TypeOK, Registry
  <2>2. \A k \in Key : registry'.providers[k] =
            IF k \in Keys(provides)
            THEN [id |-> p, generation |-> generation, epoch |-> e, descriptor |-> chosen[k]]
            ELSE registry.providers[k]
    BY <1>1 DEF Register, RegisterProvider, AllocateEpoch, TypeOK, Registry
  <2>3. \A k \in Keys(provides) :
            k \in Key /\ chosen[k] \in provides /\ KeyOf[chosen[k]] = k
    BY RegistryConstants DEF Keys
  <2>4. /\ registry.registrations[p].epoch = 0
        /\ \A k \in Keys(provides) : registry.providers[k] = None
    BY <1>1 DEF Register, RegisterConflicts, Registered
  <2>5. e # 0
    BY DEF TypeOK, Registry, Epoch
  <2>6. \A k \in Key : registry.providers[k] # None =>
            registry.providers[k].id \in Provider /\ registry.providers[k].id # p
    <3> TAKE k \in Key
    <3> HAVE registry.providers[k] # None
    <3>1. registry.providers[k] \in ProviderRecord
      BY DEF TypeOK, Registry
    <3> QED
      BY <2>4, <3>1 DEF ProvidersExact, Registered, ProviderRecord
  <2>7. \A k \in Keys(provides) : [id |-> p, generation |-> generation, epoch |-> e,
                                   descriptor |-> chosen[k]] # None
    <3>1. e \in Epoch
      BY <1>1, RegistryConstants DEF Register, EpochLeft, TypeOK, Registry, Epoch
    <3>2. \A k \in Keys(provides) : chosen[k] \in Descriptor
      BY <2>3
    <3> HIDE DEF chosen, e
    <3> QED
      BY <3>1, <3>2, RegistryConstants DEF ProviderRecord
  <2> HIDE DEF chosen, e
  <2>8. ASSUME NEW k \in Key, registry'.providers[k] # None
        PROVE  LET record == registry'.providers[k]
               IN  /\ registry'.registrations[record.id].epoch # 0
                   /\ registry'.registrations[record.id].generation = record.generation
                   /\ registry'.registrations[record.id].epoch = record.epoch
                   /\ record.descriptor \in registry'.registrations[record.id].provides
                   /\ KeyOf[record.descriptor] = k
    <3>1. CASE k \in Keys(provides)
      <4> DEFINE record == registry'.providers[k]
      <4>0. record = [id |-> p, generation |-> generation, epoch |-> e,
                      descriptor |-> chosen[k]]
        BY <2>2, <3>1
      <4> HIDE DEF record
      <4>1. /\ record.id = p /\ record.generation = generation /\ record.epoch = e
            /\ record.descriptor = chosen[k]
        BY <4>0
      <4>2. registry'.registrations[p] = [generation |-> generation, epoch |-> e,
                                          provides |-> provides, requires |-> requires]
        BY <2>1
      <4> QED
        BY <2>3, <2>5, <3>1, <4>1, <4>2 DEF record
    <3>2. CASE k \notin Keys(provides)
      <4>1. registry'.providers[k] = registry.providers[k] /\ registry.providers[k] # None
        BY <2>2, <2>8, <3>2
      <4>2. registry'.registrations[registry.providers[k].id]
                = registry.registrations[registry.providers[k].id]
        BY <2>1, <2>6, <4>1
      <4> QED
        BY <4>1, <4>2 DEF ProvidersExact, Registered
    <3> QED
      BY <3>1, <3>2
  <2>9. ASSUME NEW q \in Provider, NEW d \in registry'.registrations[q].provides
        PROVE  registry'.providers[KeyOf[d]] # None /\ registry'.providers[KeyOf[d]].id = q
    <3>1. CASE q = p
      <4>1. d \in provides /\ KeyOf[d] \in Keys(provides) /\ KeyOf[d] \in Key
        BY <2>1, <2>9, <3>1, RegistryConstants DEF Keys
      <4>2. registry'.providers[KeyOf[d]] =
                [id |-> p, generation |-> generation, epoch |-> e,
                 descriptor |-> chosen[KeyOf[d]]]
        BY <2>2, <4>1
      <4>3. [id |-> p, generation |-> generation, epoch |-> e,
             descriptor |-> chosen[KeyOf[d]]] # None
        BY <2>7, <4>1
      <4> QED
        BY <3>1, <4>2, <4>3
    <3>2. CASE q # p
      <4>1. d \in registry.registrations[q].provides
        BY <2>1, <2>9, <3>2
      <4>2. KeyOf[d] \in Key
        BY <4>1, RegistryConstants DEF TypeOK, Registry, Registration
      <4>3. registry.providers[KeyOf[d]] # None /\ registry.providers[KeyOf[d]].id = q
        BY <4>1 DEF ProvidersExact
      <4>4. registry'.providers[KeyOf[d]] = registry.providers[KeyOf[d]]
        BY <2>2, <2>4, <4>2, <4>3
      <4> QED
        BY <4>3, <4>4
    <3> QED
      BY <3>1, <3>2
  <2> QED
    BY <2>8, <2>9 DEF ProvidersExact, Registered
<1>2. ASSUME NEW p \in Provider, Unregister(p) PROVE ProvidersExact'
  <2>1. \A q \in Provider : registry'.registrations[q] =
            IF q = p THEN Unregistered ELSE registry.registrations[q]
    BY <1>2 DEF Unregister, UnregisterProvider, TypeOK, Registry
  <2>2. \A k \in Key : registry'.providers[k] =
            IF k \in Keys(registry.registrations[p].provides) THEN None
            ELSE registry.providers[k]
    BY <1>2 DEF Unregister, UnregisterProvider, TypeOK, Registry
  <2>3. ASSUME NEW k \in Key, registry'.providers[k] # None
        PROVE  /\ registry'.providers[k] = registry.providers[k]
               /\ registry.providers[k].id \in Provider
               /\ registry.providers[k].id # p
    <3>1. registry'.providers[k] = registry.providers[k]
      BY <2>2, <2>3
    <3>2. registry.providers[k] \in ProviderRecord
      BY <2>3, <3>1 DEF TypeOK, Registry
    <3>3. /\ registry.providers[k].descriptor \in
                 registry.registrations[registry.providers[k].id].provides
          /\ KeyOf[registry.providers[k].descriptor] = k
      BY <2>3, <3>1 DEF ProvidersExact
    <3> QED
      BY <2>2, <2>3, <3>1, <3>2, <3>3 DEF ProviderRecord, Keys
  <2>4. ASSUME NEW q \in Provider, NEW d \in registry'.registrations[q].provides
        PROVE  registry'.providers[KeyOf[d]] # None /\ registry'.providers[KeyOf[d]].id = q
    <3>1. q # p /\ d \in registry.registrations[q].provides
      BY <2>1, <2>4 DEF Unregistered
    <3>2. KeyOf[d] \in Key
      BY <3>1, RegistryConstants DEF TypeOK, Registry, Registration
    <3>3. registry.providers[KeyOf[d]] # None /\ registry.providers[KeyOf[d]].id = q
      BY <3>1 DEF ProvidersExact
    <3>4. KeyOf[d] \notin Keys(registry.registrations[p].provides)
      BY <3>1, <3>3 DEF ProvidersExact, Keys
    <3> QED
      BY <2>2, <3>2, <3>3, <3>4
  <2>5. ASSUME NEW k \in Key, registry'.providers[k] # None
        PROVE  LET record == registry'.providers[k]
               IN  /\ registry'.registrations[record.id].epoch # 0
                   /\ registry'.registrations[record.id].generation = record.generation
                   /\ registry'.registrations[record.id].epoch = record.epoch
                   /\ record.descriptor \in registry'.registrations[record.id].provides
                   /\ KeyOf[record.descriptor] = k
    <3>1. /\ registry'.providers[k] = registry.providers[k]
          /\ registry.providers[k].id \in Provider
          /\ registry.providers[k].id # p
      BY <2>3, <2>5
    <3>2. registry'.registrations[registry.providers[k].id]
              = registry.registrations[registry.providers[k].id]
      BY <2>1, <3>1
    <3> QED
      BY <2>5, <3>1, <3>2 DEF ProvidersExact, Registered
  <2> QED
    BY <2>4, <2>5 DEF ProvidersExact, Registered
<1>3. ASSUME NEW s \in Scope, Activate(s) \/ Deactivate(s) PROVE ProvidersExact'
  <2>1. /\ registry'.registrations = registry.registrations
        /\ registry'.providers = registry.providers
    BY <1>3 DEF Activate, ActivateScope, Deactivate, DeactivateScope, TypeOK, Registry
  <2> QED
    BY <2>1 DEF ProvidersExact, Registered
<1>4. ASSUME registry' = registry PROVE ProvidersExact'
  BY <1>4 DEF ProvidersExact, Registered
<1>5. ASSUME NEW p \in Provider, NEW generation \in Generation, NEW s \in Scope,
             NEW d \in Descriptor, Resolve(p, generation, s, d)
      PROVE  registry' = registry
  BY <1>5 DEF Resolve
<1> QED
  BY <1>1, <1>2, <1>3, <1>4, <1>5 DEF Next, rvars

-----------------------------------------------------------------------------
(* The invariant holds in the empty registry.                                 *)
LEMMA InvInit == Init => IInv
<1> SUFFICES ASSUME Init PROVE IInv
  OBVIOUS
<1>1. EmptyRegistry \in Registry
  BY RegistryConstants DEF EmptyRegistry, Registry, Unregistered, Registration, Epoch
<1>2. TypeOK
  BY <1>1 DEF Init, TypeOK
<1>3. EpochsAllocated /\ LeaseEpochs
  BY DEF Init, EmptyRegistry, Unregistered, EpochsAllocated, LeaseEpochs
<1>4. ProvidersExact
  BY DEF Init, EmptyRegistry, Unregistered, ProvidersExact
<1> QED
  BY <1>2, <1>3, <1>4 DEF IInv

(* Every step preserves the invariant.                                        *)
LEMMA InvStep == IInv /\ [Next]_rvars => IInv'
  BY TypeStep, EpochStep, ProvidersStep DEF IInv

(* The inductive invariant holds in every reachable state.                    *)
THEOREM Invariance == Spec => []IInv
  BY InvInit, InvStep, PTL DEF Spec

(* Every registry and every lease has its type.                               *)
THEOREM TypeCorrect == Spec => []TypeOK
<1>1. IInv => TypeOK
  BY DEF IInv
<1> QED
  BY <1>1, Invariance, PTL

(* The key index matches the registrations in every reachable state.          *)
THEOREM IndexIsExact == Spec => []ProvidersExact
<1>1. IInv => ProvidersExact
  BY DEF IInv
<1> QED
  BY <1>1, Invariance, PTL

(* Whatever lease invoke accepts has two registered ends and active scopes.   *)
THEOREM AcceptedLeaseIsBacked == Spec => []CurrentLeaseBacked
<1>1. IInv => CurrentLeaseBacked
  <2> SUFFICES ASSUME IInv, NEW l \in leases, LeaseIsCurrent(registry, l)
               PROVE  /\ Registered(registry, l.owner.consumer)
                      /\ Registered(registry, l.provider)
                      /\ l.requirement \in registry.registrations[l.provider].provides
                      /\ Active(registry, l.owner.scope) /\ Active(registry, l.providerScope)
    BY DEF CurrentLeaseBacked
  <2>1. l \in Lease
    BY DEF IInv, TypeOK
  <2>2. KeyOf[l.requirement] \in Key
    BY <2>1, RegistryConstants DEF Lease
  <2>3. /\ l.owner.registration # 0 /\ l.owner.scopeEpoch # 0
        /\ l.providerEpoch # 0 /\ l.providerScopeEpoch # 0
    BY DEF IInv, LeaseEpochs
  <2> QED
    BY <2>2, <2>3 DEF IInv, ProvidersExact, LeaseIsCurrent, PrincipalIsCurrent, Registered, Active
<1> QED
  BY <1>1, Invariance, PTL

(* No step makes a refused lease usable: what a step writes carries an epoch  *)
(* beyond every epoch a lease remembers, or none.                             *)
LEMMA StaleStep ==
    ASSUME IInv, [Next]_rvars, NEW l \in leases, LeaseIsCurrent(registry', l)
    PROVE  LeaseIsCurrent(registry, l)
<1>0. /\ l \in Lease
      /\ l.owner \in Principal
      /\ KeyOf[l.requirement] \in Key
  BY RegistryConstants DEF IInv, TypeOK, Lease
<1>1. /\ l.owner.registration # 0 /\ l.owner.registration # registry.next_epoch + 1
      /\ l.owner.scopeEpoch # 0 /\ l.owner.scopeEpoch # registry.next_epoch + 1
      /\ l.providerEpoch # registry.next_epoch + 1
      /\ l.providerScopeEpoch # 0 /\ l.providerScopeEpoch # registry.next_epoch + 1
  BY DEF IInv, LeaseEpochs, TypeOK, Registry, Epoch
<1>2. /\ registry'.registrations[l.owner.consumer] = registry.registrations[l.owner.consumer]
      /\ registry'.providers[KeyOf[l.requirement]] = registry.providers[KeyOf[l.requirement]]
      /\ registry'.active[l.owner.scope] = registry.active[l.owner.scope]
      /\ registry'.active[l.providerScope] = registry.active[l.providerScope]
  <2>1. ASSUME NEW p \in Provider, NEW generation \in Generation,
               NEW provides \in SUBSET Descriptor, NEW requires \in SUBSET Descriptor,
               Register(p, generation, provides, requires)
        PROVE  <1>2!:
    <3>1. registry'.active = registry.active
      BY <2>1 DEF Register, RegisterProvider, IInv, TypeOK, Registry
    <3>2. \A q \in Provider : q # p => registry'.registrations[q] = registry.registrations[q]
      BY <2>1 DEF Register, RegisterProvider, IInv, TypeOK, Registry
    <3>3. registry'.registrations[p].epoch = registry.next_epoch + 1
      BY <2>1 DEF Register, RegisterProvider, AllocateEpoch, IInv, TypeOK, Registry
    <3>4. \A k \in Key : IF k \in Keys(provides)
                         THEN registry'.providers[k].epoch = registry.next_epoch + 1
                         ELSE registry'.providers[k] = registry.providers[k]
      BY <2>1 DEF Register, RegisterProvider, AllocateEpoch, IInv, TypeOK, Registry
    <3> QED
      BY <1>0, <1>1, <3>1, <3>2, <3>3, <3>4 DEF LeaseIsCurrent, PrincipalIsCurrent, Principal
  <2>2. ASSUME NEW p \in Provider, Unregister(p) PROVE <1>2!:
    <3>1. registry'.active = registry.active
      BY <2>2 DEF Unregister, UnregisterProvider, IInv, TypeOK, Registry
    <3>2. \A q \in Provider : registry'.registrations[q] =
              IF q = p THEN Unregistered ELSE registry.registrations[q]
      BY <2>2 DEF Unregister, UnregisterProvider, IInv, TypeOK, Registry
    <3>3. \A k \in Key : registry'.providers[k] \in {None, registry.providers[k]}
      BY <2>2 DEF Unregister, UnregisterProvider, IInv, TypeOK, Registry
    <3> QED
      BY <1>0, <1>1, <3>1, <3>2, <3>3
         DEF LeaseIsCurrent, PrincipalIsCurrent, Principal, Unregistered
  <2>3. ASSUME NEW s \in Scope, Activate(s) \/ Deactivate(s) PROVE <1>2!:
    <3>1. /\ registry'.registrations = registry.registrations
          /\ registry'.providers = registry.providers
      BY <2>3 DEF Activate, ActivateScope, Deactivate, DeactivateScope, IInv, TypeOK, Registry
    <3>2. \A x \in Scope : x # s => registry'.active[x] = registry.active[x]
      BY <2>3 DEF Activate, ActivateScope, Deactivate, DeactivateScope, IInv, TypeOK, Registry
    <3>3. registry'.active[s] \in {0, registry.next_epoch + 1}
      BY <2>3 DEF Activate, ActivateScope, Deactivate, DeactivateScope, AllocateEpoch,
                  IInv, TypeOK, Registry
    <3> QED
      BY <1>0, <1>1, <3>1, <3>2, <3>3 DEF LeaseIsCurrent, PrincipalIsCurrent, Principal, Lease
  <2>4. ASSUME NEW p \in Provider, NEW generation \in Generation, NEW s \in Scope,
               NEW d \in Descriptor, Resolve(p, generation, s, d)
        PROVE  <1>2!:
    BY <2>4 DEF Resolve
  <2>5. CASE UNCHANGED rvars
    BY <2>5 DEF rvars
  <2> QED
    BY <2>1, <2>2, <2>3, <2>4, <2>5 DEF Next
<1> QED
  BY <1>2 DEF LeaseIsCurrent, PrincipalIsCurrent

(* A refused lease is refused for ever, in every behaviour of the registry.   *)
THEOREM RefusedForEver == Spec => StaleForever
<1>1. IInv /\ [Next]_rvars =>
        [\A l \in leases : ~LeaseIsCurrent(registry, l) => ~LeaseIsCurrent(registry', l)]_rvars
  BY StaleStep
<1> QED
  BY <1>1, Invariance, PTL DEF Spec, StaleForever

(* The index agrees with the registrations and no accepted lease outlives     *)
(* what it stands for, for any entries, capabilities, targets and epochs      *)
(* (CapabilityRegistry::register_provider, unregister_provider,               *)
(* lease_is_current).                                                         *)
THEOREM LeasesAreSound == Spec => []LeasesSound
<1>1. ProvidersExact /\ CurrentLeaseBacked => LeasesSound
  BY DEF LeasesSound
<1> QED
  BY <1>1, IndexIsExact, AcceptedLeaseIsBacked, PTL

-----------------------------------------------------------------------------
(* The cache of provisioned Node runtimes.                                   *)

(* The stations of a process that works on a preparation of its own, ...     *)
JsSteps == Steps \cup {"retry"}
(* ... and those at which it holds the lock of its digest.                   *)
JsLocked == JsSteps \cup {"clean", "removing", "existing", "gc"}

(* The types of what a process does and of a directory of the cache root.    *)
JsDoing == [at : JsLocked \cup {"idle", "lock", "prune"}, cand : Nat,
            purpose : {Free, "reuse", "prepare", "sweep", "failed"}, digest : Digests \cup {Free},
            dir : DirIds \cup {0}, source : {Free, "client", "mirror", "official"}, attempt : Nat]

(* One directory of the cache root: its name, its digest and what it holds.  *)
JsDir == [name : {"none", "prepare", "cache", "gc"}, digest : Digests \cup {Free},
          files : SUBSET (WholeCopy \cup {"preparing", "archive"}), good : BOOLEAN]

(* The types of the cache root, of its locks and of the processes.           *)
JsTypes ==
  /\ dirs \in [DirIds -> JsDir]
  /\ cacheLock \in [Digests -> Cores \cup {Free}]
  /\ owner_core \in [Cores -> JsDoing]
  /\ held \in [Cores -> SUBSET DirIds]
  /\ deaths \in 0..MaxDeaths

(* What a directory must hold for the name it has: a published cache is      *)
(* whole and checked; one being removed loses its marker last.               *)
JsDirOk(r) ==
  /\ r.name = "none" => r = NoDir
  /\ r.name # "none" => r.digest \in Digests
  /\ r.name = "cache" => r.files = WholeCopy /\ r.good
  /\ r.name = "gc" => r.files \subseteq WholeCopy /\ (r.files # {} => "marker" \in r.files)

(* One cache per digest, and a directory a runner holds open is a cache.     *)
JsDirsOk ==
  /\ \A i \in DirIds : JsDirOk(dirs[i])
  /\ \A i, j \in DirIds :
        dirs[i].name = "cache" /\ dirs[j].name = "cache" /\ dirs[i].digest = dirs[j].digest => i = j
  /\ \A p \in Cores : \A i \in held[p] : dirs[i].name = "cache"

(* How far the content of a preparation must be at each station of the       *)
(* process that fills it (prepare_cache).                                    *)
JsProgress(at, r) ==
  /\ at = "new" => r.files = {} /\ r.good
  /\ at = "download" => r.files = {"preparing"}
  /\ at = "retry" => {"preparing"} \subseteq r.files /\ r.files \subseteq {"preparing", "archive"}
  /\ at = "fill" => {"preparing"} \subseteq r.files /\ r.files \subseteq {"preparing", "archive", "node", "license"}
  /\ at = "check" => r.files = {"preparing", "node", "license"}
  /\ at = "mark" => r.files = {"preparing", "node", "license"} /\ r.good
  /\ at = "unmark" => r.files = WholeCopy \cup {"preparing"} /\ r.good
  /\ at = "publish" => r.files = WholeCopy /\ r.good

(* What a process relies on between two of its steps: it holds the lock of   *)
(* its digest, and the directory it works on is the one it made.             *)
JsDoes(p, c) ==
  /\ c.at \in JsLocked \cup {"lock"} => c.digest \in Digests
  /\ c.at \in JsLocked => cacheLock[c.digest] = p
  /\ c.at \in JsSteps \cup {"removing"} =>
        c.dir \in DirIds /\ dirs[c.dir].name = "prepare" /\ dirs[c.dir].digest = c.digest
  /\ c.at \in JsSteps => JsProgress(c.at, dirs[c.dir])
  /\ c.at = "gc" => c.dir \in DirIds /\ dirs[c.dir].name = "gc" /\ dirs[c.dir].digest = c.digest
  /\ c.at = "lock" => c.purpose \in {"reuse", "prepare"} 
  /\ c.at \in {"lock", "existing"} => c.cand \in DOMAIN Candidates[p] 
  /\ c.at = "clean" /\ c.purpose # "sweep" => c.cand \in DOMAIN Candidates[p]
  /\ c.at = "removing" /\ c.purpose \notin {"sweep", "failed"} => c.cand \in DOMAIN Candidates[p] 
  /\ c.at \in JsSteps => c.cand \in DOMAIN Candidates[p] 

(* The inductive invariant of the cache root.                                *)
JsInv == JsTypes /\ JsDirsOk /\ \A p \in Cores : JsDoes(p, owner_core[p])

(* The absent value is no process, no digest and no directory.               *)
LEMMA JsFree == Free \notin Cores /\ Free \notin Digests /\ 0 \notin DirIds
  BY JsConstants DEF Free

(* A step of one process that changes no directory keeps the invariant if    *)
(* the process relies on no less afterwards.                                 *)
LEMMA JsMoves ==
  ASSUME JsInv, NEW p \in Cores, NEW c \in JsDoing, owner_core' = [owner_core EXCEPT ![p] = c],
         \A d \in Digests : cacheLock'[d] = cacheLock[d] \/ cacheLock[d] \in {p, Free},
         NEW i, \A j \in DirIds : j # i => dirs'[j] = dirs[j],
         i \in DirIds /\ dirs[i].name \in {"prepare", "gc"} => cacheLock[dirs[i].digest] = p,
         JsTypes', JsDirsOk', JsDoes(p, c)'
  PROVE  JsInv'
<1> USE JsFree
<1>1. /\ owner_core \in [Cores -> JsDoing] /\ JsDirsOk /\ dirs \in [DirIds -> JsDir]
      /\ \A q \in Cores : JsDoes(q, owner_core[q])
  BY DEF JsInv, JsTypes
<1>2. ASSUME NEW q \in Cores, q # p PROVE JsDoes(q, owner_core[q])'
  <2>1. owner_core'[q] = owner_core[q] /\ JsDoes(q, owner_core[q])
    BY <1>1, <1>2
  <2>2. PICK k : k = owner_core[q]
    OBVIOUS
  <2>3. JsDoes(q, k)
    BY <2>1, <2>2
  <2>4. k.at \in JsLocked => k.digest \in Digests /\ cacheLock[k.digest] = q /\ cacheLock'[k.digest] = q
    BY <1>2, <2>3 DEF JsDoes
  <2>5. k.at \in JsSteps \cup {"removing", "gc"} =>
           k.dir \in DirIds /\ k.dir # i /\ dirs'[k.dir] = dirs[k.dir]
    BY <1>2, <2>3, <2>4 DEF JsDoes, JsLocked
  <2>6. JsDoes(q, k)'
    BY <2>3, <2>4, <2>5 DEF JsDoes, JsLocked
  <2>7. owner_core'[q] = k
    BY <2>1, <2>2
  <2> QED
    BY <2>6, <2>7 DEF JsDoes
<1>3. owner_core'[p] = c
  BY <1>1
<1>4. \A q \in Cores : JsDoes(q, owner_core[q])'
  <2> SUFFICES ASSUME NEW q \in Cores PROVE JsDoes(q, owner_core[q])'
    OBVIOUS
  <2>1. CASE q = p
    BY <1>3, <2>1 DEF JsDoes
  <2>2. CASE q # p
    BY <1>2, <2>2
  <2> QED
    BY <2>1, <2>2
<1> QED
  BY <1>4 DEF JsInv

(* A process that does not hold the lock of a digest works on none of its    *)
(* directories.                                                              *)
LEMMA JsUnlocked ==
  ASSUME NEW p \in Cores, cacheLock \in [Digests -> Cores \cup {Free}]
  PROVE  /\ Unlocked(p) \in [Digests -> Cores \cup {Free}]
         /\ \A d \in Digests : Unlocked(p)[d] = cacheLock[d] \/ cacheLock[d] \in {p, Free}
  BY DEF Unlocked

(* A step that only moves one process on.                                    *)
LEMMA JsQuiet ==
  ASSUME JsInv, NEW p \in Cores, NEW c \in JsDoing, owner_core' = [owner_core EXCEPT ![p] = c],
         cacheLock' \in [Digests -> Cores \cup {Free}],
         \A d \in Digests : cacheLock'[d] = cacheLock[d] \/ cacheLock[d] \in {p, Free},
         dirs' = dirs, deaths' \in 0..MaxDeaths,
         held' \in [Cores -> SUBSET DirIds], \A q \in Cores : \A i \in held'[q] : dirs[i].name = "cache",
         JsDoes(p, c)'
  PROVE  JsInv'
<1>1. JsTypes' /\ JsDirsOk'
  <2>1. owner_core' \in [Cores -> JsDoing]
    BY DEF JsInv, JsTypes
  <2>2. JsTypes'
    BY <2>1 DEF JsInv, JsTypes
  <2>3. JsDirsOk'
    BY DEF JsInv, JsDirsOk
  <2> QED
    BY <2>2, <2>3
<1>2. 0 \notin DirIds
  BY JsFree
<1> QED
  BY <1>1, <1>2, JsMoves

(* A step of the holder of a lock that replaces one directory of that        *)
(* digest.                                                                   *)
LEMMA JsDirChange ==
  ASSUME JsInv, NEW p \in Cores, NEW i \in DirIds, NEW r \in JsDir, dirs' = [dirs EXCEPT ![i] = r],
         JsDirOk(r), held' = held, deaths' = deaths,
         r.name = "cache" => (dirs[i].name = "cache" /\ r.digest = dirs[i].digest) \/ Named("cache", r.digest) = {},
         dirs[i].name = "cache" => r.name = "cache" \/ \A q \in Cores : i \notin held[q],
         dirs[i].name \in {"prepare", "gc"} => cacheLock[dirs[i].digest] = p,
         NEW c \in JsDoing, owner_core' = [owner_core EXCEPT ![p] = c],
         cacheLock' \in [Digests -> Cores \cup {Free}],
         \A d \in Digests : cacheLock'[d] = cacheLock[d] \/ cacheLock[d] \in {p, Free},
         JsDoes(p, c)'
  PROVE  JsInv'
<1>1. dirs \in [DirIds -> JsDir] /\ dirs' \in [DirIds -> JsDir] /\ dirs'[i] = r
      /\ \A j \in DirIds : j # i => dirs'[j] = dirs[j]
  BY DEF JsInv, JsTypes
<1>2. owner_core' \in [Cores -> JsDoing] /\ JsDirsOk /\ held \in [Cores -> SUBSET DirIds]
  BY DEF JsInv, JsTypes
<1>3. JsTypes'
  BY <1>1, <1>2 DEF JsInv, JsTypes
<1>4. \A k, j \in DirIds :
        dirs'[k].name = "cache" /\ dirs'[j].name = "cache" /\ dirs'[k].digest = dirs'[j].digest => k = j
  BY <1>1, <1>2 DEF JsDirsOk, Named
<1>5. \A q \in Cores : \A k \in held[q] : dirs'[k].name = "cache"
  BY <1>1, <1>2 DEF JsDirsOk
<1>6. \A k \in DirIds : JsDirOk(dirs'[k])
  BY <1>1, <1>2 DEF JsDirsOk
<1>7. JsDirsOk'
  BY <1>4, <1>5, <1>6 DEF JsDirsOk, JsDirOk
<1> QED
  BY <1>1, <1>3, <1>7, JsMoves

(* The state one process acts on.                                             *)
LEMMA JsFacts ==
  ASSUME JsInv, NEW p \in Cores
  PROVE  /\ owner_core[p] \in JsDoing /\ JsDoes(p, owner_core[p])
         /\ cacheLock \in [Digests -> Cores \cup {Free}]
         /\ dirs \in [DirIds -> JsDir] /\ held \in [Cores -> SUBSET DirIds] /\ deaths \in 0..MaxDeaths
         /\ JsDirsOk /\ \A i \in DirIds : JsDirOk(dirs[i])
         /\ \A q \in Cores : \A i \in held[q] : dirs[i].name = "cache"
  BY DEF JsInv, JsTypes, JsDirsOk

(* A process at rest relies on nothing.                                      *)
LEMMA JsRest ==
  ASSUME NEW p \in Cores
  PROVE  /\ Resting \in JsDoing /\ JsDoes(p, Resting)' 
         /\ [Resting EXCEPT !.at = "prune"] \in JsDoing /\ JsDoes(p, [Resting EXCEPT !.at = "prune"])'
  BY DEF Resting, JsDoing, JsDoes, JsLocked, JsSteps, Steps

(* What a process does after a failure is a station at rest.                 *)
LEMMA JsErrs ==
  ASSUME JsInv, NEW p \in Cores, Errs(p), dirs' = dirs, deaths' \in 0..MaxDeaths,
         held' \in [Cores -> SUBSET DirIds], \A q \in Cores : \A i \in held'[q] : dirs[i].name = "cache"
  PROVE  JsInv'
<1>1. cacheLock \in [Digests -> Cores \cup {Free}]
  BY JsFacts
<1> QED
  BY <1>1, JsUnlocked, JsRest, JsQuiet DEF Errs, GoesTo

(* The candidate a process has reached is one of its list.                   *)
LEMMA JsCandidate ==
  ASSUME NEW p \in Cores, NEW i \in DOMAIN Candidates[p]
  PROVE  /\ i \in Nat /\ Candidates[p][i] \in Digests
         /\ Len(Candidates[p]) \in Nat /\ DOMAIN Candidates[p] = 1..Len(Candidates[p])
         /\ 1 \in DOMAIN Candidates[p]
         /\ TurnsTo(p, i) \in JsDoing /\ JsDoes(p, TurnsTo(p, i))'
<1>1. /\ i \in Nat /\ Candidates[p][i] \in Digests
      /\ Len(Candidates[p]) \in Nat /\ DOMAIN Candidates[p] = 1..Len(Candidates[p])
      /\ 1 \in DOMAIN Candidates[p]
  BY JsConstants
<1>2. TurnsTo(p, i) \in JsDoing
  BY <1>1 DEF TurnsTo, Resting, JsDoing
<1>3. JsDoes(p, TurnsTo(p, i))'
  BY <1>1 DEF TurnsTo, Resting, JsDoes, JsLocked, JsSteps, Steps
<1> QED
  BY <1>1, <1>2, <1>3

(* Steps that change no directory.                                            *)
LEMMA JsChooses ==
  ASSUME JsInv, NEW p \in Cores, ensure_managed(p) \/ (owner_core[p].at = "existing" /\ NoCache(p))
  PROVE  JsInv'
<1>0. /\ owner_core[p] \in JsDoing /\ JsDoes(p, owner_core[p])
      /\ cacheLock \in [Digests -> Cores \cup {Free}]
      /\ dirs \in [DirIds -> JsDir] /\ held \in [Cores -> SUBSET DirIds] /\ deaths \in 0..MaxDeaths
      /\ \A q \in Cores : \A i \in held[q] : dirs[i].name = "cache"
  BY JsFacts
<1>1. /\ 1 \in DOMAIN Candidates[p] /\ Len(Candidates[p]) \in Nat /\ DOMAIN Candidates[p] = 1..Len(Candidates[p])
  BY JsConstants
<1>2. CASE ensure_managed(p)
  <2>1. /\ owner_core' = [owner_core EXCEPT ![p] = TurnsTo(p, 1)]
        /\ UNCHANGED <<dirs, cacheLock, held, deaths>>
    BY <1>2 DEF ensure_managed, GoesTo
  <2>2. TurnsTo(p, 1) \in JsDoing /\ JsDoes(p, TurnsTo(p, 1))'
    BY <1>1, JsCandidate
  <2> QED
    BY <1>0, <2>1, <2>2, JsQuiet
<1>3. CASE owner_core[p].at = "existing" /\ NoCache(p)
  <2>1. /\ cacheLock' = Unlocked(p) /\ UNCHANGED <<dirs, held, deaths>>
    BY <1>3 DEF NoCache
  <2>2. owner_core[p].cand \in DOMAIN Candidates[p] /\ owner_core[p].digest \in Digests
    BY <1>0, <1>3 DEF JsDoes, JsLocked
  <2>3. ASSUME NEW source \in {"client", "mirror"},
               GoesTo(p, [owner_core[p] EXCEPT !.at = "lock", !.purpose = "prepare", !.source = source])
        PROVE  JsInv'
    <3>1. PICK c : c = [owner_core[p] EXCEPT !.at = "lock", !.purpose = "prepare", !.source = source]
      OBVIOUS
    <3>2. c \in JsDoing /\ c.at = "lock" /\ c.digest \in Digests /\ c.purpose = "prepare"
          /\ c.cand \in DOMAIN Candidates[p]
      BY <1>0, <2>2, <3>1 DEF JsDoing
    <3>3. JsDoes(p, c)'
      BY <3>2 DEF JsDoes, JsLocked, JsSteps, Steps
    <3>4. owner_core' = [owner_core EXCEPT ![p] = c]
      BY <2>3, <3>1 DEF GoesTo
    <3> QED
      BY <1>0, <2>1, <3>2, <3>3, <3>4, JsQuiet, JsUnlocked
  <2>4. CASE owner_core[p].cand < Len(Candidates[p]) /\ GoesTo(p, TurnsTo(p, owner_core[p].cand + 1))
    <3>1. PICK n \in DOMAIN Candidates[p] : n = owner_core[p].cand + 1
      BY <1>1, <2>2, <2>4
    <3>2. TurnsTo(p, n) \in JsDoing /\ JsDoes(p, TurnsTo(p, n))'
      BY JsCandidate
    <3>3. owner_core' = [owner_core EXCEPT ![p] = TurnsTo(p, n)]
      BY <2>4, <3>1 DEF GoesTo
    <3> QED
      BY <1>0, <2>1, <3>2, <3>3, JsQuiet, JsUnlocked
  <2>5. CASE GoesTo(p, Resting)
    BY <1>0, <2>1, <2>5, JsQuiet, JsUnlocked, JsRest DEF GoesTo
  <2> QED
    BY <1>3, <2>3, <2>4, <2>5 DEF NoCache
<1> QED
  BY <1>2, <1>3

(* The steps under a lock that change no directory.                          *)
LEMMA JsStays ==
  ASSUME JsInv, NEW p \in Cores,
         lock(p) \/ cleanup_interrupted_for_key(p) \/ CleanupEnds(p) \/ ChecksPrepared(p) \/ PreparationFails(p)
  PROVE  JsInv'
<1> USE JsFree
<1>0. /\ owner_core[p] \in JsDoing /\ JsDoes(p, owner_core[p])
      /\ cacheLock \in [Digests -> Cores \cup {Free}]
      /\ dirs \in [DirIds -> JsDir] /\ held \in [Cores -> SUBSET DirIds] /\ deaths \in 0..MaxDeaths
      /\ \A q \in Cores : \A i \in held[q] : dirs[i].name = "cache"
  BY JsFacts
<1>1. UNCHANGED <<dirs, held, deaths>>
  BY DEF lock, cleanup_interrupted_for_key, CleanupEnds, ChecksPrepared, PreparationFails
<1>2. CASE lock(p)
  <2>1. PICK c : c = [owner_core[p] EXCEPT !.at = "clean"]
    OBVIOUS
  <2>2. c \in JsDoing /\ c.at = "clean" /\ c.digest = owner_core[p].digest /\ c.cand = owner_core[p].cand
    BY <1>0, <2>1 DEF JsDoing, JsLocked
  <2>3. /\ owner_core' = [owner_core EXCEPT ![p] = c] /\ c.digest \in Digests
        /\ cacheLock[c.digest] = Free /\ cacheLock' = [cacheLock EXCEPT ![c.digest] = p]
        /\ c.cand \in DOMAIN Candidates[p]
    BY <1>0, <1>2, <2>1, <2>2 DEF lock, GoesTo, JsDoes
  <2>4. JsDoes(p, c)'
    BY <1>0, <2>2, <2>3 DEF JsDoes, JsLocked, JsSteps, Steps
  <2>5. /\ cacheLock' \in [Digests -> Cores \cup {Free}]
        /\ \A d \in Digests : cacheLock'[d] = cacheLock[d] \/ cacheLock[d] \in {p, Free}
    BY <1>0, <2>3
  <2> QED
    BY <1>0, <1>1, <2>2, <2>3, <2>4, <2>5, JsQuiet
<1>3. CASE cleanup_interrupted_for_key(p)
  <2>1. PICK i \in Interrupted(owner_core[p].digest) : GoesTo(p, [owner_core[p] EXCEPT !.at = "removing", !.dir = i])
    BY <1>3 DEF cleanup_interrupted_for_key
  <2>2. PICK c : c = [owner_core[p] EXCEPT !.at = "removing", !.dir = i]
    OBVIOUS
  <2>3. i \in DirIds /\ dirs[i].name = "prepare" /\ dirs[i].digest = owner_core[p].digest
    BY <2>1 DEF Interrupted, Named
  <2>4. /\ c \in JsDoing /\ c.at = "removing" /\ c.dir = i /\ c.digest = owner_core[p].digest
        /\ c.cand = owner_core[p].cand /\ c.purpose = owner_core[p].purpose
    BY <1>0, <2>2, <2>3 DEF JsDoing, JsLocked
  <2>5. cacheLock' = cacheLock /\ owner_core[p].at = "clean" /\ owner_core' = [owner_core EXCEPT ![p] = c]
    BY <1>3, <2>1, <2>2 DEF cleanup_interrupted_for_key, GoesTo
  <2>6. JsDoes(p, c)'
    BY <1>0, <1>1, <2>3, <2>4, <2>5 DEF JsDoes, JsLocked, JsSteps, Steps
  <2> QED
    BY <1>0, <1>1, <2>4, <2>5, <2>6, JsQuiet
<1>4. CASE CleanupEnds(p)
  <2>1. PICK at \in {"prune", "existing"} :
           /\ owner_core' = [owner_core EXCEPT ![p] = [owner_core[p] EXCEPT !.at = at]]
           /\ owner_core[p].at = "clean"
           /\ cacheLock' = IF at = "prune" THEN Unlocked(p) ELSE cacheLock
           /\ at = "existing" => owner_core[p].purpose # "sweep"
    BY <1>4 DEF CleanupEnds, GoesTo
  <2>2. PICK c : c = [owner_core[p] EXCEPT !.at = at]
    OBVIOUS
  <2>3. /\ c \in JsDoing /\ c.at = at /\ c.digest = owner_core[p].digest
        /\ c.cand = owner_core[p].cand
    BY <1>0, <2>2 DEF JsDoing, JsLocked
  <2>4. JsDoes(p, c)'
    BY <1>0, <1>1, <2>1, <2>3 DEF JsDoes, JsLocked, JsSteps, Steps
  <2>5. /\ cacheLock' \in [Digests -> Cores \cup {Free}]
        /\ \A d \in Digests : cacheLock'[d] = cacheLock[d] \/ cacheLock[d] \in {p, Free}
    BY <1>0, <2>1, JsUnlocked
  <2> QED
    BY <1>0, <1>1, <2>1, <2>2, <2>3, <2>4, <2>5, JsQuiet
<1>5. CASE ChecksPrepared(p)
  <2>1. PICK c : c = [owner_core[p] EXCEPT !.at = "mark"]
    OBVIOUS
  <2>2. /\ c \in JsDoing /\ c.at = "mark" /\ c.digest = owner_core[p].digest
        /\ c.cand = owner_core[p].cand /\ c.dir = owner_core[p].dir
    BY <1>0, <2>1 DEF JsDoing, JsLocked, JsSteps, Steps
  <2>3. /\ cacheLock' = cacheLock /\ owner_core' = [owner_core EXCEPT ![p] = c]
        /\ owner_core[p].at = "check" /\ dirs[owner_core[p].dir].good
    BY <1>5, <2>1 DEF ChecksPrepared, GoesTo, checked_pair
  <2>4. JsDoes(p, c)'
    BY <1>0, <1>1, <2>2, <2>3 DEF JsDoes, JsLocked, JsSteps, Steps, JsProgress
  <2> QED
    BY <1>0, <1>1, <2>2, <2>3, <2>4, JsQuiet
<1>6. CASE PreparationFails(p)
  <2>1. PICK c : c = [owner_core[p] EXCEPT !.at = "removing", !.purpose = "failed"]
    OBVIOUS
  <2>2. /\ c \in JsDoing /\ c.at = "removing" /\ c.digest = owner_core[p].digest
        /\ c.purpose = "failed" /\ c.dir = owner_core[p].dir
    BY <1>0, <2>1 DEF JsDoing, JsLocked
  <2>3. /\ cacheLock' = cacheLock /\ owner_core' = [owner_core EXCEPT ![p] = c]
        /\ owner_core[p].at \in JsSteps
    BY <1>6, <2>1 DEF PreparationFails, GoesTo, JsSteps
  <2>4. JsDoes(p, c)'
    BY <1>0, <1>1, <2>2, <2>3 DEF JsDoes, JsLocked, JsSteps, Steps
  <2> QED
    BY <1>0, <1>1, <2>2, <2>3, <2>4, JsQuiet
<1> QED
  BY <1>2, <1>3, <1>4, <1>5, <1>6

(* js_runtime_busy: the process that finds the lock taken reports it and     *)
(* moves on.                                                                 *)
LEMMA JsBusy ==
  ASSUME JsInv, NEW p \in Cores, js_runtime_busy(p) \/ prune_obsolete(p) \/ CoreDies(p) \/ Releases(p)
  PROVE  JsInv'
<1>0. /\ owner_core \in [Cores -> JsDoing] /\ JsDoes(p, owner_core[p]) /\ owner_core[p] \in JsDoing
      /\ cacheLock \in [Digests -> Cores \cup {Free}]
      /\ held \in [Cores -> SUBSET DirIds] /\ deaths \in 0..MaxDeaths /\ MaxDeaths \in Nat
      /\ \A q \in Cores : \A i \in held[q] : dirs[i].name = "cache"
  BY JsFacts, JsConstants DEF JsInv, JsTypes
<1>1. CASE js_runtime_busy(p) \/ prune_obsolete(p)
  BY <1>0, <1>1, JsErrs DEF js_runtime_busy, prune_obsolete
<1>2. CASE CoreDies(p)
  <2>1. held' \in [Cores -> SUBSET DirIds] /\ \A q \in Cores : held'[q] \subseteq held[q]
    BY <1>0, <1>2 DEF CoreDies
  <2>2. deaths' \in 0..MaxDeaths
    BY <1>0, <1>2 DEF CoreDies
  <2> QED
    BY <1>0, <1>2, <2>1, <2>2, JsErrs DEF CoreDies
<1>3. CASE Releases(p)
  <2>1. held' \in [Cores -> SUBSET DirIds] /\ \A q \in Cores : held'[q] \subseteq held[q]
    BY <1>0, <1>3 DEF Releases
  <2>2. owner_core' = [owner_core EXCEPT ![p] = owner_core[p]]
    BY <1>0, <1>3 DEF Releases
  <2>3. PICK c : c = owner_core[p]
    OBVIOUS
  <2>4. JsDoes(p, c)'
    BY <1>0, <1>3, <2>3 DEF Releases, JsDoes
  <2> QED
    BY <1>0, <1>3, <2>1, <2>2, <2>3, <2>4, JsQuiet DEF Releases
<1> QED
  BY <1>1, <1>2, <1>3

(* A cache is opened, found unusable or absent, or a preparation begun.       *)
LEMMA JsOpens ==
  ASSUME JsInv, NEW p \in Cores, existing_cache(p)
  PROVE  JsInv'
<1> USE JsFree
<1>0. /\ owner_core[p] \in JsDoing /\ JsDoes(p, owner_core[p])
      /\ cacheLock \in [Digests -> Cores \cup {Free}]
      /\ dirs \in [DirIds -> JsDir] /\ held \in [Cores -> SUBSET DirIds] /\ deaths \in 0..MaxDeaths
      /\ \A q \in Cores : \A i \in held[q] : dirs[i].name = "cache"
      /\ \A i \in DirIds : JsDirOk(dirs[i])
  BY JsFacts
<1>1. /\ owner_core[p].at = "existing" /\ owner_core[p].digest \in Digests
      /\ cacheLock[owner_core[p].digest] = p /\ owner_core[p].cand \in DOMAIN Candidates[p]
  BY <1>0 DEF existing_cache, JsDoes, JsLocked
<1>2. ASSUME NEW i \in Named("cache", owner_core[p].digest), HandsOut(p, i)
      PROVE  JsInv'
  <2>1. i \in DirIds /\ dirs[i].name = "cache"
    BY DEF Named
  <2>2. held' \in [Cores -> SUBSET DirIds] /\ \A q \in Cores : \A j \in held'[q] : dirs[j].name = "cache"
    BY <1>0, <1>2, <2>1 DEF HandsOut
  <2>3. /\ cacheLock' = Unlocked(p) /\ dirs' = dirs /\ deaths' = deaths
        /\ owner_core' = [owner_core EXCEPT ![p] = [Resting EXCEPT !.at = "prune"]]
    BY <1>2 DEF HandsOut, GoesTo
  <2> QED
    BY <1>0, <2>2, <2>3, JsQuiet, JsUnlocked, JsRest
<1>3. CASE Errs(p) /\ UNCHANGED <<dirs, held, deaths>>
  BY <1>0, <1>3, JsErrs
<1>4. CASE NoCache(p)
  BY <1>1, <1>4, JsChooses
<1>5. ASSUME NEW i \in DirIds, dirs[i].name = "none", Named("cache", owner_core[p].digest) = {},
             dirs' = [dirs EXCEPT ![i] = [NoDir EXCEPT !.name = "prepare", !.digest = owner_core[p].digest]],
             GoesTo(p, [owner_core[p] EXCEPT !.at = "new", !.dir = i]),
             UNCHANGED <<cacheLock, held, deaths>>
      PROVE  JsInv'
  <2>1. PICK r : r = [NoDir EXCEPT !.name = "prepare", !.digest = owner_core[p].digest]
    OBVIOUS
  <2>2. r \in JsDir /\ r.name = "prepare" /\ r.digest = owner_core[p].digest /\ r.files = {} /\ r.good = TRUE
    BY <1>1, <2>1 DEF NoDir, JsDir
  <2>3. JsDirOk(r)
    BY <1>1, <2>2 DEF JsDirOk
  <2>4. PICK c : c = [owner_core[p] EXCEPT !.at = "new", !.dir = i]
    OBVIOUS
  <2>5. /\ c \in JsDoing /\ c.at = "new" /\ c.dir = i /\ c.digest = owner_core[p].digest
        /\ c.cand = owner_core[p].cand
    BY <1>0, <2>4 DEF JsDoing, JsLocked, JsSteps, Steps
  <2>6. /\ dirs' = [dirs EXCEPT ![i] = r] /\ dirs'[i] = r /\ owner_core' = [owner_core EXCEPT ![p] = c]
    BY <1>0, <1>5, <2>1, <2>4 DEF GoesTo
  <2>7. JsDoes(p, c)'
    BY <1>1, <1>5, <2>2, <2>5, <2>6 DEF JsDoes, JsLocked, JsSteps, Steps, JsProgress
  <2>8. dirs[i].name \notin {"prepare", "gc", "cache"}
    BY <1>5
  <2> QED
    BY ZenonT(60), <1>0, <1>5, <2>2, <2>3, <2>5, <2>6, <2>7, <2>8, JsDirChange
<1> QED
  BY <1>2, <1>3, <1>4, <1>5 DEF existing_cache

(* A step of p on its own preparation.                                        *)
LEMMA JsEdits ==
  ASSUME JsInv, NEW p \in Cores, owner_core[p].at \in JsSteps, NEW at \in JsSteps, NEW r \in JsDir,
         dirs' = [dirs EXCEPT ![owner_core[p].dir] = r], UNCHANGED <<cacheLock, held, deaths>>,
         NEW c \in JsDoing, owner_core' = [owner_core EXCEPT ![p] = c],
         c.at = at, c.digest = owner_core[p].digest, c.dir = owner_core[p].dir, c.cand = owner_core[p].cand,
         r.name = "prepare", r.digest = owner_core[p].digest, JsProgress(at, r)
  PROVE  JsInv'
<1>0. /\ owner_core[p] \in JsDoing /\ JsDoes(p, owner_core[p])
      /\ cacheLock \in [Digests -> Cores \cup {Free}] /\ dirs \in [DirIds -> JsDir]
  BY JsFacts
<1>1. /\ owner_core[p].dir \in DirIds /\ dirs[owner_core[p].dir].name = "prepare"
      /\ dirs[owner_core[p].dir].digest = owner_core[p].digest
      /\ cacheLock[owner_core[p].digest] = p /\ owner_core[p].digest \in Digests
      /\ owner_core[p].cand \in DOMAIN Candidates[p]
  BY <1>0 DEF JsDoes, JsLocked
<1>2. JsDirOk(r)
  BY <1>1 DEF JsDirOk
<1>3. dirs'[owner_core[p].dir] = r
  BY <1>0, <1>1
<1>4. JsDoes(p, c)'
  BY <1>1, <1>3 DEF JsDoes, JsLocked, JsSteps, Steps
<1> QED
  BY <1>0, <1>1, <1>2, <1>4, JsDirChange

(* The marker of a preparation, the archive, its extraction, the cache       *)
(* marker and the removal of the first: each leaves the content its next     *)
(* station asks for.                                                         *)
LEMMA JsWrites ==
  ASSUME JsInv, NEW p \in Cores,
         \/ write_preparing(p) \/ download_archive(p) \/ NextAttempt(p) \/ Fills(p)
         \/ write_marker(p) \/ RemovesPreparing(p)
  PROVE  JsInv'
<1> DEFINE k == owner_core[p]
           d == dirs[owner_core[p].dir]
<1>0. /\ k \in JsDoing /\ JsDoes(p, k) /\ dirs \in [DirIds -> JsDir]
      /\ k.at \in JsSteps
  BY JsFacts DEF write_preparing, download_archive, NextAttempt, Fills, write_marker, RemovesPreparing,
                 EditsDirectory, JsSteps, Steps
<1>1. /\ k.dir \in DirIds /\ d \in JsDir /\ d.name = "prepare" /\ d.digest = k.digest
      /\ JsProgress(k.at, d)
  BY <1>0 DEF JsDoes
<1>2. UNCHANGED <<cacheLock, held, deaths>>
  BY DEF write_preparing, download_archive, NextAttempt, Fills, write_marker, RemovesPreparing, EditsDirectory
<1>4. /\ d.files \in SUBSET (WholeCopy \cup {"preparing", "archive"}) /\ d.good \in BOOLEAN
      /\ k.source \in {Free, "client", "mirror", "official"} /\ k.attempt \in Nat
  BY <1>0, <1>1 DEF JsDoing, JsDir
<1>5. /\ {"download", "retry", "fill", "check", "mark", "unmark", "publish", "new"} \subseteq JsSteps
      /\ k = [k EXCEPT !.at = k.at, !.source = k.source, !.attempt = k.attempt]
      /\ owner_core \in [Cores -> JsDoing]
      /\ owner_core = [owner_core EXCEPT ![p] = k]
  BY <1>0 DEF JsSteps, Steps, JsDoing, JsInv, JsTypes
<1>6. ASSUME NEW from \in JsSteps, NEW files \in SUBSET (WholeCopy \cup {"preparing", "archive"}),
             NEW to \in JsSteps, EditsDirectory(p, from, files, to),
             \A r \in JsDir : r.files = files /\ r.good = d.good => JsProgress(to, r)
      PROVE  JsInv'
  <2>1. dirs' = [dirs EXCEPT ![k.dir] = [d EXCEPT !.files = files, !.good = d.good]]
    BY <1>0, <1>1, <1>6 DEF EditsDirectory, JsDir
  <2>2. owner_core' = [owner_core EXCEPT ![p] = [k EXCEPT !.at = to, !.source = k.source, !.attempt = k.attempt]]
    BY <1>0, <1>6 DEF EditsDirectory, GoesTo, JsDoing
  <2>3. PICK r : r = [d EXCEPT !.files = files, !.good = d.good]
    OBVIOUS
  <2>4. r \in JsDir /\ r.files = files /\ r.good = d.good /\ r.name = d.name /\ r.digest = d.digest
    BY <1>1, <2>3 DEF JsDir
  <2>5. PICK c : c = [k EXCEPT !.at = to, !.source = k.source, !.attempt = k.attempt]
    OBVIOUS
  <2>6. c \in JsDoing /\ c.at = to /\ c.dir = k.dir /\ c.digest = k.digest /\ c.cand = k.cand
    BY <1>0, <2>5 DEF JsDoing, JsLocked
  <2>7. JsProgress(to, r)
    BY <1>6, <2>4
  <2>8. dirs' = [dirs EXCEPT ![k.dir] = r] /\ owner_core' = [owner_core EXCEPT ![p] = c]
    BY <2>1, <2>2, <2>3, <2>5
  <2> QED
    BY <1>0, <1>1, <1>2, <2>4, <2>6, <2>7, <2>8, JsEdits
<1>7. CASE write_preparing(p)
  <2>1. k.at = "new" /\ d.files = {}
    BY <1>1, <1>7 DEF write_preparing, EditsDirectory, JsProgress
  <2>2. PICK to \in {"fill", "download"} : EditsDirectory(p, "new", {"preparing"}, to)
    BY <1>7, <2>1 DEF write_preparing, Files
  <2> QED
    BY <1>5, <1>6, <2>2 DEF JsProgress
<1>8. CASE write_marker(p)
  <2>1. k.at = "mark" /\ d.files = {"preparing", "node", "license"} /\ d.good
    BY <1>1, <1>8 DEF write_marker, EditsDirectory, JsProgress
  <2>2. EditsDirectory(p, "mark", WholeCopy \cup {"preparing"}, "unmark")
    <3>1. Files(p) \cup {"marker"} = WholeCopy \cup {"preparing"}
      BY <2>1 DEF Files, WholeCopy
    <3> QED
      BY <1>8, <3>1 DEF write_marker
  <2>3. /\ WholeCopy \cup {"preparing"} \in SUBSET (WholeCopy \cup {"preparing", "archive"})
        /\ \A r \in JsDir : r.files = WholeCopy \cup {"preparing"} /\ r.good = d.good => JsProgress("unmark", r)
    BY <2>1 DEF JsProgress
  <2> HIDE DEF k, d
  <2> QED
    BY <1>5, <1>6, <2>2, <2>3
<1>9. CASE RemovesPreparing(p)
  <2>1. k.at = "unmark" /\ d.files = WholeCopy \cup {"preparing"} /\ d.good
    BY <1>1, <1>9 DEF RemovesPreparing, EditsDirectory, JsProgress
  <2>2. EditsDirectory(p, "unmark", WholeCopy, "publish")
    <3>1. Files(p) \ {"preparing"} = WholeCopy
      BY <2>1 DEF Files, WholeCopy
    <3> QED
      BY <1>9, <3>1 DEF RemovesPreparing
  <2>3. /\ WholeCopy \in SUBSET (WholeCopy \cup {"preparing", "archive"})
        /\ \A r \in JsDir : r.files = WholeCopy /\ r.good = d.good => JsProgress("publish", r)
    BY <2>1 DEF JsProgress
  <2> HIDE DEF k, d
  <2> QED
    BY <1>5, <1>6, <2>2, <2>3
<1>10. CASE download_archive(p)
  <2>1. k.at = "download" /\ d.files = {"preparing"}
    BY <1>1, <1>10 DEF download_archive, JsProgress
  <2>2. CASE EditsDirectory(p, "download", Files(p) \cup {"archive"}, "fill")
    <3>1. EditsDirectory(p, "download", {"preparing", "archive"}, "fill")
      BY <2>1, <2>2 DEF Files
    <3> QED
      BY <1>5, <1>6, <3>1 DEF JsProgress
  <2>3. ASSUME NEW part \in SUBSET {"archive"},
               dirs' = [dirs EXCEPT ![k.dir].files = d.files \cup part],
               GoesTo(p, [k EXCEPT !.at = "retry"])
        PROVE  JsInv'
    <3>1. EditsDirectory(p, "download", {"preparing"} \cup part, "retry")
      BY <1>1, <1>2, <2>1, <2>3 DEF EditsDirectory
    <3>2. {"preparing"} \cup part \in SUBSET (WholeCopy \cup {"preparing", "archive"})
      OBVIOUS
    <3>3. \A r \in JsDir : r.files = {"preparing"} \cup part => JsProgress("retry", r)
      BY DEF JsProgress
    <3> QED
      BY <1>5, <1>6, <3>1, <3>2, <3>3
  <2> QED
    BY <1>0, <1>1, <1>10, <2>2, <2>3 DEF download_archive
<1>11. CASE Fills(p)
  <2>1. k.at = "fill" /\ {"preparing"} \subseteq d.files
        /\ d.files \subseteq {"preparing", "archive", "node", "license"}
    BY <1>1, <1>11 DEF Fills, JsProgress
  <2>2. CASE Files(p) \cap {"node", "license"} # {"node", "license"}
    <3>1. PICK good0 \in BOOLEAN :
            /\ dirs' = [dirs EXCEPT ![k.dir] = [d EXCEPT !.files = d.files \cup {IF "node" \in d.files THEN "license" ELSE "node"},
                                                       !.good = d.good /\ good0]]
            /\ UNCHANGED owner_core
      BY <1>0, <1>1, <1>11, <2>2 DEF Fills, JsDir
    <3>2. PICK files : files = d.files \cup {IF "node" \in d.files THEN "license" ELSE "node"}
      OBVIOUS
    <3>3. PICK good \in BOOLEAN : good = (d.good /\ good0)
      OBVIOUS
    <3>4. dirs' = [dirs EXCEPT ![k.dir] = [d EXCEPT !.files = files, !.good = good]]
      BY <3>1, <3>2, <3>3
    <3>6. files \in SUBSET (WholeCopy \cup {"preparing", "archive"})
          /\ {"preparing"} \subseteq files /\ files \subseteq {"preparing", "archive", "node", "license"}
      BY <2>1, <3>2 DEF WholeCopy
    <3>7. \A r \in JsDir : r.files = files => JsProgress("fill", r)
      BY <3>6 DEF JsProgress
    <3>8. PICK r : r = [d EXCEPT !.files = files, !.good = good]
      OBVIOUS
    <3>9. /\ r \in JsDir /\ r.files = files /\ r.name = d.name /\ r.digest = d.digest
          /\ JsProgress("fill", r)
      <4>1. r \in JsDir /\ r.files = files /\ r.name = d.name /\ r.digest = d.digest
        BY <1>1, <3>6, <3>8 DEF JsDir
      <4> QED
        BY <3>7, <4>1
    <3>10. dirs' = [dirs EXCEPT ![k.dir] = r] /\ owner_core' = [owner_core EXCEPT ![p] = k]
      BY <1>5, <3>1, <3>4, <3>8
    <3> QED
      BY <1>0, <1>1, <1>2, <2>1, <3>9, <3>10, JsEdits
  <2>3. CASE Files(p) \cap {"node", "license"} = {"node", "license"}
    <3>1. {"node", "license"} \subseteq d.files
      BY <2>3 DEF Files
    <3>2. d.files \ {"archive"} = {"preparing", "node", "license"}
      BY <2>1, <3>1
    <3>3. EditsDirectory(p, "fill", {"preparing", "node", "license"}, "check")
      BY <1>0, <1>1, <1>2, <1>11, <2>1, <2>3, <3>2 DEF Fills, EditsDirectory
    <3>4. {"preparing", "node", "license"} \in SUBSET (WholeCopy \cup {"preparing", "archive"})
      BY DEF WholeCopy
    <3> QED
      BY <1>5, <1>6, <3>3, <3>4 DEF JsProgress
  <2> QED
    BY <2>2, <2>3
<1>12. CASE NextAttempt(p)
  <2>1. k.at = "retry" /\ d.files \ {"archive"} = {"preparing"}
    BY <1>1, <1>12 DEF NextAttempt, JsProgress
  <2>2. dirs' = [dirs EXCEPT ![k.dir] = [d EXCEPT !.files = {"preparing"}, !.good = d.good]]
    BY <1>0, <1>1, <1>12, <2>1 DEF NextAttempt, JsDir
  <2>3. ASSUME NEW source \in {Free, "client", "mirror", "official"}, NEW attempt \in Nat,
               GoesTo(p, [k EXCEPT !.at = "download", !.source = source, !.attempt = attempt])
        PROVE  JsInv'
    <3>1. owner_core' = [owner_core EXCEPT ![p] = [k EXCEPT !.at = "download", !.source = source, !.attempt = attempt]]
      BY <2>3 DEF GoesTo
    <3>2. /\ {"preparing"} \in SUBSET (WholeCopy \cup {"preparing", "archive"})
          /\ \A r \in JsDir : r.files = {"preparing"} => JsProgress("download", r)
      BY DEF JsProgress
    <3>3. PICK r : r = [d EXCEPT !.files = {"preparing"}, !.good = d.good]
      OBVIOUS
    <3>4. /\ r \in JsDir /\ r.name = d.name /\ r.digest = d.digest /\ JsProgress("download", r)
      <4>1. r \in JsDir /\ r.files = {"preparing"} /\ r.name = d.name /\ r.digest = d.digest
        BY <1>1, <3>2, <3>3 DEF JsDir
      <4> QED
        BY <3>2, <4>1
    <3>5. PICK c : c = [k EXCEPT !.at = "download", !.source = source, !.attempt = attempt]
      OBVIOUS
    <3>6. c \in JsDoing /\ c.at = "download" /\ c.dir = k.dir /\ c.digest = k.digest /\ c.cand = k.cand
      BY <1>0, <1>5, <2>3, <3>5 DEF JsDoing, JsLocked
    <3>7. dirs' = [dirs EXCEPT ![k.dir] = r] /\ owner_core' = [owner_core EXCEPT ![p] = c]
      BY <2>2, <3>1, <3>3, <3>5
    <3> QED
      BY <1>0, <1>1, <1>2, <1>5, <3>4, <3>6, <3>7, JsEdits
  <2>4. CASE GoesTo(p, [k EXCEPT !.at = "download", !.attempt = k.attempt + 1])
    <3>1. k.attempt + 1 \in Nat
      BY <1>4
    <3>2. [k EXCEPT !.at = "download", !.attempt = k.attempt + 1]
            = [k EXCEPT !.at = "download", !.source = k.source, !.attempt = k.attempt + 1]
      BY <1>0 DEF JsDoing
    <3> QED
      BY <1>4, <2>3, <2>4, <3>1, <3>2
  <2>5. CASE GoesTo(p, [k EXCEPT !.at = "download", !.source = "official", !.attempt = 0])
    BY <2>3, <2>5
  <2>6. CASE GoesTo(p, [k EXCEPT !.at = "removing", !.purpose = "failed"])
    <3>1. PICK c : c = [k EXCEPT !.at = "removing", !.purpose = "failed"]
      OBVIOUS
    <3>2. /\ c \in JsDoing /\ c.at = "removing" /\ c.digest = k.digest
          /\ c.purpose = "failed" /\ c.dir = k.dir
      BY <1>0, <3>1 DEF JsDoing, JsLocked
    <3>3. PICK r : r = [d EXCEPT !.files = {"preparing"}, !.good = d.good]
      OBVIOUS
    <3>4. r \in JsDir /\ r.name = "prepare" /\ r.digest = d.digest
      BY <1>1, <3>3 DEF JsDir
    <3>5. /\ dirs' = [dirs EXCEPT ![k.dir] = r] /\ dirs'[k.dir] = r
          /\ owner_core' = [owner_core EXCEPT ![p] = c]
      BY <1>0, <1>1, <2>2, <2>6, <3>1, <3>3 DEF GoesTo
    <3>6. k.digest \in Digests /\ cacheLock[k.digest] = p
      BY <1>0 DEF JsDoes, JsLocked
    <3>7. JsDoes(p, c)' /\ JsDirOk(r)
      BY <1>1, <1>2, <3>2, <3>4, <3>5, <3>6 DEF JsDoes, JsLocked, JsSteps, Steps, JsDirOk
    <3>8. cacheLock \in [Digests -> Cores \cup {Free}]
      BY JsFacts
    <3> QED
      BY <1>1, <1>2, <3>2, <3>4, <3>5, <3>6, <3>7, <3>8, JsDirChange
  <2> QED
    BY <1>12, <2>4, <2>5, <2>6 DEF NextAttempt
<1> QED
  BY <1>7, <1>8, <1>9, <1>10, <1>11, <1>12

(* The rename of a preparation to a cache.                                    *)
LEMMA JsPublishes ==
  ASSUME JsInv, NEW p \in Cores, Publishes(p)
  PROVE  JsInv'
<1> DEFINE k == owner_core[p]
           d == dirs[owner_core[p].dir]
<1>0. /\ k \in JsDoing /\ JsDoes(p, k) /\ dirs \in [DirIds -> JsDir] /\ k.at = "publish"
      /\ cacheLock \in [Digests -> Cores \cup {Free}]
  BY JsFacts DEF Publishes
<1>1. /\ k.dir \in DirIds /\ d \in JsDir /\ d.name = "prepare" /\ d.digest = k.digest
      /\ d.files = WholeCopy /\ d.good /\ k.digest \in Digests /\ cacheLock[k.digest] = p
      /\ k.cand \in DOMAIN Candidates[p]
  BY <1>0 DEF JsDoes, JsProgress, JsLocked, JsSteps, Steps
<1>2. PICK r : r = [d EXCEPT !.name = "cache"]
  OBVIOUS
<1>3. r \in JsDir /\ r.name = "cache" /\ r.digest = k.digest /\ r.files = WholeCopy /\ r.good
  BY <1>1, <1>2 DEF JsDir
<1>4. PICK c : c = [k EXCEPT !.at = "existing"]
  OBVIOUS
<1>5. c \in JsDoing /\ c.at = "existing" /\ c.digest = k.digest /\ c.cand = k.cand
  BY <1>0, <1>4 DEF JsDoing, JsLocked
<1>6. /\ dirs' = [dirs EXCEPT ![k.dir] = r] /\ owner_core' = [owner_core EXCEPT ![p] = c]
      /\ UNCHANGED <<cacheLock, held, deaths>> /\ Named("cache", k.digest) = {}
  BY <1>2, <1>4 DEF Publishes, GoesTo
<1>7. JsDoes(p, c)' /\ JsDirOk(r)
  BY <1>1, <1>3, <1>5, <1>6 DEF JsDoes, JsDirOk, JsLocked, JsSteps, Steps
<1> HIDE DEF k, d
<1>8. dirs[k.dir].name = "prepare" /\ dirs[k.dir].digest = k.digest
  BY <1>1 DEF k, d
<1> QED
  BY <1>0, <1>1, <1>3, <1>5, <1>6, <1>7, <1>8, JsDirChange

(* A step of p on a directory it removes: its lock names the directory.       *)
LEMMA JsShrinks ==
  ASSUME JsInv, NEW p \in Cores, owner_core[p].at \in {"removing", "gc"}, NEW r \in JsDir,
         dirs' = [dirs EXCEPT ![owner_core[p].dir] = r], UNCHANGED <<held, deaths>>,
         JsDirOk(r), r.name # "cache",
         NEW c \in JsDoing, owner_core' = [owner_core EXCEPT ![p] = c],
         cacheLock' \in [Digests -> Cores \cup {Free}],
         \A d \in Digests : cacheLock'[d] = cacheLock[d] \/ cacheLock[d] \in {p, Free},
         JsDoes(p, c)'
  PROVE  JsInv'
<1>0. /\ owner_core[p] \in JsDoing /\ JsDoes(p, owner_core[p])
  BY JsFacts
<1>1. /\ owner_core[p].dir \in DirIds /\ dirs[owner_core[p].dir].name \in {"prepare", "gc"}
      /\ dirs[owner_core[p].dir].digest = owner_core[p].digest
      /\ cacheLock[owner_core[p].digest] = p
  BY <1>0 DEF JsDoes, JsLocked
<1> QED
  BY <1>1, JsDirChange

(* A directory that is not there is well formed.                             *)
LEMMA JsNoDir == NoDir \in JsDir /\ NoDir.name = "none" /\ JsDirOk(NoDir)
  BY DEF NoDir, JsDir, JsDirOk

(* remove_dir_all, one entry at a time.                                      *)
LEMMA JsRemoves ==
  ASSUME JsInv, NEW p \in Cores, remove_dir_all(p)
  PROVE  JsInv'
<1> DEFINE k == owner_core[p]
           d == dirs[owner_core[p].dir]
<1>0. /\ k \in JsDoing /\ JsDoes(p, k) /\ dirs \in [DirIds -> JsDir] /\ k.at = "removing"
      /\ cacheLock \in [Digests -> Cores \cup {Free}] /\ UNCHANGED <<held, deaths>>
      /\ owner_core \in [Cores -> JsDoing]
  BY JsFacts DEF remove_dir_all, JsInv, JsTypes
<1>1. /\ k.dir \in DirIds /\ d \in JsDir /\ d.name = "prepare" /\ d.digest = k.digest
      /\ k.digest \in Digests /\ cacheLock[k.digest] = p
      /\ k.purpose \notin {"sweep", "failed"} => k.cand \in DOMAIN Candidates[p]
  BY <1>0 DEF JsDoes, JsLocked
<1>2. ASSUME NEW f \in d.files, dirs' = [dirs EXCEPT ![k.dir].files = d.files \ {f}],
             UNCHANGED <<owner_core, cacheLock>>
      PROVE  JsInv'
  <2>1. PICK r : r = [d EXCEPT !.files = d.files \ {f}]
    OBVIOUS
  <2>2. r \in JsDir /\ r.name = "prepare" /\ r.digest = k.digest
    BY <1>1, <2>1 DEF JsDir
  <2>3. dirs' = [dirs EXCEPT ![k.dir] = r] /\ dirs'[k.dir] = r
    BY <1>0, <1>1, <1>2, <2>1
  <2>4. JsDirOk(r) /\ JsDoes(p, k)'
    BY <1>0, <1>1, <1>2, <2>2, <2>3 DEF JsDirOk, JsDoes, JsLocked, JsSteps, Steps
  <2>5. PICK c : c = k
    OBVIOUS
  <2>6. c \in JsDoing /\ JsDoes(p, c)' /\ owner_core' = [owner_core EXCEPT ![p] = c]
    BY <1>0, <1>2, <2>4, <2>5 DEF JsDoes
  <2>7. owner_core[p].at \in {"removing", "gc"} /\ dirs' = [dirs EXCEPT ![owner_core[p].dir] = r]
    BY <1>0, <2>3
  <2> HIDE DEF k, d
  <2> QED
    BY <1>0, <1>2, <2>2, <2>4, <2>6, <2>7, JsShrinks
<1>3. CASE dirs' = [dirs EXCEPT ![k.dir] = NoDir] /\ Errs(p)
  <2>1. /\ owner_core' = [owner_core EXCEPT ![p] = Resting] /\ cacheLock' = Unlocked(p)
    BY <1>3 DEF Errs, GoesTo
  <2>2. /\ Resting \in JsDoing /\ JsDoes(p, Resting)'
        /\ Unlocked(p) \in [Digests -> Cores \cup {Free}]
        /\ \A e \in Digests : Unlocked(p)[e] = cacheLock[e] \/ cacheLock[e] \in {p, Free}
    BY <1>0, JsRest, JsUnlocked
  <2>3. owner_core[p].at \in {"removing", "gc"} /\ dirs' = [dirs EXCEPT ![owner_core[p].dir] = NoDir]
    BY <1>0, <1>3
  <2> HIDE DEF k, d
  <2> QED
    BY <1>0, <2>1, <2>2, <2>3, JsNoDir, JsShrinks
<1>4. CASE /\ dirs' = [dirs EXCEPT ![k.dir] = NoDir] /\ k.purpose # "failed"
           /\ GoesTo(p, [k EXCEPT !.at = "clean", !.dir = 0]) /\ UNCHANGED cacheLock
  <2>1. PICK c : c = [k EXCEPT !.at = "clean", !.dir = 0]
    OBVIOUS
  <2>2. c \in JsDoing /\ c.at = "clean" /\ c.digest = k.digest /\ c.cand = k.cand /\ c.purpose = k.purpose
    BY <1>0, <2>1 DEF JsDoing, JsLocked
  <2>3. owner_core' = [owner_core EXCEPT ![p] = c]
    BY <1>4, <2>1 DEF GoesTo
  <2>4. JsDoes(p, c)'
    BY <1>1, <1>4, <2>2 DEF JsDoes, JsLocked, JsSteps, Steps
  <2>5. owner_core[p].at \in {"removing", "gc"} /\ dirs' = [dirs EXCEPT ![owner_core[p].dir] = NoDir]
    BY <1>0, <1>4
  <2> HIDE DEF k, d
  <2> QED
    BY <1>0, <1>4, <2>2, <2>3, <2>4, <2>5, JsNoDir, JsShrinks
<1> QED
  BY <1>2, <1>3, <1>4 DEF remove_dir_all

(* The removal ends and the process goes on with what it removed the         *)
(* directory for.                                                            *)
LEMMA JsFinishes ==
  ASSUME JsInv, NEW p \in Cores, finish_retired_gc(p)
  PROVE  JsInv'
<1> DEFINE k == owner_core[p]
           d == dirs[owner_core[p].dir]
           f == IF "node" \in d.files THEN "node" ELSE IF "license" \in d.files THEN "license" ELSE "marker"
<1>0. /\ k \in JsDoing /\ JsDoes(p, k) /\ dirs \in [DirIds -> JsDir] /\ k.at = "gc"
      /\ cacheLock \in [Digests -> Cores \cup {Free}] /\ UNCHANGED <<held, deaths>>
      /\ owner_core \in [Cores -> JsDoing] /\ \A i \in DirIds : JsDirOk(dirs[i])
  BY JsFacts DEF finish_retired_gc, JsInv, JsTypes
<1>1. /\ k.dir \in DirIds /\ d \in JsDir /\ d.name = "gc" /\ d.digest = k.digest
      /\ k.digest \in Digests /\ cacheLock[k.digest] = p /\ JsDirOk(d)
  BY <1>0 DEF JsDoes, JsLocked
<1>2. CASE /\ "marker" \in d.files /\ dirs' = [dirs EXCEPT ![k.dir].files = d.files \ {f}]
           /\ UNCHANGED <<owner_core, cacheLock>>
  <2>1. PICK r : r = [d EXCEPT !.files = d.files \ {f}]
    OBVIOUS
  <2>2. r \in JsDir /\ r.name = "gc" /\ r.digest = k.digest /\ r.files = d.files \ {f}
    BY <1>1, <2>1 DEF JsDir
  <2>3. dirs' = [dirs EXCEPT ![k.dir] = r] /\ dirs'[k.dir] = r
    BY <1>0, <1>1, <1>2, <2>1
  <2>4. r.files \subseteq WholeCopy /\ (r.files # {} => "marker" \in r.files)
    BY <1>1, <1>2, <2>2 DEF JsDirOk, WholeCopy
  <2>5. JsDirOk(r) /\ JsDoes(p, k)'
    BY <1>0, <1>1, <1>2, <2>2, <2>3, <2>4 DEF JsDirOk, JsDoes, JsLocked, JsSteps, Steps
  <2>6. PICK c : c = k
    OBVIOUS
  <2>7. c \in JsDoing /\ JsDoes(p, c)' /\ owner_core' = [owner_core EXCEPT ![p] = c]
    BY <1>0, <1>2, <2>5, <2>6 DEF JsDoes
  <2>8. owner_core[p].at \in {"removing", "gc"} /\ dirs' = [dirs EXCEPT ![owner_core[p].dir] = r]
    BY <1>0, <2>3
  <2> HIDE DEF k, d, f
  <2> QED
    BY <1>0, <1>2, <2>2, <2>5, <2>7, <2>8, JsShrinks
<1>3. CASE /\ dirs' = [dirs EXCEPT ![k.dir] = NoDir]
           /\ GoesTo(p, [k EXCEPT !.at = "prune", !.dir = 0]) /\ cacheLock' = Unlocked(p)
  <2>1. PICK c : c = [k EXCEPT !.at = "prune", !.dir = 0]
    OBVIOUS
  <2>2. c \in JsDoing /\ c.at = "prune"
    BY <1>0, <2>1 DEF JsDoing, JsLocked
  <2>3. owner_core' = [owner_core EXCEPT ![p] = c]
    BY <1>3, <2>1 DEF GoesTo
  <2>4. JsDoes(p, c)'
    BY <2>2 DEF JsDoes, JsLocked, JsSteps, Steps
  <2>5. /\ Unlocked(p) \in [Digests -> Cores \cup {Free}]
        /\ \A e \in Digests : Unlocked(p)[e] = cacheLock[e] \/ cacheLock[e] \in {p, Free}
    BY <1>0, JsUnlocked
  <2>6. owner_core[p].at \in {"removing", "gc"} /\ dirs' = [dirs EXCEPT ![owner_core[p].dir] = NoDir]
    BY <1>0, <1>3
  <2> HIDE DEF k, d, f
  <2> QED
    BY <1>0, <1>3, <2>2, <2>3, <2>4, <2>5, <2>6, JsNoDir, JsShrinks
<1> QED
  BY <1>2, <1>3 DEF finish_retired_gc

(* The sweeps of preparations and of retired caches, pruning, the release of *)
(* a cache and the death of a process.                                       *)
LEMMA JsSweeps ==
  ASSUME JsInv, NEW p \in Cores,
         SweepsPreparations(p) \/ ResumesRetired(p) \/ prune_obsolete_inner(p)
  PROVE  JsInv'
<1> USE JsFree
<1>0. /\ owner_core[p] \in JsDoing /\ cacheLock \in [Digests -> Cores \cup {Free}]
      /\ dirs \in [DirIds -> JsDir] /\ held \in [Cores -> SUBSET DirIds] /\ deaths \in 0..MaxDeaths
      /\ \A q \in Cores : \A i \in held[q] : dirs[i].name = "cache"
      /\ \A i \in DirIds : JsDirOk(dirs[i])
  BY JsFacts
<1>1. ASSUME NEW i \in DirIds, NEW at \in {"clean", "gc"}, SweepsCache(p, i, at), dirs[i].name # "none",
             dirs' = dirs, at = "gc" => dirs[i].name = "gc"
      PROVE  JsInv'
  <2>1. PICK c : c = [owner_core[p] EXCEPT !.at = at, !.purpose = "sweep", !.digest = dirs[i].digest, !.dir = i]
    OBVIOUS
  <2>2. dirs[i].digest \in Digests
    BY <1>0, <1>1 DEF JsDirOk
  <2>3. c \in JsDoing /\ c.at = at /\ c.purpose = "sweep" /\ c.digest = dirs[i].digest /\ c.dir = i
    BY <1>0, <2>1, <2>2 DEF JsDoing, JsLocked
  <2>4. /\ owner_core' = [owner_core EXCEPT ![p] = c] /\ cacheLock[dirs[i].digest] = Free
        /\ cacheLock' = [cacheLock EXCEPT ![dirs[i].digest] = p] /\ UNCHANGED <<held, deaths>>
    BY <1>1, <2>1 DEF SweepsCache, GoesTo
  <2>5. /\ cacheLock' \in [Digests -> Cores \cup {Free}] /\ cacheLock'[dirs[i].digest] = p
        /\ \A d \in Digests : cacheLock'[d] = cacheLock[d] \/ cacheLock[d] \in {p, Free}
    BY <1>0, <2>2, <2>4
  <2>6. JsDoes(p, c)'
    BY <1>1, <2>2, <2>3, <2>5 DEF JsDoes, JsLocked, JsSteps, Steps
  <2> QED
    BY <1>0, <1>1, <2>3, <2>4, <2>5, <2>6, JsQuiet
<1>2. CASE SweepsPreparations(p) \/ ResumesRetired(p)
  BY <1>1, <1>2 DEF SweepsPreparations, ResumesRetired
<1>3. CASE prune_obsolete_inner(p)
  <2>1. PICK i \in DirIds :
          /\ dirs[i].name = "cache" /\ cache_layout(i) /\ cache_is_idle(i)
          /\ dirs' = [dirs EXCEPT ![i].name = "gc"]
          /\ SweepsCache(p, i, "gc")
    BY <1>3 DEF prune_obsolete_inner
  <2>2. PICK r : r = [dirs[i] EXCEPT !.name = "gc"]
    OBVIOUS
  <2>3. dirs[i].digest \in Digests /\ dirs[i] \in JsDir
    BY <1>0, <2>1 DEF JsDirOk
  <2>4. r \in JsDir /\ r.name = "gc" /\ r.digest = dirs[i].digest /\ r.files = WholeCopy
    BY <2>1, <2>2, <2>3 DEF JsDir, cache_layout
  <2>5. PICK c : c = [owner_core[p] EXCEPT !.at = "gc", !.purpose = "sweep", !.digest = dirs[i].digest, !.dir = i]
    OBVIOUS
  <2>6. c \in JsDoing /\ c.at = "gc" /\ c.purpose = "sweep" /\ c.digest = dirs[i].digest /\ c.dir = i
    BY <1>0, <2>3, <2>5 DEF JsDoing, JsLocked
  <2>7. /\ owner_core' = [owner_core EXCEPT ![p] = c] /\ cacheLock[dirs[i].digest] = Free
        /\ cacheLock' = [cacheLock EXCEPT ![dirs[i].digest] = p] /\ UNCHANGED <<held, deaths>>
    BY <2>1, <2>5 DEF SweepsCache, GoesTo
  <2>8. /\ cacheLock' \in [Digests -> Cores \cup {Free}] /\ cacheLock'[dirs[i].digest] = p
        /\ \A d \in Digests : cacheLock'[d] = cacheLock[d] \/ cacheLock[d] \in {p, Free}
    BY <1>0, <2>3, <2>7
  <2>9. dirs' = [dirs EXCEPT ![i] = r] /\ dirs'[i] = r
    BY <1>0, <2>1, <2>2
  <2>10. JsDoes(p, c)'
    BY <2>3, <2>4, <2>6, <2>8, <2>9 DEF JsDoes, JsLocked, JsSteps, Steps
  <2>11. JsDirOk(r) /\ \A q \in Cores : i \notin held[q]
    BY <2>1, <2>3, <2>4 DEF JsDirOk, WholeCopy, cache_is_idle
  <2> QED
    BY <1>0, <2>1, <2>4, <2>6, <2>7, <2>8, <2>9, <2>10, <2>11, JsDirChange
<1> QED
  BY <1>2, <1>3

(* Every step of every process keeps the invariant of the cache root.         *)
LEMMA JsStep == JsInv /\ [JsNext]_jsVars => JsInv'
<1> SUFFICES ASSUME JsInv, [JsNext]_jsVars PROVE JsInv'
  OBVIOUS
<1>1. ASSUME NEW p \in Cores,
        \/ ensure_managed(p) \/ lock(p) \/ js_runtime_busy(p)
        \/ cleanup_interrupted_for_key(p) \/ remove_dir_all(p) \/ CleanupEnds(p) \/ existing_cache(p)
        \/ write_preparing(p) \/ download_archive(p) \/ NextAttempt(p) \/ Fills(p) \/ ChecksPrepared(p)
        \/ write_marker(p) \/ RemovesPreparing(p) \/ Publishes(p) \/ PreparationFails(p)
        \/ SweepsPreparations(p) \/ ResumesRetired(p) \/ prune_obsolete_inner(p)
        \/ finish_retired_gc(p) \/ prune_obsolete(p)
        \/ Releases(p) \/ CoreDies(p)
      PROVE  JsInv'
  BY <1>1, JsChooses, JsStays, JsBusy, JsOpens, JsWrites, JsPublishes, JsRemoves, JsFinishes, JsSweeps
<1>2. CASE UNCHANGED jsVars
  BY <1>2 DEF jsVars, JsInv, JsTypes, JsDirsOk, JsDoes
<1> QED
  BY <1>1, <1>2 DEF JsNext

(* An empty cache root satisfies the invariant.                              *)
LEMMA JsStart == JsInit => JsInv
<1> SUFFICES ASSUME JsInit PROVE JsInv
  OBVIOUS
<1>1. JsTypes
  BY JsConstants, JsNoDir DEF JsInit, JsTypes, JsDoing, Resting
<1>2. JsDirsOk
  BY JsNoDir DEF JsInit, JsDirsOk
<1>3. \A p \in Cores : JsDoes(p, owner_core[p])
  BY DEF JsInit, Resting, JsDoes, JsLocked, JsSteps, Steps
<1> QED
  BY <1>1, <1>2, <1>3 DEF JsInv

(* The invariant contains what the run checks.                               *)
LEMMA JsImplies == JsInv => ProvisionSound
<1> SUFFICES ASSUME JsInv PROVE ProvisionSound
  OBVIOUS
<1>0. JsTypes /\ JsDirsOk /\ (\A p \in Cores : JsDoes(p, owner_core[p])) /\ dirs \in [DirIds -> JsDir]
      /\ owner_core \in [Cores -> JsDoing] /\ \A i \in DirIds : JsDirOk(dirs[i])
  BY DEF JsInv, JsTypes, JsDirsOk
<1>1. JsTypeOK
  BY <1>0 DEF JsTypes, JsTypeOK, JsDir, JsDoing
<1>2. PublishedWhole
  <2> SUFFICES ASSUME NEW d \in Digests
               PROVE  /\ Cardinality(Named("cache", d)) <= 1
                      /\ \A i \in Named("cache", d) : cache_layout(i) /\ dirs[i].good
    BY DEF PublishedWhole
  <2>1. \A i, j \in Named("cache", d) : i = j
    BY <1>0 DEF JsDirsOk, Named
  <2>2. CASE Named("cache", d) = {}
    <3>1. Cardinality(Named("cache", d)) = 0
      BY <2>2, FS_EmptySet
    <3> QED
      BY <2>2, <3>1
  <2>3. CASE Named("cache", d) # {}
    <3>1. PICK i : Named("cache", d) = {i}
      BY <2>1, <2>3
    <3>2. Cardinality(Named("cache", d)) = 1
      BY <3>1, FS_Singleton
    <3>3. cache_layout(i) /\ dirs[i].good
      BY <1>0, <3>1 DEF Named, JsDirOk, cache_layout
    <3> QED
      BY <3>1, <3>2, <3>3
  <2> QED
    BY <2>2, <2>3
<1>3. InUseStays
  BY <1>0 DEF InUseStays, JsDirsOk, JsDirOk, cache_layout, JsTypes
<1>4. PreparationKept
  <2> SUFFICES ASSUME NEW p \in Cores, owner_core[p].at \in JsSteps
               PROVE  /\ dirs[owner_core[p].dir].name = "prepare" /\ dirs[owner_core[p].dir].digest = owner_core[p].digest
                      /\ cacheLock[owner_core[p].digest] = p
                      /\ owner_core[p].at # "new" => preparation_owned(owner_core[p].dir)
                      /\ owner_core[p].at = "download" => "archive" \notin Files(p)
    BY DEF PreparationKept, JsSteps
  <2>1. JsDoes(p, owner_core[p]) /\ JsProgress(owner_core[p].at, dirs[owner_core[p].dir])
    BY <1>0 DEF JsDoes
  <2>2. owner_core[p].at # "new" => preparation_owned(owner_core[p].dir)
    BY <2>1 DEF JsProgress, preparation_owned, JsSteps, Steps, WholeCopy
  <2>3. owner_core[p].at = "download" => "archive" \notin Files(p)
    BY <2>1 DEF JsProgress, Files
  <2> QED
    BY <2>1, <2>2, <2>3 DEF JsDoes, JsLocked
<1>5. RetiredIsFinishable
  BY <1>0 DEF RetiredIsFinishable, JsDirOk
<1> QED
  BY <1>1, <1>2, <1>3, <1>4, <1>5 DEF ProvisionSound

(* For any processes, digests and number of directories: what is published   *)
(* is whole and checked, one cache per digest, no directory that a runner    *)
(* holds open is removed, and no process disturbs the preparation of another *)
(* (js_runtime/provision.rs).                                                *)
THEOREM ProvisionIsSound == JsSpec => []ProvisionSound
  BY JsStart, JsStep, JsImplies, PTL DEF JsSpec

-----------------------------------------------------------------------------
(* The start of the client.                                                  *)

(* The stations of an attempt that may have a client before its status names *)
(* it.                                                                       *)
LaunchHasClient == {"created", "resumable", "commit", "finish", "attach", "publish"}

(* The stations after the last scan for processes: here no other client may  *)
(* exist.                                                                    *)
LaunchExcl == {"create", "helper", "waiting"} \cup LaunchHasClient

(* The stations at which a start holds the mutex of the user.                *)
LaunchGuarded == {"locked", "scanned", "attempt"} \cup LaunchExcl

(* The stations of a start.                                                  *)
LaunchPcs == {"idle", "recover", "over", "leased", "prepared", "connect", "starting", "up"} \cup LaunchGuarded

(* The types of what Windows keeps, ...                                      *)
LaunchWin == [mutex : Launchers \cup {Nobody}, active : 1 .. MaxPackage, listed : 1 .. MaxPackage, user : BOOLEAN,
              running : {0, 1}, frozen : BOOLEAN, shared : BOOLEAN]

(* ... of a start, ...                                                       *)
LaunchBoot == [pc : LaunchPcs, safe : BOOLEAN, reason : {"none", "compat", "lease"}, sel : 0 .. MaxPackage,
               seen : SUBSET (0 .. MaxPackage), starts : 0 .. MaxStarts, armed : BOOLEAN, debug : BOOLEAN,
               said : 0 .. MaxPackage, leases : BOOLEAN]

(* ... of its helper, ...                                                    *)
LaunchAide == [pc : {"none", "up", "asked", "ready", "failed"}, pkg : 0 .. MaxPackage, armed : BOOLEAN]

(* ... and of its client.                                                    *)
LaunchClient == [st : {"none", "suspended", "running"}, pkg : 0 .. MaxPackage, patched : BOOLEAN]

(* The types of all the state.                                               *)
LaunchTypes ==
    /\ win \in LaunchWin
    /\ boot \in [Launchers -> LaunchBoot]
    /\ aide \in [Launchers -> LaunchAide]
    /\ client \in [Launchers -> LaunchClient]

(* What a start has selected, published and leased, and when it debugs.      *)
LaunchStartOk(b) ==
    /\ b.pc \in {"idle", "recover", "over"} => ~b.leases
    /\ b.pc \in {"scanned", "attempt", "starting", "up"} \cup LaunchExcl => b.sel # 0
    /\ b.said = IF b.pc \in {"starting", "up"} THEN b.sel ELSE 0
    /\ b.debug => b.pc \in {"resumable", "commit", "finish", "attach"} /\ ~b.safe /\ b.reason # "lease"

(* The client of a start, against where the start is.                        *)
LaunchClientOk(b, a, c) ==
    /\ c.st # "none" => b.pc \in LaunchHasClient \cup {"waiting", "starting", "up"}
    /\ b.pc \in {"created", "resumable"} => c.st = "suspended"
    /\ b.pc \in {"commit", "finish"} => c.st = "running"
    /\ b.pc \in {"attach", "publish", "starting", "up"} => c.st # "suspended"
    /\ b.pc = "waiting" => c.st = IF a.pc = "ready" THEN "suspended" ELSE "none"
    /\ c.st # "none" /\ b.pc # "created" => c.pkg = b.sel
    /\ c.patched => b.debug /\ c.st = "running"

(* The helper of a start, against where the start is and the client it       *)
(* reported.                                                                 *)
LaunchAideOk(b, a, c) ==
    /\ b.pc \notin {"helper", "waiting", "created", "resumable", "commit"} => a.pc = "none"
    /\ b.pc = "helper" => a.pc \in {"up", "failed"}
    /\ b.pc = "waiting" => a.pc \in {"asked", "ready", "failed"} /\ (a.pc = "asked" => a.pkg = b.sel)
    /\ b.pc \in {"created", "resumable"} => a.pc \in {"none", "ready"}
    /\ b.pc = "commit" => a.pc = "ready"
    /\ a.pc = "ready" => c.pkg = b.sel
    /\ a.pc = "up" => a.pkg # 0

(* What the mutex, the scan and the lease of one start exclude of all the    *)
(* others.                                                                   *)
LaunchAlone(l) ==
    /\ boot[l].pc \in LaunchExcl => win.running = 0 /\ \A o \in Launchers \ {l} : client[o].st = "none"
    /\ client[l].st = "running" => win.running = 0 /\ \A o \in Launchers \ {l} : client[o].st # "running"
    /\ win.shared /\ boot[l].leases => \A o \in Launchers \ {l} : ~boot[o].leases

(* The inductive invariant of the start of the client.                       *)
LaunchInv ==
    /\ LaunchTypes
    /\ \A l \in Launchers :
          /\ boot[l].pc \in LaunchGuarded <=> win.mutex = l
          /\ LaunchStartOk(boot[l]) /\ LaunchClientOk(boot[l], aide[l], client[l]) /\ LaunchAideOk(boot[l], aide[l], client[l])
    /\ \A l \in Launchers : LaunchAlone(l)

(* What the invariant says of one start.                                     *)
LEMMA LaunchFacts ==
  ASSUME LaunchInv, NEW l \in Launchers
  PROVE  /\ win \in LaunchWin /\ boot \in [Launchers -> LaunchBoot] /\ aide \in [Launchers -> LaunchAide]
         /\ client \in [Launchers -> LaunchClient]
         /\ boot[l] \in LaunchBoot /\ aide[l] \in LaunchAide /\ client[l] \in LaunchClient
         /\ boot[l].pc \in LaunchGuarded <=> win.mutex = l
         /\ LaunchStartOk(boot[l]) /\ LaunchClientOk(boot[l], aide[l], client[l]) /\ LaunchAideOk(boot[l], aide[l], client[l])
         /\ LaunchAlone(l) /\ l # Nobody /\ Nobody \notin Launchers
  BY LaunchConstants DEF LaunchInv, LaunchTypes, Nobody

(* Members of the intervals that the records range over.                     *)
LEMMA LaunchBounds ==
  /\ 0 \in 0 .. MaxPackage /\ 0 \in 0 .. MaxStarts /\ {} \in SUBSET (0 .. MaxPackage)
  /\ \A n : n \in 1 .. MaxPackage => n \in 0 .. MaxPackage /\ n # 0
  /\ MaxPackage \in Nat /\ MaxStarts \in Nat
  BY LaunchConstants

(* A step of one start keeps the invariant if it keeps the parts of that     *)
(* start and what the others exclude.                                        *)
LEMMA LaunchMoves ==
  ASSUME LaunchInv, NEW l \in Launchers, NEW b \in LaunchBoot, NEW a \in LaunchAide, NEW c \in LaunchClient, NEW w \in LaunchWin,
         win' = w, boot' = [boot EXCEPT ![l] = b], aide' = [aide EXCEPT ![l] = a], client' = [client EXCEPT ![l] = c],
         w.shared = win.shared,
         w.mutex = win.mutex \/ (w.mutex = l /\ win.mutex = Nobody) \/ (w.mutex = Nobody /\ win.mutex = l),
         b.pc \in LaunchGuarded <=> w.mutex = l, LaunchStartOk(b), LaunchClientOk(b, a, c), LaunchAideOk(b, a, c),
         b.pc \in LaunchExcl => w.running = 0 /\ \A o \in Launchers \ {l} : client[o].st = "none",
         c.st = "running" => w.running = 0 /\ \A o \in Launchers \ {l} : client[o].st # "running",
         win.shared /\ b.leases => \A o \in Launchers \ {l} : ~boot[o].leases,
         \A o \in Launchers \ {l} :
            /\ boot[o].pc \in LaunchExcl => c.st = "none" /\ w.running = 0
            /\ client[o].st = "running" => c.st # "running" /\ w.running = 0
            /\ win.shared /\ boot[o].leases => ~b.leases
  PROVE  LaunchInv'
<1>1. /\ boot \in [Launchers -> LaunchBoot] /\ aide \in [Launchers -> LaunchAide] /\ client \in [Launchers -> LaunchClient]
      /\ Nobody \notin Launchers
  BY LaunchFacts
<1>2. /\ boot'[l] = b /\ aide'[l] = a /\ client'[l] = c
      /\ \A o \in Launchers \ {l} : boot'[o] = boot[o] /\ aide'[o] = aide[o] /\ client'[o] = client[o]
  BY <1>1
<1>3. LaunchTypes'
  BY <1>1 DEF LaunchTypes
<1>4. ASSUME NEW o \in Launchers
      PROVE  /\ boot'[o].pc \in LaunchGuarded <=> win'.mutex = o
             /\ LaunchStartOk(boot'[o]) /\ LaunchClientOk(boot'[o], aide'[o], client'[o]) /\ LaunchAideOk(boot'[o], aide'[o], client'[o])
  <2>1. CASE o = l
    BY <1>2, <2>1
  <2>2. CASE o # l
    <3>1. boot'[o] = boot[o] /\ aide'[o] = aide[o] /\ client'[o] = client[o]
      BY <1>2, <2>2
    <3>2. w.mutex = o <=> win.mutex = o
      BY <1>1, <2>2
    <3> QED
      BY <3>1, <3>2, LaunchFacts
  <2> QED
    BY <2>1, <2>2
<1>5. ASSUME NEW o \in Launchers
      PROVE  LaunchAlone(o)'
  <2>1. CASE o = l
    BY <1>2, <2>1 DEF LaunchAlone
  <2>2. CASE o # l
    <3>1. LaunchAlone(o)
      BY LaunchFacts
    <3>2. boot'[o] = boot[o] /\ client'[o] = client[o] /\ l \in Launchers \ {o}
      BY <1>2, <2>2
    <3>3. boot[o].pc \in LaunchExcl => w.running = 0 /\ \A q \in Launchers \ {o} : client'[q].st = "none"
      BY <1>2, <2>2, <3>1 DEF LaunchAlone
    <3>4. client[o].st = "running" => w.running = 0 /\ \A q \in Launchers \ {o} : client'[q].st # "running"
      BY <1>2, <2>2, <3>1 DEF LaunchAlone
    <3>5. w.shared /\ boot[o].leases => \A q \in Launchers \ {o} : ~boot'[q].leases
      BY <1>2, <2>2, <3>1 DEF LaunchAlone
    <3> QED
      BY <3>2, <3>3, <3>4, <3>5 DEF LaunchAlone
  <2> QED
    BY <2>1, <2>2
<1> QED
  BY <1>3, <1>4, <1>5 DEF LaunchInv

(* The start that holds the mutex is the only one at a guarded station.      *)
LEMMA LaunchHolder ==
  ASSUME LaunchInv, NEW l \in Launchers, boot[l].pc \in LaunchGuarded
  PROVE  /\ win.mutex = l
         /\ \A o \in Launchers \ {l} : boot[o].pc \notin LaunchGuarded /\ boot[o].pc \notin LaunchExcl
  BY LaunchFacts DEF LaunchGuarded

(* A step that enters no exclusive station, creates a client only at one,    *)
(* and takes no lease.                                                       *)
LEMMA LaunchKeeps ==
  ASSUME LaunchInv, NEW l \in Launchers, NEW b \in LaunchBoot, NEW a \in LaunchAide, NEW c \in LaunchClient, NEW w \in LaunchWin,
         win' = w, boot' = [boot EXCEPT ![l] = b], aide' = [aide EXCEPT ![l] = a], client' = [client EXCEPT ![l] = c],
         w.shared = win.shared, w.running = win.running,
         w.mutex = win.mutex \/ (w.mutex = l /\ win.mutex = Nobody) \/ (w.mutex = Nobody /\ win.mutex = l),
         b.pc \in LaunchGuarded <=> w.mutex = l, LaunchStartOk(b), LaunchClientOk(b, a, c), LaunchAideOk(b, a, c),
         b.pc \in LaunchExcl => boot[l].pc \in LaunchExcl,
         c.st = "none" \/ c.st = client[l].st \/ boot[l].pc \in LaunchExcl,
         b.leases => boot[l].leases
  PROVE  LaunchInv'
<1>1. LaunchAlone(l) /\ \A o \in Launchers \ {l} : LaunchAlone(o)
  BY LaunchFacts
<1>2. CASE boot[l].pc \in LaunchExcl
  <2>1. w.running = 0 /\ \A o \in Launchers \ {l} : client[o].st = "none"
    BY <1>1, <1>2 DEF LaunchAlone
  <2>2. \A o \in Launchers \ {l} : boot[o].pc \notin LaunchExcl
    BY <1>2, LaunchHolder DEF LaunchGuarded
  <2>3. \A o \in Launchers \ {l} : win.shared /\ boot[o].leases => ~b.leases
    BY <1>1 DEF LaunchAlone
  <2> QED
    BY <2>1, <2>2, <2>3, LaunchMoves
<1>3. CASE boot[l].pc \notin LaunchExcl
  <2>1. c.st = "none" \/ c.st = client[l].st
    BY <1>3
  <2>2. c.st = "running" => w.running = 0 /\ \A o \in Launchers \ {l} : client[o].st # "running"
    BY <1>1, <2>1 DEF LaunchAlone
  <2>3. win.shared /\ b.leases => \A o \in Launchers \ {l} : ~boot[o].leases
    BY <1>1 DEF LaunchAlone
  <2>4. ASSUME NEW o \in Launchers \ {l}
        PROVE  /\ boot[o].pc \in LaunchExcl => c.st = "none" /\ w.running = 0
               /\ client[o].st = "running" => c.st # "running" /\ w.running = 0
               /\ win.shared /\ boot[o].leases => ~b.leases
    BY <1>1, <2>1 DEF LaunchAlone
  <2> QED
    BY <1>3, <2>2, <2>3, <2>4, LaunchMoves
<1> QED
  BY <1>2, <1>3

(* A start ends, and its client runs on or goes with it.                     *)
LEMMA LaunchEnds ==
  ASSUME LaunchInv, NEW l \in Launchers, NEW b \in LaunchBoot, NEW a \in LaunchAide, NEW c \in LaunchClient, NEW w \in LaunchWin,
         win' = w, boot' = [boot EXCEPT ![l] = b], aide' = [aide EXCEPT ![l] = a], client' = [client EXCEPT ![l] = c],
         w.shared = win.shared, w.mutex = IF win.mutex = l THEN Nobody ELSE win.mutex,
         w.running = win.running \/ (w.running = 1 /\ client[l].st = "running"),
         b.pc \in {"idle", "recover", "over"}, ~b.leases, b.said = 0, ~b.debug, a.pc = "none", c.st = "none", ~c.patched
  PROVE  LaunchInv'
<1>1. b.pc \notin LaunchGuarded /\ b.pc \notin LaunchExcl
  BY DEF LaunchGuarded, LaunchExcl, LaunchHasClient
<1>2. w.mutex # l
  BY LaunchFacts
<1>3. LaunchStartOk(b) /\ LaunchClientOk(b, a, c) /\ LaunchAideOk(b, a, c)
  BY <1>1 DEF LaunchStartOk, LaunchClientOk, LaunchAideOk
<1>4. LaunchAlone(l) /\ \A o \in Launchers \ {l} : LaunchAlone(o)
  BY LaunchFacts
<1>5. ASSUME NEW o \in Launchers \ {l}
      PROVE  /\ boot[o].pc \in LaunchExcl => c.st = "none" /\ w.running = 0
             /\ client[o].st = "running" => c.st # "running" /\ w.running = 0
             /\ win.shared /\ boot[o].leases => ~b.leases
  BY <1>4 DEF LaunchAlone
<1> QED
  BY <1>1, <1>2, <1>3, <1>5, LaunchMoves

(* A step that moves only the start.                                         *)
LEMMA LaunchSets ==
  ASSUME LaunchInv, NEW l \in Launchers, NEW b \in LaunchBoot, boot' = [boot EXCEPT ![l] = b], UNCHANGED <<win, aide, client>>,
         b.pc \in LaunchGuarded <=> boot[l].pc \in LaunchGuarded, LaunchStartOk(b), LaunchClientOk(b, aide[l], client[l]), LaunchAideOk(b, aide[l], client[l]),
         b.pc \in LaunchExcl => boot[l].pc \in LaunchExcl, b.leases => boot[l].leases
  PROVE  LaunchInv'
<1>1. PICK a, c, w : a = aide[l] /\ c = client[l] /\ w = win
  OBVIOUS
<1>2. aide' = [aide EXCEPT ![l] = a] /\ client' = [client EXCEPT ![l] = c] /\ win' = w
  BY <1>1, LaunchFacts
<1>3. a \in LaunchAide /\ c \in LaunchClient /\ w \in LaunchWin /\ (b.pc \in LaunchGuarded <=> w.mutex = l)
  BY <1>1, LaunchFacts
<1> QED
  BY <1>1, <1>2, <1>3, LaunchKeeps

(* The empty client and the empty helper.                                    *)
LEMMA LaunchNones ==
  /\ NoClient \in LaunchClient /\ NoClient.st = "none" /\ ~NoClient.patched
  /\ NoAide \in LaunchAide /\ NoAide.pc = "none"
  BY LaunchBounds DEF NoClient, NoAide, LaunchClient, LaunchAide

(* What is left of a start that failed: a repeated start, or none.           *)
LEMMA LaunchAgain ==
  ASSUME LaunchInv, NEW l \in Launchers, NEW reason
  PROVE  /\ Again(l, reason) \in LaunchBoot /\ Again(l, reason).pc \in {"recover", "over"}
         /\ ~Again(l, reason).leases /\ Again(l, reason).said = 0 /\ ~Again(l, reason).debug
<1>1. PICK n : n = boot[l].starts
  OBVIOUS
<1>2. n \in 0 .. MaxStarts
  BY <1>1, LaunchFacts DEF LaunchBoot
<1>3. CASE boot[l].reason = "none" /\ ~boot[l].safe /\ reason \in {"compat", "lease"}
  <2>1. Again(l, reason) = [pc |-> "recover", safe |-> FALSE, reason |-> reason, sel |-> 0, seen |-> {}, starts |-> n,
                            armed |-> FALSE, debug |-> FALSE, said |-> 0, leases |-> FALSE]
    BY <1>1, <1>3 DEF Again, NoBoot
  <2> QED
    BY <1>2, <1>3, <2>1, LaunchBounds DEF LaunchBoot, LaunchPcs
<1>4. CASE ~(boot[l].reason = "none" /\ ~boot[l].safe /\ reason \in {"compat", "lease"})
  <2>1. Again(l, reason) = [pc |-> "over", safe |-> FALSE, reason |-> "none", sel |-> 0, seen |-> {}, starts |-> n,
                            armed |-> FALSE, debug |-> FALSE, said |-> 0, leases |-> FALSE]
    BY <1>1, <1>4 DEF Again, NoBoot
  <2> QED
    BY <1>2, <2>1, LaunchBounds DEF LaunchBoot, LaunchPcs
<1> QED
  BY <1>3, <1>4

(* What is left of a start that ended.                                       *)
LEMMA LaunchOver ==
  ASSUME LaunchInv, NEW l \in Launchers, NEW q \in {"over", "idle"}
  PROVE  LET b == [NoBoot EXCEPT !.pc = q, !.starts = boot[l].starts] IN
         b \in LaunchBoot /\ b.pc = q /\ ~b.leases /\ b.said = 0 /\ ~b.debug
<1>1. PICK n : n = boot[l].starts
  OBVIOUS
<1>2. n \in 0 .. MaxStarts
  BY <1>1, LaunchFacts DEF LaunchBoot
<1>0. PICK b : b = [NoBoot EXCEPT !.pc = q, !.starts = n]
  OBVIOUS
<1>3. b = [pc |-> q, safe |-> FALSE, reason |-> "none", sel |-> 0, seen |-> {}, starts |-> n,
                            armed |-> FALSE, debug |-> FALSE, said |-> 0, leases |-> FALSE]
  BY <1>0 DEF NoBoot
<1>4. b \in LaunchBoot /\ b.pc = q /\ ~b.leases /\ b.said = 0 /\ ~b.debug
  BY <1>2, <1>3, LaunchBounds DEF LaunchBoot, LaunchPcs
<1> QED
  BY <1>0, <1>1, <1>4

(* The mutex is released and a client without an owner counted as running.   *)
LEMMA LaunchReleases ==
  ASSUME LaunchInv, NEW l \in Launchers, Release(l)
  PROVE  /\ win' \in LaunchWin /\ win'.shared = win.shared
         /\ win'.mutex = IF win.mutex = l THEN Nobody ELSE win.mutex
         /\ win'.running = win.running \/ (win'.running = 1 /\ client[l].st = "running")
<1>1. PICK w, m, n : /\ w = win /\ m = IF w.mutex = l THEN Nobody ELSE w.mutex
                     /\ n = w.running + (IF Outlives(l) THEN 1 ELSE 0)
  OBVIOUS
<1>2. w \in LaunchWin /\ (client[l].st = "running" => w.running = 0)
  BY <1>1, LaunchFacts DEF LaunchAlone
<1>3. n = w.running \/ (n = 1 /\ client[l].st = "running")
  BY <1>1, <1>2 DEF Outlives, LaunchWin
<1>4. n \in {0, 1} /\ m \in Launchers \cup {Nobody}
  BY <1>1, <1>2, <1>3 DEF LaunchWin
<1>5. win' = [w EXCEPT !.mutex = m, !.running = n]
  BY <1>1 DEF Release
<1> QED
  BY <1>1, <1>2, <1>3, <1>4, <1>5 DEF LaunchWin

(* A failed start unwinds, ...                                               *)
LEMMA LaunchUnwinds ==
  ASSUME LaunchInv, NEW l \in Launchers, NEW reason, Unwind(l, reason), NEW a \in LaunchAide, a.pc = "none",
         aide' = [aide EXCEPT ![l] = a]
  PROVE  LaunchInv'
<1>1. PICK b, c, w : b = Again(l, reason) /\ c = NoClient /\ w = win'
  OBVIOUS
<1>2. boot' = [boot EXCEPT ![l] = b] /\ client' = [client EXCEPT ![l] = c] /\ Release(l)
  BY <1>1 DEF Unwind, Moves
<1>3. b \in LaunchBoot /\ b.pc \in {"recover", "over"} /\ ~b.leases /\ b.said = 0 /\ ~b.debug
  BY <1>1, LaunchAgain
<1>4. c \in LaunchClient /\ c.st = "none" /\ ~c.patched
  BY <1>1, LaunchNones
<1>5. /\ w \in LaunchWin /\ w.shared = win.shared /\ w.mutex = IF win.mutex = l THEN Nobody ELSE win.mutex
      /\ w.running = win.running \/ (w.running = 1 /\ client[l].st = "running")
  BY <1>1, <1>2, LaunchReleases
<1> QED
  BY <1>1, <1>2, <1>3, <1>4, <1>5, LaunchEnds

(* ... also where it has no helper.                                          *)
LEMMA LaunchFails ==
  ASSUME LaunchInv, NEW l \in Launchers, NEW reason, Fail(l, reason),
         boot[l].pc \notin {"helper", "waiting", "created", "resumable", "commit"}
  PROVE  LaunchInv'
<1>1. PICK a : a = aide[l]
  OBVIOUS
<1>2. a \in LaunchAide /\ a.pc = "none" /\ aide' = [aide EXCEPT ![l] = a]
  BY <1>1, LaunchFacts DEF LaunchAideOk, Fail
<1> QED
  BY <1>2, LaunchUnwinds DEF Fail

(* The start at its next station.                                            *)
LEMMA LaunchTo ==
  ASSUME LaunchInv, NEW l \in Launchers, NEW pc \in LaunchPcs
  PROVE  /\ To(l, pc) \in LaunchBoot /\ To(l, pc).pc = pc
         /\ To(l, pc).leases = boot[l].leases /\ To(l, pc).safe = boot[l].safe /\ To(l, pc).reason = boot[l].reason
         /\ To(l, pc).sel = boot[l].sel /\ To(l, pc).said = boot[l].said /\ To(l, pc).debug = boot[l].debug
         /\ To(l, pc).armed = boot[l].armed /\ To(l, pc).seen = boot[l].seen /\ To(l, pc).starts = boot[l].starts
<1>1. PICK b : b = boot[l]
  OBVIOUS
<1>2. b \in LaunchBoot
  BY <1>1, LaunchFacts
<1> QED
  BY <1>1, <1>2 DEF To, LaunchBoot

(* A step to the next station before anything is held.                       *)
LEMMA LaunchPlain ==
  ASSUME LaunchInv, NEW l \in Launchers, NEW q, Stage(l, q), NEW pc, Moves(l, To(l, pc)), UNCHANGED <<win, aide, client>>,
         <<q, pc>> \in {<<"leased", "prepared">>, <<"prepared", "connect">>, <<"scanned", "attempt">>}
  PROVE  LaunchInv'
<1>1. PICK b : b = To(l, pc)
  OBVIOUS
<1>2. boot[l].pc = q /\ boot' = [boot EXCEPT ![l] = b] /\ pc \in {"prepared", "connect", "attempt"}
  BY <1>1 DEF Stage, Moves
<1>3. pc \in LaunchPcs
  BY <1>2 DEF LaunchPcs, LaunchGuarded
<1>4. /\ b \in LaunchBoot /\ b.pc = pc /\ b.leases = boot[l].leases /\ b.sel = boot[l].sel /\ b.said = boot[l].said
      /\ b.debug = boot[l].debug
  BY <1>1, <1>3, LaunchTo
<1>5. LaunchStartOk(boot[l]) /\ LaunchClientOk(boot[l], aide[l], client[l]) /\ LaunchAideOk(boot[l], aide[l], client[l])
  BY LaunchFacts
<1>6. /\ pc \in LaunchGuarded <=> q \in LaunchGuarded
      /\ pc \notin LaunchExcl /\ q \notin LaunchExcl /\ q \notin LaunchHasClient \cup {"waiting", "starting", "up"}
      /\ (pc = "attempt" => q = "scanned")
  BY DEF LaunchGuarded, LaunchExcl, LaunchHasClient
<1>7. LaunchStartOk(b)
  BY <1>2, <1>4, <1>5, <1>6 DEF LaunchStartOk
<1>8. client[l].st = "none" /\ aide[l].pc = "none"
  BY <1>2, <1>5, <1>6 DEF LaunchClientOk, LaunchAideOk
<1>9. LaunchClientOk(b, aide[l], client[l]) /\ LaunchAideOk(b, aide[l], client[l])
  BY <1>2, <1>4, <1>5, <1>8 DEF LaunchClientOk, LaunchAideOk
<1> QED
  BY <1>2, <1>4, <1>6, <1>7, <1>9, LaunchSets

(* The registry lease is taken.                                              *)
LEMMA LaunchAcquires ==
  ASSUME LaunchInv, NEW l \in Launchers, acquire(l)
  PROVE  LaunchInv'
<1>1. PICK safe \in BOOLEAN :
        boot' = [boot EXCEPT ![l] = [boot[l] EXCEPT !.pc = "leased", !.leases = TRUE, !.safe = safe, !.starts = @ + 1]]
  BY DEF acquire, Moves
<1>2. /\ boot[l].pc \in {"idle", "recover"} /\ boot[l].starts < MaxStarts /\ UNCHANGED <<win, aide, client>>
      /\ ~win.shared \/ \A o \in Launchers \ {l} : ~boot[o].leases
  BY DEF acquire
<1>3. PICK e, a, c, w : e = boot[l] /\ a = aide[l] /\ c = client[l] /\ w = win
  OBVIOUS
<1>4. /\ e \in LaunchBoot /\ a \in LaunchAide /\ c \in LaunchClient /\ w \in LaunchWin
      /\ LaunchStartOk(e) /\ LaunchClientOk(e, a, c) /\ LaunchAideOk(e, a, c) /\ (e.pc \in LaunchGuarded <=> w.mutex = l)
  BY <1>3, LaunchFacts
<1>5. PICK n : n = e.starts + 1
  OBVIOUS
<1>6. n \in 0 .. MaxStarts
  BY <1>2, <1>3, <1>4, <1>5, LaunchBounds DEF LaunchBoot
<1>7. PICK b : b = [e EXCEPT !.pc = "leased", !.leases = TRUE, !.safe = safe, !.starts = n]
  OBVIOUS
<1>8. /\ b \in LaunchBoot /\ b.pc = "leased" /\ b.said = e.said /\ b.debug = e.debug /\ b.sel = e.sel
  BY <1>4, <1>6, <1>7 DEF LaunchBoot, LaunchPcs
<1>9. boot' = [boot EXCEPT ![l] = b] /\ aide' = [aide EXCEPT ![l] = a] /\ client' = [client EXCEPT ![l] = c] /\ win' = w
  BY <1>1, <1>2, <1>3, <1>5, <1>7, LaunchFacts
<1>10. "leased" \notin LaunchGuarded /\ "leased" \notin LaunchExcl /\ e.pc \notin LaunchGuarded
  BY <1>2, <1>3 DEF LaunchGuarded, LaunchExcl, LaunchHasClient
<1>11. LaunchStartOk(b) /\ c.st = "none" /\ a.pc = "none"
  BY <1>2, <1>3, <1>4, <1>8, <1>10 DEF LaunchStartOk, LaunchClientOk, LaunchAideOk, LaunchHasClient
<1>12. LaunchClientOk(b, a, c) /\ LaunchAideOk(b, a, c)
  BY <1>4, <1>8, <1>11 DEF LaunchClientOk, LaunchAideOk
<1>13. \A o \in Launchers \ {l} : LaunchAlone(o)
  BY LaunchFacts
<1>14. ASSUME NEW o \in Launchers \ {l}
       PROVE  /\ boot[o].pc \in LaunchExcl => c.st = "none" /\ w.running = 0
              /\ client[o].st = "running" => c.st # "running" /\ w.running = 0
              /\ win.shared /\ boot[o].leases => ~b.leases
  BY <1>2, <1>3, <1>11, <1>13 DEF LaunchAlone
<1>15. win.shared /\ b.leases => \A o \in Launchers \ {l} : ~boot[o].leases
  BY <1>2
<1>16. b.pc \in LaunchGuarded <=> w.mutex = l
  BY <1>4, <1>8, <1>10
<1>17. w.shared = win.shared /\ w.mutex = win.mutex /\ b.pc \notin LaunchExcl /\ c.st # "running"
  BY <1>3, <1>8, <1>10, <1>11
<1> QED
  BY <1>4, <1>8, <1>9, <1>11, <1>12, <1>14, <1>15, <1>16, <1>17, LaunchMoves

(* The plugins are prepared, the bridge started, the second scan made.       *)
LEMMA LaunchPrepares ==
  ASSUME LaunchInv, NEW l \in Launchers, prepare_plugin_runtimes_filtered(l) \/ prepare_bridge(l) \/ checked_launch_prepared(l)
  PROVE  LaunchInv'
<1>1. CASE prepare_plugin_runtimes_filtered(l)
  <2>1. boot[l].pc = "leased" /\ Stage(l, "leased")
    BY <1>1 DEF prepare_plugin_runtimes_filtered, Stage
  <2> QED
    BY <1>1, <2>1, LaunchPlain, LaunchFails DEF prepare_plugin_runtimes_filtered
<1>2. CASE prepare_bridge(l)
  <2>1. boot[l].pc = "prepared" /\ Stage(l, "prepared")
    BY <1>2 DEF prepare_bridge, Stage
  <2> QED
    BY <1>2, <2>1, LaunchPlain, LaunchFails DEF prepare_bridge
<1>3. CASE checked_launch_prepared(l)
  <2>1. boot[l].pc = "scanned" /\ Stage(l, "scanned")
    BY <1>3 DEF checked_launch_prepared, Stage
  <2> QED
    BY <1>3, <2>1, LaunchPlain, LaunchFails DEF checked_launch_prepared
<1> QED
  BY <1>1, <1>2, <1>3

(* The mutex is granted or times out.                                        *)
LEMMA LaunchLocks ==
  ASSUME LaunchInv, NEW l \in Launchers, acquire_current_user(l)
  PROVE  LaunchInv'
<1>1. boot[l].pc = "connect"
  BY DEF acquire_current_user, Stage
<1>2. CASE \E reason \in {"error"} : Fail(l, reason)
  BY <1>1, <1>2, LaunchFails
<1>3. CASE /\ win.mutex = Nobody /\ win' = [win EXCEPT !.mutex = l]
           /\ Moves(l, To(l, "locked")) /\ UNCHANGED <<aide, client>>
  <2>1. PICK b, a, c, w, v : b = To(l, "locked") /\ a = aide[l] /\ c = client[l] /\ v = win /\ w = [v EXCEPT !.mutex = l]
    OBVIOUS
  <2>2. "locked" \in LaunchPcs /\ "locked" \in LaunchGuarded /\ "locked" \notin LaunchExcl
    BY DEF LaunchPcs, LaunchGuarded, LaunchExcl, LaunchHasClient
  <2>3. /\ b \in LaunchBoot /\ b.pc = "locked" /\ b.leases = boot[l].leases /\ b.said = boot[l].said
        /\ b.debug = boot[l].debug
    BY <2>1, <2>2, LaunchTo
  <2>4. /\ a \in LaunchAide /\ c \in LaunchClient /\ v \in LaunchWin
        /\ LaunchStartOk(boot[l]) /\ LaunchClientOk(boot[l], a, c) /\ LaunchAideOk(boot[l], a, c)
    BY <2>1, LaunchFacts
  <2>5. w \in LaunchWin /\ w.mutex = l /\ w.running = win.running /\ w.shared = win.shared
    BY <2>1, <2>4 DEF LaunchWin
  <2>6. c.st = "none" /\ a.pc = "none" /\ LaunchStartOk(b)
    BY <1>1, <2>2, <2>3, <2>4 DEF LaunchStartOk, LaunchClientOk, LaunchAideOk, LaunchExcl, LaunchHasClient
  <2>7. LaunchClientOk(b, a, c) /\ LaunchAideOk(b, a, c)
    BY <2>3, <2>4, <2>6 DEF LaunchClientOk, LaunchAideOk
  <2>8. win' = w /\ boot' = [boot EXCEPT ![l] = b] /\ aide' = [aide EXCEPT ![l] = a] /\ client' = [client EXCEPT ![l] = c]
    BY <1>3, <2>1, LaunchFacts DEF Moves
  <2>9. /\ w.mutex = l /\ win.mutex = Nobody /\ (b.pc \in LaunchGuarded <=> w.mutex = l)
        /\ b.pc \notin LaunchExcl /\ (c.st = "none" \/ c.st = client[l].st \/ boot[l].pc \in LaunchExcl) /\ (b.leases => boot[l].leases)
    BY <1>3, <2>2, <2>3, <2>5, <2>6
  <2> QED
    BY <2>3, <2>4, <2>5, <2>6, <2>7, <2>8, <2>9, LaunchKeeps
<1> QED
  BY <1>2, <1>3 DEF acquire_current_user

(* The first scan selects the listed package.                                *)
LEMMA LaunchInspects ==
  ASSUME LaunchInv, NEW l \in Launchers, inspect_environment(l)
  PROVE  LaunchInv'
<1>1. boot[l].pc = "locked"
  BY DEF inspect_environment, Stage
<1>2. CASE running_processes_for_package(l)
  BY <1>1, <1>2, LaunchFails DEF inspect_environment
<1>3. CASE ~running_processes_for_package(l)
  <2>1. PICK b, e, n, s : /\ e = To(l, "scanned") /\ n = win.listed /\ s = {win.listed}
                          /\ b = [e EXCEPT !.sel = n, !.seen = s]
    OBVIOUS
  <2>2. "scanned" \in LaunchPcs /\ "scanned" \in LaunchGuarded /\ "scanned" \notin LaunchExcl
    BY DEF LaunchPcs, LaunchGuarded, LaunchExcl, LaunchHasClient
  <2>3. /\ e \in LaunchBoot /\ e.pc = "scanned" /\ e.leases = boot[l].leases /\ e.said = boot[l].said
        /\ e.debug = boot[l].debug
    BY <2>1, <2>2, LaunchTo
  <2>4. n \in 1 .. MaxPackage /\ n \in 0 .. MaxPackage /\ n # 0
    BY <2>1, LaunchFacts, LaunchBounds DEF LaunchWin
  <2>5. b \in LaunchBoot /\ b.pc = "scanned" /\ b.leases = boot[l].leases /\ b.said = boot[l].said /\ b.debug = boot[l].debug /\ b.sel # 0
    BY <2>1, <2>3, <2>4 DEF LaunchBoot
  <2>6. LaunchStartOk(boot[l]) /\ LaunchClientOk(boot[l], aide[l], client[l]) /\ LaunchAideOk(boot[l], aide[l], client[l])
    BY LaunchFacts
  <2>7. client[l].st = "none" /\ aide[l].pc = "none" /\ LaunchStartOk(b)
    BY <1>1, <2>5, <2>6 DEF LaunchStartOk, LaunchClientOk, LaunchAideOk, LaunchExcl, LaunchHasClient
  <2>8. LaunchClientOk(b, aide[l], client[l]) /\ LaunchAideOk(b, aide[l], client[l])
    BY <2>5, <2>6, <2>7 DEF LaunchClientOk, LaunchAideOk
  <2>9. boot' = [boot EXCEPT ![l] = b] /\ UNCHANGED <<win, aide, client>>
    BY <1>3, <2>1 DEF inspect_environment, Moves
  <2>10. boot[l].pc \in LaunchGuarded
    BY <1>1 DEF LaunchGuarded
  <2> QED
    BY <2>2, <2>5, <2>7, <2>8, <2>9, <2>10, LaunchSets
<1> QED
  BY <1>2, <1>3

(* The last scan before the client: nothing of the package runs.             *)
LEMMA LaunchRejects ==
  ASSUME LaunchInv, NEW l \in Launchers, reject_instance_conflict(l)
  PROVE  LaunchInv'
<1>1. boot[l].pc = "attempt" /\ boot[l].pc \in LaunchGuarded
  BY DEF reject_instance_conflict, Stage, LaunchGuarded
<1>2. CASE running_processes_for_package(l)
  BY <1>1, <1>2, LaunchFails DEF reject_instance_conflict
<1>3. CASE ~running_processes_for_package(l)
  <2>1. PICK b, a, c, w : b = To(l, "create") /\ a = aide[l] /\ c = client[l] /\ w = win
    OBVIOUS
  <2>2. "create" \in LaunchPcs /\ "create" \in LaunchGuarded /\ "create" \in LaunchExcl
    BY DEF LaunchPcs, LaunchGuarded, LaunchExcl
  <2>3. /\ b \in LaunchBoot /\ b.pc = "create" /\ b.leases = boot[l].leases /\ b.said = boot[l].said
        /\ b.debug = boot[l].debug /\ b.sel = boot[l].sel
    BY <2>1, <2>2, LaunchTo
  <2>4. /\ a \in LaunchAide /\ c \in LaunchClient /\ w \in LaunchWin
        /\ LaunchStartOk(boot[l]) /\ LaunchClientOk(boot[l], a, c) /\ LaunchAideOk(boot[l], a, c) /\ w.mutex = l
    BY <1>1, <2>1, LaunchFacts
  <2>5. c.st = "none" /\ a.pc = "none" /\ LaunchStartOk(b)
    BY <1>1, <2>3, <2>4 DEF LaunchStartOk, LaunchClientOk, LaunchAideOk, LaunchExcl, LaunchHasClient
  <2>6. LaunchClientOk(b, a, c) /\ LaunchAideOk(b, a, c)
    BY <2>3, <2>4, <2>5 DEF LaunchClientOk, LaunchAideOk
  <2>7. win' = w /\ boot' = [boot EXCEPT ![l] = b] /\ aide' = [aide EXCEPT ![l] = a] /\ client' = [client EXCEPT ![l] = c]
    BY <1>3, <2>1, LaunchFacts DEF reject_instance_conflict, Moves
  <2>8. w.running = 0
    <3>1. ~(w.running > 0) /\ w.running \in {0, 1}
      BY <1>3, <2>1, <2>4 DEF running_processes_for_package, LaunchWin
    <3> QED
      BY <3>1
  <2>9. ASSUME NEW o \in Launchers \ {l}
        PROVE  client[o].st = "none" /\ boot[o].pc \notin LaunchExcl
    <3>1. boot[o].pc \notin LaunchGuarded /\ boot[o].pc \notin LaunchExcl
      BY <1>1, LaunchHolder
    <3>2. client[o].pkg = 0
      BY <1>3 DEF running_processes_for_package
    <3>3. LaunchStartOk(boot[o]) /\ LaunchClientOk(boot[o], aide[o], client[o])
      BY LaunchFacts
    <3> QED
      BY <3>1, <3>2, <3>3 DEF LaunchStartOk, LaunchClientOk, LaunchGuarded, LaunchExcl, LaunchHasClient
  <2>10. \A o \in Launchers \ {l} : win.shared /\ boot[o].leases => ~b.leases
    BY <2>3, LaunchFacts DEF LaunchAlone
  <2>11. win.shared /\ b.leases => \A o \in Launchers \ {l} : ~boot[o].leases
    BY <2>3, LaunchFacts DEF LaunchAlone
  <2>12. w.shared = win.shared /\ w.mutex = win.mutex /\ c.st # "running" /\ (b.pc \in LaunchGuarded <=> w.mutex = l)
    BY <2>1, <2>2, <2>3, <2>4, <2>5
  <2>13. b.pc \in LaunchExcl => w.running = 0 /\ \A o \in Launchers \ {l} : client[o].st = "none"
    BY <2>8, <2>9
  <2>14. \A o \in Launchers \ {l} :
            /\ boot[o].pc \in LaunchExcl => c.st = "none" /\ w.running = 0
            /\ client[o].st = "running" => c.st # "running" /\ w.running = 0
            /\ win.shared /\ boot[o].leases => ~b.leases
    BY <2>9, <2>10
  <2>15. c.st = "running" => w.running = 0 /\ \A o \in Launchers \ {l} : client[o].st # "running"
    BY <2>12
  <2>16. b \in LaunchBoot /\ a \in LaunchAide /\ c \in LaunchClient /\ w \in LaunchWin /\ LaunchStartOk(b)
    BY <2>3, <2>4, <2>5
  <2>17. w.shared = win.shared /\ w.mutex = win.mutex /\ (b.pc \in LaunchGuarded <=> w.mutex = l)
    BY <2>12
  <2> QED
    BY <2>6, <2>7, <2>11, <2>13, <2>14, <2>15, <2>16, <2>17, LaunchMoves
<1> QED
  BY <1>2, <1>3

(* The client is created suspended.                                          *)
LEMMA LaunchCreates ==
  ASSUME LaunchInv, NEW l \in Launchers, create_suspended(l)
  PROVE  LaunchInv'
<1>1. boot[l].pc = "create"
  BY DEF create_suspended, Stage
<1>2. CASE Fail(l, "error")
  BY <1>1, <1>2, LaunchFails
<1>3. CASE /\ \E pkg \in {0, boot[l].sel} : client' = [client EXCEPT ![l] = [NoClient EXCEPT !.st = "suspended", !.pkg = pkg]]
           /\ Moves(l, [To(l, "created") EXCEPT !.armed = TRUE]) /\ UNCHANGED <<win, aide>>
  <2>1. PICK pkg \in {0, boot[l].sel} : client' = [client EXCEPT ![l] = [NoClient EXCEPT !.st = "suspended", !.pkg = pkg]]
    BY <1>3
  <2>2. PICK b, e, a, c, w : /\ e = To(l, "created") /\ b = [e EXCEPT !.armed = TRUE] /\ a = aide[l] /\ w = win
                             /\ c = [NoClient EXCEPT !.st = "suspended", !.pkg = pkg]
    OBVIOUS
  <2>3. "created" \in LaunchPcs /\ "created" \in LaunchGuarded /\ "created" \in LaunchExcl /\ "created" \in LaunchHasClient /\ "create" \in LaunchExcl /\ "create" \in LaunchGuarded
    BY DEF LaunchPcs, LaunchGuarded, LaunchExcl, LaunchHasClient
  <2>4. /\ e \in LaunchBoot /\ e.pc = "created" /\ e.leases = boot[l].leases /\ e.said = boot[l].said
        /\ e.debug = boot[l].debug /\ e.sel = boot[l].sel
    BY <2>2, <2>3, LaunchTo
  <2>5. /\ b \in LaunchBoot /\ b.pc = "created" /\ b.leases = boot[l].leases /\ b.said = boot[l].said
        /\ b.debug = boot[l].debug /\ b.sel = boot[l].sel
    BY <2>2, <2>4 DEF LaunchBoot
  <2>6. /\ a \in LaunchAide /\ w \in LaunchWin /\ w.mutex = l /\ w.shared = win.shared /\ w.running = win.running
        /\ LaunchStartOk(boot[l]) /\ LaunchAideOk(boot[l], a, client[l])
    BY <1>1, <2>2, <2>3, LaunchFacts
  <2>7. pkg \in 0 .. MaxPackage
    BY LaunchFacts, LaunchBounds DEF LaunchBoot
  <2>8. c = [st |-> "suspended", pkg |-> pkg, patched |-> FALSE]
    BY <2>2 DEF NoClient
  <2>9. c \in LaunchClient /\ c.st = "suspended" /\ ~c.patched
    BY <2>7, <2>8 DEF LaunchClient
  <2>10. LaunchStartOk(b) /\ a.pc = "none"
    BY <1>1, <2>3, <2>5, <2>6 DEF LaunchStartOk, LaunchAideOk
  <2>11. LaunchClientOk(b, a, c) /\ LaunchAideOk(b, a, c)
    BY <2>3, <2>5, <2>9, <2>10 DEF LaunchClientOk, LaunchAideOk
  <2>12. win' = w /\ boot' = [boot EXCEPT ![l] = b] /\ aide' = [aide EXCEPT ![l] = a] /\ client' = [client EXCEPT ![l] = c]
    BY <1>3, <2>1, <2>2, LaunchFacts DEF Moves
  <2>13. /\ w.mutex = win.mutex /\ (b.pc \in LaunchGuarded <=> w.mutex = l) /\ boot[l].pc \in LaunchExcl /\ (b.leases => boot[l].leases)
    BY <1>1, <2>2, <2>3, <2>5, <2>6
  <2> QED
    BY <2>5, <2>6, <2>9, <2>10, <2>11, <2>12, <2>13, LaunchKeeps
<1> QED
  BY <1>2, <1>3 DEF create_suspended

(* It has another identity: it is aborted and a helper activated.            *)
LEMMA LaunchActivates ==
  ASSUME LaunchInv, NEW l \in Launchers, activate_helper(l)
  PROVE  LaunchInv'
<1>1. /\ boot[l].pc = "created" /\ boot[l].pc \in LaunchExcl /\ boot[l].pc \in LaunchGuarded /\ "helper" \in LaunchPcs
      /\ "helper" \in LaunchGuarded /\ "helper" \in LaunchExcl
  BY DEF activate_helper, Stage, LaunchPcs, LaunchExcl, LaunchGuarded, LaunchHasClient
<1>2. client[l].pkg # boot[l].sel /\ client' = [client EXCEPT ![l] = NoClient]
  BY DEF activate_helper
<1>3. /\ LaunchStartOk(boot[l]) /\ LaunchClientOk(boot[l], aide[l], client[l]) /\ LaunchAideOk(boot[l], aide[l], client[l])
      /\ win.mutex = l /\ win \in LaunchWin
  BY <1>1, LaunchFacts
<1>4. aide[l].pc = "none" /\ client[l].st = "suspended"
  BY <1>1, <1>2, <1>3 DEF LaunchAideOk, LaunchClientOk
<1>5. PICK c, w : c = NoClient /\ w = win'
  OBVIOUS
<1>6. c \in LaunchClient /\ c.st = "none" /\ ~c.patched /\ client' = [client EXCEPT ![l] = c]
  BY <1>2, <1>5, LaunchNones
<1>7. CASE /\ Moves(l, [To(l, "helper") EXCEPT !.armed = FALSE])
           /\ aide' = [aide EXCEPT ![l] = [pc |-> "up", pkg |-> win.active, armed |-> FALSE]]
           /\ UNCHANGED win
  <2>1. PICK b, e, a : /\ e = To(l, "helper") /\ b = [e EXCEPT !.armed = FALSE]
                       /\ a = [pc |-> "up", pkg |-> win.active, armed |-> FALSE]
    OBVIOUS
  <2>2. /\ e \in LaunchBoot /\ e.pc = "helper" /\ e.leases = boot[l].leases /\ e.said = boot[l].said
        /\ e.debug = boot[l].debug /\ e.sel = boot[l].sel
    BY <1>1, <2>1, LaunchTo
  <2>3. /\ b \in LaunchBoot /\ b.pc = "helper" /\ b.leases = boot[l].leases /\ b.said = boot[l].said
        /\ b.debug = boot[l].debug /\ b.sel = boot[l].sel
    BY <2>1, <2>2 DEF LaunchBoot
  <2>4. win.active \in 0 .. MaxPackage /\ win.active # 0
    BY <1>3, LaunchBounds DEF LaunchWin
  <2>5. a \in LaunchAide /\ a.pc = "up" /\ a.pkg # 0
    BY <2>1, <2>4 DEF LaunchAide
  <2>6. LaunchStartOk(b)
    BY <1>1, <1>3, <2>3 DEF LaunchStartOk
  <2>7. LaunchClientOk(b, a, c) /\ LaunchAideOk(b, a, c)
    BY <1>6, <2>3, <2>5 DEF LaunchClientOk, LaunchAideOk
  <2>8. win' = w /\ boot' = [boot EXCEPT ![l] = b] /\ aide' = [aide EXCEPT ![l] = a] /\ w = win
    BY <1>5, <1>7, <2>1 DEF Moves
  <2>9. (b.pc \in LaunchGuarded <=> w.mutex = l) /\ (b.leases => boot[l].leases) /\ w \in LaunchWin
    BY <1>1, <1>3, <2>3, <2>8
  <2> QED
    BY <1>1, <1>6, <2>3, <2>5, <2>6, <2>7, <2>8, <2>9, LaunchKeeps
<1>8. CASE Moves(l, Again(l, "error")) /\ win' = [win EXCEPT !.mutex = Nobody] /\ UNCHANGED aide
  <2>1. PICK b, a : b = Again(l, "error") /\ a = aide[l]
    OBVIOUS
  <2>2. b \in LaunchBoot /\ b.pc \in {"recover", "over"} /\ ~b.leases /\ b.said = 0 /\ ~b.debug
    BY <2>1, LaunchAgain
  <2>3. a \in LaunchAide /\ a.pc = "none" /\ aide' = [aide EXCEPT ![l] = a] /\ boot' = [boot EXCEPT ![l] = b] /\ win' = w
    BY <1>4, <1>5, <1>8, <2>1, LaunchFacts DEF Moves
  <2>4. w \in LaunchWin /\ w.shared = win.shared /\ w.mutex = Nobody /\ w.running = win.running
    BY <1>3, <1>5, <1>8 DEF LaunchWin
  <2> QED
    BY <1>3, <1>6, <2>2, <2>3, <2>4, LaunchEnds
<1> QED
  BY <1>7, <1>8 DEF activate_helper

(* The helper is of another version: the attempt is repeated with that one.  *)
LEMMA LaunchReselects ==
  ASSUME LaunchInv, NEW l \in Launchers, PackageSelectionChanged(l)
  PROVE  LaunchInv'
<1>1. /\ boot[l].pc = "helper" /\ boot[l].pc \in LaunchExcl /\ boot[l].pc \in LaunchGuarded /\ aide[l].pc = "up" /\ aide[l].pkg # boot[l].sel
      /\ "attempt" \in LaunchPcs /\ "attempt" \in LaunchGuarded /\ "attempt" \notin LaunchExcl
  BY DEF PackageSelectionChanged, Stage, LaunchPcs, LaunchExcl, LaunchGuarded, LaunchHasClient
<1>2. /\ LaunchStartOk(boot[l]) /\ LaunchClientOk(boot[l], aide[l], client[l]) /\ LaunchAideOk(boot[l], aide[l], client[l])
      /\ win.mutex = l /\ win \in LaunchWin /\ client[l] \in LaunchClient /\ boot[l] \in LaunchBoot
  BY <1>1, LaunchFacts
<1>3. client[l].st = "none" /\ ~client[l].patched
  BY <1>1, <1>2 DEF LaunchClientOk, LaunchHasClient
<1>4. PICK a, b, c, n, w : a = NoAide /\ b = Refreshed(l, n) /\ c = client[l] /\ n = aide[l].pkg /\ w = win'
  OBVIOUS
<1>5. /\ a \in LaunchAide /\ a.pc = "none" /\ aide' = [aide EXCEPT ![l] = a] /\ boot' = [boot EXCEPT ![l] = b]
      /\ client' = [client EXCEPT ![l] = c] /\ c \in LaunchClient /\ c.st = "none" /\ ~c.patched
      /\ w = [win EXCEPT !.mutex = IF b.pc = "over" THEN Nobody ELSE @]
  BY <1>2, <1>3, <1>4, LaunchNones, LaunchFacts DEF PackageSelectionChanged, Moves
<1>6. n \in 0 .. MaxPackage
  BY <1>4, LaunchFacts DEF LaunchAide
<1>7. CASE Cardinality(boot[l].seen) < 3 /\ n \notin boot[l].seen
  <2>1. PICK e, s : e = To(l, "attempt") /\ s = boot[l].seen \cup {n}
    OBVIOUS
  <2>2. b = [e EXCEPT !.sel = n, !.seen = s]
    <3>1. e.seen = boot[l].seen
      BY <1>1, <2>1, LaunchTo
    <3> QED
      BY <1>4, <1>7, <2>1, <3>1 DEF Refreshed
  <2>3. /\ e \in LaunchBoot /\ e.pc = "attempt" /\ e.leases = boot[l].leases /\ e.said = boot[l].said
        /\ e.debug = boot[l].debug
    BY <1>1, <2>1, LaunchTo
  <2>4. s \in SUBSET (0 .. MaxPackage)
    BY <1>2, <1>6, <2>1 DEF LaunchBoot
  <2>5. b \in LaunchBoot /\ b.pc = "attempt" /\ b.leases = boot[l].leases /\ b.said = boot[l].said /\ b.debug = boot[l].debug /\ b.sel = n
    BY <1>6, <2>2, <2>3, <2>4 DEF LaunchBoot
  <2>6. w = win
    <3>1. b.pc # "over"
      BY <2>5
    <3>2. PICK m : m = win.mutex
      OBVIOUS
    <3>3. w = [win EXCEPT !.mutex = m]
      BY <1>5, <3>1, <3>2
    <3> QED
      BY <1>2, <3>2, <3>3 DEF LaunchWin
  <2>7. n # 0
    BY <1>1, <1>2, <1>4 DEF LaunchAideOk
  <2>8. LaunchStartOk(b)
    BY <1>1, <1>2, <2>5, <2>7 DEF LaunchStartOk
  <2>9. LaunchClientOk(b, a, c) /\ LaunchAideOk(b, a, c)
    BY <1>5, <2>5 DEF LaunchClientOk, LaunchAideOk
  <2>10. /\ win' = w /\ w \in LaunchWin /\ w.shared = win.shared /\ w.running = win.running /\ w.mutex = win.mutex
         /\ (b.pc \in LaunchGuarded <=> w.mutex = l) /\ (b.leases => boot[l].leases) /\ boot[l].pc \in LaunchExcl
    BY <1>1, <1>2, <1>4, <2>5, <2>6
  <2> QED
    BY <1>5, <2>5, <2>8, <2>9, <2>10, LaunchKeeps
<1>8. CASE ~(Cardinality(boot[l].seen) < 3 /\ n \notin boot[l].seen)
  <2>1. b = [NoBoot EXCEPT !.pc = "over", !.starts = boot[l].starts]
    BY <1>4, <1>8 DEF Refreshed
  <2>2. b \in LaunchBoot /\ b.pc = "over" /\ ~b.leases /\ b.said = 0 /\ ~b.debug
    BY <2>1, LaunchOver
  <2>3. w = [win EXCEPT !.mutex = Nobody]
    BY <1>5, <2>2
  <2>4. w \in LaunchWin /\ w.shared = win.shared /\ w.mutex = Nobody /\ w.running = win.running /\ win' = w
    BY <1>2, <1>4, <2>3 DEF LaunchWin
  <2> QED
    BY <1>2, <1>5, <2>2, <2>4, LaunchEnds
<1> QED
  BY <1>7, <1>8

(* The helper is asked.                                                      *)
LEMMA LaunchSends ==
  ASSUME LaunchInv, NEW l \in Launchers, SendStart(l)
  PROVE  LaunchInv'
<1>1. /\ boot[l].pc = "helper" /\ boot[l].pc \in LaunchExcl /\ boot[l].pc \in LaunchGuarded /\ aide[l].pc = "up" /\ aide[l].pkg = boot[l].sel
      /\ "waiting" \in LaunchPcs /\ "waiting" \in LaunchGuarded /\ "waiting" \in LaunchExcl /\ "helper" \notin LaunchHasClient
      /\ aide' = [aide EXCEPT ![l].pc = "asked"] /\ Moves(l, To(l, "waiting")) /\ UNCHANGED <<win, client>>
  BY DEF SendStart, Stage, LaunchPcs, LaunchExcl, LaunchGuarded, LaunchHasClient
<1>2. PICK b, c, w, e, a : /\ b = To(l, "waiting") /\ c = client[l] /\ w = win /\ e = aide[l] /\ a = [e EXCEPT !.pc = "asked"]
  OBVIOUS
<1>3. /\ b \in LaunchBoot /\ b.pc = "waiting" /\ b.leases = boot[l].leases /\ b.said = boot[l].said
      /\ b.debug = boot[l].debug /\ b.sel = boot[l].sel
  BY <1>1, <1>2, LaunchTo
<1>4. /\ LaunchStartOk(boot[l]) /\ LaunchClientOk(boot[l], e, c) /\ w.mutex = l /\ w \in LaunchWin /\ c \in LaunchClient /\ e \in LaunchAide
  BY <1>1, <1>2, LaunchFacts
<1>5. a \in LaunchAide /\ a.pc = "asked" /\ a.pkg = boot[l].sel
  BY <1>1, <1>2, <1>4 DEF LaunchAide
<1>6. c.st = "none" /\ ~c.patched
  BY <1>1, <1>4 DEF LaunchClientOk
<1>7. LaunchStartOk(b)
  BY <1>1, <1>3, <1>4 DEF LaunchStartOk
<1>8. LaunchClientOk(b, a, c) /\ LaunchAideOk(b, a, c)
  BY <1>3, <1>5, <1>6 DEF LaunchClientOk, LaunchAideOk
<1>9. /\ win' = w /\ boot' = [boot EXCEPT ![l] = b] /\ aide' = [aide EXCEPT ![l] = a] /\ client' = [client EXCEPT ![l] = c]
  BY <1>1, <1>2, LaunchFacts DEF Moves
<1>10. /\ w.shared = win.shared /\ w.running = win.running /\ w.mutex = win.mutex
       /\ (b.pc \in LaunchGuarded <=> w.mutex = l) /\ (b.leases => boot[l].leases)
  BY <1>1, <1>2, <1>3, <1>4
<1> QED
  BY <1>1, <1>3, <1>4, <1>5, <1>6, <1>7, <1>8, <1>9, <1>10, LaunchKeeps

(* A step of the helper and the client alone.                                *)
LEMMA LaunchAides ==
  ASSUME LaunchInv, NEW l \in Launchers, NEW a \in LaunchAide, NEW c \in LaunchClient,
         aide' = [aide EXCEPT ![l] = a], client' = [client EXCEPT ![l] = c], UNCHANGED <<win, boot>>,
         LaunchClientOk(boot[l], a, c), LaunchAideOk(boot[l], a, c),
         c.st = "none" \/ c.st = client[l].st \/ boot[l].pc \in LaunchExcl
  PROVE  LaunchInv'
<1>1. PICK b, w : b = boot[l] /\ w = win
  OBVIOUS
<1>2. /\ b \in LaunchBoot /\ w \in LaunchWin /\ (b.pc \in LaunchGuarded <=> w.mutex = l) /\ LaunchStartOk(b)
      /\ boot' = [boot EXCEPT ![l] = b] /\ win' = w
  BY <1>1, LaunchFacts
<1> QED
  BY <1>1, <1>2, LaunchKeeps

(* The helper creates the client, fails or is killed.                        *)
LEMMA LaunchHelps ==
  ASSUME LaunchInv, NEW l \in Launchers, run_helper(l) \/ HelperKilled(l)
  PROVE  LaunchInv'
<1>1. PICK b, e, k : b = boot[l] /\ e = aide[l] /\ k = client[l]
  OBVIOUS
<1>2. /\ b \in LaunchBoot /\ e \in LaunchAide /\ k \in LaunchClient /\ LaunchClientOk(b, e, k) /\ LaunchAideOk(b, e, k)
      /\ aide \in [Launchers -> LaunchAide] /\ client \in [Launchers -> LaunchClient]
  BY <1>1, LaunchFacts
<1>3. CASE /\ aide[l].pc = "asked" /\ aide' = [aide EXCEPT ![l].pc = "ready", ![l].armed = TRUE]
           /\ client' = [client EXCEPT ![l] = [NoClient EXCEPT !.st = "suspended", !.pkg = aide[l].pkg]] /\ UNCHANGED <<win, boot>>
  <2>1. PICK a, c : a = [e EXCEPT !.pc = "ready", !.armed = TRUE] /\ c = [NoClient EXCEPT !.st = "suspended", !.pkg = e.pkg]
    OBVIOUS
  <2>2. a \in LaunchAide /\ a.pc = "ready" /\ a.pkg = e.pkg /\ e.pkg \in 0 .. MaxPackage
    BY <1>2, <2>1 DEF LaunchAide
  <2>3. c = [st |-> "suspended", pkg |-> e.pkg, patched |-> FALSE]
    BY <2>1 DEF NoClient
  <2>4. c \in LaunchClient /\ c.st = "suspended" /\ ~c.patched /\ c.pkg = e.pkg
    BY <2>2, <2>3 DEF LaunchClient
  <2>5. b.pc = "waiting" /\ b.pc \in LaunchExcl /\ e.pkg = b.sel
    BY <1>1, <1>2, <1>3 DEF LaunchAideOk, LaunchExcl
  <2>6. LaunchClientOk(b, a, c) /\ LaunchAideOk(b, a, c)
    BY <2>2, <2>4, <2>5 DEF LaunchClientOk, LaunchAideOk
  <2>7. aide' = [aide EXCEPT ![l] = a] /\ client' = [client EXCEPT ![l] = c] /\ UNCHANGED <<win, boot>>
    BY <1>1, <1>2, <1>3, <2>1
  <2> QED
    BY <1>1, <2>2, <2>4, <2>5, <2>6, <2>7, LaunchAides
<1>4. CASE /\ aide[l].pc \in {"up", "asked"} /\ aide' = [aide EXCEPT ![l].pc = "failed"] /\ UNCHANGED <<win, boot, client>>
  <2>1. PICK a : a = [e EXCEPT !.pc = "failed"]
    OBVIOUS
  <2>2. a \in LaunchAide /\ a.pc = "failed"
    BY <1>2, <2>1 DEF LaunchAide
  <2>3. b.pc \in {"helper", "waiting"} /\ k.st = "none"
    BY <1>1, <1>2, <1>4 DEF LaunchAideOk, LaunchClientOk, LaunchHasClient
  <2>4. LaunchClientOk(b, a, k) /\ LaunchAideOk(b, a, k)
    BY <1>2, <2>2, <2>3 DEF LaunchClientOk, LaunchAideOk
  <2>5. aide' = [aide EXCEPT ![l] = a] /\ client' = [client EXCEPT ![l] = k] /\ UNCHANGED <<win, boot>>
    BY <1>1, <1>2, <1>4, <2>1
  <2> QED
    BY <1>1, <1>2, <2>2, <2>3, <2>4, <2>5, LaunchAides
<1> QED
  BY <1>3, <1>4 DEF run_helper, HelperKilled

(* The reported client is opened.                                            *)
LEMMA LaunchOpens ==
  ASSUME LaunchInv, NEW l \in Launchers, OpenReported(l)
  PROVE  LaunchInv'
<1>1. /\ boot[l].pc = "waiting" /\ boot[l].pc \in LaunchExcl /\ boot[l].pc \in LaunchGuarded /\ aide[l].pc = "ready"
      /\ "created" \in LaunchPcs /\ "created" \in LaunchGuarded /\ "created" \in LaunchExcl /\ "created" \in LaunchHasClient
  BY DEF OpenReported, Stage, LaunchPcs, LaunchExcl, LaunchGuarded, LaunchHasClient
<1>2. PICK a, c, e, b : a = aide[l] /\ c = client[l] /\ e = To(l, "created") /\ b = [e EXCEPT !.armed = TRUE]
  OBVIOUS
<1>3. /\ e \in LaunchBoot /\ e.pc = "created" /\ e.leases = boot[l].leases /\ e.said = boot[l].said
      /\ e.debug = boot[l].debug /\ e.sel = boot[l].sel
  BY <1>1, <1>2, LaunchTo
<1>4. /\ b \in LaunchBoot /\ b.pc = "created" /\ b.leases = boot[l].leases /\ b.said = boot[l].said
      /\ b.debug = boot[l].debug /\ b.sel = boot[l].sel
  BY <1>2, <1>3 DEF LaunchBoot
<1>5. LaunchStartOk(boot[l]) /\ LaunchClientOk(boot[l], a, c) /\ LaunchAideOk(boot[l], a, c)
  BY <1>2, LaunchFacts
<1>6. c.st = "suspended" /\ ~c.patched /\ c.pkg = boot[l].sel
  BY <1>1, <1>2, <1>5 DEF LaunchClientOk, LaunchAideOk
<1>7. LaunchStartOk(b) /\ LaunchClientOk(b, a, c) /\ LaunchAideOk(b, a, c)
  <2>1. LaunchStartOk(b)
    BY <1>1, <1>4, <1>5 DEF LaunchStartOk
  <2>2. LaunchClientOk(b, a, c)
    BY <1>1, <1>4, <1>6 DEF LaunchClientOk
  <2>3. LaunchAideOk(b, a, c)
    BY <1>1, <1>2, <1>4, <1>6 DEF LaunchAideOk
  <2> QED
    BY <2>1, <2>2, <2>3
<1>8. boot' = [boot EXCEPT ![l] = b] /\ UNCHANGED <<win, aide, client>>
  BY <1>2 DEF OpenReported, Moves
<1> QED
  BY <1>1, <1>2, <1>4, <1>7, <1>8, LaunchSets

(* The handoff fails.                                                        *)
LEMMA LaunchHandoffs ==
  ASSUME LaunchInv, NEW l \in Launchers, HandoffFails(l)
  PROVE  LaunchInv'
<1>1. PICK a : a = NoAide
  OBVIOUS
<1>2. a \in LaunchAide /\ a.pc = "none" /\ aide' = [aide EXCEPT ![l] = a] /\ Unwind(l, "error")
  BY <1>1, LaunchNones DEF HandoffFails
<1> QED
  BY <1>2, LaunchUnwinds

(* The bridge allows the resume, or refuses it.                              *)
LEMMA LaunchResumes ==
  ASSUME LaunchInv, NEW l \in Launchers, before_client_resume(l)
  PROVE  LaunchInv'
<1>1. /\ boot[l].pc = "created" /\ boot[l].pc \in LaunchExcl /\ boot[l].pc \in LaunchGuarded /\ client[l].pkg = boot[l].sel
      /\ "resumable" \in LaunchPcs /\ "resumable" \in LaunchGuarded /\ "resumable" \in LaunchExcl /\ "resumable" \in LaunchHasClient
  BY DEF before_client_resume, Stage, LaunchPcs, LaunchExcl, LaunchGuarded, LaunchHasClient
<1>2. CASE \E debug \in IF Traffic(l) THEN BOOLEAN ELSE {FALSE} :
              Moves(l, [To(l, "resumable") EXCEPT !.debug = debug]) /\ UNCHANGED <<win, aide, client>>
  <2>1. PICK debug \in BOOLEAN : /\ debug => Traffic(l)
                                 /\ Moves(l, [To(l, "resumable") EXCEPT !.debug = debug]) /\ UNCHANGED <<win, aide, client>>
    BY <1>2
  <2>2. PICK a, c, e, b : a = aide[l] /\ c = client[l] /\ e = To(l, "resumable") /\ b = [e EXCEPT !.debug = debug]
    OBVIOUS
  <2>3. /\ e \in LaunchBoot /\ e.pc = "resumable" /\ e.leases = boot[l].leases /\ e.said = boot[l].said
        /\ e.safe = boot[l].safe /\ e.reason = boot[l].reason /\ e.sel = boot[l].sel
    BY <1>1, <2>2, LaunchTo
  <2>4. /\ b \in LaunchBoot /\ b.pc = "resumable" /\ b.leases = boot[l].leases /\ b.said = boot[l].said
        /\ b.debug = debug /\ b.sel = boot[l].sel /\ b.safe = boot[l].safe /\ b.reason = boot[l].reason
    BY <2>2, <2>3 DEF LaunchBoot
  <2>5. LaunchStartOk(boot[l]) /\ LaunchClientOk(boot[l], a, c) /\ LaunchAideOk(boot[l], a, c)
    BY <2>2, LaunchFacts
  <2>6. LaunchStartOk(b)
    BY <1>1, <2>1, <2>4, <2>5 DEF LaunchStartOk, Traffic
  <2>7. c.st = "suspended" /\ ~c.patched /\ c.pkg = b.sel /\ a.pc \in {"none", "ready"}
    BY <1>1, <2>2, <2>4, <2>5 DEF LaunchClientOk, LaunchAideOk
  <2>8. LaunchClientOk(b, a, c) /\ LaunchAideOk(b, a, c)
    BY <1>1, <2>4, <2>7 DEF LaunchClientOk, LaunchAideOk
  <2>9. boot' = [boot EXCEPT ![l] = b] /\ UNCHANGED <<win, aide, client>>
    BY <2>1, <2>2 DEF Moves
  <2> QED
    BY <1>1, <2>2, <2>4, <2>6, <2>8, <2>9, LaunchSets
<1>3. CASE \E reason \in {"error", "compat"} : Unwind(l, reason) /\ aide' = [aide EXCEPT ![l] = NoAide]
  <2>1. PICK a : a = NoAide
    OBVIOUS
  <2>2. a \in LaunchAide /\ a.pc = "none"
    BY <2>1, LaunchNones
  <2> QED
    BY <1>3, <2>1, <2>2, LaunchUnwinds
<1> QED
  BY <1>2, <1>3 DEF before_client_resume

(* The client is resumed.                                                    *)
LEMMA LaunchRuns ==
  ASSUME LaunchInv, NEW l \in Launchers, resume(l)
  PROVE  LaunchInv'
<1>1. /\ boot[l].pc = "resumable" /\ boot[l].pc \in LaunchExcl /\ boot[l].pc \in LaunchGuarded /\ boot[l].pc \in LaunchHasClient
      /\ client' = [client EXCEPT ![l].st = "running"] /\ UNCHANGED <<win, aide>>
  BY DEF resume, Stage, LaunchExcl, LaunchGuarded, LaunchHasClient
<1>2. PICK a, k, c, w, q, b : /\ a = aide[l] /\ k = client[l] /\ w = win /\ c = [k EXCEPT !.st = "running"]
                              /\ q = IF aide[l].pc = "none" THEN "finish" ELSE "commit"
                              /\ b = To(l, q)
  OBVIOUS
<1>3. /\ q \in LaunchPcs /\ q \in LaunchGuarded /\ q \in LaunchExcl /\ q \in LaunchHasClient
  BY <1>2 DEF LaunchPcs, LaunchExcl, LaunchGuarded, LaunchHasClient
<1>4. /\ b \in LaunchBoot /\ b.pc = q /\ b.leases = boot[l].leases /\ b.said = boot[l].said
      /\ b.debug = boot[l].debug /\ b.sel = boot[l].sel /\ b.safe = boot[l].safe /\ b.reason = boot[l].reason
  BY <1>2, <1>3, LaunchTo
<1>5. /\ LaunchStartOk(boot[l]) /\ LaunchClientOk(boot[l], a, k) /\ LaunchAideOk(boot[l], a, k) /\ a \in LaunchAide /\ k \in LaunchClient
      /\ w \in LaunchWin /\ w.mutex = l
  BY <1>1, <1>2, LaunchFacts
<1>6. k.st = "suspended" /\ k.pkg = boot[l].sel /\ ~k.patched /\ a.pc \in {"none", "ready"}
  BY <1>1, <1>5 DEF LaunchClientOk, LaunchAideOk
<1>7. c \in LaunchClient /\ c.st = "running" /\ c.pkg = k.pkg /\ c.patched = k.patched
  BY <1>2, <1>5 DEF LaunchClient
<1>8. LaunchStartOk(b)
  BY <1>1, <1>2, <1>3, <1>4, <1>5 DEF LaunchStartOk
<1>9. LaunchClientOk(b, a, c)
  BY <1>2, <1>3, <1>4, <1>6, <1>7 DEF LaunchClientOk
<1>10. LaunchAideOk(b, a, c)
  BY <1>2, <1>4, <1>6, <1>7 DEF LaunchAideOk
<1>11. /\ win' = w /\ boot' = [boot EXCEPT ![l] = b] /\ aide' = [aide EXCEPT ![l] = a] /\ client' = [client EXCEPT ![l] = c]
  <2>1. boot' = [boot EXCEPT ![l] = b]
    BY <1>2 DEF resume, Moves
  <2> QED
    BY <1>1, <1>2, <2>1, LaunchFacts
<1>12. /\ w.shared = win.shared /\ w.running = win.running /\ w.mutex = win.mutex
       /\ (b.pc \in LaunchGuarded <=> w.mutex = l) /\ (b.leases => boot[l].leases)
  BY <1>1, <1>2, <1>3, <1>4, <1>5
<1> QED
  BY <1>1, <1>4, <1>5, <1>7, <1>8, <1>9, <1>10, <1>11, <1>12, LaunchKeeps

(* The helper lets go of it.                                                 *)
LEMMA LaunchCommits ==
  ASSUME LaunchInv, NEW l \in Launchers, Committed(l)
  PROVE  LaunchInv'
<1>1. /\ boot[l].pc = "commit" /\ boot[l].pc \in LaunchExcl /\ boot[l].pc \in LaunchGuarded /\ "finish" \in LaunchPcs
      /\ "finish" \in LaunchGuarded /\ "finish" \in LaunchExcl /\ "finish" \in LaunchHasClient
      /\ aide' = [aide EXCEPT ![l] = NoAide] /\ Moves(l, To(l, "finish")) /\ UNCHANGED <<win, client>>
  BY DEF Committed, Stage, LaunchPcs, LaunchExcl, LaunchGuarded, LaunchHasClient
<1>2. PICK a, c, w, b : a = NoAide /\ c = client[l] /\ w = win /\ b = To(l, "finish")
  OBVIOUS
<1>3. /\ b \in LaunchBoot /\ b.pc = "finish" /\ b.leases = boot[l].leases /\ b.said = boot[l].said
      /\ b.debug = boot[l].debug /\ b.sel = boot[l].sel /\ b.safe = boot[l].safe /\ b.reason = boot[l].reason
  BY <1>1, <1>2, LaunchTo
<1>4. /\ LaunchStartOk(boot[l]) /\ LaunchClientOk(boot[l], aide[l], c) /\ c \in LaunchClient /\ w \in LaunchWin /\ w.mutex = l
  BY <1>1, <1>2, LaunchFacts
<1>5. a \in LaunchAide /\ a.pc = "none" /\ c.st = "running" /\ c.pkg = b.sel
  BY <1>1, <1>2, <1>3, <1>4, LaunchNones DEF LaunchClientOk
<1>6. LaunchStartOk(b)
  BY <1>1, <1>3, <1>4 DEF LaunchStartOk
<1>7. LaunchClientOk(b, a, c)
  BY <1>1, <1>3, <1>4, <1>5 DEF LaunchClientOk
<1>8. LaunchAideOk(b, a, c)
  BY <1>3, <1>5 DEF LaunchAideOk
<1>9. /\ win' = w /\ boot' = [boot EXCEPT ![l] = b] /\ aide' = [aide EXCEPT ![l] = a] /\ client' = [client EXCEPT ![l] = c]
  BY <1>1, <1>2, LaunchFacts DEF Moves
<1>10. /\ w.shared = win.shared /\ w.running = win.running /\ w.mutex = win.mutex
       /\ (b.pc \in LaunchGuarded <=> w.mutex = l) /\ (b.leases => boot[l].leases)
  BY <1>1, <1>2, <1>3, <1>4
<1> QED
  BY ZenonT(60), <1>1, <1>3, <1>4, <1>5, <1>6, <1>7, <1>8, <1>9, <1>10, LaunchKeeps

(* The client belongs to the runtime.                                        *)
LEMMA LaunchFinishes ==
  ASSUME LaunchInv, NEW l \in Launchers, finish(l)
  PROVE  LaunchInv'
<1>1. boot[l].pc = "finish" /\ boot[l].pc \in LaunchExcl /\ boot[l].pc \in LaunchGuarded /\ boot[l].pc \in LaunchHasClient
  BY DEF finish, Stage, LaunchExcl, LaunchGuarded, LaunchHasClient
<1>2. CASE Fail(l, "error")
  BY <1>1, <1>2, LaunchFails
<1>3. CASE Moves(l, [To(l, IF Traffic(l) THEN "attach" ELSE "publish") EXCEPT !.armed = FALSE]) /\ UNCHANGED <<win, aide, client>>
  <2>1. PICK a, c, q, e, b : /\ a = aide[l] /\ c = client[l] /\ q = IF Traffic(l) THEN "attach" ELSE "publish"
                             /\ e = To(l, q) /\ b = [e EXCEPT !.armed = FALSE]
    OBVIOUS
  <2>2. q \in LaunchPcs /\ q \in LaunchGuarded /\ q \in LaunchExcl /\ q \in LaunchHasClient
    BY <2>1 DEF LaunchPcs, LaunchExcl, LaunchGuarded, LaunchHasClient
  <2>3. /\ e \in LaunchBoot /\ e.pc = q /\ e.leases = boot[l].leases /\ e.said = boot[l].said
        /\ e.debug = boot[l].debug /\ e.sel = boot[l].sel /\ e.safe = boot[l].safe /\ e.reason = boot[l].reason
    BY <2>1, <2>2, LaunchTo
  <2>4. /\ b \in LaunchBoot /\ b.pc = q /\ b.leases = boot[l].leases /\ b.said = boot[l].said
        /\ b.debug = boot[l].debug /\ b.sel = boot[l].sel /\ b.safe = boot[l].safe /\ b.reason = boot[l].reason
    BY ZenonT(60), <2>1, <2>3 DEF LaunchBoot
  <2>5. LaunchStartOk(boot[l]) /\ LaunchClientOk(boot[l], a, c) /\ LaunchAideOk(boot[l], a, c)
    BY <2>1, LaunchFacts
  <2>6. b.debug => q = "attach"
    BY <2>1, <2>4, <2>5 DEF LaunchStartOk, Traffic
  <2>7. LaunchStartOk(b)
    BY <1>1, <2>1, <2>2, <2>4, <2>5, <2>6 DEF LaunchStartOk
  <2>8. c.st = "running" /\ a.pc = "none" /\ c.pkg = b.sel
    BY <1>1, <2>4, <2>5 DEF LaunchClientOk, LaunchAideOk
  <2>9. LaunchClientOk(b, a, c)
    BY <1>1, <2>1, <2>2, <2>4, <2>5, <2>8 DEF LaunchClientOk
  <2>10. LaunchAideOk(b, a, c)
    BY <2>1, <2>4, <2>8 DEF LaunchAideOk
  <2>11. boot' = [boot EXCEPT ![l] = b] /\ UNCHANGED <<win, aide, client>>
    BY <1>3, <2>1 DEF Moves
  <2> QED
    BY <1>1, <2>1, <2>2, <2>4, <2>7, <2>9, <2>10, <2>11, LaunchSets
<1> QED
  BY <1>2, <1>3 DEF finish

(* A step of the client alone.                                               *)
LEMMA LaunchClients ==
  ASSUME LaunchInv, NEW l \in Launchers, NEW c \in LaunchClient,
         client' = [client EXCEPT ![l] = c], UNCHANGED <<win, boot, aide>>,
         LaunchClientOk(boot[l], aide[l], c), aide[l].pc = "ready" => c.pkg = boot[l].sel,
         c.st = "none" \/ c.st = client[l].st \/ boot[l].pc \in LaunchExcl
  PROVE  LaunchInv'
<1>1. PICK a : a = aide[l]
  OBVIOUS
<1>2. a \in LaunchAide /\ aide' = [aide EXCEPT ![l] = a] /\ LaunchAideOk(boot[l], a, client[l])
  BY <1>1, LaunchFacts
<1>3. LaunchAideOk(boot[l], a, c)
  BY <1>1, <1>2 DEF LaunchAideOk
<1> QED
  BY <1>1, <1>2, <1>3, LaunchAides

(* The module data are patched, or the client exits.                         *)
LEMMA LaunchPatches ==
  ASSUME LaunchInv, NEW l \in Launchers, debug_owned(l) \/ ClientExits(l)
  PROVE  LaunchInv'
<1>1. PICK b, a, k : b = boot[l] /\ a = aide[l] /\ k = client[l]
  OBVIOUS
<1>2. /\ k \in LaunchClient /\ LaunchClientOk(b, a, k) /\ LaunchAideOk(b, a, k) /\ client \in [Launchers -> LaunchClient]
  BY <1>1, LaunchFacts
<1>3. CASE debug_owned(l)
  <2>1. PICK c : c = [k EXCEPT !.patched = TRUE]
    OBVIOUS
  <2>2. c \in LaunchClient /\ c.st = k.st /\ c.pkg = k.pkg /\ c.patched
    BY <1>2, <2>1 DEF LaunchClient
  <2>3. b.debug /\ k.st = "running"
    BY <1>1, <1>3 DEF debug_owned
  <2>4. LaunchClientOk(b, a, c)
    BY <1>2, <2>2, <2>3 DEF LaunchClientOk
  <2>5. client' = [client EXCEPT ![l] = c] /\ UNCHANGED <<win, boot, aide>>
    BY <1>1, <1>2, <1>3, <2>1 DEF debug_owned
  <2>6. a.pc = "ready" => c.pkg = b.sel
    BY <1>2, <2>2 DEF LaunchAideOk
  <2> QED
    BY <1>1, <2>2, <2>4, <2>5, <2>6, LaunchClients
<1>4. CASE ClientExits(l)
  <2>1. PICK c : c = NoClient
    OBVIOUS
  <2>2. c \in LaunchClient /\ c.st = "none" /\ ~c.patched
    BY <2>1, LaunchNones
  <2>3. b.pc \in {"attach", "publish", "starting", "up"} /\ client' = [client EXCEPT ![l] = c] /\ UNCHANGED <<win, boot, aide>>
    BY <1>1, <1>4, <2>1 DEF ClientExits
  <2>4. a.pc = "none"
    BY <1>2, <2>3 DEF LaunchAideOk
  <2>5. LaunchClientOk(b, a, c)
    BY <2>2, <2>3 DEF LaunchClientOk
  <2> QED
    BY <1>1, <2>2, <2>3, <2>4, <2>5, LaunchClients
<1> QED
  BY <1>3, <1>4

(* The bridge is attached and the patch restored.                            *)
LEMMA LaunchAttaches ==
  ASSUME LaunchInv, NEW l \in Launchers, attach_client(l)
  PROVE  LaunchInv'
<1>1. /\ boot[l].pc = "attach" /\ boot[l].pc \in LaunchExcl /\ boot[l].pc \in LaunchGuarded /\ "publish" \in LaunchPcs
      /\ "publish" \in LaunchGuarded /\ "publish" \in LaunchExcl /\ "publish" \in LaunchHasClient
  BY DEF attach_client, Stage, LaunchPcs, LaunchExcl, LaunchGuarded, LaunchHasClient
<1>2. CASE \E reason \in {"error", "compat", "lease"} : Fail(l, reason)
  BY <1>1, <1>2, LaunchFails
<1>3. CASE /\ client' = [client EXCEPT ![l].patched = FALSE]
           /\ Moves(l, [To(l, "publish") EXCEPT !.debug = FALSE]) /\ UNCHANGED <<win, aide>>
  <2>1. PICK a, k, c, w, e, b : /\ a = aide[l] /\ k = client[l] /\ c = [k EXCEPT !.patched = FALSE] /\ w = win
                                /\ e = To(l, "publish") /\ b = [e EXCEPT !.debug = FALSE]
    OBVIOUS
  <2>2. /\ e \in LaunchBoot /\ e.pc = "publish" /\ e.leases = boot[l].leases /\ e.said = boot[l].said /\ e.sel = boot[l].sel
    BY <1>1, <2>1, LaunchTo
  <2>3. /\ b \in LaunchBoot /\ b.pc = "publish" /\ b.leases = boot[l].leases /\ b.said = boot[l].said
        /\ ~b.debug /\ b.sel = boot[l].sel
    BY <2>1, <2>2 DEF LaunchBoot
  <2>4. /\ LaunchStartOk(boot[l]) /\ LaunchClientOk(boot[l], a, k) /\ LaunchAideOk(boot[l], a, k) /\ a \in LaunchAide /\ k \in LaunchClient
        /\ w \in LaunchWin /\ w.mutex = l
    BY <1>1, <2>1, LaunchFacts
  <2>5. c \in LaunchClient /\ c.st = k.st /\ c.pkg = k.pkg /\ ~c.patched
    BY <2>1, <2>4 DEF LaunchClient
  <2>6. LaunchStartOk(b)
    BY <1>1, <2>3, <2>4 DEF LaunchStartOk
  <2>7. k.st # "suspended" /\ (k.st # "none" => k.pkg = boot[l].sel) /\ a.pc = "none"
    BY <1>1, <2>4 DEF LaunchClientOk, LaunchAideOk
  <2>8. LaunchClientOk(b, a, c)
    BY <1>1, <2>3, <2>5, <2>7 DEF LaunchClientOk
  <2>9. LaunchAideOk(b, a, c)
    BY <2>3, <2>7 DEF LaunchAideOk
  <2>10. /\ win' = w /\ boot' = [boot EXCEPT ![l] = b] /\ aide' = [aide EXCEPT ![l] = a] /\ client' = [client EXCEPT ![l] = c]
    BY <1>3, <2>1, LaunchFacts DEF Moves
  <2>11. /\ w.shared = win.shared /\ w.running = win.running /\ w.mutex = win.mutex
         /\ (b.pc \in LaunchGuarded <=> w.mutex = l) /\ (b.leases => boot[l].leases)
    BY <1>1, <2>1, <2>3, <2>4
  <2> QED
    BY <1>1, <2>3, <2>4, <2>5, <2>6, <2>8, <2>9, <2>10, <2>11, LaunchKeeps
<1> QED
  BY <1>2, <1>3 DEF attach_client

(* The status names the client and the mutex is released.                    *)
LEMMA LaunchPublishes ==
  ASSUME LaunchInv, NEW l \in Launchers, set_codex(l)
  PROVE  LaunchInv'
<1>1. /\ boot[l].pc = "publish" /\ boot[l].pc \in LaunchExcl /\ boot[l].pc \in LaunchGuarded /\ "starting" \in LaunchPcs
      /\ "starting" \notin LaunchGuarded /\ "starting" \notin LaunchExcl /\ "starting" \notin LaunchHasClient
  BY DEF set_codex, Stage, LaunchPcs, LaunchExcl, LaunchGuarded, LaunchHasClient
<1>2. CASE Fail(l, "error")
  BY <1>1, <1>2, LaunchFails
<1>3. CASE /\ Moves(l, [To(l, "starting") EXCEPT !.said = boot[l].sel])
           /\ win' = [win EXCEPT !.mutex = Nobody] /\ UNCHANGED <<aide, client>>
  <2>1. PICK a, c, v, w, n, e, b : /\ a = aide[l] /\ c = client[l] /\ v = win /\ w = [v EXCEPT !.mutex = Nobody]
                                   /\ n = boot[l].sel /\ e = To(l, "starting") /\ b = [e EXCEPT !.said = n]
    OBVIOUS
  <2>2. /\ e \in LaunchBoot /\ e.pc = "starting" /\ e.leases = boot[l].leases /\ e.sel = boot[l].sel /\ e.debug = boot[l].debug
    BY <1>1, <2>1, LaunchTo
  <2>3. n \in 0 .. MaxPackage
    BY <2>1, LaunchFacts DEF LaunchBoot
  <2>4. /\ b \in LaunchBoot /\ b.pc = "starting" /\ b.leases = boot[l].leases /\ b.said = n
        /\ b.sel = n /\ b.debug = boot[l].debug
    BY <2>1, <2>2, <2>3 DEF LaunchBoot
  <2>5. /\ LaunchStartOk(boot[l]) /\ LaunchClientOk(boot[l], a, c) /\ LaunchAideOk(boot[l], a, c) /\ a \in LaunchAide /\ c \in LaunchClient
        /\ v \in LaunchWin /\ v.mutex = l /\ l # Nobody
    BY <1>1, <2>1, LaunchFacts
  <2>6. w \in LaunchWin /\ w.mutex = Nobody /\ w.running = win.running /\ w.shared = win.shared
    BY <2>1, <2>5 DEF LaunchWin
  <2>7. LaunchStartOk(b)
    BY <1>1, <2>1, <2>4, <2>5 DEF LaunchStartOk
  <2>8. c.st # "suspended" /\ (c.st # "none" => c.pkg = boot[l].sel) /\ a.pc = "none" /\ ~c.patched
    BY <1>1, <2>5 DEF LaunchClientOk, LaunchAideOk, LaunchStartOk
  <2>9. LaunchClientOk(b, a, c)
    BY <2>1, <2>4, <2>8 DEF LaunchClientOk
  <2>10. LaunchAideOk(b, a, c)
    BY <2>4, <2>8 DEF LaunchAideOk
  <2>11. /\ win' = w /\ boot' = [boot EXCEPT ![l] = b] /\ aide' = [aide EXCEPT ![l] = a] /\ client' = [client EXCEPT ![l] = c]
    BY <1>3, <2>1, LaunchFacts DEF Moves
  <2>12. /\ w.mutex = Nobody /\ win.mutex = l
         /\ (b.pc \in LaunchGuarded <=> w.mutex = l) /\ (b.leases => boot[l].leases)
    BY <1>1, <2>1, <2>4, <2>5, <2>6
  <2> QED
    BY <1>1, <2>4, <2>5, <2>6, <2>7, <2>9, <2>10, <2>11, <2>12, LaunchKeeps
<1> QED
  BY <1>2, <1>3 DEF set_codex

(* The runtime is up.                                                        *)
LEMMA LaunchReadies ==
  ASSUME LaunchInv, NEW l \in Launchers, set_ready(l)
  PROVE  LaunchInv'
<1>1. /\ boot[l].pc = "starting" /\ boot[l].pc \notin LaunchGuarded /\ boot[l].pc \notin LaunchExcl /\ "up" \in LaunchPcs
      /\ "up" \notin LaunchGuarded /\ "up" \notin LaunchExcl
  BY DEF set_ready, Stage, LaunchPcs, LaunchExcl, LaunchGuarded, LaunchHasClient
<1>2. CASE \E reason \in {"error", "compat"} : Fail(l, reason)
  BY <1>1, <1>2, LaunchFails
<1>3. CASE client[l].st = "running" /\ Moves(l, To(l, "up")) /\ UNCHANGED <<win, aide, client>>
  <2>1. PICK a, c, b : a = aide[l] /\ c = client[l] /\ b = To(l, "up")
    OBVIOUS
  <2>2. /\ b \in LaunchBoot /\ b.pc = "up" /\ b.leases = boot[l].leases /\ b.sel = boot[l].sel /\ b.debug = boot[l].debug
        /\ b.said = boot[l].said
    BY <1>1, <2>1, LaunchTo
  <2>3. LaunchStartOk(boot[l]) /\ LaunchClientOk(boot[l], a, c) /\ LaunchAideOk(boot[l], a, c)
    BY <2>1, LaunchFacts
  <2>4. LaunchStartOk(b)
    BY <1>1, <2>2, <2>3 DEF LaunchStartOk
  <2>5. LaunchClientOk(b, a, c)
    BY <1>1, <2>2, <2>3 DEF LaunchClientOk
  <2>6. LaunchAideOk(b, a, c)
    BY <1>1, <2>2, <2>3 DEF LaunchAideOk
  <2>7. boot' = [boot EXCEPT ![l] = b]
    BY <1>3, <2>1 DEF Moves
  <2> QED
    BY <1>1, <1>3, <2>1, <2>2, <2>4, <2>5, <2>6, <2>7, LaunchSets
<1> QED
  BY <1>2, <1>3 DEF set_ready

(* The runtime ends.                                                         *)
LEMMA LaunchStops ==
  ASSUME LaunchInv, NEW l \in Launchers, wait_inner(l)
  PROVE  LaunchInv'
<1>1. boot[l].pc = "up" /\ boot[l].pc \notin LaunchGuarded /\ UNCHANGED aide
  BY DEF wait_inner, Stage, LaunchGuarded, LaunchExcl, LaunchHasClient
<1>2. PICK a, k : a = aide[l] /\ k = client[l]
  OBVIOUS
<1>3. /\ a \in LaunchAide /\ k \in LaunchClient /\ LaunchClientOk(boot[l], a, k) /\ LaunchAideOk(boot[l], a, k)
      /\ win \in LaunchWin /\ win.mutex # l
  BY <1>1, <1>2, LaunchFacts
<1>4. a.pc = "none" /\ aide' = [aide EXCEPT ![l] = a]
  BY <1>1, <1>2, <1>3, LaunchFacts DEF LaunchAideOk
<1>5. CASE client[l].st = "none"
  <2>1. PICK pc \in {"over", "idle"} : Moves(l, [NoBoot EXCEPT !.pc = pc, !.starts = boot[l].starts]) /\ UNCHANGED <<win, client>>
    BY <1>5 DEF wait_inner
  <2>2. PICK b, w : b = [NoBoot EXCEPT !.pc = pc, !.starts = boot[l].starts] /\ w = win
    OBVIOUS
  <2>3. b \in LaunchBoot /\ b.pc = pc /\ ~b.leases /\ b.said = 0 /\ ~b.debug
    BY <2>2, LaunchOver
  <2>4. win' = w /\ boot' = [boot EXCEPT ![l] = b] /\ client' = [client EXCEPT ![l] = k]
    BY <1>2, <2>1, <2>2, LaunchFacts DEF Moves
  <2>5. k.st = "none" /\ ~k.patched
    BY <1>2, <1>3, <1>5 DEF LaunchClientOk
  <2>6. w \in LaunchWin /\ w.shared = win.shared /\ w.mutex = (IF win.mutex = l THEN Nobody ELSE win.mutex) /\ w.running = win.running
    BY <1>3, <2>2
  <2>7. b.pc \in {"idle", "recover", "over"}
    BY <2>3
  <2> QED
    BY <1>3, <1>4, <2>3, <2>4, <2>5, <2>6, <2>7, LaunchEnds
<1>6. CASE client[l].st # "none"
  <2>1. PICK b, c, w : b = [NoBoot EXCEPT !.pc = "over", !.starts = boot[l].starts] /\ c = NoClient /\ w = win'
    OBVIOUS
  <2>2. b \in LaunchBoot /\ b.pc = "over" /\ ~b.leases /\ b.said = 0 /\ ~b.debug
    BY <2>1, LaunchOver
  <2>3. Release(l) /\ boot' = [boot EXCEPT ![l] = b] /\ client' = [client EXCEPT ![l] = c]
    BY <1>6, <2>1 DEF wait_inner, Moves
  <2>4. c \in LaunchClient /\ c.st = "none" /\ ~c.patched
    BY <2>1, LaunchNones
  <2>5. /\ w \in LaunchWin /\ w.shared = win.shared /\ w.mutex = IF win.mutex = l THEN Nobody ELSE win.mutex
        /\ w.running = win.running \/ (w.running = 1 /\ client[l].st = "running")
    BY <2>1, <2>3, LaunchReleases
  <2> QED
    BY <1>3, <1>4, <2>1, <2>2, <2>3, <2>4, <2>5, LaunchEnds
<1> QED
  BY <1>5, <1>6

(* The launcher is killed.                                                   *)
LEMMA LaunchKilled ==
  ASSUME LaunchInv, NEW l \in Launchers, LauncherKilled(l)
  PROVE  LaunchInv'
<1>10. PICK b, a, c, v : b = [NoBoot EXCEPT !.pc = "over", !.starts = boot[l].starts] /\ a = NoAide /\ c = NoClient /\ v = win
  OBVIOUS
<1>11. PICK kept : kept = (client[l].st # "none" /\ ~boot[l].debug /\ ~aide[l].armed)
  OBVIOUS
<1>12. PICK m : m = IF v.mutex = l THEN Nobody ELSE v.mutex
  OBVIOUS
<1>13. PICK n : n = v.running + (IF kept /\ client[l].st = "running" THEN 1 ELSE 0)
  OBVIOUS
<1>14. PICK f : f = (v.frozen \/ (kept /\ client[l].st = "suspended" /\ client[l].pkg # 0))
  OBVIOUS
<1>15. PICK w : w = [v EXCEPT !.mutex = m, !.running = n, !.frozen = f]
  OBVIOUS
<1>2. /\ boot' = [boot EXCEPT ![l] = b] /\ aide' = [aide EXCEPT ![l] = a] /\ client' = [client EXCEPT ![l] = c] /\ win' = w
  BY <1>10, <1>11, <1>12, <1>13, <1>14, <1>15 DEF LauncherKilled, Moves
<1>3. b \in LaunchBoot /\ b.pc = "over" /\ ~b.leases /\ b.said = 0 /\ ~b.debug
  BY <1>10, <1>11, <1>12, <1>13, <1>14, <1>15, LaunchOver
<1>4. c \in LaunchClient /\ c.st = "none" /\ ~c.patched /\ a \in LaunchAide /\ a.pc = "none"
  BY <1>10, <1>11, <1>12, <1>13, <1>14, <1>15, LaunchNones
<1>5. v \in LaunchWin /\ (client[l].st = "running" => v.running = 0)
  BY <1>10, <1>11, <1>12, <1>13, <1>14, <1>15, LaunchFacts DEF LaunchAlone
<1>6. n = v.running \/ (n = 1 /\ client[l].st = "running")
  BY <1>10, <1>11, <1>12, <1>13, <1>14, <1>15, <1>5 DEF LaunchWin
<1>7. m \in Launchers \cup {Nobody} /\ n \in {0, 1} /\ f \in BOOLEAN
  BY <1>10, <1>11, <1>12, <1>13, <1>14, <1>15, <1>5, <1>6 DEF LaunchWin
<1>8. w \in LaunchWin /\ w.mutex = m /\ w.running = n /\ w.shared = v.shared
  BY ZenonT(60), <1>10, <1>11, <1>12, <1>13, <1>14, <1>15, <1>5, <1>7 DEF LaunchWin
<1>9. /\ w.shared = win.shared /\ w.mutex = (IF win.mutex = l THEN Nobody ELSE win.mutex)
      /\ w.running = win.running \/ (w.running = 1 /\ client[l].st = "running")
  BY <1>10, <1>11, <1>12, <1>13, <1>14, <1>15, <1>6, <1>8
<1> QED
  BY <1>2, <1>3, <1>4, <1>8, <1>9, LaunchEnds

(* Windows updates the package; the user starts and closes clients.          *)
LEMMA LaunchWorld ==
  ASSUME LaunchInv, PackageUpdates \/ UserActs
  PROVE  LaunchInv'
<1>1. PICK v, w : v = win /\ w = win'
  OBVIOUS
<1>2. v \in LaunchWin /\ UNCHANGED <<boot, aide, client>>
  BY <1>1 DEF LaunchInv, LaunchTypes, PackageUpdates, UserActs
<1>3. w \in LaunchWin /\ w.mutex = v.mutex /\ w.shared = v.shared /\ (v.running = 0 => w.running = 0)
  <2>1. CASE v.active < MaxPackage /\ w = [v EXCEPT !.active = v.active + 1]
    <3>1. v.active + 1 \in 1 .. MaxPackage
      BY <1>2, <2>1, LaunchBounds DEF LaunchWin
    <3> QED
      BY <1>2, <2>1, <3>1 DEF LaunchWin
  <2>2. CASE w = [v EXCEPT !.listed = v.active]
    BY <1>2, <2>2 DEF LaunchWin
  <2>3. CASE w = [v EXCEPT !.user = ~v.user]
    BY <1>2, <2>3 DEF LaunchWin
  <2>4. CASE v.running > 0 /\ w = [v EXCEPT !.running = v.running - 1]
    <3>1. v.running - 1 \in {0, 1}
      BY <1>2, <2>4 DEF LaunchWin
    <3> QED
      BY <1>2, <2>4, <3>1 DEF LaunchWin
  <2> QED
    BY <1>1, <2>1, <2>2, <2>3, <2>4 DEF PackageUpdates, UserActs
<1>4. LaunchTypes'
  BY <1>1, <1>2, <1>3 DEF LaunchInv, LaunchTypes
<1>5. ASSUME NEW l \in Launchers
      PROVE  (/\ boot[l].pc \in LaunchGuarded <=> win.mutex = l
              /\ LaunchStartOk(boot[l]) /\ LaunchClientOk(boot[l], aide[l], client[l]) /\ LaunchAideOk(boot[l], aide[l], client[l])
              /\ LaunchAlone(l))'
  <2>1. LaunchAlone(l)'
    <3>1. LaunchAlone(l)
      BY LaunchFacts
    <3> QED
      BY <1>1, <1>2, <1>3, <3>1 DEF LaunchAlone
  <2> QED
    BY <1>1, <1>2, <1>3, <2>1, LaunchFacts
<1> QED
  BY <1>4, <1>5 DEF LaunchInv

(* Every step keeps the invariant.                                           *)
LEMMA LaunchStep == LaunchInv /\ [LaunchNext]_launchVars => LaunchInv'
<1> SUFFICES ASSUME LaunchInv, [LaunchNext]_launchVars
             PROVE  LaunchInv'
  OBVIOUS
<1>1. ASSUME NEW l \in Launchers,
             \/ acquire(l) \/ prepare_plugin_runtimes_filtered(l) \/ prepare_bridge(l) \/ acquire_current_user(l)
             \/ inspect_environment(l) \/ checked_launch_prepared(l) \/ reject_instance_conflict(l) \/ create_suspended(l)
      PROVE  LaunchInv'
  BY <1>1, LaunchAcquires, LaunchPrepares, LaunchLocks, LaunchInspects, LaunchRejects, LaunchCreates
<1>2. ASSUME NEW l \in Launchers,
             \/ activate_helper(l) \/ PackageSelectionChanged(l) \/ SendStart(l) \/ run_helper(l) \/ OpenReported(l)
             \/ HandoffFails(l) \/ before_client_resume(l) \/ resume(l) \/ Committed(l) \/ finish(l) \/ debug_owned(l)
      PROVE  LaunchInv'
  BY <1>2, LaunchActivates, LaunchReselects, LaunchSends, LaunchHelps, LaunchOpens, LaunchHandoffs, LaunchResumes,
     LaunchRuns, LaunchCommits, LaunchFinishes, LaunchPatches
<1>3. ASSUME NEW l \in Launchers,
             \/ attach_client(l) \/ set_codex(l) \/ set_ready(l) \/ wait_inner(l) \/ ClientExits(l)
             \/ LauncherKilled(l) \/ HelperKilled(l)
      PROVE  LaunchInv'
  BY <1>3, LaunchAttaches, LaunchPublishes, LaunchReadies, LaunchStops, LaunchPatches, LaunchKilled, LaunchHelps
<1>4. CASE UNCHANGED launchVars
  BY <1>4 DEF launchVars, LaunchInv, LaunchTypes, LaunchAlone
<1> QED
  BY <1>1, <1>2, <1>3, <1>4, LaunchWorld DEF LaunchNext

(* Before any start the invariant holds.                                     *)
LEMMA LaunchBegins == LaunchInit => LaunchInv
<1> SUFFICES ASSUME LaunchInit
             PROVE  LaunchInv
  OBVIOUS
<1>1. /\ win \in LaunchWin /\ win.mutex = Nobody /\ win.running = 0
  <2>1. 1 \in 1 .. MaxPackage
    BY LaunchBounds, LaunchConstants
  <2> QED
    BY <2>1 DEF LaunchInit, LaunchWin
<1>2. NoBoot \in LaunchBoot /\ NoBoot.pc = "idle" /\ ~NoBoot.leases /\ NoBoot.said = 0 /\ ~NoBoot.debug
  BY LaunchBounds DEF NoBoot, LaunchBoot, LaunchPcs
<1>3. "idle" \notin LaunchGuarded /\ "idle" \notin LaunchExcl
  BY DEF LaunchGuarded, LaunchExcl, LaunchHasClient
<1>4. LaunchTypes
  BY <1>1, <1>2, LaunchNones DEF LaunchInit, LaunchTypes
<1>5. LaunchStartOk(NoBoot) /\ LaunchClientOk(NoBoot, NoAide, NoClient) /\ LaunchAideOk(NoBoot, NoAide, NoClient)
  BY <1>2, <1>3, LaunchNones DEF LaunchStartOk, LaunchClientOk, LaunchAideOk
<1>6. ASSUME NEW l \in Launchers
      PROVE  boot[l] = NoBoot /\ aide[l] = NoAide /\ client[l] = NoClient /\ win.mutex # l /\ LaunchAlone(l)
  <2>1. boot[l] = NoBoot /\ aide[l] = NoAide /\ client[l] = NoClient /\ win.mutex # l
    BY <1>1, LaunchConstants DEF LaunchInit, Nobody
  <2> QED
    BY <1>2, <1>3, <2>1, LaunchNones DEF LaunchAlone
<1> QED
  BY <1>2, <1>3, <1>4, <1>5, <1>6 DEF LaunchInv

(* The invariant contains what the run checks.                               *)
LEMMA LaunchImplies == LaunchInv => LaunchSound
<1> SUFFICES ASSUME LaunchInv
             PROVE  LaunchSound
  OBVIOUS
<1>1. OneClient
  <2>1. PICK S : S = {l \in Launchers : client[l].st = "running"}
    OBVIOUS
  <2>2. win.running \in {0, 1}
    BY DEF LaunchInv, LaunchTypes, LaunchWin
  <2>3. CASE S = {}
    <3>1. Cardinality(S) = 0
      BY <2>3, FS_EmptySet
    <3> QED
      BY <2>1, <2>2, <3>1 DEF OneClient
  <2>4. CASE S # {}
    <3>1. PICK x : x \in S
      BY <2>4
    <3>2. win.running = 0 /\ \A o \in Launchers \ {x} : client[o].st # "running"
      BY <2>1, <3>1, LaunchFacts DEF LaunchAlone
    <3>3. S = {x}
      BY <2>1, <3>1, <3>2
    <3>4. Cardinality(S) = 1
      BY <3>3, FS_Singleton
    <3> QED
      BY <2>1, <3>2, <3>4 DEF OneClient
  <2> QED
    BY <2>3, <2>4
<1>2. SelectedIsActual
  <2>1. ASSUME NEW l \in Launchers
        PROVE  /\ client[l].st = "running" => client[l].pkg = boot[l].sel
               /\ boot[l].said # 0 /\ client[l].st = "running" => boot[l].said = client[l].pkg
    <3>1. LaunchStartOk(boot[l]) /\ LaunchClientOk(boot[l], aide[l], client[l])
      BY LaunchFacts
    <3>2. client[l].st = "running" => client[l].pkg = boot[l].sel
      BY <3>1 DEF LaunchClientOk
    <3> QED
      BY <3>1, <3>2 DEF LaunchStartOk
  <2> QED
    BY <2>1 DEF SelectedIsActual
<1>3. FailureUnwinds
  <2>1. ASSUME NEW l \in Launchers, boot[l].pc \in {"idle", "recover", "over"}
        PROVE  client[l].st = "none" /\ aide[l].pc = "none" /\ win.mutex # l /\ ~boot[l].leases
    <3>1. boot[l].pc \notin LaunchGuarded /\ boot[l].pc \notin LaunchHasClient
      BY <2>1 DEF LaunchGuarded, LaunchExcl, LaunchHasClient
    <3>2. LaunchStartOk(boot[l]) /\ LaunchClientOk(boot[l], aide[l], client[l]) /\ LaunchAideOk(boot[l], aide[l], client[l]) /\ win.mutex # l
      BY <3>1, LaunchFacts
    <3> QED
      BY <2>1, <3>1, <3>2 DEF LaunchStartOk, LaunchClientOk, LaunchAideOk
  <2> QED
    BY <2>1 DEF FailureUnwinds
<1>4. PatchIsGuarded
  <2>1. ASSUME NEW l \in Launchers, client[l].patched
        PROVE  boot[l].debug /\ boot[l].pc \in {"commit", "finish", "attach"}
    <3>1. LaunchStartOk(boot[l]) /\ LaunchClientOk(boot[l], aide[l], client[l])
      BY LaunchFacts
    <3> QED
      BY <2>1, <3>1 DEF LaunchStartOk, LaunchClientOk
  <2> QED
    BY <2>1 DEF PatchIsGuarded
<1>5. StartsAlone
  <2>1. ASSUME NEW l \in Launchers, client[l].st # "none", boot[l].said = 0
        PROVE  win.mutex = l
    <3>1. LaunchStartOk(boot[l]) /\ LaunchClientOk(boot[l], aide[l], client[l])
      BY LaunchFacts
    <3>2. boot[l].pc \in LaunchGuarded
      BY <2>1, <3>1 DEF LaunchStartOk, LaunchClientOk, LaunchGuarded, LaunchExcl, LaunchHasClient
    <3> QED
      BY <3>2, LaunchFacts
  <2>2. ASSUME win.shared
        PROVE  Cardinality({l \in Launchers : boot[l].leases}) <= 1
    <3>1. PICK S : S = {l \in Launchers : boot[l].leases}
      OBVIOUS
    <3>2. CASE S = {}
      BY <3>1, <3>2, FS_EmptySet
    <3>3. CASE S # {}
      <4>1. PICK x : x \in S
        BY <3>3
      <4>2. \A o \in Launchers \ {x} : ~boot[o].leases
        BY <2>2, <3>1, <4>1, LaunchFacts DEF LaunchAlone
      <4>3. S = {x}
        BY <3>1, <4>1, <4>2
      <4>4. Cardinality(S) = 1
        BY <4>3, FS_Singleton
      <4> QED
        BY <3>1, <4>4
    <3> QED
      BY <3>2, <3>3
  <2> QED
    BY <2>1, <2>2 DEF StartsAlone
<1> QED
  BY <1>1, <1>2, <1>3, <1>4, <1>5 DEF LaunchSound

(* For any number of Codlet processes, package versions and starts, with     *)
(* every failure, kill and update in between: at most one client that Codlet *)
(* started is running, it is of the selected package, a failed start leaves  *)
(* nothing behind, patches exist only under the debugger, and a start is     *)
(* alone until its status names the client (probe.rs, windows/process.rs,    *)
(* package_launch.rs, launch_mutex.rs).                                      *)
THEOREM LaunchIsSound == LaunchSpec => []LaunchSound
<1>1. LaunchSpec => []LaunchInv
  BY LaunchBegins, LaunchStep, PTL DEF LaunchSpec
<1> QED
  BY <1>1, LaunchImplies, PTL

-----------------------------------------------------------------------------
(* The CDP connection.                                                       *)

(* The types of the shared state, ...                                        *)
ConnRecord == [terminal : Reason, by : 0..MaxRequests, pending : SUBSET ReqId, issued : 0..MaxRequests,
               told : SUBSET ReqId, queue : Seq(0..MaxRequests)]

(* ... of the workers, ...                                                   *)
WireRecord == [run : SUBSET Thread, at : 0..MaxRequests, deadline : BOOLEAN, late : BOOLEAN]

(* ... and of the shutdown.                                                  *)
ClosingRecord == [status : {"starting", "running", "joining", "done", "failed", "aborted"},
                  handles : SUBSET Thread, pc : [Closers -> {"idle", "called", "joining", "ok", "error"}]]

(* The stages in which an owner still waits.                                 *)
ConnActive == {"writing", "waiting", "expiring"}

(* What a queue holds.                                                       *)
ConnQueued(q) == {q[n] : n \in 1..Len(q)}

(* The connection has its reason.                                            *)
ConnEnded(c) == c.terminal # "none"

(* One request against the shared state: it is registered, answered or about *)
(* to be told; a cancelled raw frame keeps a withdrawn permit and a begun    *)
(* one keeps its permit.                                                     *)
ConnRequestOk(c, r, k) ==
    /\ r.stage # "panic"
    /\ r.stage \in ConnActive => k \in c.pending \/ r.box # "empty" \/ k \in c.told
    /\ k \in c.pending => r.stage \in ConnActive /\ r.box = "empty"
    /\ r.ack = "failed" => ConnEnded(c)
    /\ r.seen => ConnEnded(c) \/ (k \in c.pending /\ r.box = "empty")
    /\ r.outcome = "cancelled" => ~r.wrote /\ r.permit = 2 /\ QueuesBounded(r.kind)
    /\ r.wrote /\ QueuesBounded(r.kind) => r.permit = 1
    /\ c.terminal = "timeout" /\ c.by = k /\ QueuesBounded(r.kind) => r.permit = 1

(* Who is registered, who is still to be told, and what the queue holds.     *)
ConnSharedOk(c) ==
    /\ ConnEnded(c) => c.pending = {}
    /\ ~ConnEnded(c) => c.told = {} /\ 0 \notin ConnQueued(c.queue)
    /\ \A k \in ConnQueued(c.queue) : k <= c.issued

(* The raw frames that the queue and the writer hold.                        *)
ConnHeld(c, w, a) ==
    {k \in ((ConnQueued(c.queue) \cup {w.at}) \cap ReqId) : QueuesBounded(a[k].kind)}

(* The frame that is being written, its deadline, and the bound on raw       *)
(* frames.                                                                   *)
ConnWiresOk(c, w, a) ==
    /\ w.at <= c.issued
    /\ w.at # 0 /\ QueuesBounded(a[w.at].kind) => a[w.at].permit = 1
    /\ w.deadline => w.at # 0 /\ QueuesBounded(a[w.at].kind)
    /\ w.late => w.deadline
    /\ Cardinality(ConnHeld(c, w, a)) <= MAX_RAW_QUEUED_WRITES

(* The threads against the status of the shutdown and its callers.           *)
ConnClosingOk(c, w, l) ==
    /\ ~ConnEnded(c) => w.run = (IF l.status = "starting" THEN {"writer"} ELSE Thread)
    /\ w.run \subseteq l.handles
    /\ l.status = "done" => w.run = {}
    /\ (l.status = "joining") = (\E h \in Closers : l.pc[h] = "joining")
    /\ \A h, j \in Closers : l.pc[h] = "joining" /\ l.pc[j] = "joining" => h = j
    /\ l.status \in {"joining", "done", "failed"} \/ (\E h \in Closers : l.pc[h] # "idle") => ConnEnded(c)
    /\ l.status = "starting" => \A h \in Closers : l.pc[h] = "idle"

(* The inductive invariant, of any four records, ...                         *)
ConnHolds(c, w, a, l) ==
    /\ c \in ConnRecord /\ w \in WireRecord /\ a \in [ReqId -> Asked] /\ l \in ClosingRecord
    /\ ConnSharedOk(c) /\ (\A k \in ReqId : ConnRequestOk(c, a[k], k))
    /\ ConnWiresOk(c, w, a) /\ ConnClosingOk(c, w, l)

(* ... and of the connection.                                                *)
ConnInv == ConnHolds(conn, wires, asked, closing)

(* The bounds as numbers; request ids are positive.                          *)
LEMMA ConnNumbers ==
  /\ MaxRequests \in Nat /\ MAX_RAW_QUEUED_WRITES \in Nat /\ MAX_RAW_QUEUED_WRITES > 0 /\ 0 \in 0 .. MaxRequests /\ ReqId = 1 .. MaxRequests
  /\ ReqId \subseteq 0 .. MaxRequests /\ IsFiniteSet(ReqId) /\ 0 \notin ReqId
<1>1. ReqId = 1 .. MaxRequests /\ MaxRequests \in Nat
  BY ConnectionConstants DEF ReqId
<1>2. IsFiniteSet(ReqId)
  BY <1>1, FS_Interval
<1> QED
  BY <1>1, <1>2, ConnectionConstants

(* A step begins in a state that holds the invariant, ...                    *)
LEMMA ConnNow ==
  ASSUME ConnInv
  PROVE  /\ conn \in ConnRecord /\ wires \in WireRecord /\ asked \in [ReqId -> Asked] /\ closing \in ClosingRecord
         /\ ConnSharedOk(conn) /\ (\A k \in ReqId : ConnRequestOk(conn, asked[k], k))
         /\ ConnWiresOk(conn, wires, asked) /\ ConnClosingOk(conn, wires, closing)
         /\ (Closed <=> ConnEnded(conn)) /\ ConnHolds(conn, wires, asked, closing)
  BY DEF ConnInv, ConnHolds, Closed, ConnEnded

(* ... and ends in one, if the new records hold it.                          *)
LEMMA ConnThen ==
  ASSUME NEW c, NEW w, NEW a, NEW l, conn' = c, wires' = w, asked' = a, closing' = l, ConnHolds(c, w, a, l)
  PROVE  ConnInv'
<1>1. ConnInv' = ConnHolds(conn', wires', asked', closing')
  BY DEF ConnInv
<1> QED
  BY <1>1

(* A queue with one more element.                                            *)
LEMMA ConnQueueGrows ==
  ASSUME NEW S, NEW q \in Seq(S), NEW n \in S
  PROVE  Append(q, n) \in Seq(S) /\ ConnQueued(Append(q, n)) = ConnQueued(q) \cup {n}
<1>1. PICK r : r = Append(q, n)
  OBVIOUS
<1>2. r \in Seq(S) /\ Len(r) = Len(q) + 1 /\ Len(q) \in Nat /\ r[Len(r)] = n /\ \A k \in 1 .. Len(q) : r[k] = q[k]
  BY <1>1, AppendProperties, LenProperties
<1>3. \A k \in 1 .. Len(r) : k \in 1 .. Len(q) \/ k = Len(r)
  BY <1>2
<1>4. \A k \in 1 .. Len(q) : k \in 1 .. Len(r)
  BY <1>2
<1>5. Len(r) \in 1 .. Len(r)
  BY <1>2
<1>6. ConnQueued(r) = ConnQueued(q) \cup {n}
  BY <1>2, <1>3, <1>4, <1>5 DEF ConnQueued
<1> QED
  BY <1>1, <1>2, <1>6

(* A queue without its head.                                                 *)
LEMMA ConnQueueShrinks ==
  ASSUME NEW S, NEW q \in Seq(S), q # <<>>
  PROVE  /\ Tail(q) \in Seq(S) /\ ConnQueued(Tail(q)) \subseteq ConnQueued(q) /\ Head(q) \in ConnQueued(q) /\ Head(q) \in S
<1>1. PICK r : r = Tail(q)
  OBVIOUS
<1>2. r \in Seq(S) /\ Len(r) = Len(q) - 1 /\ \A k \in 1 .. Len(r) : r[k] = q[k + 1]
  BY <1>1, HeadTailProperties
<1>3. Len(q) \in Nat /\ Len(q) # 0 /\ Head(q) = q[1] /\ Head(q) \in S
  BY HeadTailProperties, LenProperties, EmptySeq
<1>4. \A k \in 1 .. Len(r) : k + 1 \in 1 .. Len(q)
  BY <1>2, <1>3
<1>5. 1 \in 1 .. Len(q)
  BY <1>3
<1> QED
  BY <1>1, <1>2, <1>3, <1>4, <1>5 DEF ConnQueued

(* The empty queue.                                                          *)
LEMMA ConnQueueEmpty ==
  ConnQueued(<<>>) = {} /\ \A S : <<>> \in Seq(S)
  BY DEF ConnQueued

(* The raw frames are finitely many.                                         *)
LEMMA ConnHeldFinite ==
  ASSUME NEW c, NEW w, NEW a
  PROVE  IsFiniteSet(ConnHeld(c, w, a)) /\ Cardinality(ConnHeld(c, w, a)) \in Nat
<1>1. PICK H : H = ConnHeld(c, w, a)
  OBVIOUS
<1>2. H \subseteq ReqId
  BY <1>1 DEF ConnHeld
<1>3. IsFiniteSet(H)
  BY <1>2, ConnNumbers, FS_Subset
<1> QED
  BY <1>1, <1>3, FS_CardinalityType

(* Fewer raw frames are within the bound.                                    *)
LEMMA ConnHeldShrinks ==
  ASSUME NEW c, NEW w, NEW a, NEW d, NEW v, NEW b,
         ConnHeld(d, v, b) \subseteq ConnHeld(c, w, a), Cardinality(ConnHeld(c, w, a)) <= MAX_RAW_QUEUED_WRITES
  PROVE  Cardinality(ConnHeld(d, v, b)) <= MAX_RAW_QUEUED_WRITES
<1>1. PICK G, H : G = ConnHeld(d, v, b) /\ H = ConnHeld(c, w, a)
  OBVIOUS
<1>2. IsFiniteSet(H) /\ Cardinality(H) \in Nat /\ Cardinality(G) \in Nat
  BY <1>1, ConnHeldFinite
<1>3. Cardinality(G) <= Cardinality(H)
  BY <1>1, <1>2, FS_Subset
<1> QED
  BY <1>1, <1>2, <1>3, ConnNumbers

(* What Runtime::stop does to the shared state.                              *)
ConnStopped(c, d, e, i) ==
    /\ d \in ConnRecord /\ ConnEnded(d) /\ d.pending = {} /\ d.issued = c.issued
    /\ ConnQueued(d.queue) \subseteq ConnQueued(c.queue) \cup {0}
    /\ ConnEnded(c) => d.terminal = c.terminal /\ d.by = c.by /\ d.told = c.told
    /\ ~ConnEnded(c) => d.terminal = e /\ d.by = i /\ d.told = c.pending

(* It does so.                                                               *)
LEMMA ConnStops ==
  ASSUME NEW c \in ConnRecord, ConnSharedOk(c), NEW e \in {"error", "timeout"}, NEW i \in 0 .. MaxRequests
  PROVE  ConnStopped(c, Stop(c, e, i), e, i)
<1>1. PICK t : t = terminate(c, e, i)
  OBVIOUS
<1>2. /\ t \in ConnRecord /\ ConnEnded(t) /\ t.pending = {} /\ t.issued = c.issued /\ t.queue = c.queue
      /\ (ConnEnded(c) => t.terminal = c.terminal /\ t.by = c.by /\ t.told = c.told)
      /\ (~ConnEnded(c) => t.terminal = e /\ t.by = i /\ t.told = c.pending)
  <2>1. CASE ConnEnded(c)
    <3>1. t = c
      BY <1>1, <2>1 DEF terminate, ConnEnded
    <3> QED
      BY <2>1, <3>1 DEF ConnSharedOk
  <2>2. CASE ~ConnEnded(c)
    <3>1. t = [c EXCEPT !.terminal = e, !.by = i, !.pending = {}, !.told = c.pending]
      BY <1>1, <2>2 DEF terminate, ConnEnded
    <3>2. t \in ConnRecord
      BY <3>1 DEF ConnRecord, Reason
    <3>3. t.terminal = e /\ t.by = i /\ t.pending = {} /\ t.told = c.pending /\ t.issued = c.issued /\ t.queue = c.queue
      BY <3>1 DEF ConnRecord
    <3> QED
      BY <2>2, <3>2, <3>3 DEF ConnEnded
  <2> QED
    BY <2>1, <2>2
<1>3. PICK d : d = Stop(c, e, i)
  OBVIOUS
<1>4. PICK q : q = Append(t.queue, 0)
  OBVIOUS
<1>5. d = t \/ d = [t EXCEPT !.queue = q]
  BY <1>1, <1>3, <1>4 DEF Stop, SHUTDOWN
<1>6. q \in Seq(0 .. MaxRequests) /\ ConnQueued(q) = ConnQueued(c.queue) \cup {0}
  <2>1. PICK u, S : u = t.queue /\ S = 0 .. MaxRequests
    OBVIOUS
  <2>2. u \in Seq(S) /\ 0 \in S
    BY <1>2, <2>1, ConnNumbers DEF ConnRecord
  <2>3. Append(u, 0) \in Seq(S) /\ ConnQueued(Append(u, 0)) = ConnQueued(u) \cup {0}
    BY <2>2, ConnQueueGrows
  <2> QED
    BY <1>2, <1>4, <2>1, <2>3
<1>7. CASE d = [t EXCEPT !.queue = q]
  <2>1. d \in ConnRecord /\ d.queue = q /\ d.terminal = t.terminal /\ d.by = t.by /\ d.pending = t.pending /\ d.told = t.told /\ d.issued = t.issued
    BY <1>2, <1>6, <1>7 DEF ConnRecord
  <2> QED
    BY <1>2, <1>3, <1>6, <2>1 DEF ConnStopped, ConnEnded
<1>8. CASE d = t
  BY <1>2, <1>3, <1>8 DEF ConnStopped
<1> QED
  BY <1>5, <1>7, <1>8

(* A connection that ends keeps the invariant: everybody registered is to be *)
(* told.                                                                     *)
LEMMA ConnEnds ==
  ASSUME NEW c, NEW w, NEW a, NEW l, ConnHolds(c, w, a, l), NEW d, NEW e, NEW i, ConnStopped(c, d, e, i),
         e = "timeout" /\ i \in ReqId /\ QueuesBounded(a[i].kind) => a[i].permit = 1
  PROVE  ConnHolds(d, w, a, l)
<1>1. ConnSharedOk(d)
  <2>1. \A k \in ConnQueued(c.queue) : k <= c.issued
    BY DEF ConnHolds, ConnSharedOk
  <2>2. 0 <= c.issued
    BY DEF ConnHolds, ConnRecord
  <2> QED
    BY <2>1, <2>2 DEF ConnSharedOk, ConnStopped
<1>2. ASSUME NEW k \in ReqId
      PROVE  ConnRequestOk(d, a[k], k)
  <2>1. ConnRequestOk(c, a[k], k) /\ ConnSharedOk(c)
    BY DEF ConnHolds
  <2> QED
    BY <2>1 DEF ConnRequestOk, ConnStopped, ConnEnded, ConnSharedOk
<1>3. ConnWiresOk(d, w, a)
  <2>1. ConnWiresOk(c, w, a)
    BY DEF ConnHolds
  <2>2. ConnHeld(d, w, a) \subseteq ConnHeld(c, w, a)
    BY ConnNumbers DEF ConnHeld, ConnStopped
  <2>3. Cardinality(ConnHeld(d, w, a)) <= MAX_RAW_QUEUED_WRITES
    BY <2>1, <2>2, ConnHeldShrinks DEF ConnWiresOk
  <2> QED
    BY <2>1, <2>3 DEF ConnWiresOk, ConnStopped
<1>4. ConnClosingOk(d, w, l)
  BY DEF ConnHolds, ConnClosingOk, ConnStopped
<1> QED
  BY <1>1, <1>2, <1>3, <1>4 DEF ConnHolds, ConnStopped

(* A new epoch keeps it.                                                     *)
LEMMA ConnEpoch ==
  ASSUME NEW c, NEW w, NEW a, NEW l, ConnHolds(c, w, a, l)
  PROVE  ConnHolds(c, w, NewEpoch(a), l)
<1>1. PICK b : b = NewEpoch(a)
  OBVIOUS
<1>2. b = [k \in ReqId |-> [a[k] EXCEPT !.seen = FALSE]]
  BY <1>1 DEF NewEpoch
<1>3. ASSUME NEW k \in ReqId
      PROVE  /\ b[k] \in Asked /\ ~b[k].seen /\ b[k].kind = a[k].kind /\ b[k].ack = a[k].ack /\ b[k].box = a[k].box
             /\ b[k].permit = a[k].permit /\ b[k].stage = a[k].stage /\ b[k].outcome = a[k].outcome /\ b[k].wrote = a[k].wrote
  <2>1. PICK r : r = a[k]
    OBVIOUS
  <2>2. r \in Asked /\ b[k] = [r EXCEPT !.seen = FALSE]
    BY <1>2, <2>1 DEF ConnHolds
  <2> QED
    BY <2>1, <2>2 DEF Asked
<1>4. b \in [ReqId -> Asked]
  BY <1>2, <1>3
<1>5. ASSUME NEW k \in ReqId
      PROVE  ConnRequestOk(c, b[k], k)
  <2>1. ConnRequestOk(c, a[k], k)
    BY DEF ConnHolds
  <2> QED
    BY <1>3, <2>1 DEF ConnRequestOk
<1>6. ConnWiresOk(c, w, b)
  <2>1. ConnWiresOk(c, w, a) /\ w.at \in 0 .. MaxRequests
    BY DEF ConnHolds, WireRecord
  <2>2. ConnHeld(c, w, b) \subseteq ConnHeld(c, w, a)
    BY <1>3 DEF ConnHeld
  <2>3. Cardinality(ConnHeld(c, w, b)) <= MAX_RAW_QUEUED_WRITES
    BY <2>1, <2>2, ConnHeldShrinks DEF ConnWiresOk
  <2>4. w.at # 0 => w.at \in ReqId
    BY <2>1, ConnNumbers
  <2> QED
    BY <1>3, <2>1, <2>3, <2>4 DEF ConnWiresOk
<1> QED
  BY <1>1, <1>4, <1>5, <1>6 DEF ConnHolds

(* The shared state changes for one request at most.                         *)
ConnTouches(c, d, i) ==
    /\ d \in ConnRecord /\ d.terminal = c.terminal /\ d.by = c.by /\ d.issued = c.issued /\ d.queue = c.queue
    /\ d.pending \subseteq c.pending /\ d.told \subseteq c.told
    /\ \A k \in ReqId \ {i} : (k \in c.pending => k \in d.pending) /\ (k \in c.told => k \in d.told)

(* A step that changes one request.                                          *)
LEMMA ConnEdits ==
  ASSUME NEW c, NEW w, NEW a, NEW l, ConnHolds(c, w, a, l), NEW i \in ReqId, NEW d, ConnTouches(c, d, i),
         NEW r \in Asked, ConnRequestOk(d, r, i), r.kind = a[i].kind, w.at = i /\ QueuesBounded(r.kind) => r.permit = 1
  PROVE  ConnHolds(d, w, [a EXCEPT ![i] = r], l)
<1>1. PICK b : b = [a EXCEPT ![i] = r]
  OBVIOUS
<1>2. b \in [ReqId -> Asked] /\ b[i] = r /\ \A k \in ReqId : k # i => b[k] = a[k]
  BY <1>1 DEF ConnHolds
<1>3. \A k \in ReqId : b[k].kind = a[k].kind
  BY <1>2
<1>4. ConnSharedOk(d)
  BY DEF ConnHolds, ConnSharedOk, ConnTouches, ConnEnded
<1>5. ASSUME NEW k \in ReqId
      PROVE  ConnRequestOk(d, b[k], k)
  <2>1. CASE k = i
    BY <1>2, <2>1
  <2>2. CASE k # i
    <3>1. ConnRequestOk(c, a[k], k) /\ b[k] = a[k]
      BY <1>2, <2>2 DEF ConnHolds
    <3> QED
      BY <2>2, <3>1 DEF ConnRequestOk, ConnTouches, ConnEnded
  <2> QED
    BY <2>1, <2>2
<1>6. ConnWiresOk(d, w, b)
  <2>1. ConnWiresOk(c, w, a) /\ w.at \in 0 .. MaxRequests
    BY DEF ConnHolds, WireRecord
  <2>2. ConnHeld(d, w, b) \subseteq ConnHeld(c, w, a)
    BY <1>3 DEF ConnHeld, ConnTouches
  <2>3. Cardinality(ConnHeld(d, w, b)) <= MAX_RAW_QUEUED_WRITES
    BY <2>1, <2>2, ConnHeldShrinks DEF ConnWiresOk
  <2>4. w.at # 0 => w.at \in ReqId
    BY <2>1, ConnNumbers
  <2> QED
    BY <1>2, <1>3, <2>1, <2>3, <2>4 DEF ConnWiresOk, ConnTouches
<1>7. ConnClosingOk(d, w, l)
  BY DEF ConnHolds, ConnClosingOk, ConnTouches, ConnEnded
<1> QED
  BY <1>1, <1>2, <1>4, <1>5, <1>6, <1>7 DEF ConnHolds, ConnTouches

(* Changing nothing, ...                                                     *)
LEMMA ConnSame ==
  ASSUME NEW c, NEW w, NEW a, NEW l, ConnHolds(c, w, a, l), NEW i
  PROVE  ConnTouches(c, c, i)
  BY DEF ConnHolds, ConnTouches

(* ... or withdrawing the request, touches no other.                         *)
LEMMA ConnWithdrawn ==
  ASSUME NEW c, NEW w, NEW a, NEW l, ConnHolds(c, w, a, l), NEW i
  PROVE  ConnTouches(c, Withdraw(c, i), i) /\ i \notin Withdraw(c, i).pending
<1>1. PICK P, d : P = c.pending \ {i} /\ d = [c EXCEPT !.pending = P]
  OBVIOUS
<1>2. d = Withdraw(c, i)
  BY <1>1 DEF Withdraw
<1>3. c \in ConnRecord
  BY DEF ConnHolds
<1>4. P \in SUBSET ReqId
  BY <1>1, <1>3 DEF ConnRecord
<1>5. /\ d \in ConnRecord /\ d.pending = P /\ d.terminal = c.terminal /\ d.by = c.by /\ d.issued = c.issued /\ d.queue = c.queue /\ d.told = c.told
  BY <1>1, <1>3, <1>4 DEF ConnRecord
<1> QED
  BY <1>1, <1>2, <1>5 DEF ConnTouches

(* A request is finished or dropped, and its queued frame cancelled.         *)
LEMMA ConnRetires ==
  ASSUME NEW c, NEW w, NEW a, NEW l, ConnHolds(c, w, a, l), NEW i \in ReqId, NEW o \in Outcome,
         o = "cancelled" => QueuesBounded(a[i].kind) /\ a[i].permit # 1
  PROVE  ConnHolds(Withdraw(c, i), w, Retire(a, i, o), l)
<1>1. PICK d : d = Withdraw(c, i)
  OBVIOUS
<1>2. ConnTouches(c, d, i) /\ i \notin d.pending
  BY <1>1, ConnWithdrawn
<1>3. PICK s : s = a[i]
  OBVIOUS
<1>4. PICK p : p = IF QueuesBounded(s.kind) /\ s.permit = 0 THEN 2 ELSE s.permit
  OBVIOUS
<1>5. PICK r : r = [s EXCEPT !.stage = "done", !.outcome = o, !.seen = FALSE, !.expired = FALSE,
                             !.ack = "none", !.box = "empty", !.permit = p]
  OBVIOUS
<1>6. s \in Asked /\ ConnRequestOk(c, s, i) /\ a \in [ReqId -> Asked] /\ ConnWiresOk(c, w, a) /\ w.at \in 0 .. MaxRequests
  BY <1>3 DEF ConnHolds, WireRecord
<1>7. p \in 0 .. 2 /\ (s.permit = 1 => p = 1) /\ (o = "cancelled" => p = 2)
  BY <1>3, <1>4, <1>6 DEF Asked
<1>8. /\ r \in Asked /\ r.kind = s.kind /\ r.stage = "done" /\ r.outcome = o /\ ~r.seen /\ r.ack = "none" /\ r.permit = p /\ r.wrote = s.wrote
      /\ r.box = "empty"
  <2>1. r \in Asked
    BY <1>5, <1>6, <1>7 DEF Asked
  <2>2. /\ r.kind = s.kind /\ r.stage = "done" /\ r.outcome = o /\ ~r.seen /\ r.ack = "none" /\ r.permit = p /\ r.wrote = s.wrote
        /\ r.box = "empty"
    BY <1>5, <1>6 DEF Asked
  <2> QED
    BY <2>1, <2>2
<1>9. Retire(a, i, o) = [a EXCEPT ![i] = r]
  BY <1>3, <1>4, <1>5, <1>6 DEF Retire
<1>10. ConnRequestOk(d, r, i)
  BY <1>2, <1>3, <1>6, <1>7, <1>8 DEF ConnRequestOk, ConnActive, ConnTouches, ConnEnded
<1>11. w.at = i /\ QueuesBounded(r.kind) => r.permit = 1
  BY <1>3, <1>6, <1>7, <1>8, ConnNumbers DEF ConnWiresOk
<1>12. r.kind = a[i].kind
  BY <1>3, <1>8
<1>13. ConnHolds(d, w, [a EXCEPT ![i] = r], l)
  BY <1>2, <1>8, <1>10, <1>11, <1>12, ConnEdits
<1> QED
  BY <1>1, <1>9, <1>13

(* An acknowledgement is sent.                                               *)
LEMMA ConnAcks ==
  ASSUME NEW c, NEW w, NEW a, NEW l, ConnHolds(c, w, a, l), NEW i \in ReqId, NEW x \in {"ok", "timeout", "failed"}, x = "failed" => ConnEnded(c)
  PROVE  ConnHolds(c, w, Acks(a, i, x), l)
<1>1. CASE a[i].stage = "done"
  BY <1>1 DEF Acks
<1>2. CASE a[i].stage # "done"
  <2>1. PICK s, r : s = a[i] /\ r = [s EXCEPT !.ack = x]
    OBVIOUS
  <2>2. s \in Asked /\ ConnRequestOk(c, s, i) /\ a \in [ReqId -> Asked] /\ ConnWiresOk(c, w, a)
    BY <2>1 DEF ConnHolds
  <2>3. /\ r \in Asked /\ r.kind = s.kind /\ r.stage = s.stage /\ r.outcome = s.outcome /\ r.seen = s.seen /\ r.ack = x
        /\ r.permit = s.permit /\ r.wrote = s.wrote /\ r.box = s.box
    BY <2>1, <2>2 DEF Asked
  <2>4. Acks(a, i, x) = [a EXCEPT ![i] = r]
    BY <1>2, <2>1, <2>2 DEF Acks
  <2>5. ConnRequestOk(c, r, i)
    BY <2>2, <2>3 DEF ConnRequestOk
  <2>6. w.at = i /\ QueuesBounded(r.kind) => r.permit = 1
    BY <2>1, <2>2, <2>3, ConnNumbers DEF ConnWiresOk
  <2>7. r.kind = a[i].kind /\ ConnTouches(c, c, i)
    BY <2>1, <2>3, ConnSame
  <2>8. ConnHolds(c, w, [a EXCEPT ![i] = r], l)
    BY <2>3, <2>5, <2>6, <2>7, ConnEdits
  <2> QED
    BY <2>4, <2>8
<1> QED
  BY <1>1, <1>2

(* The frame of the writer reaches the pipe.                                 *)
LEMMA ConnWrites ==
  ASSUME NEW c, NEW w, NEW a, NEW l, ConnHolds(c, w, a, l), w.at # 0
  PROVE  ConnHolds(c, w, [a EXCEPT ![w.at].wrote = TRUE], l) /\ w.at \in ReqId
<1>1. PICK i, s, r : i = w.at /\ s = a[i] /\ r = [s EXCEPT !.wrote = TRUE]
  OBVIOUS
<1>2. i \in ReqId
  <2>1. w.at \in 0 .. MaxRequests
    BY DEF ConnHolds, WireRecord
  <2> QED
    BY <1>1, <2>1, ConnNumbers
<1>3. s \in Asked /\ ConnRequestOk(c, s, i) /\ a \in [ReqId -> Asked] /\ ConnWiresOk(c, w, a)
  BY <1>1, <1>2 DEF ConnHolds
<1>4. /\ r \in Asked /\ r.kind = s.kind /\ r.stage = s.stage /\ r.outcome = s.outcome /\ r.seen = s.seen /\ r.ack = s.ack
      /\ r.permit = s.permit /\ r.wrote /\ r.box = s.box
  BY <1>1, <1>3 DEF Asked
<1>5. [a EXCEPT ![w.at].wrote = TRUE] = [a EXCEPT ![i] = r]
  BY <1>1, <1>3
<1>6. QueuesBounded(s.kind) => s.permit = 1
  BY <1>1, <1>3 DEF ConnWiresOk
<1>7. ConnRequestOk(c, r, i)
  BY <1>3, <1>4, <1>6 DEF ConnRequestOk
<1>8. r.kind = a[i].kind /\ ConnTouches(c, c, i) /\ (w.at = i /\ QueuesBounded(r.kind) => r.permit = 1)
  BY <1>1, <1>4, <1>6, ConnSame
<1>9. ConnHolds(c, w, [a EXCEPT ![i] = r], l)
  BY <1>2, <1>4, <1>7, <1>8, ConnEdits
<1> QED
  BY <1>1, <1>2, <1>5, <1>9

(* The acknowledgements of the frames left in the queue are dropped.         *)
LEMMA ConnAbandons ==
  ASSUME NEW c, NEW w, NEW a, NEW l, ConnHolds(c, w, a, l), ConnEnded(c), NEW ids
  PROVE  ConnHolds(c, w, Abandon(a, ids), l)
<1>1. PICK b : b = Abandon(a, ids)
  OBVIOUS
<1>2. b = [k \in ReqId |-> IF k \in ids /\ a[k].ack = "none" THEN Acks(a, k, "failed")[k] ELSE a[k]]
  BY <1>1 DEF Abandon
<1>3. ASSUME NEW k \in ReqId
      PROVE  b[k] = a[k] \/ b[k] = [a[k] EXCEPT !.ack = "failed"]
  <2>1. Acks(a, k, "failed")[k] = a[k] \/ Acks(a, k, "failed")[k] = [a[k] EXCEPT !.ack = "failed"]
    BY DEF Acks, ConnHolds
  <2> QED
    BY <1>2, <2>1
<1>4. ASSUME NEW k \in ReqId
      PROVE  /\ b[k] \in Asked /\ b[k].kind = a[k].kind /\ b[k].box = a[k].box /\ b[k].seen = a[k].seen
             /\ b[k].permit = a[k].permit /\ b[k].stage = a[k].stage /\ b[k].outcome = a[k].outcome /\ b[k].wrote = a[k].wrote
  <2>1. PICK s, r : s = a[k] /\ r = [s EXCEPT !.ack = "failed"]
    OBVIOUS
  <2>2. s \in Asked /\ (b[k] = s \/ b[k] = r)
    BY <1>3, <2>1 DEF ConnHolds
  <2>3. /\ r \in Asked /\ r.kind = s.kind /\ r.box = s.box /\ r.seen = s.seen
        /\ r.permit = s.permit /\ r.stage = s.stage /\ r.outcome = s.outcome /\ r.wrote = s.wrote
    BY <2>1, <2>2 DEF Asked
  <2> QED
    BY <2>1, <2>2, <2>3
<1>5. b \in [ReqId -> Asked]
  BY <1>2, <1>4
<1>6. ASSUME NEW k \in ReqId
      PROVE  ConnRequestOk(c, b[k], k)
  <2>1. ConnRequestOk(c, a[k], k)
    BY DEF ConnHolds
  <2> QED
    BY <1>4, <2>1 DEF ConnRequestOk
<1>7. ConnWiresOk(c, w, b)
  <2>1. ConnWiresOk(c, w, a) /\ w.at \in 0 .. MaxRequests
    BY DEF ConnHolds, WireRecord
  <2>2. ConnHeld(c, w, b) \subseteq ConnHeld(c, w, a)
    BY <1>4 DEF ConnHeld
  <2>3. Cardinality(ConnHeld(c, w, b)) <= MAX_RAW_QUEUED_WRITES
    BY <2>1, <2>2, ConnHeldShrinks DEF ConnWiresOk
  <2>4. w.at # 0 => w.at \in ReqId
    BY <2>1, ConnNumbers
  <2> QED
    BY <1>4, <2>1, <2>3, <2>4 DEF ConnWiresOk
<1> QED
  BY <1>1, <1>5, <1>6, <1>7 DEF ConnHolds

(* Frames leave the queue, for the writer or for good; a worker may return   *)
(* after the end.                                                            *)
LEMMA ConnMovesFrames ==
  ASSUME NEW c, NEW w, NEW a, NEW l, ConnHolds(c, w, a, l), NEW q \in Seq(0 .. MaxRequests), ConnQueued(q) \subseteq ConnQueued(c.queue),
         NEW v \in WireRecord, v.run = w.run \/ (ConnEnded(c) /\ v.run \subseteq w.run), v.at \in ConnQueued(c.queue) \cup {0, w.at},
         v.at # 0 /\ QueuesBounded(a[v.at].kind) => a[v.at].permit = 1,
         v.deadline => v.at # 0 /\ QueuesBounded(a[v.at].kind), v.late => v.deadline
  PROVE  ConnHolds([c EXCEPT !.queue = q], v, a, l)
<1>1. PICK d : d = [c EXCEPT !.queue = q]
  OBVIOUS
<1>2. d \in ConnRecord /\ d.queue = q /\ d.terminal = c.terminal /\ d.by = c.by /\ d.pending = c.pending /\ d.told = c.told /\ d.issued = c.issued
  BY <1>1 DEF ConnRecord, ConnHolds
<1>3. ConnSharedOk(d)
  BY <1>2 DEF ConnHolds, ConnSharedOk, ConnEnded
<1>4. \A k \in ReqId : ConnRequestOk(d, a[k], k)
  BY <1>2 DEF ConnHolds, ConnRequestOk, ConnEnded
<1>5. ConnWiresOk(d, v, a)
  <2>1. ConnWiresOk(c, w, a) /\ ConnSharedOk(c) /\ c \in ConnRecord /\ w \in WireRecord
    BY DEF ConnHolds
  <2>2. ConnHeld(d, v, a) \subseteq ConnHeld(c, w, a)
    BY <1>2, ConnNumbers DEF ConnHeld
  <2>3. Cardinality(ConnHeld(d, v, a)) <= MAX_RAW_QUEUED_WRITES
    BY <2>1, <2>2, ConnHeldShrinks DEF ConnWiresOk
  <2>4. v.at <= d.issued
    BY <1>2, <2>1 DEF ConnSharedOk, ConnWiresOk, ConnRecord
  <2> QED
    BY <2>3, <2>4 DEF ConnWiresOk
<1>6. ConnClosingOk(d, v, l)
  <2>1. ConnClosingOk(c, w, l) /\ v \in WireRecord
    BY DEF ConnHolds
  <2> QED
    BY <1>2, <2>1 DEF ConnClosingOk, ConnEnded
<1> QED
  BY <1>1, <1>2, <1>3, <1>4, <1>5, <1>6 DEF ConnHolds

(* An owner finishes its request.                                            *)
LEMMA ConnFinishes ==
  ASSUME ConnInv, NEW i \in ReqId, NEW o \in Outcome, o = "cancelled" => QueuesBounded(asked[i].kind) /\ asked[i].permit # 1,
         Finishes(i, o), closing' = closing
  PROVE  ConnInv'
<1>1. PICK c, w, a, l : c = conn /\ w = wires /\ a = asked /\ l = closing
  OBVIOUS
<1>2. ConnHolds(c, w, a, l)
  BY <1>1, ConnNow
<1>3. PICK d, b : d = Withdraw(c, i) /\ b = Retire(a, i, o)
  OBVIOUS
<1>4. ConnHolds(d, w, b, l)
  BY <1>1, <1>2, <1>3, ConnRetires
<1>5. conn' = d /\ wires' = w /\ asked' = b /\ closing' = l
  BY <1>1, <1>3 DEF Finishes
<1> QED
  BY <1>4, <1>5, ConnThen

(* An owner goes on waiting.                                                 *)
LEMMA ConnStages ==
  ASSUME ConnInv, NEW i \in ReqId, asked[i].stage \in ConnActive, NEW t \in {"waiting", "expiring"},
         asked' = [asked EXCEPT ![i].stage = t], UNCHANGED <<conn, wires, closing>>
  PROVE  ConnInv'
<1>1. PICK c, w, a, l : c = conn /\ w = wires /\ a = asked /\ l = closing
  OBVIOUS
<1>2. ConnHolds(c, w, a, l)
  BY <1>1, ConnNow
<1>3. PICK s, r : s = a[i] /\ r = [s EXCEPT !.stage = t]
  OBVIOUS
<1>4. s \in Asked /\ ConnRequestOk(c, s, i) /\ a \in [ReqId -> Asked] /\ ConnWiresOk(c, w, a) /\ s.stage \in ConnActive
  BY <1>1, <1>2, <1>3 DEF ConnHolds
<1>5. /\ r \in Asked /\ r.kind = s.kind /\ r.stage = t /\ r.outcome = s.outcome /\ r.seen = s.seen /\ r.ack = s.ack
      /\ r.permit = s.permit /\ r.wrote = s.wrote /\ r.box = s.box
  BY <1>3, <1>4 DEF Asked
<1>6. ConnRequestOk(c, r, i)
  BY <1>4, <1>5 DEF ConnRequestOk, ConnActive
<1>7. w.at = i /\ QueuesBounded(r.kind) => r.permit = 1
  BY <1>3, <1>4, <1>5, ConnNumbers DEF ConnWiresOk
<1>8. r.kind = a[i].kind /\ ConnTouches(c, c, i)
  BY <1>2, <1>3, <1>5, ConnSame
<1>9. ConnHolds(c, w, [a EXCEPT ![i] = r], l)
  BY <1>2, <1>5, <1>6, <1>7, <1>8, ConnEdits
<1>10. PICK b : b = [a EXCEPT ![i] = r]
  OBVIOUS
<1>11. conn' = c /\ wires' = w /\ asked' = b /\ closing' = l
  BY <1>1, <1>3, <1>4, <1>10
<1> QED
  BY <1>9, <1>10, <1>11, ConnThen

(* A step that only ends the connection.                                     *)
LEMMA ConnStopsAll ==
  ASSUME ConnInv, NEW e \in {"error", "timeout"}, NEW i \in 0 .. MaxRequests, conn' = Stop(conn, e, i),
         e = "timeout" /\ i \in ReqId /\ QueuesBounded(asked[i].kind) => asked[i].permit = 1,
         asked' = asked \/ asked' = NewEpoch(asked), UNCHANGED <<wires, closing>>
  PROVE  ConnInv'
<1>1. PICK c, w, a, l : c = conn /\ w = wires /\ a = asked /\ l = closing
  OBVIOUS
<1>2. ConnHolds(c, w, a, l) /\ c \in ConnRecord /\ ConnSharedOk(c)
  BY <1>1, ConnNow
<1>3. PICK d : d = Stop(c, e, i)
  OBVIOUS
<1>4. ConnStopped(c, d, e, i)
  BY <1>2, <1>3, ConnStops
<1>5. e = "timeout" /\ i \in ReqId /\ QueuesBounded(a[i].kind) => a[i].permit = 1
  BY <1>1
<1>6. ConnHolds(d, w, a, l)
  BY <1>2, <1>4, <1>5, ConnEnds
<1>7. PICK b : b = NewEpoch(a)
  OBVIOUS
<1>8. ConnHolds(d, w, b, l)
  BY <1>6, <1>7, ConnEpoch
<1>9. conn' = d /\ wires' = w /\ closing' = l /\ (asked' = a \/ asked' = b)
  BY <1>1, <1>3, <1>7
<1>10. CASE asked' = a
  BY <1>6, <1>9, <1>10, ConnThen
<1>11. CASE asked' = b
  BY <1>8, <1>9, <1>11, ConnThen
<1> QED
  BY <1>9, <1>10, <1>11

(* A step that is only activity.                                             *)
LEMMA ConnEpochs ==
  ASSUME ConnInv, asked' = NewEpoch(asked), UNCHANGED <<conn, wires, closing>>
  PROVE  ConnInv'
<1>1. PICK c, w, a, l, b : c = conn /\ w = wires /\ a = asked /\ l = closing /\ b = NewEpoch(asked)
  OBVIOUS
<1>2. ConnHolds(c, w, b, l)
  BY <1>1, ConnNow, ConnEpoch
<1> QED
  BY <1>1, <1>2, ConnThen

(* The reader stops the connection and returns.                              *)
LEMMA ConnReads ==
  ASSUME ConnInv, ReaderReturns, closing' = closing
  PROVE  ConnInv'
<1>1. PICK c, w, a, l : c = conn /\ w = wires /\ a = asked /\ l = closing
  OBVIOUS
<1>2. ConnHolds(c, w, a, l) /\ c \in ConnRecord /\ ConnSharedOk(c) /\ w \in WireRecord /\ ConnWiresOk(c, w, a)
  BY <1>1, ConnNow
<1>3. PICK d, e, i : d = Stop(c, "error", 0) /\ e = "error" /\ i = 0
  OBVIOUS
<1>4. ConnStopped(c, d, e, i)
  <2>1. d = Stop(c, e, i) /\ e \in {"error", "timeout"} /\ i \in 0 .. MaxRequests
    BY <1>3, ConnNumbers
  <2> QED
    BY <1>2, <2>1, ConnStops
<1>5. e # "timeout"
  BY <1>3
<1>6. ConnHolds(d, w, a, l)
  BY <1>2, <1>4, <1>5, ConnEnds
<1>7. PICK b : b = asked'
  OBVIOUS
<1>8. b = a \/ b = NewEpoch(a)
  BY <1>1, <1>7 DEF ReaderReturns
<1>9. ConnHolds(d, w, b, l)
  BY <1>6, <1>8, ConnEpoch
<1>10. PICK R, v : R = w.run \ {"reader"} /\ v = [w EXCEPT !.run = R]
  OBVIOUS
<1>11. v \in WireRecord /\ v.run = R /\ v.at = w.at /\ v.deadline = w.deadline /\ v.late = w.late /\ R \subseteq w.run
  <2>1. R \in SUBSET Thread
    BY <1>2, <1>10 DEF WireRecord
  <2> QED
    BY <1>2, <1>10, <2>1 DEF WireRecord
<1>12. ConnHolds(d, v, b, l)
  <2>1. PICK q : q = d.queue
    OBVIOUS
  <2>2. d \in ConnRecord /\ ConnEnded(d) /\ ConnWiresOk(d, w, b)
    BY <1>4, <1>9 DEF ConnStopped, ConnHolds
  <2>3. q \in Seq(0 .. MaxRequests) /\ ConnQueued(q) \subseteq ConnQueued(d.queue) /\ [d EXCEPT !.queue = q] = d
    BY <2>1, <2>2 DEF ConnRecord
  <2>4. (v.at # 0 /\ QueuesBounded(b[v.at].kind) => b[v.at].permit = 1) /\ (v.deadline => v.at # 0 /\ QueuesBounded(b[v.at].kind)) /\ (v.late => v.deadline)
    BY <1>11, <2>2 DEF ConnWiresOk
  <2>5. ConnHolds([d EXCEPT !.queue = q], v, b, l)
    BY <1>9, <1>11, <2>2, <2>3, <2>4, ConnMovesFrames
  <2> QED
    BY <2>3, <2>5
<1>13. conn' = d /\ wires' = v /\ asked' = b /\ closing' = l
  BY <1>1, <1>3, <1>7, <1>10 DEF ReaderReturns, Stops
<1> QED
  BY <1>12, <1>13, ConnThen

(* The writer returns after the end.                                         *)
LEMMA ConnWriterReturns ==
  ASSUME ConnInv, NEW d, NEW b, ConnHolds(d, wires, b, closing), ConnEnded(d), WriterReturns(d, b), closing' = closing
  PROVE  ConnInv'
<1>1. PICK w, l : w = wires /\ l = closing
  OBVIOUS
<1>2. PICK ids, f, q : ids = QueuedIds /\ f = Abandon(b, ids) /\ q = <<>>
  OBVIOUS
<1>3. ConnHolds(d, w, b, l) /\ w \in WireRecord
  BY <1>1, ConnNow
<1>4. ConnHolds(d, w, f, l)
  BY <1>2, <1>3, ConnAbandons
<1>5. PICK R, v : R = w.run \ {"writer"} /\ v = [w EXCEPT !.run = R, !.at = 0, !.deadline = FALSE, !.late = FALSE]
  OBVIOUS
<1>6. v \in WireRecord /\ v.run = R /\ v.at = 0 /\ ~v.deadline /\ ~v.late /\ R \subseteq w.run
  <2>1. R \in SUBSET Thread
    BY <1>3, <1>5 DEF WireRecord
  <2> QED
    BY <1>3, <1>5, <2>1, ConnNumbers DEF WireRecord
<1>7. q \in Seq(0 .. MaxRequests) /\ ConnQueued(q) \subseteq ConnQueued(d.queue)
  BY <1>2, ConnQueueEmpty
<1>8. PICK g : g = [d EXCEPT !.queue = q]
  OBVIOUS
<1>9. ConnHolds(g, v, f, l)
  BY <1>4, <1>6, <1>7, <1>8, ConnMovesFrames
<1>10. conn' = g /\ wires' = v /\ asked' = f /\ closing' = l
  BY <1>1, <1>2, <1>5, <1>8 DEF WriterReturns
<1> QED
  BY <1>9, <1>10, ConnThen

(* The writer takes a command.                                               *)
LEMMA ConnWriterLoop ==
  ASSUME ConnInv, writer_loop
  PROVE  ConnInv'
<1>1. PICK c, w, a, l : c = conn /\ w = wires /\ a = asked /\ l = closing
  OBVIOUS
<1>2. ConnHolds(c, w, a, l) /\ c \in ConnRecord /\ ConnSharedOk(c) /\ w \in WireRecord /\ ConnWiresOk(c, w, a) /\ a \in [ReqId -> Asked]
      /\ (Closed <=> ConnEnded(c))
  BY <1>1, ConnNow
<1>3. PICK q, t, i : q = c.queue /\ t = Tail(q) /\ i = Head(q)
  OBVIOUS
<1>4. PICK d : d = [c EXCEPT !.queue = t]
  OBVIOUS
<1>5. w.at = 0 /\ q # <<>> /\ closing' = l
  BY <1>1, <1>3 DEF writer_loop
<1>6. t \in Seq(0 .. MaxRequests) /\ ConnQueued(t) \subseteq ConnQueued(q) /\ i \in ConnQueued(q) /\ i \in 0 .. MaxRequests
  <2>1. q \in Seq(0 .. MaxRequests)
    BY <1>2, <1>3 DEF ConnRecord
  <2> QED
    BY <1>3, <1>5, <2>1, ConnQueueShrinks
<1>7. ~w.deadline /\ ~w.late
  BY <1>2, <1>5 DEF ConnWiresOk
<1>8. ConnHolds(d, w, a, l)
  <2>1. w.run = w.run /\ w.at \in ConnQueued(c.queue) \cup {0, w.at} /\ ConnQueued(t) \subseteq ConnQueued(c.queue)
    BY <1>3, <1>6
  <2>2. (w.at # 0 /\ QueuesBounded(a[w.at].kind) => a[w.at].permit = 1) /\ (w.deadline => w.at # 0 /\ QueuesBounded(a[w.at].kind)) /\ (w.late => w.deadline)
    BY <1>2 DEF ConnWiresOk
  <2> QED
    BY <1>2, <1>4, <1>6, <2>1, <2>2, ConnMovesFrames
<1>9. \/ (i = SHUTDOWN \/ Closed) /\ WriterReturns(c, a)
      \/ /\ i # SHUTDOWN /\ ~Closed /\ a[i].expired /\ ~QueuesBounded(a[i].kind)
         /\ WriterReturns(Stop(d, "timeout", i), NewEpoch(Acks(a, i, "timeout")))
      \/ /\ i # SHUTDOWN /\ ~Closed /\ QueuesBounded(a[i].kind)
         /\ conn' = d /\ asked' = Acks(a, i, "timeout") /\ wires' = w
      \/ /\ i # SHUTDOWN /\ ~Closed /\ ~a[i].expired /\ a[i].permit # 2
         /\ conn' = d
         /\ wires' = [w EXCEPT !.at = i, !.deadline = QueuesBounded(a[i].kind)]
         /\ asked' = [a EXCEPT ![i].permit = IF QueuesBounded(a[i].kind) THEN 1 ELSE 0]
  BY <1>1, <1>3, <1>4 DEF writer_loop
<1>10. CASE (i = SHUTDOWN \/ Closed) /\ WriterReturns(c, a)
  <2>1. ConnEnded(c)
    BY <1>2, <1>3, <1>6, <1>10 DEF ConnSharedOk, SHUTDOWN
  <2>2. ConnHolds(c, wires, a, closing) /\ closing' = closing
    BY <1>1, <1>2, <1>5
  <2> QED
    BY <1>10, <2>1, <2>2, ConnWriterReturns
<1>11. CASE /\ i # SHUTDOWN /\ ~Closed /\ a[i].expired /\ ~QueuesBounded(a[i].kind)
            /\ WriterReturns(Stop(d, "timeout", i), NewEpoch(Acks(a, i, "timeout")))
  <2>1. PICK e, x, b, f : e = Stop(d, "timeout", i) /\ x = "timeout" /\ b = Acks(a, i, "timeout") /\ f = NewEpoch(Acks(a, i, "timeout"))
    OBVIOUS
  <2>2. i \in ReqId
    BY <1>6, <1>11, ConnNumbers DEF SHUTDOWN
  <2>3. ConnHolds(d, w, b, l)
    <3>1. b = Acks(a, i, x) /\ x \in {"ok", "timeout", "failed"} /\ (x = "failed" => ConnEnded(d))
      BY <2>1
    <3> QED
      BY <1>8, <2>2, <3>1, ConnAcks
  <2>4. ConnHolds(d, w, f, l)
    <3>1. f = NewEpoch(b)
      BY <2>1
    <3> QED
      BY <2>3, <3>1, ConnEpoch
  <2>5. ConnStopped(d, e, x, i)
    <3>1. d \in ConnRecord /\ ConnSharedOk(d) /\ e = Stop(d, x, i) /\ x \in {"error", "timeout"}
      BY <1>8, <2>1 DEF ConnHolds
    <3> QED
      BY <1>6, <3>1, ConnStops
  <2>6. ~QueuesBounded(f[i].kind)
    <3>1. a[i].kind = b[i].kind
      BY <1>2, <2>1, <2>2 DEF Acks, Asked
    <3>2. b \in [ReqId -> Asked]
      BY <2>3 DEF ConnHolds
    <3>3. f = [k \in ReqId |-> [b[k] EXCEPT !.seen = FALSE]]
      BY <2>1 DEF NewEpoch
    <3>4. f[i].kind = b[i].kind
      BY <2>2, <3>2, <3>3 DEF Asked
    <3> QED
      BY <1>11, <3>1, <3>4
  <2>7. ConnHolds(e, w, f, l)
    BY <2>4, <2>5, <2>6, ConnEnds
  <2>8. ConnEnded(e) /\ ConnHolds(e, wires, f, closing) /\ WriterReturns(e, f) /\ closing' = closing
    BY <1>1, <1>5, <1>11, <2>1, <2>5, <2>7 DEF ConnStopped
  <2> QED
    BY <2>8, ConnWriterReturns
<1>12. CASE i # SHUTDOWN /\ conn' = d /\ asked' = Acks(a, i, "timeout") /\ wires' = w
  <2>1. PICK x, b : x = "timeout" /\ b = Acks(a, i, "timeout")
    OBVIOUS
  <2>2. i \in ReqId
    BY <1>6, <1>12, ConnNumbers DEF SHUTDOWN
  <2>3. ConnHolds(d, w, b, l)
    <3>1. b = Acks(a, i, x) /\ x \in {"ok", "timeout", "failed"} /\ (x = "failed" => ConnEnded(d))
      BY <2>1
    <3> QED
      BY <1>8, <2>2, <3>1, ConnAcks
  <2> QED
    BY <1>5, <1>12, <2>1, <2>3, ConnThen
<1>13. CASE /\ i # SHUTDOWN /\ ~Closed /\ ~a[i].expired /\ a[i].permit # 2
            /\ conn' = d
            /\ wires' = [w EXCEPT !.at = i, !.deadline = QueuesBounded(a[i].kind)]
            /\ asked' = [a EXCEPT ![i].permit = IF QueuesBounded(a[i].kind) THEN 1 ELSE 0]
  <2>1. PICK s, p, b : s = a[i] /\ p = (IF QueuesBounded(s.kind) THEN 1 ELSE 0) /\ b = QueuesBounded(s.kind)
    OBVIOUS
  <2>2. PICK r, f, v : r = [s EXCEPT !.permit = p] /\ f = [a EXCEPT ![i] = r] /\ v = [w EXCEPT !.at = i, !.deadline = b]
    OBVIOUS
  <2>3. i \in ReqId
    BY <1>6, <1>13, ConnNumbers DEF SHUTDOWN
  <2>4. s \in Asked /\ ConnRequestOk(c, s, i)
    BY <1>2, <2>1, <2>3 DEF ConnHolds
  <2>5. p \in 0 .. 2 /\ b \in BOOLEAN /\ (QueuesBounded(s.kind) => p = 1)
    BY <2>1 DEF QueuesBounded
  <2>6. /\ r \in Asked /\ r.kind = s.kind /\ r.stage = s.stage /\ r.outcome = s.outcome /\ r.seen = s.seen /\ r.ack = s.ack
        /\ r.permit = p /\ r.wrote = s.wrote /\ r.box = s.box
    BY <2>2, <2>4, <2>5 DEF Asked
  <2>7. ConnRequestOk(c, r, i)
    <3>1. s.outcome # "cancelled"
      BY <1>13, <2>1, <2>4 DEF ConnRequestOk
    <3> QED
      BY <2>4, <2>5, <2>6, <3>1 DEF ConnRequestOk
  <2>8. ConnHolds(c, w, f, l)
    <3>1. ConnTouches(c, c, i) /\ r.kind = a[i].kind /\ (w.at = i /\ QueuesBounded(r.kind) => r.permit = 1)
      BY <1>2, <2>1, <2>5, <2>6, ConnSame
    <3> QED
      BY <1>2, <2>2, <2>3, <2>6, <2>7, <3>1, ConnEdits
  <2>9. v \in WireRecord /\ v.run = w.run /\ v.at = i /\ v.deadline = b /\ v.late = w.late
    BY <1>2, <1>6, <2>2, <2>5 DEF WireRecord
  <2>10. f[i] = r
    BY <1>2, <2>2, <2>3
  <2>11. ConnHolds(d, v, f, l)
    <3>1. v.at \in ConnQueued(c.queue) \cup {0, w.at} /\ ConnQueued(t) \subseteq ConnQueued(c.queue)
      BY <1>3, <1>6, <2>9
    <3>2. (v.at # 0 /\ QueuesBounded(f[v.at].kind) => f[v.at].permit = 1) /\ (v.deadline => v.at # 0 /\ QueuesBounded(f[v.at].kind)) /\ (v.late => v.deadline)
      BY <1>7, <2>1, <2>3, <2>5, <2>6, <2>9, <2>10, ConnNumbers
    <3> QED
      BY <1>4, <1>6, <2>8, <2>9, <3>1, <3>2, ConnMovesFrames
  <2>12. conn' = d /\ wires' = v /\ asked' = f /\ closing' = l
    <3>1. asked' = f
      BY <1>2, <1>13, <2>1, <2>2
    <3>2. wires' = v
      BY <1>13, <2>1, <2>2
    <3> QED
      BY <1>5, <1>13, <3>1, <3>2
  <2> QED
    BY <2>11, <2>12, ConnThen
<1> QED
  BY <1>9, <1>10, <1>11, <1>12, <1>13

(* A write ends, well or not.                                                *)
LEMMA ConnWrittenStep ==
  ASSUME ConnInv, Written
  PROVE  ConnInv'
<1>1. PICK c, w, a, l : c = conn /\ w = wires /\ a = asked /\ l = closing
  OBVIOUS
<1>2. ConnHolds(c, w, a, l) /\ w \in WireRecord /\ w.at # 0 /\ closing' = l
  BY <1>1, ConnNow DEF Written
<1>3. PICK i, b : i = w.at /\ b = [a EXCEPT ![w.at].wrote = TRUE]
  OBVIOUS
<1>4. ConnHolds(c, w, b, l) /\ i \in ReqId
  BY <1>2, <1>3, ConnWrites
<1>5. CASE wires' = [w EXCEPT !.at = 0, !.deadline = FALSE, !.late = FALSE] /\ asked' = Acks(b, i, "ok") /\ conn' = c
  <2>1. PICK f, v, x : f = Acks(b, i, "ok") /\ v = [w EXCEPT !.at = 0, !.deadline = FALSE, !.late = FALSE] /\ x = "ok"
    OBVIOUS
  <2>2. ConnHolds(c, w, f, l)
    <3>1. f = Acks(b, i, x) /\ x \in {"ok", "timeout", "failed"} /\ (x = "failed" => ConnEnded(c))
      BY <2>1
    <3> QED
      BY <1>4, <3>1, ConnAcks
  <2>3. v \in WireRecord /\ v.run = w.run /\ v.at = 0 /\ ~v.deadline /\ ~v.late
    BY <1>2, <2>1, ConnNumbers DEF WireRecord
  <2>4. PICK q : q = c.queue
    OBVIOUS
  <2>5. q \in Seq(0 .. MaxRequests) /\ ConnQueued(q) \subseteq ConnQueued(c.queue) /\ [c EXCEPT !.queue = q] = c
    <3>1. c \in ConnRecord
      BY <1>2 DEF ConnHolds
    <3> QED
      BY <2>4, <3>1 DEF ConnRecord
  <2>6. ConnHolds([c EXCEPT !.queue = q], v, f, l)
    BY <2>2, <2>3, <2>5, ConnMovesFrames
  <2>7. ConnHolds(c, v, f, l)
    BY <2>5, <2>6
  <2> QED
    BY <1>2, <1>5, <2>1, <2>7, ConnThen
<1>6. CASE WriterReturns(Stop(c, "error", 0), NewEpoch(Acks(b, i, "failed")))
  <2>1. PICK d, e, n, x, f, g : d = Stop(c, "error", 0) /\ e = "error" /\ n = 0 /\ x = "failed" /\ f = Acks(b, i, "failed") /\ g = NewEpoch(Acks(b, i, "failed"))
    OBVIOUS
  <2>2. ConnStopped(c, d, e, n)
    <3>1. c \in ConnRecord /\ ConnSharedOk(c) /\ d = Stop(c, e, n) /\ e \in {"error", "timeout"} /\ n \in 0 .. MaxRequests
      BY <1>2, <2>1, ConnNumbers DEF ConnHolds
    <3> QED
      BY <3>1, ConnStops
  <2>3. ConnHolds(d, w, b, l) /\ ConnEnded(d)
    <3>1. e # "timeout"
      BY <2>1
    <3> QED
      BY <1>4, <2>2, <3>1, ConnEnds DEF ConnStopped
  <2>4. ConnHolds(d, w, f, l)
    <3>1. f = Acks(b, i, x) /\ x \in {"ok", "timeout", "failed"} /\ (x = "failed" => ConnEnded(d))
      BY <2>1, <2>3
    <3> QED
      BY <1>4, <2>3, <3>1, ConnAcks
  <2>5. ConnHolds(d, w, g, l)
    <3>1. g = NewEpoch(f)
      BY <2>1
    <3> QED
      BY <2>4, <3>1, ConnEpoch
  <2>6. ConnHolds(d, wires, g, closing) /\ WriterReturns(d, g) /\ closing' = closing
    BY <1>1, <1>2, <1>6, <2>1, <2>5
  <2> QED
    BY <2>3, <2>6, ConnWriterReturns
<1> QED
  BY <1>1, <1>3, <1>5, <1>6 DEF Written

(* The reader routes a response.                                             *)
LEMMA ConnRoutes ==
  ASSUME ConnInv, NEW i \in 0 .. (MaxRequests + 1), NEW good \in BOOLEAN, route_response(i, good)
  PROVE  ConnInv'
<1>1. PICK c, w, a, l : c = conn /\ w = wires /\ a = asked /\ l = closing
  OBVIOUS
<1>2. ConnHolds(c, w, a, l) /\ c \in ConnRecord /\ a \in [ReqId -> Asked] /\ ConnSharedOk(c) /\ ConnWiresOk(c, w, a)
  BY <1>1, ConnNow
<1>3. CASE i \in c.pending /\ conn' = Withdraw(c, i) /\ asked' = NewEpoch([a EXCEPT ![i].box = "response"]) /\ wires' = w
  <2>1. PICK s, r, d : s = a[i] /\ r = [s EXCEPT !.box = "response", !.seen = FALSE] /\ d = Withdraw(c, i)
    OBVIOUS
  <2>2. i \in ReqId
    BY <1>2, <1>3 DEF ConnRecord
  <2>3. s \in Asked /\ ConnRequestOk(c, s, i)
    BY <1>2, <2>1, <2>2 DEF ConnHolds
  <2>4. /\ r \in Asked /\ r.kind = s.kind /\ r.stage = s.stage /\ r.outcome = s.outcome /\ ~r.seen /\ r.ack = s.ack
        /\ r.permit = s.permit /\ r.wrote = s.wrote /\ r.box = "response"
    BY ZenonT(60), <2>1, <2>3 DEF Asked
  <2>5. ConnTouches(c, d, i) /\ i \notin d.pending
    BY <1>2, <2>1, ConnWithdrawn
  <2>6. ConnRequestOk(d, r, i)
    BY <2>3, <2>4, <2>5 DEF ConnRequestOk, ConnTouches, ConnEnded
  <2>7. r.kind = a[i].kind /\ (w.at = i /\ QueuesBounded(r.kind) => r.permit = 1)
    BY <1>2, <2>1, <2>2, <2>4, ConnNumbers DEF ConnWiresOk
  <2>8. PICK b, f, g : b = [a EXCEPT ![i] = r] /\ f = [a EXCEPT ![i].box = "response"] /\ g = NewEpoch([a EXCEPT ![i].box = "response"])
    OBVIOUS
  <2>9. ConnHolds(d, w, b, l)
    BY <1>2, <2>2, <2>4, <2>5, <2>6, <2>7, <2>8, ConnEdits
  <2>10. PICK h : h = NewEpoch(b)
    OBVIOUS
  <2>11. ConnHolds(d, w, h, l)
    BY <2>9, <2>10, ConnEpoch
  <2>12. g = h
    <3>1. g = [k \in ReqId |-> [f[k] EXCEPT !.seen = FALSE]] /\ h = [k \in ReqId |-> [b[k] EXCEPT !.seen = FALSE]]
      BY <2>8, <2>10 DEF NewEpoch
    <3>2. \A k \in ReqId : k # i => f[k] = b[k]
      BY <1>2, <2>2, <2>8
    <3>3. f[i] = [s EXCEPT !.box = "response"] /\ b[i] = r
      BY <1>2, <2>1, <2>2, <2>8
    <3>4. [f[i] EXCEPT !.seen = FALSE] = [b[i] EXCEPT !.seen = FALSE]
      BY <2>1, <2>3, <3>3 DEF Asked
    <3> QED
      BY <3>1, <3>2, <3>4
  <2>13. conn' = d /\ wires' = w /\ asked' = g /\ closing' = l
    BY <1>1, <1>3, <2>1, <2>8 DEF route_response
  <2> QED
    BY <2>11, <2>12, <2>13, ConnThen
<1>4. CASE UNCHANGED <<conn, asked, wires>>
  BY <1>1, <1>2, <1>4, ConnThen DEF route_response
<1>5. CASE ReaderReturns
  BY <1>5, ConnReads DEF route_response
<1> QED
  BY <1>1, <1>3, <1>4, <1>5 DEF route_response

(* One sender is told of the end.                                            *)
LEMMA ConnTells ==
  ASSUME ConnInv, Tell
  PROVE  ConnInv'
<1>1. PICK c, w, a, l : c = conn /\ w = wires /\ a = asked /\ l = closing
  OBVIOUS
<1>2. ConnHolds(c, w, a, l) /\ c \in ConnRecord /\ a \in [ReqId -> Asked] /\ ConnSharedOk(c) /\ ConnWiresOk(c, w, a)
  BY <1>1, ConnNow
<1>3. PICK i \in c.told : /\ conn' = [c EXCEPT !.told = @ \ {i}]
                          /\ asked' = [a EXCEPT ![i].box = IF a[i].stage = "done" THEN @ ELSE "connection"]
  BY <1>1 DEF Tell
<1>4. i \in ReqId /\ ConnEnded(c) /\ c.pending = {}
  BY <1>2, <1>3 DEF ConnRecord, ConnSharedOk
<1>5. PICK s, x, T : s = a[i] /\ x = (IF s.stage = "done" THEN s.box ELSE "connection") /\ T = c.told \ {i}
  OBVIOUS
<1>6. PICK r, d, b : r = [s EXCEPT !.box = x] /\ d = [c EXCEPT !.told = T] /\ b = [a EXCEPT ![i] = r]
  OBVIOUS
<1>7. s \in Asked /\ ConnRequestOk(c, s, i)
  BY <1>2, <1>4, <1>5 DEF ConnHolds
<1>8. x \in {"empty", "response", "connection"} /\ (s.stage # "done" => x = "connection")
  BY <1>5, <1>7 DEF Asked
<1>9. /\ r \in Asked /\ r.kind = s.kind /\ r.stage = s.stage /\ r.outcome = s.outcome /\ r.seen = s.seen /\ r.ack = s.ack
      /\ r.permit = s.permit /\ r.wrote = s.wrote /\ r.box = x
  BY <1>6, <1>7, <1>8 DEF Asked
<1>10. /\ ConnTouches(c, d, i) /\ d.pending = {} /\ ConnEnded(d)
  <2>1. T \in SUBSET ReqId
    BY <1>2, <1>5 DEF ConnRecord
  <2>2. /\ d \in ConnRecord /\ d.told = T /\ d.terminal = c.terminal /\ d.by = c.by /\ d.issued = c.issued /\ d.queue = c.queue
        /\ d.pending = c.pending
    BY <1>2, <1>6, <2>1 DEF ConnRecord
  <2> QED
    BY <1>4, <1>5, <2>2 DEF ConnTouches, ConnEnded
<1>11. ConnRequestOk(d, r, i)
  BY <1>7, <1>8, <1>9, <1>10 DEF ConnRequestOk, ConnTouches, ConnActive
<1>12. r.kind = a[i].kind /\ (w.at = i /\ QueuesBounded(r.kind) => r.permit = 1)
  BY <1>2, <1>4, <1>5, <1>9, ConnNumbers DEF ConnWiresOk
<1>13. ConnHolds(d, w, b, l)
  BY <1>2, <1>4, <1>6, <1>9, <1>10, <1>11, <1>12, ConnEdits
<1>14. conn' = d /\ wires' = w /\ asked' = b /\ closing' = l
  <2>1. asked' = b
    BY <1>2, <1>3, <1>4, <1>5, <1>6
  <2>2. conn' = d
    BY <1>3, <1>5, <1>6
  <2> QED
    BY <1>1, <2>1, <2>2 DEF Tell
<1> QED
  BY <1>13, <1>14, ConnThen

(* A step that changes only marks of one request.                            *)
LEMMA ConnMarks ==
  ASSUME ConnInv, NEW i \in ReqId, NEW r \in Asked, asked' = [asked EXCEPT ![i] = r], UNCHANGED <<conn, wires, closing>>,
         ConnRequestOk(conn, r, i), r.kind = asked[i].kind, r.permit = asked[i].permit
  PROVE  ConnInv'
<1>1. PICK c, w, a, l : c = conn /\ w = wires /\ a = asked /\ l = closing
  OBVIOUS
<1>2. ConnHolds(c, w, a, l) /\ ConnWiresOk(c, w, a)
  BY <1>1, ConnNow
<1>3. PICK b : b = [a EXCEPT ![i] = r]
  OBVIOUS
<1>4. ConnTouches(c, c, i) /\ ConnRequestOk(c, r, i) /\ r.kind = a[i].kind /\ (w.at = i /\ QueuesBounded(r.kind) => r.permit = 1)
  BY <1>1, <1>2, ConnSame, ConnNumbers DEF ConnWiresOk
<1>5. ConnHolds(c, w, b, l)
  BY <1>2, <1>3, <1>4, ConnEdits
<1> QED
  BY <1>1, <1>3, <1>5, ConnThen

(* A deadline passes; a drive reads the epoch.                               *)
LEMMA ConnDeadlines ==
  ASSUME ConnInv, NEW i \in ReqId, DeadlinePasses(i) \/ activity_epoch(i)
  PROVE  ConnInv'
<1>1. PICK s, c : s = asked[i] /\ c = conn
  OBVIOUS
<1>2. s \in Asked /\ ConnRequestOk(c, s, i) /\ asked \in [ReqId -> Asked] /\ ConnSharedOk(c) /\ (Closed <=> ConnEnded(c))
  BY <1>1, ConnNow
<1>3. CASE DeadlinePasses(i)
  <2>1. PICK r : r = [s EXCEPT !.expired = TRUE]
    OBVIOUS
  <2>2. /\ r \in Asked /\ r.kind = s.kind /\ r.stage = s.stage /\ r.outcome = s.outcome /\ r.seen = s.seen /\ r.ack = s.ack
        /\ r.permit = s.permit /\ r.wrote = s.wrote /\ r.box = s.box
    BY <1>2, <2>1 DEF Asked
  <2>3. ConnRequestOk(c, r, i)
    BY <1>2, <2>2 DEF ConnRequestOk
  <2>4. asked' = [asked EXCEPT ![i] = r] /\ UNCHANGED <<conn, wires, closing>>
    BY <1>1, <1>2, <1>3, <2>1 DEF DeadlinePasses
  <2> QED
    BY <1>1, <2>2, <2>3, <2>4, ConnMarks
<1>4. CASE activity_epoch(i)
  <2>1. PICK r : r = [s EXCEPT !.seen = TRUE]
    OBVIOUS
  <2>2. /\ r \in Asked /\ r.kind = s.kind /\ r.stage = s.stage /\ r.outcome = s.outcome /\ r.seen /\ r.ack = s.ack
        /\ r.permit = s.permit /\ r.wrote = s.wrote /\ r.box = s.box
    BY <1>2, <2>1 DEF Asked
  <2>3. s.stage = "waiting" /\ s.box = "empty" /\ ~Closed
    BY <1>1, <1>4 DEF activity_epoch
  <2>4. i \in c.pending
    BY <1>2, <2>3 DEF ConnRequestOk, ConnActive, ConnSharedOk
  <2>5. ConnRequestOk(c, r, i)
    BY <1>2, <2>2, <2>3, <2>4 DEF ConnRequestOk
  <2>6. asked' = [asked EXCEPT ![i] = r] /\ UNCHANGED <<conn, wires, closing>>
    BY <1>1, <1>2, <1>4, <2>1 DEF activity_epoch
  <2> QED
    BY <1>1, <2>2, <2>5, <2>6, ConnMarks
<1> QED
  BY <1>3, <1>4

(* A plain caller waits for its write; its deadline ends the connection.     *)
LEMMA ConnWaits ==
  ASSUME ConnInv, NEW i \in ReqId, wait_written(i)
  PROVE  ConnInv'
<1>1. CASE asked[i].ack = "ok" /\ asked' = [asked EXCEPT ![i].stage = "waiting"] /\ UNCHANGED <<conn, wires>>
  <2>1. asked[i].stage \in ConnActive /\ closing' = closing
    BY DEF wait_written, ConnActive
  <2> QED
    BY <1>1, <2>1, ConnStages
<1>2. CASE Finishes(i, request_error(i))
  <2>1. PICK o : o = request_error(i)
    OBVIOUS
  <2>2. o \in Outcome /\ o # "cancelled"
    BY <2>1 DEF request_error, Outcome
  <2> QED
    BY <1>2, <2>1, <2>2, ConnFinishes DEF wait_written
<1>3. CASE /\ asked[i].ack = "none" /\ asked[i].expired
           /\ conn' = Withdraw(Stop(conn, "timeout", i), i)
           /\ wires' = wires
           /\ asked' = LET r == Retire(asked, i, "timeout") IN IF Closed THEN r ELSE NewEpoch(r)
  <2>1. PICK c, w, a, l : c = conn /\ w = wires /\ a = asked /\ l = closing
    OBVIOUS
  <2>2. ConnHolds(c, w, a, l) /\ c \in ConnRecord /\ ConnSharedOk(c)
    BY <2>1, ConnNow
  <2>3. PICK o : o = "timeout"
    OBVIOUS
  <2>4. PICK d : d = Stop(c, o, i)
    OBVIOUS
  <2>5. PICK e, b : e = Withdraw(d, i) /\ b = Retire(a, i, o)
    OBVIOUS
  <2>6. ConnStopped(c, d, o, i)
    <3>1. o \in {"error", "timeout"} /\ i \in 0 .. MaxRequests
      BY <2>3, ConnNumbers
    <3> QED
      BY <2>2, <2>4, <3>1, ConnStops
  <2>7. a[i].kind = "plain"
    BY <2>1 DEF wait_written
  <2>8. ConnHolds(d, w, a, l)
    <3>1. ~QueuesBounded(a[i].kind)
      BY <2>7 DEF QueuesBounded
    <3> QED
      BY <2>2, <2>6, <3>1, ConnEnds
  <2>9. ConnHolds(e, w, b, l)
    <3>1. o \in Outcome /\ o # "cancelled"
      BY <2>3 DEF Outcome
    <3> QED
      BY <2>5, <2>8, <3>1, ConnRetires
  <2>10. PICK f : f = NewEpoch(b)
    OBVIOUS
  <2>11. ConnHolds(e, w, f, l)
    BY <2>9, <2>10, ConnEpoch
  <2>12. conn' = e /\ wires' = w /\ closing' = l /\ (asked' = b \/ asked' = f)
    BY <1>3, <2>1, <2>3, <2>4, <2>5, <2>10 DEF wait_written
  <2>13. CASE asked' = b
    BY <2>9, <2>12, <2>13, ConnThen
  <2>14. CASE asked' = f
    BY <2>11, <2>12, <2>14, ConnThen
  <2> QED
    BY <2>12, <2>13, <2>14
<1> QED
  BY <1>1, <1>2, <1>3 DEF wait_written

(* The polls of raw requests and attachments, and the second look of         *)
(* expire_request: it never meets its unreachable!.                          *)
LEMMA ConnPolls ==
  ASSUME ConnInv, NEW i \in ReqId, poll_written(i) \/ try_attachment_response(i) \/ try_response(i) \/ expire_request(i)
  PROVE  ConnInv'
<1>1. /\ ConnRequestOk(conn, asked[i], i) /\ asked[i] \in Asked /\ ConnSharedOk(conn) /\ (Closed <=> ConnEnded(conn))
      /\ closing' = closing
  <2>1. closing' = closing
    BY DEF poll_written, try_attachment_response, try_response, expire_request
  <2> QED
    BY <2>1, ConnNow
<1>2. asked[i].box \in Outcome \cup {"empty"} /\ asked[i].box # "cancelled"
  BY <1>1 DEF Asked, Outcome
<1>3. request_error(i) \in Outcome /\ request_error(i) # "cancelled" /\ "timeout" \in Outcome /\ "connection" \in Outcome
  BY DEF request_error, Outcome
<1>4. CASE \E o \in Outcome : o # "cancelled" /\ Finishes(i, o)
  BY <1>1, <1>4, ConnFinishes
<1>5. CASE \E t \in {"waiting", "expiring"} : /\ asked[i].stage \in ConnActive
                                              /\ asked' = [asked EXCEPT ![i].stage = t] /\ UNCHANGED <<conn, wires>>
  BY <1>1, <1>5, ConnStages
<1>6. CASE poll_written(i)
  BY <1>3, <1>4, <1>5, <1>6 DEF poll_written, ConnActive
<1>7. CASE try_attachment_response(i)
  BY <1>2, <1>3, <1>4, <1>5, <1>7 DEF try_attachment_response, ConnActive
<1>8. CASE try_response(i)
  BY <1>2, <1>4, <1>5, <1>8 DEF try_response, ConnActive
<1>9. CASE expire_request(i)
  <2>1. asked[i].stage = "expiring"
    BY <1>9 DEF expire_request
  <2>2. Closed \/ i \in conn.pending \/ asked[i].box # "empty"
    BY <1>1, <2>1 DEF ConnRequestOk, ConnActive, ConnSharedOk
  <2> QED
    BY <1>2, <1>3, <1>4, <1>9, <2>2 DEF expire_request
<1> QED
  BY <1>6, <1>7, <1>8, <1>9

(* A cancelled attachment and a dropped request.                             *)
LEMMA ConnDrops ==
  ASSUME ConnInv, NEW i \in ReqId, cancel_attachment_before_write(i) \/ DropRequest(i)
  PROVE  ConnInv'
<1>1. CASE cancel_attachment_before_write(i)
  <2>1. PICK o : o = "cancelled"
    OBVIOUS
  <2>2. o \in Outcome /\ QueuesBounded(asked[i].kind) /\ asked[i].permit # 1 /\ Finishes(i, o) /\ closing' = closing
    BY <1>1, <2>1 DEF cancel_attachment_before_write, Outcome, QueuesBounded
  <2> QED
    BY <2>2, ConnFinishes
<1>2. CASE DropRequest(i)
  <2>1. PICK o : o = "dropped"
    OBVIOUS
  <2>2. o \in Outcome /\ o # "cancelled" /\ Finishes(i, o) /\ closing' = closing
    BY <1>2, <2>1 DEF DropRequest, Outcome
  <2> QED
    BY <2>2, ConnFinishes
<1> QED
  BY <1>1, <1>2

(* The steps that end the connection for everyone.                           *)
LEMMA ConnGivesUp ==
  ASSUME ConnInv, EncodingFails \/ ReaderFailsToStart \/ poll_raw_io \/ \E i \in ReqId : close_unconfirmed_attachment(i)
  PROVE  ConnInv'
<1>1. CASE Stops /\ (asked' = asked \/ asked' = NewEpoch(asked)) /\ UNCHANGED <<wires, closing>>
  <2>1. PICK e, n : e = "error" /\ n = 0
    OBVIOUS
  <2>2. e \in {"error", "timeout"} /\ n \in 0 .. MaxRequests /\ conn' = Stop(conn, e, n) /\ e # "timeout"
    BY <1>1, <2>1, ConnNumbers DEF Stops
  <2> QED
    BY <1>1, <2>2, ConnStopsAll
<1>2. CASE poll_raw_io
  <2>1. PICK e, n : e = "timeout" /\ n = wires.at
    OBVIOUS
  <2>2. wires.late /\ ConnWiresOk(conn, wires, asked) /\ wires \in WireRecord
    BY <1>2, ConnNow DEF poll_raw_io
  <2>3. asked[n].permit = 1 /\ n \in 0 .. MaxRequests
    BY <2>1, <2>2 DEF ConnWiresOk, WireRecord
  <2>4. e \in {"error", "timeout"} /\ conn' = Stop(conn, e, n) /\ asked' = NewEpoch(asked) /\ UNCHANGED <<wires, closing>>
    BY <1>2, <2>1 DEF poll_raw_io
  <2> QED
    BY <2>3, <2>4, ConnStopsAll
<1> QED
  BY <1>1, <1>2 DEF EncodingFails, ReaderFailsToStart, close_unconfirmed_attachment

(* The raw write budget runs out.                                            *)
LEMMA ConnLate ==
  ASSUME ConnInv, RawWriteLate
  PROVE  ConnInv'
<1>1. PICK c, w, a, l : c = conn /\ w = wires /\ a = asked /\ l = closing
  OBVIOUS
<1>2. ConnHolds(c, w, a, l) /\ w \in WireRecord /\ ConnWiresOk(c, w, a) /\ ConnClosingOk(c, w, l)
  BY <1>1, ConnNow
<1>3. PICK v : v = [w EXCEPT !.late = TRUE]
  OBVIOUS
<1>4. w.deadline /\ conn' = c /\ wires' = v /\ asked' = a /\ closing' = l
  BY <1>1, <1>3 DEF RawWriteLate
<1>5. v \in WireRecord /\ v.run = w.run /\ v.at = w.at /\ v.deadline = w.deadline
  BY <1>2, <1>3 DEF WireRecord
<1>6. ConnHeld(c, v, a) = ConnHeld(c, w, a)
  BY <1>5 DEF ConnHeld
<1>7. ConnWiresOk(c, v, a)
  BY <1>2, <1>4, <1>5, <1>6 DEF ConnWiresOk
<1>8. ConnClosingOk(c, v, l)
  BY <1>2, <1>5 DEF ConnClosingOk
<1>9. ConnHolds(c, v, a, l)
  BY <1>2, <1>5, <1>7, <1>8 DEF ConnHolds
<1> QED
  BY <1>4, <1>9, ConnThen

(* A request is issued under a new id, within the bound on raw frames.       *)
LEMMA ConnEnqueues ==
  ASSUME ConnInv, NEW k \in ReqKind, enqueue_request_until(k)
  PROVE  ConnInv'
<1>1. PICK c, w, a, l : c = conn /\ w = wires /\ a = asked /\ l = closing
  OBVIOUS
<1>2. /\ ConnHolds(c, w, a, l) /\ c \in ConnRecord /\ w \in WireRecord /\ a \in [ReqId -> Asked] /\ l \in ClosingRecord /\ ConnSharedOk(c)
      /\ ConnWiresOk(c, w, a) /\ ConnClosingOk(c, w, l)
      /\ (Closed <=> ConnEnded(c))
  BY <1>1, ConnNow
<1>3. PICK i : i = c.issued + 1
  OBVIOUS
<1>4. PICK q, P, r : q = Append(c.queue, i) /\ P = c.pending \cup {i} /\ r = [NoRequest EXCEPT !.kind = k, !.stage = "writing"]
  OBVIOUS
<1>5. PICK d, b : d = [c EXCEPT !.queue = q, !.pending = P, !.issued = i] /\ b = [a EXCEPT ![i] = r]
  OBVIOUS
<1>6. c.issued < MaxRequests /\ ~ConnEnded(c) /\ ~ConnRefused(k) /\ conn' = d /\ asked' = b /\ wires' = w /\ closing' = l
  BY <1>1, <1>2, <1>3, <1>4, <1>5 DEF enqueue_request_until, ConnRefused
<1>7. i \in ReqId /\ i \in 0 .. MaxRequests /\ c.issued \in Nat
  BY <1>2, <1>3, <1>6, ConnNumbers DEF ConnRecord
<1>8. q \in Seq(0 .. MaxRequests) /\ ConnQueued(q) = ConnQueued(c.queue) \cup {i}
  <2>1. PICK u, S : u = c.queue /\ S = 0 .. MaxRequests
    OBVIOUS
  <2>2. u \in Seq(S) /\ i \in S
    BY <1>2, <1>7, <2>1 DEF ConnRecord
  <2>3. Append(u, i) \in Seq(S) /\ ConnQueued(Append(u, i)) = ConnQueued(u) \cup {i}
    BY <2>2, ConnQueueGrows
  <2> QED
    BY <1>4, <2>1, <2>3
<1>9. /\ r \in Asked /\ r.kind = k /\ r.stage = "writing" /\ r.outcome = "none" /\ ~r.seen /\ r.ack = "none" /\ r.permit = 0
      /\ ~r.wrote /\ r.box = "empty"
  <2>1. r = [kind |-> k, ack |-> "none", box |-> "empty", permit |-> 0, expired |-> FALSE, seen |-> FALSE,
             stage |-> "writing", outcome |-> "none", wrote |-> FALSE]
    BY <1>4 DEF NoRequest
  <2>2. r \in Asked
    BY <2>1 DEF Asked, Outcome, ReqKind
  <2> QED
    BY <2>1, <2>2
<1>10. /\ d \in ConnRecord /\ d.queue = q /\ d.pending = P /\ d.issued = i /\ d.terminal = c.terminal /\ d.by = c.by /\ d.told = c.told
  <2>1. P \in SUBSET ReqId
    BY <1>2, <1>4, <1>7 DEF ConnRecord
  <2> QED
    BY <1>2, <1>5, <1>7, <1>8, <2>1 DEF ConnRecord
<1>11. ~ConnEnded(d) /\ d.told = {} /\ 0 \notin ConnQueued(d.queue)
  BY <1>2, <1>3, <1>6, <1>7, <1>8, <1>10, ConnNumbers DEF ConnSharedOk, ConnEnded
<1>12. b \in [ReqId -> Asked] /\ b[i] = r /\ \A j \in ReqId : j # i => b[j] = a[j]
  BY <1>2, <1>5, <1>7, <1>9
<1>13. ConnSharedOk(d)
  <2>1. ConnQueued(c.queue) \subseteq 0 .. MaxRequests
    <3>1. PICK u, S : u = c.queue /\ S = 0 .. MaxRequests
      OBVIOUS
    <3>2. u \in Seq(S)
      BY <1>2, <3>1 DEF ConnRecord
    <3>3. \A n \in 1 .. Len(u) : u[n] \in S
      BY <3>2, ElementOfSeq
    <3> QED
      BY <3>1, <3>3 DEF ConnQueued
  <2>2. \A j \in ConnQueued(c.queue) : j <= i
    BY <1>2, <1>3, <1>7, <2>1, ConnNumbers DEF ConnSharedOk
  <2> QED
    BY <1>7, <1>8, <1>10, <1>11, <2>2, ConnNumbers DEF ConnSharedOk
<1>14. ASSUME NEW j \in ReqId
       PROVE  ConnRequestOk(d, b[j], j)
  <2>1. CASE j = i
    <3>1. i \in d.pending /\ b[j] = r
      BY <1>4, <1>10, <1>12, <2>1
    <3> QED
      BY <1>9, <1>11, <2>1, <3>1 DEF ConnRequestOk, ConnActive, ConnEnded
  <2>2. CASE j # i
    <3>1. ConnRequestOk(c, a[j], j) /\ b[j] = a[j] /\ (j \in d.pending <=> j \in c.pending)
      BY <1>2, <1>4, <1>10, <1>12, <2>2 DEF ConnHolds
    <3> QED
      BY <1>6, <1>10, <3>1 DEF ConnRequestOk, ConnEnded
  <2> QED
    BY <2>1, <2>2
<1>15. w.at \in 0 .. MaxRequests /\ w.at <= c.issued /\ w.at # i
  BY <1>2, <1>3, <1>7, ConnNumbers DEF ConnWiresOk, WireRecord
<1>16. Cardinality(ConnHeld(d, w, b)) <= MAX_RAW_QUEUED_WRITES
  <2>1. PICK H, G : H = ConnHeld(c, w, a) /\ G = ConnHeld(d, w, b)
    OBVIOUS
  <2>2. G \subseteq H \cup {i}
    BY <1>8, <1>10, <1>12, <2>1 DEF ConnHeld
  <2>3. ~QueuesBounded(k) => G \subseteq H
    BY <1>8, <1>9, <1>10, <1>12, <2>1 DEF ConnHeld
  <2>4. IsFiniteSet(H) /\ Cardinality(H) \in Nat /\ Cardinality(H) <= MAX_RAW_QUEUED_WRITES /\ IsFiniteSet(G) /\ Cardinality(G) \in Nat
    BY <1>2, <2>1, ConnHeldFinite DEF ConnWiresOk
  <2>5. CASE ~QueuesBounded(k)
    <3>1. Cardinality(G) <= Cardinality(H)
      BY <2>3, <2>4, <2>5, FS_Subset
    <3> QED
      BY <2>1, <2>4, <3>1, ConnNumbers
  <2>6. CASE QueuesBounded(k)
    <3>1. raw_writes = Cardinality(H)
      <4>1. {j \in QueuedIds \cup ({wires.at} \ {0}) : QueuesBounded(asked[j].kind)} = H
        <5>1. QueuedIds = ConnQueued(c.queue) \cap ReqId
          BY <1>1 DEF QueuedIds, ConnQueued
        <5>2. {w.at} \ {0} = {w.at} \cap ReqId
          BY <1>15, ConnNumbers
        <5> QED
          BY <1>1, <2>1, <5>1, <5>2 DEF ConnHeld
      <4> QED
        BY <4>1 DEF raw_writes
    <3>2. Cardinality(H) < MAX_RAW_QUEUED_WRITES
      BY <1>6, <2>4, <2>6, <3>1, ConnNumbers DEF ConnRefused
    <3>3. PICK U : U = H \cup {i}
      OBVIOUS
    <3>4. IsFiniteSet(U) /\ Cardinality(U) \in Nat /\ Cardinality(U) <= Cardinality(H) + 1
      <4>1. IsFiniteSet(U) /\ (Cardinality(U) = Cardinality(H) \/ Cardinality(U) = Cardinality(H) + 1)
        BY <2>4, <3>3, FS_AddElement
      <4> QED
        BY <2>4, <4>1
    <3>5. Cardinality(G) <= Cardinality(U)
      BY <2>2, <3>3, <3>4, FS_Subset
    <3> QED
      BY <2>1, <2>4, <3>2, <3>4, <3>5, ConnNumbers
  <2> QED
    BY <2>5, <2>6
<1>17. ConnWiresOk(d, w, b)
  <2>1. w.at # 0 => b[w.at] = a[w.at]
    BY <1>12, <1>15, ConnNumbers
  <2>2. w.at <= d.issued
    BY <1>3, <1>7, <1>10, <1>15
  <2> QED
    BY <1>2, <1>16, <2>1, <2>2 DEF ConnWiresOk
<1>18. ConnClosingOk(d, w, l)
  BY <1>2, <1>10 DEF ConnClosingOk, ConnEnded
<1>19. ConnHolds(d, w, b, l)
  BY <1>2, <1>10, <1>12, <1>13, <1>14, <1>17, <1>18 DEF ConnHolds
<1> QED
  BY <1>6, <1>19, ConnThen

(* The reader starts, or the startup is cleaned up.                          *)
LEMMA ConnStarts ==
  ASSUME ConnInv, ReaderStarts \/ cleanup_failed_startup
  PROVE  ConnInv'
<1>1. PICK c, w, a, l : c = conn /\ w = wires /\ a = asked /\ l = closing
  OBVIOUS
<1>2. /\ ConnHolds(c, w, a, l) /\ w \in WireRecord /\ l \in ClosingRecord /\ ConnWiresOk(c, w, a) /\ ConnClosingOk(c, w, l)
      /\ (Closed <=> ConnEnded(c))
  BY <1>1, ConnNow
<1>3. l.status = "starting" /\ \A h \in Closers : l.pc[h] = "idle"
  BY <1>1, <1>2 DEF ReaderStarts, cleanup_failed_startup, ConnClosingOk
<1>4. CASE ReaderStarts
  <2>1. PICK R, v, m : R = w.run \cup {"reader"} /\ v = [w EXCEPT !.run = R] /\ m = [l EXCEPT !.status = "running", !.handles = Thread]
    OBVIOUS
  <2>2. ~ConnEnded(c) /\ conn' = c /\ wires' = v /\ asked' = a /\ closing' = m
    BY <1>1, <1>2, <1>4, <2>1 DEF ReaderStarts
  <2>3. R = Thread
    BY <1>2, <1>3, <2>1, <2>2 DEF ConnClosingOk, Thread
  <2>4. v \in WireRecord /\ v.run = R /\ v.at = w.at /\ v.deadline = w.deadline /\ v.late = w.late
    BY <1>2, <2>1, <2>3 DEF WireRecord
  <2>5. m \in ClosingRecord /\ m.status = "running" /\ m.handles = Thread /\ m.pc = l.pc
    BY <1>2, <2>1 DEF ClosingRecord
  <2>6. ConnClosingOk(c, v, m)
    BY <1>2, <1>3, <2>2, <2>3, <2>4, <2>5 DEF ConnClosingOk
  <2>7. ConnHeld(c, v, a) = ConnHeld(c, w, a)
    BY <2>4 DEF ConnHeld
  <2>8. ConnWiresOk(c, v, a)
    BY <1>2, <2>4, <2>7 DEF ConnWiresOk
  <2>9. ConnHolds(c, v, a, m)
    BY <1>2, <2>4, <2>5, <2>6, <2>8 DEF ConnHolds
  <2> QED
    BY <2>2, <2>9, ConnThen
<1>5. CASE cleanup_failed_startup
  <2>1. PICK m, n : m = [l EXCEPT !.status = "failed", !.handles = {}] /\ n = [l EXCEPT !.status = "aborted"]
    OBVIOUS
  <2>2. ConnEnded(c) /\ conn' = c /\ wires' = w /\ asked' = a /\ ((closing' = m /\ l.handles \cap w.run = {}) \/ closing' = n)
    BY <1>1, <1>2, <1>5, <2>1 DEF cleanup_failed_startup
  <2>3. m \in ClosingRecord /\ m.status = "failed" /\ m.handles = {} /\ m.pc = l.pc
    BY <1>2, <2>1 DEF ClosingRecord
  <2>4. n \in ClosingRecord /\ n.status = "aborted" /\ n.handles = l.handles /\ n.pc = l.pc
    BY <1>2, <2>1 DEF ClosingRecord
  <2>5. CASE closing' = m /\ l.handles \cap w.run = {}
    <3>1. w.run = {}
      BY <1>2, <2>5 DEF ConnClosingOk
    <3>2. ConnClosingOk(c, w, m)
      BY <1>3, <2>2, <2>3, <3>1 DEF ConnClosingOk
    <3>3. ConnHolds(c, w, a, m)
      BY <1>2, <2>3, <3>2 DEF ConnHolds
    <3> QED
      BY <2>2, <2>5, <3>3, ConnThen
  <2>6. CASE closing' = n
    <3>1. ConnClosingOk(c, w, n)
      BY <1>2, <1>3, <2>2, <2>4 DEF ConnClosingOk
    <3>2. ConnHolds(c, w, a, n)
      BY <1>2, <2>4, <3>1 DEF ConnHolds
    <3> QED
      BY <2>2, <2>6, <3>2, ConnThen
  <2> QED
    BY <2>2, <2>5, <2>6
<1> QED
  BY <1>4, <1>5

(* A step of the shutdown alone.                                             *)
LEMMA ConnCloses ==
  ASSUME ConnInv, NEW m \in ClosingRecord, closing' = m, UNCHANGED <<conn, wires, asked>>, ConnClosingOk(conn, wires, m)
  PROVE  ConnInv'
<1>1. PICK c, w, a : c = conn /\ w = wires /\ a = asked
  OBVIOUS
<1>2. ConnHolds(c, w, a, m)
  BY <1>1, ConnNow DEF ConnHolds
<1> QED
  BY <1>1, <1>2, ConnThen

(* A caller of shutdown stops the connection.                                *)
LEMMA ConnShutdown ==
  ASSUME ConnInv, NEW h \in Closers, shutdown(h)
  PROVE  ConnInv'
<1>1. PICK c, w, a, l : c = conn /\ w = wires /\ a = asked /\ l = closing
  OBVIOUS
<1>2. ConnHolds(c, w, a, l) /\ c \in ConnRecord /\ ConnSharedOk(c) /\ l \in ClosingRecord
  BY <1>1, ConnNow
<1>3. PICK d, e, i : d = Stop(c, "error", 0) /\ e = "error" /\ i = 0
  OBVIOUS
<1>4. ConnStopped(c, d, e, i)
  <2>1. d = Stop(c, e, i) /\ e \in {"error", "timeout"} /\ i \in 0 .. MaxRequests
    BY <1>3, ConnNumbers
  <2> QED
    BY <1>2, <2>1, ConnStops
<1>5. e # "timeout"
  BY <1>3
<1>6. ConnHolds(d, w, a, l)
  BY <1>2, <1>4, <1>5, ConnEnds
<1>7. PICK b : b = asked'
  OBVIOUS
<1>8. b = a \/ b = NewEpoch(a)
  BY <1>1, <1>7 DEF shutdown
<1>9. ConnHolds(d, w, b, l)
  BY <1>6, <1>8, ConnEpoch
<1>10. PICK f, m : f = [l.pc EXCEPT ![h] = "called"] /\ m = [l EXCEPT !.pc = f]
  OBVIOUS
<1>11. f \in [Closers -> {"idle", "called", "joining", "ok", "error"}] /\ f[h] = "called" /\ \A j \in Closers : j # h => f[j] = l.pc[j]
  BY <1>2, <1>10 DEF ClosingRecord
<1>12. m \in ClosingRecord /\ m.status = l.status /\ m.handles = l.handles /\ m.pc = f
  BY <1>2, <1>10, <1>11 DEF ClosingRecord
<1>13. l.pc[h] = "idle" /\ l.status # "starting"
  BY <1>1 DEF shutdown, Usable
<1>14. ConnClosingOk(d, w, m)
  <2>1. ConnClosingOk(d, w, l) /\ ConnEnded(d)
    BY <1>4, <1>6 DEF ConnHolds, ConnStopped
  <2>2. \A j \in Closers : (f[j] = "joining" <=> l.pc[j] = "joining")
    BY <1>11, <1>13
  <2> QED
    BY <1>12, <1>13, <2>1, <2>2 DEF ConnClosingOk
<1>15. ConnHolds(d, w, b, m)
  BY <1>9, <1>12, <1>14 DEF ConnHolds
<1>16. conn' = d /\ wires' = w /\ asked' = b /\ closing' = m
  BY <1>1, <1>3, <1>7, <1>10 DEF shutdown, Stops
<1> QED
  BY <1>15, <1>16, ConnThen

(* It joins the workers, waits for the joiner, or tries again.               *)
LEMMA ConnJoins ==
  ASSUME ConnInv, NEW h \in Closers, JoinOrWait(h) \/ join_workers(h) \/ AfterError(h)
  PROVE  ConnInv'
<1>1. PICK c, w, l : c = conn /\ w = wires /\ l = closing
  OBVIOUS
<1>2. w \in WireRecord /\ l \in ClosingRecord /\ ConnClosingOk(c, w, l)
  BY <1>1, ConnNow
<1>3. l.pc \in [Closers -> {"idle", "called", "joining", "ok", "error"}] /\ UNCHANGED <<conn, wires, asked>>
  BY <1>2 DEF ClosingRecord, JoinOrWait, join_workers, AfterError
<1>4. l.pc[h] # "idle" /\ ConnEnded(c) /\ l.status # "starting"
  <2>1. l.pc[h] # "idle"
    BY <1>1 DEF JoinOrWait, join_workers, AfterError
  <2> QED
    BY <1>2, <2>1 DEF ConnClosingOk
<1>5. ASSUME NEW st \in {"running", "joining", "done", "aborted"}, NEW H \in SUBSET Thread, NEW p \in {"idle", "joining", "ok", "error"},
             closing' = [l EXCEPT !.status = st, !.handles = H, !.pc[h] = p],
             w.run \subseteq H, st = "done" => w.run = {}, (st = "joining") = (p = "joining" \/ \E j \in Closers \ {h} : l.pc[j] = "joining"),
             p = "joining" => \A j \in Closers \ {h} : l.pc[j] # "joining"
      PROVE  ConnInv'
  <2>1. PICK f : f = [l.pc EXCEPT ![h] = p]
    OBVIOUS
  <2>2. f \in [Closers -> {"idle", "called", "joining", "ok", "error"}] /\ f[h] = p /\ \A j \in Closers : j # h => f[j] = l.pc[j]
    BY <1>3, <2>1
  <2>3. PICK m : m = [l EXCEPT !.status = st, !.handles = H, !.pc = f]
    OBVIOUS
  <2>4. m \in ClosingRecord /\ m.status = st /\ m.handles = H /\ m.pc = f
    BY <1>2, <2>2, <2>3 DEF ClosingRecord
  <2>5. closing' = m
    BY <1>2, <1>5, <2>1, <2>3 DEF ClosingRecord
  <2>6. \A i, j \in Closers : f[i] = "joining" /\ f[j] = "joining" => i = j
    BY <1>2, <1>5, <2>2 DEF ConnClosingOk
  <2>7. (st = "joining") = (\E j \in Closers : f[j] = "joining")
    BY <1>5, <2>2
  <2>8. ConnClosingOk(c, w, m)
    BY <1>4, <1>5, <2>4, <2>6, <2>7 DEF ConnClosingOk
  <2> QED
    BY <1>1, <1>3, <2>4, <2>5, <2>8, ConnCloses
<1>6. l.handles \in SUBSET Thread /\ w.run \subseteq l.handles /\ [l EXCEPT !.handles = l.handles] = l /\ [l EXCEPT !.status = l.status] = l
  BY <1>2 DEF ClosingRecord, ConnClosingOk
<1>7. /\ \A j \in Closers : l.pc[j] = "joining" => l.status = "joining"
      /\ \A i, j \in Closers : l.pc[i] = "joining" /\ l.pc[j] = "joining" => i = j
      /\ l.status = "joining" => \E j \in Closers : l.pc[j] = "joining"
      /\ l.status = "done" => w.run = {}
  BY <1>2 DEF ConnClosingOk
<1>8. PICK H, st : H = l.handles /\ st = l.status
  OBVIOUS
<1>9. l \in ClosingRecord /\ st \in {"starting", "running", "joining", "done", "failed", "aborted"}
  BY <1>2, <1>8 DEF ClosingRecord
<1>10. CASE l.pc[h] = "called" /\ l.status = "running" /\ closing' = [l EXCEPT !.status = "joining", !.pc[h] = "joining"]
  <2>1. closing' = [l EXCEPT !.status = "joining", !.handles = H, !.pc[h] = "joining"]
    BY <1>8, <1>9, <1>10 DEF ClosingRecord
  <2> QED
    BY ZenonT(60), <1>5, <1>6, <1>7, <1>8, <1>10, <2>1
<1>11. CASE l.pc[h] = "called" /\ l.status = "done" /\ closing' = [l EXCEPT !.pc[h] = "ok"]
  <2>1. closing' = [l EXCEPT !.status = "done", !.handles = H, !.pc[h] = "ok"]
    BY <1>8, <1>9, <1>11 DEF ClosingRecord
  <2>2. \A j \in Closers : l.pc[j] # "joining"
    BY <1>7, <1>11
  <2> QED
    BY <1>5, <1>6, <1>7, <1>8, <1>11, <2>1, <2>2
<1>12. CASE l.pc[h] = "called" /\ l.status = "joining" /\ closing' = [l EXCEPT !.pc[h] = "error"]
  <2>1. closing' = [l EXCEPT !.status = "joining", !.handles = H, !.pc[h] = "error"]
    BY <1>8, <1>9, <1>12 DEF ClosingRecord
  <2>2. \E j \in Closers \ {h} : l.pc[j] = "joining"
    BY <1>7, <1>12
  <2> QED
    BY <1>5, <1>6, <1>8, <1>12, <2>1, <2>2
<1>13. CASE JoinOrWait(h)
  BY <1>1, <1>10, <1>11, <1>12, <1>13 DEF JoinOrWait
<1>14. CASE join_workers(h)
  <2>1. l.pc[h] = "joining" /\ \A j \in Closers \ {h} : l.pc[j] # "joining"
    BY <1>1, <1>7, <1>14 DEF join_workers
  <2>2. PICK left : left = l.handles \cap w.run
    OBVIOUS
  <2>3. left = w.run /\ left \in SUBSET Thread
    BY <1>2, <1>6, <2>2 DEF WireRecord
  <2>4. \/ left = {} /\ closing' = [l EXCEPT !.status = "done", !.handles = {}, !.pc[h] = "ok"]
        \/ left # {} /\ closing' = [l EXCEPT !.status = "running", !.handles = left, !.pc[h] = "error"]
    BY <1>1, <1>14, <2>2 DEF join_workers, reap_finished_workers
  <2>5. CASE left = {} /\ closing' = [l EXCEPT !.status = "done", !.handles = {}, !.pc[h] = "ok"]
    BY <1>5, <2>1, <2>3, <2>5
  <2>6. CASE closing' = [l EXCEPT !.status = "running", !.handles = left, !.pc[h] = "error"]
    BY <1>5, <2>1, <2>3, <2>6
  <2> QED
    BY <2>4, <2>5, <2>6
<1>15. CASE AfterError(h)
  <2>1. l.pc[h] = "error" /\ (closing' = [l EXCEPT !.pc[h] = "idle"] \/ (l.status # "joining" /\ closing' = [l EXCEPT !.status = "aborted"]))
    BY <1>1, <1>15 DEF AfterError
  <2>2. CASE closing' = [l EXCEPT !.pc[h] = "idle"]
    <3>1. PICK f : f = [l.pc EXCEPT ![h] = "idle"]
      OBVIOUS
    <3>2. f \in [Closers -> {"idle", "called", "joining", "ok", "error"}] /\ f[h] = "idle" /\ \A j \in Closers : j # h => f[j] = l.pc[j]
      BY <1>3, <3>1
    <3>3. PICK m : m = [l EXCEPT !.pc = f]
      OBVIOUS
    <3>4. m \in ClosingRecord /\ m.status = l.status /\ m.handles = l.handles /\ m.pc = f /\ closing' = m
      BY <1>2, <2>2, <3>1, <3>2, <3>3 DEF ClosingRecord
    <3>5. \A j \in Closers : (f[j] = "joining" <=> l.pc[j] = "joining")
      BY <2>1, <3>2
    <3>6. ConnClosingOk(c, w, m)
      BY <1>2, <1>4, <3>2, <3>4, <3>5 DEF ConnClosingOk
    <3> QED
      BY <1>1, <1>3, <3>4, <3>6, ConnCloses
  <2>3. CASE l.status # "joining" /\ closing' = [l EXCEPT !.status = "aborted"]
    <3>1. PICK m : m = [l EXCEPT !.status = "aborted"]
      OBVIOUS
    <3>2. m \in ClosingRecord /\ m.status = "aborted" /\ m.handles = l.handles /\ m.pc = l.pc /\ closing' = m
      BY <1>2, <2>3, <3>1 DEF ClosingRecord
    <3>3. ConnClosingOk(c, w, m)
      BY <1>2, <1>4, <1>7, <2>3, <3>2 DEF ConnClosingOk
    <3> QED
      BY <1>1, <1>3, <3>2, <3>3, ConnCloses
  <2> QED
    BY <2>1, <2>2, <2>3
<1> QED
  BY <1>13, <1>14, <1>15

(* Every step keeps the invariant.                                           *)
LEMMA ConnStep ==
  ASSUME ConnInv, [ConnNext]_connVars
  PROVE  ConnInv'
<1>1. CASE UNCHANGED connVars
  <2>1. PICK c, w, a, l : c = conn /\ w = wires /\ a = asked /\ l = closing
    OBVIOUS
  <2>2. ConnHolds(c, w, a, l) /\ conn' = c /\ wires' = w /\ asked' = a /\ closing' = l
    BY <1>1, <2>1, ConnNow DEF connVars
  <2> QED
    BY <2>2, ConnThen
<1>2. CASE route_message
  BY <1>2, ConnEpochs DEF route_message
<1>3. CASE reader_loop
  BY <1>3, ConnReads DEF reader_loop
<1>4. CASE ConnNext
  <2>1. ASSUME NEW i \in ReqId,
               \/ DeadlinePasses(i) \/ wait_written(i) \/ poll_written(i) \/ try_response(i) \/ try_attachment_response(i)
               \/ expire_request(i) \/ activity_epoch(i) \/ cancel_attachment_before_write(i)
               \/ close_unconfirmed_attachment(i) \/ DropRequest(i)
        PROVE  ConnInv'
    BY <2>1, ConnDeadlines, ConnWaits, ConnPolls, ConnDrops, ConnGivesUp
  <2>2. ASSUME NEW h \in Closers, shutdown(h) \/ JoinOrWait(h) \/ join_workers(h) \/ AfterError(h)
        PROVE  ConnInv'
    BY <2>2, ConnShutdown, ConnJoins
  <2>3. CASE \E i \in 0..(MaxRequests + 1), good \in BOOLEAN : route_response(i, good)
    BY <2>3, ConnRoutes
  <2>4. CASE \E k \in ReqKind : enqueue_request_until(k)
    BY <2>4, ConnEnqueues
  <2>5. CASE ReaderStarts \/ ReaderFailsToStart \/ cleanup_failed_startup \/ EncodingFails
    BY <2>5, ConnStarts, ConnGivesUp
  <2>6. CASE writer_loop \/ Written \/ Tell \/ RawWriteLate \/ poll_raw_io
    BY <2>6, ConnWriterLoop, ConnWrittenStep, ConnTells, ConnLate, ConnGivesUp
  <2> QED
    BY <1>2, <1>3, <1>4, <2>1, <2>2, <2>3, <2>4, <2>5, <2>6 DEF ConnNext
<1> QED
  BY <1>1, <1>4

(* A new connection holds it.                                                *)
LEMMA ConnBegins ==
  ASSUME ConnInit
  PROVE  ConnInv
<1>1. PICK c, w, a, l : c = conn /\ w = wires /\ a = asked /\ l = closing
  OBVIOUS
<1>2. c \in ConnRecord /\ c.terminal = "none" /\ c.pending = {} /\ c.told = {} /\ c.queue = <<>> /\ c.issued = 0
  <2>1. <<>> \in Seq(0 .. MaxRequests)
    BY ConnQueueEmpty
  <2>2. c = [terminal |-> "none", by |-> 0, pending |-> {}, issued |-> 0, told |-> {}, queue |-> <<>>]
    BY <1>1 DEF ConnInit
  <2> QED
    BY <2>1, <2>2, ConnNumbers DEF ConnRecord, Reason
<1>3. w \in WireRecord /\ w.run = {"writer"} /\ w.at = 0 /\ ~w.deadline /\ ~w.late
  BY <1>1, ConnNumbers DEF ConnInit, WireRecord, Thread
<1>4. NoRequest \in Asked
  BY DEF NoRequest, Asked, Outcome
<1>5. a \in [ReqId -> Asked] /\ \A k \in ReqId : a[k] = NoRequest
  BY <1>1, <1>4 DEF ConnInit
<1>6. l \in ClosingRecord /\ l.status = "starting" /\ l.handles = {"writer"} /\ \A h \in Closers : l.pc[h] = "idle"
  BY <1>1 DEF ConnInit, ClosingRecord, Thread
<1>7. ConnQueued(c.queue) = {}
  BY <1>2, ConnQueueEmpty
<1>8. ConnSharedOk(c)
  BY <1>2, <1>7 DEF ConnSharedOk, ConnEnded
<1>9. \A k \in ReqId : ConnRequestOk(c, a[k], k)
  BY <1>2, <1>5 DEF ConnRequestOk, ConnActive, NoRequest
<1>10. ConnWiresOk(c, w, a)
  <2>1. PICK H : H = ConnHeld(c, w, a)
    OBVIOUS
  <2>2. H = {}
    BY <1>3, <1>7, <2>1, ConnNumbers DEF ConnHeld
  <2>3. Cardinality(H) = 0
    BY <2>2, FS_EmptySet
  <2> QED
    BY <1>2, <1>3, <2>1, <2>3, ConnNumbers DEF ConnWiresOk
<1>11. ConnClosingOk(c, w, l)
  BY <1>2, <1>3, <1>6 DEF ConnClosingOk, ConnEnded
<1> QED
  BY <1>1, <1>2, <1>3, <1>5, <1>6, <1>8, <1>9, <1>10, <1>11 DEF ConnInv, ConnHolds

(* It contains what the run checks.                                          *)
LEMMA ConnImplies ==
  ASSUME ConnInv
  PROVE  ConnectionSound
<1>1. ConnTypeOK
  BY ConnNow DEF ConnTypeOK, ConnRecord, WireRecord, ClosingRecord
<1>2. NobodyForgotten
  BY ConnNow DEF NobodyForgotten, ConnRequestOk, ConnSharedOk, ConnActive
<1>3. DeadHasReason
  BY ConnNow DEF DeadHasReason, ConnRequestOk, ConnClosingOk
<1>4. RawIsContained
  <2>1. wires.at \in 0 .. MaxRequests /\ ConnWiresOk(conn, wires, asked)
    BY ConnNow DEF WireRecord
  <2>2. ASSUME NEW k \in ReqId, asked[k].outcome = "cancelled"
        PROVE  ~asked[k].wrote /\ wires.at # k
    <3>1. ~asked[k].wrote /\ asked[k].permit = 2 /\ QueuesBounded(asked[k].kind)
      BY <2>2, ConnNow DEF ConnRequestOk
    <3> QED
      BY <2>1, <3>1, ConnNumbers DEF ConnWiresOk
  <2>3. \A k \in ReqId : conn.terminal = "timeout" /\ conn.by = k /\ QueuesBounded(asked[k].kind) => asked[k].permit = 1
    BY ConnNow DEF ConnRequestOk
  <2>4. raw_writes <= MAX_RAW_QUEUED_WRITES
    <3>1. QueuedIds = ConnQueued(conn.queue) \cap ReqId
      BY DEF QueuedIds, ConnQueued
    <3>2. {wires.at} \ {0} = {wires.at} \cap ReqId
      BY <2>1, ConnNumbers
    <3>3. {j \in QueuedIds \cup ({wires.at} \ {0}) : QueuesBounded(asked[j].kind)} = ConnHeld(conn, wires, asked)
      BY <3>1, <3>2 DEF ConnHeld
    <3> QED
      BY <2>1, <3>3 DEF raw_writes, ConnWiresOk
  <2>5. wires.deadline => wires.at # 0 /\ QueuesBounded(asked[wires.at].kind) /\ asked[wires.at].permit = 1
    BY <2>1 DEF ConnWiresOk
  <2> QED
    BY <2>2, <2>3, <2>4, <2>5 DEF RawIsContained
<1>5. NoMissedAnswer
  BY ConnNow DEF NoMissedAnswer, wait_for_activity, ConnRequestOk
<1>6. NoDetachedWorker
  BY ConnNow DEF NoDetachedWorker, ConnClosingOk
<1> QED
  BY <1>1, <1>2, <1>3, <1>4, <1>5, <1>6 DEF ConnectionSound

(* For any number of requests, of callers of shutdown and any bound on raw   *)
(* writes: a waiting owner is registered, answered or told, a dead           *)
(* connection has its reason, a raw request that was cancelled was never     *)
(* begun and its deadline ends only what it holds, a drive never sleeps on   *)
(* its answer, and no worker is lost (cdp/client.rs, client/raw_access.rs).  *)
THEOREM ConnectionIsSound == ConnSpec => []ConnectionSound
<1>1. ConnInit => ConnInv
  BY ConnBegins
<1>2. ConnInv /\ [ConnNext]_connVars => ConnInv'
  BY ConnStep
<1>3. ConnInv => ConnectionSound
  BY ConnImplies
<1> QED
  BY <1>1, <1>2, <1>3, PTL DEF ConnSpec
=============================================================================
