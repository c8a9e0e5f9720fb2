---------------------------- MODULE SourceRemoval ----------------------------
(***************************************************************************)
(* Deletion of a plugin's source directory after the plugin is removed     *)
(* (source_removal.rs, host_control/revocation.rs, plugin_cli.rs).  The    *)
(* request names no path: the directory is identified at the preview,      *)
(* compared before the plugin is unregistered, and again, pinned, before   *)
(* it is deleted by a worker.  Directories are replaced and plugins        *)
(* registered by others at any moment in between.                          *)
(***************************************************************************)
EXTENDS Integers, FiniteSetTheorems, TLAPS

CONSTANTS Plugins,     \* plugin ids
          Paths,       \* places of the file system
          Within,      \* Within[p]: the places inside p, p itself included
          Guarded,     \* places of the system, the registry or the program
          MaxMoves,    \* bound: exchanges of a directory
          MaxEdits     \* bound: registrations by others

VARIABLES registered,  \* the path of each registered plugin
          directory,   \* identity of the directory at each place, 0 if there is none
          confirm,     \* the user's request for a plugin: what the preview said
          plan,        \* SourceRemovalPlan of the operation under way
          pin,         \* the directory that apply holds open against changes
          deleted,     \* history: what has been deleted, for whom, and under which registrations
          moves        \* exchanges and registrations so far

remVars == <<registered, directory, confirm, plan, pin, deleted, moves>>

Unregistered == "-"

ASSUME RemovalAssumption ==
  /\ IsFiniteSet(Paths) /\ Unregistered \notin Paths
  /\ Within \in [Paths -> SUBSET Paths] /\ \A p \in Paths : p \in Within[p]
  /\ MaxMoves \in Nat

NoRemoval == [at |-> "none"]
NoPin == [path |-> Unregistered, identity |-> 0]
Identities == 1..(Cardinality(Paths) + MaxMoves)

RemTypeOK ==
  /\ registered \in [Plugins -> Paths \cup {Unregistered}]
  /\ directory \in [Paths -> Identities \cup {0}]
  /\ confirm \in [Plugins -> {{}} \cup {{[path |-> p, identity |-> i]} : p \in Paths, i \in Identities \cup {0}}]
  /\ plan.at \in {"none", "prepared", "stopping", "recheck", "pin", "delete"}
  /\ pin = NoPin \/ (pin.path \in Paths /\ pin.identity \in Identities /\ plan.at = "delete")

\* A mutant: only the place itself is looked at.
ProtectedExactly(plugin, path) ==
  path \in Guarded \/ \E other \in Plugins \ {plugin} : registered[other] = path

\* protected_path for a plugin: not a guarded place, none inside or around it, and
\* no registration of another plugin in it or around it.
protected_path(plugin, path) ==
  \/ \E g \in Guarded : g \in Within[path]
  \/ \E other \in Plugins \ {plugin} :
       registered[other] # Unregistered /\ (registered[other] \in Within[path] \/ path \in Within[registered[other]])

\* directory_identity of a place that may be deleted.
Inspected(plugin, path) == IF protected_path(plugin, path) THEN 0 ELSE directory[path]

(* --- Others --------------------------------------------------------------- *)

\* A directory goes with all that is in it; another may take its place.
DirectoryExchanged ==
  /\ moves.directories < MaxMoves
  /\ \E p \in Paths, new \in {0, Cardinality(Paths) + moves.directories + 1} :
       /\ pin.path \notin Within[p]
       /\ \A q \in Paths \ {p} : p \in Within[q] => directory[q] # 0
       /\ directory' = [q \in Paths |-> IF q = p THEN new ELSE IF q \in Within[p] THEN 0 ELSE directory[q]]
  /\ moves' = [moves EXCEPT !.directories = @ + 1]
  /\ UNCHANGED <<registered, confirm, plan, pin, deleted>>

\* Registered, at the same place or another; also unregistered, by others.
RegisteredByOthers ==
  /\ moves.registrations < MaxEdits
  /\ \E q \in Plugins, p \in {Unregistered} \cup {place \in Paths : directory[place] # 0} :
       /\ registered[q] # p
       /\ registered' = [registered EXCEPT ![q] = p]
  /\ moves' = [moves EXCEPT !.registrations = @ + 1]
  /\ UNCHANGED <<directory, confirm, plan, pin, deleted>>

(* --- Preview, preparation ------------------------------------------------- *)

preview_removal ==
  \E q \in Plugins :
    /\ registered[q] # Unregistered /\ plan.at = "none"
    /\ confirm' = [confirm EXCEPT ![q] = {[path |-> registered[q], identity |-> Inspected(q, registered[q])]}]
    /\ confirm' # confirm
    /\ UNCHANGED <<registered, directory, plan, pin, deleted, moves>>

\* prepare: the registration (here, its path) is the confirmed one; otherwise the operation is refused.
\* Another identity only skips the deletion.
prepare ==
  \E q \in Plugins : \E c \in confirm[q] :
    /\ plan.at = "none"
    /\ registered[q] = c.path
    /\ plan' = [at |-> "prepared", plugin |-> q, path |-> c.path, identity |-> c.identity,
                others |-> {}, skip |-> c.identity = 0 \/ Inspected(q, c.path) # c.identity]
    /\ confirm' = [confirm EXCEPT ![q] = {}]
    /\ UNCHANGED <<registered, directory, pin, deleted, moves>>

\* The removal is saved if the registration is still the one it was prepared for.
Unregisters ==
  /\ plan.at = "prepared"
  /\ IF registered[plan.plugin] = plan.path
     THEN registered' = [registered EXCEPT ![plan.plugin] = Unregistered] /\ plan' = [plan EXCEPT !.at = "stopping"]
     ELSE plan' = NoRemoval /\ UNCHANGED registered
  /\ UNCHANGED <<directory, confirm, pin, deleted, moves>>

\* The plugin stopped, or its stop cannot be confirmed: then nothing is deleted.
Retired ==
  /\ plan.at = "stopping"
  /\ \/ plan' = IF plan.skip THEN NoRemoval ELSE [plan EXCEPT !.at = "recheck"]
     \/ plan' = NoRemoval
  /\ UNCHANGED <<registered, directory, confirm, pin, deleted, moves>>

(* --- apply, on a worker ----------------------------------------------------- *)

\* The registry is read again: still unregistered, and nobody else uses the place.
Rechecked == registered[plan.plugin] = Unregistered /\ ~protected_path(plan.plugin, plan.path)

Rechecks ==
  /\ plan.at = "recheck"
  /\ plan' = IF Rechecked THEN [plan EXCEPT !.at = "pin", !.others = {registered[q] : q \in Plugins \ {plan.plugin}}]
             ELSE NoRemoval
  /\ UNCHANGED <<registered, directory, confirm, pin, deleted, moves>>

\* A mutant: whatever is at the place by now is deleted.
PinsAnything == TRUE

SameIdentity == directory[plan.path] = plan.identity

pin_directory ==
  /\ plan.at = "pin"
  /\ IF directory[plan.path] # 0 /\ SameIdentity
     THEN pin' = [path |-> plan.path, identity |-> directory[plan.path]] /\ plan' = [plan EXCEPT !.at = "delete"]
     ELSE plan' = NoRemoval /\ UNCHANGED pin
  /\ UNCHANGED <<registered, directory, confirm, deleted, moves>>

\* The directory with all that is in it, or a part of it before an error.
Deletes ==
  /\ plan.at = "delete"
  /\ \E gone \in {Within[plan.path]} \cup SUBSET (Within[plan.path] \ {plan.path}) :
       directory' = [p \in Paths |-> IF p \in gone THEN 0 ELSE directory[p]]
  /\ deleted' = deleted \cup {[plugin |-> plan.plugin, path |-> plan.path, identity |-> pin.identity,
                          confirmed |-> plan.identity, others |-> plan.others]}
  /\ plan' = NoRemoval /\ pin' = NoPin
  /\ UNCHANGED <<registered, confirm, moves>>

RemInit ==
  /\ directory = CHOOSE f \in [Paths -> 1..Cardinality(Paths)] : \A p, q \in Paths : f[p] = f[q] => p = q
  /\ registered \in [Plugins -> Paths \cup {Unregistered}]
  /\ confirm = [q \in Plugins |-> {}] /\ plan = NoRemoval /\ pin = NoPin /\ deleted = {}
  /\ moves = [directories |-> 0, registrations |-> 0]

RemNext ==
  \/ DirectoryExchanged \/ RegisteredByOthers
  \/ preview_removal \/ prepare \/ Unregisters \/ Retired \/ Rechecks \/ pin_directory \/ Deletes

RemSpec == RemInit /\ [][RemNext]_remVars

(* --- Properties ------------------------------------------------------------ *)

\* What is deleted is the directory that the user saw at the preview, and not one that
\* took its place since.
OnlyTheConfirmed == \A d \in deleted : d.identity = d.confirmed

\* No place of the system is deleted, and no source that another plugin had in it, or
\* around it, when the registry was read again.
OthersKept ==
  \A d \in deleted :
    /\ Within[d.path] \cap (Guarded \cup d.others) = {}
    /\ \A other \in d.others \ {Unregistered} : d.path \notin Within[other]

\* While a directory is pinned, it stays at its place.
PinHolds == pin # NoPin => directory[pin.path] = pin.identity

\* source_removal.rs: pinned at preview, checked again before unregistering and before deletion.
RemovalSound == RemTypeOK /\ OnlyTheConfirmed /\ OthersKept /\ PinHolds

(* --- The invariant behind RemovalSound -------------------------------------- *)

\* What the operation under way carries.
PlanRecord ==
  [at : {"prepared", "stopping", "recheck", "pin", "delete"}, plugin : Plugins, path : Paths,
   identity : Identities \cup {0}, others : SUBSET (Paths \cup {Unregistered}), skip : BOOLEAN]

\* A place with nothing in it that the system keeps, and in no other's way.
Spared(path, others) ==
  /\ Within[path] \cap (Guarded \cup others) = {}
  /\ \A other \in others \ {Unregistered} : path \notin Within[other]

\* Once the registry was read again the place is spared, and what is pinned is the
\* directory of the plan.
PlanHolds ==
  /\ plan.at \in {"pin", "delete"} => Spared(plan.path, plan.others)
  /\ plan.at = "delete" => pin.path = plan.path /\ pin.identity = plan.identity

RInv ==
  /\ RemovalSound /\ PlanHolds
  /\ plan \in {NoRemoval} \cup PlanRecord
  /\ moves \in [directories : 0..MaxMoves, registrations : Nat]

LEMMA SizeOfPaths == Cardinality(Paths) \in Nat
  BY RemovalAssumption, FS_CardinalityType

\* The directories have identities of their own, of which there are enough.
LEMMA DistinctDirectories ==
  LET f == CHOOSE f \in [Paths -> 1..Cardinality(Paths)] : \A p, q \in Paths : f[p] = f[q] => p = q
  IN  f \in [Paths -> 1..Cardinality(Paths)]
<1>1. PICK n \in Nat : ExistsBijection(1..n, Paths)
  BY RemovalAssumption, FS_NatBijection
<1>2. n = Cardinality(Paths)
  BY <1>1, FS_CountingElements
<1>3. PICK g \in Bijection(1..n, Paths) : TRUE
  BY <1>1 DEF ExistsBijection
<1>4. \A p \in Paths : \E i \in 1..n : g[i] = p
  BY <1>3 DEF Bijection, Surjection
<1>5. \E f \in [Paths -> 1..n] : \A p, q \in Paths : f[p] = f[q] => p = q
  <2> DEFINE f == [p \in Paths |-> CHOOSE i \in 1..n : g[i] = p]
  <2>1. \A p \in Paths : f[p] \in 1..n /\ g[f[p]] = p
    BY <1>4
  <2>2. f \in [Paths -> 1..n]
    BY <2>1
  <2>3. \A p, q \in Paths : f[p] = f[q] => p = q
    BY <2>1
  <2> HIDE DEF f
  <2> WITNESS f \in [Paths -> 1..n]
  <2> QED
    BY <2>3
<1> QED
  BY <1>2, <1>5

LEMMA RemovalInit == RemInit => RInv
<1> SUFFICES ASSUME RemInit PROVE RInv
  OBVIOUS
<1>1. directory \in [Paths -> Identities \cup {0}]
  BY DistinctDirectories, SizeOfPaths, RemovalAssumption DEF RemInit, Identities
<1>2. RemTypeOK
  BY <1>1 DEF RemInit, RemTypeOK, NoRemoval
<1> QED
  BY <1>2, RemovalAssumption DEF RemInit, RInv, RemovalSound, OnlyTheConfirmed, OthersKept, PinHolds, PlanHolds,
                                 NoRemoval

\* What a step promises that has nothing pinned, before or after it.
LEMMA StepBeforeThePin ==
  ASSUME RInv, RemTypeOK', pin' = pin, deleted' = deleted, PlanHolds', PinHolds',
         plan' \in {NoRemoval} \cup PlanRecord, moves' \in [directories : 0..MaxMoves, registrations : Nat]
  PROVE  RInv'
<1>1. OnlyTheConfirmed' /\ OthersKept'
  BY DEF RInv, RemovalSound, OnlyTheConfirmed, OthersKept
<1> QED
  BY <1>1 DEF RInv, RemovalSound

\* The pinned directory stays: what is exchanged is neither it nor a place around it.
LEMMA ExchangeKeeps == ASSUME RInv, DirectoryExchanged PROVE RInv'
<1>1. PICK p \in Paths, new \in {0, Cardinality(Paths) + moves.directories + 1} :
        /\ pin.path \notin Within[p]
        /\ directory' = [q \in Paths |-> IF q = p THEN new ELSE IF q \in Within[p] THEN 0 ELSE directory[q]]
  BY DEF DirectoryExchanged
<1>2. /\ moves.directories < MaxMoves /\ moves' = [moves EXCEPT !.directories = moves.directories + 1]
      /\ UNCHANGED <<registered, confirm, plan, pin, deleted>>
  BY DEF DirectoryExchanged
<1>3. moves \in [directories : 0..MaxMoves, registrations : Nat]
  BY DEF RInv
<1>4. moves' \in [directories : 0..MaxMoves, registrations : Nat]
  BY <1>2, <1>3, RemovalAssumption
<1>5. new \in Identities \cup {0}
  BY <1>2, <1>3, SizeOfPaths, RemovalAssumption DEF Identities
<1>6. RemTypeOK'
  BY <1>1, <1>2, <1>5 DEF RInv, RemovalSound, RemTypeOK
<1>7. PinHolds'
  <2> SUFFICES ASSUME pin # NoPin PROVE directory'[pin.path] = pin.identity
    BY <1>2 DEF PinHolds
  <2>1. pin.path \in Paths /\ directory[pin.path] = pin.identity
    BY DEF RInv, RemovalSound, RemTypeOK, PinHolds
  <2>2. pin.path # p
    BY <1>1, RemovalAssumption
  <2> QED
    BY <1>1, <2>1, <2>2
<1> QED
  BY <1>2, <1>4, <1>6, <1>7, StepBeforeThePin DEF RInv, PlanHolds

LEMMA RegistrationKeeps == ASSUME RInv, RegisteredByOthers PROVE RInv'
<1>1. PICK q \in Plugins, p \in {Unregistered} \cup Paths : registered' = [registered EXCEPT ![q] = p]
  BY DEF RegisteredByOthers
<1>2. /\ moves' = [moves EXCEPT !.registrations = moves.registrations + 1]
      /\ UNCHANGED <<directory, confirm, plan, pin, deleted>>
  BY DEF RegisteredByOthers
<1>3. moves' \in [directories : 0..MaxMoves, registrations : Nat]
  BY <1>2 DEF RInv
<1>4. RemTypeOK'
  BY <1>1, <1>2 DEF RInv, RemovalSound, RemTypeOK
<1> QED
  BY <1>2, <1>3, <1>4, StepBeforeThePin DEF RInv, RemovalSound, PlanHolds, PinHolds

LEMMA InspectedType == ASSUME RInv, NEW q, NEW p \in Paths PROVE Inspected(q, p) \in Identities \cup {0}
  BY DEF Inspected, RInv, RemovalSound, RemTypeOK

LEMMA PreviewKeeps == ASSUME RInv, preview_removal PROVE RInv'
<1>1. PICK q \in Plugins :
        /\ registered[q] # Unregistered /\ plan.at = "none"
        /\ confirm' = [confirm EXCEPT ![q] = {[path |-> registered[q], identity |-> Inspected(q, registered[q])]}]
        /\ UNCHANGED <<registered, directory, plan, pin, deleted, moves>>
  BY DEF preview_removal
<1>2. registered[q] \in Paths
  BY <1>1 DEF RInv, RemovalSound, RemTypeOK
<1>3. Inspected(q, registered[q]) \in Identities \cup {0}
  BY <1>2, InspectedType
<1>4. RemTypeOK'
  BY SMTT(30), <1>1, <1>2, <1>3 DEF RInv, RemovalSound, RemTypeOK
<1> QED
  BY <1>1, <1>4, StepBeforeThePin DEF RInv, RemovalSound, PlanHolds, PinHolds

LEMMA PrepareKeeps == ASSUME RInv, prepare PROVE RInv'
<1>0. PICK q \in Plugins : \E c \in confirm[q] :
        /\ plan.at = "none"
        /\ plan' = [at |-> "prepared", plugin |-> q, path |-> c.path, identity |-> c.identity,
                    others |-> {}, skip |-> c.identity = 0 \/ Inspected(q, c.path) # c.identity]
        /\ confirm' = [confirm EXCEPT ![q] = {}]
        /\ UNCHANGED <<registered, directory, pin, deleted, moves>>
  BY DEF prepare
<1>1. PICK c \in confirm[q] :
        /\ plan.at = "none"
        /\ plan' = [at |-> "prepared", plugin |-> q, path |-> c.path, identity |-> c.identity,
                    others |-> {}, skip |-> c.identity = 0 \/ Inspected(q, c.path) # c.identity]
        /\ confirm' = [confirm EXCEPT ![q] = {}]
        /\ UNCHANGED <<registered, directory, pin, deleted, moves>>
  BY <1>0
<1>2. c.path \in Paths /\ c.identity \in Identities \cup {0}
  BY DEF RInv, RemovalSound, RemTypeOK
<1>3. plan' \in PlanRecord /\ plan'.at = "prepared"
  BY <1>1, <1>2 DEF PlanRecord
<1>4. pin = NoPin
  BY <1>1 DEF RInv, RemovalSound, RemTypeOK
<1>5. RemTypeOK'
  BY <1>1, <1>3, <1>4 DEF RInv, RemovalSound, RemTypeOK
<1> QED
  BY <1>1, <1>3, <1>4, <1>5, StepBeforeThePin DEF RInv, RemovalSound, PlanHolds, PinHolds

-----------------------------------------------------------------------------
\* The steps of the operation.
LEMMA PlanFacts ==
  ASSUME RInv, plan.at # "none"
  PROVE  /\ plan \in PlanRecord /\ (plan.at # "delete" => pin = NoPin)
         /\ registered \in [Plugins -> Paths \cup {Unregistered}]
  BY DEF RInv, RemovalSound, RemTypeOK, NoRemoval

LEMMA UnregistersKeeps == ASSUME RInv, Unregisters PROVE RInv'
<1>1. plan.at = "prepared" /\ UNCHANGED <<directory, confirm, pin, deleted, moves>>
  BY DEF Unregisters
<1>2. plan \in PlanRecord /\ pin = NoPin /\ registered \in [Plugins -> Paths \cup {Unregistered}]
  BY <1>1, PlanFacts
<1>3. \/ plan' = [plan EXCEPT !.at = "stopping"] /\ registered' = [registered EXCEPT ![plan.plugin] = Unregistered]
      \/ plan' = NoRemoval /\ registered' = registered
  BY DEF Unregisters
<1>4. plan' \in {NoRemoval} \cup PlanRecord /\ plan'.at \in {"none", "stopping"}
  BY <1>2, <1>3 DEF PlanRecord, NoRemoval
<1>5. RemTypeOK'
  BY <1>1, <1>2, <1>3, <1>4 DEF RInv, RemovalSound, RemTypeOK
<1> QED
  BY <1>1, <1>2, <1>4, <1>5, StepBeforeThePin DEF RInv, PlanHolds, PinHolds

LEMMA RetiredKeeps == ASSUME RInv, Retired PROVE RInv'
<1>1. plan.at = "stopping" /\ UNCHANGED <<registered, directory, confirm, pin, deleted, moves>>
  BY DEF Retired
<1>2. plan \in PlanRecord /\ pin = NoPin
  BY <1>1, PlanFacts
<1>3. plan' = [plan EXCEPT !.at = "recheck"] \/ plan' = NoRemoval
  BY DEF Retired
<1>4. plan' \in {NoRemoval} \cup PlanRecord /\ plan'.at \in {"none", "recheck"}
  BY <1>2, <1>3 DEF PlanRecord, NoRemoval
<1>5. RemTypeOK'
  BY <1>1, <1>2, <1>4 DEF RInv, RemovalSound, RemTypeOK
<1> QED
  BY <1>1, <1>2, <1>4, <1>5, StepBeforeThePin DEF RInv, PlanHolds, PinHolds

\* A place that may be deleted is spared by the guards and by the registrations of now.
LEMMA NotProtected ==
  ASSUME RInv, NEW plugin \in Plugins, NEW path \in Paths, ~protected_path(plugin, path)
  PROVE  Spared(path, {registered[q] : q \in Plugins \ {plugin}})
<1> DEFINE others == {registered[q] : q \in Plugins \ {plugin}}
<1>1. Within[path] \subseteq Paths
  BY RemovalAssumption
<1>2. \A other \in others : other # Unregistered => other \notin Within[path] /\ path \notin Within[other]
  BY DEF protected_path
<1>3. Within[path] \cap Guarded = {}
  BY DEF protected_path
<1>4. Within[path] \cap others = {}
  BY <1>1, <1>2, RemovalAssumption
<1> QED
  BY <1>2, <1>3, <1>4 DEF Spared

LEMMA RechecksKeeps == ASSUME RInv, Rechecks PROVE RInv'
<1> DEFINE others == {registered[q] : q \in Plugins \ {plan.plugin}}
<1>1. plan.at = "recheck" /\ UNCHANGED <<registered, directory, confirm, pin, deleted, moves>>
  BY DEF Rechecks
<1>2. plan \in PlanRecord /\ pin = NoPin /\ registered \in [Plugins -> Paths \cup {Unregistered}]
  BY <1>1, PlanFacts
<1>3. CASE plan' = NoRemoval
  <2>1. RemTypeOK'
    BY <1>1, <1>2, <1>3 DEF RInv, RemovalSound, RemTypeOK, NoRemoval
  <2> QED
    BY <1>1, <1>2, <1>3, <2>1, StepBeforeThePin DEF RInv, PlanHolds, PinHolds, NoRemoval
<1>4. CASE Rechecked /\ plan' = [plan EXCEPT !.at = "pin", !.others = others]
  <2>1. others \in SUBSET (Paths \cup {Unregistered})
    BY <1>2
  <2>2. Spared(plan.path, others)
    BY <1>2, <1>4, NotProtected DEF Rechecked, PlanRecord
  <2> HIDE DEF others
  <2>3. plan' \in PlanRecord /\ plan'.at = "pin" /\ plan'.path = plan.path /\ plan'.others = others
    BY <1>2, <1>4, <2>1 DEF PlanRecord
  <2>4. RemTypeOK'
    BY <1>1, <1>2, <2>3 DEF RInv, RemovalSound, RemTypeOK
  <2>5. PlanHolds'
    BY <2>2, <2>3 DEF PlanHolds, Spared
  <2> QED
    BY <1>1, <1>2, <2>3, <2>4, <2>5, StepBeforeThePin DEF RInv, PinHolds
<1> QED
  BY <1>3, <1>4 DEF Rechecks

LEMMA PinKeeps == ASSUME RInv, pin_directory PROVE RInv'
<1>1. plan.at = "pin" /\ UNCHANGED <<registered, directory, confirm, deleted, moves>>
  BY DEF pin_directory
<1>2. plan \in PlanRecord /\ pin = NoPin /\ plan.path \in Paths
  BY <1>1, PlanFacts DEF PlanRecord
<1>3. CASE plan' = NoRemoval /\ pin' = pin
  <2>1. RemTypeOK'
    BY <1>1, <1>2, <1>3 DEF RInv, RemovalSound, RemTypeOK, NoRemoval
  <2> QED
    BY <1>1, <1>2, <1>3, <2>1, StepBeforeThePin DEF RInv, PlanHolds, PinHolds, NoRemoval
<1>4. CASE /\ directory[plan.path] # 0 /\ SameIdentity
           /\ pin' = [path |-> plan.path, identity |-> directory[plan.path]]
           /\ plan' = [plan EXCEPT !.at = "delete"]
  <2>1. /\ plan' \in PlanRecord /\ plan'.at = "delete" /\ plan'.path = plan.path /\ plan'.others = plan.others
        /\ plan'.identity = plan.identity
    BY <1>2, <1>4 DEF PlanRecord
  <2>2. /\ pin'.path = plan.path /\ pin'.identity = directory[plan.path]
        /\ pin'.identity = plan.identity
    BY <1>4 DEF SameIdentity
  <2>3. directory[plan.path] \in Identities
    BY <1>2, <1>4 DEF RInv, RemovalSound, RemTypeOK
  <2>4. RemTypeOK'
    BY <1>1, <1>2, <2>1, <2>2, <2>3 DEF RInv, RemovalSound, RemTypeOK
  <2>5. PlanHolds'
    BY <1>1, <2>1, <2>2 DEF RInv, PlanHolds, Spared
  <2>6. PinHolds'
    BY <1>1, <2>2 DEF PinHolds
  <2>7. OnlyTheConfirmed' /\ OthersKept'
    BY <1>1 DEF RInv, RemovalSound, OnlyTheConfirmed, OthersKept
  <2> QED
    BY <1>1, <2>1, <2>4, <2>5, <2>6, <2>7 DEF RInv, RemovalSound
<1> QED
  BY <1>3, <1>4 DEF pin_directory

LEMMA DeletesKeeps == ASSUME RInv, Deletes PROVE RInv'
<1> DEFINE d == [plugin |-> plan.plugin, path |-> plan.path, identity |-> pin.identity,
                 confirmed |-> plan.identity, others |-> plan.others]
<1>1. /\ plan.at = "delete" /\ deleted' = deleted \cup {d} /\ plan' = NoRemoval /\ pin' = NoPin
      /\ UNCHANGED <<registered, confirm, moves>>
  BY DEF Deletes
<1>2. PICK gone : directory' = [p \in Paths |-> IF p \in gone THEN 0 ELSE directory[p]]
  BY DEF Deletes
<1>3. RemTypeOK'
  BY <1>1, <1>2 DEF RInv, RemovalSound, RemTypeOK, NoRemoval
<1>4. d.identity = d.confirmed /\ Spared(d.path, d.others)
  BY <1>1 DEF RInv, PlanHolds
<1> HIDE DEF d
<1>5. OnlyTheConfirmed'
  BY <1>1, <1>4 DEF RInv, RemovalSound, OnlyTheConfirmed
<1>6. OthersKept'
  BY <1>1, <1>4 DEF RInv, RemovalSound, OthersKept, Spared
<1>7. PlanHolds' /\ PinHolds' /\ plan' \in {NoRemoval}
  BY <1>1 DEF PlanHolds, PinHolds, NoRemoval
<1> QED
  BY <1>1, <1>3, <1>5, <1>6, <1>7 DEF RInv, RemovalSound

\* Whatever others do to the directories and the registry between the preview and the
\* deletion: only the directory that was confirmed is deleted, and no place of the
\* system or of another plugin (source_removal.rs, preview, prepare, apply).
THEOREM RemovalIsSound == RemSpec => []RemovalSound
<1>1. RInv /\ UNCHANGED remVars => RInv'
  BY DEF remVars, RInv, RemovalSound, RemTypeOK, OnlyTheConfirmed, OthersKept, PinHolds, PlanHolds
<1>2. RInv /\ [RemNext]_remVars => RInv'
  BY <1>1, ExchangeKeeps, RegistrationKeeps, PreviewKeeps, PrepareKeeps, UnregistersKeeps, RetiredKeeps,
     RechecksKeeps, PinKeeps, DeletesKeeps DEF RemNext
<1>3. RInv => RemovalSound
  BY DEF RInv
<1> QED
  BY <1>2, <1>3, RemovalInit, PTL DEF RemSpec
=============================================================================
