---------------------------- MODULE PackageControl ----------------------------
(* The foreground transaction over packages (src/host_control.rs and           *)
(* host_control/, renderer/combined.rs): one receipt at a time enables,        *)
(* reloads, imports, disables, removes or revokes a package together with the  *)
(* packages that depend on it, replaces Host and renderer entries, and puts    *)
(* the previous ones back when the replacement fails.  Other processes edit    *)
(* the registry at any step.  HostLifecycle has the inside of the Hosts,       *)
(* RendererRuntime of the renderers, ManagedInstall of managed packages.       *)
EXTENDS Integers, FiniteSets

CONSTANTS
    Packages,       \* package identities
    DependsOn,      \* DependsOn[p]: the packages whose capabilities p requires
    HasHost,        \* packages with a Host entry
    HasPage,        \* packages with a renderer entry
    Native,         \* packages that provide the client source
    MaxGen,         \* bound: generations of a package
    MaxSource,      \* bound: directories a package may be registered at
    MaxReceipts,    \* bound: transactions
    MaxRegEdits     \* bound: edits of the registry by other processes

ASSUME PackageConstants ==
    /\ MaxGen \in Nat \ {0} /\ MaxSource \in Nat \ {0} /\ MaxReceipts \in Nat /\ MaxRegEdits \in Nat
    /\ HasHost \subseteq Packages /\ HasPage \subseteq Packages /\ Native \subseteq HasHost

VARIABLES
    files,      \* the registry: directory (0 for none), grants, enabled
    hosts,      \* each Host: generation, state, authority, the answer to a command
    pages,      \* generation of each renderer entry that is active, 0 for none
    running,    \* the logical packages: generation, source, grants, generations of its providers
    gens,       \* the highest generation of each package
    txn,        \* the pending transaction or revocation
    report,     \* the last report
    world       \* edits left to other processes, receipts so far, the generation whose client source is active

pkgVars == <<files, hosts, pages, running, gens, txn, report, world>>

NoHost == [gen |-> 0, st |-> "none", auth |-> FALSE, res |-> "none"]
NoRun == [gen |-> 0, src |-> 0, grants |-> FALSE, bound |-> [q \in {} |-> 0]]
NoTxn == [phase |-> "none"]
NoReport == [outcome |-> "none", aff |-> {}, sure |-> TRUE]

Up(p) == running[p].gen # 0
Alive(p) == hosts[p].st \in {"starting", "active", "stopping"}

PkgInit ==
    /\ files = [p \in Packages |-> [src |-> 1, grants |-> TRUE, on |-> FALSE]]
    /\ hosts = [p \in Packages |-> NoHost]
    /\ pages = [p \in Packages |-> 0]
    /\ running = [p \in Packages |-> NoRun]
    /\ gens = [p \in Packages |-> 0]
    /\ txn = NoTxn
    /\ report = NoReport
    /\ world = [edits |-> MaxRegEdits, receipts |-> 0, entry |-> 0]

-----------------------------------------------------------------------------
(* Closures and trust.                                                         *)

(* Mutant of dependent_closure: the package alone.                             *)
OnlyItself(among, id) == {id}

(* The least set with id that every package of among joins which requires      *)
(* something of it.                                                            *)
dependent_closure(among, id) ==
    LET Closed(set) == \A p \in among : DependsOn[p] \cap set # {} => p \in set IN
    {p \in among \cup {id} : \A set \in SUBSET Packages : id \in set /\ Closed(set) => p \in set}

Current == {p \in Packages : Up(p)}

(* Running records, and packages that are enabled in the registry.             *)
disable_closure(id) == dependent_closure(Current \cup {p \in Packages : files[p].src # 0 /\ files[p].on}, id)

Registration(p) == [src |-> files[p].src, grants |-> files[p].grants]

(* reload_entry: the registered directory, with every grant it asks for.       *)
Loadable(p) == files[p].src # 0 /\ files[p].grants

(* The snapshot's directory is still registered with the grants it needs.      *)
validate_package_trust(r, p) == files[p].src = r.src /\ files[p].grants

(* order: every requirement has a provider among the next packages.            *)
Orders(next) == \A p \in next : DependsOn[p] \subseteq next

(* verify_registrations: as they were when the transaction looked last.        *)
verify_registrations == \A p \in txn.aff : Registration(p) = txn.seen[p]

package_is_active(p) ==
    /\ p \in HasHost => hosts[p].gen = running[p].gen /\ hosts[p].st = "active"
    /\ p \in HasPage => pages[p] = running[p].gen

(* Snapshots of the packages of set with a new generation each, bound to the   *)
(* generations their providers will have.                                      *)
Fresh(set, of) ==
    LET gen(p) == IF p \in set THEN gens[p] + 1 ELSE running[p].gen IN
    [p \in set |-> [of[p] EXCEPT !.gen = gen(p), !.bound = [q \in DependsOn[p] |-> gen(q)]]]

Loads(p) == [NoRun EXCEPT !.src = files[p].src, !.grants = files[p].grants]

-----------------------------------------------------------------------------
(* The transaction's record: a batch of Host commands is queued, then waits.   *)

NewTxn(kind, id, aff) ==
    [phase |-> "stop_previous", kind |-> kind, id |-> id, aff |-> aff, prev |-> <<>>, next |-> <<>>, seen |-> <<>>,
     queued |-> {}, waits |-> {}, bad |-> FALSE, unclean |-> FALSE, sure |-> TRUE, shown |-> FALSE, same |-> FALSE]

(* retire_package_renderers: the entries leave the logical packages at once.   *)
retire_package_renderers(set) ==
    /\ pages' = [p \in Packages |-> IF p \in set THEN 0 ELSE pages[p]]
    /\ running' = [p \in Packages |-> IF p \in set THEN NoRun ELSE running[p]]

LiveIn(set) == {p \in set \cap HasHost : Alive(p)}

(* cleanup_candidates and cleanup_rollback.                                    *)
Cleanup(t, phase) ==
    /\ \E failed \in BOOLEAN : txn' = [t EXCEPT !.phase = phase, !.queued = LiveIn(txn.aff), !.waits = {}, !.bad = TRUE,
                                                !.unclean = @ \/ (failed /\ phase = "stop_candidates"), !.shown = FALSE]
    /\ retire_package_renderers(txn.aff)
    /\ UNCHANGED <<files, hosts, gens, report, world>>

(* finish: the report is published under the receipt.                          *)
Done(t, outcome) ==
    /\ txn' = NoTxn
    /\ report' = [outcome |-> outcome, aff |-> t.aff, sure |-> t.sure]

-----------------------------------------------------------------------------
(* Dispatch.                                                                   *)

NoReceipt == txn = NoTxn /\ world.receipts < MaxReceipts
Counted == world' = [world EXCEPT !.receipts = @ + 1]

(* Enable of a package that is active: only its preference is written.         *)
EnableActive(id) ==
    /\ NoReceipt /\ Up(id) /\ package_is_active(id) /\ validate_package_trust(running[id], id)
    /\ files' = [files EXCEPT ![id].on = TRUE]
    /\ report' = [outcome |-> IF files[id].on THEN "unchanged" ELSE "applied", aff |-> {id}, sure |-> TRUE]
    /\ Counted
    /\ UNCHANGED <<hosts, pages, running, gens, txn>>

(* prepare_package for enable and reload: everything is validated before       *)
(* anything stops; then the renderers retire and the Hosts are stopped.        *)
prepare_package(kind, id, on) ==
    LET aff == IF kind = "reload" \/ Up(id) THEN dependent_closure(Current, id) ELSE {id}
        prev == aff \cap Current
        next == Fresh(aff, [p \in aff |-> Loads(p)])
    IN
    /\ NoReceipt
    /\ kind = "reload" => files[id].on /\ (Up(id) \/ gens[id] > 0)
    /\ kind = "enable" => ~(Up(id) /\ package_is_active(id))
    /\ \A p \in aff : Loadable(p) /\ gens[p] < MaxGen
    /\ Orders(aff \cup Current)
    /\ gens' = [p \in Packages |-> IF p \in aff THEN gens[p] + 1 ELSE gens[p]]
    /\ retire_package_renderers(aff)
    /\ \E failed \in IF aff \cap HasPage \cap prev # {} THEN BOOLEAN ELSE {FALSE} :
          txn' = [NewTxn(on, id, aff) EXCEPT !.prev = [p \in prev |-> running[p]], !.next = next,
                  !.seen = [p \in aff |-> Registration(p)], !.queued = LiveIn(aff), !.bad = failed, !.unclean = failed]
    /\ report' = NoReport
    /\ Counted
    /\ UNCHANGED <<files, hosts>>

(* dispatch_import: the directory is registered, disabled, before it starts.   *)
dispatch_import(id, src) ==
    /\ NoReceipt /\ ~Up(id) /\ ~Alive(id) /\ files' = [files EXCEPT ![id] = [src |-> src, grants |-> TRUE, on |-> FALSE]]
    /\ \/ report' = [outcome |-> "applied", aff |-> {id}, sure |-> TRUE] /\ UNCHANGED <<gens, txn>>
       \/ /\ gens[id] < MaxGen /\ Orders({id} \cup Current)
          /\ gens' = [gens EXCEPT ![id] = @ + 1]
          /\ txn' = [NewTxn("enable", id, {id}) EXCEPT
                        !.next = Fresh({id}, [p \in {id} |-> [NoRun EXCEPT !.src = src, !.grants = TRUE]]),
                        !.seen = [p \in {id} |-> [src |-> src, grants |-> TRUE]], !.queued = LiveIn({id})]
          /\ report' = NoReport
    /\ Counted
    /\ UNCHANGED <<hosts, pages, running>>

(* Disable: one registry write for the whole closure comes before anything     *)
(* stops; without cascade a package with dependents is refused.                *)
DisablePackage(id, cascade) ==
    LET aff == disable_closure(id) IN
    /\ NoReceipt /\ (cascade \/ aff = {id})
    /\ files' = [p \in Packages |-> IF p \in aff THEN [files[p] EXCEPT !.on = FALSE] ELSE files[p]]
    /\ retire_package_renderers(aff)
    /\ \E failed \in BOOLEAN :
          txn' = [NewTxn("disable", id, aff) EXCEPT !.phase = "disable", !.queued = LiveIn(aff), !.bad = failed,
                  !.same = aff \cap Current = {} /\ \A p \in aff : ~files[p].on]
    /\ report' = NoReport /\ Counted
    /\ UNCHANGED <<hosts, gens>>

-----------------------------------------------------------------------------
(* Revocation.                                                                 *)

(* retire_authority: every live Host loses its authority, then the renderers   *)
(* retire; stopping the Hosts comes later.                                     *)
retire_authority(kind, id, aff) ==
    /\ hosts' = [p \in Packages |-> IF p \in LiveIn(aff) THEN [hosts[p] EXCEPT !.auth = FALSE] ELSE hosts[p]]
    /\ retire_package_renderers(aff)
    /\ \E failed \in BOOLEAN :
          txn' = [NewTxn(kind, id, aff) EXCEPT !.phase = "revoke", !.queued = LiveIn(aff), !.bad = failed]
    /\ report' = NoReport /\ Counted
    /\ UNCHANGED gens

dispatch_revoke(id) ==
    /\ NoReceipt /\ (files[id].src # 0 \/ Up(id))
    /\ files' = [files EXCEPT ![id].grants = FALSE]
    /\ retire_authority("revoke", id, dependent_closure(Current, id))

DispatchRemove(id, cascade) ==
    LET aff == disable_closure(id) IN
    /\ NoReceipt /\ (files[id].src # 0 \/ Up(id))
    /\ cascade \/ aff = {id}
    /\ files' = [p \in Packages |-> IF p = id THEN [src |-> 0, grants |-> FALSE, on |-> FALSE]
                                    ELSE IF p \in aff THEN [files[p] EXCEPT !.on = FALSE] ELSE files[p]]
    /\ retire_authority("remove", id, aff)

(* A running package whose registration is not the one it was loaded under.    *)
Changed(p) == Up(p) /\ Registration(p) # [src |-> running[p].src, grants |-> running[p].grants]

(* The scan of every running package; it never adopts what it finds.           *)
reconcile_authorization ==
    /\ NoReceipt /\ \E p \in Packages : Changed(p)
    /\ retire_authority("scan", CHOOSE p \in Packages : Changed(p),
                        UNION {dependent_closure(Current, p) : p \in {q \in Packages : Changed(q)}})
    /\ UNCHANGED files

(* PendingRevocation::poll: owners are stopped one after the other; a changed  *)
(* generation and an ended Host need no command; the budget may run out.       *)
RevokeStops(p) ==
    /\ txn.phase = "revoke" /\ p \in txn.queued
    /\ IF Alive(p) THEN /\ hosts' = [hosts EXCEPT ![p].st = "stopping", ![p].res = "none"]
                        /\ txn' = [txn EXCEPT !.queued = @ \ {p}, !.waits = @ \cup {p}]
       ELSE txn' = [txn EXCEPT !.queued = @ \ {p}] /\ UNCHANGED hosts
    /\ UNCHANGED <<files, pages, running, gens, report, world>>

RevokeEnds ==
    /\ txn.phase = "revoke"
    /\ \/ txn.queued = {} /\ txn.waits = {} /\ Done(txn, IF txn.bad THEN "degraded" ELSE "applied")
       \/ txn.queued \cup txn.waits # {} /\ Done([txn EXCEPT !.sure = FALSE], "degraded")
    /\ \/ world' = [world EXCEPT !.entry = IF txn.aff \cap Native # {} THEN 0 ELSE @]
       \/ txn.aff \cap Native # {} /\ UNCHANGED world
    /\ UNCHANGED <<files, hosts, pages, running, gens>>

-----------------------------------------------------------------------------
(* HostBatch.                                                                  *)

Starting(t) == t.phase \in {"start_candidates", "render_candidates", "start_rollback", "render_rollback"}
Batching(t) == t.phase \in {"disable", "stop_previous", "stop_candidates", "stop_rollback", "start_candidates", "start_rollback"}

(* begin_start refuses while an earlier generation is not retired.             *)
BatchBegins(p) ==
    /\ txn # NoTxn /\ Batching(txn) /\ p \in txn.queued
    /\ IF Starting(txn)
       THEN IF hosts[p].st # "none"
            THEN txn' = [txn EXCEPT !.queued = @ \ {p}, !.bad = TRUE] /\ UNCHANGED hosts
            ELSE /\ hosts' = [hosts EXCEPT ![p] = [gen |-> txn.next[p].gen, st |-> "starting", auth |-> TRUE, res |-> "none"]]
                 /\ txn' = [txn EXCEPT !.queued = @ \ {p}, !.waits = @ \cup {p}]
       ELSE /\ hosts' = [hosts EXCEPT ![p].st = IF Alive(p) THEN "stopping" ELSE @, ![p].res = IF Alive(p) THEN "none" ELSE "bad"]
            /\ txn' = [txn EXCEPT !.queued = @ \ {p}, !.waits = @ \cup {p}]
    /\ UNCHANGED <<files, pages, running, gens, report, world>>

(* A failed start is a failure; so is a forced or failed exit; only a          *)
(* retirement that was not confirmed takes the certainty.                      *)
BatchCollects(p) ==
    /\ txn # NoTxn /\ p \in txn.waits /\ hosts[p].res # "none"
    /\ txn' = [txn EXCEPT !.waits = @ \ {p}, !.bad = @ \/ hosts[p].res # "ok", !.sure = @ /\ hosts[p].res # "unsure",
                          !.unclean = @ \/ (hosts[p].res # "ok" /\ txn.phase \in {"stop_previous", "stop_candidates"})]
    /\ hosts' = [hosts EXCEPT ![p].res = "none"]
    /\ UNCHANGED <<files, pages, running, gens, report, world>>

BatchDone == txn.queued = {} /\ txn.waits = {}

-----------------------------------------------------------------------------
(* PendingControl::poll, a step for each phase.                                *)

EndsDisable ==
    /\ txn.phase = "disable" /\ BatchDone
    /\ \/ Done(txn, IF txn.bad THEN "degraded" ELSE IF txn.same THEN "unchanged" ELSE "applied")
          /\ world' = [world EXCEPT !.entry = IF txn.aff \cap Native # {} /\ ~txn.bad THEN 0 ELSE @]
       \/ ~txn.bad /\ txn.aff \cap Native # {} /\ Done(txn, "degraded") /\ UNCHANGED world
    /\ UNCHANGED <<files, hosts, pages, running, gens>>

(* Mutant of verify_candidate: the preference as it was.                       *)
VerifyRegistrationOnly == verify_registrations

(* verify_candidate: nobody changed or disabled an affected package.           *)
verify_candidate ==
    /\ verify_registrations
    /\ \A p \in txn.aff : files[p].on \/ (p = txn.id /\ txn.kind = "enable")

(* start_rollback: the previous snapshots under the trust of this moment, with *)
(* new generations; or nothing when none of them ran.                          *)
MayRollBack == \A p \in DOMAIN txn.prev : validate_package_trust(txn.prev[p], p) /\ files[p].on /\ gens[p] < MaxGen

start_rollback(t) ==
    LET set == DOMAIN t.prev
        back == Fresh(set, t.prev)
    IN
    IF set # {} /\ MayRollBack /\ Orders(set \cup Current)
    THEN /\ gens' = [p \in Packages |-> IF p \in set THEN gens[p] + 1 ELSE gens[p]]
         /\ \/ /\ txn' = [t EXCEPT !.phase = IF t.aff \cap Native # {} THEN "native_rollback" ELSE "start_rollback",
                                   !.next = back, !.queued = IF t.aff \cap Native # {} THEN {} ELSE set \cap HasHost,
                                   !.waits = {}, !.bad = FALSE, !.shown = FALSE,
                                   !.seen = [p \in t.aff |-> Registration(p)]]
               /\ UNCHANGED report
            \/ Done(t, "degraded")
         /\ UNCHANGED world
    ELSE /\ Done(t, "degraded") /\ UNCHANGED gens
         /\ \/ world' = [world EXCEPT !.entry = IF set = {} /\ t.aff \cap Native # {} THEN 0 ELSE @]
            \/ UNCHANGED world

StopPrevious ==
    /\ txn.phase = "stop_previous" /\ BatchDone
    /\ IF ~txn.sure THEN Done(txn, "degraded") /\ UNCHANGED <<gens, world>>
       ELSE IF txn.bad \/ ~verify_candidate THEN start_rollback(txn)
       ELSE \/ /\ txn' = [txn EXCEPT !.phase = IF txn.aff \cap Native # {} THEN "native_candidates" ELSE "start_candidates",
                                     !.queued = IF txn.aff \cap Native # {} THEN {} ELSE txn.aff \cap HasHost]
               /\ UNCHANGED <<gens, report, world>>
            \/ start_rollback(txn)
    /\ UNCHANGED <<files, hosts, pages, running>>

StopCandidates ==
    /\ txn.phase = "stop_candidates" /\ BatchDone
    /\ IF ~txn.sure THEN Done(txn, "degraded") /\ UNCHANGED <<gens, world>> ELSE start_rollback(txn)
    /\ UNCHANGED <<files, hosts, pages, running>>

StopRollback ==
    /\ txn.phase = "stop_rollback" /\ BatchDone
    /\ Done(txn, "degraded")
    /\ UNCHANGED <<files, hosts, pages, running, gens, world>>

(* The worker that replaces the client source has answered.                    *)
NativeAnswers ==
    /\ txn.phase \in {"native_candidates", "native_rollback"}
    /\ LET p == CHOOSE q \in txn.aff \cap Native : TRUE IN
       \/ /\ world' = [world EXCEPT !.entry = IF p \in DOMAIN txn.next THEN txn.next[p].gen ELSE 0]
          /\ txn' = [txn EXCEPT !.phase = IF @ = "native_candidates" THEN "start_candidates" ELSE "start_rollback",
                                !.queued = DOMAIN txn.next \cap HasHost]
          /\ UNCHANGED <<gens, report>>
       \/ IF txn.phase = "native_candidates" THEN start_rollback(txn)
          ELSE Done(txn, "degraded") /\ UNCHANGED <<gens, world>>
    /\ UNCHANGED <<files, hosts, pages, running>>

(* Every command is given: the renderers may start while Hosts still start.    *)
StartsDone ==
    /\ txn.phase \in {"start_candidates", "start_rollback"} /\ txn.queued = {}
    /\ LET restoring == txn.phase = "start_rollback" IN
       IF BatchDone /\ txn.bad
       THEN Cleanup(txn, IF restoring THEN "stop_rollback" ELSE "stop_candidates")
       ELSE /\ txn' = [txn EXCEPT !.phase = IF restoring THEN "render_rollback" ELSE "render_candidates"]
            /\ UNCHANGED <<files, hosts, pages, running, gens, report, world>>

verify_rollback ==
    verify_registrations /\ \A p \in DOMAIN txn.next : validate_package_trust(txn.next[p], p) /\ files[p].on

Rendering == txn.phase \in {"render_candidates", "render_rollback"}
CleanupPhase == IF txn.phase = "render_rollback" THEN "stop_rollback" ELSE "stop_candidates"
Verified == IF txn.phase = "render_rollback" THEN verify_rollback ELSE verify_candidate

(* activate_package_renderers: the packages join the logical ones; a renderer  *)
(* needs its own Host and its providers' active.  Without a live target, or    *)
(* when an activation fails, everything started is cleaned up.                 *)
Renders ==
    /\ Rendering /\ ~txn.shown
    /\ LET set == DOMAIN txn.next
           gen(q) == IF q \in set THEN txn.next[q].gen ELSE running[q].gen
           ready == \A p \in set \cap HasPage : \A q \in ({p} \cup DependsOn[p]) \cap HasHost :
                        hosts[q].gen = gen(q) /\ hosts[q].st = "active"
       IN
       \/ /\ Verified /\ ready
          /\ running' = [p \in Packages |-> IF p \in set THEN txn.next[p] ELSE running[p]]
          /\ pages' = [p \in Packages |-> IF p \in set \cap HasPage THEN txn.next[p].gen ELSE pages[p]]
          /\ txn' = [txn EXCEPT !.shown = TRUE]
          /\ UNCHANGED <<files, hosts, gens, report, world>>
       \/ Cleanup(txn, CleanupPhase)

(* The Hosts that were still starting have answered: the last verification,    *)
(* and for an enable the preference, written only over the same registrations. *)
Commits ==
    /\ Rendering /\ txn.shown /\ BatchDone /\ ~txn.bad /\ Verified
    /\ files' = [files EXCEPT ![txn.id].on = IF txn.kind = "enable" /\ txn.phase = "render_candidates" THEN TRUE ELSE @]
    /\ Done(txn, IF txn.phase = "render_candidates" THEN "applied" ELSE IF txn.sure /\ ~txn.unclean THEN "rolled_back" ELSE "degraded")
    /\ UNCHANGED <<hosts, pages, running, gens, world>>

CommitFails ==
    /\ Rendering /\ txn.shown /\ BatchDone /\ (txn.bad \/ ~Verified)
    /\ Cleanup(txn, CleanupPhase)

-----------------------------------------------------------------------------
(* The Hosts, the client, and other processes.                                 *)

HostAnswers(p) ==
    /\ hosts[p].st \in {"starting", "stopping"}
    /\ IF hosts[p].st = "starting"
       THEN hosts' = [hosts EXCEPT ![p].st = "active", ![p].res = "ok"] \/ hosts' = [hosts EXCEPT ![p].st = "none", ![p].res = "bad"]
       ELSE \/ \E res \in {"ok", "bad"} : hosts' = [hosts EXCEPT ![p].st = "none", ![p].res = res]
            \/ hosts' = [hosts EXCEPT ![p].st = "lost", ![p].res = "unsure"]
    /\ UNCHANGED <<files, pages, running, gens, txn, report, world>>

HostCrashes(p) ==
    /\ hosts[p].st = "active" /\ hosts' = [hosts EXCEPT ![p].st = "none"]
    /\ UNCHANGED <<files, pages, running, gens, txn, report, world>>

LostIsReaped(p) ==
    /\ hosts[p].st = "lost" /\ hosts' = [hosts EXCEPT ![p].st = "none", ![p].res = "none"]
    /\ UNCHANGED <<files, pages, running, gens, txn, report, world>>

(* A navigation or a failure takes a renderer entry down.                      *)
PageLost(p) == pages[p] # 0 /\ pages' = [pages EXCEPT ![p] = 0] /\ UNCHANGED <<files, hosts, running, gens, txn, report, world>>

(* Another process registers a directory, revokes grants, removes or switches. *)
RegistryEdited(p) ==
    /\ world.edits > 0 /\ world' = [world EXCEPT !.edits = @ - 1]
    /\ \/ \E src \in 1..MaxSource : files' = [files EXCEPT ![p].src = src, ![p].grants = TRUE]
       \/ files' = [files EXCEPT ![p].grants = FALSE]
       \/ files' = [files EXCEPT ![p] = [src |-> 0, grants |-> FALSE, on |-> FALSE]]
       \/ files' = [files EXCEPT ![p].on = ~@]
    /\ UNCHANGED <<hosts, pages, running, gens, txn, report>>

Dispatched(p) ==
    \/ EnableActive(p) \/ prepare_package("enable", p, "enable") \/ prepare_package("reload", p, "reload")
    \/ \E src \in 1..MaxSource : dispatch_import(p, src)
    \/ dispatch_revoke(p)
    \/ \E cascade \in BOOLEAN : DisablePackage(p, cascade) \/ DispatchRemove(p, cascade)

Polled ==
    \/ EndsDisable \/ StopPrevious \/ StopCandidates \/ StopRollback \/ NativeAnswers \/ StartsDone
    \/ Renders \/ Commits \/ CommitFails \/ RevokeEnds \/ reconcile_authorization
    \/ \E p \in Packages : BatchBegins(p) \/ BatchCollects(p) \/ RevokeStops(p)

PkgNext ==
    \/ Polled
    \/ \E p \in Packages : Dispatched(p) \/ HostAnswers(p) \/ HostCrashes(p) \/ PageLost(p) \/ LostIsReaped(p) \/ RegistryEdited(p)

PkgSpec == PkgInit /\ [][PkgNext]_pkgVars

-----------------------------------------------------------------------------
(* What has to hold.                                                           *)

(* Between transactions a package that runs is bound to exactly the generation *)
(* of each provider that runs: no sequence of receipts, failures, rollbacks    *)
(* and revocations leaves a consumer of a replaced or removed provider.        *)
NoOrphans ==
    \A p \in Packages : Up(p) /\ txn = NoTxn =>
        \A q \in DependsOn[p] : Up(q) /\ running[p].bound[q] = running[q].gen

(* No authority without a package: a Host that lives between transactions is   *)
(* the running package's, or its authority was revoked.                        *)
NoStrayHosts ==
    \A p \in Packages : hosts[p].st \in {"starting", "active"} /\ txn = NoTxn =>
        (hosts[p].gen = running[p].gen /\ Up(p)) \/ ~hosts[p].auth

(* A renderer entry is the running package's generation.                       *)
PagesExact == \A p \in Packages : pages[p] \in {0, running[p].gen}

(* A native package that runs is the one whose client source is active.        *)
EntryExact == \A p \in Native : Up(p) /\ txn = NoTxn => world.entry = running[p].gen

(* Where the retirement of a Host was not confirmed nothing was started again. *)
UnsureIsDown == txn = NoTxn /\ ~report.sure => \A p \in report.aff : ~Up(p)

PackagesSound == NoOrphans /\ NoStrayHosts /\ PagesExact /\ EntryExact /\ UnsureIsDown

(* A report that a change was applied or rolled back is given only while every *)
(* affected package that runs is enabled, at the directory it was loaded from, *)
(* and with its grants; and no Host starts with a generation that was used.    *)
ReportsUnderTrust ==
    [][/\ txn # NoTxn /\ txn' = NoTxn /\ report'.outcome \in {"applied", "rolled_back"} =>
             \A p \in report'.aff : running'[p].gen # 0 =>
                 files'[p].on /\ files'[p].grants /\ files'[p].src = running'[p].src
       /\ \A p \in Packages : hosts'[p].st = "starting" /\ hosts[p].st # "starting" => hosts'[p].gen > hosts[p].gen]_pkgVars
=============================================================================
