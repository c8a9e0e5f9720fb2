---------------------------- MODULE ClientLaunch ----------------------------
(* Starting the client application (src/probe.rs, src/probe/, src/windows/     *)
(* process.rs, package_launch.rs, client_bootstrap.rs, launch_mutex.rs,        *)
(* src/traffic_owner.rs, src/client_launch.rs): from the registry lease to a   *)
(* runtime that owns exactly one running client, with the retries after a      *)
(* package update and after an incompatible plugin, and every way it fails.    *)
EXTENDS Integers, FiniteSets

CONSTANTS
    Launchers,      \* Codlet processes of one user, each with its own registry or sharing one
    MaxPackage,     \* bound: versions of the client package
    MaxStarts       \* bound: starts of each launcher

ASSUME LaunchConstants == MaxPackage \in Nat \ {0} /\ MaxStarts \in Nat \ {0} /\ "nobody" \notin Launchers

VARIABLES
    win,        \* external: Windows; its mutex, the packages, clients nobody holds any more
                \* and whether the launchers share one registry
    boot,       \* the start of each launcher
    aide,       \* the helper process that a launcher activates in the package
    client      \* the client that a launcher's current attempt created

launchVars == <<win, boot, aide, client>>

Nobody == "nobody"

NoBoot == [pc |-> "idle", safe |-> FALSE, reason |-> "none", sel |-> 0, seen |-> {}, starts |-> 0, armed |-> FALSE,
           debug |-> FALSE, said |-> 0, leases |-> FALSE]

NoClient == [st |-> "none", pkg |-> 0, patched |-> FALSE]

NoAide == [pc |-> "none", pkg |-> 0, armed |-> FALSE]

LaunchInit ==
    /\ win \in [mutex : {Nobody}, active : {1}, listed : {1}, user : {FALSE}, running : {0}, frozen : {FALSE}, shared : BOOLEAN]
    /\ boot = [l \in Launchers |-> NoBoot]
    /\ aide = [l \in Launchers |-> NoAide]
    /\ client = [l \in Launchers |-> NoClient]

Stage(l, pc) == boot[l].pc = pc
Moves(l, d) == boot' = [boot EXCEPT ![l] = d]
To(l, pc) == [boot[l] EXCEPT !.pc = pc]

(* A traffic owner and its bridge exist, unless in safe mode or when the start *)
(* is repeated without the bridge (without_bridge).                            *)
Traffic(l) == ~boot[l].safe /\ boot[l].reason # "lease"

-----------------------------------------------------------------------------
(* Failure: what the owners that unwind leave behind.                          *)

(* SuspendedChild's and ChildProcess's Drop: an uncommitted client is killed,  *)
(* and so is one with a traffic owner or a debugger; any other runs on.        *)
Outlives(l) == client[l].st = "running" /\ ~boot[l].armed /\ ~Traffic(l)

Release(l) ==
    win' = [win EXCEPT !.mutex = IF @ = l THEN Nobody ELSE @, !.running = @ + (IF Outlives(l) THEN 1 ELSE 0)]

(* startup_recovery::attempt: one more start for the two kinds of reason.      *)
Again(l, reason) ==
    IF boot[l].reason = "none" /\ ~boot[l].safe /\ reason \in {"compat", "lease"}
    THEN [NoBoot EXCEPT !.pc = "recover", !.reason = reason, !.starts = boot[l].starts]
    ELSE [NoBoot EXCEPT !.pc = "over", !.starts = boot[l].starts]

Unwind(l, reason) ==
    /\ Release(l) /\ Moves(l, Again(l, reason))
    /\ client' = [client EXCEPT ![l] = NoClient]

Fail(l, reason) == Unwind(l, reason) /\ UNCHANGED aide

-----------------------------------------------------------------------------
(* Before the client.                                                          *)

(* RegistryScope::acquire; the lease stays until the runtime has ended.        *)
acquire(l) ==
    /\ boot[l].pc \in {"idle", "recover"} /\ boot[l].starts < MaxStarts
    /\ ~win.shared \/ \A o \in Launchers \ {l} : ~boot[o].leases
    /\ \E safe \in BOOLEAN :
          /\ boot[l].pc = "recover" => ~safe
          /\ Moves(l, [boot[l] EXCEPT !.pc = "leased", !.leases = TRUE, !.safe = safe, !.starts = @ + 1])
    /\ UNCHANGED <<win, aide, client>>

(* Recover, load, refresh, plan: prepare_plugin_runtimes_filtered.  A repeated *)
(* start needs a plugin to suspend.                                            *)
prepare_plugin_runtimes_filtered(l) ==
    /\ Stage(l, "leased")
    /\ \/ Moves(l, To(l, "prepared")) /\ UNCHANGED <<win, aide, client>>
       \/ Fail(l, "error")

(* TrafficOwner::start and prepare_bridge with the source of a launch plugin.  *)
prepare_bridge(l) ==
    /\ Stage(l, "prepared")
    /\ \/ Moves(l, To(l, "connect")) /\ UNCHANGED <<win, aide, client>>
       \/ Traffic(l) /\ \E reason \in {"error", "compat"} : Fail(l, reason)

(* LaunchMutexGuard: granted, also when its owner died, or timed out.          *)
acquire_current_user(l) ==
    /\ Stage(l, "connect")
    /\ \/ /\ win.mutex = Nobody /\ win' = [win EXCEPT !.mutex = l]
          /\ Moves(l, To(l, "locked")) /\ UNCHANGED <<aide, client>>
       \/ win.mutex # Nobody /\ Fail(l, "error")

(* Mutant of running_processes_for_package: only clients someone still holds.  *)
HeldProcesses(l) == win.user \/ \E o \in Launchers \ {l} : client[o].pkg # 0

(* Every process of the package, whoever started it.                           *)
running_processes_for_package(l) ==
    win.user \/ win.running > 0 \/ win.frozen \/ \E o \in Launchers \ {l} : client[o].pkg # 0

(* inspect_environment: the package as it is listed, and the processes.        *)
inspect_environment(l) ==
    /\ Stage(l, "locked")
    /\ IF running_processes_for_package(l) THEN Fail(l, "error")
       ELSE /\ Moves(l, [To(l, "scanned") EXCEPT !.sel = win.listed, !.seen = {win.listed}])
            /\ UNCHANGED <<win, aide, client>>

(* checked_launch_prepared: the second scan, then the control and status       *)
(* servers.                                                                    *)
checked_launch_prepared(l) ==
    /\ Stage(l, "scanned")
    /\ \/ running_processes_for_package(l) /\ Fail(l, "error")
       \/ ~running_processes_for_package(l) /\ Moves(l, To(l, "attempt")) /\ UNCHANGED <<win, aide, client>>
       \/ Fail(l, "error")

-----------------------------------------------------------------------------
(* One attempt with the selected package.                                      *)

reject_instance_conflict(l) ==
    /\ Stage(l, "attempt")
    /\ IF running_processes_for_package(l) THEN Fail(l, "error")
       ELSE Moves(l, To(l, "create")) /\ UNCHANGED <<win, aide, client>>

(* create_suspended: with the identity of the selected package only when the   *)
(* launcher itself runs in it.                                                 *)
create_suspended(l) ==
    /\ Stage(l, "create")
    /\ \/ /\ \E pkg \in {0, boot[l].sel} : client' = [client EXCEPT ![l] = [NoClient EXCEPT !.st = "suspended", !.pkg = pkg]]
          /\ Moves(l, [To(l, "created") EXCEPT !.armed = TRUE]) /\ UNCHANGED <<win, aide>>
       \/ Fail(l, "error")

(* Another identity: the client is aborted and a helper activated, which       *)
(* Windows starts in the package that is active now.                           *)
activate_helper(l) ==
    /\ Stage(l, "created") /\ client[l].pkg # boot[l].sel
    /\ client' = [client EXCEPT ![l] = NoClient]
    /\ \/ /\ Moves(l, [To(l, "helper") EXCEPT !.armed = FALSE])
          /\ aide' = [aide EXCEPT ![l] = [pc |-> "up", pkg |-> win.active, armed |-> FALSE]]
          /\ UNCHANGED win
       \/ Moves(l, Again(l, "error")) /\ win' = [win EXCEPT !.mutex = Nobody] /\ UNCHANGED aide

(* package_refresh::launch: at most three attempts, never the same package     *)
(* twice.                                                                      *)
Refreshed(l, active) ==
    IF Cardinality(boot[l].seen) < 3 /\ active \notin boot[l].seen
    THEN [To(l, "attempt") EXCEPT !.sel = active, !.seen = @ \cup {active}]
    ELSE [NoBoot EXCEPT !.pc = "over", !.starts = boot[l].starts]

(* The helper runs in another version: it is cancelled, nothing was sent.      *)
PackageSelectionChanged(l) ==
    /\ Stage(l, "helper") /\ aide[l].pc = "up" /\ aide[l].pkg # boot[l].sel
    /\ aide' = [aide EXCEPT ![l] = NoAide]
    /\ Moves(l, Refreshed(l, aide[l].pkg))
    /\ win' = [win EXCEPT !.mutex = IF Refreshed(l, aide[l].pkg).pc = "over" THEN Nobody ELSE @]
    /\ UNCHANGED client

SendStart(l) ==
    /\ Stage(l, "helper") /\ aide[l].pc = "up" /\ aide[l].pkg = boot[l].sel
    /\ aide' = [aide EXCEPT ![l].pc = "asked"] /\ Moves(l, To(l, "waiting"))
    /\ UNCHANGED <<win, client>>

(* run_helper: checks the package once more, creates the client and reports    *)
(* it; it holds the client until the commit.                                   *)
run_helper(l) ==
    /\ aide[l].pc = "asked"
    /\ \/ /\ aide' = [aide EXCEPT ![l].pc = "ready", ![l].armed = TRUE]
          /\ client' = [client EXCEPT ![l] = [NoClient EXCEPT !.st = "suspended", !.pkg = aide[l].pkg]]
       \/ aide' = [aide EXCEPT ![l].pc = "failed"] /\ UNCHANGED client
    /\ UNCHANGED <<win, boot>>

(* The exact process is opened and verified; from now on both would kill it.   *)
OpenReported(l) ==
    /\ Stage(l, "waiting") /\ aide[l].pc = "ready" /\ client[l].pkg = boot[l].sel
    /\ Moves(l, [To(l, "created") EXCEPT !.armed = TRUE])
    /\ UNCHANGED <<win, aide, client>>

(* Any error of create_in_package: the channel closes, and the helper kills    *)
(* its client unless it committed; a launcher that holds it kills it too.      *)
HandoffFails(l) ==
    /\ boot[l].pc \in {"helper", "waiting"} \/ (boot[l].pc \in {"created", "resumable", "commit"} /\ aide[l].pc # "none")
    /\ Unwind(l, "error")
    /\ aide' = [aide EXCEPT ![l] = NoAide]

(* before_client_resume: the bridge is asked; it may want module data patched, *)
(* which needs a debugger that kills the client with its own end.              *)
before_client_resume(l) ==
    /\ Stage(l, "created") /\ client[l].pkg = boot[l].sel
    /\ \/ /\ \E debug \in IF Traffic(l) THEN BOOLEAN ELSE {FALSE} : Moves(l, [To(l, "resumable") EXCEPT !.debug = debug])
          /\ UNCHANGED <<win, aide, client>>
       \/ /\ Traffic(l)
          /\ \E reason \in {"error", "compat"} : Unwind(l, reason)
          /\ aide' = [aide EXCEPT ![l] = NoAide]

(* ResumeThread.                                                               *)
resume(l) ==
    /\ Stage(l, "resumable")
    /\ client' = [client EXCEPT ![l].st = "running"]
    /\ Moves(l, To(l, IF aide[l].pc = "none" THEN "finish" ELSE "commit"))
    /\ UNCHANGED <<win, aide>>

(* Commit, Committed, and the end of the helper.                               *)
Committed(l) ==
    /\ Stage(l, "commit") /\ aide[l].pc = "ready"
    /\ aide' = [aide EXCEPT ![l] = NoAide] /\ Moves(l, To(l, "finish"))
    /\ UNCHANGED <<win, client>>

(* SuspendedChild::finish: the client belongs to the runtime.                  *)
finish(l) ==
    /\ Stage(l, "finish")
    /\ \/ Moves(l, [To(l, IF Traffic(l) THEN "attach" ELSE "publish") EXCEPT !.armed = FALSE]) /\ UNCHANGED <<win, aide, client>>
       \/ Fail(l, "error")

(* debug_owned: the image is loaded and patched.                               *)
debug_owned(l) ==
    /\ boot[l].debug /\ client[l].st = "running" /\ ~client[l].patched /\ boot[l].pc \in {"commit", "finish", "attach"}
    /\ client' = [client EXCEPT ![l].patched = TRUE]
    /\ UNCHANGED <<win, boot, aide>>

(* attach_client: wait for the patch, attach the bridge, restore the patch,    *)
(* then take the bridge's lease.                                               *)
attach_client(l) ==
    /\ Stage(l, "attach")
    /\ \/ /\ boot[l].debug => client[l].patched
          /\ client' = [client EXCEPT ![l].patched = FALSE]
          /\ Moves(l, [To(l, "publish") EXCEPT !.debug = FALSE]) /\ UNCHANGED <<win, aide>>
       \/ \E reason \in {"error", "compat", "lease"} : Fail(l, reason)

(* Status names the client; the mutex is free; the CDP connection.             *)
set_codex(l) ==
    /\ Stage(l, "publish")
    /\ \/ /\ Moves(l, [To(l, "starting") EXCEPT !.said = boot[l].sel])
          /\ win' = [win EXCEPT !.mutex = Nobody] /\ UNCHANGED <<aide, client>>
       \/ Fail(l, "error")

(* complete_bridge_startup, Hosts, targets, and a last look at the client.     *)
set_ready(l) ==
    /\ Stage(l, "starting")
    /\ \/ client[l].st = "running" /\ Moves(l, To(l, "up")) /\ UNCHANGED <<win, aide, client>>
       \/ \E reason \in {"error", "compat"} : Fail(l, reason)

-----------------------------------------------------------------------------
(* The runtime, and everyone else.                                             *)

(* wait_inner ends with the client, or with an error: then Drop asks a traffic *)
(* client to quit and ChildProcess kills it.  A confirmed update restarts.     *)
wait_inner(l) ==
    /\ Stage(l, "up")
    /\ IF client[l].st = "none"
       THEN /\ \E pc \in {"over", "idle"} : Moves(l, [NoBoot EXCEPT !.pc = pc, !.starts = boot[l].starts])
            /\ UNCHANGED <<win, client>>
       ELSE Release(l) /\ Moves(l, [NoBoot EXCEPT !.pc = "over", !.starts = boot[l].starts]) /\ client' = [client EXCEPT ![l] = NoClient]
    /\ UNCHANGED aide

ClientExits(l) ==
    /\ client[l].st = "running" /\ boot[l].pc \in {"attach", "publish", "starting", "up"}
    /\ client' = [client EXCEPT ![l] = NoClient] /\ UNCHANGED <<win, boot, aide>>

(* The launcher is killed: its handles close, its debugger kills the client,   *)
(* its helper sees the end of the pipe.                                        *)
LauncherKilled(l) ==
    /\ boot[l].pc \notin {"idle", "over"}
    /\ Moves(l, [NoBoot EXCEPT !.pc = "over", !.starts = boot[l].starts])
    /\ LET kept == client[l].st # "none" /\ ~boot[l].debug /\ ~aide[l].armed IN
       win' = [win EXCEPT !.mutex = IF @ = l THEN Nobody ELSE @,
                          !.running = @ + (IF kept /\ client[l].st = "running" THEN 1 ELSE 0),
                          !.frozen = @ \/ (kept /\ client[l].st = "suspended" /\ client[l].pkg # 0)]
    /\ client' = [client EXCEPT ![l] = NoClient] /\ aide' = [aide EXCEPT ![l] = NoAide]

HelperKilled(l) ==
    /\ aide[l].pc \in {"up", "asked"} /\ aide' = [aide EXCEPT ![l].pc = "failed"]
    /\ UNCHANGED <<win, boot, client>>

(* Windows installs a version, and shows it in its list some time later.       *)
PackageUpdates ==
    /\ \/ win.active < MaxPackage /\ win' = [win EXCEPT !.active = @ + 1]
       \/ win.listed < win.active /\ win' = [win EXCEPT !.listed = win.active]
    /\ UNCHANGED <<boot, aide, client>>

(* The user starts and closes clients without Codlet.                          *)
UserActs ==
    /\ \/ win' = [win EXCEPT !.user = ~win.user]
       \/ win.running > 0 /\ win' = [win EXCEPT !.running = @ - 1]
    /\ UNCHANGED <<boot, aide, client>>

LaunchNext ==
    \/ \E l \in Launchers :
          \/ acquire(l) \/ prepare_plugin_runtimes_filtered(l) \/ prepare_bridge(l) \/ acquire_current_user(l)
          \/ inspect_environment(l) \/ checked_launch_prepared(l) \/ reject_instance_conflict(l) \/ create_suspended(l)
          \/ activate_helper(l) \/ PackageSelectionChanged(l) \/ SendStart(l) \/ run_helper(l) \/ OpenReported(l)
          \/ HandoffFails(l) \/ before_client_resume(l) \/ resume(l) \/ Committed(l) \/ finish(l) \/ debug_owned(l)
          \/ attach_client(l) \/ set_codex(l) \/ set_ready(l) \/ wait_inner(l) \/ ClientExits(l)
          \/ LauncherKilled(l) \/ HelperKilled(l)
    \/ PackageUpdates \/ UserActs

LaunchSpec == LaunchInit /\ [][LaunchNext]_launchVars

-----------------------------------------------------------------------------
(* What has to hold.                                                           *)

(* However starts interleave, fail, are repeated or killed, at most one client *)
(* that Codlet started is running.                                             *)
OneClient == Cardinality({l \in Launchers : client[l].st = "running"}) + win.running <= 1

(* A client runs only as the package that was selected last, and the status    *)
(* of a runtime names that package.                                            *)
SelectedIsActual ==
    \A l \in Launchers :
        /\ client[l].st = "running" => client[l].pkg = boot[l].sel
        /\ boot[l].said # 0 /\ client[l].st = "running" => boot[l].said = client[l].pkg

(* A start that ended by itself leaves no client suspended; with a traffic     *)
(* owner it leaves none at all, and it keeps neither mutex nor lease.  So a    *)
(* repeated start begins after everything of the first one is gone.            *)
FailureUnwinds ==
    \A l \in Launchers : boot[l].pc \in {"idle", "recover", "over"} =>
        client[l].st = "none" /\ aide[l].pc = "none" /\ win.mutex # l /\ ~boot[l].leases

(* Patched module data exist only under a debugger, and in no runtime that is  *)
(* up.                                                                         *)
PatchIsGuarded ==
    \A l \in Launchers : client[l].patched => boot[l].debug /\ boot[l].pc \in {"commit", "finish", "attach"}

(* Between the first scan and the moment its status names the client, a start  *)
(* has the mutex of this user; on one registry only one has the lease.         *)
StartsAlone ==
    /\ \A l \in Launchers : client[l].st # "none" /\ boot[l].said = 0 => win.mutex = l
    /\ win.shared => Cardinality({l \in Launchers : boot[l].leases}) <= 1

LaunchSound == OneClient /\ SelectedIsActual /\ FailureUnwinds /\ PatchIsGuarded /\ StartsAlone
=============================================================================
