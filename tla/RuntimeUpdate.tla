---------------------------- MODULE RuntimeUpdate ----------------------------
(* Codlet replacing itself.  RuntimeUpdateService (src/runtime_update.rs)      *)
(* checks, downloads and prepares an install job on one worker thread; the     *)
(* owner (src/probe/runtime_update_owner.rs, src/runtime_update_owner.rs)      *)
(* hands the job to a helper process and quits; the helper                     *)
(* (scripts/runtime-update-helper.mjs) waits for that, exchanges the files and *)
(* starts Codlet again.  Each of the three may die between any two steps; what *)
(* is left is the disk, which the next Codlet reads.                           *)
EXTENDS Integers, Sequences, FiniteSets

CONSTANTS
    PayloadFile,    \* files of the installation, "exe" among them
    FileOrder,      \* the order a plan lists them in
    MaxJobs,        \* bound: install jobs prepared
    MaxRuns,        \* bound: times Codlet is started
    MaxQueue        \* bound: commands waiting for the worker

ASSUME RuntimeUpdateConstants ==
    /\ "exe" \in PayloadFile /\ MaxJobs \in Nat \ {0} /\ MaxRuns \in Nat \ {0}
    /\ MaxQueue \in Nat \ {0}
    /\ FileOrder \in Seq(PayloadFile) /\ Len(FileOrder) = Cardinality(PayloadFile)
    /\ PayloadFile = {FileOrder[i] : i \in DOMAIN FileOrder}

VARIABLES
    core,       \* the Codlet process: running, which version, which start
    svc,        \* RuntimeUpdateService: State, the command queue, the worker
    owner,      \* RuntimeUpdateOwner and its handoff thread
    helper,     \* the helper process of each job
    disk        \* installation, staged payload, backups, lock, receipts

updVars == <<core, svc, owner, helper, disk>>

Job == 1..MaxJobs
NoJob == 0
Old == 1                \* versions, as the bytes of a file; 0 is no file and
New == 2                \* Edited bytes of nobody's manifest
Edited == 3
Bytes == 0..3

JobCommand == {"check", "download", "install", "reschedule"}
UpdatePhase == {"idle", "checking", "upToDate", "available", "downloading", "downloaded",
                "installRequested", "failed"}

ReceiptPhase == {"none", "ready", "waitingForExit", "replacing", "restarting", "installed",
                 "rollingBack", "rolledBack", "oldRuntimeRestarted", "failed",
                 "rollbackBlocked", "rollbackRestartFailed"}

(* State, with the queue and what the worker is doing.  job stands for         *)
(* install_id and install_receipt, which are set and cleared together.         *)
ServiceState ==
    [phase : UpdatePhase, busy : BOOLEAN, candidate : BOOLEAN, staged : BOOLEAN,
     request : 0..MaxJobs, job : 0..MaxJobs, blocked : BOOLEAN, error : BOOLEAN,
     automatic : BOOLEAN, timer : BOOLEAN, queue : Seq(JobCommand),
     doing : JobCommand \cup {"none", "restoring", "restored", "ending"}]

NoService == [phase |-> "idle", busy |-> FALSE, candidate |-> FALSE, staged |-> FALSE,
              request |-> NoJob, job |-> NoJob, blocked |-> FALSE, error |-> FALSE,
              automatic |-> FALSE, timer |-> FALSE, queue |-> <<>>, doing |-> "none"]

Handoff == {"none", "spawning", "waiting", "acked", "done", "failed"}
NoOwnerState == [handoff |-> "none", job |-> NoJob, quit |-> FALSE]

Pc == {"none", "validating", "ready", "waiting", "moveOld", "moveNew", "restarting", "started",
       "rollback", "restartOld", "startedOld", "final", "gone"}

NoHelper == [pc |-> "none", run |-> 0, old |-> {}, new |-> {}, end |-> "none"]

UpdInit ==
    /\ core = [up |-> FALSE, version |-> Old, run |-> 0]
    /\ svc = NoService /\ owner = NoOwnerState
    /\ helper = [j \in Job |-> NoHelper]
    /\ disk = [install |-> [f \in PayloadFile |-> Old], staged |-> [f \in PayloadFile |-> 0],
               backup |-> [f \in PayloadFile |-> 0], lock |-> NoJob,
               receipt |-> [j \in Job |-> "none"], clean |-> [j \in Job |-> TRUE],
               ack |-> {}, summary |-> NoJob, saved |-> FALSE]

-----------------------------------------------------------------------------
(* Codlet starts and ends.                                                     *)

(* start_with_preferences: the state is published busy, the worker restores.   *)
Started(automatic) ==
    [NoService EXCEPT !.phase = IF automatic THEN "checking" ELSE "idle", !.busy = TRUE,
                      !.automatic = automatic, !.timer = automatic, !.doing = "restoring"]

StartsJob ==
    /\ ~core.up /\ core.run < MaxRuns /\ disk.install["exe"] \in {Old, New}
    /\ core' = [up |-> TRUE, version |-> disk.install["exe"], run |-> core.run + 1]
    /\ \E automatic \in BOOLEAN : svc' = Started(automatic)
    /\ owner' = NoOwnerState

UserStarts == StartsJob /\ UNCHANGED <<helper, disk>>

(* A quit, the one the owner asked for or another, or a crash: the handoff     *)
(* thread dies with the process, the helper does not.                          *)
CoreEnds ==
    /\ core.up
    /\ core' = [core EXCEPT !.up = FALSE]
    /\ svc' = NoService /\ owner' = NoOwnerState
    /\ UNCHANGED <<helper, disk>>

(* recheck_staged, verify_payload: every file is there with the bytes of the   *)
(* manifest, and nothing else is.                                              *)
Whole(files, version) == \A f \in PayloadFile : files[f] = version

(* poll_install_receipt: a terminal receipt of the watched job frees the       *)
(* service for a retry, finishes the update, or blocks it for good.            *)
Terminal(j) ==
    \/ disk.receipt[j] \in {"failed", "rolledBack", "oldRuntimeRestarted"} /\ disk.clean[j]
    \/ disk.receipt[j] \in {"rollbackBlocked", "rollbackRestartFailed", "installed"}

AfterReceipt(s) ==
    LET j == s.job
        completed == disk.receipt[j] = "installed" /\ core.version = New
        free == [s EXCEPT !.job = NoJob, !.request = NoJob, !.busy = FALSE]
    IN  IF j = NoJob \/ ~Terminal(j) THEN s
        ELSE IF completed
          THEN [free EXCEPT !.phase = "upToDate", !.candidate = FALSE, !.staged = FALSE,
                            !.error = FALSE]
        ELSE IF disk.receipt[j] \in {"rollbackBlocked", "rollbackRestartFailed", "installed"}
          THEN [free EXCEPT !.phase = "failed", !.blocked = TRUE, !.error = TRUE]
          ELSE [free EXCEPT !.phase = IF s.staged THEN "downloaded" ELSE "failed", !.error = TRUE]

newer(candidate, current) == candidate > current

(* restore_staged: the saved stage counts while it is newer and unchanged.     *)
restore_staged(s) ==
    IF ~disk.saved \/ ~newer(New, core.version) THEN [s EXCEPT !.busy = FALSE]
    ELSE IF Whole(disk.staged, New)
      THEN [s EXCEPT !.phase = "downloaded", !.staged = TRUE, !.busy = FALSE]
      ELSE [s EXCEPT !.phase = "failed", !.error = TRUE, !.busy = FALSE]

RestoresStage ==
    /\ core.up /\ svc.doing = "restoring"
    /\ svc' = [restore_staged(svc) EXCEPT !.doing = "restored"]
    /\ UNCHANGED <<core, owner, helper, disk>>

(* restore_install_receipt follows, under the lock anew.                       *)
restore_install_receipt(s) ==
    IF disk.summary = NoJob THEN s
    ELSE AfterReceipt([s EXCEPT !.job = disk.summary, !.phase = "installRequested",
                                !.busy = FALSE])

RestoresReceipt ==
    /\ core.up /\ svc.doing = "restored"
    /\ svc' = [restore_install_receipt(svc) EXCEPT !.doing = "none"]
    /\ UNCHANGED <<core, owner, helper, disk>>

-----------------------------------------------------------------------------
(* The service's calls.                                                        *)

(* enqueue: each command has its own conditions beside busy and blocked.       *)
AcceptsCheck == svc.phase \notin {"downloaded", "installRequested"}
AcceptsDownload == ~svc.staged /\ svc.candidate
AcceptsInstall == svc.staged /\ svc.request = NoJob /\ svc.phase # "installRequested"

enqueue(command) ==
    /\ core.up /\ ~svc.blocked /\ ~svc.busy /\ Len(svc.queue) < MaxQueue
    /\ \/ /\ command = "check" /\ AcceptsCheck
          /\ svc' = [svc EXCEPT !.phase = "checking", !.busy = TRUE, !.error = FALSE,
                                !.queue = Append(@, command)]
       \/ /\ command = "download" /\ AcceptsDownload
          /\ svc' = [svc EXCEPT !.phase = "downloading", !.busy = TRUE, !.error = FALSE,
                                !.queue = Append(@, command)]
       \/ /\ command = "install" /\ AcceptsInstall
          /\ svc' = [svc EXCEPT !.phase = "installRequested", !.busy = TRUE, !.error = FALSE,
                                !.queue = Append(@, command)]
    /\ UNCHANGED <<core, owner, helper, disk>>

configure_checks(automatic) ==
    /\ core.up /\ Len(svc.queue) < MaxQueue /\ automatic # svc.automatic
    /\ svc' = [svc EXCEPT !.automatic = automatic, !.queue = Append(@, "reschedule")]
    /\ UNCHANGED <<core, owner, helper, disk>>

(* install_handoff_failed, from the owner, for the job it was given.           *)
HandoffFailed(s, j) ==
    IF s.job # j THEN s
    ELSE [s EXCEPT !.request = NoJob, !.job = NoJob, !.busy = FALSE, !.phase = "downloaded",
                   !.error = TRUE]

-----------------------------------------------------------------------------
(* The worker thread.                                                          *)

(* reserve_check.                                                              *)
Refused(automatic) ==
    \/ automatic /\ (~svc.automatic \/ svc.busy)
    \/ svc.blocked \/ svc.staged
    \/ svc.phase \in {"downloading", "downloaded", "installRequested"}

Unoccupied == core.up /\ svc.doing = "none"

(* The timer is due while no receipt is watched.                               *)
AutomaticCheck ==
    /\ Unoccupied /\ svc.queue = <<>> /\ svc.job = NoJob /\ svc.timer
    /\ svc' = IF Refused(TRUE) THEN [svc EXCEPT !.timer = svc.automatic]
              ELSE [svc EXCEPT !.busy = TRUE, !.phase = "checking", !.doing = "check"]
    /\ UNCHANGED <<core, owner, helper, disk>>

TakesCommand ==
    /\ Unoccupied /\ svc.queue # <<>>
    /\ LET c == Head(svc.queue)
           s == [svc EXCEPT !.queue = Tail(@)]
       IN  svc' = CASE c = "reschedule" -> [s EXCEPT !.timer = s.automatic]
                    [] c = "check" ->
                         IF Refused(FALSE) THEN [s EXCEPT !.busy = FALSE, !.timer = s.automatic]
                         ELSE [s EXCEPT !.busy = TRUE, !.phase = "checking", !.doing = c]
                    [] OTHER -> [s EXCEPT !.doing = c]
    /\ UNCHANGED <<core, owner, helper, disk>>

(* fail_state.                                                                 *)
FailState(s) == [s EXCEPT !.phase = "failed", !.error = TRUE, !.busy = FALSE, !.doing = "ending"]

(* check: the release of the channel, when it is newer than what runs.         *)
check_release == newer(New, core.version)

(* run_command                                                                 *)
RunsCheck ==
    /\ core.up /\ svc.doing = "check"
    /\ \/ svc' = FailState(svc)
       \/ svc' = [svc EXCEPT !.phase = IF check_release THEN "available" ELSE "upToDate",
                              !.candidate = check_release, !.error = FALSE, !.doing = "ending"]
    /\ UNCHANGED <<core, owner, helper, disk>>

(* stage_archive: a payload is staged whole and verified, or not at all.       *)
stage_archive(d) == [d EXCEPT !.staged = [f \in PayloadFile |-> New]]

(* persist_staged: what a later start restores.                                *)
persist_staged(d) == [d EXCEPT !.saved = TRUE]

RunsDownload ==
    /\ core.up /\ svc.doing = "download"
    /\ \/ svc' = FailState(svc) /\ UNCHANGED disk
       \/ /\ svc.candidate
          /\ \/ /\ disk' = persist_staged(stage_archive(disk))
                /\ svc' = [svc EXCEPT !.staged = TRUE, !.phase = "downloaded", !.error = FALSE,
                                      !.doing = "ending"]
             \/ disk' = stage_archive(disk) /\ svc' = FailState(svc)
    /\ UNCHANGED <<core, owner, helper>>

(* prepare_install_plan: nothing is prepared while the installation is locked, *)
(* changed or unknown, or the staged payload is not what was verified.         *)
CanPrepare ==
    /\ svc.staged /\ disk.lock = NoJob
    /\ Whole(disk.staged, New) /\ Whole(disk.install, Old)

(* The job: a copy of the helper, and a plan naming the process to wait for.   *)
Prepared == [NoHelper EXCEPT !.run = core.run]

NextHelper == {j \in Job : helper[j] = NoHelper /\ \A i \in Job : i < j => helper[i] # NoHelper}

RunsInstall ==
    /\ core.up /\ svc.doing = "install"
    /\ \/ svc' = FailState(svc) /\ UNCHANGED helper
       \/ /\ CanPrepare
          /\ \E j \in NextHelper :
               /\ helper' = [helper EXCEPT ![j] = Prepared]
               /\ svc' = [svc EXCEPT !.job = j, !.request = j, !.phase = "installRequested",
                                     !.error = FALSE, !.doing = "ending"]
    /\ UNCHANGED <<core, owner, disk>>

(* The end of a turn releases the service, after the result was published.     *)
EndsTurn ==
    /\ core.up /\ svc.doing = "ending"
    /\ svc' = [svc EXCEPT !.busy = FALSE, !.timer = svc.automatic, !.doing = "none"]
    /\ UNCHANGED <<core, owner, helper, disk>>

PollsReceipt ==
    /\ Unoccupied /\ svc.job # NoJob /\ svc.queue = <<>> /\ Terminal(svc.job)
    /\ svc' = AfterReceipt(svc)
    /\ UNCHANGED <<core, owner, helper, disk>>

-----------------------------------------------------------------------------
(* The owner and its handoff thread.                                           *)

(* poll takes a request unless a handoff runs or the quit was asked for; with  *)
(* no document that can quit the client, nothing is handed over.               *)
TakesRequest ==
    /\ core.up /\ owner.handoff = "none" /\ ~owner.quit /\ svc.request # NoJob
    /\ LET s == [svc EXCEPT !.request = NoJob]
       IN  \/ svc' = HandoffFailed(s, svc.request) /\ UNCHANGED owner
           \/ /\ svc' = s
              /\ owner' = [owner EXCEPT !.handoff = "spawning", !.job = svc.request]
    /\ UNCHANGED <<core, helper, disk>>

(* A handoff that failed before the acknowledgement was given, or whose helper *)
(* is known to have ended, frees the service; otherwise the receipt decides.   *)
JobFails(retry) ==
    /\ owner' = [owner EXCEPT !.handoff = "failed"]
    /\ svc' = IF retry THEN HandoffFailed(svc, owner.job) ELSE svc

Spawns ==
    /\ core.up /\ owner.handoff = "spawning"
    /\ \/ JobFails(TRUE) /\ UNCHANGED helper
       \/ /\ helper' = [helper EXCEPT ![owner.job].pc = "validating"]
          /\ owner' = [owner EXCEPT !.handoff = "waiting"] /\ UNCHANGED svc
    /\ UNCHANGED <<core, disk>>

(* The ready line is waited for; it may come too late.                         *)
Acknowledges ==
    /\ core.up /\ owner.handoff = "waiting"
    /\ \/ JobFails(TRUE) /\ UNCHANGED disk
       \/ /\ helper[owner.job].pc = "ready"
          /\ disk' = [disk EXCEPT !.ack = @ \cup {owner.job}]
          /\ owner' = [owner EXCEPT !.handoff = "acked"] /\ UNCHANGED svc
    /\ UNCHANGED <<core, helper>>

HelperEnded(j) == helper[j].pc = "gone"

Confirmed ==
    /\ core.up /\ owner.handoff = "acked"
    /\ LET j == owner.job
       IN  \/ HelperEnded(j) /\ JobFails(TRUE)
           \/ disk.receipt[j] = "failed" /\ JobFails(TRUE)
           \/ /\ disk.receipt[j] = "waitingForExit" /\ ~HelperEnded(j)
              /\ owner' = [owner EXCEPT !.handoff = "done"] /\ UNCHANGED svc
           \/ JobFails(FALSE)
    /\ UNCHANGED <<core, helper, disk>>

(* poll: a confirmed handoff asks the client to quit; a failure that is        *)
(* confirmed later gives management back.                                      *)
OwnerPolls ==
    /\ core.up
    /\ \/ /\ owner.handoff \in {"done", "failed"}
          /\ owner' = [NoOwnerState EXCEPT !.quit = owner.handoff = "done"]
       \/ /\ owner.quit /\ svc.error /\ svc.phase \in {"downloaded", "failed"}
          /\ owner' = NoOwnerState
    /\ UNCHANGED <<core, svc, helper, disk>>

-----------------------------------------------------------------------------
(* The helper.                                                                 *)

(* persist: the receipt of the job, then the summary that names the job.       *)
Persist(d, j, phase, clean) ==
    [d EXCEPT !.receipt[j] = phase, !.clean[j] = clean, !.summary = j]

Clean(h) == h.old = {} /\ h.new = {}

Goes(j, pc) == helper' = [helper EXCEPT ![j].pc = pc]

(* The end of runInstall: the terminal phase is saved, unless that fails too,  *)
(* and the lock is released when the installation is in order.                 *)
Ending(j, phase) == helper' = [helper EXCEPT ![j].pc = "final", ![j].end = phase]

SafeWithBlocked == {"installed", "rolledBack", "oldRuntimeRestarted", "failed", "rollbackBlocked"}

Safe == {"installed", "rolledBack", "oldRuntimeRestarted", "failed"}

ReleasesLock(j) ==
    /\ helper[j].pc = "final"
    /\ LET h == helper[j]
           d == IF h.end \in Safe /\ disk.lock = j THEN [disk EXCEPT !.lock = NoJob] ELSE disk
       IN  disk' \in {d, Persist(d, j, h.end, Clean(h))}
    /\ Goes(j, "gone")
    /\ UNCHANGED <<core, svc, owner>>

(* A plan that is not valid any more ends the helper without a receipt; the    *)
(* lock and the checks of both payloads come before it says ready.             *)
Validates(j) ==
    /\ helper[j].pc = "validating"
    /\ \/ Goes(j, "gone") /\ UNCHANGED disk
       \/ disk.lock # NoJob /\ Ending(j, "failed") /\ UNCHANGED disk
       \/ /\ disk.lock = NoJob
          /\ disk' = [disk EXCEPT !.lock = j]
          /\ Ending(j, "failed")
       \/ /\ disk.lock = NoJob /\ Whole(disk.install, Old) /\ Whole(disk.staged, New)
          /\ LET d == [disk EXCEPT !.lock = j]
             IN  \/ disk' = Persist(d, j, "ready", TRUE) /\ Goes(j, "ready")
                 \/ disk' = [d EXCEPT !.receipt[j] = "ready"] /\ Goes(j, "gone")
    /\ UNCHANGED <<core, svc, owner>>

Arms(j) ==
    /\ helper[j].pc = "ready"
    /\ \/ /\ j \in disk.ack
          /\ disk' = Persist(disk, j, "waitingForExit", TRUE) /\ Goes(j, "waiting")
       \/ Ending(j, "failed") /\ UNCHANGED disk
    /\ UNCHANGED <<core, svc, owner>>

(* ownersAlive asks for the very process the plan names.                       *)
OwnerAlive(j) == core.up /\ core.run = helper[j].run

SeesExit(j) ==
    /\ helper[j].pc = "waiting"
    /\ \/ Ending(j, "failed") /\ UNCHANGED disk
       \/ /\ ~OwnerAlive(j)
          /\ IF Whole(disk.install, Old) /\ Whole(disk.staged, New)
               THEN /\ disk' = Persist([disk EXCEPT !.backup = [f \in PayloadFile |-> 0]],
                                       j, "replacing", TRUE)
                    /\ Goes(j, "moveOld")
               ELSE Goes(j, "restartOld") /\ UNCHANGED disk
    /\ UNCHANGED <<core, svc, owner>>

(* The next file of a list that has not been moved.                            *)
NextOf(moved) ==
    LET left == {i \in DOMAIN FileOrder : FileOrder[i] \notin moved}
    IN  FileOrder[CHOOSE i \in left : \A k \in left : i <= k]

LastOf(moved) ==
    LET has == {i \in DOMAIN FileOrder : FileOrder[i] \in moved}
    IN  FileOrder[CHOOSE i \in has : \A k \in has : i >= k]

(* A rename and its record.  Either can fail, which starts the rollback, or    *)
(* the helper dies between the two.                                            *)
MovesOld(j) ==
    LET h == helper[j]
        f == NextOf(h.old)
        d == [disk EXCEPT !.install[f] = 0, !.backup[f] = disk.install[f]]
        g == [h EXCEPT !.old = @ \cup {f}]
    IN  /\ h.pc = "moveOld" /\ h.old # PayloadFile
        /\ \/ /\ disk' = Persist(d, j, "replacing", FALSE)
              /\ helper' = [helper EXCEPT ![j] = g]
           \/ disk' = d /\ helper' = [helper EXCEPT ![j] = [g EXCEPT !.pc = "rollback"]]
           \/ disk' = d /\ helper' = [helper EXCEPT ![j] = [g EXCEPT !.pc = "gone"]]
           \/ Goes(j, IF h.old = {} THEN "restartOld" ELSE "rollback") /\ UNCHANGED disk
        /\ UNCHANGED <<core, svc, owner>>

MovesNew(j) ==
    LET h == helper[j]
        f == NextOf(h.new)
        d == [disk EXCEPT !.staged[f] = 0, !.install[f] = disk.staged[f]]
        g == [h EXCEPT !.new = @ \cup {f}, !.pc = "moveNew"]
    IN  /\ h.pc \in {"moveOld", "moveNew"} /\ h.old = PayloadFile /\ h.new # PayloadFile
        /\ \/ /\ disk.install[f] = 0
              /\ \/ disk' = Persist(d, j, "replacing", FALSE) /\ helper' = [helper EXCEPT ![j] = g]
                 \/ disk' = d /\ helper' = [helper EXCEPT ![j] = [g EXCEPT !.pc = "rollback"]]
                 \/ disk' = d /\ helper' = [helper EXCEPT ![j] = [g EXCEPT !.pc = "gone"]]
           \/ Goes(j, "rollback") /\ UNCHANGED disk
        /\ UNCHANGED <<core, svc, owner>>

(* restart: the launcher reports ready (0), failed with everything stopped     *)
(* (1), or that it does not know (42).                                         *)
Replaced(j) == helper[j].pc = "moveNew" /\ helper[j].new = PayloadFile

BeginsRestart(j) ==
    /\ Replaced(j)
    /\ \/ disk' = Persist(disk, j, "restarting", FALSE) /\ Goes(j, "restarting")
       \/ Goes(j, "rollback") /\ UNCHANGED disk
    /\ UNCHANGED <<core, svc, owner>>

HelperStarts(j) ==
    /\ helper[j].pc \in {"restarting", "restartOld"} /\ StartsJob
    /\ Goes(j, IF helper[j].pc = "restarting" THEN "started" ELSE "startedOld")
    /\ UNCHANGED disk

Restarted(j) ==
    /\ helper[j].pc \in {"restarting", "started"}
    /\ \/ helper[j].pc = "started" /\ Ending(j, "installed")
       \/ Ending(j, "rollbackBlocked")
       \/ ~core.up /\ Goes(j, "rollback")
    /\ UNCHANGED <<core, svc, owner, disk>>

(* rollback: everything is verified before the first file is moved back, and   *)
(* it stops where something is not what it should be.                          *)
RollbackVerified(h) ==
    /\ \A f \in h.new : disk.install[f] = New
    /\ \A f \in h.old : disk.backup[f] = Old

RollsBack(j) ==
    LET h == helper[j]
        f == LastOf(h.new)
        g == LastOf(h.old)
    IN  /\ h.pc = "rollback"
        /\ \/ Ending(j, "rollbackBlocked") /\ UNCHANGED disk
           \/ /\ RollbackVerified(h) /\ h.new # {} /\ disk.staged[f] = 0
              /\ disk' = Persist([disk EXCEPT !.install[f] = 0, !.staged[f] = disk.install[f]],
                                 j, "rollingBack", FALSE)
              /\ helper' = [helper EXCEPT ![j].new = @ \ {f}]
           \/ /\ RollbackVerified(h) /\ h.new = {} /\ h.old # {} /\ disk.install[g] = 0
              /\ disk' = Persist([disk EXCEPT !.backup[g] = 0, !.install[g] = disk.backup[g]],
                                 j, "rollingBack", h.old = {g})
              /\ helper' = [helper EXCEPT ![j].old = @ \ {g}]
           \/ /\ Clean(h) /\ Whole(disk.install, Old)
              /\ Goes(j, "restartOld") /\ UNCHANGED disk
        /\ UNCHANGED <<core, svc, owner>>

(* The old version is started again, after a rollback or because nothing was   *)
(* moved yet; the receipt says which.                                          *)
RestartedOld(j) ==
    /\ helper[j].pc \in {"restartOld", "startedOld"}
    /\ LET good == IF disk.receipt[j] = "rollingBack" THEN "rolledBack" ELSE "oldRuntimeRestarted"
       IN  \/ helper[j].pc = "startedOld" /\ Ending(j, good)
           \/ Ending(j, "rollbackBlocked")
           \/ ~core.up /\ Ending(j, "rollbackRestartFailed")
    /\ UNCHANGED <<core, svc, owner, disk>>

HelperDies(j) ==
    /\ helper[j].pc \notin {"none", "gone"}
    /\ Goes(j, "gone")
    /\ UNCHANGED <<core, svc, owner, disk>>

(* Somebody else writes over a file of the installation.                       *)
SomeoneEdits ==
    /\ \A f \in PayloadFile : disk.install[f] # Edited
    /\ \E f \in PayloadFile : disk' = [disk EXCEPT !.install[f] = Edited]
    /\ UNCHANGED <<core, svc, owner, helper>>

UpdCore ==
    \/ UserStarts \/ CoreEnds \/ RestoresStage \/ RestoresReceipt
    \/ \E c \in JobCommand : enqueue(c)
    \/ \E a \in BOOLEAN : configure_checks(a)
    \/ AutomaticCheck \/ TakesCommand \/ RunsCheck \/ RunsDownload \/ RunsInstall
    \/ EndsTurn \/ PollsReceipt
    \/ TakesRequest \/ Spawns \/ Acknowledges \/ Confirmed \/ OwnerPolls

UpdHelper ==
    \E j \in Job :
      \/ Validates(j) \/ Arms(j) \/ SeesExit(j) \/ MovesOld(j) \/ MovesNew(j)
      \/ BeginsRestart(j) \/ HelperStarts(j) \/ Restarted(j)
      \/ RollsBack(j) \/ RestartedOld(j) \/ ReleasesLock(j) \/ HelperDies(j)

UpdNext == UpdCore \/ UpdHelper \/ SomeoneEdits

UpdSpec == UpdInit /\ [][UpdNext]_updVars

-----------------------------------------------------------------------------
UpdTypeOK ==
    /\ svc \in ServiceState /\ owner \in [handoff : Handoff, job : 0..MaxJobs, quit : BOOLEAN]
    /\ \A j \in Job : helper[j].pc \in Pc /\ disk.receipt[j] \in ReceiptPhase
    /\ \A f \in PayloadFile : {disk.install[f], disk.staged[f], disk.backup[f]} \subseteq Bytes
    /\ Len(svc.queue) <= MaxQueue

(* A helper that was told to, or may still be told to, change files.           *)
Armed(j) == helper[j].pc \in {"ready", "waiting", "moveOld", "moveNew", "restarting", "started",
                              "rollback", "restartOld", "startedOld"}

(* An installation that is neither the old nor the new one is locked; only the *)
(* holder of the lock changes files; and nothing of either version is lost     *)
(* while a helper works, unless somebody wrote over it.                        *)
ExchangeIsGuarded ==
    /\ \A j \in Job : Armed(j) => disk.lock = j
    /\ disk.lock = NoJob =>
         \/ \A f \in PayloadFile : disk.install[f] \in {Old, Edited}
         \/ \A f \in PayloadFile : disk.install[f] \in {New, Edited}
    /\ \A j \in Job : Armed(j) => \A f \in PayloadFile :
         \/ Old \in {disk.install[f], disk.backup[f]}
         \/ Edited \in {disk.install[f], disk.backup[f]}

(* What the receipt of the last job that was acknowledged says is so: with     *)
(* installed every file is new, and one that permits a retry left every file   *)
(* old, but for what somebody wrote over.                                      *)
LastAcknowledged(j) == j \in disk.ack /\ \A i \in disk.ack : i <= j

ReceiptsAreTrue ==
    \A j \in Job : LastAcknowledged(j) =>
      /\ disk.receipt[j] = "installed" =>
           \A f \in PayloadFile : disk.install[f] \in {New, Edited}
      /\ disk.receipt[j] \in {"failed", "rolledBack", "oldRuntimeRestarted"} =>
           disk.clean[j] /\ \A f \in PayloadFile : disk.install[f] \in {Old, Edited}

(* A manual command in the queue keeps the service busy.                       *)
QueuedIsBusy ==
    core.up /\ (\E i \in DOMAIN svc.queue : svc.queue[i] # "reschedule") => svc.busy

RuntimeUpdateSound == UpdTypeOK /\ ExchangeIsGuarded /\ ReceiptsAreTrue
=============================================================================
