---------------------------- MODULE ManagedInstall ----------------------------
(* The package of one managed plugin: staged registration, the file           *)
(* replacement with its journal, activation, commit or rollback, and the      *)
(* recovery every start makes (src/managed_storage.rs, managed_plugins.rs,    *)
(* host_control/registration.rs, host_control/package.rs, plugin_cli.rs).     *)
(* Every change of the disk is a step of its own: the process may crash       *)
(* before each, also in the middle of the removal of a directory, another     *)
(* writer may edit the registry between any two, and any of them may fail.    *)
EXTENDS Integers, FiniteSets

CONSTANTS
    MaxTxn,            \* bound: packages that are downloaded and selected
    MaxTrouble,        \* bound: edits of the registration by another writer and
                       \* disk operations that fail, together
    MaxCrashes         \* bound: crashes

ASSUME BoundsAreNat == {MaxTxn, MaxTrouble, MaxCrashes} \subseteq Nat

VARIABLES
    dir,               \* what each directory holds: a version, nothing, a torn tree
    reg,               \* the plugin in the registry file
    checkpoint,        \* <id>.pending
    journal,           \* <id>.json
    mode,              \* the runtime: "down", "boot" or "up"
    pc, job,           \* the step that comes next, and what it has in memory
    decided,           \* history: the version whose journal was committed last
    upset,             \* history: a step failed and left its recovery record behind
    used               \* how much of each bound is used up

disk == <<dir, reg, checkpoint, journal>>
ivars == <<disk, mode, pc, job, decided, upset, used>>

NoRecord == [kind |-> "none"]
NoDir == -1
Torn == -2
NoVer == -1            \* managed_plugins has no record

(* Versions: 0 is installed at first, transaction t brings version t.         *)
Txn == 0 .. MaxTxn
NoPath == <<"none", 0>>
Target == <<"target", 0>>
Fixed == {Target, <<"legacy", 0>>, <<"seed", 0>>}

(* Temporary names are never reused: a transaction has its own, and so has a  *)
(* migration; one that leaves something behind was cut short by a bounded     *)
(* event, so this many are enough.                                            *)
MaxMoves == 1 + MaxTrouble + MaxCrashes
Temp == {"staged", "ready", "backup"} \X (1 .. MaxTxn + MaxMoves)
Path == Fixed \cup Temp

(* local_plugins, managed_plugins and plugins of the registry.  grants counts *)
(* the permissions revoked so far.                                            *)
Registration ==
    [path : Path \cup {NoPath}, grants : 0 .. MaxTrouble, ver : Txn \cup {NoVer},
     hist : SUBSET Path, on : BOOLEAN]

Unregistered == [path |-> NoPath, grants |-> 0, ver |-> NoVer, hist |-> {}, on |-> TRUE]

(* Nothing, the ID directory, a directory of the older layout, an installer   *)
(* seed without a record.                                                     *)
Installed(p, v, h) == [path |-> p, grants |-> 0, ver |-> v, hist |-> h, on |-> TRUE]
FirstRegistration ==
    {Unregistered, Installed(Target, 0, {Target}),
     Installed(<<"legacy", 0>>, 0, {<<"legacy", 0>>}), Installed(<<"seed", 0>>, NoVer, {})}

Content(r) == IF r.ver = NoVer THEN 0 ELSE r.ver

(* Mutant: the permissions are not compared.                                  *)
SameSource(a, b) == [a EXCEPT !.on = b.on, !.grants = b.grants] = b

(* What PluginRegistry::save compares before it writes: the registration and  *)
(* the provenance, never the preference.                                      *)
SameTrust(a, b) == [a EXCEPT !.on = b.on] = b

Idle == [flow |-> "none", enable |-> FALSE, t |-> 0, v |-> 0, prev |-> Unregistered,
         cand |-> Unregistered, base |-> Unregistered, seen |-> Unregistered,
         held |-> FALSE, again |-> FALSE, deferred |-> FALSE]

InstallInit ==
    /\ reg \in FirstRegistration
    /\ dir = [p \in Path |-> IF p = reg.path THEN 0 ELSE NoDir]
    /\ checkpoint = NoRecord /\ journal = NoRecord
    /\ mode = "down" /\ pc = "idle" /\ job = Idle
    /\ decided = reg.ver /\ upset = FALSE
    /\ used = [edits |-> 0, faults |-> 0, crashes |-> 0, txns |-> 0, moves |-> 0]

(* A disk operation fails.                                                    *)
Quiet == used.edits + used.faults < MaxTrouble
Fault == Quiet /\ used' = [used EXCEPT !.faults = @ + 1]

Goto(p) == pc' = p /\ UNCHANGED job
Finish == pc' = "idle" /\ job' = Idle

-----------------------------------------------------------------------------
(* Selecting a package: managed_plugins::stage on a fresh preview.            *)

Begin(flow, enable) ==
    LET t == used.txns + 1
        staged == <<"staged", t>>
        cand == [path |-> staged, grants |-> reg.grants, ver |-> t,
                 hist |-> reg.hist \cup {staged}, on |-> FALSE]
    IN /\ pc = "idle" /\ used.txns < MaxTxn
       /\ mode = IF flow = "online" THEN "up" ELSE "down"
       /\ reg.path # NoPath /\ reg.ver = NoVer => dir[reg.path] = 0
       /\ dir' = [dir EXCEPT ![staged] = t]
       /\ job' = [Idle EXCEPT !.flow = flow, !.enable = enable, !.t = t, !.v = t,
                              !.prev = reg, !.cand = cand, !.base = reg]
       /\ pc' = IF flow = "online" THEN "checkpoint" ELSE "publish"
       /\ used' = [used EXCEPT !.txns = t]
       /\ UNCHANGED <<reg, checkpoint, journal, mode, decided, upset>>

Refused == journal # NoRecord \/ checkpoint # NoRecord

CheckpointRegistration ==
    /\ pc = "checkpoint"
    /\ \/ /\ ~Refused /\ Goto("stage") /\ UNCHANGED used
          /\ checkpoint' = [kind |-> "pending", candidate |-> job.cand, previous |-> job.prev]
       \/ Refused /\ Finish /\ UNCHANGED <<checkpoint, used>>
       \/ Fault /\ Finish /\ UNCHANGED checkpoint
    /\ UNCHANGED <<dir, reg, journal, mode, decided, upset>>

(* candidate.save(); a refusal leaves the checkpoint.                         *)
SaveCandidate ==
    /\ pc = "stage"
    /\ \/ /\ SameTrust(reg, job.base)
          /\ reg' = job.cand
          /\ pc' = "prepare" /\ job' = [job EXCEPT !.base = job.cand]
          /\ UNCHANGED used
       \/ ~SameTrust(reg, job.base) /\ Finish /\ UNCHANGED <<reg, used>>
       \/ Fault /\ Finish /\ UNCHANGED reg
    /\ UNCHANGED <<dir, checkpoint, journal, mode, decided, upset>>

(* prepare_package: a package that stays off persists the disabled closure, a *)
(* starting one verifies its registration; either may be refused otherwise.   *)
PreparePackage ==
    /\ pc = "prepare"
    /\ \/ /\ SameTrust(reg, job.base)
          /\ reg' = IF job.enable THEN reg ELSE [reg EXCEPT !.on = FALSE]
          /\ pc' = "retire" /\ job' = [job EXCEPT !.base = reg', !.cand = reg']
       \/ pc' = "restore" /\ UNCHANGED <<reg, job>>
    /\ UNCHANGED <<dir, checkpoint, journal, mode, decided, upset, used>>

(* The old code has stopped, or it has not or failed doing so.                *)
RetirePrevious ==
    /\ pc = "retire"
    /\ \/ /\ job.enable => SameTrust(reg, job.base)
          /\ pc' = "publish"
          /\ job' = IF job.enable THEN [job EXCEPT !.base = reg, !.cand = reg] ELSE job
       \/ Goto("restore")
    /\ UNCHANGED <<disk, mode, decided, upset, used>>

-----------------------------------------------------------------------------
(* Installation::publish                                                      *)

PublishFailed ==
    \/ job.flow = "online" /\ Goto("restore")
    \/ job.flow = "offline" /\ Finish
    \/ job.flow = "migrate" /\ Goto("booted")

Publishable ==
    /\ journal = NoRecord
    /\ dir[job.cand.path] = job.v
    /\ dir[Target] # NoDir =>
          /\ job.prev.path = Target
          /\ job.prev.ver # NoVer => dir[Target] = job.prev.ver

(* Checks and clone_prepared_package; nothing refers to the clone yet.        *)
ClonePackage ==
    /\ pc = "publish"
    /\ \/ /\ Publishable
          /\ dir' = [dir EXCEPT ![<<"ready", job.t>>] = job.v]
          /\ Goto("journal") /\ UNCHANGED used
       \/ ~Publishable /\ PublishFailed /\ UNCHANGED <<dir, used>>
       \/ Fault /\ PublishFailed /\ UNCHANGED dir
    /\ UNCHANGED <<reg, checkpoint, journal, mode, decided, upset>>

Allowed == {job.cand, job.prev}

WriteJournal ==
    /\ pc = "journal"
    /\ \/ /\ journal' = [kind |-> "journal", t |-> job.t, v |-> job.v, staged |-> job.cand.path,
                         prev |-> job.prev, backup |-> dir[Target] # NoDir,
                         allowed |-> Allowed, committed |-> FALSE]
          /\ Goto("clear") /\ UNCHANGED used
       \/ Fault /\ PublishFailed /\ UNCHANGED journal
    /\ UNCHANGED <<dir, reg, checkpoint, mode, decided, upset>>

(* clear_registration_checkpoint(candidate): an error leaves the journal.     *)
Retires(r) == checkpoint # NoRecord => r \in {checkpoint.candidate, checkpoint.previous}

ClearCheckpoint ==
    /\ pc = "clear"
    /\ \/ Retires(job.cand) /\ checkpoint' = NoRecord /\ Goto("out") /\ UNCHANGED <<upset, used>>
       \/ ~Retires(job.cand) /\ PublishFailed /\ UNCHANGED <<checkpoint, upset, used>>
       \/ Fault /\ PublishFailed /\ upset' = TRUE /\ UNCHANGED checkpoint
    /\ UNCHANGED <<dir, reg, journal, mode, decided>>

(* The two renames.                                                           *)
Move(from, to) == dir' = [dir EXCEPT ![to] = dir[from], ![from] = NoDir]

(* Mutant: the new package is moved over the old one.                         *)
SwapInPlace ==
    /\ \/ pc = "out" /\ Goto("in") /\ UNCHANGED <<dir, used>>
       \/ /\ pc = "in" /\ Goto("widen") /\ UNCHANGED used
          /\ Move(<<"ready", journal.t>>, Target)
       \/ pc \in {"out", "in"} /\ Fault /\ Goto("undo") /\ UNCHANGED dir
    /\ UNCHANGED <<reg, checkpoint, journal, mode, decided, upset>>

SwapPackages ==
    /\ \/ /\ pc = "out" /\ Goto("in") /\ UNCHANGED used
          /\ IF journal.backup THEN Move(Target, <<"backup", journal.t>>) ELSE UNCHANGED dir
       \/ /\ pc = "in" /\ Goto("widen") /\ UNCHANGED used
          /\ Move(<<"ready", journal.t>>, Target)
       \/ pc \in {"out", "in"} /\ Fault /\ Goto("undo") /\ UNCHANGED dir
    /\ UNCHANGED <<reg, checkpoint, journal, mode, decided, upset>>

(* registration_at_path, and the journal learns the registrations to come.    *)
AtTarget(r) == [r EXCEPT !.path = Target, !.hist = {Target}]

WidenJournal ==
    /\ pc = "widen"
    /\ \/ /\ journal' = [journal EXCEPT !.allowed = @ \cup {AtTarget(job.cand)} \cup
                            (IF job.enable THEN {[AtTarget(job.cand) EXCEPT !.on = TRUE]} ELSE {})]
          /\ Goto("register") /\ UNCHANGED used
       \/ Fault /\ Goto("undo") /\ UNCHANGED journal
    /\ UNCHANGED <<dir, reg, checkpoint, mode, decided, upset>>

(* next.save(): only an offline selection still carries its staged preference. *)
SaveNext ==
    /\ pc = "register"
    /\ \/ /\ SameTrust(reg, job.base)
          /\ reg' = [AtTarget(job.cand) EXCEPT !.on = IF job.flow = "offline" THEN FALSE ELSE reg.on]
          /\ job' = [job EXCEPT !.base = reg', !.held = TRUE]
          /\ pc' = IF job.flow = "migrate" THEN "commit" ELSE "activate"
          /\ UNCHANGED used
       \/ ~SameTrust(reg, job.base) /\ Goto("undo") /\ UNCHANGED <<reg, used>>
       \/ Fault /\ Goto("undo") /\ UNCHANGED reg
    /\ UNCHANGED <<dir, checkpoint, journal, mode, decided, upset>>

(* The new code starts and the preference is saved, or it does not and the    *)
(* installation is undone.  Offline only the preference is saved.             *)
Activate ==
    /\ pc = "activate"
    /\ \/ /\ job.flow = "online" /\ job.enable => SameTrust(reg, job.base)
          /\ reg' = [reg EXCEPT !.on = IF job.flow = "online" /\ ~job.enable THEN @ ELSE job.enable]
          /\ Goto("commit") /\ UNCHANGED used
       \/ job.flow = "online" /\ Goto("undo") /\ UNCHANGED <<reg, used>>
       \/ Fault /\ Goto("undo") /\ UNCHANGED reg
    /\ UNCHANGED <<dir, checkpoint, journal, mode, decided, upset>>

-----------------------------------------------------------------------------
(* Removing directories: clean_paths, cleanup_adopted_source.                 *)

Obsolete ==
    ({journal.staged, <<"ready", journal.t>>} \cup
     (IF ~journal.committed THEN {}
      ELSE {<<"backup", journal.t>>} \cup journal.prev.hist \cup
           (IF journal.prev.ver = NoVer THEN {journal.prev.path} ELSE {})))
    \ {Target, NoPath}

ToClean == {p \in Obsolete : dir[p] # NoDir /\ p # reg.path}

(* remove_prepared_package: only an intact directory passes its inspection,   *)
(* and a removal that fails may have removed a part.                          *)
RemoveCopy(p) == dir' = [dir EXCEPT ![p] = NoDir]
RemovalFails(p, sound) ==
    /\ upset' = TRUE
    /\ \/ ~sound /\ UNCHANGED <<dir, used>>
       \/ sound /\ Fault /\ dir' \in {dir, [dir EXCEPT ![p] = Torn]}

Whole(p) == dir[p] # Torn

-----------------------------------------------------------------------------
(* Installation::commit, clean_obsolete                                       *)

CommitFailed ==
    \/ job.flow \in {"online", "offline"} /\ Finish
    \/ job.flow = "migrate" /\ Goto("booted")
    \/ job.flow = "boot" /\ pc' = "load" /\ job' = [job EXCEPT !.deferred = TRUE]

Commit ==
    /\ pc = "commit"
    /\ \/ /\ reg \in journal.allowed
          /\ journal' = [journal EXCEPT !.committed = TRUE]
          /\ decided' = job.v
          /\ Goto("clean") /\ UNCHANGED <<upset, used>>
       \/ reg \notin journal.allowed /\ CommitFailed /\ UNCHANGED <<journal, decided, upset, used>>
       \/ Fault /\ CommitFailed /\ upset' = TRUE /\ UNCHANGED <<journal, decided>>
    /\ UNCHANGED <<dir, reg, checkpoint, mode>>

CleanObsolete ==
    /\ pc = "clean"
    /\ \/ \E p \in ToClean : Whole(p) /\ RemoveCopy(p) /\ Goto("clean") /\ UNCHANGED <<upset, used>>
       \/ \E p \in ToClean : RemovalFails(p, Whole(p)) /\ CommitFailed
       \/ ToClean = {} /\ Goto("settle") /\ UNCHANGED <<dir, upset, used>>
    /\ UNCHANGED <<reg, checkpoint, journal, mode, decided>>

(* The journal goes; a start that cannot remove it fails.                     *)
Settle ==
    /\ pc = "settle"
    /\ \/ /\ journal' = NoRecord /\ UNCHANGED <<mode, upset, used>>
          /\ decided' = IF job.flow \in {"online", "offline"} THEN job.v ELSE decided
          /\ \/ job.flow \in {"online", "offline"} /\ Finish
             \/ job.flow = "migrate" /\ Goto("booted")
             \/ job.flow = "boot" /\ decided' = decided /\ Goto("load")
       \/ /\ Fault /\ upset' = TRUE /\ UNCHANGED <<journal, decided>>
          /\ \/ job.flow # "boot" /\ CommitFailed /\ UNCHANGED mode
             \/ job.flow = "boot" /\ Finish /\ mode' = "down"
    /\ UNCHANGED <<dir, reg, checkpoint>>

-----------------------------------------------------------------------------
(* Installation::rollback                                                     *)

(* The package the previous registration names is intact at p.                *)
Restorable(p) == dir[p] = Content(journal.prev)
HasBackup == journal.backup /\ dir[<<"backup", journal.t>>] # NoDir

(* The first error of a job that holds its installation is followed, in most  *)
(* paths, by a second attempt in finish().                                    *)
UndoFailed ==
    \/ /\ job.flow = "online" /\ job.held /\ ~job.again
       /\ pc' = "undo" /\ job' = [job EXCEPT !.again = TRUE]
    \/ job.flow = "online" /\ job.held /\ Finish
    \/ job.flow = "online" /\ ~job.held /\ Goto("restore")
    \/ job.flow = "offline" /\ Finish
    \/ job.flow = "migrate" /\ Goto("booted")
    \/ job.flow = "boot" /\ pc' = "load" /\ job' = [job EXCEPT !.deferred = TRUE]

CheckRollback ==
    LET sound == /\ reg \in journal.allowed
                 /\ IF HasBackup THEN Restorable(<<"backup", journal.t>>)
                    ELSE journal.prev.path # NoPath => Restorable(journal.prev.path)
    IN /\ pc = "undo"
       /\ \/ sound /\ pc' = "undoRemove" /\ job' = [job EXCEPT !.seen = reg]
          \/ ~sound /\ UndoFailed
       /\ UNCHANGED <<disk, mode, decided, upset, used>>

Replaced == dir[Target] # NoDir /\ (HasBackup \/ journal.prev.path # Target)
IsCandidate == dir[Target] = journal.v

RemoveCandidate ==
    /\ pc = "undoRemove"
    /\ \/ /\ Replaced /\ IsCandidate /\ RemoveCopy(Target)
          /\ Goto("undoMove") /\ UNCHANGED <<upset, used>>
       \/ ~Replaced /\ Goto("undoMove") /\ UNCHANGED <<dir, upset, used>>
       \/ Replaced /\ RemovalFails(Target, IsCandidate) /\ UndoFailed
    /\ UNCHANGED <<reg, checkpoint, journal, mode, decided>>

MoveBack ==
    /\ pc = "undoMove"
    /\ \/ /\ IF HasBackup THEN Move(<<"backup", journal.t>>, Target) ELSE UNCHANGED dir
          /\ Goto("undoSave") /\ UNCHANGED <<upset, used>>
       \/ Fault /\ UndoFailed /\ upset' = TRUE /\ UNCHANGED dir
    /\ UNCHANGED <<reg, checkpoint, journal, mode, decided>>

SavePrevious ==
    /\ pc = "undoSave"
    /\ \/ /\ SameTrust(reg, job.seen)
          /\ reg' = journal.prev
          /\ Goto("undoClean") /\ UNCHANGED <<upset, used>>
       \/ ~SameTrust(reg, job.seen) /\ UndoFailed /\ UNCHANGED <<reg, upset, used>>
       \/ Fault /\ UndoFailed /\ upset' = TRUE /\ UNCHANGED reg
    /\ UNCHANGED <<dir, checkpoint, journal, mode, decided>>

(* clean_paths of the clone and the download, then the journal.               *)
CleanRollback ==
    /\ pc = "undoClean"
    /\ \/ /\ \E p \in ToClean : Whole(p) /\ RemoveCopy(p)
          /\ Goto("undoClean") /\ UNCHANGED <<journal, upset, used>>
       \/ /\ \E p \in ToClean : RemovalFails(p, Whole(p))
          /\ UndoFailed /\ UNCHANGED journal
       \/ /\ ToClean = {} /\ journal' = NoRecord /\ UNCHANGED <<dir, upset, used>>
          /\ \/ job.flow = "online" /\ Goto(IF job.held THEN "degrade" ELSE "restore")
             \/ job.flow = "offline" /\ Finish
             \/ job.flow = "migrate" /\ Goto("booted")
             \/ job.flow = "boot" /\ Goto("load")
       \/ /\ ToClean = {} /\ Fault /\ UndoFailed
          /\ upset' = TRUE /\ UNCHANGED <<dir, journal>>
    /\ UNCHANGED <<reg, checkpoint, mode, decided>>

-----------------------------------------------------------------------------
(* managed_plugins::restore_previous, while no installation is held.          *)

RestoreFailed ==
    \/ ~job.again /\ pc' = "restore" /\ job' = [job EXCEPT !.again = TRUE]
    \/ Finish

LoadForRestore ==
    /\ pc = "restore"
    /\ \/ reg = job.prev /\ Goto("unpend")
       \/ reg # job.prev /\ reg = job.base /\ pc' = "restoreSave" /\ job' = [job EXCEPT !.seen = reg]
       \/ reg # job.prev /\ reg # job.base /\ RestoreFailed
    /\ UNCHANGED <<disk, mode, decided, upset, used>>

(* Mutant: the candidate stays registered.                                    *)
CandidateStays ==
    /\ pc = "restoreSave" /\ Goto("unpend")
    /\ UNCHANGED <<disk, mode, decided, upset, used>>

RestoreRegistration ==
    /\ pc = "restoreSave"
    /\ \/ SameTrust(reg, job.seen) /\ reg' = job.prev /\ Goto("unpend") /\ UNCHANGED <<upset, used>>
       \/ ~SameTrust(reg, job.seen) /\ RestoreFailed /\ UNCHANGED <<reg, upset, used>>
       \/ Fault /\ RestoreFailed /\ upset' = TRUE /\ UNCHANGED reg
    /\ UNCHANGED <<dir, checkpoint, journal, mode, decided>>

(* A checkpoint that is there is the one of this job: it names job.prev.      *)
RetireCheckpoint ==
    /\ pc = "unpend"
    /\ \/ Retires(job.prev) /\ checkpoint' = NoRecord /\ Goto("degrade") /\ UNCHANGED <<upset, used>>
       \/ Fault /\ RestoreFailed /\ upset' = TRUE /\ UNCHANGED checkpoint
    /\ UNCHANGED <<dir, reg, journal, mode, decided>>

(* The old code runs again, or the operation is degraded and its closure is   *)
(* disabled.                                                                  *)
Degrade ==
    /\ pc = "degrade" /\ Finish
    /\ reg' \in {reg, [reg EXCEPT !.on = FALSE]}
    /\ UNCHANGED <<dir, checkpoint, journal, mode, decided, upset, used>>

-----------------------------------------------------------------------------
(* prepare_installations, before any plugin is loaded.                        *)

Start ==
    /\ mode = "down" /\ pc = "idle"
    /\ mode' = "boot" /\ job' = [Idle EXCEPT !.flow = "boot"]
    /\ pc' = CASE journal = NoRecord -> "load" [] journal # NoRecord -> IF journal.committed THEN "clean" ELSE "undo"
    /\ UNCHANGED <<disk, decided, upset, used>>

LoadForCheckpoint ==
    /\ pc = "load"
    /\ pc' = "pending" /\ job' = [job EXCEPT !.seen = reg]
    /\ UNCHANGED <<disk, mode, decided, upset, used>>

(* An error of the registration or of the file ends the start.                *)
BootFails == Finish /\ mode' = "down" /\ upset' = TRUE

RecoverCheckpoint ==
    /\ pc = "pending"
    /\ \/ /\ checkpoint = NoRecord \/ job.deferred
          /\ Goto("migrate") /\ UNCHANGED <<reg, mode, upset, used>>
       \/ /\ checkpoint # NoRecord /\ ~job.deferred /\ job.seen = checkpoint.candidate
          /\ SameTrust(reg, job.seen)
          /\ reg' = checkpoint.previous
          /\ Goto("forget") /\ UNCHANGED <<mode, upset, used>>
       \/ /\ checkpoint # NoRecord /\ ~job.deferred /\ job.seen = checkpoint.candidate
          /\ ~SameTrust(reg, job.seen)
          /\ BootFails /\ UNCHANGED <<reg, used>>
       \/ /\ checkpoint # NoRecord /\ ~job.deferred
          /\ job.seen \notin {checkpoint.candidate, checkpoint.previous}
          /\ pc' = "migrate" /\ job' = [job EXCEPT !.deferred = TRUE]
          /\ UNCHANGED <<reg, mode, upset, used>>
       \/ /\ checkpoint # NoRecord /\ ~job.deferred /\ job.seen = checkpoint.previous
          /\ job.seen # checkpoint.candidate
          /\ Goto("forget") /\ UNCHANGED <<reg, mode, upset, used>>
       \/ checkpoint # NoRecord /\ ~job.deferred /\ Fault /\ BootFails /\ UNCHANGED reg
    /\ UNCHANGED <<dir, checkpoint, journal, decided>>

(* Mutant: the checkpoint is applied and stays.                               *)
KeepCheckpoint ==
    /\ pc = "forget" /\ Goto("migrate")
    /\ UNCHANGED <<disk, mode, decided, upset, used>>

ForgetCheckpoint ==
    /\ pc = "forget"
    /\ \/ checkpoint' = NoRecord /\ Goto("migrate") /\ UNCHANGED <<mode, upset, used>>
       \/ Fault /\ BootFails /\ UNCHANGED checkpoint
    /\ UNCHANGED <<dir, reg, journal, decided>>

(* A registration of the older layout moves to the ID directory.              *)
Legacy ==
    /\ reg.ver # NoVer /\ ~(reg.path = Target /\ Cardinality(reg.hist) = 1)
    /\ ~job.deferred /\ dir[reg.path] = reg.ver

Migrate ==
    LET t == MaxTxn + used.moves + 1
        staged == <<"staged", t>>
    IN /\ pc = "migrate"
       /\ \/ /\ Legacy
             /\ used.moves < MaxMoves /\ used' = [used EXCEPT !.moves = @ + 1]
             /\ dir' = [dir EXCEPT ![staged] = reg.ver]
             /\ job' = [Idle EXCEPT !.flow = "migrate", !.enable = reg.on, !.t = t, !.v = reg.ver,
                                    !.prev = reg, !.base = reg,
                                    !.cand = [reg EXCEPT !.path = staged, !.hist = {staged}]]
             /\ pc' = "publish"
          \/ ~Legacy /\ Goto("booted") /\ UNCHANGED <<dir, used>>
       /\ UNCHANGED <<reg, checkpoint, journal, mode, decided, upset>>

Booted ==
    /\ pc = "booted" /\ Finish /\ mode' = "up"
    /\ UNCHANGED <<disk, decided, upset, used>>

-----------------------------------------------------------------------------
(* The world around.                                                          *)

Quit ==
    /\ mode = "up" /\ pc = "idle" /\ mode' = "down"
    /\ UNCHANGED <<disk, pc, job, decided, upset, used>>

(* Directories that are being removed when the process dies.                  *)
Removing ==
    CASE pc \in {"clean", "undoClean"} -> {p \in ToClean : Whole(p)}
      [] pc = "undoRemove" -> IF Replaced /\ IsCandidate THEN {Target} ELSE {}
      [] OTHER -> {}

Crash ==
    /\ used.crashes < MaxCrashes /\ (mode # "down" \/ pc # "idle")
    /\ used' = [used EXCEPT !.crashes = @ + 1]
    /\ dir' \in {dir} \cup {[dir EXCEPT ![p] = Torn] : p \in Removing}
    /\ mode' = "down" /\ Finish
    /\ UNCHANGED <<reg, checkpoint, journal, decided, upset>>

(* Another writer of the registry file revokes a permission or turns the      *)
(* plugin on or off.                                                          *)
Edit ==
    /\ Quiet /\ reg.path # NoPath
    /\ reg' \in {[reg EXCEPT !.grants = @ + 1], [reg EXCEPT !.on = ~@]}
    /\ used' = [used EXCEPT !.edits = @ + 1]
    /\ UNCHANGED <<dir, checkpoint, journal, mode, pc, job, decided, upset>>

Work ==
    \/ CheckpointRegistration \/ SaveCandidate \/ PreparePackage \/ RetirePrevious
    \/ ClonePackage \/ WriteJournal \/ ClearCheckpoint \/ SwapPackages \/ WidenJournal
    \/ SaveNext \/ Activate \/ Commit \/ CleanObsolete \/ Settle
    \/ CheckRollback \/ RemoveCandidate \/ MoveBack \/ SavePrevious \/ CleanRollback
    \/ LoadForRestore \/ RestoreRegistration \/ RetireCheckpoint \/ Degrade
    \/ LoadForCheckpoint \/ RecoverCheckpoint \/ ForgetCheckpoint \/ Migrate \/ Booted

InstallNext ==
    \/ \E enable \in BOOLEAN : Begin("online", enable) \/ Begin("offline", enable)
    \/ Work \/ Start \/ Quit \/ Crash \/ Edit

InstallSpec == InstallInit /\ [][InstallNext]_ivars

(* A process that is not killed goes on, and the user starts it again.        *)
FairInstallSpec == InstallSpec /\ WF_ivars(Work) /\ WF_ivars(Start)

-----------------------------------------------------------------------------
(* Types: every directory holds a version, nothing or a torn tree; a journal  *)
(* and a checkpoint name registrations the registry file can hold.            *)
InstallTypeOK ==
    /\ dir \in [Path -> Txn \cup {NoDir, Torn}]
    /\ reg \in Registration
    /\ checkpoint = NoRecord \/ {checkpoint.candidate, checkpoint.previous} \subseteq Registration
    /\ journal = NoRecord \/
          /\ journal.v \in Txn /\ journal.staged \in Path
          /\ journal.allowed \subseteq Registration /\ journal.prev \in journal.allowed
    /\ mode \in {"down", "boot", "up"}
    /\ decided \in Txn \cup {NoVer}

(* Until an installation commits, the package it replaces can be put back:    *)
(* whatever crashes, faults or edits met publish, rollback or recovery, the   *)
(* tree the previous registration names is whole, in its place or in the      *)
(* backup.  managed_storage.rs:329 "Before any deletion, confirm that the     *)
(* previous package can be restored".                                         *)
PreviousIntact ==
    /\ (journal # NoRecord /\ ~journal.committed /\ journal.prev.path # NoPath) =>
          \/ dir[journal.prev.path] = Content(journal.prev)
          \/ journal.backup /\ dir[<<"backup", journal.t>>] = Content(journal.prev)
    /\ (checkpoint # NoRecord /\ journal = NoRecord /\ checkpoint.previous.path # NoPath) =>
          dir[checkpoint.previous.path] = Content(checkpoint.previous)

(* A permission that another writer revoked is never given back by a          *)
(* selection, a rollback, a restoration or a recovery that started before it. *)
RevocationSticks == [][reg'.grants >= reg.grants]_ivars

(* No edit by another writer, no failed step of a commit, rollback or         *)
(* recovery, no directory torn by a crash.                                    *)
Calm == used.edits = 0 /\ ~upset /\ \A p \in Path : dir[p] # Torn

(* However often the process died, a plugin is loaded from a whole tree of    *)
(* the version that its registration names, and that version is the one of    *)
(* the last installation that reached its commit.                             *)
UpIsDecided ==
    (mode = "up" /\ pc = "idle" /\ Calm) =>
        /\ reg.ver = decided
        /\ reg.path # NoPath => dir[reg.path] = Content(reg)

(* docs/spec/management.md:94 "maintain one current package ... and remove    *)
(* the old package after success": once the runtime is up, no old version is  *)
(* left in an installation, seed or backup directory.                         *)
OnlyCurrentKept ==
    (mode = "up" /\ pc = "idle" /\ Calm) =>
        \A p \in Path : p[1] \in {"target", "legacy", "seed", "backup"} =>
            dir[p] \in {NoDir, Content(reg)}

(* However often the process died, what comes up is the committed version,    *)
(* whole and alone on the disk, and every record is readable.                 *)
DiskConsistent == InstallTypeOK /\ UpIsDecided /\ OnlyCurrentKept

(* A start leaves no recovery record behind: whatever was interrupted, the    *)
(* next installation of the plugin is not refused.                            *)
StartSettles == [][(Booted /\ Calm) => journal = NoRecord /\ checkpoint = NoRecord]_ivars

(* managed_storage.rs:2 "a short-lived journal protects the previous package  *)
(* until activation commits".                                                 *)
JournalShortLived == journal # NoRecord ~> journal = NoRecord

(* However often the process died: a package that can be put back until the   *)
(* installation commits, and one whole version after it.                      *)
InstallSound == PreviousIntact /\ DiskConsistent

(* No step gives a revoked permission back, and a start settles what an       *)
(* interruption left (recover_pending).                                       *)
InstallSettles == RevocationSticks /\ StartSettles
=============================================================================
