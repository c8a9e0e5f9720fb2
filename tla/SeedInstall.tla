----------------------------- MODULE SeedInstall -----------------------------
(***************************************************************************)
(* Installer-owned packages (plugin_cli/official_seed.rs): one official    *)
(* plugin whose package an offline command previews, installs or updates   *)
(* in place under a journal, and whose interrupted transaction every later *)
(* holder of the registry lease undoes or finishes before it does anything *)
(* else.  The process may die between any two file operations, also within *)
(* the removal of a tree.  Authors edit the package and users the          *)
(* registration while no holder of the lease is running.                   *)
(***************************************************************************)
EXTENDS Naturals, FiniteSets

CONSTANTS Releases,      \* the package versions some distribution carries
          Legacy,        \* the earlier ones whose files Core knows by heart
          PermissionsOf, \* PermissionsOf[v]: what the manifest of v asks for
          MaxInstalls,   \* bound: installations begun
          MaxKills,      \* bound: deaths of the process
          MaxUserEdits   \* bound: edits by author or user

ASSUME SeedConstants == Releases \cap {"none", "torn", "author"} = {}

VARIABLES tree,          \* the package directory, the staged one and the backup
          seat,          \* the registration in the registry file
          receipt,       \* <id>.receipt.json
          seedJournal,   \* <id>.json
          setup,         \* the process that holds the lease
          preview,       \* what the user saw last
          ghost,         \* history: see Before
          seedUsed

seedVars == <<tree, seat, receipt, seedJournal, setup, preview, ghost, seedUsed>>

Nil == "none"
Names == {"manifest", "code", "extra"}
Nowhere == [f \in Names |-> Nil]
Perms == UNION {PermissionsOf[v] : v \in Releases}

\* The tree of a released package, as its file records list it.
Payload(v) == [f \in Names |-> IF f = "extra" THEN Nil ELSE v]

Unseated == [path |-> Nil, grants |-> {}, on |-> TRUE]
NoPlan == [package |-> Nil]
NotRunning == [at |-> "idle", plan |-> NoPlan]
SeedState == <<tree.target, seat, receipt>>

SeedTypeOK ==
  /\ tree \in [{"target", "ready", "backup"} -> [Names -> Releases \cup {Nil, "torn", "author"}]]
  /\ seat \in [path : {Nil, "target", "custom"}, grants : SUBSET Perms, on : BOOLEAN]
  /\ receipt \in Releases \cup {Nil}

\* verify: exactly the listed files with the listed bytes.
verify(t, v) == t = Payload(v)

\* verify_remaining: what is left of the listed files is unchanged, nothing else is there.
verify_remaining(t, v) == \A f \in Names : t[f] \in {Nil, Payload(v)[f]}

(* --- Selection ---------------------------------------------------------- *)

\* The receipt, the catalog and the embedded list of earlier releases prove whose the files are.
Proven(v) == {o \in Releases : verify(tree.target, o) /\ o \in {receipt, v} \cup Legacy}

PreviousPackage(v) == IF Proven(v) = {} THEN Nil ELSE CHOOSE o \in Proven(v) : TRUE

Selectable(v) ==
  /\ seat.path \in {Nil, "target"}
  /\ IF tree.target = Nowhere THEN seat.path = Nil ELSE Proven(v) # {}

\* Asked for, not granted, and not something the user withheld from the previous version.
added_permissions(v) ==
  {p \in PermissionsOf[v] :
     /\ p \notin seat.grants
     /\ seat.path = Nil \/ PreviousPackage(v) = Nil \/ p \notin PermissionsOf[PreviousPackage(v)]}

Selection(v) ==
  [package |-> v, previous_package |-> PreviousPackage(v), previous |-> seat,
   next |-> [seat EXCEPT !.path = "target", !.grants = @ \cup added_permissions(v)],
   previous_receipt |-> receipt, committed |-> FALSE]

Offline == setup.at = "idle" /\ seedJournal = NoPlan

ShowsPreview(v) ==
  /\ Offline /\ Selectable(v) /\ preview # Selection(v)
  /\ preview' = Selection(v)
  /\ UNCHANGED <<tree, seat, receipt, seedJournal, setup, ghost, seedUsed>>

\* The command is given the preview it showed and installs nothing else.
command(v) ==
  /\ Offline /\ Selectable(v) /\ preview = Selection(v)
  /\ seedUsed.installs < MaxInstalls
  /\ seedUsed' = [seedUsed EXCEPT !.installs = @ + 1]
  /\ setup' = [at |-> "journal", plan |-> Selection(v)]
  /\ ghost' = [ghost EXCEPT !.before = SeedState, !.changed = FALSE,
                            !.after = <<Payload(v), Selection(v).next, v>>,
                            !.withheld = @ \ added_permissions(v)]
  /\ UNCHANGED <<tree, seat, receipt, seedJournal, preview>>

(* --- Installation ------------------------------------------------------- *)

To(at) == setup' = [setup EXCEPT !.at = at]
Plan == setup.plan

JournalsPlan ==
  /\ setup.at = "journal"
  /\ seedJournal' = Plan
  /\ To("stage")
  /\ UNCHANGED <<tree, seat, receipt, preview, ghost, seedUsed>>

\* Files are copied one by one; what is read or written may be cut short.
Stages ==
  /\ setup.at = "stage"
  /\ LET missing == {f \in Names : tree.ready[f] = Nil /\ Payload(Plan.package)[f] # Nil}
     IN IF missing = {} THEN To("swap") /\ UNCHANGED tree
        ELSE /\ \E f \in missing, content \in {Plan.package, "torn"} : tree' = [tree EXCEPT !.ready[f] = content]
             /\ UNCHANGED setup
  /\ UNCHANGED <<seat, receipt, seedJournal, preview, ghost, seedUsed>>

MovesOut ==
  /\ setup.at = "swap" /\ verify(tree.ready, Plan.package)
  /\ IF Plan.previous_package = Nil THEN UNCHANGED tree
     ELSE /\ verify(tree.target, Plan.previous_package)
          /\ tree' = [tree EXCEPT !.backup = tree.target, !.target = Nowhere]
  /\ To("in")
  /\ UNCHANGED <<seat, receipt, seedJournal, preview, ghost, seedUsed>>

MovesIn ==
  /\ setup.at = "in" /\ tree.target = Nowhere
  /\ tree' = [tree EXCEPT !.target = tree.ready, !.ready = Nowhere]
  /\ To("register")
  /\ UNCHANGED <<seat, receipt, seedJournal, preview, ghost, seedUsed>>

Registers ==
  /\ setup.at = "register" /\ verify(tree.target, Plan.package) /\ seat = Plan.previous
  /\ seat' = Plan.next
  /\ To("receipt")
  /\ UNCHANGED <<tree, receipt, seedJournal, preview, ghost, seedUsed>>

WritesReceipt ==
  /\ setup.at = "receipt"
  /\ receipt' = Plan.package
  /\ To("commit")
  /\ UNCHANGED <<tree, seat, seedJournal, preview, ghost, seedUsed>>

Commits ==
  /\ setup.at = "commit"
  /\ seedJournal' = [Plan EXCEPT !.committed = TRUE]
  /\ To("recover")
  /\ UNCHANGED <<tree, seat, receipt, preview, ghost, seedUsed>>

\* Any step may fail: install recovers before it answers the error.
InstallFails ==
  /\ setup.at \in {"stage", "swap", "in", "register", "receipt", "commit"}
  /\ To("recover")
  /\ UNCHANGED <<tree, seat, receipt, seedJournal, preview, ghost, seedUsed>>

(* --- Recovery ----------------------------------------------------------- *)

\* Startup and every offline command recover under the lease before anything else.
recover ==
  /\ setup.at = "idle" /\ seedJournal # NoPlan
  /\ To("recover")
  /\ UNCHANGED <<tree, seat, receipt, seedJournal, preview, ghost, seedUsed>>

\* A mutant: a tree that a dead process has emptied in part no longer counts as the backup.
WholeBackup ==
  tree.backup = Nowhere \/ verify(tree.backup, seedJournal.previous_package)

BackupOurs ==
  tree.backup = Nowhere \/ verify_remaining(tree.backup, seedJournal.previous_package)

Acceptable ==
  LET j == seedJournal
  IN /\ seat \in {j.previous, j.next}
     /\ IF j.committed THEN seat = j.next /\ verify(tree.target, j.package) /\ BackupOurs
        ELSE IF tree.backup # Nowhere
        THEN verify(tree.backup, j.previous_package) /\ verify_remaining(tree.target, j.package)
        ELSE IF j.previous_package # Nil THEN verify(tree.target, j.previous_package)
        ELSE verify_remaining(tree.target, j.package)

recover_one ==
  /\ setup.at = "recover"
  /\ IF ~Acceptable THEN setup' = NotRunning
     ELSE IF seedJournal.committed THEN To("dropBackup")
     ELSE IF tree.backup # Nowhere \/ seedJournal.previous_package = Nil THEN To("dropTarget")
     ELSE To("restore")
  /\ UNCHANGED <<tree, seat, receipt, seedJournal, preview, ghost, seedUsed>>

\* remove_dir_all, file by file.
Removes(at, which, to) ==
  /\ setup.at = at
  /\ \/ /\ \E f \in Names : tree[which][f] # Nil /\ tree' = [tree EXCEPT ![which][f] = Nil]
        /\ UNCHANGED setup
     \/ tree[which] = Nowhere /\ To(to) /\ UNCHANGED tree
  /\ UNCHANGED <<seat, receipt, seedJournal, preview, ghost, seedUsed>>

\* The old package comes back, then its registration, then its receipt.
RestoresPackage ==
  /\ setup.at = "moveBack"
  /\ tree' = IF tree.backup = Nowhere THEN tree ELSE [tree EXCEPT !.target = tree.backup, !.backup = Nowhere]
  /\ To("restore")
  /\ UNCHANGED <<seat, receipt, seedJournal, preview, ghost, seedUsed>>

RestoresRegistration ==
  /\ setup.at = "restore"
  /\ seat' = seedJournal.previous
  /\ To("restoreReceipt")
  /\ UNCHANGED <<tree, receipt, seedJournal, preview, ghost, seedUsed>>

RestoresReceipt ==
  /\ setup.at = "restoreReceipt"
  /\ receipt' = seedJournal.previous_receipt
  /\ To("dropReady")
  /\ UNCHANGED <<tree, seat, seedJournal, preview, ghost, seedUsed>>

ForgetsJournal ==
  /\ setup.at = "settled"
  /\ seedJournal' = NoPlan
  /\ setup' = NotRunning
  /\ UNCHANGED <<tree, seat, receipt, preview, ghost, seedUsed>>

RecoveryFails ==
  /\ setup.at \in {"dropBackup", "dropTarget", "moveBack", "restore", "restoreReceipt", "dropReady", "settled"}
  /\ seedUsed.kills < MaxKills
  /\ seedUsed' = [seedUsed EXCEPT !.kills = @ + 1]
  /\ setup' = NotRunning
  /\ UNCHANGED <<tree, seat, receipt, seedJournal, preview, ghost>>

(* --- Environment -------------------------------------------------------- *)

Killed ==
  /\ setup.at # "idle" /\ seedUsed.kills < MaxKills
  /\ seedUsed' = [seedUsed EXCEPT !.kills = @ + 1]
  /\ setup' = NotRunning
  /\ UNCHANGED <<tree, seat, receipt, seedJournal, preview, ghost>>

UserActs == seedUsed.edits < MaxUserEdits /\ seedUsed' = [seedUsed EXCEPT !.edits = @ + 1]

\* The author changes a file or adds one, in whatever directory is the package's.
AuthorEdits ==
  /\ setup.at = "idle" /\ tree.target # Nowhere /\ UserActs
  /\ \E f \in {"code", "extra"} : tree' = [tree EXCEPT !.target[f] = "author"]
  /\ ghost' = [ghost EXCEPT !.changed = TRUE, !.authored = TRUE]
  /\ UNCHANGED <<seat, receipt, seedJournal, setup, preview>>

\* Through Core or an offline command, which recover first.
UserEdits ==
  /\ Offline /\ UserActs /\ seat.path # Nil
  /\ \E to \in {[seat EXCEPT !.on = ~@], [seat EXCEPT !.path = "custom"], Unseated}
               \cup {[seat EXCEPT !.grants = @ \ {p}] : p \in seat.grants} :
       /\ seat' = to
       /\ ghost' = [ghost EXCEPT !.withheld = @ \cup (seat.grants \ to.grants), !.changed = TRUE]
  /\ UNCHANGED <<tree, receipt, seedJournal, setup, preview>>

SeedInit ==
  /\ \E v \in Releases \cup {Nil}, known \in BOOLEAN :
       /\ tree = [d \in {"target", "ready", "backup"} |-> IF d = "target" /\ v # Nil THEN Payload(v) ELSE Nowhere]
       /\ seat = IF v = Nil THEN Unseated
                 ELSE [path |-> "target", grants |-> PermissionsOf[v], on |-> TRUE]
       /\ receipt = IF known THEN v ELSE Nil
  /\ seedJournal = NoPlan /\ setup = NotRunning /\ preview = NoPlan
  /\ ghost = [before |-> SeedState, after |-> SeedState, changed |-> FALSE, authored |-> FALSE, withheld |-> {}]
  /\ seedUsed = [installs |-> 0, kills |-> 0, edits |-> 0]

SeedNext ==
  \/ \E v \in Releases : ShowsPreview(v) \/ command(v)
  \/ JournalsPlan \/ Stages \/ MovesOut \/ MovesIn \/ Registers \/ WritesReceipt \/ Commits \/ InstallFails
  \/ recover \/ recover_one
  \/ Removes("dropBackup", "backup", "dropReady") \/ Removes("dropTarget", "target", "moveBack")
  \/ RestoresPackage \/ RestoresRegistration \/ RestoresReceipt
  \/ Removes("dropReady", "ready", "settled") \/ ForgetsJournal \/ RecoveryFails
  \/ Killed \/ AuthorEdits \/ UserEdits

SeedSpec == SeedInit /\ [][SeedNext]_seedVars

(* --- Properties --------------------------------------------------------- *)

\* Without a journal the package, its registration and its receipt are those of
\* before the last installation, or those of after it, whoever died when.
AllOrNothing ==
  seedJournal = NoPlan /\ setup.at = "idle" /\ ~ghost.changed => SeedState \in {ghost.before, ghost.after}

\* And no temporary directory is left.
NothingLeftBehind ==
  seedJournal = NoPlan /\ setup.at = "idle" => tree.ready = Nowhere /\ tree.backup = Nowhere

\* As long as nobody changed anything meanwhile, a transaction cut short anywhere,
\* also within its recovery, can be undone or finished.
RecoveryGoesThrough ==
  seedJournal # NoPlan /\ setup.at \in {"idle", "recover"} /\ ~ghost.changed => Acceptable

\* What an author wrote is in the package or its backup for as long as the transaction lasts, and after it.
AuthorsKeepTheirFiles ==
  ghost.authored => \E d \in {"target", "backup"}, f \in Names : tree[d][f] = "author"

\* A permission the user took away comes back only with a preview that names it.
WithheldStays == seat.grants \cap ghost.withheld = {}

\* official_seed.rs: an installation is all or nothing over deaths at any point,
\* its recovery always goes through, author files and withheld permissions stay as they are.
SeedSound ==
  /\ SeedTypeOK /\ AllOrNothing /\ NothingLeftBehind /\ RecoveryGoesThrough
  /\ AuthorsKeepTheirFiles /\ WithheldStays
=============================================================================
