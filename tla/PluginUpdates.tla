---------------------------- MODULE PluginUpdates ----------------------------
(***************************************************************************)
(* Updates of plugins from their GitHub channels: the check that only      *)
(* reads (plugin_updates.rs), the batch that a user starts and one worker  *)
(* executes (plugin_update_install.rs), and what a prepared package, a     *)
(* preview and the staged registration require of each other               *)
(* (plugin_update_source.rs, github_distribution.rs, managed_plugins.rs).  *)
(* Registrations, releases and prepared directories change at any time.    *)
(***************************************************************************)
EXTENDS Naturals, FiniteSets

CONSTANTS Ids,          \* plugins
          Perms,        \* permissions
          MaxVersion,   \* versions of the package are 1..MaxVersion
          Asks,         \* Asks[v]: permissions that version v declares
          Contract,     \* Contract[v]: what v requires, provides and where it runs
          MaxBatches,   \* bound: batches started
          MaxEdits,     \* bound: edits of registrations by others
          MaxChecks,    \* bound: checks
          MaxPublished  \* bound: changes of the repository

VARIABLES registry,     \* the registration of each plugin, as saved
          github,       \* the repository: its identity, its releases
          dirs,         \* the prepared directory of each download
          batch,        \* UpdateBatch
          worker,       \* the thread of the batch
          jobs,         \* the operation submitted for an item
          installs,     \* history: what each operation replaced by what
          checks        \* PluginUpdates: the check, its findings

updVars == <<registry, github, dirs, batch, worker, jobs, installs, checks>>

Versions == 1..MaxVersion
Nothing == [kind |-> "none"]
Author == [kind |-> "author"]
NoJob == [status |-> "none"]
Downloads == (1..MaxBatches) \X Ids

\* A managed package remembers its repository's identity; an installer's seed
\* has the channel of its receipt; an author's directory has none.
Registered(kind, identity, v, grants, enabled) ==
  [kind |-> kind, identity |-> identity, version |-> v, grants |-> grants, enabled |-> enabled]

Registrations ==
  {Nothing, Author} \cup {Registered(kind, i, v, grants, on) :
                    kind \in {"managed", "seed"}, i \in {"ours", "other"}, v \in Versions,
                    grants \in SUBSET Perms, on \in BOOLEAN}

UpdTypeOK ==
  /\ registry \in [Ids -> Registrations]
  /\ github.identity \in {"ours", "other"} /\ github.releases \subseteq Versions
  /\ dirs \in [Downloads -> {"none", "whole", "edited"}]
  /\ batch.id \in 0..MaxBatches /\ batch.running \in BOOLEAN
  /\ jobs \in [Downloads -> {NoJob} \cup [status : {"queued", "done", "failed"}, of : Registrations, version : Versions,
                                         grants : SUBSET Perms, enabled : BOOLEAN, reviewed : BOOLEAN]]

(* --- What a registration and a package have to do with each other -------- *)

HasChannel(reg) == reg.kind \in {"managed", "seed"}

\* PluginUpdateSource::load: the key covers the registration with its grants, the
\* preference and the managed version, so a registration is its own key.
VersionKey(id) == registry[id]

\* The releases that are published with a package, at this moment.
list_releases == github.releases

\* latest_release_version
Newest(v) == {r \in list_releases : r > v /\ \A s \in list_releases : s <= r}

\* same_repository, UpdateChannel::accepts
accepts(reg, identity) == HasChannel(reg) /\ reg.identity = identity

\* A name that belongs to another repository by now does not serve the channel.
verify_update_identity(reg) == accepts(reg, github.identity)

\* tree_digest of the directory is still that of its receipt.
WholeDir(k) == dirs[k] = "whole"

changes(reg, v) == [permissions |-> Asks[v] \ Asks[reg.version], contract |-> Contract[v] # Contract[reg.version]]

needs_authority_review(reg, v) ==
  ~(Asks[v] \subseteq reg.grants) \/ changes(reg, v).permissions # {} \/ changes(reg, v).contract

\* A mutant: only the permissions are looked at that the manifest did not have before.
ReviewsAdditions(reg, v) == changes(reg, v).permissions # {} \/ changes(reg, v).contract

needs_review(reg, v) == reg.kind = "seed" \/ needs_authority_review(reg, v)

(* --- The surroundings ----------------------------------------------------- *)

\* A user or another process registers, revokes, enables, rolls back or removes.
RegistryEdited ==
  /\ checks.edits < MaxEdits
  /\ \E id \in Ids, reg \in Registrations :
       /\ reg # registry[id]
       /\ registry' = [registry EXCEPT ![id] = reg]
  /\ checks' = [checks EXCEPT !.edits = @ + 1]
  /\ UNCHANGED <<github, dirs, batch, worker, jobs, installs>>

Published ==
  /\ github.changes < MaxPublished
  /\ \/ \E v \in Versions \ github.releases :
          github' = [github EXCEPT !.releases = @ \cup {v}, !.changes = @ + 1]
     \/ \E v \in github.releases : github' = [github EXCEPT !.releases = @ \ {v}, !.changes = @ + 1]
     \/ \E i \in {"ours", "other"} \ {github.identity} :   \* the name now belongs to another repository
          github' = [github EXCEPT !.identity = i, !.changes = @ + 1]
  /\ UNCHANGED <<registry, dirs, batch, worker, jobs, installs, checks>>

DirectoryEdited ==
  \E k \in Downloads :
    /\ dirs[k] = "whole"
    /\ dirs' = [dirs EXCEPT ![k] = "edited"]
    /\ UNCHANGED <<registry, github, batch, worker, jobs, installs, checks>>

(* --- The check: PluginUpdates --------------------------------------------- *)

\* check: one at a time; forced, or asked for again after a minute.
check ==
  /\ checks.phase # "checking" /\ checks.count < MaxChecks
  /\ checks' = [checks EXCEPT !.phase = "checking", !.count = @ + 1]
  /\ UNCHANGED <<registry, github, dirs, batch, worker, jobs, installs>>

\* scan: the registrations are read once, before the repositories are asked.
ScanReads ==
  /\ checks.phase = "checking" /\ checks.current = <<>>
  /\ checks' = [checks EXCEPT !.current = registry]
  /\ UNCHANGED <<registry, github, dirs, batch, worker, jobs, installs>>

\* select_release_version for each, of the catalog as it is by then.
Finding(reg) ==
  IF verify_update_identity(reg)
  THEN [key |-> reg, available |-> Newest(reg.version)]
  ELSE [key |-> reg, available |-> {}]

ScanEnds ==
  /\ checks.phase = "checking" /\ checks.current # <<>>
  /\ \/ checks' = [checks EXCEPT !.phase = "completed", !.current = <<>>,
                                 !.plugins = [id \in Ids |-> Finding(checks.current[id])]]
     \/ checks' = [checks EXCEPT !.phase = "failed", !.current = <<>>]
  /\ UNCHANGED <<registry, github, dirs, batch, worker, jobs, installs>>

\* A mutant: the findings are shown as they were found.
ShownAlways(id) == HasChannel(registry[id])

\* status: a finding is kept for the package it was made for.
Shown(id) == HasChannel(registry[id]) /\ checks.plugins[id].key = VersionKey(id)

(* --- A batch --------------------------------------------------------------- *)

start ==
  /\ ~batch.running /\ batch.id < MaxBatches
  /\ \E chosen \in (SUBSET Ids) \ {{}} :
       /\ \A id \in chosen : HasChannel(registry[id])
       /\ batch' = [id |-> batch.id + 1, running |-> TRUE,
                    items |-> [id \in chosen |-> [key |-> VersionKey(id), phase |-> "queued", version |-> 0, message |-> FALSE]]]
       /\ worker' = [at |-> "next", todo |-> chosen, item |-> CHOOSE id \in Ids : TRUE, version |-> 0]
  /\ UNCHANGED <<registry, github, dirs, jobs, installs, checks>>

Item == worker.item
Expected == batch.items[Item].key
Download == <<batch.id, Item>>

publish(phase) == batch' = [batch EXCEPT !.items[Item].phase = phase]

\* The item is over and the worker takes the next one.
SettleItem(phase) ==
  publish(phase) /\ worker' = [worker EXCEPT !.at = "next", !.version = 0]

TakesNext ==
  /\ worker.at = "next"
  /\ \/ \E id \in worker.todo :
          /\ worker' = [worker EXCEPT !.at = "load", !.todo = @ \ {id}, !.item = id]
          /\ batch' = [batch EXCEPT !.items[id].phase = "downloading"]
     \/ /\ worker.todo = {}
        /\ worker' = [worker EXCEPT !.at = "none"]
        /\ batch' = [batch EXCEPT !.running = FALSE]
  /\ UNCHANGED <<registry, github, dirs, jobs, installs, checks>>

\* No HTTP client, or a panic: everything that is not over fails.
WorkerFails ==
  /\ worker.at \in {"next", "load", "list", "prepare", "compare"}
  /\ worker' = [worker EXCEPT !.at = "none", !.todo = {}]
  /\ batch' = [batch EXCEPT !.running = FALSE,
                            !.items = [id \in DOMAIN @ |-> IF @[id].phase \in {"queued", "downloading", "installing"}
                                                           THEN [@[id] EXCEPT !.phase = "failed"] ELSE @[id]]]
  /\ UNCHANGED <<registry, github, dirs, jobs, installs, checks>>

\* The network, an incomplete catalog, or two minutes.
PrepareFails ==
  /\ worker.at \in {"load", "list", "prepare", "compare"}
  /\ SettleItem("failed")
  /\ UNCHANGED <<registry, github, dirs, jobs, installs, checks>>

\* prepare_latest begins: the registration is the one the batch was started for,
\* and the name of its repository still belongs to the same repository and owner.
LoadsCurrent ==
  /\ worker.at = "load"
  /\ IF VersionKey(Item) = Expected /\ verify_update_identity(Expected)
     THEN worker' = [worker EXCEPT !.at = "list"] /\ UNCHANGED batch
     ELSE SettleItem("failed")
  /\ UNCHANGED <<registry, github, dirs, jobs, installs, checks>>

ListsReleases ==
  /\ worker.at = "list"
  /\ \/ Newest(Expected.version) = {} /\ SettleItem("upToDate")
     \/ \E v \in Newest(Expected.version) : worker' = [worker EXCEPT !.at = "prepare", !.version = v] /\ UNCHANGED batch
  /\ UNCHANGED <<registry, github, dirs, jobs, installs, checks>>

\* prepare_asset asks for the release and the identity again, then for the bytes,
\* and leaves a directory of its own with a receipt.
prepare_asset ==
  /\ worker.at = "prepare"
  /\ IF worker.version \in list_releases /\ verify_update_identity(Expected)
     THEN /\ dirs' = [dirs EXCEPT ![Download] = "whole"]
          /\ worker' = [worker EXCEPT !.at = "compare"] /\ UNCHANGED batch
     ELSE SettleItem("failed") /\ UNCHANGED dirs
  /\ UNCHANGED <<registry, github, jobs, installs, checks>>

\* A mutant: the download is not followed by another look at the registration.
ExistsStill == HasChannel(registry[Item])

Unchanged == VersionKey(Item) = Expected

\* preview_checked: a directory as it was prepared, for a registration of the same source.
Previewable == WholeDir(Download) /\ accepts(registry[Item], Expected.identity)

\* The registration is compared again after the network; the preview is made of it.
Compares ==
  /\ worker.at = "compare"
  /\ IF Unchanged /\ Previewable
     THEN IF needs_review(registry[Item], worker.version)
          THEN /\ worker' = [worker EXCEPT !.at = "next", !.version = 0]
               /\ batch' = [batch EXCEPT !.items[Item].phase = "reviewRequired", !.items[Item].version = worker.version]
               /\ UNCHANGED jobs
          ELSE /\ publish("installing")
               /\ worker' = [worker EXCEPT !.at = "submit"]
               /\ jobs' = [jobs EXCEPT ![Download] =
                    [status |-> "failed", of |-> registry[Item], version |-> worker.version,
                     grants |-> registry[Item].grants, enabled |-> registry[Item].enabled, reviewed |-> FALSE]]
     ELSE SettleItem("failed") /\ UNCHANGED jobs
  /\ UNCHANGED <<registry, github, dirs, installs, checks>>

\* apply: the request is prepared and submitted to the broker, which may refuse.
apply ==
  /\ worker.at = "submit"
  /\ \/ SettleItem("failed") /\ UNCHANGED jobs
     \/ /\ jobs' = [jobs EXCEPT ![Download].status = "queued"]
        /\ worker' = [worker EXCEPT !.at = "poll"] /\ UNCHANGED batch
  /\ UNCHANGED <<registry, github, dirs, installs, checks>>

\* The answer is awaited however long it takes; after 90 seconds the item says so.
PollsResult ==
  /\ worker.at = "poll"
  /\ \/ jobs[Download].status = "done" /\ SettleItem("updated")
     \/ jobs[Download].status = "failed" /\ SettleItem("failed")
     \/ jobs[Download].status = "queued" /\ batch.items[Item].phase = "installing"
        /\ publish("checkingStatus") /\ UNCHANGED worker
  /\ UNCHANGED <<registry, github, dirs, jobs, installs, checks>>

\* preview, and the user's own request for what it shows, with the grants it asks for.
ConfirmsReview ==
  \E id \in DOMAIN batch.items, on \in BOOLEAN :
    LET item == batch.items[id]
        k == <<batch.id, id>>
    IN /\ item.phase = "reviewRequired" /\ item.key = VersionKey(id) /\ jobs[k] = NoJob
       /\ jobs' = [jobs EXCEPT ![k] =
                    [status |-> "queued", of |-> item.key, version |-> item.version,
                     grants |-> registry[id].grants \cup Asks[item.version], enabled |-> on, reviewed |-> TRUE]]
       /\ UNCHANGED <<registry, github, dirs, batch, worker, installs, checks>>

\* A mutant: the digest of the registration in the request is not compared.
StagesAnything(job, id) == accepts(registry[id], job.of.identity)

\* selection_registration_digest of the request is that of the registration now.
Selected(job, id) == job.of = registry[id]

\* stage, and the activation, which puts the previous registration back when it fails.
RunsJob ==
  \E k \in Downloads :
    LET job == jobs[k]
        id == k[2]
        new == Registered("managed", job.of.identity, job.version, job.grants, job.enabled)
    IN /\ job.status = "queued"
       /\ \/ /\ Selected(job, id) /\ WholeDir(k) /\ Asks[job.version] \subseteq job.grants
             /\ registry' = [registry EXCEPT ![id] = new]
             /\ installs' = [installs EXCEPT ![k] = {[before |-> registry[id], after |-> new]}]
             /\ jobs' = [jobs EXCEPT ![k].status = "done"]
          \/ jobs' = [jobs EXCEPT ![k].status = "failed"] /\ UNCHANGED <<registry, installs>>
       /\ UNCHANGED <<github, dirs, batch, worker, checks>>

NoBatch == [id |-> 0, running |-> FALSE, items |-> <<>>]

NoWorker == [at |-> "none", todo |-> {}, item |-> CHOOSE id \in Ids : TRUE, version |-> 0]

NoCheck == [phase |-> "idle", current |-> <<>>, plugins |-> [id \in Ids |-> [key |-> Nothing, available |-> {}]],
            edits |-> 0, count |-> 0]

UpdInit ==
  /\ registry \in [Ids -> {Registered("managed", "ours", 1, Asks[1], TRUE), Registered("seed", "ours", 1, Asks[1], TRUE)}]
  /\ github = [identity |-> "ours", releases |-> {1, 2}, changes |-> 0]
  /\ dirs = [k \in Downloads |-> "none"]
  /\ batch = NoBatch /\ worker = NoWorker /\ checks = NoCheck
  /\ jobs = [k \in Downloads |-> NoJob] /\ installs = [k \in Downloads |-> {}]

UpdNext ==
  \/ RegistryEdited \/ Published \/ DirectoryEdited
  \/ check \/ ScanReads \/ ScanEnds
  \/ start \/ TakesNext \/ WorkerFails \/ PrepareFails
  \/ LoadsCurrent \/ ListsReleases \/ prepare_asset \/ Compares \/ apply \/ PollsResult
  \/ ConfirmsReview \/ RunsJob

UpdSpec == UpdInit /\ [][UpdNext]_updVars

(* --- Properties ------------------------------------------------------------ *)

\* An update nobody reviewed keeps the grants, the preference and the source of the
\* registration it replaces, asks for nothing more, and is newer.
NothingInherited ==
  \A k \in Downloads : \A i \in installs[k] :
    ~jobs[k].reviewed =>
      /\ i.after.grants = i.before.grants /\ i.after.enabled = i.before.enabled
      /\ i.after.identity = i.before.identity /\ i.before.kind = "managed"
      /\ Asks[i.after.version] \subseteq i.before.grants /\ Contract[i.after.version] = Contract[i.before.version]
      /\ i.after.version > i.before.version

\* An operation replaces the registration that its batch was started for, with a
\* package nobody touched.
ReplacesTheChosen ==
  \A id \in DOMAIN batch.items : \A i \in installs[<<batch.id, id>>] : i.before = batch.items[id].key

\* What an item says is what happened to the registration.
ReportsTheOutcome ==
  \A id \in DOMAIN batch.items :
    LET k == <<batch.id, id>> IN
    /\ batch.items[id].phase = "updated" => installs[k] # {}
    /\ batch.items[id].phase = "failed" => installs[k] = {} /\ jobs[k].status # "queued"

\* A batch that ended leaves no item under way.
EndsSettled ==
  ~batch.running => \A id \in DOMAIN batch.items : batch.items[id].phase \in {"failed", "updated", "upToDate", "reviewRequired"}

\* A finding that is shown is an update of the package that is registered now.
ShownIsNewer == \A id \in Ids : Shown(id) => \A v \in checks.plugins[id].available : v > registry[id].version

\* plugin_update_install.rs: existing grants and enablement are preserved; new authority is returned for review.
UpdatesSound ==
  UpdTypeOK /\ NothingInherited /\ ReplacesTheChosen /\ ReportsTheOutcome /\ EndsSettled /\ ShownIsNewer
=============================================================================
