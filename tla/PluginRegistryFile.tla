------------------------- MODULE PluginRegistryFile -------------------------
(* The plugin registry on disk and the processes that edit it (src/plugins.rs, *)
(* local_import.rs, local_plugins.rs, catalog.rs).  A process edits a snapshot *)
(* and commits the staged edits under a lock against the latest document; an   *)
(* import registers exactly the content that was reviewed.                     *)
EXTENDS Integers, Sequences, FiniteSets

CONSTANTS
    Ids,            \* plugin ids
    Gui,            \* the one of them that has a legacy preference key
    Dirs,           \* directories a package can be in
    Procs,          \* processes with a registry snapshot
    MaxCommits,     \* bound: saves that replace the file
    MaxDirEdits,    \* bound: changes authors make in their directories
    MaxStages       \* bound: staged edits and previews

\* "free" and "none" are the absence of a process and of a directory.
ASSUME RegistryFileConstants ==
    /\ Gui \in Ids /\ "free" \notin Procs /\ "none" \notin Dirs
    /\ MaxCommits \in Nat /\ MaxDirEdits \in Nat /\ MaxStages \in Nat

VARIABLES
    file,       \* the committed document
    locker,     \* the process that holds the sidecar lock, or "free"
    dirs,       \* external: what the directories contain
    snap,       \* every process's PluginRegistry, its save and its import
    commits     \* how far each bound is used up

regVars == <<file, locker, dirs, snap, commits>>

Pref == {"unset", "on", "off"}
Manage == {"none", "retained", "current"}   \* ManagedPluginRecord, with or without a current version
Reg == [dir : Dirs \cup {"none"}, grant : BOOLEAN]
NoReg == [dir |-> "none", grant |-> FALSE]
RegFile == [local : [Ids -> Reg], pref : [Ids -> Pref], legacy : Pref, managed : [Ids -> Manage]]

\* A package: who it says it is, its text, whether it asks for the permission,
\* and what is wrong with it.
Package == [id : Ids, text : 0..MaxDirEdits, asks : BOOLEAN, flaw : {"none", "manifest", "files"}]

NoEdit == [staged |-> FALSE, expected |-> NoReg, desired |-> NoReg]
NoManagedEdit == [staged |-> FALSE, expected |-> "none", desired |-> "none"]

FreshSnapshot(doc) == [doc |-> doc, local |-> doc.local, managed |-> doc.managed,
               pending |-> [i \in Ids |-> "unset"],
               plocal |-> [i \in Ids |-> NoEdit], pmanaged |-> [i \in Ids |-> NoManagedEdit],
               pc |-> "idle", latest |-> doc,
               seen |-> <<>>, entry |-> <<>>, loaded |-> <<>>]

(* RegistryDocument::validate: the records agree and no two ids share a path.  *)
validate(doc) ==
    /\ \A i, j \in Ids : doc.local[i].dir = doc.local[j].dir /\ doc.local[i].dir # "none" => i = j
    /\ \A i \in Ids : doc.managed[i] = "current" => doc.local[i].dir # "none"

RegInit ==
    /\ file = [local |-> [i \in Ids |-> NoReg], pref |-> [i \in Ids |-> "unset"], legacy |-> "off",
               managed |-> [i \in Ids |-> "none"]]
    /\ locker = "free"
    /\ dirs \in {d \in [Dirs -> Package] : \A x \in Dirs : d[x].text = 0 /\ d[x].asks /\ d[x].flaw = "none"}
    /\ snap = [p \in Procs |-> FreshSnapshot(file)]
    /\ commits = [n |-> 0, edits |-> 0, stages |-> 0]

-----------------------------------------------------------------------------
(* Reading and staging.                                                        *)

Free(p) == snap[p].pc = "idle"
MayStage(p) == Free(p) /\ commits.stages < MaxStages

load(p) ==
    /\ Free(p) /\ snap[p].doc # file
    /\ snap' = [snap EXCEPT ![p] = [FreshSnapshot(file) EXCEPT !.loaded = snap[p].loaded]]
    /\ UNCHANGED <<file, locker, dirs, commits>>

is_enabled(s, i) ==
    LET own == IF s.pending[i] # "unset" THEN s.pending[i] ELSE s.doc.pref[i]
        old == IF i = Gui THEN s.doc.legacy ELSE "unset"
    IN IF own # "unset" THEN own # "off" ELSE old # "off"

(* The first staged edit of an id remembers the record it was loaded with; an  *)
(* addition that is taken back leaves no edit.                                 *)
stage_local(s, i, r) ==
    LET e == IF s.plocal[i].staged THEN s.plocal[i] ELSE [staged |-> TRUE, expected |-> s.doc.local[i], desired |-> NoReg]
    IN [s EXCEPT !.plocal[i] = IF e.expected = NoReg /\ r = NoReg THEN NoEdit ELSE [e EXCEPT !.desired = r],
                 !.local[i] = r]

stage_managed(s, i, m) ==
    LET e == IF s.pmanaged[i].staged THEN s.pmanaged[i]
             ELSE [staged |-> TRUE, expected |-> s.doc.managed[i], desired |-> "none"]
    IN [s EXCEPT !.pmanaged[i] = [e EXCEPT !.desired = m], !.managed[i] = m]

Taken(s, i, d) == \E j \in Ids \ {i} : s.local[j].dir = d

(* register_local, and set_enabled as its own edit.                            *)
MayRegister(s, i, r) == (s.local[i].dir \in {"none", r.dir}) /\ ~Taken(s, i, r.dir)
RegisteredIn(s, i, r) == stage_managed(stage_local(s, i, r), i, s.managed[i])

Stages(p, s) ==
    /\ snap' = [snap EXCEPT ![p] = s]
    /\ commits' = [commits EXCEPT !.stages = @ + 1]
    /\ UNCHANGED <<file, locker, dirs>>

(* The scopes of a permission go with it.                                      *)
remove_permission(r) == [r EXCEPT !.grant = FALSE]

revoke_permission(p, i) ==
    /\ MayStage(p) /\ snap[p].local[i].dir # "none"
    /\ Stages(p, RegisteredIn(snap[p], i, remove_permission(snap[p].local[i])))

(* register_managed may move the id to another directory.                      *)
register_managed(p, i, d) ==
    /\ MayStage(p) /\ ~Taken(snap[p], i, d)
    /\ Stages(p, stage_managed(stage_local(snap[p], i, [dir |-> d, grant |-> TRUE]), i, "current"))

remove_local(p, i) ==
    /\ MayStage(p) /\ snap[p].local[i].dir # "none"
    /\ LET s == stage_local(snap[p], i, NoReg) IN
       Stages(p, IF s.managed[i] = "none" THEN s ELSE stage_managed(s, i, "retained"))

set_enabled(p, i, v) ==
    /\ MayStage(p) /\ snap[p].pending[i] # v
    /\ Stages(p, [snap[p] EXCEPT !.pending[i] = v])

-----------------------------------------------------------------------------
(* Importing a directory: review, then stage what was reviewed.                *)

\* Digests tell apart what they are taken of.
registration_digest(s, i) == <<s.local[i], s.managed[i], is_enabled(s, i)>>
content_digest(d) == <<d, dirs[d]>>

(* PluginManifest::parse and validate.                                         *)
manifest_valid(d) == dirs[d].flaw # "manifest"

(* checked_path, open_checked_file, read_bytes of every entry: a file that is  *)
(* missing, moved while it is read, too long or not text refuses the package.  *)
entries_read(d) == dirs[d].flaw # "files"

inspect_local_plugin(d) == manifest_valid(d) /\ entries_read(d)

(* Mutant of validate_grants_at: any grants will do.                           *)
GrantsNotAsked(d, grant) == d \in Dirs

(* validate_grants_at: the grants cover what the manifest asks for.            *)
validate_grants_at(d, grant) == dirs[d].asks => grant

preview(p, d) ==
    LET i == dirs[d].id IN
    /\ MayStage(p) /\ snap[p].entry = <<>> /\ inspect_local_plugin(d) /\ snap[p].managed[i] # "current"
    /\ MayRegister(snap[p], i, [dir |-> d, grant |-> dirs[d].asks])
    /\ snap' = [snap EXCEPT ![p].seen = <<[id |-> i, dir |-> d, content |-> content_digest(d),
                                          registration |-> registration_digest(snap[p], i)]>>]
    /\ commits' = [commits EXCEPT !.stages = @ + 1]
    /\ UNCHANGED <<file, locker, dirs>>

checked_entry(i, d, grant) ==
    IF validate_grants_at(d, grant) THEN <<[id |-> i, pack |-> dirs[d], auth |-> [dir |-> d, grant |-> grant]]>> ELSE <<>>

(* stage: both digests again, then registration and preference "off" together. *)
stage(p, grant) ==
    /\ MayStage(p) /\ snap[p].seen # <<>>
    /\ LET v == snap[p].seen[1]
           e == checked_entry(v.id, v.dir, grant)
       IN /\ registration_digest(snap[p], v.id) = v.registration
          /\ snap[p].managed[v.id] # "current"
          /\ inspect_local_plugin(v.dir) /\ content_digest(v.dir) = v.content /\ dirs[v.dir].id = v.id /\ e # <<>>
          /\ MayRegister(snap[p], v.id, e[1].auth)
          /\ Stages(p, [RegisteredIn(snap[p], v.id, e[1].auth) EXCEPT !.pending[v.id] = "off", !.entry = e])

-----------------------------------------------------------------------------
(* save.                                                                       *)

Dirty(s) == \E i \in Ids : s.pending[i] # "unset" \/ s.plocal[i].staged \/ s.pmanaged[i].staged

(* lock_registry, then the latest document.                                    *)
lock_registry(p) ==
    /\ Free(p) /\ Dirty(snap[p]) /\ locker = "free" /\ commits.n < MaxCommits
    /\ locker' = p
    /\ snap' = [snap EXCEPT ![p].pc = "locked", ![p].latest = file]
    /\ UNCHANGED <<file, dirs, commits>>

(* Every staged local and managed edit still finds the record it was made of.  *)
NoConflict(s) ==
    /\ \A i \in Ids : s.pmanaged[i].staged => s.latest.managed[i] = s.pmanaged[i].expected
    /\ \A i \in Ids : s.plocal[i].staged => s.latest.local[i] = s.plocal[i].expected

(* The edits merged into a document.                                           *)
Merge(s, doc) ==
    [local |-> [i \in Ids |-> IF s.plocal[i].staged THEN s.plocal[i].desired ELSE doc.local[i]],
     pref |-> [i \in Ids |-> IF s.pending[i] # "unset" THEN s.pending[i] ELSE doc.pref[i]],
     legacy |-> IF s.pending[Gui] # "unset" THEN "unset" ELSE doc.legacy,
     managed |-> [i \in Ids |-> IF s.pmanaged[i].staged THEN s.pmanaged[i].desired ELSE doc.managed[i]]]

(* Mutant of Merged: the edits go into the snapshot that was loaded.           *)
MergedIntoSnapshot(s) == Merge(s, s.doc)

Merged(s) == Merge(s, s.latest)

Unlock(s) == [s EXCEPT !.pc = "idle"]

(* A conflict, an invalid result, or a failing write leaves file, snapshot and *)
(* staged edits as they are.                                                   *)
SaveFails(p) ==
    /\ snap[p].pc = "locked"
    /\ locker' = "free" /\ snap' = [snap EXCEPT ![p] = Unlock(@)]
    /\ UNCHANGED <<file, dirs, commits>>

(* TemporaryRegistry::replace renames over the file; the snapshot is refreshed.*)
(* An import's entry becomes the installed one.                                *)
replace(p) ==
    LET s == snap[p] IN
    /\ s.pc = "locked" /\ NoConflict(s) /\ validate(Merged(s))
    /\ file' = Merged(s)
    /\ locker' = "free"
    /\ snap' = [snap EXCEPT ![p] = [FreshSnapshot(Merged(s)) EXCEPT !.loaded = IF s.entry # <<>> THEN s.entry ELSE s.loaded]]
    /\ commits' = [commits EXCEPT !.n = @ + 1]
    /\ UNCHANGED dirs

(* A process dies; the operating system releases its lock.                     *)
ProcessDies(p) ==
    /\ snap[p].pc = "locked"
    /\ locker' = "free"
    /\ snap' = [snap EXCEPT ![p] = FreshSnapshot(file)]
    /\ UNCHANGED <<file, dirs, commits>>

-----------------------------------------------------------------------------
(* Loading for execution: PluginCatalog::load, reload_entry.                   *)

(* load_local_plugin_with_registration: the package, its identity, the grants. *)
LoadableEntry(i, r) ==
    r.dir # "none" /\ inspect_local_plugin(r.dir) /\ dirs[r.dir].id = i /\ validate_grants_at(r.dir, r.grant)

reload_entry(p, i) ==
    LET r == snap[p].local[i] IN
    /\ Free(p) /\ ~Dirty(snap[p]) /\ LoadableEntry(i, r)
    /\ snap' = [snap EXCEPT ![p].loaded = <<[id |-> i, pack |-> dirs[r.dir], auth |-> r]>>]
    /\ UNCHANGED <<file, locker, dirs, commits>>

(* An author edits a directory.                                                *)
AuthorEdits(d) ==
    /\ commits.edits < MaxDirEdits
    /\ \E i \in Ids, w \in {<<TRUE, "none">>, <<FALSE, "none">>, <<TRUE, "manifest">>, <<TRUE, "files">>} :
          dirs' = [dirs EXCEPT ![d] = [id |-> i, text |-> commits.edits + 1, asks |-> w[1], flaw |-> w[2]]]
    /\ commits' = [commits EXCEPT !.edits = @ + 1]
    /\ UNCHANGED <<file, locker, snap>>

RegNext ==
    \/ \E p \in Procs :
          \/ load(p) \/ lock_registry(p) \/ SaveFails(p) \/ replace(p) \/ ProcessDies(p)
          \/ \E i \in Ids : revoke_permission(p, i) \/ remove_local(p, i) \/ reload_entry(p, i)
          \/ \E i \in Ids, v \in {"on", "off"} : set_enabled(p, i, v)
          \/ \E i \in Ids, d \in Dirs : register_managed(p, i, d)
          \/ \E d \in Dirs : preview(p, d)
          \/ \E g \in BOOLEAN : stage(p, g)
    \/ \E d \in Dirs : AuthorEdits(d)

RegSpec == RegInit /\ [][RegNext]_regVars

-----------------------------------------------------------------------------
(* What has to hold.                                                           *)

RegTypeOK ==
    /\ file \in RegFile /\ locker \in Procs \cup {"free"} /\ dirs \in [Dirs -> Package]
    /\ \A p \in Procs : snap[p].doc \in RegFile /\ (snap[p].pc = "locked") = (locker = p)

(* A writer that holds the lock works on the document it replaces: what it     *)
(* compared its edits with is still there when it renames.                     *)
LatestIsLatest == \A p \in Procs : snap[p].pc = "locked" => snap[p].latest = file

(* What a snapshot shows is what a commit of it would write, so no check made  *)
(* on the snapshot is about something else.                                    *)
SnapshotIsPreview ==
    \A p \in Procs : LET s == snap[p] IN
        /\ s.local = Merge(s, s.doc).local /\ s.managed = Merge(s, s.doc).managed
        /\ \A i \in Ids : s.managed[i] = "current" => s.local[i].dir # "none"

(* An imported or loaded package asks for nothing its authorization lacks, is  *)
(* who it is loaded as, and came from the directory it is authorised for.      *)
LoadedIsAuthorised ==
    \A p \in Procs : snap[p].loaded # <<>> =>
        LET e == snap[p].loaded[1] IN e.pack.flaw = "none" /\ (e.pack.asks => e.auth.grant) /\ e.pack.id = e.id /\ e.auth.dir # "none"

(* An import that waits to be saved has the reviewed content, and is committed *)
(* together with its registration, switched off.                               *)
ImportIsReviewed ==
    \A p \in Procs : snap[p].entry # <<>> =>
        LET e == snap[p].entry[1] IN
        /\ e.pack = snap[p].seen[1].content[2] /\ e.auth.dir = snap[p].seen[1].dir

RegistrySound ==
    RegTypeOK /\ validate(file) /\ LatestIsLatest /\ SnapshotIsPreview /\ LoadedIsAuthorised /\ ImportIsReviewed

(* A commit changes nothing that its writer did not stage: the edits of other  *)
(* processes since it loaded survive, a removed registration and a revoked     *)
(* permission stay so, and the legacy preference goes only with an explicit    *)
(* one.                                                                        *)
OnlyStaged ==
    [][file' # file =>
        \E p \in Procs : LET s == snap[p] IN
            /\ s.pc = "locked"
            /\ \A i \in Ids : /\ file'.local[i] # file.local[i] => s.plocal[i].staged /\ s.plocal[i].expected = file.local[i]
                              /\ file'.pref[i] # file.pref[i] => s.pending[i] # "unset"
                              /\ file'.managed[i] # file.managed[i] => s.pmanaged[i].staged
            /\ file'.legacy # file.legacy => file'.pref[Gui] # "unset"]_regVars

(* Whatever the command line, the running program and the user edit meanwhile: *)
(* the file stays valid, what is loaded was authorised and imported as         *)
(* reviewed, and a commit changes only what its writer staged                  *)
(* (PluginRegistry::save, validate_grants_at).                                 *)
RegistryKept == []RegistrySound /\ OnlyStaged
=============================================================================
