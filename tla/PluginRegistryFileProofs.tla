----------------------- MODULE PluginRegistryFileProofs -----------------------
(* Proofs about PluginRegistryFile, for any plugins, directories, processes   *)
(* and bounds, and in the last part about HostSupervisor.  The inductive      *)
(* invariant of the registry says of every snapshot, by itself,               *)
(* that the edits staged in it lead from the document it was loaded from to   *)
(* the records it shows; of the lock, that its holder's latest document is    *)
(* the file.  A save then compares the edits with the file it replaces.       *)
EXTENDS PluginRegistryFile, HostSupervisor, FiniteSetTheorems, SequenceTheorems, TLAPS

Edit == [staged : BOOLEAN, expected : Reg, desired : Reg]
ManagedEdit == [staged : BOOLEAN, expected : Manage, desired : Manage]
Entry == [id : Ids, pack : Package, auth : Reg]
Reviewed == [id : Ids, dir : Dirs, content : Dirs \X Package,
             registration : Reg \X Manage \X BOOLEAN]
AtMostOne(S) == {<<>>} \cup {<<e>> : e \in S}

Snapshot ==
    [doc : RegFile, local : [Ids -> Reg], managed : [Ids -> Manage], pending : [Ids -> Pref],
     plocal : [Ids -> Edit], pmanaged : [Ids -> ManagedEdit], pc : {"idle", "locked"},
     latest : RegFile, seen : AtMostOne(Reviewed), entry : AtMostOne(Entry),
     loaded : AtMostOne(Entry)]

(* An entry asks for nothing its authorization lacks.                         *)
Authorised(e) ==
    e.pack.flaw = "none" /\ (e.pack.asks => e.auth.grant) /\ e.pack.id = e.id /\ e.auth.dir # "none"

(* The staged edits lead from the loaded document to the records shown.       *)
EditsShown(s) ==
    \A i \in Ids :
        /\ s.plocal[i].staged => s.plocal[i].expected = s.doc.local[i]
        /\ s.local[i] = IF s.plocal[i].staged THEN s.plocal[i].desired ELSE s.doc.local[i]
        /\ s.managed[i] = IF s.pmanaged[i].staged THEN s.pmanaged[i].desired ELSE s.doc.managed[i]

(* A current managed version has a directory.                                 *)
CurrentPlaced(s) == \A i \in Ids : s.managed[i] = "current" => s.local[i].dir # "none"

EntriesSound(s) ==
    /\ s.loaded # <<>> => Authorised(s.loaded[1])
    /\ s.entry # <<>> => /\ Authorised(s.entry[1])
                         /\ s.seen # <<>>
                         /\ s.entry[1].pack = s.seen[1].content[2]
                         /\ s.entry[1].auth.dir = s.seen[1].dir

SnapSound(s) == s \in Snapshot /\ EditsShown(s) /\ CurrentPlaced(s) /\ EntriesSound(s)

Bounds == [n : Nat, edits : 0 .. MaxDirEdits, stages : Nat]

(* The types, and the lock.                                                   *)
LockHeld ==
    \A p \in Procs : /\ snap[p].pc = "locked" <=> locker = p
                     /\ snap[p].pc = "locked" => snap[p].latest = file

RInv ==
    /\ file \in RegFile /\ validate(file)
    /\ locker \in Procs \cup {"free"}
    /\ dirs \in [Dirs -> Package] /\ commits \in Bounds
    /\ DOMAIN snap = Procs /\ snap = [p \in Procs |-> snap[p]]
    /\ \A p \in Procs : SnapSound(snap[p])
    /\ LockHeld

-----------------------------------------------------------------------------
(* A snapshot as loaded is sound.                                             *)
LEMMA FreshSound ==
    ASSUME NEW doc \in RegFile, validate(doc)
    PROVE  SnapSound(FreshSnapshot(doc))
<1>1. FreshSnapshot(doc) \in Snapshot
  BY DEF FreshSnapshot, Snapshot, RegFile, NoEdit, NoManagedEdit, NoReg, Edit, ManagedEdit, Reg, Manage, Pref, AtMostOne
<1>2. EditsShown(FreshSnapshot(doc)) /\ CurrentPlaced(FreshSnapshot(doc)) /\ EntriesSound(FreshSnapshot(doc))
  BY DEF FreshSnapshot, EditsShown, CurrentPlaced, EntriesSound, validate, NoEdit, NoManagedEdit
<1> QED
  BY <1>1, <1>2 DEF SnapSound

(* What stage_local leaves alone, and that it keeps the edits shown.          *)
LEMMA StageLocal ==
    ASSUME NEW s \in Snapshot, EditsShown(s), NEW i \in Ids, NEW r \in Reg
    PROVE  LET t == stage_local(s, i, r)
           IN  /\ t \in Snapshot /\ EditsShown(t)
               /\ t.local = [s.local EXCEPT ![i] = r] /\ t.managed = s.managed
               /\ t.pc = s.pc /\ t.seen = s.seen /\ t.entry = s.entry /\ t.loaded = s.loaded
<1> DEFINE e == IF s.plocal[i].staged THEN s.plocal[i]
                ELSE [staged |-> TRUE, expected |-> s.doc.local[i], desired |-> NoReg]
           f == IF e.expected = NoReg /\ r = NoReg THEN NoEdit ELSE [e EXCEPT !.desired = r]
           t == stage_local(s, i, r)
<1>1. NoReg \in Reg
  BY DEF NoReg, Reg
<1>2. e \in Edit /\ e.staged /\ e.expected = s.doc.local[i]
  BY <1>1 DEF Snapshot, Edit, RegFile, EditsShown
<1>3. /\ f \in Edit
      /\ f.staged => f.expected = s.doc.local[i]
      /\ r = IF f.staged THEN f.desired ELSE s.doc.local[i]
  BY <1>1, <1>2 DEF Edit, NoEdit
<1>4. t = [s EXCEPT !.plocal[i] = f, !.local[i] = r]
  BY DEF stage_local
<1> HIDE DEF e, f, t
<1>5. t \in Snapshot
  BY <1>3, <1>4 DEF Snapshot
<1>6. /\ t.local = [s.local EXCEPT ![i] = r] /\ t.plocal = [s.plocal EXCEPT ![i] = f]
      /\ t.managed = s.managed /\ t.pmanaged = s.pmanaged /\ t.doc = s.doc
      /\ t.pc = s.pc /\ t.seen = s.seen /\ t.entry = s.entry /\ t.loaded = s.loaded
  BY <1>4 DEF Snapshot
<1>7. EditsShown(t)
  BY <1>3, <1>6 DEF EditsShown, Snapshot
<1> QED
  BY <1>5, <1>6, <1>7 DEF t

(* The same of stage_managed.                                                 *)
LEMMA StageManaged ==
    ASSUME NEW s \in Snapshot, EditsShown(s), NEW i \in Ids, NEW m \in Manage
    PROVE  LET t == stage_managed(s, i, m)
           IN  /\ t \in Snapshot /\ EditsShown(t)
               /\ t.managed = [s.managed EXCEPT ![i] = m] /\ t.local = s.local
               /\ t.pc = s.pc /\ t.seen = s.seen /\ t.entry = s.entry /\ t.loaded = s.loaded
<1> DEFINE e == IF s.pmanaged[i].staged THEN s.pmanaged[i]
                ELSE [staged |-> TRUE, expected |-> s.doc.managed[i], desired |-> "none"]
           f == [e EXCEPT !.desired = m]
           t == stage_managed(s, i, m)
<1>0. e \in ManagedEdit /\ e.staged
  <2>1. "none" \in Manage
    BY DEF Manage
  <2> QED
    BY <2>1 DEF Snapshot, ManagedEdit, RegFile
<1>1. f \in ManagedEdit /\ f.staged /\ f.desired = m
  BY <1>0 DEF ManagedEdit
<1>2. t = [s EXCEPT !.pmanaged[i] = f, !.managed[i] = m]
  BY DEF stage_managed
<1> HIDE DEF e, f, t
<1>3. t \in Snapshot
  BY <1>1, <1>2 DEF Snapshot
<1>4. /\ t.managed = [s.managed EXCEPT ![i] = m] /\ t.pmanaged = [s.pmanaged EXCEPT ![i] = f]
      /\ t.local = s.local /\ t.plocal = s.plocal /\ t.doc = s.doc
      /\ t.pc = s.pc /\ t.seen = s.seen /\ t.entry = s.entry /\ t.loaded = s.loaded
  BY <1>2 DEF Snapshot
<1>5. EditsShown(t)
  BY <1>1, <1>4 DEF EditsShown, Snapshot
<1> QED
  BY <1>3, <1>4, <1>5 DEF t

(* A registration of a directory, with whatever managed record goes with it.  *)
LEMMA StageBoth ==
    ASSUME NEW s, SnapSound(s), NEW i \in Ids, NEW r \in Reg, NEW m \in Manage,
           m = "current" => r.dir # "none"
    PROVE  LET t == stage_managed(stage_local(s, i, r), i, m)
           IN  SnapSound(t) /\ t.pc = s.pc /\ t.seen = s.seen
<1> DEFINE u == stage_local(s, i, r)
           t == stage_managed(u, i, m)
<1>1. /\ u \in Snapshot /\ EditsShown(u)
      /\ u.local = [s.local EXCEPT ![i] = r] /\ u.managed = s.managed
      /\ u.pc = s.pc /\ u.seen = s.seen /\ u.entry = s.entry /\ u.loaded = s.loaded
  BY StageLocal DEF SnapSound
<1> HIDE DEF u
<1>2. /\ t \in Snapshot /\ EditsShown(t)
      /\ t.managed = [u.managed EXCEPT ![i] = m] /\ t.local = u.local
      /\ t.pc = u.pc /\ t.seen = u.seen /\ t.entry = u.entry /\ t.loaded = u.loaded
  BY <1>1, StageManaged
<1> HIDE DEF t
<1>3. CurrentPlaced(t)
  BY <1>1, <1>2 DEF CurrentPlaced, SnapSound, Snapshot
<1>4. EntriesSound(t)
  BY <1>1, <1>2 DEF EntriesSound, SnapSound
<1> QED
  BY <1>1, <1>2, <1>3, <1>4 DEF SnapSound, t, u

-----------------------------------------------------------------------------
(* A process that does not hold the lock may take any sound snapshot.         *)
LEMMA Retakes ==
    ASSUME RInv, NEW p \in Procs, NEW t, SnapSound(t), t.pc = "idle", snap[p].pc = "idle",
           snap' = [snap EXCEPT ![p] = t], UNCHANGED <<file, locker, dirs>>, commits' \in Bounds
    PROVE  RInv'
<1>1. /\ DOMAIN snap' = Procs /\ snap' = [q \in Procs |-> snap'[q]]
      /\ \A q \in Procs : snap'[q] = IF q = p THEN t ELSE snap[q]
  BY DEF RInv
<1>2. LockHeld'
  BY <1>1 DEF RInv, LockHeld
<1>3. \A q \in Procs : SnapSound(snap'[q])
  BY <1>1 DEF RInv
<1> QED
  BY <1>1, <1>2, <1>3 DEF RInv, validate

(* A process that gives up the lock may too, and so the file may change with  *)
(* it: nobody else works on the file.                                         *)
LEMMA GivesUp ==
    ASSUME RInv, NEW p \in Procs, NEW t, SnapSound(t), t.pc = "idle", snap[p].pc = "locked",
           snap' = [snap EXCEPT ![p] = t], locker' = "free", UNCHANGED dirs,
           file' \in RegFile, validate(file)', commits' \in Bounds
    PROVE  RInv'
<1>1. /\ DOMAIN snap' = Procs /\ snap' = [q \in Procs |-> snap'[q]]
      /\ \A q \in Procs : snap'[q] = IF q = p THEN t ELSE snap[q]
  BY DEF RInv
<1>2. \A q \in Procs \ {p} : snap[q].pc # "locked"
  BY DEF RInv, LockHeld
<1>3. LockHeld'
  BY <1>1, <1>2, RegistryFileConstants DEF LockHeld
<1>4. \A q \in Procs : SnapSound(snap'[q])
  BY <1>1 DEF RInv
<1> QED
  BY <1>1, <1>3, <1>4 DEF RInv

(* What the staging operations make of a snapshot.                            *)
LEMMA StagedBounds == ASSUME RInv PROVE [commits EXCEPT !.stages = @ + 1] \in Bounds
BY DEF RInv, Bounds

LEMMA SoundStep ==
    ASSUME RInv, NEW p \in Procs, NEW t, SnapSound(t), t.pc = snap[p].pc, MayStage(p), Stages(p, t)
    PROVE  RInv'
<1>1. snap[p].pc = "idle"
  BY DEF MayStage, Free
<1> QED
  BY <1>1, StagedBounds, Retakes DEF Stages

LEMMA RevokeStep ==
    ASSUME RInv, NEW p \in Procs, NEW i \in Ids, revoke_permission(p, i)
    PROVE  RInv'
<1> DEFINE s == snap[p]
           r == remove_permission(s.local[i])
<1>1. SnapSound(s)
  BY DEF RInv
<1>2. r \in Reg /\ r.dir = s.local[i].dir
  <2>1. s.local[i] \in Reg
    BY <1>1 DEF SnapSound, Snapshot
  <2> QED
    BY <2>1 DEF Reg, remove_permission
<1>3. s.managed[i] \in Manage /\ r.dir # "none"
  BY <1>1, <1>2 DEF SnapSound, Snapshot, revoke_permission
<1>4. SnapSound(RegisteredIn(s, i, r)) /\ RegisteredIn(s, i, r).pc = s.pc
  BY <1>1, <1>2, <1>3, StageBoth DEF RegisteredIn
<1> QED
  BY <1>4, SoundStep DEF revoke_permission

LEMMA ManagedStep ==
    ASSUME RInv, NEW p \in Procs, NEW i \in Ids, NEW d \in Dirs, register_managed(p, i, d)
    PROVE  RInv'
<1> DEFINE s == snap[p]
           r == [dir |-> d, grant |-> TRUE]
           t == stage_managed(stage_local(s, i, r), i, "current")
<1>1. SnapSound(s)
  BY DEF RInv
<1>2. r \in Reg /\ r.dir # "none" /\ "current" \in Manage
  BY RegistryFileConstants DEF Reg, Manage
<1>3. SnapSound(t) /\ t.pc = s.pc
  BY <1>1, <1>2, StageBoth
<1> QED
  BY <1>3, SoundStep DEF register_managed

LEMMA RemoveStep ==
    ASSUME RInv, NEW p \in Procs, NEW i \in Ids, remove_local(p, i)
    PROVE  RInv'
<1> DEFINE s == snap[p]
           u == stage_local(s, i, NoReg)
<1>1. SnapSound(s)
  BY DEF RInv
<1>2. NoReg \in Reg /\ "retained" \in Manage
  BY DEF NoReg, Reg, Manage
<1>3. /\ u \in Snapshot /\ EditsShown(u)
      /\ u.local = [s.local EXCEPT ![i] = NoReg] /\ u.managed = s.managed
      /\ u.pc = s.pc /\ u.seen = s.seen /\ u.entry = s.entry /\ u.loaded = s.loaded
  BY <1>1, <1>2, StageLocal DEF SnapSound
<1>4. CASE s.managed[i] = "none"
  <2>1. CurrentPlaced(u)
    BY <1>1, <1>3, <1>4 DEF SnapSound, CurrentPlaced, Snapshot
  <2>2. SnapSound(u)
    BY <1>1, <1>3, <2>1 DEF SnapSound, EntriesSound
  <2>3. Stages(p, u)
    BY <1>3, <1>4 DEF remove_local
  <2> QED
    BY <1>3, <2>2, <2>3, SoundStep DEF remove_local
<1>5. CASE s.managed[i] # "none"
  <2> DEFINE t == stage_managed(u, i, "retained")
  <2>1. SnapSound(t) /\ t.pc = s.pc
    BY <1>1, <1>2, StageBoth
  <2>2. Stages(p, t)
    BY <1>3, <1>5 DEF remove_local
  <2> QED
    BY <2>1, <2>2, SoundStep DEF remove_local
<1> QED
  BY <1>4, <1>5

LEMMA EnableStep ==
    ASSUME RInv, NEW p \in Procs, NEW i \in Ids, NEW v \in {"on", "off"}, set_enabled(p, i, v)
    PROVE  RInv'
<1> DEFINE s == snap[p]
           t == [s EXCEPT !.pending[i] = v]
<1>1. SnapSound(s)
  BY DEF RInv
<1>2. t \in Snapshot
  BY <1>1 DEF SnapSound, Snapshot, Pref
<1>3. /\ t.doc = s.doc /\ t.local = s.local /\ t.managed = s.managed /\ t.plocal = s.plocal
      /\ t.pmanaged = s.pmanaged /\ t.seen = s.seen /\ t.entry = s.entry
      /\ t.loaded = s.loaded /\ t.pc = s.pc
  BY <1>1 DEF SnapSound, Snapshot
<1>4. SnapSound(t)
  BY <1>1, <1>2, <1>3 DEF SnapSound, EditsShown, CurrentPlaced, EntriesSound
<1> QED
  BY <1>3, <1>4, SoundStep DEF set_enabled

(* A preview that is reviewed changes nothing that is shown.                  *)
LEMMA PreviewStep ==
    ASSUME RInv, NEW p \in Procs, NEW d \in Dirs, preview(p, d)
    PROVE  RInv'
<1> DEFINE s == snap[p]
           i == dirs[d].id
           v == [id |-> i, dir |-> d, content |-> content_digest(d),
                 registration |-> registration_digest(s, i)]
           t == [s EXCEPT !.seen = <<v>>]
<1>1. SnapSound(s) /\ s.entry = <<>> /\ s.pc = "idle"
  BY DEF RInv, preview, MayStage, Free
<1>2. dirs[d] \in Package /\ i \in Ids
  BY DEF RInv, Package
<1>3. v \in Reviewed
  <2>1. content_digest(d) \in Dirs \X Package
    BY <1>2 DEF content_digest
  <2>2. s.local[i] \in Reg /\ s.managed[i] \in Manage /\ is_enabled(s, i) \in BOOLEAN
    BY <1>1, <1>2 DEF SnapSound, Snapshot, is_enabled
  <2>3. registration_digest(s, i) \in Reg \X Manage \X BOOLEAN
    BY <2>2 DEF registration_digest
  <2> HIDE DEF i
  <2> QED
    BY <1>2, <2>1, <2>3 DEF Reviewed
<1> HIDE DEF v
<1>4. t \in Snapshot
  BY <1>1, <1>3 DEF SnapSound, Snapshot, AtMostOne
<1>5. /\ t.doc = s.doc /\ t.local = s.local /\ t.managed = s.managed /\ t.plocal = s.plocal
      /\ t.pmanaged = s.pmanaged /\ t.entry = s.entry /\ t.loaded = s.loaded /\ t.pc = s.pc
  BY <1>1 DEF SnapSound, Snapshot
<1>6. SnapSound(t)
  BY <1>1, <1>4, <1>5 DEF SnapSound, EditsShown, CurrentPlaced, EntriesSound
<1> QED
  BY <1>1, <1>5, <1>6, StagedBounds, Retakes DEF preview, v

(* What is staged after a review is the package that was reviewed, and its    *)
(* grants cover what it asks for.                                             *)
LEMMA StageStep ==
    ASSUME RInv, NEW p \in Procs, NEW grant \in BOOLEAN, stage(p, grant)
    PROVE  RInv'
<1> DEFINE s == snap[p]
           v == s.seen[1]
           e == checked_entry(v.id, v.dir, grant)
           r == [dir |-> v.dir, grant |-> grant]
           u == RegisteredIn(s, v.id, r)
           t == [u EXCEPT !.pending[v.id] = "off", !.entry = e]
<1>1. SnapSound(s) /\ s.seen # <<>> /\ s.pc = "idle"
  BY DEF RInv, stage, MayStage, Free
<1>2. v \in Reviewed /\ s.seen = <<v>>
  BY <1>1 DEF SnapSound, Snapshot, AtMostOne
<1>3. v.id \in Ids /\ v.dir \in Dirs /\ dirs[v.dir] \in Package
  BY <1>2 DEF Reviewed, RInv
<1>4. r \in Reg /\ r.dir # "none"
  BY <1>3, RegistryFileConstants DEF Reg
<1>5. /\ e = <<[id |-> v.id, pack |-> dirs[v.dir], auth |-> r]>>
      /\ validate_grants_at(v.dir, grant) /\ inspect_local_plugin(v.dir)
      /\ content_digest(v.dir) = v.content /\ dirs[v.dir].id = v.id
      /\ s.managed[v.id] # "current" /\ e[1].auth = r
      /\ Stages(p, [RegisteredIn(s, v.id, e[1].auth) EXCEPT !.pending[v.id] = "off", !.entry = e])
  BY DEF stage, checked_entry
<1>6. e[1].id = v.id /\ e[1].pack = dirs[v.dir] /\ e[1].auth = r
  <2> HIDE DEF r, v
  <2> QED
    BY <1>5
<1>7. e[1].pack = v.content[2] /\ e[1].auth.dir = v.dir
  <2>1. v.content = <<v.dir, dirs[v.dir]>>
    BY <1>5 DEF content_digest
  <2> HIDE DEF e, v
  <2> QED
    BY <1>6, <2>1
<1>15. Authorised(e[1])
  <2>1. dirs[v.dir].flaw = "none"
    BY <1>3, <1>5 DEF inspect_local_plugin, manifest_valid, entries_read, Package
  <2>2. dirs[v.dir].asks => grant
    BY <1>5 DEF validate_grants_at
  <2> HIDE DEF e, v
  <2> QED
    BY <1>4, <1>5, <1>6, <2>1, <2>2 DEF Authorised
<1>8. e \in AtMostOne(Entry)
  <2>1. [id |-> v.id, pack |-> dirs[v.dir], auth |-> r] \in Entry
    BY <1>3, <1>4 DEF Entry
  <2> QED
    BY <1>5, <2>1 DEF AtMostOne
<1>9. SnapSound(u) /\ u.pc = s.pc /\ u.seen = s.seen
  <2>1. s.managed[v.id] \in Manage
    BY <1>1, <1>3 DEF SnapSound, Snapshot
  <2> QED
    BY <1>1, <1>3, <1>4, <2>1, StageBoth DEF RegisteredIn
<1>10. Stages(p, t)
  BY <1>5
<1> HIDE DEF e, u, r, v
<1>11. t \in Snapshot
  BY <1>3, <1>8, <1>9 DEF SnapSound, Snapshot, Pref
<1>12. /\ t.doc = u.doc /\ t.local = u.local /\ t.managed = u.managed /\ t.plocal = u.plocal
       /\ t.pmanaged = u.pmanaged /\ t.seen = u.seen /\ t.entry = e
       /\ t.loaded = u.loaded /\ t.pc = u.pc
  BY <1>9 DEF SnapSound, Snapshot
<1>13. EntriesSound(t)
  <2>1. t.seen # <<>> /\ t.seen[1] = v
    BY <1>1, <1>9, <1>12 DEF v
  <2> QED
    BY <1>7, <1>9, <1>12, <1>15, <2>1 DEF SnapSound, EntriesSound
<1>14. SnapSound(t)
  BY <1>9, <1>11, <1>12, <1>13 DEF SnapSound, EditsShown, CurrentPlaced
<1> HIDE DEF t
<1> QED
  BY <1>9, <1>10, <1>12, <1>14, SoundStep DEF stage

LEMMA LoadStep == ASSUME RInv, NEW p \in Procs, load(p) PROVE RInv'
<1> DEFINE s == snap[p]
           t == [FreshSnapshot(file) EXCEPT !.loaded = s.loaded]
<1>1. SnapSound(s) /\ s.pc = "idle" /\ SnapSound(FreshSnapshot(file))
  BY FreshSound DEF RInv, load, Free
<1>2. t \in Snapshot
  BY <1>1 DEF SnapSound, Snapshot
<1>3. /\ t.doc = file /\ t.local = FreshSnapshot(file).local /\ t.managed = FreshSnapshot(file).managed
      /\ t.plocal = FreshSnapshot(file).plocal /\ t.pmanaged = FreshSnapshot(file).pmanaged
      /\ t.entry = <<>> /\ t.loaded = s.loaded /\ t.pc = "idle" /\ FreshSnapshot(file).doc = file
  BY DEF FreshSnapshot
<1>4. SnapSound(t)
  BY <1>1, <1>2, <1>3 DEF SnapSound, EditsShown, CurrentPlaced, EntriesSound
<1> QED
  BY <1>1, <1>3, <1>4, Retakes DEF load, RInv

(* A package is loaded for execution under the registration it asks no more   *)
(* than.                                                                      *)
LEMMA ReloadStep == ASSUME RInv, NEW p \in Procs, NEW i \in Ids, reload_entry(p, i) PROVE RInv'
<1> DEFINE s == snap[p]
           r == s.local[i]
           x == [id |-> i, pack |-> dirs[r.dir], auth |-> r]
           t == [s EXCEPT !.loaded = <<x>>]
<1>1. SnapSound(s) /\ s.pc = "idle"
  BY DEF RInv, reload_entry, Free
<1>2. r \in Reg /\ r.dir # "none"
  BY <1>1 DEF SnapSound, Snapshot, reload_entry, LoadableEntry
<1>3. r.dir \in Dirs /\ dirs[r.dir] \in Package
  BY <1>2 DEF Reg, RInv
<1>4. x \in Entry
  BY <1>2, <1>3 DEF Entry
<1>5. Authorised(x)
  <2>1. dirs[r.dir].flaw = "none" /\ dirs[r.dir].id = i /\ (dirs[r.dir].asks => r.grant)
    BY <1>3 DEF reload_entry, LoadableEntry, inspect_local_plugin, manifest_valid, entries_read,
                validate_grants_at, Package
  <2> HIDE DEF r
  <2> QED
    BY <1>2, <2>1 DEF Authorised
<1> HIDE DEF x
<1>6. t \in Snapshot
  BY <1>1, <1>4 DEF SnapSound, Snapshot, AtMostOne
<1>7. /\ t.doc = s.doc /\ t.local = s.local /\ t.managed = s.managed /\ t.plocal = s.plocal
      /\ t.pmanaged = s.pmanaged /\ t.seen = s.seen /\ t.entry = s.entry
      /\ t.loaded = <<x>> /\ t.pc = s.pc
  BY <1>1 DEF SnapSound, Snapshot
<1>8. SnapSound(t)
  BY <1>1, <1>5, <1>6, <1>7 DEF SnapSound, EditsShown, CurrentPlaced, EntriesSound
<1> QED
  BY <1>1, <1>7, <1>8, Retakes DEF reload_entry, x, RInv

LEMMA LockStep == ASSUME RInv, NEW p \in Procs, lock_registry(p) PROVE RInv'
<1> DEFINE s == snap[p]
           t == [s EXCEPT !.pc = "locked", !.latest = file]
<1>1. SnapSound(s) /\ file \in RegFile
  BY DEF RInv
<1>2. t \in Snapshot
  BY <1>1 DEF SnapSound, Snapshot
<1>3. /\ t.doc = s.doc /\ t.local = s.local /\ t.managed = s.managed /\ t.plocal = s.plocal
      /\ t.pmanaged = s.pmanaged /\ t.seen = s.seen /\ t.entry = s.entry
      /\ t.loaded = s.loaded /\ t.pc = "locked" /\ t.latest = file
  BY <1>1 DEF SnapSound, Snapshot
<1>4. SnapSound(t)
  BY <1>1, <1>2, <1>3 DEF SnapSound, EditsShown, CurrentPlaced, EntriesSound
<1>5. snap' = [snap EXCEPT ![p] = t] /\ locker' = p /\ locker = "free" /\ UNCHANGED <<file, dirs, commits>>
  BY DEF lock_registry, RInv
<1> HIDE DEF t
<1>6. /\ DOMAIN snap' = Procs /\ snap' = [q \in Procs |-> snap'[q]]
      /\ \A q \in Procs : snap'[q] = IF q = p THEN t ELSE snap[q]
  BY <1>5 DEF RInv
<1>7. \A q \in Procs : snap[q].pc # "locked"
  BY <1>5, RegistryFileConstants DEF RInv, LockHeld
<1>8. LockHeld'
  BY <1>3, <1>5, <1>6, <1>7 DEF LockHeld
<1>9. \A q \in Procs : SnapSound(snap'[q])
  BY <1>4, <1>6 DEF RInv
<1> QED
  BY <1>5, <1>6, <1>8, <1>9 DEF RInv, validate

LEMMA SaveFailsStep == ASSUME RInv, NEW p \in Procs, SaveFails(p) PROVE RInv'
<1> DEFINE s == snap[p]
           t == Unlock(s)
<1>1. SnapSound(s) /\ s.pc = "locked"
  BY DEF RInv, SaveFails
<1>2. t \in Snapshot
  BY <1>1 DEF SnapSound, Snapshot, Unlock
<1>3. /\ t.doc = s.doc /\ t.local = s.local /\ t.managed = s.managed /\ t.plocal = s.plocal
      /\ t.pmanaged = s.pmanaged /\ t.seen = s.seen /\ t.entry = s.entry
      /\ t.loaded = s.loaded /\ t.pc = "idle"
  BY <1>1 DEF SnapSound, Snapshot, Unlock
<1>4. SnapSound(t)
  BY <1>1, <1>2, <1>3 DEF SnapSound, EditsShown, CurrentPlaced, EntriesSound
<1> QED
  BY <1>1, <1>3, <1>4, GivesUp DEF SaveFails, RInv, validate

LEMMA DiesStep == ASSUME RInv, NEW p \in Procs, ProcessDies(p) PROVE RInv'
<1>1. SnapSound(FreshSnapshot(file)) /\ FreshSnapshot(file).pc = "idle"
  BY FreshSound DEF RInv, FreshSnapshot
<1> QED
  BY <1>1, GivesUp DEF ProcessDies, RInv, validate

(* What the edits of a sound snapshot make of a document is a document.       *)
LEMMA MergeType ==
    ASSUME NEW s \in Snapshot, NEW doc \in RegFile
    PROVE  Merge(s, doc) \in RegFile
<1>1. [i \in Ids |-> IF s.plocal[i].staged THEN s.plocal[i].desired ELSE doc.local[i]] \in [Ids -> Reg]
  BY DEF Snapshot, RegFile, Edit
<1>2. [i \in Ids |-> IF s.pending[i] # "unset" THEN s.pending[i] ELSE doc.pref[i]] \in [Ids -> Pref]
  BY DEF Snapshot, RegFile
<1>3. (IF s.pending[Gui] # "unset" THEN "unset" ELSE doc.legacy) \in Pref
  BY DEF RegFile, Pref
<1>4. [i \in Ids |-> IF s.pmanaged[i].staged THEN s.pmanaged[i].desired ELSE doc.managed[i]] \in [Ids -> Manage]
  BY DEF Snapshot, RegFile, ManagedEdit
<1> QED
  BY <1>1, <1>2, <1>3, <1>4 DEF Merge, RegFile

LEMMA ReplaceStep == ASSUME RInv, NEW p \in Procs, replace(p) PROVE RInv'
<1> DEFINE s == snap[p]
           doc == Merged(s)
           t == [FreshSnapshot(doc) EXCEPT !.loaded = IF s.entry # <<>> THEN s.entry ELSE s.loaded]
<1>1. SnapSound(s) /\ s.pc = "locked" /\ validate(doc)
  BY DEF RInv, replace
<1>2. doc \in RegFile
  BY <1>1, MergeType DEF SnapSound, Snapshot, Merged
<1>3. SnapSound(FreshSnapshot(doc))
  BY <1>1, <1>2, FreshSound
<1> HIDE DEF doc
<1>4. t \in Snapshot
  BY <1>1, <1>3 DEF SnapSound, Snapshot
<1>5. /\ t.doc = doc /\ t.local = FreshSnapshot(doc).local /\ t.managed = FreshSnapshot(doc).managed
      /\ t.plocal = FreshSnapshot(doc).plocal /\ t.pmanaged = FreshSnapshot(doc).pmanaged
      /\ t.entry = <<>> /\ t.pc = "idle" /\ FreshSnapshot(doc).doc = doc
      /\ t.loaded = IF s.entry # <<>> THEN s.entry ELSE s.loaded
  BY DEF FreshSnapshot
<1>6. SnapSound(t)
  BY <1>1, <1>3, <1>4, <1>5 DEF SnapSound, EditsShown, CurrentPlaced, EntriesSound
<1>7. [commits EXCEPT !.n = @ + 1] \in Bounds
  BY DEF RInv, Bounds
<1>8. /\ snap' = [snap EXCEPT ![p] = t] /\ locker' = "free" /\ UNCHANGED dirs
      /\ file' = doc /\ commits' \in Bounds
  BY <1>7 DEF replace, doc
<1>9. file' \in RegFile /\ validate(file)'
  BY <1>1, <1>2, <1>8 DEF validate
<1> HIDE DEF t
<1> QED
  BY <1>1, <1>5, <1>6, <1>8, <1>9, GivesUp

LEMMA AuthorStep == ASSUME RInv, NEW d \in Dirs, AuthorEdits(d) PROVE RInv'
<1>1. dirs' \in [Dirs -> Package]
  <2>1. PICK i \in Ids, w \in {<<TRUE, "none">>, <<FALSE, "none">>, <<TRUE, "manifest">>, <<TRUE, "files">>} :
           dirs' = [dirs EXCEPT ![d] = [id |-> i, text |-> commits.edits + 1, asks |-> w[1], flaw |-> w[2]]]
    BY DEF AuthorEdits
  <2>2. commits.edits + 1 \in 0 .. MaxDirEdits
    BY RegistryFileConstants DEF AuthorEdits, RInv, Bounds
  <2>3. w[1] \in BOOLEAN /\ w[2] \in {"none", "manifest", "files"}
    <3>1. CASE w = <<TRUE, "none">>
      BY <3>1
    <3>2. CASE w = <<FALSE, "none">>
      BY <3>2
    <3>3. CASE w = <<TRUE, "manifest">>
      BY <3>3
    <3>4. CASE w = <<TRUE, "files">>
      BY <3>4
    <3> QED
      BY <2>1, <3>1, <3>2, <3>3, <3>4
  <2>4. [id |-> i, text |-> commits.edits + 1, asks |-> w[1], flaw |-> w[2]] \in Package
    BY <2>2, <2>3 DEF Package
  <2> QED
    BY <2>1, <2>4 DEF RInv
<1>2. commits' \in Bounds
  BY RegistryFileConstants DEF AuthorEdits, RInv, Bounds
<1> QED
  BY <1>1, <1>2 DEF AuthorEdits, RInv, LockHeld, validate

-----------------------------------------------------------------------------
LEMMA RInvInit == RegInit => RInv
<1> SUFFICES ASSUME RegInit PROVE RInv
  OBVIOUS
<1>1. file \in RegFile /\ validate(file)
  BY DEF RegInit, RegFile, Reg, NoReg, Pref, Manage, validate
<1>2. SnapSound(FreshSnapshot(file)) /\ FreshSnapshot(file).pc = "idle"
  BY <1>1, FreshSound DEF FreshSnapshot
<1>3. commits \in Bounds
  BY RegistryFileConstants DEF RegInit, Bounds
<1>4. LockHeld
  BY <1>2, RegistryFileConstants DEF RegInit, LockHeld
<1> QED
  BY <1>1, <1>2, <1>3, <1>4 DEF RegInit, RInv

LEMMA RInvStep == RInv /\ [RegNext]_regVars => RInv'
<1> SUFFICES ASSUME RInv, [RegNext]_regVars PROVE RInv'
  OBVIOUS
<1>1. CASE UNCHANGED regVars
  BY <1>1 DEF regVars, RInv, LockHeld, validate
<1>2. ASSUME NEW p \in Procs, load(p) PROVE RInv'
  BY <1>2, LoadStep
<1>3. ASSUME NEW p \in Procs, lock_registry(p) PROVE RInv'
  BY <1>3, LockStep
<1>4. ASSUME NEW p \in Procs, SaveFails(p) PROVE RInv'
  BY <1>4, SaveFailsStep
<1>5. ASSUME NEW p \in Procs, replace(p) PROVE RInv'
  BY <1>5, ReplaceStep
<1>6. ASSUME NEW p \in Procs, ProcessDies(p) PROVE RInv'
  BY <1>6, DiesStep
<1>7. ASSUME NEW p \in Procs, NEW i \in Ids, revoke_permission(p, i) PROVE RInv'
  BY <1>7, RevokeStep
<1>8. ASSUME NEW p \in Procs, NEW i \in Ids, remove_local(p, i) PROVE RInv'
  BY <1>8, RemoveStep
<1>9. ASSUME NEW p \in Procs, NEW i \in Ids, reload_entry(p, i) PROVE RInv'
  BY <1>9, ReloadStep
<1>10. ASSUME NEW p \in Procs, NEW i \in Ids, NEW v \in {"on", "off"}, set_enabled(p, i, v) PROVE RInv'
  BY <1>10, EnableStep
<1>11. ASSUME NEW p \in Procs, NEW i \in Ids, NEW d \in Dirs, register_managed(p, i, d) PROVE RInv'
  BY <1>11, ManagedStep
<1>12. ASSUME NEW p \in Procs, NEW d \in Dirs, preview(p, d) PROVE RInv'
  BY <1>12, PreviewStep
<1>13. ASSUME NEW p \in Procs, NEW grant \in BOOLEAN, stage(p, grant) PROVE RInv'
  BY <1>13, StageStep
<1>14. ASSUME NEW d \in Dirs, AuthorEdits(d) PROVE RInv'
  BY <1>14, AuthorStep
<1> QED
  BY <1>1, <1>2, <1>3, <1>4, <1>5, <1>6, <1>7, <1>8, <1>9, <1>10, <1>11, <1>12, <1>13, <1>14
     DEF RegNext

(* The invariant implies what the runs check.                                 *)
LEMMA RInvSound == RInv => RegistrySound
<1> SUFFICES ASSUME RInv PROVE RegistrySound
  OBVIOUS
<1>1. RegTypeOK
  <2>1. \A p \in Procs : snap[p].doc \in RegFile
    BY DEF RInv, SnapSound, Snapshot
  <2> QED
    BY <2>1 DEF RInv, LockHeld, RegTypeOK
<1>2. LatestIsLatest
  BY DEF RInv, LockHeld, LatestIsLatest
<1>3. SnapshotIsPreview
  <2> SUFFICES ASSUME NEW p \in Procs
               PROVE  /\ snap[p].local = Merge(snap[p], snap[p].doc).local
                      /\ snap[p].managed = Merge(snap[p], snap[p].doc).managed
                      /\ \A i \in Ids : snap[p].managed[i] = "current" => snap[p].local[i].dir # "none"
    BY DEF SnapshotIsPreview
  <2> DEFINE s == snap[p]
  <2>1. s \in Snapshot /\ EditsShown(s) /\ CurrentPlaced(s)
    BY DEF RInv, SnapSound
  <2> HIDE DEF s
  <2>2. s.local = [i \in Ids |-> IF s.plocal[i].staged THEN s.plocal[i].desired ELSE s.doc.local[i]]
    <3>1. s.local = [i \in Ids |-> s.local[i]]
      BY <2>1 DEF Snapshot
    <3> QED
      BY <2>1, <3>1 DEF EditsShown
  <2>3. s.managed = [i \in Ids |-> IF s.pmanaged[i].staged THEN s.pmanaged[i].desired ELSE s.doc.managed[i]]
    <3>1. s.managed = [i \in Ids |-> s.managed[i]]
      BY <2>1 DEF Snapshot
    <3> QED
      BY <2>1, <3>1 DEF EditsShown
  <2>4. s.local = Merge(s, s.doc).local /\ s.managed = Merge(s, s.doc).managed
    BY <2>2, <2>3 DEF Merge
  <2> QED
    BY <2>1, <2>4 DEF s, CurrentPlaced
<1>4. LoadedIsAuthorised
  BY DEF RInv, SnapSound, EntriesSound, Authorised, LoadedIsAuthorised
<1>5. ImportIsReviewed
  BY DEF RInv, SnapSound, EntriesSound, ImportIsReviewed
<1> QED
  BY <1>1, <1>2, <1>3, <1>4, <1>5 DEF RegistrySound, RInv

(* Only a save changes the file, and it changes what its writer staged.       *)
StagedBy(p) ==
    LET s == snap[p] IN
    /\ s.pc = "locked"
    /\ \A i \in Ids : /\ file'.local[i] # file.local[i] => s.plocal[i].staged /\ s.plocal[i].expected = file.local[i]
                      /\ file'.pref[i] # file.pref[i] => s.pending[i] # "unset"
                      /\ file'.managed[i] # file.managed[i] => s.pmanaged[i].staged
    /\ file'.legacy # file.legacy => file'.pref[Gui] # "unset"

LEMMA ReplaceStaged == ASSUME RInv, NEW p \in Procs, replace(p) PROVE StagedBy(p)
<1> DEFINE s == snap[p]
<1>1. s.latest = file /\ s.pc = "locked" /\ NoConflict(s) /\ file' = Merge(s, file)
  BY DEF RInv, LockHeld, replace, Merged
<1>2. /\ file'.local = [i \in Ids |-> IF s.plocal[i].staged THEN s.plocal[i].desired ELSE file.local[i]]
      /\ file'.pref = [i \in Ids |-> IF s.pending[i] # "unset" THEN s.pending[i] ELSE file.pref[i]]
      /\ file'.legacy = IF s.pending[Gui] # "unset" THEN "unset" ELSE file.legacy
      /\ file'.managed = [i \in Ids |-> IF s.pmanaged[i].staged THEN s.pmanaged[i].desired ELSE file.managed[i]]
  BY <1>1 DEF Merge
<1> QED
  BY <1>1, <1>2, RegistryFileConstants DEF StagedBy, NoConflict

LEMMA OnlyStagedStep == RInv /\ [RegNext]_regVars => [file' # file => \E p \in Procs : StagedBy(p)]_regVars
<1> SUFFICES ASSUME RInv, RegNext, file' # file PROVE \E p \in Procs : StagedBy(p)
  OBVIOUS
<1>1. PICK p \in Procs : replace(p)
  BY ZenonT(60) DEF RegNext, load, lock_registry, SaveFails, ProcessDies, revoke_permission, remove_local,
         reload_entry, set_enabled, register_managed, preview, stage, AuthorEdits, Stages
<1> QED
  BY <1>1, ReplaceStaged

(* Whatever the command line, the running program and the authors of packages *)
(* do meanwhile, the registry stays valid, and what is loaded was authorised  *)
(* and imported as reviewed (PluginRegistry::save, validate_grants_at).       *)
THEOREM RegistryIsSound == RegSpec => []RegistrySound
<1>1. RInv /\ [RegNext]_regVars => RInv'
  BY RInvStep
<1> QED
  BY RInvInit, <1>1, RInvSound, PTL DEF RegSpec

(* And a commit changes nothing that its writer did not stage, so that the    *)
(* edits of other processes survive (save merges into the latest document).   *)
THEOREM RegistryIsKept == RegSpec => RegistryKept
<1>1. RInv /\ [RegNext]_regVars => RInv'
  BY RInvStep
<1>2. RegSpec => [][file' # file => \E p \in Procs : StagedBy(p)]_regVars
  BY RInvInit, <1>1, OnlyStagedStep, PTL DEF RegSpec
<1>3. RegSpec => OnlyStaged
  BY <1>2 DEF OnlyStaged, StagedBy
<1> QED
  BY <1>3, RegistryIsSound, PTL DEF RegistryKept

-----------------------------------------------------------------------------
(* A supervised Host.                                                        *)

(* How often each id had an outcome, and each request of the child an        *)
(* answer.                                                                   *)
SupPast == [outcomes : [Id -> Nat], answers : [Id -> Nat]]

(* Ids that are pending or not yet used had none; the last one is kept for   *)
(* the shutdown request.                                                     *)
SupCounted(s, p) ==
    /\ \A k \in s.pending : k <= s.issued
    /\ \A k \in s.asked : k <= s.received
    /\ \A k \in Id :
          /\ p.outcomes[k] <= 1 /\ (k \in s.pending \/ k > s.issued => p.outcomes[k] = 0)
          /\ p.answers[k] <= 1 /\ (k \in s.asked \/ k > s.received => p.answers[k] = 0)
    /\ ~s.began => s.issued < MaxId

(* What the supervisor knows of the end, against the process, its job and    *)
(* the workers; a turn that began with the workers joined cannot see a frame *)
(* or a failure arrive.                                                      *)
SupEnding(c, i, s) ==
    /\ Len(i.incoming) <= QUEUE_FRAMES
    /\ s.exit => ~c.alive
    /\ s.jobEmpty => s.exit /\ ~c.job
    /\ s.joined => i.running = {}
    /\ s.final => i.running = {} /\ (s.state = "failed" \/ ~i.failure)
    /\ s.final /\ s.exhausted => s.state = "failed" \/ i.incoming = <<>>
    /\ s.reported =>
          /\ ~c.alive /\ ~c.job /\ i.running = {} /\ s.pending = {}
          /\ s.state = "failed" \/ (i.incoming = <<>> /\ ~i.failure)

(* Both, with the types, ...                                                 *)
SupHolds(c, i, s, p) ==
    /\ c \in Child /\ i \in IoState /\ s \in Supervisor /\ p \in SupPast
    /\ SupCounted(s, p) /\ SupEnding(c, i, s)

(* ... are the inductive invariant of a supervised Host.                     *)
SupInv == SupHolds(child, io, sup, past)

(* The three records a call of the owner works on, as one, ...               *)
SupAll == [child : Child, io : IoState, sup : Supervisor]

(* ... which hold the invariant between the pieces of a call.                *)
SupFine(x, p) == x \in SupAll /\ SupHolds(x.child, x.io, x.sup, p)

(* The bounds as numbers.                                                    *)
LEMMA SupNumbers ==
  /\ QUEUE_FRAMES \in Nat /\ QUEUE_FRAMES > 0 /\ MaxId \in Nat /\ MaxId > 0 /\ MaxFrames \in Nat /\ Id = 1 .. MaxId
  /\ 0 \in 0 .. MaxId /\ 0 \in 0 .. QUEUE_FRAMES /\ 0 \in 0 .. MaxFrames
  BY SupervisorConstants DEF Id

(* A call begins in a state that holds it, ...                               *)
LEMMA SupNow ==
  ASSUME SupInv
  PROVE  /\ SupFine(Now, past) /\ Now.child = child /\ Now.io = io /\ Now.sup = sup
         /\ child \in Child /\ io \in IoState /\ sup \in Supervisor /\ past \in SupPast
         /\ SupCounted(sup, past) /\ SupEnding(child, io, sup)
  BY DEF SupInv, SupFine, SupAll, Now, SupHolds

(* ... and may end in any record that does.                                  *)
LEMMA SupBecomes ==
  ASSUME NEW x, Becomes(x), SupFine(x, past)'
  PROVE  SupInv'
  BY DEF SupInv, SupFine, Becomes

(* fail: a failed Host holds the invariant with nothing outstanding.         *)
LEMMA SupFails ==
  ASSUME NEW x, NEW p, SupFine(x, p), ~x.sup.reported
  PROVE  LET y == Fail(x) IN
         /\ SupFine(y, p) /\ y.sup.state = "failed" /\ ~y.sup.reported /\ y.sup.pending = {} /\ y.sup.asked = {}
         /\ y.sup.issued = x.sup.issued /\ y.sup.received = x.sup.received /\ y.sup.began = x.sup.began
         /\ y.sup.exit = x.sup.exit /\ y.io.outgoing = x.io.outgoing /\ y.io.running = x.io.running /\ y.child.alive = x.child.alive
<1>1. PICK c, i, s, y : c = x.child /\ i = x.io /\ s = x.sup /\ y = Fail(x)
  OBVIOUS
<1>2. c \in Child /\ i \in IoState /\ s \in Supervisor /\ x = [child |-> c, io |-> i, sup |-> s] /\ ~s.reported
      /\ SupCounted(s, p) /\ SupEnding(c, i, s) /\ p \in SupPast
  BY <1>1 DEF SupFine, SupAll, SupHolds
<1>3. PICK d, j, t : /\ d = [c EXCEPT !.killed = TRUE] /\ j = [i EXCEPT !.stopping = TRUE]
                     /\ t = [s EXCEPT !.state = "failed", !.pending = {}, !.asked = {}, !.open = FALSE]
  OBVIOUS
<1>4. y = [child |-> d, io |-> j, sup |-> t]
  BY <1>1, <1>2, <1>3 DEF Fail
<1>5. d \in Child /\ d.alive = c.alive /\ d.job = c.job
  BY <1>2, <1>3 DEF Child
<1>6. j \in IoState /\ j.incoming = i.incoming /\ j.running = i.running /\ j.failure = i.failure /\ j.outgoing = i.outgoing
  BY <1>2, <1>3 DEF IoState
<1>7. t \in Supervisor
  BY <1>2, <1>3 DEF Supervisor, HostState
<1>8. /\ t.state = "failed" /\ t.pending = {} /\ t.asked = {} /\ t.issued = s.issued /\ t.received = s.received
      /\ t.began = s.began /\ t.exit = s.exit /\ t.jobEmpty = s.jobEmpty /\ t.joined = s.joined /\ t.final = s.final
      /\ t.reported = s.reported /\ t.exhausted = s.exhausted
  BY <1>2, <1>3 DEF Supervisor
<1>9. SupCounted(t, p)
  BY <1>2, <1>8 DEF SupCounted
<1>10. SupEnding(d, j, t)
  BY <1>2, <1>5, <1>6, <1>8 DEF SupEnding
<1> QED
  BY <1>1, <1>2, <1>4, <1>5, <1>6, <1>7, <1>8, <1>9, <1>10 DEF SupFine, SupAll, SupHolds

(* What a piece of a call leaves alone or only empties.                      *)
SupSame(x, y) ==
    /\ y.sup.state \in {x.sup.state, "failed"} /\ ~y.sup.reported
    /\ y.sup.issued = x.sup.issued /\ y.sup.received = x.sup.received /\ y.sup.began = x.sup.began
    /\ y.sup.exit = x.sup.exit /\ y.io.running = x.io.running /\ y.child.alive = x.child.alive
    /\ y.sup.pending \subseteq x.sup.pending /\ y.sup.asked \subseteq x.sup.asked

(* enqueue takes the frame, fails the Host, or finds the queue closed.       *)
LEMMA SupEnqueues ==
  ASSUME NEW x, NEW p, SupFine(x, p), ~x.sup.reported
  PROVE  LET y == enqueue(x) IN
         /\ SupFine(y, p) /\ SupSame(x, y)
         /\ Enqueued(x, y) => y.sup = x.sup /\ y.child = x.child /\ y.io.incoming = x.io.incoming
<1>1. PICK c, i, s, y : c = x.child /\ i = x.io /\ s = x.sup /\ y = enqueue(x)
  OBVIOUS
<1>2. c \in Child /\ i \in IoState /\ s \in Supervisor /\ x = [child |-> c, io |-> i, sup |-> s] /\ ~s.reported
      /\ SupCounted(s, p) /\ SupEnding(c, i, s) /\ p \in SupPast
  BY <1>1 DEF SupFine, SupAll, SupHolds
<1>3. CASE x.sup.open /\ "stdin" \in x.io.running /\ x.io.outgoing < QUEUE_FRAMES
  <2>1. PICK n, j : n = i.outgoing + 1 /\ j = [i EXCEPT !.outgoing = n]
    OBVIOUS
  <2>2. n \in 0 .. QUEUE_FRAMES
    BY <1>1, <1>2, <1>3, <2>1, SupNumbers DEF IoState
  <2>3. y = [child |-> c, io |-> j, sup |-> s]
    BY <1>1, <1>2, <1>3, <2>1 DEF enqueue
  <2>4. j \in IoState /\ j.incoming = i.incoming /\ j.running = i.running /\ j.failure = i.failure
    BY <1>2, <2>1, <2>2 DEF IoState
  <2>5. SupEnding(c, j, s)
    BY <1>2, <2>4 DEF SupEnding
  <2>6. SupFine(y, p)
    BY <1>2, <2>3, <2>4, <2>5 DEF SupFine, SupAll, SupHolds
  <2>7. SupSame(x, y)
    BY <1>2, <2>3, <2>4 DEF SupSame
  <2> QED
    BY <1>1, <1>2, <2>3, <2>4, <2>6, <2>7
<1>4. CASE ~(x.sup.open /\ "stdin" \in x.io.running /\ x.io.outgoing < QUEUE_FRAMES) /\ x.sup.open
  <2>1. y = Fail(x)
    BY <1>1, <1>4 DEF enqueue
  <2>2. SupFine(y, p) /\ y.io.outgoing = x.io.outgoing
    BY <1>2, <2>1, SupFails
  <2>3. SupSame(x, y)
    BY <1>2, <2>1, SupFails DEF SupSame
  <2> QED
    BY <1>1, <2>2, <2>3 DEF Enqueued
<1>5. CASE ~x.sup.open
  <2>1. y = x
    BY <1>1, <1>5 DEF enqueue
  <2> QED
    BY <1>1, <1>2, <2>1 DEF Enqueued, SupSame
<1> QED
  BY <1>3, <1>4, <1>5

(* A step of the supervisor's own record that ends nothing.                  *)
SupKeeps(s, t) ==
    /\ t.exit = s.exit /\ t.jobEmpty = s.jobEmpty /\ t.joined = s.joined /\ t.final = s.final
    /\ t.reported = s.reported /\ t.exhausted = s.exhausted /\ (s.state = "failed" => t.state = "failed")

(* A request is issued under an id that had no outcome, or not at all.       *)
LEMMA SupIssues ==
  ASSUME NEW x, NEW p, SupFine(x, p), ~x.sup.reported, x.sup.issued < MaxId, x.sup.began \/ x.sup.issued + 1 < MaxId
  PROVE  LET y == Issue(x) IN
         /\ SupFine(y, p) /\ y.sup.state \in {x.sup.state, "failed"} /\ ~y.sup.reported /\ y.sup.began = x.sup.began
         /\ y.sup.asked \subseteq x.sup.asked /\ y.sup.exit = x.sup.exit
<1>1. PICK y, z, id : y = enqueue(x) /\ z = Issue(x) /\ id = x.sup.issued + 1
  OBVIOUS
<1>2. SupFine(y, p) /\ SupSame(x, y) /\ (Enqueued(x, y) => y.sup = x.sup)
  BY <1>1, SupEnqueues
<1>3. CASE ~Enqueued(x, y)
  <2>1. z = y
    BY <1>1, <1>3 DEF Issue
  <2> QED
    BY <1>1, <1>2, <2>1 DEF SupSame
<1>4. CASE Enqueued(x, y)
  <2>1. PICK c, i, s : c = y.child /\ i = y.io /\ s = y.sup
    OBVIOUS
  <2>2. /\ c \in Child /\ i \in IoState /\ s \in Supervisor /\ y = [child |-> c, io |-> i, sup |-> s] /\ ~s.reported
        /\ SupCounted(s, p) /\ SupEnding(c, i, s) /\ p \in SupPast /\ s = x.sup
    BY <1>2, <1>4, <2>1 DEF SupFine, SupAll, SupHolds
  <2>3. PICK P, t : P = s.pending \cup {id} /\ t = [s EXCEPT !.issued = id, !.pending = P]
    OBVIOUS
  <2>4. z = [child |-> c, io |-> i, sup |-> t]
    <3>1. z = [y EXCEPT !.sup.issued = id, !.sup.pending = @ \cup {id}]
      BY <1>1, <1>4 DEF Issue
    <3>2. y.sup = s /\ s \in Supervisor /\ y = [child |-> c, io |-> i, sup |-> s]
      BY <2>1, <2>2
    <3>3. z = [y EXCEPT !.sup = t]
      BY <2>3, <3>1, <3>2 DEF Supervisor
    <3> QED
      BY <3>2, <3>3
  <2>5. id \in Id /\ id = s.issued + 1 /\ s.issued \in Nat /\ id \in 0 .. MaxId /\ (s.began \/ id < MaxId)
    BY <1>1, <2>2, SupNumbers DEF Supervisor
  <2>6. P \in SUBSET Id
    BY <2>2, <2>3, <2>5 DEF Supervisor
  <2>7. t \in Supervisor /\ t.pending = P /\ t.issued = id /\ t.asked = s.asked /\ t.received = s.received
        /\ t.began = s.began /\ t.state = s.state /\ SupKeeps(s, t)
    BY ZenonT(60), <2>2, <2>3, <2>5, <2>6 DEF Supervisor, SupKeeps
  <2>8. SupCounted(t, p)
    <3>1. \A k \in Id : k \in Nat
      BY SupNumbers
    <3>2. p.outcomes[id] = 0
      BY <2>2, <2>5 DEF SupCounted
    <3>3. \A k \in P : k <= id
      <4>1. \A k \in s.pending : k <= s.issued /\ k \in Nat
        BY <2>2, <3>1 DEF SupCounted, Supervisor
      <4> QED
        BY <2>3, <2>5, <4>1
    <3>4. \A k \in Id : k > id => k > s.issued
      BY <2>5, <3>1
    <3> QED
      BY <2>2, <2>3, <2>5, <2>7, <3>2, <3>3, <3>4 DEF SupCounted
  <2>9. SupEnding(c, i, t)
    BY <2>2, <2>7 DEF SupEnding, SupKeeps
  <2>10. SupFine(z, p)
    BY <2>2, <2>4, <2>7, <2>8, <2>9 DEF SupFine, SupAll, SupHolds
  <2> QED
    BY <1>1, <2>2, <2>4, <2>7, <2>10 DEF SupKeeps
<1> QED
  BY <1>3, <1>4

(* send_request and notify.                                                  *)
LEMMA SupSends ==
  ASSUME SupInv, ~sup.reported, send_request \/ notify
  PROVE  SupInv'
<1>1. PICK x : x = Now
  OBVIOUS
<1>2. SupFine(x, past) /\ ~x.sup.reported /\ x.sup = sup /\ sup \in Supervisor
  BY <1>1, SupNow
<1>3. CASE send_request
  <2>1. PICK y : y = Issue(x)
    OBVIOUS
  <2>2. Becomes(y) /\ past' = past /\ sup.issued < MaxId - 1
    BY <1>1, <1>3, <2>1 DEF send_request
  <2>3. x.sup.issued < MaxId /\ x.sup.issued + 1 < MaxId
    BY <1>2, <2>2, SupNumbers DEF Supervisor
  <2>4. SupFine(y, past)
    BY <1>2, <2>1, <2>3, SupIssues
  <2>5. SupFine(y, past)'
    BY <2>2, <2>4
  <2> QED
    BY <2>2, <2>5, SupBecomes
<1>4. CASE notify
  <2>1. PICK y : y = enqueue(x)
    OBVIOUS
  <2>2. Becomes(y) /\ past' = past
    BY <1>1, <1>4, <2>1 DEF notify
  <2>3. SupFine(y, past)
    BY <1>2, <2>1, SupEnqueues
  <2> QED
    BY <2>2, <2>3, SupBecomes DEF SupFine
<1> QED
  BY <1>3, <1>4

(* A step that only sets fields of the supervisor.                           *)
LEMMA SupSets ==
  ASSUME SupInv, ~sup.reported, NEW t \in Supervisor, sup' = t, UNCHANGED <<child, io, past>>, SupCounted(t, past), SupKeeps(sup, t)
  PROVE  SupInv'
<1>1. SupEnding(child, io, t)
  BY SupNow DEF SupEnding, SupKeeps
<1> QED
  BY <1>1, SupNow DEF SupInv, SupHolds

(* mark_ready, cancel_request and stop.                                      *)
LEMMA SupCalls ==
  ASSUME SupInv, ~sup.reported, mark_ready \/ stop \/ \E id \in Id : cancel_request(id)
  PROVE  SupInv'
<1>1. PICK c, i, s, q : c = child /\ i = io /\ s = sup /\ q = past
  OBVIOUS
<1>2. c \in Child /\ i \in IoState /\ s \in Supervisor /\ SupCounted(s, q) /\ SupEnding(c, i, s) /\ q \in SupPast /\ ~s.reported
  BY <1>1, SupNow
<1>3. CASE mark_ready
  <2>1. PICK t : t = [s EXCEPT !.state = "ready"]
    OBVIOUS
  <2>2. s.state = "starting" /\ sup' = t /\ UNCHANGED <<child, io, past>>
    BY <1>1, <1>3, <2>1 DEF mark_ready
  <2>3. /\ t \in Supervisor /\ SupKeeps(s, t) /\ t.pending = s.pending /\ t.asked = s.asked /\ t.issued = s.issued
        /\ t.received = s.received /\ t.began = s.began
    BY <1>2, <2>1, <2>2 DEF Supervisor, HostState, SupKeeps
  <2>4. SupCounted(t, q)
    BY <1>2, <2>3 DEF SupCounted
  <2> QED
    BY <1>1, <2>2, <2>3, <2>4, SupSets
<1>4. ASSUME NEW id \in Id, cancel_request(id)
      PROVE  SupInv'
  <2>1. PICK P, t : P = s.pending \ {id} /\ t = [s EXCEPT !.pending = P]
    OBVIOUS
  <2>2. sup' = t /\ UNCHANGED <<child, io, past>> /\ P \subseteq s.pending
    BY <1>1, <1>4, <2>1 DEF cancel_request
  <2>3. /\ t \in Supervisor /\ SupKeeps(s, t) /\ t.pending = P /\ t.asked = s.asked /\ t.issued = s.issued
        /\ t.received = s.received /\ t.began = s.began
    BY <1>2, <2>1, <2>2 DEF Supervisor, SupKeeps
  <2>4. SupCounted(t, q)
    BY <1>2, <2>2, <2>3 DEF SupCounted
  <2> QED
    BY <1>1, <2>2, <2>3, <2>4, SupSets
<1>5. CASE stop
  <2>1. PICK t, d : t = [s EXCEPT !.open = FALSE] /\ d = [c EXCEPT !.killed = TRUE]
    OBVIOUS
  <2>2. sup' = t /\ child' = d /\ UNCHANGED <<io, past>>
    BY <1>1, <1>5, <2>1 DEF stop
  <2>3. /\ t \in Supervisor /\ SupKeeps(s, t) /\ t.pending = s.pending /\ t.asked = s.asked /\ t.issued = s.issued
        /\ t.received = s.received /\ t.began = s.began /\ t.state = s.state
    BY <1>2, <2>1 DEF Supervisor, SupKeeps
  <2>4. d \in Child /\ d.alive = c.alive /\ d.job = c.job
    BY <1>2, <2>1 DEF Child
  <2>5. SupCounted(t, q)
    BY <1>2, <2>3 DEF SupCounted
  <2>6. SupEnding(d, i, t)
    BY <1>2, <2>3, <2>4 DEF SupEnding, SupKeeps
  <2> QED
    BY <1>1, <1>2, <2>2, <2>3, <2>4, <2>5, <2>6 DEF SupInv, SupHolds
<1> QED
  BY <1>3, <1>4, <1>5

(* A request of the child that was answered, or was forgotten.               *)
LEMMA SupAnswers ==
  ASSUME NEW x, NEW q, SupFine(x, q), ~x.sup.reported, NEW id \in Id, NEW n \in {0, 1}, n = 1 => id <= x.sup.received /\ q.answers[id] = 0
  PROVE  LET y == [x EXCEPT !.sup.asked = @ \ {id}]
             r == [q EXCEPT !.answers[id] = @ + n]
         IN  /\ SupFine(y, r) /\ ~y.sup.reported /\ y.sup.state = x.sup.state /\ y.sup.exit = x.sup.exit
             /\ y.sup.received = x.sup.received /\ y.io = x.io /\ y.child = x.child /\ y.sup.pending = x.sup.pending
             /\ y.sup.issued = x.sup.issued /\ id \notin y.sup.asked
<1>1. PICK c, i, s, y, r : c = x.child /\ i = x.io /\ s = x.sup /\ y = [x EXCEPT !.sup.asked = @ \ {id}] /\ r = [q EXCEPT !.answers[id] = @ + n]
  OBVIOUS
<1>2. c \in Child /\ i \in IoState /\ s \in Supervisor /\ x = [child |-> c, io |-> i, sup |-> s] /\ ~s.reported
      /\ SupCounted(s, q) /\ SupEnding(c, i, s) /\ q \in SupPast
  BY <1>1 DEF SupFine, SupAll, SupHolds
<1>3. PICK A, t : A = s.asked \ {id} /\ t = [s EXCEPT !.asked = A]
  OBVIOUS
<1>4. y = [child |-> c, io |-> i, sup |-> t]
  BY <1>1, <1>2, <1>3
<1>5. /\ t \in Supervisor /\ SupKeeps(s, t) /\ t.pending = s.pending /\ t.asked = A /\ t.issued = s.issued
      /\ t.received = s.received /\ t.began = s.began /\ t.state = s.state
  BY <1>2, <1>3 DEF Supervisor, SupKeeps
<1>6. PICK f, g, m : f = q.answers /\ m = f[id] + n /\ g = [f EXCEPT ![id] = m]
  OBVIOUS
<1>7. f \in [Id -> Nat] /\ m \in Nat /\ g \in [Id -> Nat] /\ g[id] = m /\ \A k \in Id : k # id => g[k] = f[k]
  BY <1>2, <1>6 DEF SupPast
<1>8. r \in SupPast /\ r.outcomes = q.outcomes /\ r.answers = g
  BY <1>1, <1>2, <1>6, <1>7 DEF SupPast
<1>9. SupCounted(t, r)
  <2>1. m <= 1 /\ (n = 0 => m = f[id])
    BY <1>1, <1>2, <1>6, <1>7 DEF SupCounted
  <2>2. id > s.received => m = 0
    <3>1. CASE n = 0
      BY <1>2, <1>6, <2>1, <3>1 DEF SupCounted
    <3>2. CASE n = 1
      BY <1>1, <1>2, <3>2, SupNumbers DEF Supervisor
    <3> QED
      BY <3>1, <3>2
  <2>3. ASSUME NEW k \in Id
        PROVE  g[k] <= 1 /\ (k \in A \/ k > s.received => g[k] = 0)
    <3>1. CASE k = id
      BY <1>3, <1>7, <2>1, <2>2, <3>1
    <3>2. CASE k # id
      BY <1>2, <1>3, <1>6, <1>7, <3>2 DEF SupCounted
    <3> QED
      BY <3>1, <3>2
  <2> QED
    BY <1>2, <1>3, <1>5, <1>8, <2>3 DEF SupCounted
<1>10. SupEnding(c, i, t)
  BY <1>2, <1>5 DEF SupEnding, SupKeeps
<1>11. SupFine(y, r)
  BY <1>2, <1>4, <1>5, <1>8, <1>9, <1>10 DEF SupFine, SupAll, SupHolds
<1> QED
  BY <1>1, <1>2, <1>3, <1>4, <1>5, <1>11 DEF SupKeeps

(* respond.                                                                  *)
LEMMA SupResponds ==
  ASSUME SupInv, ~sup.reported, NEW id \in Id, respond(id)
  PROVE  SupInv'
<1>1. PICK x, q : x = Now /\ q = past
  OBVIOUS
<1>2. SupFine(x, q) /\ ~x.sup.reported /\ x.sup = sup /\ sup \in Supervisor /\ SupCounted(sup, q) /\ q \in SupPast
  BY <1>1, SupNow
<1>3. CASE sup' = [sup EXCEPT !.asked = @ \ {id}] /\ UNCHANGED <<child, io, past>>
  <2>1. PICK s, A, t : s = sup /\ A = s.asked \ {id} /\ t = [s EXCEPT !.asked = A]
    OBVIOUS
  <2>2. sup' = t /\ UNCHANGED <<child, io, past>> /\ A \subseteq s.asked
    BY <1>3, <2>1
  <2>3. /\ t \in Supervisor /\ SupKeeps(s, t) /\ t.pending = s.pending /\ t.asked = A /\ t.issued = s.issued
        /\ t.received = s.received /\ t.began = s.began
    BY <1>2, <2>1, <2>2 DEF Supervisor, SupKeeps
  <2>4. SupCounted(t, q)
    BY <1>2, <2>1, <2>2, <2>3 DEF SupCounted
  <2> QED
    BY <1>1, <1>2, <2>1, <2>2, <2>3, <2>4, SupSets
<1>4. CASE LET y == enqueue(Now)
           IN  /\ Becomes([y EXCEPT !.sup.asked = @ \ {id}])
               /\ past' = [past EXCEPT !.answers[id] = IF Enqueued(Now, y) THEN @ + 1 ELSE @]
  <2>1. PICK y, z, n : y = enqueue(x) /\ z = [y EXCEPT !.sup.asked = @ \ {id}] /\ n = IF Enqueued(x, y) THEN 1 ELSE 0
    OBVIOUS
  <2>2. Becomes(z) /\ past' = [q EXCEPT !.answers[id] = IF Enqueued(x, y) THEN @ + 1 ELSE @]
    BY <1>1, <1>4, <2>1
  <2>3. SupFine(y, q) /\ ~y.sup.reported /\ (Enqueued(x, y) => y.sup = x.sup)
    BY <1>2, <2>1, SupEnqueues DEF SupSame
  <2>4. id \in sup.asked
    BY DEF respond
  <2>5. n \in {0, 1} /\ (n = 1 => id <= y.sup.received /\ q.answers[id] = 0)
    BY <1>2, <2>1, <2>3, <2>4 DEF SupCounted
  <2>6. PICK r : r = [q EXCEPT !.answers[id] = @ + n]
    OBVIOUS
  <2>7. past' = r
    <3>1. q.answers[id] \in Nat /\ q.answers[id] + 0 = q.answers[id]
      BY <1>2 DEF SupPast
    <3>2. CASE Enqueued(x, y)
      BY <2>1, <2>2, <2>6, <3>2
    <3>3. CASE ~Enqueued(x, y)
      BY <2>1, <2>2, <2>6, <3>1, <3>3
    <3> QED
      BY <3>2, <3>3
  <2>8. SupFine(z, r)
    BY <2>1, <2>3, <2>5, <2>6, SupAnswers
  <2> QED
    BY <2>2, <2>7, <2>8, SupBecomes
<1> QED
  BY <1>3, <1>4 DEF respond

(* The supervisor's record alone, within a call.                             *)
LEMMA SupEdits ==
  ASSUME NEW x, NEW q, SupFine(x, q), ~x.sup.reported, NEW t \in Supervisor, SupKeeps(x.sup, t), SupCounted(t, q)
  PROVE  LET y == [x EXCEPT !.sup = t] IN
         SupFine(y, q) /\ ~y.sup.reported /\ y.sup = t /\ y.child = x.child /\ y.io = x.io
<1>1. PICK c, i, s, y : c = x.child /\ i = x.io /\ s = x.sup /\ y = [x EXCEPT !.sup = t]
  OBVIOUS
<1>2. c \in Child /\ i \in IoState /\ s \in Supervisor /\ x = [child |-> c, io |-> i, sup |-> s] /\ ~s.reported
      /\ SupCounted(s, q) /\ SupEnding(c, i, s) /\ q \in SupPast
  BY <1>1 DEF SupFine, SupAll, SupHolds
<1>3. y = [child |-> c, io |-> i, sup |-> t]
  BY <1>1, <1>2
<1>4. SupEnding(c, i, t)
  BY <1>1, <1>2 DEF SupEnding, SupKeeps
<1> QED
  BY <1>1, <1>2, <1>3, <1>4 DEF SupFine, SupAll, SupHolds, SupKeeps

(* begin_stop: everything outstanding is replaced by one shutdown request.   *)
LEMMA SupBegins ==
  ASSUME SupInv, ~sup.reported, NEW w \in BOOLEAN, begin_stop(w)
  PROVE  SupInv'
<1>1. PICK v, q, s : v = Now /\ q = past /\ s = sup
  OBVIOUS
<1>2. SupFine(v, q) /\ ~s.reported /\ v.sup = s /\ s \in Supervisor /\ SupCounted(s, q) /\ q \in SupPast
      /\ v = [child |-> v.child, io |-> v.io, sup |-> s]
  BY <1>1, SupNow DEF SupFine, SupAll
<1>3. PICK a, x, e, y : /\ a = (w /\ ensure_admission)
                        /\ x = [v EXCEPT !.sup.grace = TRUE, !.sup.began = TRUE, !.sup.allow = a]
                        /\ e = [x EXCEPT !.sup.asked = {}, !.sup.pending = {}]
                        /\ y = Issue(e)
  OBVIOUS
<1>4. /\ past' = q /\ ~s.began
      /\ IF ~sup.exit /\ ensure_admission
         THEN Becomes(IF y.sup.issued = x.sup.issued THEN Fail(y)
                      ELSE [y EXCEPT !.sup.shutdown = y.sup.issued, !.sup.state = "stopping"])
         ELSE Becomes(x)
  BY <1>1, <1>3 DEF begin_stop
<1>5. a \in BOOLEAN
  BY <1>3 DEF ensure_admission
<1>6. PICK t, u : /\ t = [s EXCEPT !.grace = TRUE, !.began = TRUE, !.allow = a]
                  /\ u = [s EXCEPT !.grace = TRUE, !.began = TRUE, !.allow = a, !.asked = {}, !.pending = {}]
  OBVIOUS
<1>7. x = [v EXCEPT !.sup = t] /\ e = [v EXCEPT !.sup = u]
  BY <1>2, <1>3, <1>6 DEF Supervisor
<1>8. /\ t \in Supervisor /\ SupKeeps(s, t) /\ t.pending = s.pending /\ t.asked = s.asked /\ t.issued = s.issued
      /\ t.received = s.received /\ t.began
  BY ZenonT(60), <1>2, <1>5, <1>6 DEF Supervisor, SupKeeps
<1>9. /\ u \in Supervisor /\ SupKeeps(s, u) /\ u.pending = {} /\ u.asked = {} /\ u.issued = s.issued
      /\ u.received = s.received /\ u.began /\ u.state = s.state
  BY ZenonT(60), <1>2, <1>5, <1>6 DEF Supervisor, SupKeeps
<1>10. SupCounted(t, q) /\ SupCounted(u, q)
  BY <1>2, <1>8, <1>9 DEF SupCounted
<1>11. SupFine(x, q) /\ ~x.sup.reported /\ x.sup = t
  BY <1>2, <1>7, <1>8, <1>10, SupEdits
<1>12. SupFine(e, q) /\ ~e.sup.reported /\ e.sup = u
  BY <1>2, <1>7, <1>9, <1>10, SupEdits
<1>13. e.sup.issued < MaxId
  BY <1>2, <1>4, <1>9, <1>12 DEF SupCounted
<1>14. /\ SupFine(y, q) /\ ~y.sup.reported /\ y.sup.began /\ y.sup.state \in {s.state, "failed"}
  <2>1. e.sup.began /\ e.sup.state = s.state /\ ~e.sup.reported
    BY <1>9, <1>12
  <2>2. /\ SupFine(Issue(e), q) /\ Issue(e).sup.state \in {e.sup.state, "failed"} /\ ~Issue(e).sup.reported
        /\ Issue(e).sup.began = e.sup.began
    BY <1>12, <1>13, <2>1, SupIssues
  <2>3. y = Issue(e)
    BY <1>3
  <2> QED
    BY <2>1, <2>2, <2>3
<1>15. CASE ~(~sup.exit /\ ensure_admission)
  BY <1>4, <1>11, <1>15, SupBecomes
<1>16. CASE (~sup.exit /\ ensure_admission) /\ y.sup.issued = x.sup.issued
  <2>1. PICK z : z = Fail(y)
    OBVIOUS
  <2>2. SupFine(z, q) /\ Becomes(z)
    BY <1>4, <1>14, <1>16, <2>1, SupFails
  <2> QED
    BY <1>4, <2>2, SupBecomes
<1>17. CASE (~sup.exit /\ ensure_admission) /\ y.sup.issued # x.sup.issued
  <2>1. PICK z, k, n : k = y.sup /\ n = k.issued /\ z = [k EXCEPT !.shutdown = n, !.state = "stopping"]
    OBVIOUS
  <2>2. k \in Supervisor /\ ~k.reported /\ SupCounted(k, q) /\ y \in SupAll
    BY <1>14, <2>1 DEF SupFine, SupHolds
  <2>3. n \in 0 .. MaxId
    BY <2>1, <2>2 DEF Supervisor
  <2>4. z \in Supervisor /\ z.pending = k.pending /\ z.asked = k.asked /\ z.issued = k.issued /\ z.received = k.received /\ z.began = k.began
        /\ z.reported = k.reported /\ (k.state # "failed" => SupKeeps(k, z))
    BY ZenonT(60), <2>1, <2>2, <2>3 DEF Supervisor, HostState, SupKeeps
  <2>5. k.state # "failed"
    <3>1. PICK f : f = enqueue(e)
      OBVIOUS
    <3>2. Enqueued(e, f)
      <4>1. SUFFICES ASSUME ~Enqueued(e, f)
                     PROVE  FALSE
        OBVIOUS
      <4>2. y = f
        BY <1>3, <3>1, <4>1 DEF Issue
      <4>3. f.sup.issued = e.sup.issued
        BY <1>12, <3>1, SupEnqueues DEF SupSame
      <4> QED
        BY <1>8, <1>9, <1>11, <1>12, <1>17, <4>2, <4>3
    <3>3. f.sup = e.sup /\ f \in SupAll
      BY <1>12, <3>1, <3>2, SupEnqueues DEF SupFine
    <3>4. y = [f EXCEPT !.sup.issued = e.sup.issued + 1, !.sup.pending = @ \cup {e.sup.issued + 1}]
      BY <1>3, <3>1, <3>2 DEF Issue
    <3>5. y.sup.state = f.sup.state
      BY <3>3, <3>4 DEF SupAll, Supervisor
    <3>6. s.state \in {"starting", "ready"}
      BY <1>1, <1>17 DEF ensure_admission
    <3> QED
      BY <1>9, <1>12, <2>1, <3>3, <3>5, <3>6
  <2>6. SupCounted(z, q)
    BY <2>2, <2>4 DEF SupCounted
  <2>7. PICK j : j = [y EXCEPT !.sup = z]
    OBVIOUS
  <2>8. j = [y EXCEPT !.sup.shutdown = y.sup.issued, !.sup.state = "stopping"]
    BY <2>1, <2>2, <2>7 DEF SupAll, Supervisor
  <2>9. Becomes(j)
    BY <1>4, <1>17, <2>8
  <2>10. SupFine(j, q)
    BY <1>14, <2>1, <2>2, <2>4, <2>5, <2>6, <2>7, SupEdits
  <2> QED
    BY <1>4, <2>9, <2>10, SupBecomes
<1> QED
  BY <1>15, <1>16, <1>17

(* The first part of poll: the end of the grace period and what the workers  *)
(* reported.                                                                 *)
LEMMA SupPollBegins ==
  ASSUME SupInv, ~sup.reported, NEW late \in BOOLEAN, PollBegins(late)
  PROVE  SupInv'
<1>1. PICK v, q, c, i, s : v = Now /\ q = past /\ s = sup /\ c = child /\ i = io
  OBVIOUS
<1>2. /\ c \in Child /\ i \in IoState /\ s \in Supervisor /\ SupCounted(s, q) /\ SupEnding(c, i, s) /\ q \in SupPast
      /\ ~s.reported /\ v = [child |-> c, io |-> i, sup |-> s]
  BY <1>1, SupNow DEF Now
<1>3. PICK x : x = IF ~s.exit /\ late
                   THEN [v EXCEPT !.child.killed = TRUE, !.io.stopping = TRUE, !.sup.open = FALSE, !.sup.grace = FALSE]
                   ELSE v
  OBVIOUS
<1>4. PICK y : y = [x EXCEPT !.sup.late = late, !.sup.final = s.joined, !.sup.exhausted = (s.state = "failed"),
                             !.sup.frames = 0, !.sup.turn = "frames"]
  OBVIOUS
<1>5. Becomes(IF i.failure THEN Fail(y) ELSE y) /\ past' = q
  BY SMTT(30), <1>1, <1>3, <1>4 DEF PollBegins
<1>6. PICK d, j, t : /\ d = IF ~s.exit /\ late THEN [c EXCEPT !.killed = TRUE] ELSE c
                     /\ j = IF ~s.exit /\ late THEN [i EXCEPT !.stopping = TRUE] ELSE i
                     /\ t = IF ~s.exit /\ late THEN [s EXCEPT !.open = FALSE, !.grace = FALSE] ELSE s
  OBVIOUS
<1>7. x = [child |-> d, io |-> j, sup |-> t]
  <2>1. CASE ~s.exit /\ late
    BY <1>2, <1>3, <1>6, <2>1 DEF Supervisor
  <2>2. CASE ~(~s.exit /\ late)
    BY <1>2, <1>3, <1>6, <2>2
  <2> QED
    BY <2>1, <2>2
<1>8. d \in Child /\ d.alive = c.alive /\ d.job = c.job
  BY <1>2, <1>6 DEF Child
<1>9. j \in IoState /\ j.incoming = i.incoming /\ j.running = i.running /\ j.failure = i.failure
  BY <1>2, <1>6 DEF IoState
<1>10. /\ t \in Supervisor /\ SupKeeps(s, t) /\ t.pending = s.pending /\ t.asked = s.asked /\ t.issued = s.issued
       /\ t.received = s.received /\ t.began = s.began /\ t.state = s.state
  BY <1>2, <1>6 DEF Supervisor, SupKeeps
<1>11. PICK l, h, u : l = s.joined /\ h = (s.state = "failed")
                      /\ u = [t EXCEPT !.late = late, !.final = l, !.exhausted = h, !.frames = 0, !.turn = "frames"]
  OBVIOUS
<1>12. y = [child |-> d, io |-> j, sup |-> u]
  BY <1>4, <1>7, <1>10, <1>11 DEF Supervisor
<1>13. l \in BOOLEAN /\ h \in BOOLEAN
  BY <1>2, <1>11 DEF Supervisor
<1>14. /\ u \in Supervisor /\ u.pending = s.pending /\ u.asked = s.asked /\ u.issued = s.issued
       /\ u.received = s.received /\ u.began = s.began /\ u.state = s.state /\ u.final = l /\ u.exhausted = h
       /\ u.exit = s.exit /\ u.jobEmpty = s.jobEmpty /\ u.joined = s.joined /\ u.reported = s.reported
  <2>1. u \in Supervisor
    <3>1. u = [t EXCEPT !.late = late, !.final = l, !.exhausted = h, !.frames = 0, !.turn = "frames"] /\ t \in Supervisor
      BY <1>10, <1>11
    <3>2. late \in BOOLEAN /\ l \in BOOLEAN /\ h \in BOOLEAN /\ 0 \in 0 .. QUEUE_FRAMES /\ "frames" \in Turn
      BY <1>13, SupNumbers DEF Turn
    <3>3. PICK b : b = [t EXCEPT !.late = late, !.final = l, !.exhausted = h]
      OBVIOUS
    <3>4. b \in Supervisor
      BY ZenonT(60), <3>1, <3>2, <3>3 DEF Supervisor
    <3>5. u = [b EXCEPT !.frames = 0, !.turn = "frames"]
      BY <3>1, <3>3 DEF Supervisor
    <3> QED
      BY <3>2, <3>4, <3>5 DEF Supervisor
  <2>2. /\ u.pending = t.pending /\ u.asked = t.asked /\ u.issued = t.issued
        /\ u.received = t.received /\ u.began = t.began /\ u.state = t.state /\ u.final = l /\ u.exhausted = h
        /\ u.exit = t.exit /\ u.jobEmpty = t.jobEmpty /\ u.joined = t.joined /\ u.reported = t.reported
    BY <1>10, <1>11 DEF Supervisor
  <2> QED
    BY <1>10, <2>1, <2>2 DEF SupKeeps
<1>15. SupCounted(u, q)
  BY <1>2, <1>14 DEF SupCounted
<1>16. CASE ~i.failure
  <2>1. SupEnding(d, j, u)
    BY <1>2, <1>8, <1>9, <1>11, <1>14, <1>16 DEF SupEnding
  <2>2. SupFine(y, q) /\ Becomes(y)
    BY <1>2, <1>5, <1>8, <1>9, <1>12, <1>14, <1>15, <1>16, <2>1 DEF SupFine, SupAll, SupHolds
  <2> QED
    BY <1>5, <2>2, SupBecomes
<1>17. CASE i.failure
  <2>1. PICK e, k, w, z : /\ e = [d EXCEPT !.killed = TRUE] /\ k = [j EXCEPT !.stopping = TRUE]
                          /\ w = [u EXCEPT !.state = "failed", !.pending = {}, !.asked = {}, !.open = FALSE]
                          /\ z = Fail(y)
    OBVIOUS
  <2>2. z = [child |-> e, io |-> k, sup |-> w]
    BY <1>12, <2>1 DEF Fail
  <2>3. e \in Child /\ e.alive = c.alive /\ e.job = c.job
    BY <1>8, <2>1 DEF Child
  <2>4. k \in IoState /\ k.incoming = i.incoming /\ k.running = i.running
    BY <1>9, <2>1 DEF IoState
  <2>5. w \in Supervisor
    BY <1>14, <2>1 DEF Supervisor, HostState
  <2>6. /\ w.state = "failed" /\ w.pending = {} /\ w.asked = {} /\ w.issued = s.issued /\ w.received = s.received
        /\ w.began = s.began /\ w.exit = s.exit /\ w.jobEmpty = s.jobEmpty /\ w.joined = s.joined /\ w.final = l
        /\ w.reported = s.reported
    BY <1>14, <2>1 DEF Supervisor
  <2>7. SupCounted(w, q)
    BY <1>2, <2>6 DEF SupCounted
  <2>8. SupEnding(e, k, w)
    BY <1>2, <1>11, <2>3, <2>4, <2>6 DEF SupEnding
  <2>9. SupFine(z, q) /\ Becomes(z)
    BY <1>2, <1>5, <1>17, <2>1, <2>2, <2>3, <2>4, <2>5, <2>7, <2>8 DEF SupFine, SupAll, SupHolds
  <2> QED
    BY <1>5, <2>9, SupBecomes
<1> QED
  BY <1>16, <1>17

(* A frame is taken from the queue.                                          *)
LEMMA SupTakes ==
  ASSUME SupInv, ~sup.reported, sup.frames < QUEUE_FRAMES, io.incoming # <<>>
  PROVE  LET x == [Now EXCEPT !.io.incoming = Tail(@), !.sup.frames = @ + 1]
             f == Head(io.incoming)
         IN  /\ SupFine(x, past) /\ ~x.sup.reported /\ f \in Frame
             /\ f.kind \in {"request", "response"} => f.id \in Id
<1>1. PICK q, c, i, s : q = past /\ s = sup /\ c = child /\ i = io
  OBVIOUS
<1>2. /\ c \in Child /\ i \in IoState /\ s \in Supervisor /\ SupCounted(s, q) /\ SupEnding(c, i, s) /\ q \in SupPast
      /\ ~s.reported
  BY <1>1, SupNow
<1>3. PICK I, T, n, f : I = i.incoming /\ T = Tail(I) /\ n = s.frames + 1 /\ f = Head(I)
  OBVIOUS
<1>4. I \in Seq(Frame) /\ I # <<>>
  BY <1>1, <1>2, <1>3 DEF IoState
<1>5. f \in Frame /\ T \in Seq(Frame) /\ Len(T) = Len(I) - 1 /\ Len(I) \in Nat
  BY <1>3, <1>4, HeadTailProperties, LenProperties
<1>6. f.kind \in {"request", "response"} => f.id \in Id
  BY <1>5 DEF Frame
<1>7. n \in 0 .. QUEUE_FRAMES
  BY <1>1, <1>2, <1>3, SupNumbers DEF Supervisor
<1>8. PICK j, t, x : j = [i EXCEPT !.incoming = T] /\ t = [s EXCEPT !.frames = n]
                     /\ x = [Now EXCEPT !.io.incoming = Tail(@), !.sup.frames = @ + 1]
  OBVIOUS
<1>9. x = [child |-> c, io |-> j, sup |-> t]
  BY <1>1, <1>3, <1>8 DEF Now
<1>10. j \in IoState /\ j.incoming = T /\ j.running = i.running /\ j.failure = i.failure
  BY <1>2, <1>5, <1>8 DEF IoState
<1>11. /\ t \in Supervisor /\ SupKeeps(s, t) /\ t.pending = s.pending /\ t.asked = s.asked /\ t.issued = s.issued
       /\ t.received = s.received /\ t.began = s.began /\ t.state = s.state
  BY <1>2, <1>7, <1>8 DEF Supervisor, SupKeeps
<1>12. SupCounted(t, q)
  BY <1>2, <1>11 DEF SupCounted
<1>13. Len(T) <= QUEUE_FRAMES
  BY <1>2, <1>3, <1>5, SupNumbers DEF SupEnding
<1>14. SupEnding(c, j, t)
  BY <1>2, <1>3, <1>4, <1>10, <1>11, <1>13 DEF SupEnding, SupKeeps
<1>15. SupFine(x, q)
  BY <1>2, <1>9, <1>10, <1>11, <1>12, <1>14 DEF SupFine, SupAll, SupHolds
<1>16. ~x.sup.reported
  BY <1>2, <1>9, <1>11 DEF SupKeeps
<1>17. f = Head(io.incoming)
  BY <1>1, <1>3
<1> QED
  BY <1>1, <1>5, <1>6, <1>8, <1>15, <1>16, <1>17

(* The id of the child is now the greatest received, ...                     *)
SupReceived(x, id) == [x EXCEPT !.sup.received = id]

(* ... and the request waits for its answer.                                 *)
SupAsked(x, id) == [x EXCEPT !.sup.asked = @ \cup {id}]

(* Neither breaks the invariant: a new id had no answer.                     *)
LEMMA SupReceives ==
  ASSUME NEW x, NEW q, SupFine(x, q), ~x.sup.reported, NEW id \in Id, id > x.sup.received,
         NEW y, y = SupReceived(x, id), NEW z, z = SupAsked(y, id)
  PROVE  /\ SupFine(y, q) /\ ~y.sup.reported /\ y.sup.received = id /\ q.answers[id] = 0
         /\ SupFine(z, q) /\ ~z.sup.reported /\ id \notin y.sup.asked
<1>1. PICK c, i, s : c = x.child /\ i = x.io /\ s = x.sup
  OBVIOUS
<1>2. c \in Child /\ i \in IoState /\ s \in Supervisor /\ x = [child |-> c, io |-> i, sup |-> s] /\ ~s.reported
      /\ SupCounted(s, q) /\ SupEnding(c, i, s) /\ q \in SupPast
  BY <1>1 DEF SupFine, SupAll, SupHolds
<1>3. PICK A, t, u : A = s.asked \cup {id} /\ t = [s EXCEPT !.received = id] /\ u = [s EXCEPT !.received = id, !.asked = A]
  OBVIOUS
<1>4. y = [x EXCEPT !.sup = t] /\ z = [x EXCEPT !.sup = u]
  BY <1>1, <1>2, <1>3 DEF Supervisor, SupReceived, SupAsked
<1>5. id \in 0 .. MaxId /\ id \in Nat /\ s.received \in Nat /\ id > s.received
  BY <1>1, <1>2, SupNumbers DEF Supervisor
<1>6. /\ t \in Supervisor /\ SupKeeps(s, t) /\ t.pending = s.pending /\ t.asked = s.asked /\ t.issued = s.issued
      /\ t.received = id /\ t.began = s.began
  BY <1>2, <1>3, <1>5 DEF Supervisor, SupKeeps
<1>7. A \in SUBSET Id
  BY <1>2, <1>3 DEF Supervisor
<1>8. /\ u \in Supervisor /\ SupKeeps(s, u) /\ u.pending = s.pending /\ u.asked = A /\ u.issued = s.issued
      /\ u.received = id /\ u.began = s.began
  BY <1>2, <1>3, <1>5, <1>7 DEF Supervisor, SupKeeps
<1>9. q.answers[id] = 0 /\ id \notin s.asked
  <2>1. ~(id <= s.received)
    BY <1>5
  <2> QED
    BY <1>2, <1>5, <2>1 DEF SupCounted
<1>10. \A k \in Id : (k > id => k > s.received) /\ (k <= s.received => k <= id) /\ k <= k
  BY <1>5, SupNumbers
<1>11. \A k \in A : k <= id
  <2>1. \A k \in s.asked : k <= s.received /\ k \in Id
    BY <1>2 DEF SupCounted, Supervisor
  <2> QED
    BY <1>3, <1>10, <2>1
<1>12. SupCounted(t, q)
  <2>1. \A k \in s.asked : k <= id
    BY <1>3, <1>11
  <2> QED
    BY <1>2, <1>6, <1>10, <2>1 DEF SupCounted
<1>13. SupCounted(u, q)
  BY <1>2, <1>3, <1>8, <1>9, <1>10, <1>11 DEF SupCounted
<1>14. SupFine(y, q) /\ ~y.sup.reported /\ y.sup = t
  BY <1>1, <1>2, <1>4, <1>6, <1>12, SupEdits
<1>15. SupFine(z, q) /\ ~z.sup.reported
  <2>1. SupKeeps(x.sup, u) /\ u \in Supervisor /\ SupCounted(u, q) /\ ~x.sup.reported
    BY <1>1, <1>2, <1>8, <1>13
  <2>2. SupFine([x EXCEPT !.sup = u], q) /\ ~[x EXCEPT !.sup = u].sup.reported
    BY <2>1, SupEdits
  <2> QED
    BY <1>4, <2>2
<1> QED
  BY <1>1, <1>6, <1>9, <1>14, <1>15

(* A request that waits for nothing any more counts as answered.             *)
LEMMA SupAnswered ==
  ASSUME NEW x, NEW q, SupFine(x, q), ~x.sup.reported, NEW id \in Id, NEW n \in {0, 1},
         n = 1 => id <= x.sup.received /\ q.answers[id] = 0 /\ id \notin x.sup.asked
  PROVE  SupFine(x, [q EXCEPT !.answers[id] = @ + n])
<1>1. PICK s, r, f, g, m : s = x.sup /\ r = [q EXCEPT !.answers[id] = @ + n] /\ f = q.answers /\ m = f[id] + n /\ g = [f EXCEPT ![id] = m]
  BY ZenonT(60)
<1>2. s \in Supervisor /\ SupCounted(s, q) /\ q \in SupPast
  BY <1>1 DEF SupFine, SupHolds
<1>3. f \in [Id -> Nat] /\ m \in Nat /\ g \in [Id -> Nat] /\ g[id] = m /\ \A k \in Id : k # id => g[k] = f[k]
  BY <1>1, <1>2 DEF SupPast
<1>4. r \in SupPast /\ r.outcomes = q.outcomes /\ r.answers = g
  BY <1>1, <1>2, <1>3 DEF SupPast
<1>5. SupCounted(s, r)
  <2>1. m <= 1 /\ (n = 0 => m = f[id])
    BY <1>1, <1>2, <1>3 DEF SupCounted
  <2>2. n = 1 => id \notin s.asked /\ ~(id > s.received)
    BY <1>1, <1>2, SupNumbers DEF Supervisor
  <2>3. ASSUME NEW k \in Id
        PROVE  g[k] <= 1 /\ (k \in s.asked \/ k > s.received => g[k] = 0)
    <3>1. CASE k = id
      BY <1>1, <1>2, <1>3, <2>1, <2>2, <3>1 DEF SupCounted
    <3>2. CASE k # id
      BY <1>1, <1>2, <1>3, <3>2 DEF SupCounted
    <3> QED
      BY <3>1, <3>2
  <2> QED
    BY <1>2, <1>4, <2>3 DEF SupCounted
<1> QED
  BY <1>1, <1>4, <1>5 DEF SupFine, SupHolds

(* Counting none changes nothing.                                            *)
LEMMA SupUnanswered ==
  ASSUME NEW x, NEW q, SupFine(x, q), ~x.sup.reported, NEW id \in Id
  PROVE  SupFine(x, [q EXCEPT !.answers[id] = @ + 0])
<1>1. PICK n : n = 0
  OBVIOUS
<1>2. n \in {0, 1} /\ n # 1
  BY <1>1
<1>3. SupFine(x, [q EXCEPT !.answers[id] = @ + n])
  BY <1>2, SupAnswered
<1> QED
  BY <1>1, <1>3

(* accept of a request of the child.                                         *)
LEMMA SupAccepts ==
  ASSUME NEW x, NEW q, SupFine(x, q), ~x.sup.reported, NEW id \in Id, NEW o, NEW n, <<o, n>> \in AcceptRequest(x, id)
  PROVE  SupFine(o, [q EXCEPT !.answers[id] = @ + n])
<1>1. CASE x.sup.exit
  <2>1. o = x /\ n = 0
    BY <1>1 DEF AcceptRequest
  <2> QED
    BY <2>1, SupUnanswered
<1>2. CASE ~x.sup.exit /\ (id <= x.sup.received \/ Cardinality(x.sup.asked) >= MAX_HOST_PENDING_REQUESTS)
  <2>1. PICK y : y = Fail(x)
    OBVIOUS
  <2>2. o = y /\ n = 0
    BY <1>2, <2>1 DEF AcceptRequest
  <2>3. SupFine(y, q) /\ ~y.sup.reported
    BY <2>1, SupFails
  <2> QED
    BY <2>2, <2>3, SupUnanswered
<1>3. CASE ~x.sup.exit /\ ~(id <= x.sup.received \/ Cardinality(x.sup.asked) >= MAX_HOST_PENDING_REQUESTS)
  <2>1. id > x.sup.received
    <3>1. x.sup \in Supervisor
      BY DEF SupFine, SupHolds
    <3>2. x.sup.received \in Nat /\ id \in Nat
      BY <3>1, SupNumbers DEF Supervisor
    <3> QED
      BY <1>3, <3>2
  <2>2. PICK y, z : y = SupReceived(x, id) /\ z = enqueue(y)
    OBVIOUS
  <2>3. PICK w : w = SupAsked(y, id)
    OBVIOUS
  <2>4. /\ SupFine(y, q) /\ ~y.sup.reported /\ y.sup.received = id /\ q.answers[id] = 0 /\ id \notin y.sup.asked
        /\ SupFine(w, q) /\ ~w.sup.reported
    BY <2>1, <2>2, <2>3, SupReceives
  <2>5. \/ Enqueued(y, z) /\ o = z /\ n = 1
        \/ ~Enqueued(y, z) /\ o = Fail(z) /\ n = 0
        \/ o = w /\ n = 0
    BY <1>3, <2>2, <2>3 DEF AcceptRequest, SupReceived, SupAsked
  <2>6. SupFine(z, q) /\ ~z.sup.reported /\ (Enqueued(y, z) => z.sup = y.sup)
    BY <2>2, <2>4, SupEnqueues DEF SupSame
  <2>7. CASE Enqueued(y, z) /\ o = z /\ n = 1
    <3>1. id <= z.sup.received /\ id \notin z.sup.asked
      BY <2>4, <2>6, <2>7, SupNumbers
    <3> QED
      BY <2>4, <2>6, <2>7, <3>1, SupAnswered
  <2>8. CASE ~Enqueued(y, z) /\ o = Fail(z) /\ n = 0
    <3>1. PICK u : u = Fail(z)
      OBVIOUS
    <3>2. SupFine(u, q) /\ ~u.sup.reported
      BY <2>6, <3>1, SupFails
    <3> QED
      BY <2>8, <3>1, <3>2, SupUnanswered
  <2>9. CASE o = w /\ n = 0
    BY <2>4, <2>9, SupUnanswered
  <2> QED
    BY <2>5, <2>7, <2>8, <2>9
<1> QED
  BY <1>1, <1>2, <1>3

(* A history with n more for one id.                                         *)
SupPlus(f, id, n) == [f EXCEPT ![id] = @ + n]

(* A request of Core that waits no more.                                     *)
SupDropped(x, id) == [x EXCEPT !.sup.pending = @ \ {id}]

(* A pending request gets its outcome and is dropped.                        *)
LEMMA SupOutcome ==
  ASSUME NEW x, NEW q, SupFine(x, q), ~x.sup.reported, NEW id \in Id, NEW n \in {0, 1}, n = 1 => id \in x.sup.pending,
         NEW y, y = SupDropped(x, id), NEW r \in SupPast, r.answers = q.answers, r.outcomes = SupPlus(q.outcomes, id, n)
  PROVE  SupFine(y, r) /\ ~y.sup.reported /\ y.sup.exit = x.sup.exit /\ y.child.alive = x.child.alive /\ y.sup.state = x.sup.state
<1>1. PICK c, i, s : c = x.child /\ i = x.io /\ s = x.sup
  OBVIOUS
<1>2. c \in Child /\ i \in IoState /\ s \in Supervisor /\ x = [child |-> c, io |-> i, sup |-> s] /\ ~s.reported
      /\ SupCounted(s, q) /\ SupEnding(c, i, s) /\ q \in SupPast
  BY <1>1 DEF SupFine, SupAll, SupHolds
<1>3. PICK P, t : P = s.pending \ {id} /\ t = [s EXCEPT !.pending = P]
  OBVIOUS
<1>4. y = [child |-> c, io |-> i, sup |-> t]
  BY <1>1, <1>2, <1>3 DEF SupDropped
<1>5. /\ t \in Supervisor /\ SupKeeps(s, t) /\ t.pending = P /\ t.asked = s.asked /\ t.issued = s.issued
      /\ t.received = s.received /\ t.began = s.began /\ t.state = s.state
  BY <1>2, <1>3 DEF Supervisor, SupKeeps
<1>6. PICK f, m, g : f = q.outcomes /\ m = f[id] + n /\ g = [f EXCEPT ![id] = m]
  OBVIOUS
<1>7. f \in [Id -> Nat] /\ m \in Nat /\ r.outcomes = g /\ g[id] = m /\ \A k \in Id : k # id => g[k] = f[k]
  BY <1>2, <1>6 DEF SupPast, SupPlus
<1>8. SupCounted(t, r)
  <2>1. m <= 1 /\ (n = 0 => m = f[id])
    BY <1>1, <1>2, <1>6, <1>7 DEF SupCounted
  <2>2. id > s.issued => n # 1
    <3>1. n = 1 => id <= s.issued /\ id \in Nat
      BY <1>1, <1>2, SupNumbers DEF SupCounted
    <3> QED
      BY <1>2, <3>1, SupNumbers DEF Supervisor
  <2>3. ASSUME NEW k \in Id
        PROVE  g[k] <= 1 /\ (k \in P \/ k > s.issued => g[k] = 0)
    <3>1. CASE k = id
      BY <1>2, <1>3, <1>6, <1>7, <2>1, <2>2, <3>1 DEF SupCounted
    <3>2. CASE k # id
      BY <1>2, <1>3, <1>6, <1>7, <3>2 DEF SupCounted
    <3> QED
      BY <3>1, <3>2
  <2> QED
    BY <1>2, <1>3, <1>5, <1>7, <2>3 DEF SupCounted
<1>9. SupEnding(c, i, t)
  BY <1>2, <1>5 DEF SupEnding, SupKeeps
<1> QED
  BY <1>1, <1>2, <1>4, <1>5, <1>8, <1>9 DEF SupFine, SupAll, SupHolds, SupKeeps

(* The results of accept are pairs.                                          *)
LEMMA SupPairs ==
  ASSUME NEW x, NEW id, NEW r \in AcceptRequest(x, id)
  PROVE  r = <<r[1], r[2]>>
<1>1. CASE x.sup.exit
  BY <1>1 DEF AcceptRequest
<1>2. CASE ~x.sup.exit /\ (id <= x.sup.received \/ Cardinality(x.sup.asked) >= MAX_HOST_PENDING_REQUESTS)
  BY <1>2 DEF AcceptRequest
<1>3. CASE ~x.sup.exit /\ ~(id <= x.sup.received \/ Cardinality(x.sup.asked) >= MAX_HOST_PENDING_REQUESTS)
  BY <1>3 DEF AcceptRequest
<1> QED
  BY <1>1, <1>2, <1>3

(* One frame of a turn.                                                      *)
LEMMA SupFrames ==
  ASSUME SupInv, ~sup.reported, PollFrame
  PROVE  SupInv'
<1>1. PICK f, q : f = Head(io.incoming) /\ q = past
  OBVIOUS
<1>2. PICK x : x = [Now EXCEPT !.io.incoming = Tail(@), !.sup.frames = @ + 1]
  OBVIOUS
<1>3. /\ SupFine(x, q) /\ ~x.sup.reported /\ f \in Frame /\ (f.kind \in {"request", "response"} => f.id \in Id) /\ q \in SupPast
  <2>1. sup.frames < QUEUE_FRAMES /\ io.incoming # <<>>
    BY DEF PollFrame
  <2> QED
    BY <1>1, <1>2, <2>1, SupTakes, SupNow
<1>4. \/ /\ f.kind = "request"
         /\ \E r \in AcceptRequest(x, f.id) : Becomes(r[1]) /\ past' = [past EXCEPT !.answers[f.id] = @ + r[2]]
      \/ /\ f.kind = "response" /\ f.id > x.sup.issued /\ Becomes(Fail(x)) /\ past' = past
      \/ /\ f.kind = "response" /\ ~(f.id > x.sup.issued) /\ Becomes([x EXCEPT !.sup.pending = @ \ {f.id}])
         /\ past' = [past EXCEPT !.outcomes[f.id] = IF f.id \in x.sup.pending THEN @ + 1 ELSE @]
      \/ f.kind = "invalid" /\ Becomes(Fail(x)) /\ past' = past
  BY <1>1, <1>2 DEF PollFrame
<1>5. CASE Becomes(Fail(x)) /\ past' = past
  <2>1. PICK y : y = Fail(x)
    OBVIOUS
  <2>2. SupFine(y, q)
    BY <1>3, <2>1, SupFails
  <2> QED
    BY <1>1, <1>5, <2>1, <2>2, SupBecomes
<1>6. CASE f.kind = "request" /\ \E r \in AcceptRequest(x, f.id) : Becomes(r[1]) /\ past' = [past EXCEPT !.answers[f.id] = @ + r[2]]
  <2>1. PICK r \in AcceptRequest(x, f.id) : Becomes(r[1]) /\ past' = [past EXCEPT !.answers[f.id] = @ + r[2]]
    BY <1>6
  <2>2. PICK o, n, id : o = r[1] /\ n = r[2] /\ id = f.id
    OBVIOUS
  <2>3. <<o, n>> \in AcceptRequest(x, id) /\ id \in Id
    <3>1. r = <<o, n>>
      BY <2>2, SupPairs
    <3> QED
      BY <1>3, <1>6, <2>2, <3>1
  <2>4. PICK p : p = [q EXCEPT !.answers[id] = @ + n]
    OBVIOUS
  <2>5. SupFine(o, p)
    BY <1>3, <2>3, <2>4, SupAccepts
  <2>6. Becomes(o) /\ past' = p
    BY <1>1, <2>1, <2>2, <2>4
  <2> QED
    BY <2>5, <2>6, SupBecomes
<1>7. CASE /\ f.kind = "response" /\ ~(f.id > x.sup.issued) /\ Becomes([x EXCEPT !.sup.pending = @ \ {f.id}])
           /\ past' = [past EXCEPT !.outcomes[f.id] = IF f.id \in x.sup.pending THEN @ + 1 ELSE @]
  <2>1. PICK id, y, n : id = f.id /\ y = SupDropped(x, id) /\ n = IF id \in x.sup.pending THEN 1 ELSE 0
    OBVIOUS
  <2>2. PICK v, m, g, r : /\ v = q.outcomes /\ m = v[id] + n /\ g = [v EXCEPT ![id] = m] /\ r = [q EXCEPT !.outcomes = g]
    OBVIOUS
  <2>3. id \in Id /\ n \in {0, 1} /\ (n = 1 => id \in x.sup.pending)
    BY <1>3, <1>7, <2>1
  <2>4. v \in [Id -> Nat] /\ m \in Nat /\ g \in [Id -> Nat] /\ g = SupPlus(v, id, n)
    BY <1>3, <2>2, <2>3 DEF SupPast, SupPlus
  <2>5. r \in SupPast /\ r.answers = q.answers /\ r.outcomes = SupPlus(q.outcomes, id, n)
    BY <1>3, <2>2, <2>4 DEF SupPast
  <2>6. SupFine(y, r)
    BY <1>3, <2>1, <2>3, <2>5, SupOutcome
  <2>7. past' = r
    <3>1. m = IF id \in x.sup.pending THEN v[id] + 1 ELSE v[id]
      BY <2>1, <2>2, <2>3, <2>4
    <3>2. past' = [q EXCEPT !.outcomes[id] = m]
      BY <1>1, <1>7, <2>1, <2>2, <3>1
    <3> QED
      BY <1>3, <2>2, <3>2 DEF SupPast
  <2>8. Becomes(y)
    BY <1>7, <2>1 DEF SupDropped
  <2> QED
    BY <2>6, <2>7, <2>8, SupBecomes
<1> QED
  BY <1>4, <1>5, <1>6, <1>7

(* The history after the deadlines of a turn.                                *)
SupResults(q, e) == [q EXCEPT !.outcomes = Bump(@, e[2]), !.answers = Bump(@, e[3])]

(* Counting for no id or for one.                                            *)
LEMMA SupBumps ==
  ASSUME NEW f \in [Id -> Nat], NEW id \in Id
  PROVE  Bump(f, {}) = f /\ Bump(f, {id}) = SupPlus(f, id, 1) /\ SupPlus(f, id, 1) \in [Id -> Nat]
<1>1. PICK g : g = Bump(f, {})
  OBVIOUS
<1>2. PICK h : h = Bump(f, {id})
  OBVIOUS
<1>3. PICK k : k = SupPlus(f, id, 1)
  OBVIOUS
<1>4. g \in [Id -> Nat] /\ \A i \in Id : g[i] = f[i]
  <2>1. g = [i \in Id |-> IF i \in {} THEN f[i] + 1 ELSE f[i]]
    BY <1>1 DEF Bump
  <2>2. g = [i \in Id |-> f[i]]
    BY <2>1
  <2> QED
    BY <2>2
<1>5. h \in [Id -> Nat] /\ \A i \in Id : h[i] = IF i = id THEN f[i] + 1 ELSE f[i]
  BY <1>2 DEF Bump
<1>6. k \in [Id -> Nat] /\ \A i \in Id : k[i] = IF i = id THEN f[i] + 1 ELSE f[i]
  BY <1>3 DEF SupPlus
<1>7. g = f
  BY <1>4
<1>8. h = k
  BY <1>5, <1>6
<1> QED
  BY <1>1, <1>2, <1>3, <1>6, <1>7, <1>8

(* The history with both counts, ...                                         *)
SupBumped(q, a, b) == [q EXCEPT !.outcomes = Bump(@, a), !.answers = Bump(@, b)]

(* ... as a record.                                                          *)
LEMMA SupBumpedIs ==
  ASSUME NEW f \in [Id -> Nat], NEW g \in [Id -> Nat], NEW a, NEW b, NEW F, NEW G, F = Bump(f, a), G = Bump(g, b),
         NEW q, q = [outcomes |-> f, answers |-> g]
  PROVE  SupBumped(q, a, b) = [outcomes |-> F, answers |-> G]
<1>1. SupBumped(q, a, b) = [q EXCEPT !.outcomes = Bump(q.outcomes, a), !.answers = Bump(q.answers, b)]
  BY DEF SupBumped
<1>2. q.outcomes = f /\ q.answers = g
  OBVIOUS
<1>3. SupBumped(q, a, b) = [q EXCEPT !.outcomes = F, !.answers = G]
  BY <1>1, <1>2
<1> QED
  BY <1>3

(* What the deadlines add to the history.                                    *)
LEMMA SupResultsOf ==
  ASSUME NEW q \in SupPast, NEW id \in Id, NEW o
  PROVE  /\ SupResults(q, <<o, {}, {}>>) = q
         /\ SupResults(q, <<o, {id}, {}>>) \in SupPast
         /\ SupResults(q, <<o, {id}, {}>>).answers = q.answers
         /\ SupResults(q, <<o, {id}, {}>>).outcomes = SupPlus(q.outcomes, id, 1)
         /\ SupResults(q, <<o, {}, {id}>>) \in SupPast
         /\ SupResults(q, <<o, {}, {id}>>).outcomes = q.outcomes
         /\ SupResults(q, <<o, {}, {id}>>).answers = SupPlus(q.answers, id, 1)
<1>1. PICK f, g : f = q.outcomes /\ g = q.answers
  OBVIOUS
<1>2. f \in [Id -> Nat] /\ g \in [Id -> Nat] /\ q = [outcomes |-> f, answers |-> g]
  BY <1>1 DEF SupPast
<1>3. PICK F, G : F = SupPlus(f, id, 1) /\ G = SupPlus(g, id, 1)
  OBVIOUS
<1>4. F \in [Id -> Nat] /\ G \in [Id -> Nat] /\ f = Bump(f, {}) /\ g = Bump(g, {}) /\ F = Bump(f, {id}) /\ G = Bump(g, {id})
  BY <1>2, <1>3, SupBumps
<1>5. \A a, b : SupResults(q, <<o, a, b>>) = SupBumped(q, a, b)
  BY DEF SupResults, SupBumped
<1>6. SupBumped(q, {}, {}) = [outcomes |-> f, answers |-> g]
  BY <1>2, <1>4, SupBumpedIs
<1>7. SupBumped(q, {id}, {}) = [outcomes |-> F, answers |-> g]
  <2>1. PICK a, b : a = {id} /\ b = {}
    OBVIOUS
  <2>2. F = Bump(f, a) /\ g = Bump(g, b)
    BY <1>4, <2>1
  <2>3. F \in [Id -> Nat] /\ f \in [Id -> Nat] /\ g \in [Id -> Nat] /\ q = [outcomes |-> f, answers |-> g]
    BY <1>2, <1>4
  <2>4. SupBumped(q, a, b) = [outcomes |-> F, answers |-> g]
    BY <2>2, <2>3, SupBumpedIs
  <2> QED
    BY <2>1, <2>4
<1>8. SupBumped(q, {}, {id}) = [outcomes |-> f, answers |-> G]
  <2>1. PICK a, b : a = {} /\ b = {id}
    OBVIOUS
  <2>2. f = Bump(f, a) /\ G = Bump(g, b)
    BY <1>4, <2>1
  <2>3. f \in [Id -> Nat] /\ g \in [Id -> Nat] /\ q = [outcomes |-> f, answers |-> g]
    BY <1>2
  <2>4. SupBumped(q, a, b) = [outcomes |-> f, answers |-> G]
    BY <2>2, <2>3, SupBumpedIs
  <2> QED
    BY <2>1, <2>4
<1>9. [outcomes |-> F, answers |-> g] \in SupPast /\ [outcomes |-> f, answers |-> G] \in SupPast
  BY <1>2, <1>4 DEF SupPast
<1>10. SupResults(q, <<o, {}, {}>>) = q
  BY <1>2, <1>5, <1>6
<1>11. PICK u, w : u = SupResults(q, <<o, {id}, {}>>) /\ w = SupResults(q, <<o, {}, {id}>>)
  OBVIOUS
<1>12. u \in SupPast /\ u.answers = q.answers /\ u.outcomes = SupPlus(q.outcomes, id, 1)
  BY <1>1, <1>3, <1>5, <1>7, <1>9, <1>11
<1>13. w \in SupPast /\ w.outcomes = q.outcomes /\ w.answers = SupPlus(q.answers, id, 1)
  BY <1>1, <1>3, <1>5, <1>8, <1>9, <1>11
<1> QED
  BY <1>10, <1>11, <1>12, <1>13

(* One more answer.                                                          *)
LEMMA SupCountsUp ==
  ASSUME NEW q \in SupPast, NEW id \in Id, NEW n \in Nat
  PROVE  LET r == [q EXCEPT !.answers[id] = @ + n] IN
         r \in SupPast /\ r.outcomes = q.outcomes /\ r.answers = SupPlus(q.answers, id, n)
<1>1. PICK f, m, g, r : f = q.answers /\ m = f[id] + n /\ g = [f EXCEPT ![id] = m] /\ r = [q EXCEPT !.answers[id] = @ + n]
  OBVIOUS
<1>2. f \in [Id -> Nat] /\ m \in Nat /\ g \in [Id -> Nat] /\ g = SupPlus(f, id, n)
  BY <1>1 DEF SupPast, SupPlus
<1>3. r = [q EXCEPT !.answers = g]
  BY <1>1
<1> QED
  BY <1>1, <1>2, <1>3 DEF SupPast

(* A history is its two counts.                                              *)
LEMMA SupPastIs ==
  ASSUME NEW q \in SupPast, NEW r \in SupPast, q.outcomes = r.outcomes, q.answers = r.answers
  PROVE  q = r
  BY DEF SupPast

(* One deadline that passed after the frames, or none.                       *)
LEMMA SupExpires ==
  ASSUME NEW x, NEW q, SupFine(x, q), ~x.sup.reported, x.sup.pending = sup.pending, x.sup.asked = sup.asked, NEW e \in Expired(x)
  PROVE  /\ SupFine(e[1], SupResults(q, e)) /\ ~e[1].sup.reported /\ e[1].sup.exit = x.sup.exit /\ e[1].child.alive = x.child.alive
<1>0. q \in SupPast /\ x.sup \in Supervisor
  BY DEF SupFine, SupHolds
<1>1. CASE e = <<x, {}, {}>>
  <2>1. SupResults(q, e) = q
    <3>1. 1 \in Id
      BY SupNumbers
    <3> QED
      BY <1>0, <1>1, <3>1, SupResultsOf
  <2> QED
    BY <1>1, <2>1
<1>2. CASE e = <<Fail(x), {}, {}>>
  <2>1. PICK y : y = Fail(x)
    OBVIOUS
  <2>2. SupFine(y, q) /\ ~y.sup.reported /\ y.sup.exit = x.sup.exit /\ y.child.alive = x.child.alive
    BY <2>1, SupFails
  <2>3. SupResults(q, e) = q
    <3>1. 1 \in Id
      BY SupNumbers
    <3> QED
      BY <1>0, <1>2, <3>1, SupResultsOf
  <2> QED
    BY <1>2, <2>1, <2>2, <2>3
<1>3. ASSUME NEW id \in sup.pending, e = <<[x EXCEPT !.sup.pending = @ \ {id}], {id}, {}>>
      PROVE  /\ SupFine(e[1], SupResults(q, e)) /\ ~e[1].sup.reported /\ e[1].sup.exit = x.sup.exit /\ e[1].child.alive = x.child.alive
  <2>1. PICK y, r, n : y = SupDropped(x, id) /\ r = SupResults(q, <<y, {id}, {}>>) /\ n = 1
    OBVIOUS
  <2>2. e = <<y, {id}, {}>>
    BY <1>3, <2>1 DEF SupDropped
  <2>3. id \in Id /\ id \in x.sup.pending
    BY <1>0, <1>3 DEF Supervisor
  <2>4. r \in SupPast /\ r.answers = q.answers /\ r.outcomes = SupPlus(q.outcomes, id, n)
    BY <1>0, <2>1, <2>3, SupResultsOf
  <2>5. n \in {0, 1} /\ (n = 1 => id \in x.sup.pending)
    BY <2>1, <2>3
  <2>6. SupFine(y, r) /\ ~y.sup.reported /\ y.sup.exit = x.sup.exit /\ y.child.alive = x.child.alive
    BY <2>1, <2>3, <2>4, <2>5, SupOutcome
  <2> QED
    BY <2>1, <2>2, <2>6
<1>4. ASSUME NEW id \in sup.asked, e = Unanswered(x, id)
      PROVE  /\ SupFine(e[1], SupResults(q, e)) /\ ~e[1].sup.reported /\ e[1].sup.exit = x.sup.exit /\ e[1].child.alive = x.child.alive
  <2>1. PICK y, z : y = [x EXCEPT !.sup.asked = @ \ {id}] /\ z = enqueue(y)
    OBVIOUS
  <2>2. e = <<z, {}, IF Enqueued(y, z) THEN {id} ELSE {}>>
    BY <1>4, <2>1 DEF Unanswered
  <2>3. id \in Id /\ id \in x.sup.asked /\ q.answers[id] = 0 /\ id <= x.sup.received
    BY <1>0, <1>4 DEF Supervisor, SupFine, SupHolds, SupCounted
  <2>4. SupFine(y, q) /\ ~y.sup.reported /\ y.sup.exit = x.sup.exit /\ y.sup.received = x.sup.received /\ y.child = x.child /\ id \notin y.sup.asked
    <3>1. PICK n, r : n = 0 /\ r = [q EXCEPT !.answers[id] = @ + n]
      OBVIOUS
    <3>2. n \in {0, 1} /\ (n = 1 => id <= x.sup.received /\ q.answers[id] = 0)
      BY <3>1
    <3>3. SupFine(y, r) /\ ~y.sup.reported /\ y.sup.exit = x.sup.exit /\ y.sup.received = x.sup.received /\ y.child = x.child /\ id \notin y.sup.asked
      BY ZenonT(60), <2>1, <2>3, <3>1, <3>2, SupAnswers
    <3>4. r = q
      <4>1. PICK g : g = q.answers
        OBVIOUS
      <4>2. g \in [Id -> Nat] /\ g[id] + 0 = g[id] /\ [g EXCEPT ![id] = g[id]] = g
        BY <1>0, <2>3, <4>1 DEF SupPast
      <4>3. r = [q EXCEPT !.answers = g]
        BY <3>1, <4>1, <4>2
      <4> QED
        BY <1>0, <4>1, <4>3 DEF SupPast
    <3> QED
      BY <3>3, <3>4
  <2>5. /\ SupFine(z, q) /\ ~z.sup.reported /\ z.sup.exit = y.sup.exit /\ z.child.alive = y.child.alive
        /\ (Enqueued(y, z) => z.sup = y.sup)
    BY <2>1, <2>4, SupEnqueues DEF SupSame
  <2>6. CASE Enqueued(y, z)
    <3>1. PICK n, r : n = 1 /\ r = [q EXCEPT !.answers[id] = @ + n]
      OBVIOUS
    <3>2. n \in {0, 1} /\ (n = 1 => id <= z.sup.received /\ q.answers[id] = 0 /\ id \notin z.sup.asked)
      BY <2>3, <2>4, <2>5, <2>6, <3>1
    <3>3. SupFine(z, r)
      BY <2>3, <2>5, <3>1, <3>2, SupAnswered
    <3>4. SupResults(q, e) = r
      <4>1. PICK w : w = SupResults(q, <<z, {}, {id}>>)
        OBVIOUS
      <4>2. w \in SupPast /\ w.outcomes = q.outcomes /\ w.answers = SupPlus(q.answers, id, n)
        BY <1>0, <2>3, <3>1, <4>1, SupResultsOf
      <4>3. r \in SupPast /\ r.outcomes = q.outcomes /\ r.answers = SupPlus(q.answers, id, n)
        <5>1. n \in Nat
          BY <3>1
        <5> QED
          BY <1>0, <2>3, <3>1, <5>1, SupCountsUp
      <4>4. w = r
        BY <4>2, <4>3, SupPastIs
      <4> QED
        BY <2>2, <2>6, <4>1, <4>4
    <3> QED
      BY <2>2, <2>4, <2>5, <3>3, <3>4
  <2>7. CASE ~Enqueued(y, z)
    <3>1. e = <<z, {}, {}>> /\ SupResults(q, e) = q
      BY <1>0, <2>2, <2>3, <2>7, SupResultsOf
    <3> QED
      BY <2>4, <2>5, <3>1
  <2> QED
    BY <2>6, <2>7
<1> QED
  BY <1>1, <1>2, <1>3, <1>4 DEF Expired

(* The end of the process, or of its output, is seen.                        *)
LEMMA SupWaits ==
  ASSUME NEW x, NEW q, SupFine(x, q), ~x.sup.reported, x.sup.exit = sup.exit, x.child.alive = child.alive, NEW w \in Waited(x)
  PROVE  SupFine(w, q) /\ ~w.sup.reported
<1>1. PICK c, i, s : c = x.child /\ i = x.io /\ s = x.sup
  OBVIOUS
<1>2. c \in Child /\ i \in IoState /\ s \in Supervisor /\ x = [child |-> c, io |-> i, sup |-> s] /\ ~s.reported
      /\ SupCounted(s, q) /\ SupEnding(c, i, s) /\ q \in SupPast /\ s.exit = sup.exit /\ c.alive = child.alive
  BY <1>1 DEF SupFine, SupAll, SupHolds
<1>3. CASE w = x \/ w = Fail(x)
  BY <1>3, SupFails
<1>4. CASE ~child.alive /\ (w = Exited(x) \/ w = [Exited(x) EXCEPT !.io.stopping = TRUE]) 
  <2>1. PICK h, t : h = (IF s.state = "failed" THEN s.state ELSE "exited") /\ t = [s EXCEPT !.exit = TRUE, !.state = h]
    OBVIOUS
  <2>2. PICK j : j = [i EXCEPT !.stopping = TRUE]
    OBVIOUS
  <2>3. Exited(x) = [child |-> c, io |-> i, sup |-> t]
    <3>1. PICK v : v = Exited(x)
      OBVIOUS
    <3>2. v = [child |-> c, io |-> i, sup |-> t]
      BY <1>2, <2>1, <3>1 DEF Exited
    <3> QED
      BY <3>1, <3>2
  <2>4. w = [child |-> c, io |-> i, sup |-> t] \/ w = [child |-> c, io |-> j, sup |-> t]
    <3>1. PICK v : v = Exited(x)
      OBVIOUS
    <3>2. v = [child |-> c, io |-> i, sup |-> t]
      BY <2>3, <3>1
    <3>3. PICK u : u = [v EXCEPT !.io.stopping = TRUE]
      OBVIOUS
    <3>4. u = [child |-> c, io |-> j, sup |-> t]
      BY <2>2, <3>2, <3>3
    <3> QED
      BY <1>4, <3>1, <3>2, <3>3, <3>4
  <2>5. h \in HostState /\ (s.state = "failed" => h = "failed")
    BY <1>2, <2>1 DEF Supervisor, HostState
  <2>6. /\ t \in Supervisor /\ t.exit /\ t.state = h /\ t.pending = s.pending /\ t.asked = s.asked /\ t.issued = s.issued
        /\ t.received = s.received /\ t.began = s.began /\ t.jobEmpty = s.jobEmpty /\ t.joined = s.joined /\ t.final = s.final
        /\ t.exhausted = s.exhausted /\ t.reported = s.reported
    BY <1>2, <2>1, <2>5 DEF Supervisor
  <2>7. j \in IoState /\ j.incoming = i.incoming /\ j.running = i.running /\ j.failure = i.failure
    BY <1>2, <2>2 DEF IoState
  <2>8. SupCounted(t, q)
    BY <1>2, <2>6 DEF SupCounted
  <2>9. SupEnding(c, i, t) /\ SupEnding(c, j, t)
    BY <1>2, <1>4, <2>5, <2>6, <2>7 DEF SupEnding
  <2> QED
    BY <1>2, <2>4, <2>6, <2>7, <2>8, <2>9 DEF SupFine, SupAll, SupHolds
<1>5. CASE ~child.alive /\ w = [Exited(x) EXCEPT !.child.killed = TRUE, !.sup.open = FALSE, !.sup.asked = {}]
  <2>1. PICK h, t, d : /\ h = (IF s.state = "failed" THEN s.state ELSE "exited")
                       /\ t = [s EXCEPT !.exit = TRUE, !.state = h, !.open = FALSE, !.asked = {}]
                       /\ d = [c EXCEPT !.killed = TRUE]
    OBVIOUS
  <2>2. w = [child |-> d, io |-> i, sup |-> t]
    <3>1. PICK v, u : v = Exited(x) /\ u = [s EXCEPT !.exit = TRUE, !.state = h]
      OBVIOUS
    <3>2. v = [child |-> c, io |-> i, sup |-> u]
      BY <1>2, <2>1, <3>1 DEF Exited
    <3>3. w = [v EXCEPT !.child.killed = TRUE, !.sup.open = FALSE, !.sup.asked = {}]
      BY <1>5, <3>1
    <3>4. w = [child |-> d, io |-> i, sup |-> [u EXCEPT !.open = FALSE, !.asked = {}]]
      BY <2>1, <3>2, <3>3
    <3>5. [u EXCEPT !.open = FALSE, !.asked = {}] = t
      BY <1>2, <2>1, <3>1 DEF Supervisor
    <3> QED
      BY <3>4, <3>5
  <2>5. h \in HostState /\ (s.state = "failed" => h = "failed")
    BY <1>2, <2>1 DEF Supervisor, HostState
  <2>6. /\ t \in Supervisor /\ t.exit /\ t.state = h /\ t.pending = s.pending /\ t.asked = {} /\ t.issued = s.issued
        /\ t.received = s.received /\ t.began = s.began /\ t.jobEmpty = s.jobEmpty /\ t.joined = s.joined /\ t.final = s.final
        /\ t.exhausted = s.exhausted /\ t.reported = s.reported
    BY <1>2, <2>1, <2>5 DEF Supervisor
  <2>7. d \in Child /\ d.alive = c.alive /\ d.job = c.job
    BY <1>2, <2>1 DEF Child
  <2>8. SupCounted(t, q)
    BY <1>2, <2>6 DEF SupCounted
  <2>9. SupEnding(d, i, t)
    BY <1>2, <1>5, <2>5, <2>6, <2>7 DEF SupEnding
  <2> QED
    BY <1>2, <2>2, <2>6, <2>7, <2>8, <2>9 DEF SupFine, SupAll, SupHolds
<1> QED
  BY <1>3, <1>4, <1>5 DEF Waited

(* The last part of poll: the exit is reported once all of it is over.       *)
LEMMA SupReports ==
  ASSUME NEW w, NEW q, SupFine(w, q), ~w.sup.reported
  PROVE  SupFine(Reported(w), q)
<1>1. PICK c, i, s, y : c = w.child /\ i = w.io /\ s = w.sup /\ y = Reported(w)
  OBVIOUS
<1>2. c \in Child /\ i \in IoState /\ s \in Supervisor /\ w = [child |-> c, io |-> i, sup |-> s] /\ ~s.reported
      /\ SupCounted(s, q) /\ SupEnding(c, i, s) /\ q \in SupPast
  BY <1>1 DEF SupFine, SupAll, SupHolds
<1>3. PICK joined : joined = (i.running = {})
  OBVIOUS
<1>4. PICK empty : empty = (s.jobEmpty \/ (s.exit /\ ~c.job))
  OBVIOUS
<1>5. PICK ended : ended = (s.exit /\ joined /\ empty /\ (s.state = "failed" \/ (s.final /\ s.exhausted)))
  OBVIOUS
<1>6. PICK P : P = IF ended THEN {} ELSE s.pending
  OBVIOUS
<1>7. joined \in BOOLEAN /\ empty \in BOOLEAN /\ ended \in BOOLEAN /\ P \subseteq s.pending
  BY <1>2, <1>3, <1>4, <1>5, <1>6
<1>8. PICK t : t = [s EXCEPT !.joined = joined, !.jobEmpty = empty, !.reported = ended, !.pending = P,
                             !.late = FALSE, !.final = FALSE, !.exhausted = FALSE, !.frames = 0, !.turn = "idle"]
  OBVIOUS
<1>9. y = [child |-> c, io |-> i, sup |-> t]
  <2>1. y = [w EXCEPT !.sup.joined = joined, !.sup.jobEmpty = empty,
                  !.sup.reported = @ \/ ended,
                  !.sup.pending = IF ended THEN {} ELSE @,
                  !.sup.late = FALSE, !.sup.final = FALSE, !.sup.exhausted = FALSE,
                  !.sup.frames = 0, !.sup.turn = "idle"]
    BY <1>1, <1>3, <1>4, <1>5 DEF Reported, Drained
  <2>2. (s.reported \/ ended) = ended
    BY <1>2, <1>7 DEF Supervisor
  <2>3. w = [child |-> c, io |-> i, sup |-> s] /\ s \in Supervisor
    BY <1>2
  <2>4. y = [w EXCEPT !.sup = t]
    BY ZenonT(60), <1>6, <1>8, <2>1, <2>2, <2>3 DEF Supervisor
  <2> QED
    BY <2>3, <2>4
<1>10. /\ t \in Supervisor /\ t.exit = s.exit /\ t.state = s.state /\ t.pending = P /\ t.asked = s.asked /\ t.issued = s.issued
       /\ t.received = s.received /\ t.began = s.began /\ t.jobEmpty = empty /\ t.joined = joined /\ t.final = FALSE
       /\ t.exhausted = FALSE /\ t.reported = ended
  <2>1. s \in Supervisor /\ P \in SUBSET Id
    BY <1>2, <1>7 DEF Supervisor
  <2>2. "idle" \in Turn /\ 0 \in 0 .. QUEUE_FRAMES
    BY SupNumbers DEF Turn
  <2>3. t \in Supervisor
    <3>1. PICK u : u = [s EXCEPT !.joined = joined, !.jobEmpty = empty, !.reported = ended]
      OBVIOUS
    <3>2. u \in Supervisor
      BY ZenonT(60), <1>7, <2>1, <3>1 DEF Supervisor
    <3>3. PICK v : v = [u EXCEPT !.pending = P, !.late = FALSE, !.final = FALSE, !.exhausted = FALSE]
      OBVIOUS
    <3>4. v \in Supervisor
      BY ZenonT(60), <2>1, <3>2, <3>3 DEF Supervisor
    <3>5. t = [v EXCEPT !.frames = 0, !.turn = "idle"]
      BY <1>8, <2>1, <3>1, <3>3 DEF Supervisor
    <3> QED
      BY <2>2, <3>4, <3>5 DEF Supervisor
  <2>4. /\ t.exit = s.exit /\ t.state = s.state /\ t.pending = P /\ t.asked = s.asked /\ t.issued = s.issued
        /\ t.received = s.received /\ t.began = s.began /\ t.jobEmpty = empty /\ t.joined = joined /\ t.final = FALSE
        /\ t.exhausted = FALSE /\ t.reported = ended
    BY <1>8, <2>1 DEF Supervisor
  <2> QED
    BY <2>3, <2>4
<1>11. SupCounted(t, q)
  BY <1>2, <1>7, <1>10 DEF SupCounted
<1>12. SupEnding(c, i, t)
  BY <1>2, <1>3, <1>4, <1>5, <1>6, <1>7, <1>10 DEF SupEnding
<1> QED
  BY <1>1, <1>2, <1>9, <1>10, <1>11, <1>12 DEF SupFine, SupAll, SupHolds

(* The rest of poll after its frames.                                        *)
LEMMA SupPollEnds ==
  ASSUME SupInv, ~sup.reported, PollEnds
  PROVE  SupInv'
<1>1. PICK c, i, s, q : c = child /\ i = io /\ s = sup /\ q = past
  OBVIOUS
<1>2. c \in Child /\ i \in IoState /\ s \in Supervisor /\ SupCounted(s, q) /\ SupEnding(c, i, s) /\ q \in SupPast /\ ~s.reported
  BY <1>1, SupNow
<1>3. PICK b : b = (s.exhausted \/ (Reads /\ s.frames < QUEUE_FRAMES))
  OBVIOUS
<1>4. PICK t, x : t = [s EXCEPT !.exhausted = b] /\ x = [child |-> c, io |-> i, sup |-> t]
  OBVIOUS
<1>5. b \in BOOLEAN /\ (b => s.exhausted \/ i.incoming = <<>>)
  <2>1. ~Reads \/ s.frames = QUEUE_FRAMES \/ i.incoming = <<>>
    BY <1>1 DEF PollEnds
  <2>2. QUEUE_FRAMES \in Nat /\ s.frames \in Nat /\ s.exhausted \in BOOLEAN
    BY <1>2, SupNumbers DEF Supervisor
  <2> QED
    BY <1>3, <2>1, <2>2
<1>6. /\ t \in Supervisor /\ t.exit = s.exit /\ t.state = s.state /\ t.pending = s.pending /\ t.asked = s.asked /\ t.issued = s.issued
      /\ t.received = s.received /\ t.began = s.began /\ t.jobEmpty = s.jobEmpty /\ t.joined = s.joined /\ t.final = s.final
      /\ t.exhausted = b /\ t.reported = s.reported
  BY <1>2, <1>4, <1>5 DEF Supervisor
<1>7. SupCounted(t, q)
  BY <1>2, <1>6 DEF SupCounted
<1>8. SupEnding(c, i, t)
  BY <1>2, <1>5, <1>6 DEF SupEnding
<1>9. SupFine(x, q) /\ x.sup = t /\ x.child = c
  BY <1>2, <1>4, <1>6, <1>7, <1>8 DEF SupFine, SupAll, SupHolds
<1>10. \E e \in Expired(x) : \E w \in Waited(e[1]) :
             /\ Becomes(Reported(w))
             /\ past' = [past EXCEPT !.outcomes = Bump(@, e[2]), !.answers = Bump(@, e[3])]
  <2>1. [Now EXCEPT !.sup.exhausted = @ \/ (Reads /\ sup.frames < QUEUE_FRAMES)] = x
    BY <1>1, <1>2, <1>3, <1>4 DEF Now
  <2> QED
    BY <2>1 DEF PollEnds
<1>11. PICK e \in Expired(x) : \E w \in Waited(e[1]) :
             /\ Becomes(Reported(w))
             /\ past' = [past EXCEPT !.outcomes = Bump(@, e[2]), !.answers = Bump(@, e[3])]
  BY <1>10
<1>12. PICK w \in Waited(e[1]) : Becomes(Reported(w)) /\ past' = [past EXCEPT !.outcomes = Bump(@, e[2]), !.answers = Bump(@, e[3])]
  BY <1>11
<1>13. PICK u, r, y : u = e[1] /\ r = SupResults(q, e) /\ y = Reported(w)
  OBVIOUS
<1>14. SupFine(u, r) /\ ~u.sup.reported /\ u.sup.exit = x.sup.exit /\ u.child.alive = x.child.alive
  <2>1. x.sup.pending = sup.pending /\ x.sup.asked = sup.asked /\ ~x.sup.reported
    BY <1>1, <1>2, <1>6, <1>9
  <2> QED
    BY <1>9, <1>13, <2>1, SupExpires
<1>15. w \in Waited(u) /\ u.sup.exit = sup.exit /\ u.child.alive = child.alive
  BY <1>1, <1>6, <1>9, <1>12, <1>13, <1>14
<1>16. SupFine(w, r) /\ ~w.sup.reported
  BY <1>14, <1>15, SupWaits
<1>17. SupFine(y, r)
  BY <1>13, <1>16, SupReports
<1>18. Becomes(y) /\ past' = r
  BY <1>1, <1>12, <1>13 DEF SupResults
<1> QED
  BY <1>17, <1>18, SupBecomes

(* The child writes, starts a descendant, dies; its job empties.             *)
LEMMA SupChild ==
  ASSUME SupInv, ChildWrites \/ ChildChanges \/ ChildDies \/ JobEmpties
  PROVE  SupInv'
<1>1. PICK c, i, s, q : c = child /\ i = io /\ s = sup /\ q = past
  OBVIOUS
<1>2. c \in Child /\ i \in IoState /\ s \in Supervisor /\ SupCounted(s, q) /\ SupEnding(c, i, s) /\ q \in SupPast
  BY <1>1, SupNow
<1>3. UNCHANGED <<io, sup, past>>
  BY DEF ChildWrites, ChildChanges, ChildDies, JobEmpties
<1>4. ASSUME NEW d \in Child, child' = d, d.alive => c.alive, d.job => c.job \/ c.alive
      PROVE  SupInv'
  <2>1. s.jobEmpty => s.exit /\ ~c.job /\ ~c.alive
    BY <1>2 DEF SupEnding
  <2>2. SupEnding(d, i, s)
    BY <1>2, <1>4, <2>1 DEF SupEnding
  <2> QED
    BY <1>1, <1>2, <1>3, <1>4, <2>2 DEF SupInv, SupHolds
<1>5. c.wrote \in 0 .. MaxFrames /\ c.pipe \in Seq(Frame) /\ MaxFrames \in Nat
  BY <1>2, SupNumbers DEF Child
<1>6. CASE ChildWrites
  <2>1. PICK n : n = c.wrote + 1
    OBVIOUS
  <2>2. c.wrote < MaxFrames
    BY <1>1, <1>6 DEF ChildWrites
  <2>3. n \in 0 .. MaxFrames
    BY <1>5, <2>1, <2>2
  <2>4. CASE \E f \in Frame : child' = [child EXCEPT !.pipe = Append(@, f), !.wrote = @ + 1]
    <3>1. PICK f \in Frame : child' = [child EXCEPT !.pipe = Append(@, f), !.wrote = @ + 1]
      BY <2>4
    <3>2. PICK p, d : p = Append(c.pipe, f) /\ d = [c EXCEPT !.pipe = p, !.wrote = n]
      OBVIOUS
    <3>3. p \in Seq(Frame)
      BY <1>5, <3>2, AppendProperties
    <3>4. d \in Child /\ d.alive = c.alive /\ d.job = c.job
      BY <1>2, <2>3, <3>2, <3>3 DEF Child
    <3>5. child' = d
      BY <1>1, <1>2, <2>1, <3>1, <3>2
    <3> QED
      BY <1>4, <3>4, <3>5
  <2>5. CASE child' = [child EXCEPT !.out = "torn", !.wrote = @ + 1]
    <3>1. PICK d : d = [c EXCEPT !.out = "torn", !.wrote = n]
      OBVIOUS
    <3>2. d \in Child /\ d.alive = c.alive /\ d.job = c.job
      BY <1>2, <2>3, <3>1 DEF Child
    <3>3. child' = d
      BY <1>1, <1>2, <2>1, <2>5, <3>1
    <3> QED
      BY <1>4, <3>2, <3>3
  <2> QED
    BY <1>6, <2>4, <2>5 DEF ChildWrites
<1>7. CASE ChildChanges
  <2>1. c.alive
    BY <1>1, <1>7 DEF ChildChanges
  <2>2. PICK d, e : d = [c EXCEPT !.job = TRUE] /\ e = [c EXCEPT !.out = "closed"]
    OBVIOUS
  <2>3. d \in Child /\ d.alive = c.alive /\ e \in Child /\ e.alive = c.alive /\ e.job = c.job
    BY <1>2, <2>2 DEF Child
  <2>4. child' = d \/ child' = e
    BY <1>1, <1>7, <2>2 DEF ChildChanges
  <2> QED
    BY <1>4, <2>1, <2>3, <2>4
<1>8. CASE ChildDies
  <2>1. PICK d : d = [c EXCEPT !.alive = FALSE]
    OBVIOUS
  <2>2. d \in Child /\ ~d.alive /\ d.job = c.job /\ child' = d
    BY <1>1, <1>2, <1>8, <2>1 DEF Child, ChildDies
  <2> QED
    BY <1>4, <2>2
<1>9. CASE JobEmpties
  <2>1. PICK d : d = [c EXCEPT !.job = FALSE]
    OBVIOUS
  <2>2. d \in Child /\ ~d.job /\ d.alive = c.alive /\ child' = d
    BY <1>1, <1>2, <1>9, <2>1 DEF Child, JobEmpties
  <2> QED
    BY <1>4, <2>2
<1> QED
  BY <1>6, <1>7, <1>8, <1>9

(* The three IO workers.                                                     *)
LEMMA SupWorkers ==
  ASSUME SupInv, read_stdout \/ write_stdin \/ read_stderr
  PROVE  SupInv'
<1>1. PICK c, i, s, q : c = child /\ i = io /\ s = sup /\ q = past
  OBVIOUS
<1>2. c \in Child /\ i \in IoState /\ s \in Supervisor /\ SupCounted(s, q) /\ SupEnding(c, i, s) /\ q \in SupPast
  BY <1>1, SupNow
<1>3. UNCHANGED <<sup, past>> /\ i.running # {}
  BY <1>1 DEF read_stdout, write_stdin, read_stderr
<1>4. ~s.joined /\ ~s.final /\ ~s.reported
  BY <1>2, <1>3 DEF SupEnding
<1>5. ASSUME NEW d \in Child, NEW j \in IoState, child' = d, io' = j, d.alive = c.alive, d.job = c.job, Len(j.incoming) <= QUEUE_FRAMES
      PROVE  SupInv'
  <2>1. SupEnding(d, j, s)
    BY <1>2, <1>4, <1>5 DEF SupEnding
  <2> QED
    BY <1>1, <1>2, <1>3, <1>5, <2>1 DEF SupInv, SupHolds
<1>6. i.running \subseteq Worker /\ i.incoming \in Seq(Frame) /\ Len(i.incoming) <= QUEUE_FRAMES /\ i.outgoing \in 0 .. QUEUE_FRAMES /\ c.pipe \in Seq(Frame)
  BY <1>2 DEF IoState, Child, SupEnding
<1>7. CASE read_stdout
  <2>1. PICK R : R = i.running \ {"stdout"}
    OBVIOUS
  <2>2. R \in SUBSET Worker
    BY <1>6, <2>1
  <2>3. CASE ~io.stopping /\ child.pipe # <<>>
    <3>1. PICK p, f : p = Tail(c.pipe) /\ f = Head(c.pipe)
      OBVIOUS
    <3>2. p \in Seq(Frame) /\ f \in Frame
      BY <1>1, <1>6, <2>3, <3>1, HeadTailProperties
    <3>3. PICK d : d = [c EXCEPT !.pipe = p]
      OBVIOUS
    <3>4. d \in Child /\ d.alive = c.alive /\ d.job = c.job
      BY <1>2, <3>2, <3>3 DEF Child
    <3>5. CASE Len(io.incoming) < QUEUE_FRAMES /\ child' = [child EXCEPT !.pipe = Tail(@)] /\ io' = [io EXCEPT !.incoming = Append(@, Head(child.pipe))]
      <4>1. PICK n, j : n = Append(i.incoming, f) /\ j = [i EXCEPT !.incoming = n]
        OBVIOUS
      <4>2. n \in Seq(Frame) /\ Len(n) = Len(i.incoming) + 1
        BY <1>6, <3>2, <4>1, AppendProperties
      <4>3. Len(n) <= QUEUE_FRAMES
        <5>1. Len(i.incoming) \in Nat /\ Len(i.incoming) < QUEUE_FRAMES /\ QUEUE_FRAMES \in Nat
          BY <1>1, <1>6, <3>5, LenProperties, SupNumbers
        <5> QED
          BY <4>2, <5>1
      <4>4. j \in IoState /\ j.incoming = n
        BY <1>2, <4>1, <4>2 DEF IoState
      <4>5. child' = d /\ io' = j
        BY <1>1, <3>1, <3>3, <3>5, <4>1
      <4> QED
        BY <1>5, <3>4, <4>3, <4>4, <4>5
    <3>6. CASE child' = [child EXCEPT !.pipe = Tail(@)] /\ io' = Ends("stdout", [io EXCEPT !.failure = TRUE, !.stdoutClosed = TRUE])
      <4>1. PICK j : j = [i EXCEPT !.failure = TRUE, !.stdoutClosed = TRUE, !.running = R]
        OBVIOUS
      <4>2. j \in IoState /\ j.incoming = i.incoming
        BY <1>2, <2>2, <4>1 DEF IoState
      <4>3. child' = d /\ io' = j
        <5>1. child' = d
          BY <1>1, <3>1, <3>3, <3>6
        <5>2. io' = j
          BY <1>1, <1>2, <2>1, <3>6, <4>1 DEF Ends, IoState
        <5> QED
          BY <5>1, <5>2
      <4> QED
        BY <1>5, <1>6, <3>4, <4>2, <4>3
    <3> QED
      BY <1>7, <2>3, <3>5, <3>6 DEF read_stdout
  <2>4. CASE child' = child /\ io' = Ends("stdout", [io EXCEPT !.failure = @ \/ (child.out = "torn" /\ ~io.stopping), !.stdoutClosed = TRUE])
    <3>1. PICK b : b = (i.failure \/ (c.out = "torn" /\ ~i.stopping))
      OBVIOUS
    <3>2. b \in BOOLEAN
      BY <1>2, <3>1 DEF IoState
    <3>3. PICK j : j = [i EXCEPT !.failure = b, !.stdoutClosed = TRUE, !.running = R]
      OBVIOUS
    <3>4. j \in IoState /\ j.incoming = i.incoming
      BY <1>2, <2>2, <3>2, <3>3 DEF IoState
    <3>5. io' = j
      BY <1>1, <1>2, <2>1, <2>4, <3>1, <3>3 DEF Ends, IoState
    <3> QED
      BY <1>1, <1>2, <1>5, <1>6, <2>4, <3>4, <3>5
  <2> QED
    BY <1>7, <2>3, <2>4 DEF read_stdout
<1>8. CASE write_stdin
  <2>1. PICK R, n : R = i.running \ {"stdin"} /\ n = i.outgoing - 1
    OBVIOUS
  <2>2. R \in SUBSET Worker
    BY <1>6, <2>1
  <2>3. i.outgoing > 0 => n \in 0 .. QUEUE_FRAMES
    BY <1>6, <2>1, SupNumbers
  <2>4. CASE io.outgoing > 0 /\ io' = [io EXCEPT !.outgoing = @ - 1]
    <3>1. PICK j : j = [i EXCEPT !.outgoing = n]
      OBVIOUS
    <3>2. n \in 0 .. QUEUE_FRAMES /\ io' = j
      BY <1>1, <2>1, <2>3, <2>4, <3>1
    <3>3. j \in IoState /\ j.incoming = i.incoming
      BY <1>2, <3>1, <3>2 DEF IoState
    <3> QED
      BY <1>1, <1>2, <1>5, <1>6, <1>8, <3>2, <3>3 DEF write_stdin
  <2>5. CASE io.outgoing > 0 /\ io' = Ends("stdin", [io EXCEPT !.outgoing = @ - 1, !.failure = TRUE])
    <3>1. PICK j : j = [i EXCEPT !.outgoing = n, !.failure = TRUE, !.running = R]
      OBVIOUS
    <3>2. n \in 0 .. QUEUE_FRAMES
      BY <1>1, <2>3, <2>5
    <3>3. j \in IoState /\ j.incoming = i.incoming
      BY <1>2, <2>2, <3>1, <3>2 DEF IoState
    <3>4. io' = j
      BY <1>1, <1>2, <2>1, <2>5, <3>1 DEF Ends, IoState
    <3> QED
      BY <1>1, <1>2, <1>5, <1>6, <1>8, <3>3, <3>4 DEF write_stdin
  <2>6. CASE io' = Ends("stdin", io)
    <3>1. PICK j : j = [i EXCEPT !.running = R]
      OBVIOUS
    <3>2. j \in IoState /\ j.incoming = i.incoming /\ io' = j
      BY <1>1, <1>2, <2>1, <2>2, <2>6, <3>1 DEF IoState, Ends
    <3> QED
      BY <1>1, <1>2, <1>5, <1>6, <1>8, <3>2 DEF write_stdin
  <2> QED
    BY <1>8, <2>4, <2>5, <2>6 DEF write_stdin
<1>9. CASE read_stderr
  <2>1. PICK R, j : R = i.running \ {"stderr"} /\ j = [i EXCEPT !.running = R]
    OBVIOUS
  <2>2. R \in SUBSET Worker
    BY <1>6, <2>1
  <2>3. j \in IoState /\ j.incoming = i.incoming /\ io' = j
    BY <1>1, <1>2, <1>9, <2>1, <2>2 DEF IoState, Ends, read_stderr
  <2> QED
    BY <1>1, <1>2, <1>5, <1>6, <1>9, <2>3 DEF read_stderr
<1> QED
  BY <1>7, <1>8, <1>9

(* Every step keeps the invariant.                                           *)
LEMMA SupStep ==
  ASSUME SupInv, [SupNext]_supVars
  PROVE  SupInv'
<1>1. CASE UNCHANGED supVars
  BY <1>1 DEF supVars, SupInv, SupHolds, SupCounted, SupEnding
<1>2. CASE ~sup.reported /\ Poll
  <2>1. CASE \E late \in BOOLEAN : PollBegins(late)
    BY <1>2, <2>1, SupPollBegins
  <2> QED
    BY <1>2, <2>1, SupFrames, SupPollEnds DEF Poll
<1>3. CASE ~sup.reported /\ OwnerCalls
  <2>1. CASE send_request \/ notify
    BY <1>3, <2>1, SupSends
  <2>2. CASE mark_ready \/ stop \/ \E id \in Id : cancel_request(id)
    BY <1>3, <2>2, SupCalls
  <2>3. CASE \E id \in Id : respond(id)
    BY <1>3, <2>3, SupResponds
  <2>4. CASE \E w \in BOOLEAN : begin_stop(w)
    BY <1>3, <2>4, SupBegins
  <2> QED
    BY <1>3, <2>1, <2>2, <2>3, <2>4 DEF OwnerCalls
<1>4. CASE ChildWrites \/ ChildChanges \/ ChildDies \/ JobEmpties
  BY <1>4, SupChild
<1>5. CASE read_stdout \/ write_stdin \/ read_stderr
  BY <1>5, SupWorkers
<1> QED
  BY <1>1, <1>2, <1>3, <1>4, <1>5 DEF SupNext

(* spawn establishes it.                                                     *)
LEMMA SupStart ==
  ASSUME SupInit
  PROVE  SupInv
<1>1. PICK c, i, s, q : c = child /\ i = io /\ s = sup /\ q = past
  OBVIOUS
<1>2. c \in Child /\ c.alive /\ ~c.job
  <2>1. <<>> \in Seq(Frame)
    OBVIOUS
  <2> QED
    BY <1>1, <2>1, SupNumbers DEF SupInit, Child
<1>3. i \in IoState /\ i.incoming = <<>> /\ ~i.failure
  <2>1. <<>> \in Seq(Frame)
    OBVIOUS
  <2> QED
    BY <1>1, <2>1, SupNumbers DEF SupInit, IoState
<1>4. s \in Supervisor
  BY <1>1, SupNumbers DEF SupInit, Supervisor, HostState, Turn
<1>5. s.pending = {} /\ s.asked = {} /\ s.issued = 0 /\ ~s.exit /\ ~s.jobEmpty /\ ~s.joined /\ ~s.final /\ ~s.reported
  BY <1>1 DEF SupInit
<1>6. q \in SupPast /\ \A k \in Id : q.outcomes[k] = 0 /\ q.answers[k] = 0
  BY <1>1 DEF SupInit, SupPast
<1>7. SupCounted(s, q)
  BY <1>5, <1>6, SupNumbers DEF SupCounted
<1>8. SupEnding(c, i, s)
  BY <1>3, <1>5, SupNumbers DEF SupEnding
<1> QED
  BY <1>1, <1>2, <1>3, <1>4, <1>6, <1>7, <1>8 DEF SupInv, SupHolds

(* It contains what the run checks.                                          *)
LEMMA SupImplies ==
  ASSUME SupInv
  PROVE  SupervisorSound
<1>1. SupTypeOK
  BY DEF SupInv, SupHolds, SupEnding, SupTypeOK
<1>2. ExitIsFinal
  BY DEF SupInv, SupHolds, SupEnding, ExitIsFinal
<1>3. OneOutcome
  BY DEF SupInv, SupHolds, SupCounted, OneOutcome
<1> QED
  BY <1>1, <1>2, <1>3 DEF SupervisorSound

(* For any queue length, any number of requests in either direction and any  *)
(* child: a reported exit is final, with the process, its job and the        *)
(* workers gone and, unless the Host failed, every frame that was read       *)
(* looked at; a request of Core has one outcome and a request of the child   *)
(* one answer (supervisor.rs: poll, accept, begin_stop, respond).            *)
THEOREM SupervisorIsSound == SupSpec => []SupervisorSound
<1>1. SupInit => SupInv
  BY SupStart
<1>2. SupInv /\ [SupNext]_supVars => SupInv'
  BY SupStep
<1>3. SupInv => SupervisorSound
  BY SupImplies
<1> QED
  BY <1>1, <1>2, <1>3, PTL DEF SupSpec
=============================================================================
