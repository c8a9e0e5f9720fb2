----------------------------- MODULE JsProvision -----------------------------
(***************************************************************************)
(* The private cache of pinned Node runtimes (js_runtime/provision.rs, the *)
(* Windows build).  Core processes, possibly of different releases, share  *)
(* one cache root.  A directory of the root is a preparation, a published  *)
(* cache of one digest or a retired cache; a lock file per digest          *)
(* serialises those who prepare, publish or remove.  A process may die     *)
(* between any two file operations: its locks and handles go, its files    *)
(* stay.  A runtime that was handed out holds its two files open, so they  *)
(* cannot be opened exclusively, renamed or removed.                       *)
(***************************************************************************)
EXTENDS Naturals, Sequences, FiniteSets

CONSTANTS Cores,        \* the Core processes
          Digests,      \* the Node executables some release is pinned to
          Candidates,   \* Candidates[p]: the client profiles' digests of p's release, then its fallback pin
          BundledIn,    \* the processes whose package carries a bundled Node
          ATTEMPTS,     \* attempts per download source (3)
          DirIds,       \* bound: directories that exist at a time
          MaxDeaths     \* bound: processes that die

ASSUME JsConstants ==
  /\ "free" \notin Cores \cup Digests /\ 0 \notin DirIds /\ IsFiniteSet(DirIds)
  /\ \A p \in Cores : Candidates[p] \in Seq(Digests) /\ Candidates[p] # << >>
  /\ MaxDeaths \in Nat /\ ATTEMPTS \in Nat

VARIABLES dirs,         \* the directories of the cache root
          cacheLock,    \* who holds the lock file of each digest
          owner_core,         \* what each process is doing
          held,         \* the cache directories whose files each process holds open
          deaths

jsVars == <<dirs, cacheLock, owner_core, held, deaths>>

Free == "free"
WholeCopy == {"node", "license", "marker"}
NoDir == [name |-> "none", digest |-> Free, files |-> {}, good |-> TRUE]
Resting == [at |-> "idle", cand |-> 0, purpose |-> Free, digest |-> Free, dir |-> 0, source |-> Free, attempt |-> 0]

JsTypeOK ==
  /\ dirs \in [DirIds -> [name : {"none", "prepare", "cache", "gc"}, digest : Digests \cup {Free},
                          files : SUBSET (WholeCopy \cup {"preparing", "archive"}), good : BOOLEAN]]
  /\ cacheLock \in [Digests -> Cores \cup {Free}]
  /\ \A p \in Cores : owner_core[p].dir \in DirIds \cup {0} /\ held[p] \subseteq DirIds
  /\ deaths \in 0..MaxDeaths

Named(name, d) == {i \in DirIds : dirs[i].name = name /\ dirs[i].digest = d}

\* Locks are released by whoever holds them when p lets go of what it is doing.
Unlocked(p) == [d \in Digests |-> IF cacheLock[d] = p THEN Free ELSE cacheLock[d]]

GoesTo(p, change) == owner_core' = [owner_core EXCEPT ![p] = change]

\* An error of p: its lock is dropped with the stack frame, ensure answers the error.
Errs(p) == GoesTo(p, Resting) /\ cacheLock' = Unlocked(p)

(* --- Choosing a runtime ------------------------------------------------- *)

TurnsTo(p, i) ==
  [Resting EXCEPT !.at = "lock", !.cand = i, !.purpose = "reuse", !.digest = Candidates[p][i]]

ensure_managed(p) ==
  /\ owner_core[p].at = "idle"
  /\ GoesTo(p, TurnsTo(p, 1))
  /\ UNCHANGED <<dirs, cacheLock, held, deaths>>

\* Without a cache: a profile is copied from the installed client if it is there,
\* otherwise the next candidate is tried; the fallback is bundled or downloaded.
NoCache(p) ==
  LET c == owner_core[p]
      again(source) == [c EXCEPT !.at = "lock", !.purpose = "prepare", !.source = source]
  IN /\ cacheLock' = Unlocked(p)
     /\ UNCHANGED <<dirs, held, deaths>>
     /\ \/ c.cand < Len(Candidates[p]) /\ GoesTo(p, again("client"))
        \/ c.cand < Len(Candidates[p]) /\ GoesTo(p, TurnsTo(p, c.cand + 1))
        \/ c.cand = Len(Candidates[p]) /\ GoesTo(p, IF p \in BundledIn THEN Resting ELSE again("mirror"))

(* --- The lock of a digest and what is done first under it --------------- *)

lock(p) ==
  /\ owner_core[p].at = "lock" /\ cacheLock[owner_core[p].digest] = Free
  /\ cacheLock' = [cacheLock EXCEPT ![owner_core[p].digest] = p]
  /\ GoesTo(p, [owner_core[p] EXCEPT !.at = "clean"])
  /\ UNCHANGED <<dirs, held, deaths>>

\* The deadline passes while another process holds the lock.
js_runtime_busy(p) ==
  /\ owner_core[p].at = "lock" /\ cacheLock[owner_core[p].digest] # Free
  /\ Errs(p)
  /\ UNCHANGED <<dirs, held, deaths>>

preparation_owned(i) == dirs[i].files \cap {"preparing", "marker"} # {}

Interrupted(d) == {i \in Named("prepare", d) : preparation_owned(i)}

cleanup_interrupted_for_key(p) ==
  /\ owner_core[p].at = "clean"
  /\ \E i \in Interrupted(owner_core[p].digest) : GoesTo(p, [owner_core[p] EXCEPT !.at = "removing", !.dir = i])
  /\ UNCHANGED <<dirs, cacheLock, held, deaths>>

\* A directory tree goes file by file, in no particular order.
remove_dir_all(p) ==
  /\ owner_core[p].at = "removing"
  /\ LET i == owner_core[p].dir
     IN \/ /\ \E f \in dirs[i].files : dirs' = [dirs EXCEPT ![i].files = @ \ {f}]
           /\ UNCHANGED <<owner_core, cacheLock>>
        \/ /\ dirs[i].files = {}
           /\ dirs' = [dirs EXCEPT ![i] = NoDir]
           /\ IF owner_core[p].purpose = "failed"
              THEN Errs(p)
              ELSE GoesTo(p, [owner_core[p] EXCEPT !.at = "clean", !.dir = 0]) /\ UNCHANGED cacheLock
  /\ UNCHANGED <<held, deaths>>

\* Nothing to remove is left, or it could not be removed (errors are ignored).
CleanupEnds(p) ==
  /\ owner_core[p].at = "clean"
  /\ IF owner_core[p].purpose = "sweep"
     THEN GoesTo(p, [owner_core[p] EXCEPT !.at = "prune"]) /\ cacheLock' = Unlocked(p)
     ELSE GoesTo(p, [owner_core[p] EXCEPT !.at = "existing"]) /\ UNCHANGED cacheLock
  /\ UNCHANGED <<dirs, held, deaths>>

(* --- A published cache -------------------------------------------------- *)

\* checked_pair opens both files without write or delete sharing, then hashes them.
checked_pair(i) == {"node", "license"} \subseteq dirs[i].files /\ dirs[i].good

cache_layout(i) == dirs[i].files = WholeCopy

HandsOut(p, i) ==
  /\ held' = [held EXCEPT ![p] = @ \cup {i}]
  /\ cacheLock' = Unlocked(p)
  /\ GoesTo(p, [Resting EXCEPT !.at = "prune"])
  /\ UNCHANGED <<dirs, deaths>>

existing_cache(p) ==
  /\ owner_core[p].at = "existing"
  /\ LET found == Named("cache", owner_core[p].digest)
     IN \/ \E i \in found : cache_layout(i) /\ checked_pair(i) /\ HandsOut(p, i)
        \/ /\ \E i \in found : ~(cache_layout(i) /\ checked_pair(i))
           /\ Errs(p)
           /\ UNCHANGED <<dirs, held, deaths>>
        \/ found = {} /\ owner_core[p].purpose = "reuse" /\ NoCache(p)
        \/ /\ found = {} /\ owner_core[p].purpose = "prepare"
           /\ \E i \in DirIds :
                /\ dirs[i].name = "none"
                /\ dirs' = [dirs EXCEPT ![i] = [NoDir EXCEPT !.name = "prepare", !.digest = owner_core[p].digest]]
                /\ GoesTo(p, [owner_core[p] EXCEPT !.at = "new", !.dir = i])
           /\ UNCHANGED <<cacheLock, held, deaths>>

(* --- Preparing a new one ------------------------------------------------ *)

Steps == {"new", "download", "fill", "check", "mark", "unmark", "publish"}

\* One operation on the preparation of p, which then stands at the next step.
EditsDirectory(p, from, files, to) ==
  /\ owner_core[p].at = from
  /\ dirs' = [dirs EXCEPT ![owner_core[p].dir].files = files]
  /\ GoesTo(p, [owner_core[p] EXCEPT !.at = to])
  /\ UNCHANGED <<cacheLock, held, deaths>>

Files(p) == dirs[owner_core[p].dir].files

write_preparing(p) ==
  EditsDirectory(p, "new", Files(p) \cup {"preparing"}, IF owner_core[p].source = "client" THEN "fill" ELSE "download")

\* An attempt opens the archive with create_new.  It ends with the pinned archive,
\* or fails and may leave a part: a retry of the same source, or the next source,
\* removes it first.
download_archive(p) ==
  /\ owner_core[p].at = "download" /\ "archive" \notin Files(p)
  /\ \/ EditsDirectory(p, "download", Files(p) \cup {"archive"}, "fill")
     \/ \E part \in SUBSET {"archive"} :
          /\ dirs' = [dirs EXCEPT ![owner_core[p].dir].files = @ \cup part]
          /\ GoesTo(p, [owner_core[p] EXCEPT !.at = "retry"])
          /\ UNCHANGED <<cacheLock, held, deaths>>

\* A network failure is tried ATTEMPTS times; a wrong answer or hash, or the last
\* failure, turns to the official source, and there ends the preparation.
NextAttempt(p) ==
  /\ owner_core[p].at = "retry"
  /\ dirs' = [dirs EXCEPT ![owner_core[p].dir].files = @ \ {"archive"}]
  /\ \/ owner_core[p].attempt + 1 < ATTEMPTS /\ GoesTo(p, [owner_core[p] EXCEPT !.at = "download", !.attempt = @ + 1])
     \/ owner_core[p].source = "mirror"
        /\ GoesTo(p, [owner_core[p] EXCEPT !.at = "download", !.source = "official", !.attempt = 0])
     \/ owner_core[p].source = "official" /\ GoesTo(p, [owner_core[p] EXCEPT !.at = "removing", !.purpose = "failed"])
  /\ UNCHANGED <<cacheLock, held, deaths>>

\* copy_pair or extract_exact: node, then LICENSE, then the archive goes.  What
\* arrives on disk need not be what was pinned.
Fills(p) ==
  /\ owner_core[p].at = "fill"
  /\ UNCHANGED <<cacheLock, held, deaths>>
  /\ IF Files(p) \cap {"node", "license"} # {"node", "license"}
     THEN \E good \in BOOLEAN :
            /\ dirs' = [dirs EXCEPT ![owner_core[p].dir].files = @ \cup {IF "node" \in @ THEN "license" ELSE "node"},
                                    ![owner_core[p].dir].good = @ /\ good]
            /\ UNCHANGED owner_core
     ELSE /\ dirs' = [dirs EXCEPT ![owner_core[p].dir].files = @ \ {"archive"}]
          /\ GoesTo(p, [owner_core[p] EXCEPT !.at = "check"])

ChecksPrepared(p) ==
  /\ owner_core[p].at = "check" /\ checked_pair(owner_core[p].dir)
  /\ GoesTo(p, [owner_core[p] EXCEPT !.at = "mark"])
  /\ UNCHANGED <<dirs, cacheLock, held, deaths>>

write_marker(p) == EditsDirectory(p, "mark", Files(p) \cup {"marker"}, "unmark")

RemovesPreparing(p) == EditsDirectory(p, "unmark", Files(p) \ {"preparing"}, "publish")

\* The rename and the final check, still under the lock.
Publishes(p) ==
  /\ owner_core[p].at = "publish" /\ Named("cache", owner_core[p].digest) = {}
  /\ dirs' = [dirs EXCEPT ![owner_core[p].dir].name = "cache"]
  /\ GoesTo(p, [owner_core[p] EXCEPT !.at = "existing"])
  /\ UNCHANGED <<cacheLock, held, deaths>>

\* Any step may fail; the temporary directory is dropped before the lock is.
PreparationFails(p) ==
  /\ owner_core[p].at \in Steps
  /\ GoesTo(p, [owner_core[p] EXCEPT !.at = "removing", !.purpose = "failed"])
  /\ UNCHANGED <<dirs, cacheLock, held, deaths>>

(* --- Removing what no release of this process uses ---------------------- *)

Keep(p) == {Candidates[p][i] : i \in DOMAIN Candidates[p]}

CacheAlwaysIdle(i) == TRUE

\* The files of a runtime in use cannot be opened exclusively.
cache_is_idle(i) == \A p \in Cores : i \notin held[p]

SweepsCache(p, i, at) ==
  /\ owner_core[p].at = "prune" /\ cacheLock[dirs[i].digest] = Free
  /\ cacheLock' = [cacheLock EXCEPT ![dirs[i].digest] = p]
  /\ GoesTo(p, [owner_core[p] EXCEPT !.at = at, !.purpose = "sweep", !.digest = dirs[i].digest, !.dir = i])
  /\ UNCHANGED <<held, deaths>>

\* try_lock_for_cleanup, then the interrupted preparations of that digest.
SweepsPreparations(p) ==
  \E i \in DirIds : dirs[i].name = "prepare" /\ SweepsCache(p, i, "clean") /\ UNCHANGED dirs

ResumesRetired(p) ==
  \E i \in DirIds : dirs[i].name = "gc" /\ SweepsCache(p, i, "gc") /\ UNCHANGED dirs

\* Whether the retention has passed is a matter of the clock.
prune_obsolete_inner(p) ==
  \E i \in DirIds :
    /\ dirs[i].name = "cache" /\ dirs[i].digest \notin Keep(p)
    /\ cache_layout(i) /\ checked_pair(i) /\ cache_is_idle(i)
    /\ dirs' = [dirs EXCEPT ![i].name = "gc"]
    /\ SweepsCache(p, i, "gc")

\* Node, then LICENSE, then the marker that shows whose directory it is.
finish_retired_gc(p) ==
  /\ owner_core[p].at = "gc"
  /\ LET i == owner_core[p].dir
         rest == dirs[i].files
         next == IF "node" \in rest THEN "node" ELSE IF "license" \in rest THEN "license" ELSE "marker"
     IN \/ /\ "marker" \in rest
           /\ dirs' = [dirs EXCEPT ![i].files = @ \ {next}]
           /\ UNCHANGED <<owner_core, cacheLock>>
        \/ /\ rest = {}
           /\ dirs' = [dirs EXCEPT ![i] = NoDir]
           /\ GoesTo(p, [owner_core[p] EXCEPT !.at = "prune", !.dir = 0])
           /\ cacheLock' = Unlocked(p)
  /\ UNCHANGED <<held, deaths>>

\* An error of a removal ends the pruning, which is only logged.
prune_obsolete(p) ==
  /\ owner_core[p].at \in {"prune", "gc"}
  /\ Errs(p)
  /\ UNCHANGED <<dirs, held, deaths>>

(* --- Environment -------------------------------------------------------- *)

Releases(p) ==
  /\ held[p] # {}
  /\ held' = [held EXCEPT ![p] = {}]
  /\ UNCHANGED <<dirs, cacheLock, owner_core, deaths>>

CoreDies(p) ==
  /\ deaths < MaxDeaths /\ (owner_core[p].at # "idle" \/ held[p] # {})
  /\ deaths' = deaths + 1
  /\ Errs(p)
  /\ held' = [held EXCEPT ![p] = {}]
  /\ UNCHANGED dirs

JsInit ==
  /\ dirs = [i \in DirIds |-> NoDir] /\ cacheLock = [d \in Digests |-> Free]
  /\ owner_core = [p \in Cores |-> Resting] /\ held = [p \in Cores |-> {}] /\ deaths = 0

JsNext ==
  \E p \in Cores :
    \/ ensure_managed(p) \/ lock(p) \/ js_runtime_busy(p)
    \/ cleanup_interrupted_for_key(p) \/ remove_dir_all(p) \/ CleanupEnds(p) \/ existing_cache(p)
    \/ write_preparing(p) \/ download_archive(p) \/ NextAttempt(p) \/ Fills(p) \/ ChecksPrepared(p)
    \/ write_marker(p) \/ RemovesPreparing(p) \/ Publishes(p) \/ PreparationFails(p)
    \/ SweepsPreparations(p) \/ ResumesRetired(p) \/ prune_obsolete_inner(p)
    \/ finish_retired_gc(p) \/ prune_obsolete(p)
    \/ Releases(p) \/ CoreDies(p)

JsSpec == JsInit /\ [][JsNext]_jsVars

(* --- Properties --------------------------------------------------------- *)

\* A published directory is whole and has the pinned hashes, whatever died when,
\* and there is one for a digest.
PublishedWhole ==
  \A d \in Digests :
    /\ Cardinality(Named("cache", d)) <= 1
    /\ \A i \in Named("cache", d) : cache_layout(i) /\ dirs[i].good

\* A runtime in use is never retired, emptied or replaced.
InUseStays == \A p \in Cores : \A i \in held[p] : dirs[i].name = "cache" /\ cache_layout(i)

\* Nobody cleans away the preparation of a living process.
PreparationKept ==
  \A p \in Cores : owner_core[p].at \in Steps \cup {"retry"} =>
    /\ dirs[owner_core[p].dir].name = "prepare" /\ dirs[owner_core[p].dir].digest = owner_core[p].digest
    /\ cacheLock[owner_core[p].digest] = p
    /\ owner_core[p].at # "new" => preparation_owned(owner_core[p].dir)
    /\ owner_core[p].at = "download" => "archive" \notin Files(p)

\* A retired directory that is not empty still shows its owner, so that a later
\* pruning can finish it.
RetiredIsFinishable ==
  \A i \in DirIds : dirs[i].name = "gc" /\ dirs[i].files # {} => "marker" \in dirs[i].files

\* The cache of provision.rs stays sound under crashes and concurrent releases:
\* published directories are whole, runtimes in use and living preparations are
\* left alone, interrupted removals can be resumed.
ProvisionSound == JsTypeOK /\ PublishedWhole /\ InUseStays /\ PreparationKept /\ RetiredIsFinishable
=============================================================================
