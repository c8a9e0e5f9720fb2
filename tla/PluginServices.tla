--------------------------- MODULE PluginServices ---------------------------
(* The persistent services of one plugin (src/plugin_services): its storage    *)
(* document with revisions and a bounded history of changes, and its           *)
(* credentials, whose metadata is in a file and whose secrets are in the       *)
(* operating system's vault.  Windows of several processes call them.          *)
EXTENDS Integers, Sequences, FiniteSets

CONSTANTS
    Windows,            \* callers, each in a process of its own
    Sources,            \* stable source identities of packages with this plugin id
    Keys,               \* storage keys
    Refs,               \* credential references
    Origins,            \* origins a credential is bound to
    MAX_KEYS,           \* keys a document may have
    MAX_CHANGES,        \* changes the history keeps
    MAX_CREDENTIALS,    \* credentials a document may have
    MaxRevision         \* the last revision (2^53 - 1 in the code)

ASSUME ServiceConstants ==
    /\ MAX_KEYS \in Nat /\ MAX_CHANGES \in Nat \ {0} /\ MAX_CREDENTIALS \in Nat /\ MaxRevision \in Nat
    /\ "free" \notin Windows /\ "none" \notin Sources \cup Origins

VARIABLES
    store,      \* owner.json, storage.json, credentials.json, and the lock files
    vault,      \* external: the system's credential store
    win,        \* what every window is doing and what it knows
    hurt        \* references whose writer died or could not undo

svcVars == <<store, vault, win, hurt>>

NoValue == 0
Values == {1}
Configs == {0, 1}
NoSecret == [origin |-> "none", rev |-> 0]
NoMeta == [origin |-> "none", created |-> 0, updated |-> 0]

StorageDocument == [rev |-> 0, config |-> 0, entries |-> [k \in Keys |-> NoValue], changes |-> <<>>]
CredentialDocument == [rev |-> 0, meta |-> [r \in Refs |-> NoMeta]]

Window(s) == [pc |-> "idle", source |-> s, alive |-> TRUE,
              cursor |-> 0, known |-> [k \in Keys |-> NoValue], dirty |-> {},
              doc |-> StorageDocument, cdoc |-> CredentialDocument, ref |-> "none", prev |-> NoSecret, next |-> NoSecret,
              seen |-> 0, got |-> <<>>]

\* The service a window of this behaviour uses; their files and locks are separate.
Services == {"storage", "credentials"}

SvcInit ==
    /\ store \in [owner : {"none"}, uses : Services, storage : {StorageDocument}, creds : {CredentialDocument},
                  lock : {"free"}]
    /\ vault = [r \in Refs |-> NoSecret]
    /\ win \in [Windows -> {Window(s) : s \in Sources}]
    /\ hurt = {}

Goes(w, d) == win' = [win EXCEPT ![w] = d]

\* A call ends; what it had read is gone with it.
Ends(d) == [d EXCEPT !.pc = "idle", !.doc = StorageDocument, !.cdoc = CredentialDocument,
                     !.ref = "none", !.prev = NoSecret, !.next = NoSecret]

(* Every call starts in the namespace of its plugin id, which belongs to the   *)
(* source that used it first.                                                  *)
namespace(w) == store.owner \in {"none", win[w].source}
Owned(w) == [store EXCEPT !.owner = win[w].source]

Calls(w, service) == win[w].pc = "idle" /\ win[w].alive /\ store.uses = service /\ namespace(w)

(* lock_file: exclusive, and the caller gives up after LOCK_TIMEOUT.           *)
lock_file(w) == store.lock = "free"
Release(st) == [st EXCEPT !.lock = "free"]

-----------------------------------------------------------------------------
(* Storage.                                                                    *)

Size(entries) == Cardinality({k \in Keys : entries[k] # NoValue})

validate_document(d) ==
    /\ d.rev <= MaxRevision /\ Size(d.entries) <= MAX_KEYS /\ Len(d.changes) <= MAX_CHANGES
    /\ (d.rev = 0) = (d.changes = <<>>)
    /\ \A n \in 1 .. Len(d.changes) - 1 : d.changes[n].cursor + 1 = d.changes[n + 1].cursor
    /\ d.changes # <<>> => d.changes[Len(d.changes)].cursor = d.rev
    /\ \A n \in 1 .. Len(d.changes) : d.changes[n].cursor > 0 /\ (d.changes[n].config \/ d.changes[n].keys # {})

(* The caller keeps a whole snapshot, or one key of the document.              *)
Knows(w, d) == [win[w] EXCEPT !.cursor = d.rev, !.known = d.entries, !.dirty = {}]

snapshot(w) ==
    /\ Calls(w, "storage") /\ Goes(w, Knows(w, store.storage))
    /\ store' = Owned(w) /\ UNCHANGED <<vault, hurt>>

get(w, k) ==
    /\ Calls(w, "storage")
    /\ Goes(w, [win[w] EXCEPT !.known[k] = store.storage.entries[k], !.dirty = @ \ {k}])
    /\ store' = Owned(w) /\ UNCHANGED <<vault, hurt>>

(* The oldest changes go first.                                                *)
Trimmed(c) == IF Len(c) > MAX_CHANGES THEN SubSeq(c, Len(c) - MAX_CHANGES + 1, Len(c)) ELSE c

(* The document with operations (a value to set, or NoValue to remove) and a   *)
(* configuration; unchanged when none of them changes anything.                *)
Applied(d, ops, config) ==
    LET entries == [k \in Keys |-> IF k \in DOMAIN ops THEN ops[k] ELSE d.entries[k]]
        keys == {k \in Keys : entries[k] # d.entries[k]}
    IN IF keys = {} /\ config = d.config THEN d
       ELSE [rev |-> d.rev + 1, config |-> config, entries |-> entries,
             changes |-> Trimmed(Append(d.changes, [cursor |-> d.rev + 1, config |-> config # d.config, keys |-> keys]))]

(* Under the lock: the latest document is read, and the caller's revision and  *)
(* the quotas are checked, before anything is written.                         *)
transaction(w, ops, config) ==
    /\ Calls(w, "storage") /\ lock_file(w)
    /\ LET d == store.storage
           n == Applied(d, ops, config)
       IN \/ /\ d.rev = win[w].cursor /\ d.rev # MaxRevision /\ n # d /\ Size(n.entries) <= MAX_KEYS
             /\ Goes(w, [win[w] EXCEPT !.pc = "commit", !.doc = n])
             /\ store' = [Owned(w) EXCEPT !.lock = w]
          \/ /\ d.rev = win[w].cursor /\ d.rev # MaxRevision /\ n = d
             /\ Goes(w, Knows(w, d)) /\ store' = Owned(w)
          \/ /\ d.rev # win[w].cursor \/ d.rev = MaxRevision \/ Size(n.entries) > MAX_KEYS   \* conflict, exhausted, quota
             /\ store' = Owned(w) /\ UNCHANGED win
    /\ UNCHANGED <<vault, hurt>>

(* atomic_json replaces the file; the answer is the new snapshot.              *)
atomic_json(w) ==
    /\ win[w].pc = "commit"
    /\ store' = [Release(store) EXCEPT !.storage = win[w].doc]
    /\ Goes(w, Ends(Knows(w, win[w].doc)))
    /\ UNCHANGED <<vault, hurt>>

(* The document is too large or the disk fails: the old document stays.        *)
CommitFails(w) ==
    /\ win[w].pc = "commit"
    /\ store' = Release(store) /\ Goes(w, Ends(win[w]))
    /\ UNCHANGED <<vault, hurt>>

(* Mutant of Forgotten: off by one.                                            *)
ForgottenLate(after, earliest) == after + 2 < earliest

(* The history no longer reaches back to the cursor.                           *)
Forgotten(after, earliest) == after + 1 < earliest

(* A page of changes after the caller's cursor, or a snapshot.                 *)
changes(w, limit) ==
    LET d == store.storage
        after == win[w].cursor
        earliest == IF d.changes = <<>> THEN d.rev + 1 ELSE d.changes[1].cursor
        page == {n \in 1 .. Len(d.changes) : d.changes[n].cursor > after /\ d.changes[n].cursor <= after + limit}
    IN /\ Calls(w, "storage") /\ after <= d.rev
       /\ Goes(w, IF Forgotten(after, earliest) THEN Knows(w, d)
                  ELSE [win[w] EXCEPT !.cursor = after + Cardinality(page),
                                      !.dirty = @ \cup UNION {d.changes[n].keys : n \in page}])
       /\ store' = Owned(w) /\ UNCHANGED <<vault, hurt>>

-----------------------------------------------------------------------------
(* Credentials.                                                                *)

validate_credentials(d) ==
    /\ d.rev <= MaxRevision /\ Cardinality({r \in Refs : d.meta[r] # NoMeta}) <= MAX_CREDENTIALS
    /\ \A r \in Refs : LET m == d.meta[r] IN
          m # NoMeta => m.created > 0 /\ m.created <= m.updated /\ m.updated <= d.rev

(* list and metadata read without the lock; the caller learns the revision.    *)
list(w) ==
    /\ Calls(w, "credentials") /\ Goes(w, [win[w] EXCEPT !.seen = store.creds.rev])
    /\ store' = Owned(w) /\ UNCHANGED <<vault, hurt>>

(* A fresh reference is in neither place.                                      *)
new_reference(r) == store.creds.meta[r] = NoMeta /\ vault[r] = NoSecret

check_revision(w) == store.creds.rev = win[w].seen /\ store.creds.rev # MaxRevision

(* The metadata and the secret of r after a put for this origin.               *)
PutMeta(r, o) == [store.creds EXCEPT !.rev = @ + 1,
                     !.meta[r] = [origin |-> o, updated |-> store.creds.rev + 1,
                                  created |-> IF @ = NoMeta THEN store.creds.rev + 1 ELSE @.created]]

Locked(w, pc, r, doc, secret) ==
    /\ Goes(w, [win[w] EXCEPT !.pc = pc, !.ref = r, !.cdoc = doc, !.prev = vault[r], !.next = secret])
    /\ store' = [Owned(w) EXCEPT !.lock = w]
    /\ UNCHANGED <<vault, hurt>>

put(w, r, o) ==
    /\ Calls(w, "credentials") /\ lock_file(w) /\ check_revision(w)
    /\ \/ /\ store.creds.meta[r] # NoMeta /\ store.creds.meta[r].origin = o     \* the origin is immutable
          /\ vault[r] # NoSecret
       \/ /\ Cardinality({x \in Refs : store.creds.meta[x] # NoMeta}) < MAX_CREDENTIALS
          /\ new_reference(r)
    /\ Locked(w, "vault", r, PutMeta(r, o), [origin |-> o, rev |-> store.creds.rev + 1])

remove(w, r) ==
    /\ Calls(w, "credentials") /\ lock_file(w) /\ check_revision(w)
    /\ store.creds.meta[r] # NoMeta /\ vault[r] # NoSecret
    /\ Locked(w, "vault", r, [store.creds EXCEPT !.rev = @ + 1, !.meta[r] = NoMeta], NoSecret)

(* SecretBackend::put or delete, first; a failure ends the call.               *)
Backend(w) ==
    /\ win[w].pc = "vault"
    /\ \/ /\ vault' = [vault EXCEPT ![win[w].ref] = win[w].next]
          /\ Goes(w, [win[w] EXCEPT !.pc = "json"]) /\ UNCHANGED store
       \/ /\ store' = Release(store) /\ Goes(w, Ends(win[w])) /\ UNCHANGED vault
    /\ UNCHANGED hurt

(* Then the metadata.                                                          *)
CommitMetadata(w) ==
    /\ win[w].pc = "json"
    /\ store' = [Release(store) EXCEPT !.creds = win[w].cdoc]
    /\ Goes(w, Ends([win[w] EXCEPT !.seen = win[w].cdoc.rev]))
    /\ UNCHANGED <<vault, hurt>>

(* The metadata cannot be written: the vault is put back, or the caller is     *)
(* told that the outcome is uncertain.                                         *)
Rollback(w) ==
    /\ win[w].pc = "json"
    /\ store' = Release(store) /\ Goes(w, Ends(win[w]))
    /\ \/ vault' = [vault EXCEPT ![win[w].ref] = win[w].prev] /\ UNCHANGED hurt
       \/ hurt' = hurt \cup {win[w].ref} /\ UNCHANGED vault

(* Under the lock, for the bound origin only.                                  *)
resolve(w, r, o) ==
    /\ Calls(w, "credentials") /\ lock_file(w)
    /\ store.creds.meta[r] # NoMeta /\ store.creds.meta[r].origin = o /\ vault[r] # NoSecret
    /\ Goes(w, [win[w] EXCEPT !.got = <<o, vault[r]>>])
    /\ store' = Owned(w) /\ UNCHANGED <<vault, hurt>>

(* A process dies; the system releases its lock and nothing is undone.         *)
Dies(w) ==
    /\ win[w].pc # "idle"
    /\ store' = Release(store)
    /\ Goes(w, Ends([win[w] EXCEPT !.alive = FALSE]))
    /\ hurt' = IF win[w].pc = "json" THEN hurt \cup {win[w].ref} ELSE hurt
    /\ UNCHANGED vault

Operations == UNION {[ks -> Values \cup {NoValue}] : ks \in SUBSET Keys}

SvcNext ==
    \E w \in Windows :
        \/ snapshot(w) \/ atomic_json(w) \/ CommitFails(w) \/ list(w)
        \/ Backend(w) \/ CommitMetadata(w) \/ Rollback(w) \/ Dies(w)
        \/ \E k \in Keys : get(w, k)
        \/ \E ops \in Operations, c \in Configs : transaction(w, ops, c)
        \/ \E n \in 1 .. 2 : changes(w, n)
        \/ \E r \in Refs : remove(w, r)
        \/ \E r \in Refs, o \in Origins : put(w, r, o) \/ resolve(w, r, o)

SvcSpec == SvcInit /\ [][SvcNext]_svcVars

-----------------------------------------------------------------------------
(* What has to hold.                                                           *)

(* What a service wrote it accepts when it reads it again: the file never      *)
(* becomes "storage_corrupt" by the service's own doing.                       *)
AcceptsItsOwn == validate_document(store.storage) /\ validate_credentials(store.creds)

(* A window that follows the changes up to the current revision knows the      *)
(* value of every key it was not told about, pages and truncation included.    *)
FollowersAreCurrent ==
    \A w \in Windows : win[w].cursor = store.storage.rev /\ store.owner = win[w].source /\ store.uses = "storage" =>
        \A k \in Keys \ win[w].dirty : win[w].known[k] = store.storage.entries[k]

(* A window writes on top of the revision that its caller had seen.            *)
BuiltOnSeen ==
    \A w \in Windows : win[w].pc = "commit" =>
        store.lock = w /\ store.storage.rev = win[w].cursor /\ win[w].doc.rev = win[w].cursor + 1

(* Between calls, a reference has a secret exactly when it has metadata, of    *)
(* the revision the metadata names, unless a writer of it died or reported an  *)
(* uncertain outcome.                                                          *)
SecretsMatch ==
    \A r \in Refs \ hurt : (\E w \in Windows : win[w].pc = "json" /\ win[w].ref = r)
                        \/ vault[r].rev = store.creds.meta[r].updated

(* Whatever died or failed, a secret is never handed out for another origin    *)
(* than the one it was stored for, nor to another source of the same id.       *)
OriginBound ==
    \A w \in Windows : win[w].got # <<>> =>
        win[w].got[1] = win[w].got[2].origin /\ store.owner = win[w].source

ServicesSound == AcceptsItsOwn /\ FollowersAreCurrent /\ BuiltOnSeen /\ SecretsMatch /\ OriginBound
=============================================================================
