----------------------------- MODULE SourceWatch -----------------------------
(* Watching the sources of local packages (src/plugin_watch.rs): an idle turn  *)
(* samples a few sources, and a change that was seen twice becomes one reload  *)
(* through the ordinary receipt (HostControl::submit_watched and dispatch).    *)
(* The author edits, other processes edit the registry, and the receipt may be *)
(* refused, rejected by its guards, fail or succeed.  PackageControl has the   *)
(* transaction itself.                                                         *)
EXTENDS Integers, FiniteSets, Sequences

CONSTANTS
    Sources,                \* package identities, in their order
    Uses,                   \* Uses[p]: the packages p depends on
    Hosted,                 \* packages with a Host entry; the others are renderer packages
    Broken,                 \* contents that do not load or do not start
    MaxContent,             \* bound: versions of a source
    MaxSaves,               \* bound: edits by the author
    MaxRefusals,            \* bound: receipts refused because the runtime is busy
    MaxTurns,               \* bound: edits of the registry, and manual reloads
    MAX_SOURCES_PER_POLL    \* sources sampled in a turn (4)

ASSUME WatchConstants ==
    /\ MaxContent \in Nat /\ MaxSaves \in Nat /\ MaxRefusals \in Nat /\ MaxTurns \in Nat
    /\ MAX_SOURCES_PER_POLL \in Nat \ {0} /\ Broken \subseteq 1..MaxContent

VARIABLES
    disk,       \* the source of each package, and whether its registration is as it was loaded
    loaded,     \* what the executor runs of each package: generation and content
    states,     \* the watcher's WatchState of each package
    cursor,     \* where the next sampling begins
    receipt,    \* the reload that is queued or running
    failed,     \* history: closures the watcher tried, that failed, since their sources last changed
    read,       \* history: what watched reloads read of each source
    left        \* edits, refusals, turns left

watchVars == <<disk, loaded, states, cursor, receipt, failed, read, left>>

WatchedIds == {Sources[i] : i \in DOMAIN Sources}
Unknown == -1
Paused == -2

(* dependent_closure_refs.                                                     *)
Consumers(id) ==
    LET Closed(set) == \A p \in WatchedIds : Uses[p] \cap set # {} => p \in set IN
    {p \in WatchedIds : \A set \in SUBSET WatchedIds : id \in set /\ Closed(set) => p \in set}

NoWatch == [seen |-> Unknown, samples |-> 0, tried |-> <<>>, gen |-> 1, installed |-> 0]
NoWatchReceipt == [st |-> "none"]

WatchInit ==
    /\ disk = [p \in WatchedIds |-> [content |-> 0, trusted |-> TRUE]]
    /\ loaded = [p \in WatchedIds |-> [gen |-> 1, content |-> 0]]
    /\ states = [p \in WatchedIds |-> NoWatch]
    /\ cursor = 0 /\ receipt = NoWatchReceipt /\ failed = {} /\ read = {}
    /\ left = [saves |-> MaxSaves, refusals |-> MaxRefusals, turns |-> MaxTurns]

-----------------------------------------------------------------------------
(* One turn of the watcher.                                                    *)

(* A new generation: its source is the baseline; the failed attempt is kept.   *)
synchronize(s, p) ==
    IF s.gen = loaded[p].gen THEN s
    ELSE [s EXCEPT !.gen = loaded[p].gen, !.installed = loaded[p].content, !.samples = 0]

observation(p) == IF disk[p].trusted THEN disk[p].content ELSE Paused

observe(s, now) ==
    LET same == s.seen = now IN
    [s EXCEPT !.seen = now, !.samples = IF same THEN IF @ < 2 THEN @ + 1 ELSE @ ELSE 1,
              !.tried = IF now = s.installed THEN <<>> ELSE @]

settled(s) == s.samples >= 2 /\ s.seen \notin {Unknown, Paused}

Sampled == {Sources[1 + ((cursor + k) % Len(Sources))] : k \in 0..(IF MAX_SOURCES_PER_POLL < Len(Sources) THEN MAX_SOURCES_PER_POLL ELSE Len(Sources)) - 1}

(* attempt_signature: what was seen of the whole closure.                      *)
attempt_signature(table, id) == [q \in Consumers(id) |-> table[q].seen]

(* Settled, changed, its closure trusted and settled, and not yet tried.       *)
Candidate(table, id) ==
    /\ settled(table[id]) /\ table[id].seen # table[id].installed
    /\ \A q \in Consumers(id) : disk[q].trusted /\ settled(table[q])
    /\ table[id].tried # attempt_signature(table, id)

(* A provider before its consumers.                                            *)
Prefers(id, other) ==
    LET index(p) == CHOOSE i \in DOMAIN Sources : Sources[i] = p IN
    \/ Cardinality(Consumers(id)) > Cardinality(Consumers(other))
    \/ Cardinality(Consumers(id)) = Cardinality(Consumers(other)) /\ index(id) <= index(other)

(* Mutant of MarksTried: nothing is remembered of the consumers.               *)
MarksRoot(table, id) == [table EXCEPT ![id].tried = attempt_signature(table, id)]

(* The attempt is remembered for the whole closure before it is made.          *)
MarksTried(table, id) ==
    [q \in WatchedIds |-> IF q \in Consumers(id) THEN [table[q] EXCEPT !.tried = attempt_signature(table, q)] ELSE table[q]]

(* poll_guarded, on an idle turn without a pending watch receipt.              *)
poll_guarded ==
    /\ receipt.st = "none"
    /\ LET synced == [p \in WatchedIds |-> synchronize(states[p], p)]
           seen == [p \in WatchedIds |-> IF p \in Sampled THEN observe(synced[p], observation(p)) ELSE synced[p]]
           ready == {p \in WatchedIds : Candidate(seen, p)}
       IN IF ready = {} THEN states' = seen /\ UNCHANGED receipt
          ELSE LET id == CHOOSE p \in ready : \A q \in ready : Prefers(p, q) IN
               /\ states' = MarksTried(seen, id)
               /\ receipt' = [st |-> "selected", id |-> id, content |-> seen[id].seen, gen |-> loaded[id].gen,
                              sig |-> attempt_signature(seen, id)]
    /\ cursor' = (cursor + Cardinality(Sampled)) % Len(Sources)
    /\ UNCHANGED <<disk, loaded, failed, read, left>>

-----------------------------------------------------------------------------
(* The receipt.                                                                *)

(* Mutant of not_attempted: only the samples are dropped.                      *)
KeepsAttempt ==
    states' = [states EXCEPT ![receipt.id].seen = Unknown, ![receipt.id].samples = 0]

(* A selection that was never tried is forgotten, for a Host package.          *)
not_attempted ==
    LET id == receipt.id IN
    IF id \in Hosted /\ states[id].tried = receipt.sig
    THEN states' = [states EXCEPT ![id].tried = <<>>, ![id].seen = Unknown, ![id].samples = 0]
    ELSE UNCHANGED states

(* submit_watched, refused: another transaction, or a full broker.             *)
Refused ==
    /\ receipt.st = "selected" /\ left.refusals > 0 /\ left' = [left EXCEPT !.refusals = @ - 1]
    /\ not_attempted /\ receipt' = NoWatchReceipt
    /\ UNCHANGED <<disk, loaded, cursor, failed, read>>

(* validate_watched_source, validate_watched_closure and the fingerprint.      *)
GuardsHold ==
    /\ loaded[receipt.id].gen = receipt.gen
    /\ \A q \in Consumers(receipt.id) : disk[q].trusted
    /\ disk[receipt.id].content = receipt.content

GuardRejects ==
    /\ receipt.st = "selected" /\ ~GuardsHold
    /\ not_attempted /\ receipt' = NoWatchReceipt
    /\ UNCHANGED <<disk, loaded, cursor, failed, read, left>>

(* The sources of the closure are read once, at dispatch.                      *)
Dispatches ==
    /\ receipt.st = "selected" /\ GuardsHold
    /\ receipt' = [st |-> "running", id |-> receipt.id, reads |-> [q \in Consumers(receipt.id) |-> disk[q].content],
                   sig |-> receipt.sig, watched |-> TRUE]
    /\ read' = read \cup {<<q, disk[q].content>> : q \in Consumers(receipt.id)}
    /\ UNCHANGED <<disk, loaded, states, cursor, failed, left>>

ManualReload(id) ==
    /\ receipt.st = "none" /\ left.turns > 0 /\ left' = [left EXCEPT !.turns = @ - 1]
    /\ \A q \in Consumers(id) : disk[q].trusted
    /\ receipt' = [st |-> "running", id |-> id, reads |-> [q \in Consumers(id) |-> disk[q].content], watched |-> FALSE]
    /\ UNCHANGED <<disk, loaded, states, cursor, failed, read>>

Tries(id, reads) == {<<q, [r \in Consumers(q) |-> reads[r]]>> : q \in Consumers(id)}

(* Loaded with a new generation each; a failed activation puts the previous    *)
(* sources back, again with new generations.                                   *)
Completes ==
    /\ receipt.st = "running"
    /\ LET set == DOMAIN receipt.reads
           good == \A q \in set : receipt.reads[q] \notin Broken
       IN /\ loaded' = [p \in WatchedIds |-> IF p \notin set THEN loaded[p]
                                      ELSE IF good THEN [gen |-> loaded[p].gen + 1, content |-> receipt.reads[p]]
                                      ELSE [loaded[p] EXCEPT !.gen = @ + 2]]
          /\ failed' = IF good \/ ~receipt.watched THEN failed
                       ELSE failed \cup {t \in Tries(receipt.id, receipt.reads) :
                                            \A q \in DOMAIN t[2] : t[2][q] = receipt.sig[q] /\ t[2][q] = disk[q].content}
    /\ receipt' = NoWatchReceipt
    /\ UNCHANGED <<disk, states, cursor, read, left>>

-----------------------------------------------------------------------------
(* The author, and other processes.                                            *)

Forgets(p) == {t \in failed : p \notin DOMAIN t[2]}

Saves(p) ==
    /\ left.saves > 0 /\ left' = [left EXCEPT !.saves = @ - 1]
    /\ \E c \in (0..MaxContent) \ {disk[p].content} : disk' = [disk EXCEPT ![p].content = c]
    /\ failed' = Forgets(p)
    /\ UNCHANGED <<loaded, states, cursor, receipt, read>>

RegistrationEdited(p) ==
    /\ left.turns > 0 /\ left' = [left EXCEPT !.turns = @ - 1]
    /\ disk' = [disk EXCEPT ![p].trusted = ~@] /\ failed' = Forgets(p)
    /\ UNCHANGED <<loaded, states, cursor, receipt, read>>

WatchNext ==
    \/ poll_guarded \/ Refused \/ GuardRejects \/ Dispatches \/ Completes
    \/ \E p \in WatchedIds : ManualReload(p) \/ Saves(p) \/ RegistrationEdited(p)

WatchSpec == WatchInit /\ [][WatchNext]_watchVars

-----------------------------------------------------------------------------
(* What has to hold.                                                           *)

(* No storm: contents that failed are not tried again by the watcher as long   *)
(* as nobody changes them, although every failure gives new generations.       *)
NoStorm ==
    receipt.st = "running" /\ receipt.watched => <<receipt.id, receipt.reads>> \notin failed

(* An edit of a package that depends on nothing and has a Host is remembered   *)
(* as tried only when a watched reload read it: a refusal or a guard never     *)
(* loses an edit.                                                              *)
Remembers(p) ==
    /\ receipt.st = "none" /\ states[p].tried # <<>> /\ loaded[p].content # disk[p].content
    /\ \A q \in DOMAIN states[p].tried : states[p].tried[q] = disk[q].content /\ disk[q].trusted

EditsKept == \A p \in Hosted : Uses[p] = {} /\ Remembers(p) => <<p, disk[p].content>> \in read

WatchSound == NoStorm /\ EditsKept

(* The same of every package (plugin_watch.rs:381, "Admission or a pre-source  *)
(* guard proved this selection was never tried. Invalidate only that attempt").*)
AllEditsKept == \A p \in WatchedIds : Remembers(p) => <<p, disk[p].content>> \in read
=============================================================================
