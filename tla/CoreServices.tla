---------------------------- MODULE CoreServices ----------------------------
(***************************************************************************)
(* The service boundary of one plugin: the registered generation and its   *)
(* retirement, renderer documents, the worker pool that executes Core      *)
(* service calls, and the tables of the services that keep resources for   *)
(* a generation (runners, file watches and dialogs, network profiles,      *)
(* desktop registrations on their native thread).                          *)
(*                                                                         *)
(* A resource is named by the call that created it.  Every critical        *)
(* section of a lock is one step.  The check of a call reads its           *)
(* cancellation, deadline, document, owner and trust one after the other;  *)
(* a reason to fail does not go away, so a check that passes passes at its *)
(* first read and is one step.                                             *)
(***************************************************************************)
EXTENDS Naturals, FiniteSets, Sequences

CONSTANTS
  Calls,          \* calls, numbered in the order in which they begin
  Methods,        \* the methods that are called
  Rendered,       \* the methods called from a renderer document, the others from a Host
  MaxGen,         \* bound: generations of the plugin
  MaxEvents,      \* bound: registrations, retirements, edits of the trust record, ended documents, cancelled calls
  WORKERS,        \* codlet-services-*: 4
  MAX_QUEUE,      \* the queue of the pool: 16
  MAX_PENDING,    \* calls queued or executing: 32
  MAX_COMMANDS    \* the queue of the desktop thread: 16

ASSUME CallsAssumption == Calls \subseteq Nat /\ IsFiniteSet(Calls)
ASSUME GenAssumption == MaxGen \in Nat \ {0}

VARIABLES
  own,       \* registered generation, retired generation, trust, registrar
  calls,     \* call -> its place and what it carries
  queue,     \* calls waiting for a worker
  tables,    \* kind -> calls whose resource is in the table of that kind
  documents, \* generation -> epoch and resources of the renderer document
  desk,      \* the desktop thread
  retiring   \* retirements in progress: generation, step, thread

svcVars == <<own, calls, queue, tables, documents, desk, retiring>>

Gens == 1..MaxGen
NoGen == 0
Main == <<"main", 0>>
Monitor == <<"monitor", 0>>
Registrar == <<"registrar", 0>>
Worker(k) == <<"worker", k>>
Threads == {Main, Monitor, Registrar} \cup {Worker(k) : k \in Calls}
Kinds == {"runner", "watch", "dialog", "selecting", "cancelled", "selection",
          "profile", "status", "shortcut", "notice", "written"}
Desktop == {"shortcut", "notice"}

Places == {"free", "queued", "acts", "locked", "commits", "waits",
           "ends", "registers", "undoes", "unwinds", "done"}

\* A call from its admission until its worker is done with it.
Executing == {"acts", "locked", "commits", "waits", "ends", "registers", "undoes", "unwinds"}
Unfinished == {"queued"} \cup Executing

\* The methods whose caller is told that the outcome is unknown.
mutates(m) == m \in {"write", "notice", "fetch"}

Of(g) == {k \in Calls : calls[k].gen = g}
BusyThread(t) == \E r \in retiring : r.by = t
OwnerOf(k) == own.owner = calls[k].gen

\* The file service's lock is held across steps by a write only.
FilesHeld == \E k \in Calls : calls[k].at \in {"locked", "commits"}
----------------------------------------------------------------------------
NewShared == [owner |-> 1, retired |-> NoGen, trust |-> 0, auth |-> [g \in Gens |-> 0], last |-> 1, reg |-> NoGen,
              refused |-> {}, events |-> 0]

NoWork == [at |-> "free", m |-> "none", gen |-> NoGen, doc |-> FALSE, epoch |-> 0, dead |-> FALSE, out |-> "none"]

NewDesktop == [commands |-> << >>, retired |-> {}]

SvcInit ==
  /\ own = NewShared
  /\ calls = [k \in Calls |-> NoWork]
  /\ queue = << >>
  /\ tables = [t \in Kinds |-> {}]
  /\ documents = [g \in Gens |-> [known |-> FALSE, epoch |-> 0, held |-> {}, ending |-> {}]]
  /\ desk = NewDesktop
  /\ retiring = {}

Event == own.events < MaxEvents

At(k, place) == calls' = [calls EXCEPT ![k].at = place]
Ends(k, outcome) == calls' = [calls EXCEPT ![k].at = "done", ![k].out = outcome]

\* retire: the generation is remembered as retired and, if it is the registered
\* one, taken out; the thread that took it out retires its resources.
retire(g, by) ==
  /\ own' = [own EXCEPT !.events = IF by = Main THEN @ + 1 ELSE @,
                        !.retired = IF g > @ THEN g ELSE @,
                        !.owner = IF @ # NoGen /\ @ <= g THEN NoGen ELSE @]
  /\ retiring' = IF own.owner \in 1..g THEN retiring \cup {[gen |-> own.owner, step |-> "resources", by |-> by]}
                 ELSE retiring

\* The reads of a check that need no authority: cancelled, late, or its document ended.
Scoped(k) == calls[k].doc => documents[calls[k].gen].known /\ documents[calls[k].gen].epoch = calls[k].epoch
Trusted(g) == own.auth[g] = own.trust
check(k) == ~calls[k].dead /\ Scoped(k) /\ OwnerOf(k) /\ Trusted(calls[k].gen)

\* A check that finds another trust record retires the generation on the spot.
Fails(k) ==
  IF ~calls[k].dead /\ Scoped(k) /\ OwnerOf(k)
  THEN retire(calls[k].gen, Worker(k))
  ELSE UNCHANGED <<own, retiring>>
----------------------------------------------------------------------------
(* Registration and retirement.                                            *)

\* register reads the retired generation and inserts the owner later.
register(g) ==
  /\ Event /\ own.reg = NoGen /\ ~BusyThread(Registrar)
  /\ g \in {own.last, own.last + 1} \cap Gens /\ g > own.retired
  /\ own' = [own EXCEPT !.reg = g, !.last = g, !.events = @ + 1, !.auth = IF g > own.last THEN [@ EXCEPT ![g] = own.trust] ELSE @]
  /\ UNCHANGED <<calls, queue, tables, documents, desk, retiring>>

Inserts ==
  /\ own.reg # NoGen
  /\ own' = [own EXCEPT !.owner = own.reg, !.reg = NoGen]
  /\ retiring' = IF own.owner \in {NoGen, own.reg} THEN retiring
                 ELSE retiring \cup {[gen |-> own.owner, step |-> "resources", by |-> Registrar]}
  /\ UNCHANGED <<calls, queue, tables, documents, desk>>

\* Another process edits the plugin's trust record.
Edit ==
  /\ Event
  /\ own' = [own EXCEPT !.trust = @ + 1, !.events = @ + 1]
  /\ UNCHANGED <<calls, queue, tables, documents, desk, retiring>>

MainFree == ~BusyThread(Main) /\ \A g \in Gens : documents[g].ending = {}

Retires(g) ==
  /\ Event /\ MainFree /\ g <= own.last
  /\ retire(g, Main)
  /\ UNCHANGED <<calls, queue, tables, documents, desk>>

\* The lifetime monitor retires an owner whose trust record changed.
monitor ==
  /\ ~BusyThread(Monitor)
  /\ own.owner # NoGen /\ ~Trusted(own.owner)
  /\ retire(own.owner, Monitor)
  /\ UNCHANGED <<calls, queue, tables, documents, desk>>

After == [resources |-> "files", files |-> "rest"]
Advance(r) == retiring' = (retiring \ {r}) \cup (IF r.step = "rest" THEN {} ELSE {[r EXCEPT !.step = After[@]]})

Without(kinds, g) == tables' = [t \in Kinds |-> IF t \in kinds THEN tables[t] \ Of(g) ELSE tables[t]]

FilesGone(g) ==
  tables' = [t \in Kinds |->
    CASE t \in {"watch", "dialog", "selecting", "selection"} -> tables[t] \ Of(g)
      [] t = "cancelled" -> tables[t] \cup (tables.dialog \cap Of(g))
      [] OTHER -> tables[t]]

DeskGone(g) ==
  desk' = [desk EXCEPT !.retired = @ \cup {g},
                       !.commands = IF Len(@) < MAX_COMMANDS THEN Append(@, [op |-> "retire", k |-> 0, gen |-> g]) ELSE @]

\* retire_resources: the resource service, the file service, and then the
\* desktop, the network and the documents, which share nothing with each other.
retire_resources(r) ==
  /\ \/ /\ r.step = "resources" /\ Without({"runner"}, r.gen)
        /\ own' = [own EXCEPT !.refused = @ \cup {r.gen}] /\ UNCHANGED <<documents, desk>>
     \/ r.step = "files" /\ ~FilesHeld /\ FilesGone(r.gen) /\ UNCHANGED <<own, documents, desk>>
     \/ /\ r.step = "rest" /\ DeskGone(r.gen) /\ Without({"profile", "status"}, r.gen)
        /\ documents' = [documents EXCEPT ![r.gen] = [@ EXCEPT !.known = FALSE, !.epoch = 0, !.held = {}]]
        /\ UNCHANGED own
  /\ Advance(r)
  /\ UNCHANGED <<calls, queue>>

\* retire_document: the epoch moves on and its resources are taken out of the
\* record; then each of them is released if its generation is still registered.
retire_document ==
  /\ Event /\ own' = [own EXCEPT !.events = @ + 1]
  /\ MainFree
  /\ \E g \in Gens : documents[g].known
  /\ documents' = [g \in Gens |-> IF documents[g].known
        THEN [documents[g] EXCEPT !.epoch = @ + 1, !.held = {}, !.ending = documents[g].held] ELSE documents[g]]
  /\ UNCHANGED <<calls, queue, tables, desk, retiring>>

DocumentEnds(g) ==
  /\ documents[g].ending # {}
  /\ (documents[g].ending \cap tables.dialog # {} => ~FilesHeld)
  /\ documents' = [documents EXCEPT ![g].ending = {}]
  /\ tables' = IF own.owner # g THEN tables
               ELSE [tables EXCEPT !.runner = @ \ documents[g].ending,
                                   !.cancelled = @ \cup (documents[g].ending \cap tables.dialog)]
  /\ UNCHANGED <<own, calls, queue, desk, retiring>>
----------------------------------------------------------------------------
(* A call: admission, a worker, the effect, the second check, the document. *)

Pending == {k \in Calls : calls[k].at \in {"queued"} \cup Executing}

\* begin: the caller's generation must be the registered one, under its trust
\* record; the document's epoch is read, and its record made, before the limits
\* are looked at.  The thread that begins a document's calls also ends documents.
begin(k, m) ==
  LET g == own.owner
      doc == m \in Rendered
      room == Cardinality(Pending) < MAX_PENDING /\ Len(queue) < MAX_QUEUE
      call == [calls[k] EXCEPT !.m = m, !.gen = g, !.doc = doc]
  IN /\ calls[k].at = "free" /\ \A j \in Calls : j < k => calls[j].at # "free"
     /\ g # NoGen /\ (doc => MainFree)
     /\ IF Trusted(g)
        THEN /\ documents' = [documents EXCEPT ![g].known = @ \/ doc]
             /\ queue' = IF room THEN Append(queue, k) ELSE queue
             /\ calls' = [calls EXCEPT ![k] = IF room THEN [call EXCEPT !.at = "queued", !.epoch = documents[g].epoch]
                                              ELSE [call EXCEPT !.at = "done", !.out = "refused"]]
             /\ UNCHANGED <<own, retiring>>
        ELSE /\ retire(g, Worker(k))
             /\ calls' = [calls EXCEPT ![k] = [call EXCEPT !.at = "done", !.out = "refused"]]
             /\ UNCHANGED <<documents, queue>>
     /\ UNCHANGED <<tables, desk>>

\* The caller drops its operation, or its deadline passes.
Cancels(k) ==
  /\ Event /\ own' = [own EXCEPT !.events = @ + 1]
  /\ k \in Pending /\ ~calls[k].dead
  /\ calls' = [calls EXCEPT ![k].dead = TRUE]
  /\ UNCHANGED <<queue, tables, documents, desk, retiring>>

\* A free worker takes the next call and checks it.
Starts ==
  LET k == Head(queue)
  IN /\ queue # << >> /\ Cardinality({j \in Calls : calls[j].at \in Executing \/ BusyThread(Worker(j))}) < WORKERS
     /\ queue' = Tail(queue)
     /\ IF check(k) THEN At(k, "acts") /\ UNCHANGED <<own, retiring>> ELSE Ends(k, "refused") /\ Fails(k)
     /\ UNCHANGED <<tables, documents, desk>>

Puts(k, kinds) ==
  /\ tables' = [t \in Kinds |-> IF t \in kinds THEN tables[t] \cup {k} ELSE tables[t]]
  /\ At(k, "ends")

Refuses(k) == Ends(k, "refused") /\ UNCHANGED tables

\* The resource service refuses the owners it has retired.
Registers(k) ==
  /\ calls[k].m = "runner"
  /\ IF calls[k].gen \in own.refused THEN Refuses(k) ELSE Puts(k, {"runner"})

watch(k) == calls[k].m = "watch" /\ ~FilesHeld /\ (Puts(k, {"watch"}) \/ Refuses(k))

\* One dialog of an owner selects at a time; a new one drops those that ended.
dialog(k) ==
  /\ calls[k].m = "dialog" /\ ~FilesHeld
  /\ IF tables.selecting \cap Of(calls[k].gen) # {} THEN Refuses(k)
     ELSE /\ tables' = [tables EXCEPT !.dialog = (@ \ Of(calls[k].gen)) \cup {k}, !.selecting = @ \cup {k}]
          /\ At(k, "ends")

createProfile(k) == calls[k].m = "profile" /\ Puts(k, {"profile"})

\* fetch looks at the call before and while the request is out, and notes the
\* request in the owner's history whatever became of it.
Noted(k) == [tables EXCEPT !.status = @ \cup {k}]

fetch(k) ==
  /\ calls[k].m = "fetch"
  /\ tables' = Noted(k)
  /\ \/ check(k) /\ At(k, "ends") /\ UNCHANGED <<own, retiring>>
     \/ ~check(k) /\ Ends(k, "refused") /\ Fails(k)

Plain(k) == (Registers(k) \/ watch(k) \/ dialog(k) \/ createProfile(k)) /\ UNCHANGED <<own, retiring>>

Acts(k) ==
  /\ calls[k].at = "acts"
  /\ Plain(k) \/ fetch(k)
  /\ UNCHANGED <<queue, documents, desk>>

\* A write takes the file service's lock, checks its call again under it, commits and lets go.
Locks(k) ==
  /\ calls[k].at = "acts" /\ calls[k].m = "write" /\ ~FilesHeld
  /\ At(k, "locked")
  /\ UNCHANGED <<own, queue, tables, documents, desk, retiring>>

CommitsUnchecked(k) ==
  /\ calls[k].at = "locked" /\ At(k, "commits")
  /\ UNCHANGED <<own, queue, tables, documents, desk, retiring>>

CheckedLocked(k) ==
  /\ calls[k].at = "locked" /\ ~BusyThread(Worker(k))
  /\ calls[k].out = "none"
  /\ IF check(k) THEN At(k, "commits") /\ UNCHANGED <<own, retiring>>
     ELSE calls' = [calls EXCEPT ![k].out = "refused"] /\ Fails(k)
  /\ UNCHANGED <<queue, tables, documents, desk>>

\* The error leaves the file service, and its lock, when the check has returned.
Unlocks(k) ==
  /\ calls[k].at = "locked" /\ calls[k].out = "refused" /\ ~BusyThread(Worker(k))
  /\ At(k, "done")
  /\ UNCHANGED <<own, queue, tables, documents, desk, retiring>>

Commits(k) ==
  /\ calls[k].at = "commits"
  /\ \/ tables' = [tables EXCEPT !.written = @ \cup {k}] /\ At(k, "ends")
     \/ Refuses(k)
  /\ UNCHANGED <<own, queue, documents, desk, retiring>>

\* execute's second check: a call that may no longer be answered is undone.
Rechecks(k) ==
  /\ calls[k].at = "ends"
  /\ IF check(k) THEN At(k, "registers") /\ UNCHANGED <<own, retiring>>
     ELSE /\ calls' = [calls EXCEPT ![k].at = "undoes", ![k].out = IF mutates(calls[k].m) THEN "unknown" ELSE "refused"]
          /\ Fails(k)
  /\ UNCHANGED <<queue, tables, documents, desk>>

\* A runner or dialog made for a document is entered in its record; a new dialog replaces the last one.
InDocument(k) == calls[k].doc /\ calls[k].m \in {"runner", "dialog"}

Enrols(k) ==
  LET g == calls[k].gen
      kept == IF calls[k].m = "dialog" THEN {j \in documents[g].held : calls[j].m # "dialog"} ELSE documents[g].held
  IN /\ calls[k].at = "registers"
     /\ IF ~InDocument(k) THEN Ends(k, "ok") /\ UNCHANGED documents
        ELSE IF Scoped(k) THEN Ends(k, "ok") /\ documents' = [documents EXCEPT ![g].held = kept \cup {k}]
        ELSE calls' = [calls EXCEPT ![k].at = "undoes", ![k].out = "refused"] /\ UNCHANGED documents
     /\ UNCHANGED <<own, queue, tables, desk, retiring>>

\* rollback_resource of what lives in a table, and of a desktop registration
\* (through the desktop thread's queue, if it has room).
UndoneWithoutFiles(k) ==
  [tables EXCEPT !.runner = @ \ {k}, !.profile = @ \ {k}]

Undone(k) ==
  [tables EXCEPT !.runner = @ \ {k}, !.watch = @ \ {k}, !.profile = @ \ {k},
                 !.cancelled = @ \cup ({k} \cap tables.dialog)]

rollback_resource(k) ==
  LET m == calls[k].m
  IN /\ calls[k].at = "undoes" /\ ~BusyThread(Worker(k))
     /\ (m \in {"watch", "dialog"} => ~FilesHeld)
     /\ tables' = Undone(k)
     /\ IF m \in Desktop /\ Len(desk.commands) < MAX_COMMANDS
        THEN desk' = [desk EXCEPT !.commands = Append(@, [op |-> "release", k |-> k, gen |-> calls[k].gen])] /\ At(k, "unwinds")
        ELSE At(k, "done") /\ UNCHANGED desk
     /\ UNCHANGED <<own, queue, documents, retiring>>
----------------------------------------------------------------------------
(* The desktop thread.                                                     *)

\* A registration is sent to the desktop thread, which must answer in three seconds.
Sends(k) ==
  /\ calls[k].at = "acts" /\ calls[k].m \in Desktop
  /\ IF ~check(k) THEN Ends(k, "refused") /\ Fails(k) /\ UNCHANGED desk
     ELSE /\ UNCHANGED <<own, retiring>>
          /\ IF Len(desk.commands) < MAX_COMMANDS
             THEN At(k, "waits") /\ desk' = [desk EXCEPT !.commands = Append(@, [op |-> "register", k |-> k, gen |-> calls[k].gen])]
             ELSE Ends(k, "refused") /\ UNCHANGED desk
  /\ UNCHANGED <<queue, tables, documents>>

GivesUp(k) ==
  /\ calls[k].at \in {"waits", "unwinds"}
  /\ calls' = [calls EXCEPT ![k].at = "done", ![k].out = IF calls[k].at = "waits" THEN "unknown" ELSE @]
  /\ UNCHANGED <<own, queue, tables, documents, desk, retiring>>

\* Each turn drops the registrations of retired owners and then takes a command.
Swept == {k \in tables.shortcut \cup tables.notice : calls[k].gen \in desk.retired}

Sweeps ==
  /\ Swept # {}
  /\ tables' = [tables EXCEPT !.shortcut = @ \ Swept, !.notice = @ \ Swept]
  /\ UNCHANGED <<own, calls, queue, documents, desk, retiring>>

Answers(k, made) ==
  calls' = IF calls[k].at = "waits"
           THEN [calls EXCEPT ![k].at = IF made THEN "ends" ELSE "done", ![k].out = IF made THEN "none" ELSE "refused"]
           ELSE IF calls[k].at = "unwinds" THEN [calls EXCEPT ![k].at = "done"] ELSE calls

\* The command of a retired owner is refused.
Admitted(c) == c.gen \notin desk.retired

Command ==
  LET c == Head(desk.commands)
  IN /\ desk.commands # << >>
     /\ desk' = [desk EXCEPT !.commands = Tail(@)]
     /\ \/ c.op = "retire" /\ Without(Desktop, c.gen) /\ UNCHANGED calls
        \/ c.op # "retire" /\ ~Admitted(c) /\ Answers(c.k, FALSE) /\ UNCHANGED tables
        \/ /\ c.op = "register" /\ Admitted(c)
           /\ \/ tables' = [tables EXCEPT ![calls[c.k].m] = @ \cup {c.k}] /\ Answers(c.k, TRUE)
              \/ UNCHANGED tables /\ Answers(c.k, FALSE)
        \/ /\ c.op = "release" /\ Admitted(c)
           /\ tables' = [tables EXCEPT ![calls[c.k].m] = @ \ {c.k}] /\ Answers(c.k, TRUE)
     /\ UNCHANGED <<own, queue, documents, retiring>>

\* The dialog's own thread: a dialog that was dropped is not answered, a
\* cancelled one selects nothing.
DialogThread(k) ==
  /\ ~FilesHeld /\ k \in tables.selecting
  /\ \/ tables' = [tables EXCEPT !.selecting = @ \ {k}]
     \/ k \notin tables.cancelled /\ tables' = [tables EXCEPT !.selecting = @ \ {k}, !.selection = @ \cup {k}]
  /\ UNCHANGED <<own, calls, queue, documents, desk, retiring>>

SvcNext ==
  \/ \E g \in Gens : register(g) \/ Retires(g) \/ DocumentEnds(g)
  \/ Inserts \/ Edit \/ monitor \/ retire_document \/ Starts \/ Sweeps \/ Command
  \/ \E r \in retiring : retire_resources(r)
  \/ \E k \in Calls :
       \/ \E m \in Methods : begin(k, m)
       \/ Cancels(k) \/ Acts(k) \/ Locks(k) \/ CheckedLocked(k)
       \/ Unlocks(k) \/ Commits(k) \/ Rechecks(k) \/ Enrols(k) \/ rollback_resource(k)
       \/ Sends(k) \/ GivesUp(k) \/ DialogThread(k)

SvcSpec == SvcInit /\ [][SvcNext]_svcVars
----------------------------------------------------------------------------
SvcTypeOK ==
  /\ own.owner \in {NoGen} \cup Gens /\ own.retired \in {NoGen} \cup Gens /\ own.refused \subseteq Gens
  /\ \A k \in Calls : calls[k].at \in Places /\ calls[k].out \in {"none", "ok", "refused", "unknown"}
  /\ tables \in [Kinds -> SUBSET Calls]
  /\ retiring \subseteq [gen : Gens, step : {"resources", "files", "rest"}, by : Threads]

\* Nothing runs for a generation any more: no call, no retirement, no document being ended.
Quiet(g) ==
  /\ \A k \in Of(g) : calls[k].at \notin Unfinished
  /\ \A r \in retiring : r.gen # g
  /\ documents[g].ending = {}

\* A generation that is not registered keeps no resource once nothing runs for
\* it: a dialog it still has open is cancelled, and a desktop registration that
\* outlived it is taken by the next sweep.
NothingLeft ==
  \A g \in Gens : g # own.owner /\ Quiet(g) =>
    /\ Of(g) \cap (tables.runner \cup tables.watch \cup tables.profile) = {}
    /\ Of(g) \cap tables.selecting \subseteq tables.cancelled
    /\ Of(g) \cap (tables.shortcut \cup tables.notice) # {} => g \in desk.retired

\* A document that ended keeps no runner and no dialog that could still select
\* (of a generation that was not registered again while it was being retired,
\* and unless two dialogs of the document were opened at once).
DocumentsClean ==
  \A k \in Calls :
    LET d == documents[calls[k].gen]
    IN calls[k].at = "done" /\ InDocument(k) /\ OwnerOf(k) /\ own.owner > own.retired /\ d.known /\ d.epoch # calls[k].epoch /\ Quiet(calls[k].gen)
       => /\ k \notin tables.runner
          /\ k \in tables.selecting => k \in tables.cancelled \/ \E j \in Calls \ {k} : calls[j].m = "dialog" /\ calls[j].out = "ok"

\* A caller that was refused a file write finds the file unwritten.
RefusedMeansNot == \A k \in Calls : calls[k].out = "refused" => k \notin tables.written

CoreServicesSound == SvcTypeOK /\ NothingLeft /\ DocumentsClean /\ RefusedMeansNot

\* No file is written for a generation whose retirement went past the file service.
WritesUnderOwner ==
  [][\A k \in Calls : k \in tables'.written \ tables.written =>
        OwnerOf(k) \/ \E r \in retiring : r.gen = calls[k].gen /\ r.step \in {"resources", "files"}]_svcVars

\* A change of the trust record retires the generation: the thread that retires
\* it does not wait for a lock it holds itself.
RevocationCompletes ==
  \A r \in retiring, k \in Calls : r.step = "files" /\ r.by = Worker(k) => calls[k].at \notin {"locked", "commits"}
=============================================================================
