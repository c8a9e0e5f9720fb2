----------------------------- MODULE LabSession -----------------------------
(* The lab harness (src/lab.rs, src/lab/): runs that claim or resume one lab   *)
(* root, prepare it, start one Desktop in it and hold that Desktop until it    *)
(* exits.  The journal a run leaves behind decides whether the next run may    *)
(* use the root again.                                                         *)
EXTENDS Integers, FiniteSets

CONSTANTS
    MaxRuns,        \* bound: runs of the harness
    MaxLabEdits,    \* bound: changes others make to the configuration
    Offered         \* bound: the command lines tried, of LabOptions

ASSUME LabConstants == MaxRuns \in Nat \ {0} /\ MaxLabEdits \in Nat

VARIABLES
    root,       \* the root directory: lease, configuration, runtime assets
    runs,       \* every harness process
    reports,    \* every run's report.jsonl
    desktops    \* external: the Desktop each run created

labVars == <<root, runs, reports, desktops>>

Runs == 1 .. MaxRuns

NoReport == [made |-> FALSE, header |-> FALSE, child |-> FALSE, exited |-> FALSE, reaped |-> FALSE,
             cleanup |-> "none", nochild |-> FALSE, torn |-> FALSE]

NewRun == [pc |-> "none", from |-> 0, safe |-> FALSE, trace |-> FALSE, cfg |-> 0, quit |-> "no", verified |-> FALSE,
           fail |-> FALSE, cdp |-> "none", seen |-> FALSE, rt |-> "off", again |-> FALSE, pumpfail |-> FALSE,
           upd |-> "no", rehearsal |-> FALSE, result |-> "none"]

NewRoot == [lease |-> 0, empty |-> TRUE, cfg |-> 0, edits |-> 0, seed |-> "none", receipt |-> 0, latest |-> 0,
            coordinator |-> FALSE]

LabInit ==
    /\ root = NewRoot
    /\ runs = [r \in Runs |-> NewRun]
    /\ reports = [r \in Runs |-> NoReport]
    /\ desktops = [r \in Runs |-> "none"]

Going(r) == runs[r].pc \notin {"none", "done", "dead"}
Set(r, d) == runs' = [runs EXCEPT ![r] = d]
Reached(r, pc) == runs[r].pc = pc
Go(r, pc) == [runs[r] EXCEPT !.pc = pc]

(* The process ends: the lease and the pins go with its handles; Reporter's    *)
(* Drop records that no child was created.                                     *)
LeaveRun(r, result) ==
    /\ Set(r, [NewRun EXCEPT !.pc = "done", !.result = result, !.fail = runs[r].fail])
    /\ reports' = [reports EXCEPT ![r].nochild = reports[r].made /\ ~reports[r].child]
    /\ root' = [root EXCEPT !.lease = IF @ = r THEN 0 ELSE @]

Next1(r) == \A q \in Runs : q < r => runs[q].pc # "none"

-----------------------------------------------------------------------------
(* Opening the root.                                                           *)

(* LabOptions::parse: only a resumed run recovers, only a fresh one is traced. *)
LabOptions ==
    {o \in [resume : BOOLEAN, recover : BOOLEAN, trace : BOOLEAN, safe : BOOLEAN] :
        (o.recover => o.resume) /\ (o.trace => ~o.resume)}

(* A path that is not plain, or another package: no file is made.              *)
pin_lab_ancestry(r) ==
    /\ Reached(r, "none") /\ Next1(r) /\ Set(r, [NewRun EXCEPT !.pc = "done", !.result = "refused"])
    /\ UNCHANGED <<root, reports, desktops>>

(* LabRoot::claim: the directory has to be empty, and is marked.               *)
claim(r, o) ==
    /\ Reached(r, "none") /\ Next1(r) /\ ~o.resume /\ root.empty /\ root.lease = 0
    /\ root' = [root EXCEPT !.lease = r, !.empty = FALSE]
    /\ Set(r, [Go(r, "opened") EXCEPT !.safe = o.safe, !.trace = o.trace])
    /\ UNCHANGED <<reports, desktops>>

(* Mutant of ClosedRun: without a recorded child there was none.               *)
ClosedUnlessOpen(p) == p.child => p.exited /\ p.reaped

(* A child that was created has exited and was reaped, or the run recorded     *)
(* that it created none.                                                       *)
ClosedRun(p) == (p.child /\ p.exited /\ p.reaped) \/ (~p.child /\ p.nochild)

(* report_lines: the first line opens the journal and every line is complete.  *)
report_lines(p) == p.header /\ ~p.torn

(* ResumeEvidence::parse_reader over the journal.                              *)
parse_reader(p, recover) ==
    /\ report_lines(p) /\ p.cleanup # "dirty"
    /\ ClosedRun(p) \/ (recover /\ p.child /\ p.cleanup = "none")

(* Only the report that was created last in the root counts.                   *)
latest_report(q) == root.latest = q

child_still_running(q) == desktops[q] = "running"

(* Recovery of an interrupted run needs the coordinator's receipt for it, and  *)
(* every recorded process to be gone.                                          *)
interrupted_processes(q) == root.receipt = q /\ ~root.coordinator /\ ~Going(q)

verify(q, recover) ==
    /\ latest_report(q) /\ parse_reader(reports[q], recover)
    /\ reports[q].child => ~child_still_running(q)
    /\ ClosedRun(reports[q]) \/ interrupted_processes(q)

(* LabRoot::resume_with_recovery: the lease is taken first and kept.           *)
resume_with_recovery(r, q, o) ==
    /\ Reached(r, "none") /\ Next1(r) /\ o.resume /\ ~root.empty /\ root.lease = 0
    /\ verify(q, o.recover)
    /\ root' = [root EXCEPT !.lease = r]
    /\ Set(r, [Go(r, "opened") EXCEPT !.from = q, !.cfg = root.cfg, !.safe = o.safe])
    /\ UNCHANGED <<reports, desktops>>

check_package_version(r) ==
    /\ runs[r].pc \in {"opened", "reported", "copying", "seeded", "loaded", "prepared", "confirmed"}
    /\ LeaveRun(r, "refused") /\ UNCHANGED desktops

-----------------------------------------------------------------------------
(* Preparing it.                                                               *)

(* Reporter::new and lab_opened.                                               *)
report(r) ==
    /\ Reached(r, "opened") /\ Set(r, Go(r, "reported"))
    /\ reports' = [reports EXCEPT ![r] = [NoReport EXCEPT !.made = TRUE, !.header = TRUE]]
    /\ root' = [root EXCEPT !.latest = r]
    /\ UNCHANGED desktops

(* RuntimeSeed::prepare_inner copies into a directory it creates itself, file  *)
(* by file: a part, then at least what verify looks for, then everything.  A   *)
(* run that fails meanwhile leaves that stage behind.                          *)
copy_contents(r) ==
    /\ \/ Reached(r, "reported") /\ root.seed = "none" /\ root' = [root EXCEPT !.seed = "part"] /\ Set(r, Go(r, "copying"))
       \/ Reached(r, "copying") /\ root.seed = "part" /\ root' = [root EXCEPT !.seed = "marked"] /\ UNCHANGED runs
       \/ Reached(r, "copying") /\ root.seed = "marked" /\ root' = [root EXCEPT !.seed = "whole"] /\ Set(r, Go(r, "seeded"))
    /\ UNCHANGED <<reports, desktops>>

(* RuntimeSeed::verify: the marker files and node_modules.                     *)
SeedVerified == root.seed \in {"marked", "whole"}

(* RuntimeSeed::reuse: assets that a former run left.                          *)
reuse(r) ==
    /\ Reached(r, "reported") /\ runs[r].from # 0 /\ SeedVerified
    /\ Set(r, Go(r, "seeded")) /\ UNCHANGED <<root, reports, desktops>>

(* LabRuntime::prepare: the registry, the plugins and the control pipe, with   *)
(* nothing executed yet.                                                       *)
prepare_lab(r) ==
    /\ Reached(r, "seeded") /\ Set(r, [Go(r, "loaded") EXCEPT !.rt = "ready"])
    /\ UNCHANGED <<root, reports, desktops>>

(* The environment, the shell check and the manifest; "prepared".              *)
lab_environment(r) ==
    /\ Reached(r, "loaded") /\ Set(r, Go(r, "prepared"))
    /\ UNCHANGED <<root, reports, desktops>>

(* wait_for_start: the coordinator's start or quit; nothing else matters.      *)
wait_for_start(r) ==
    /\ Reached(r, "prepared")
    /\ \/ Set(r, Go(r, "confirmed")) /\ UNCHANGED <<root, reports>>
       \/ LeaveRun(r, "ok")
    /\ UNCHANGED desktops

(* The package, the configuration (now guarded by open handles), the assets    *)
(* and the shell once more.                                                    *)
verify_configuration(r) ==
    /\ Reached(r, "confirmed") /\ root.cfg = runs[r].cfg /\ SeedVerified
    /\ Set(r, Go(r, "guarded")) /\ UNCHANGED <<root, reports, desktops>>

launch(r) ==
    /\ Reached(r, "guarded")
    /\ \/ desktops' = [desktops EXCEPT ![r] = "running"] /\ Set(r, Go(r, "created")) /\ UNCHANGED <<root, reports>>
       \/ LeaveRun(r, "failed") /\ UNCHANGED desktops

(* child_created, whose creation time may be unknown; then the CDP transport,  *)
(* or none.                                                                    *)
ChildCreated(r) ==
    /\ Reached(r, "created")
    /\ \E cdp \in {"open", "none"} : Set(r, [Go(r, "exit") EXCEPT !.cdp = cdp])
    /\ \E unknown \in BOOLEAN : reports' = [reports EXCEPT ![r].child = TRUE, ![r].torn = unknown]
    /\ UNCHANGED <<root, desktops>>

-----------------------------------------------------------------------------
(* Holding the Desktop: one pass of the loop is exit, input, connection,       *)
(* updates, startup, deadlines.                                                *)

Stopped(h) == h.rt \in {"clean", "dirty"}

(* LabRuntime::stop: once; the verdict of the first call stays.                *)
stop(r, h, clean) ==
    IF Stopped(h) \/ h.safe THEN h
    ELSE [h EXCEPT !.rt = IF clean \/ h.rt # "active" THEN "clean" ELSE "dirty"]

Recorded(r, h) == IF Stopped(h) /\ ~h.safe THEN [reports EXCEPT ![r].cleanup = h.rt] ELSE reports

(* QuitState::begin and the request through the page, if there is one.         *)
request_own_child_quit(h) == [h EXCEPT !.quit = IF @ = "no" THEN "asked" ELSE @]

(* The exit was seen: everything is stopped and reaped, then the run ends.     *)
HoldExit(r, clean) ==
    \E shut \in BOOLEAN :
    LET h == stop(r, runs[r], clean)
        failed == h.fail \/ h.rt = "dirty" \/ (h.cdp # "none" /\ ~shut)
        reaped == h.cdp # "none" /\ shut
    IN /\ Reached(r, "exit") /\ desktops[r] \in {"zero", "bad"}
       /\ reports' = [Recorded(r, h) EXCEPT ![r].exited = desktops[r] = "zero",
                                            ![r].reaped = desktops[r] = "zero" /\ reaped]
       /\ runs' = [runs EXCEPT ![r] = [NewRun EXCEPT !.pc = "done", !.fail = failed,
                     !.result = IF ~failed /\ (h.rehearsal \/ desktops[r] = "zero") THEN "ok" ELSE "failed"]]
       /\ root' = [root EXCEPT !.lease = 0]
       /\ UNCHANGED desktops

HoldNoExit(r) ==
    /\ Reached(r, "exit") /\ desktops[r] = "running" /\ Set(r, Go(r, "input"))
    /\ UNCHANGED <<root, reports, desktops>>

(* child.wait fails: the run ends and leaves its Desktop.                      *)
WaitFails(r) == Reached(r, "exit") /\ LeaveRun(r, "failed") /\ UNCHANGED desktops

Loop(r, h, pc) ==
    /\ Set(r, [h EXCEPT !.pc = pc]) /\ reports' = Recorded(r, h)
    /\ UNCHANGED <<root, desktops>>

update_installing(h) == h.upd \in {"handoff", "waiting"}

(* Standard input: nothing, quit, or a rehearsal of an update.                 *)
HoldInput(r, clean) ==
    LET h == runs[r] IN
    /\ Reached(r, "input")
    /\ \/ Loop(r, h, "cdp")
       \/ h.quit = "no" /\ Loop(r, request_own_child_quit(stop(r, h, clean)), "cdp")
       \/ /\ h.verified /\ h.quit = "no" /\ ~h.safe /\ ~update_installing(h)
          /\ Loop(r, request_own_child_quit(stop(r, [h EXCEPT !.rehearsal = TRUE], clean)), "cdp")

(* A closed connection stops the runtime, once; otherwise targets and the      *)
(* runtime are pumped while no quit is requested.                              *)
HoldCdp(r, clean) ==
    LET h == runs[r]
        pumps == h.cdp = "open" /\ h.quit = "no"
    IN /\ Reached(r, "cdp")
       /\ \/ ~pumps /\ ~(h.cdp = "closed" /\ ~h.seen) /\ Loop(r, h, "updates")
          \/ h.cdp = "closed" /\ ~h.seen /\ Loop(r, stop(r, [h EXCEPT !.seen = TRUE], clean), "updates")
          \/ pumps /\ Loop(r, h, "updates")
          \/ /\ pumps /\ h.verified /\ ~h.pumpfail /\ ~h.safe
             /\ Loop(r, stop(r, [h EXCEPT !.pumpfail = TRUE, !.fail = TRUE], clean), "updates")

(* LabRuntime::pump of the update service: a handoff is started, armed,        *)
(* refused or, while the exit is awaited, cancelled.                           *)
PumpsUpdate(h) ==
    IF ~h.verified \/ Stopped(h) \/ h.safe \/ h.quit # "no" \/ h.cdp # "open" THEN {h}
    ELSE CASE h.upd = "no" -> {h, [h EXCEPT !.upd = "handoff"]}
           [] h.upd = "handoff" -> {h, [h EXCEPT !.upd = "no"], [h EXCEPT !.upd = "waiting"]}
           [] h.upd = "waiting" -> {h, [h EXCEPT !.upd = "no"]}

HoldUpdates(r) == Reached(r, "updates") /\ \E h \in PumpsUpdate(runs[r]) : Loop(r, h, "startup")

(* LabRuntime::activate starts the Hosts and attaches every page.  A runtime   *)
(* that was stopped before keeps its first verdict.                            *)
activate(h) ==
    IF h.cdp = "none" \/ h.safe THEN h
    ELSE IF Stopped(h) THEN [h EXCEPT !.again = TRUE] ELSE [h EXCEPT !.rt = "active"]

(* StartupCheck::poll: not yet; verified, and the plugin runtime is activated, *)
(* which may fail; or refuted.                                                 *)
HoldStartup(r, clean) ==
    LET h == runs[r]
        due == h.quit = "no" /\ ~h.verified
        up == activate([h EXCEPT !.verified = TRUE])
    IN /\ Reached(r, "startup")
       /\ \/ Loop(r, h, "end")
          \/ due /\ Loop(r, up, "end")
          \/ /\ due /\ h.cdp # "none" /\ ~h.safe
             /\ Loop(r, request_own_child_quit(stop(r, [up EXCEPT !.fail = TRUE], clean)), "end")
          \/ due /\ Loop(r, request_own_child_quit([h EXCEPT !.fail = TRUE]), "end")

(* A plugin command is queued only in a runtime that is up.                    *)
PluginCommand(h) == h.verified /\ h.quit = "no" /\ ~update_installing(h) /\ ~h.pumpfail /\ ~h.seen

(* The startup trace is complete, or the quit budget is used up; the Desktop   *)
(* is kept in any case.                                                        *)
HoldEnd(r, clean) ==
    LET h == runs[r] IN
    /\ Reached(r, "end")
    /\ \/ Loop(r, h, "exit")
       \/ h.quit = "no" /\ h.trace /\ Loop(r, request_own_child_quit(stop(r, h, clean)), "exit")
       \/ h.quit = "asked" /\ Loop(r, [h EXCEPT !.quit = "late", !.fail = TRUE], "exit")

-----------------------------------------------------------------------------
(* Everyone else.                                                              *)

DesktopExits(r) ==
    /\ desktops[r] = "running"
    /\ \E code \in {"zero", "bad"} : desktops' = [desktops EXCEPT ![r] = code]
    /\ runs' = [runs EXCEPT ![r].cdp = IF @ = "open" THEN "closed" ELSE @]
    /\ UNCHANGED <<root, reports>>

ConnectionCloses(r) ==
    /\ runs[r].cdp = "open" /\ Going(r)
    /\ runs' = [runs EXCEPT ![r].cdp = "closed"]
    /\ UNCHANGED <<root, reports, desktops>>

(* The harness is killed; its Desktop lives on.                                *)
Killed(r) ==
    /\ Going(r)
    /\ Set(r, [NewRun EXCEPT !.pc = "dead"])
    /\ root' = [root EXCEPT !.lease = IF @ = r THEN 0 ELSE @]
    /\ \E torn \in BOOLEAN : reports' = [reports EXCEPT ![r].torn = @ \/ (torn /\ reports[r].made)]
    /\ UNCHANGED desktops

(* The coordinator notes the run it started, and ends.                         *)
Coordinator(r) ==
    /\ \/ Going(r) /\ reports[r].child /\ root.receipt # r /\ root' = [root EXCEPT !.receipt = r, !.coordinator = TRUE]
       \/ root.coordinator /\ root' = [root EXCEPT !.coordinator = FALSE]
    /\ UNCHANGED <<runs, reports, desktops>>

ConfigurationChanges ==
    /\ ~root.empty /\ root.edits < MaxLabEdits /\ \A r \in Runs : ~Reached(r, "guarded")
    /\ root' = [root EXCEPT !.edits = @ + 1, !.cfg = root.edits + 1]
    /\ UNCHANGED <<runs, reports, desktops>>

Holds(r) ==
    \/ HoldNoExit(r) \/ WaitFails(r) \/ HoldUpdates(r)
    \/ \E clean \in BOOLEAN :
          HoldExit(r, clean) \/ HoldInput(r, clean) \/ HoldCdp(r, clean) \/ HoldStartup(r, clean) \/ HoldEnd(r, clean)

LabNext ==
    \/ \E r \in Runs :
          \/ pin_lab_ancestry(r) \/ check_package_version(r) \/ report(r) \/ copy_contents(r) \/ reuse(r) \/ prepare_lab(r) \/ lab_environment(r)
          \/ wait_for_start(r) \/ verify_configuration(r) \/ launch(r) \/ ChildCreated(r)
          \/ Holds(r) \/ DesktopExits(r) \/ ConnectionCloses(r) \/ Killed(r) \/ Coordinator(r)
          \/ \E o \in LabOptions \cap Offered : claim(r, o) \/ \E q \in Runs : resume_with_recovery(r, q, o)
    \/ ConfigurationChanges

LabSpec == LabInit /\ [][LabNext]_labVars

-----------------------------------------------------------------------------
(* What has to hold.                                                           *)

(* One root has at most one Desktop running in it, whatever was killed when,   *)
(* and whichever reports are resumed from.                                     *)
OneDesktop == Cardinality({r \in Runs : desktops[r] = "running"}) <= 1

(* A run between claim and its end has the lease.                              *)
LeaseHeld == \A r \in Runs : runs[r].pc \notin {"none", "done", "dead"} => root.lease = r

(* A Desktop is started only with the configuration the run had checked or     *)
(* created, and with assets that no one is still copying: complete ones when   *)
(* the run, or the run it resumes from, came to start a Desktop with them.     *)
StartsAsChecked ==
    \A r \in Runs : Reached(r, "guarded") =>
        /\ root.cfg = runs[r].cfg /\ SeedVerified
        /\ runs[r].from = 0 => root.seed = "whole"

(* Plugins run only after this Desktop's startup was verified, and an accepted *)
(* command finds them running.                                                 *)
PluginsAfterStartup ==
    \A r \in Runs : LET h == runs[r] IN
        /\ h.rt \in {"active", "dirty"} => h.verified
        /\ Going(r) /\ PluginCommand(h) /\ h.cdp # "none" /\ ~h.safe => h.rt = "active"

(* A run that says it went well had no failure, reaped what it started, and    *)
(* its journal lets the next run resume.                                       *)
SuccessIsTrue ==
    \A r \in Runs : runs[r].result = "ok" =>
        /\ ~runs[r].fail /\ reports[r].cleanup # "dirty"
        /\ reports[r].child => desktops[r] \in {"zero", "bad"}

LabSound == OneDesktop /\ LeaseHeld /\ StartsAsChecked /\ PluginsAfterStartup /\ SuccessIsTrue
=============================================================================
