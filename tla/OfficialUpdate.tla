---------------------------- MODULE OfficialUpdate ----------------------------
(***************************************************************************)
(* The client's own update, which Core only accompanies (official_update.  *)
(* rs, official_update/owner.rs, windows/restart_bridge.rs), alone or      *)
(* together with an update of Core.  The client's installer asks for a     *)
(* restart through the bridge in the client and replaces the Windows       *)
(* package after the client is gone; Core then confirms a newer package    *)
(* and starts it, or releases the update helper that it armed before.      *)
(***************************************************************************)
EXTENDS Naturals, FiniteSets

CONSTANTS MaxCombined,   \* bound: combined updates requested
          MaxNative,     \* bound: installations of the client's own updater
          SETTLED        \* samples after which an installation counts as given up (3)

ASSUME OffConstants == MaxCombined \in Nat /\ MaxNative \in Nat /\ SETTLED \in Nat

VARIABLES client,        \* the client: its process, its updater, the installed package
          bridge,        \* the restart bridge in it: up, the kernel event it sets
          combined,      \* OfficialUpdates: the status others see
          coreUpdate,    \* RuntimeUpdateService, as far as the owner looks at it
          owner,         \* OfficialUpdateOwner
          helper,        \* the update helper of each combined request
          gateFile,      \* official-result.json of each
          installCalls   \* history: calls of the official installer, per request

offVars == <<client, bridge, combined, coreUpdate, owner, helper, gateFile, installCalls>>

Requests == 1..MaxCombined
Busy == {"downloading", "preparing", "installing"}
Quiet == [pending |-> FALSE, settled |-> 0, sure |-> 0]

OffTypeOK ==
  /\ client \in [alive : BOOLEAN, phase : {"idle", "ready", "installing"}, package : {"old", "new"}, native : 0..MaxNative]
  /\ combined.phase \in Busy \cup {"idle", "failed"}
  /\ owner.request \in Requests \cup {0} /\ owner.handoff \in {"none", "running", "ok", "failed"}
  /\ helper \in [Requests -> {"none", "starting", "armed", "refused", "released"}]
  /\ gateFile \in [Requests -> {"none", "ready", "refused"}]

(* --- The client and its updater (environment) --------------------------- *)

ClientFindsUpdate ==
  /\ client.alive /\ client.phase = "idle"
  /\ client' = [client EXCEPT !.phase = "ready"]
  /\ UNCHANGED <<bridge, combined, coreUpdate, owner, helper, gateFile, installCalls>>

\* The user of the client presses its own update button.
UserInstalls ==
  /\ client.alive /\ client.phase = "ready" /\ client.native < MaxNative
  /\ client' = [client EXCEPT !.phase = "installing", !.native = @ + 1]
  /\ UNCHANGED <<bridge, combined, coreUpdate, owner, helper, gateFile, installCalls>>

\* RegisterApplicationRestart is taken over by the bridge, which sets its event.
InstallerRegisters ==
  /\ client.alive /\ client.phase = "installing" /\ bridge.up /\ ~bridge.event
  /\ bridge' = [bridge EXCEPT !.event = TRUE]
  /\ UNCHANGED <<client, combined, coreUpdate, owner, helper, gateFile, installCalls>>

\* The installer gives up, or is cancelled.
InstallerReturns ==
  /\ client.alive /\ client.phase = "installing"
  /\ \E phase \in {"idle", "ready"} : client' = [client EXCEPT !.phase = phase]
  /\ UNCHANGED <<bridge, combined, coreUpdate, owner, helper, gateFile, installCalls>>

ClientCloses ==
  /\ client.alive /\ client' = [client EXCEPT !.alive = FALSE]
  /\ UNCHANGED <<bridge, combined, coreUpdate, owner, helper, gateFile, installCalls>>

\* Windows registers the package while no client runs.
WindowsRegisters ==
  /\ ~client.alive /\ client.phase = "installing" /\ client.package = "old"
  /\ client' = [client EXCEPT !.package = "new"]
  /\ UNCHANGED <<bridge, combined, coreUpdate, owner, helper, gateFile, installCalls>>

(* --- A combined update is requested ------------------------------------- *)

request_combined ==
  /\ owner.at # "gone" /\ combined.phase \notin Busy /\ combined.count < MaxCombined
  /\ combined.available /\ combined.preserved /\ combined.seen = "ready"
  /\ coreUpdate.phase \in {"available", "downloaded"}
  /\ combined' = [combined EXCEPT !.phase = "downloading", !.candidate = coreUpdate.candidate, !.count = @ + 1]
  /\ coreUpdate' = [coreUpdate EXCEPT !.error = FALSE,
                                      !.phase = IF @ = "available" THEN "downloading" ELSE @]
  /\ UNCHANGED <<client, bridge, owner, helper, gateFile, installCalls>>

\* The service's own worker: downloads, prepares an install request, or fails.
CoreUpdateWorks ==
  /\ \/ coreUpdate.phase = "downloading" /\ coreUpdate' = [coreUpdate EXCEPT !.phase = "downloaded"]
     \/ coreUpdate.phase = "queued" /\ coreUpdate' = [coreUpdate EXCEPT !.phase = "requested"]
     \/ coreUpdate.phase \in {"downloading", "queued"}
        /\ coreUpdate' = [coreUpdate EXCEPT !.phase = "available", !.error = TRUE]
     \/ coreUpdate.phase = "downloaded" /\ coreUpdate.candidate = 1  \* a check finds a newer one
        /\ coreUpdate' = [coreUpdate EXCEPT !.phase = "available", !.candidate = 2]
  /\ UNCHANGED <<client, bridge, combined, owner, helper, gateFile, installCalls>>

(* --- The owner: one poll is three reads of its surroundings ------------- *)

\* The gate file of a request: written beside it and renamed over.
gate(own, result) == [gateFile EXCEPT ![own.request] = result]

\* abort: the helper of a request taken is told to stop.  A refusal that cannot be
\* written is ignored; the helper then gives up by its own deadline.
Aborted(own, com) ==
  /\ owner' = [own EXCEPT !.request = 0, !.handoff = "none", !.sent = FALSE]
  /\ combined' = [com EXCEPT !.phase = "failed", !.candidate = 0]
  /\ IF own.request = 0 THEN UNCHANGED gateFile
     ELSE gateFile' = gate(own, "refused")

take_registered(intent) == IF bridge.event THEN [intent EXCEPT !.pending = TRUE, !.settled = 0] ELSE intent

PollsBridge ==
  /\ owner.at = "bridge"
  /\ owner' = [owner EXCEPT !.at = "probe", !.intent = take_registered(@)]
  /\ bridge' = [bridge EXCEPT !.event = FALSE]
  /\ combined' = [combined EXCEPT !.preserved = bridge.up]
  /\ UNCHANGED <<client, coreUpdate, helper, gateFile, installCalls>>

\* RestartIntent::observe
Observed(intent, phase) ==
  IF ~intent.pending THEN intent
  ELSE IF phase = "installing" THEN [intent EXCEPT !.settled = 0]
  ELSE IF intent.settled + 1 < SETTLED THEN [intent EXCEPT !.settled = @ + 1]
  ELSE [intent EXCEPT !.settled = SETTLED, !.pending = FALSE]

\* No audited window may answer.
PollsPhase ==
  /\ owner.at = "probe"
  /\ UNCHANGED <<client, bridge, coreUpdate, helper, installCalls>>
  /\ \/ /\ client.alive
        /\ LET seen == Observed(owner.intent, client.phase)
               own == [owner EXCEPT !.at = "combined", !.intent = seen]
               com == [combined EXCEPT !.available = TRUE, !.seen = client.phase]
           IN IF owner.intent.pending /\ ~seen.pending /\ owner.request # 0 THEN Aborted(own, com)
              ELSE owner' = own /\ combined' = com /\ UNCHANGED gateFile
     \/ /\ combined' = [combined EXCEPT !.available = FALSE]
        /\ owner' = [owner EXCEPT !.at = "combined"]
        /\ UNCHANGED gateFile

Ready == combined.available /\ combined.preserved /\ combined.seen = "ready"

PollsOnce(own) == [own EXCEPT !.at = "bridge"]

\* One pass of poll_combined; management_busy postpones the request of the installation.
PollsCombined ==
  /\ owner.at = "combined"
  /\ UNCHANGED <<client, bridge>>
  /\ IF combined.phase \notin Busy
     THEN owner' = PollsOnce(owner) /\ UNCHANGED <<combined, coreUpdate, helper, gateFile, installCalls>>
     ELSE IF coreUpdate.candidate # combined.candidate \/ coreUpdate.error
     THEN Aborted(PollsOnce(owner), combined) /\ UNCHANGED <<coreUpdate, helper, installCalls>>
     ELSE \/ /\ owner' = PollsOnce(owner)
             /\ combined.phase # "downloading" \/ coreUpdate.phase # "downloaded" \/ Ready
             /\ UNCHANGED <<combined, coreUpdate, helper, gateFile, installCalls>>
          \/ /\ combined.phase = "downloading" /\ coreUpdate.phase = "downloaded" /\ ~Ready
             /\ Aborted(PollsOnce(owner), combined)
             /\ UNCHANGED <<coreUpdate, helper, installCalls>>
          \/ /\ combined.phase = "downloading" /\ coreUpdate.phase = "downloaded" /\ Ready
             /\ coreUpdate' = [coreUpdate EXCEPT !.phase = "queued"]
             /\ combined' = [combined EXCEPT !.phase = "preparing"]
             /\ owner' = PollsOnce(owner)
             /\ UNCHANGED <<helper, gateFile, installCalls>>
          \/ /\ owner.handoff = "none" /\ owner.request = 0 /\ coreUpdate.phase = "requested"
             /\ coreUpdate' = [coreUpdate EXCEPT !.phase = "installing"]
             /\ owner' = [PollsOnce(owner) EXCEPT !.request = combined.count, !.handoff = "running"]
             /\ helper' = [helper EXCEPT ![combined.count] = "starting"]
             /\ UNCHANGED <<combined, gateFile, installCalls>>

(* --- The handoff and the call of the official installer ------------------ *)

\* A thread of its own: the helper acknowledged its plan, or the handoff failed.
HandoffSettles ==
  \E r \in Requests :
    /\ helper[r] = "starting" /\ owner.at # "gone"
    /\ \/ /\ helper' = [helper EXCEPT ![r] = "armed"]
          /\ owner' = IF owner.request = r THEN [owner EXCEPT !.handoff = "ok"] ELSE owner
          /\ UNCHANGED coreUpdate
       \/ /\ helper' = [helper EXCEPT ![r] = "refused"]
          /\ owner' = IF owner.request = r THEN [owner EXCEPT !.handoff = "failed"] ELSE owner
          /\ coreUpdate' = [coreUpdate EXCEPT !.phase = "downloaded", !.error = TRUE]
       \/ /\ helper' = [helper EXCEPT ![r] = "armed"]   \* acknowledged, and its receipt comes too late
          /\ owner' = IF owner.request = r THEN [owner EXCEPT !.handoff = "failed"] ELSE owner
          /\ UNCHANGED coreUpdate
    /\ UNCHANGED <<client, bridge, combined, gateFile, installCalls>>

\* A mutant: the call is made as soon as the plan was handed over.
TakenEarly == owner.handoff \in {"running", "ok", "failed"}

Taken == owner.handoff \in {"ok", "failed"}

\* The page reserves the request before it calls the installer, so the call is made
\* once; its answer may be lost, which is not repeated.
CallsInstaller ==
  /\ owner.at = "combined" /\ combined.phase \in Busy /\ Taken
  /\ IF owner.handoff = "failed" \/ ~combined.preserved
     THEN Aborted(PollsOnce(owner), combined) /\ UNCHANGED <<client, installCalls>>
     ELSE \/ /\ client.alive /\ client.phase = "ready"
             /\ client' = [client EXCEPT !.phase = "installing"]
             /\ installCalls' = [installCalls EXCEPT ![owner.request] = @ + 1]
             /\ owner' = [PollsOnce(owner) EXCEPT !.handoff = "none", !.sent = TRUE]
             /\ combined' = [combined EXCEPT !.phase = "installing"]
             /\ UNCHANGED gateFile
          \/ client.alive /\ client.phase # "ready" /\ Aborted(PollsOnce(owner), combined)
             /\ UNCHANGED <<client, installCalls>>
          \/ /\ owner' = [PollsOnce(owner) EXCEPT !.handoff = "none", !.sent = TRUE]
             /\ combined' = [combined EXCEPT !.phase = "installing"]
             /\ UNCHANGED <<client, gateFile, installCalls>>
  /\ UNCHANGED <<bridge, coreUpdate, helper>>

\* The installer was called and has not begun within its time.
InstallerSilent ==
  /\ owner.at = "combined" /\ combined.phase \in Busy /\ owner.sent /\ ~owner.intent.pending
  /\ Aborted(PollsOnce(owner), combined)
  /\ UNCHANGED <<client, bridge, coreUpdate, helper, installCalls>>

(* --- The client is gone: finish ----------------------------------------- *)

finish ==
  /\ owner.at \in {"bridge", "probe", "combined"} /\ ~client.alive
  /\ bridge' = [bridge EXCEPT !.event = FALSE]
  /\ LET own == [owner EXCEPT !.intent = take_registered(@), !.at = "waiting"]
     IN IF own.intent.pending THEN owner' = own /\ UNCHANGED <<combined, gateFile>>
        ELSE LET left == [own EXCEPT !.at = "gone", !.exit = "ordinary"]
             IN IF owner.request # 0 \/ combined.phase \in Busy THEN Aborted(left, combined)
                ELSE owner' = left /\ UNCHANGED <<combined, gateFile>>
  /\ UNCHANGED <<client, coreUpdate, helper, installCalls>>

newer_package == client.package = "new"

\* The same newer package is seen twice in a row; then the helper is released, or
\* the new client is started by Core.  A refusal to write the release ends it.
ConfirmsPackage ==
  /\ owner.at = "waiting" /\ newer_package
  /\ IF owner.intent.sure = 0 THEN owner' = [owner EXCEPT !.intent.sure = 1] /\ UNCHANGED gateFile
     ELSE IF owner.request = 0 THEN owner' = [owner EXCEPT !.at = "gone", !.exit = "restart"] /\ UNCHANGED gateFile
     ELSE \/ /\ gateFile' = gate(owner, "ready")
             /\ owner' = [owner EXCEPT !.at = "gone", !.exit = "combined", !.request = 0]
          \/ owner' = [owner EXCEPT !.at = "gone", !.exit = "ordinary", !.request = 0] /\ UNCHANGED gateFile
  /\ UNCHANGED <<client, bridge, combined, coreUpdate, helper, installCalls>>

\* Five minutes pass, or the owner is dropped for another reason.
NotConfirmed ==
  /\ owner.at # "gone" /\ ~client.alive
  /\ LET left == [owner EXCEPT !.at = "gone", !.exit = "ordinary"]
     IN IF owner.request # 0 \/ combined.phase \in Busy THEN Aborted(left, combined)
        ELSE owner' = left /\ UNCHANGED <<combined, gateFile>>
  /\ UNCHANGED <<client, bridge, coreUpdate, helper, installCalls>>

\* officialResult in the helper: refused at once, or replaces Core's files after Core has gone.
HelperReads ==
  \E r \in Requests :
    /\ helper[r] = "armed"
    /\ \/ gateFile[r] = "refused" /\ helper' = [helper EXCEPT ![r] = "refused"]
       \/ owner.at = "gone" /\ gateFile[r] = "ready" /\ helper' = [helper EXCEPT ![r] = "released"]
       \/ owner.at = "gone" /\ gateFile[r] = "none" /\ helper' = [helper EXCEPT ![r] = "refused"]
    /\ UNCHANGED <<client, bridge, combined, coreUpdate, owner, gateFile, installCalls>>

NoBridge == [up |-> FALSE, event |-> FALSE]

NotCombined == [phase |-> "idle", available |-> FALSE, preserved |-> FALSE, seen |-> "idle", candidate |-> 0, count |-> 0]

CoreOffered == [phase |-> "available", candidate |-> 1, error |-> FALSE]

NewOwner == [at |-> "bridge", request |-> 0, handoff |-> "none", sent |-> FALSE, intent |-> Quiet, exit |-> "none"]

OffInit ==
  /\ client = [alive |-> TRUE, phase |-> "idle", package |-> "old", native |-> 0]
  /\ \E up \in BOOLEAN : bridge = [NoBridge EXCEPT !.up = up]
  /\ combined = NotCombined /\ coreUpdate = CoreOffered /\ owner = NewOwner
  /\ helper = [r \in Requests |-> "none"] /\ gateFile = [r \in Requests |-> "none"]
  /\ installCalls = [r \in Requests |-> 0]

OffNext ==
  \/ ClientFindsUpdate \/ UserInstalls \/ InstallerRegisters \/ InstallerReturns \/ ClientCloses \/ WindowsRegisters
  \/ request_combined \/ CoreUpdateWorks
  \/ PollsBridge \/ PollsPhase \/ PollsCombined
  \/ HandoffSettles \/ CallsInstaller \/ InstallerSilent
  \/ finish \/ ConfirmsPackage \/ NotConfirmed \/ HelperReads

OffSpec == OffInit /\ [][OffNext]_offVars

(* --- Properties --------------------------------------------------------- *)

\* The official installer is called once for a request, and only once the helper is armed.
InstallCalledOnce ==
  \A r \in Requests : installCalls[r] <= 1 /\ (installCalls[r] = 1 => helper[r] # "starting" /\ helper[r] # "none")

\* Core's files are replaced, and a client started again, only over a newer
\* package that Windows has registered after the old client was gone.
RestartsOverNewPackage ==
  /\ \A r \in Requests : helper[r] = "released" \/ gateFile[r] = "ready" => client.package = "new" /\ ~client.alive
  /\ owner.exit \in {"restart", "combined"} => client.package = "new"

\* A request that is given up is refused, and never released later.
NoRequestForgotten ==
  \A r \in Requests :
    helper[r] \in {"starting", "armed"} /\ gateFile[r] = "none" /\ owner.at # "gone" => owner.request = r

\* The owner holds a request only while the combined update is under way.
OwnerAgrees == owner.request # 0 => combined.phase \in Busy

\* official_update/owner.rs: the client's update and Core's go together or not at all.
OfficialSound ==
  OffTypeOK /\ InstallCalledOnce /\ RestartsOverNewPackage /\ NoRequestForgotten /\ OwnerAgrees
=============================================================================
