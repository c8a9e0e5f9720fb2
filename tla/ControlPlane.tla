---------------------------- MODULE ControlPlane ----------------------------
(* The management plane of one registry scope: command-line clients, the      *)
(* single-instance control pipe, the mailbox (ControlBroker), and the         *)
(* foreground runtime that owns every lifecycle operation.                    *)
(*                                                                            *)
(*   CLI        plugin_cli.rs manage_inner, offline_edit                      *)
(*   transport  windows/control_pipe.rs exchange_expected, serve_transaction  *)
(*   foreground lab/management.rs pump, host_control.rs                       *)
(*                                                                            *)
(* One client at a time is connected.  A client may give up at any moment;    *)
(* its frame is then still in the pipe and may be served later.               *)
EXTENDS ControlBroker, TLC

CONSTANTS
    Cli,             \* command-line processes
    Plugin,          \* plugins that ask to be disabled through the Host
    None,            \* absence of a receipt, a client or a connection
    Disable,         \* the request a self-disable prepares
    Reload           \* the request a watched source edit prepares

ASSUME PlaneConstants ==
    /\ Disable \in RecoveryRequest
    /\ Reload \in Request \ RecoveryRequest
    /\ None \notin Cli \cup Ticket \cup {"Host"}
    /\ "Host" \notin Cli

VARIABLES
    up,              \* the Host process is alive and its endpoint bound
    lease,           \* holder of the registry scope: "Host", a client or None
    conn,            \* the transaction in the control pipe
    cli,             \* per client: pc, request, receipt and outcome
    fg,              \* foreground loop: pc, plugins still to visit, receipt
    job,             \* the receipt host_control or the renderer is executing
    disables,        \* renderer.pending_package_disables(), per plugin
    receipts,        \* self_disable_receipts, per plugin
    watch            \* watcher: an edit seen, its selection, its receipt

pvars == <<up, lease, conn, cli, fg, job, disables, receipts, watch>>
vars  == <<bvars, pvars>>

Issued == <<incarnation, NextTicket>>      \* the receipt a Prepare would issue

-----------------------------------------------------------------------------
PlaneInit ==
    /\ Init
    /\ up = TRUE /\ lease = "Host" /\ conn = None
    /\ cli \in [Cli -> [pc : {"prepare"}, request : Request, ticket : {None},
                        waiting : {FALSE}, outcome : {"none"}]]
    /\ fg = [pc |-> "start", todo |-> {}, ticket |-> None]
    /\ job = None
    /\ disables = [p \in Plugin |-> "none"]
    /\ receipts = [p \in Plugin |-> None]
    /\ watch = [edit |-> "none", receipt |-> None]

-----------------------------------------------------------------------------
(* What a client makes of the status of its exchange (manage_inner).          *)
NotSubmittedStatus ==
    {"Busy", "NotReady", "Stopping", "Expired", "StaleHost", "InvalidRequest",
     "NotRunning"}

Ended(c, outcome) == [cli[c] EXCEPT !.pc = "done", !.waiting = FALSE,
                                    !.outcome = outcome]

AfterPrepare(c, status, ticket) ==
    CASE status = "NotRunning" /\ cli[c].request = Reload -> Ended(c, "host_required")
      [] status = "NotRunning" /\ cli[c].request # Reload ->
             [cli[c] EXCEPT !.pc = "offline", !.waiting = FALSE]
      [] status = "Prepared" ->
             [cli[c] EXCEPT !.pc = "submit", !.waiting = FALSE, !.ticket = ticket]
      [] OTHER -> Ended(c, "control_failed")

AfterRead(c, status, completion) ==
    CASE status \in {"Queued", "Running"} ->
             [cli[c] EXCEPT !.pc = "poll", !.waiting = FALSE]
      [] status = "Completed" ->
             Ended(c, IF completion = "Report" THEN "ok" ELSE "failed")
      [] OTHER -> Ended(c, "uncertain")

AfterQuery(c, status, ticket, completion) ==
    CASE cli[c].pc = "prepare" -> AfterPrepare(c, status, ticket)
      [] cli[c].pc = "submit" /\ status \in NotSubmittedStatus ->
             Ended(c, "not_submitted")
      [] cli[c].pc = "poll" /\ status = "Busy" ->
             [cli[c] EXCEPT !.waiting = FALSE]
      [] OTHER -> AfterRead(c, status, completion)

Connected(c) == conn # None /\ conn.client = c

Querying(c) == cli[c].pc \in {"prepare", "submit", "poll"}

Heard(c, status) == cli' = [cli EXCEPT ![c] = AfterQuery(c, status, None, "None")]

(* open_client: nothing is sent when the endpoint is missing or serving       *)
(* another client.                                                            *)
OpenClient(c) ==
    /\ Querying(c) /\ ~cli[c].waiting
    /\ IF up /\ conn = None
       THEN /\ conn' = [client |-> c, command |-> cli[c].pc,
                        request |-> cli[c].request, ticket |-> cli[c].ticket,
                        status |-> "sent", completion |-> "None"]
            /\ cli' = [cli EXCEPT ![c].waiting = TRUE]
       ELSE /\ Heard(c, IF up THEN "Busy" ELSE "NotRunning")
            /\ UNCHANGED conn
    /\ UNCHANGED <<bvars, up, lease, fg, job, disables, receipts, watch>>

(* serve_transaction: the pipe worker hands the frame to the broker and       *)
(* writes the report; a client that has gone is simply disconnected.          *)
Reply(status, ticket, completion) ==
    conn' = IF conn.client = None THEN None
            ELSE [conn EXCEPT !.status = status, !.ticket = ticket,
                              !.completion = completion]

BrokerPrepare(request) ==
    IF Admits(request) THEN Prepare(request) ELSE UNCHANGED bvars

BrokerSubmit(t) == IF Accepts(t) THEN Submit(t) ELSE UNCHANGED bvars

ServePrepare ==
    /\ conn.command = "prepare"
    /\ Reply(PrepareStatus(conn.request), Issued, "None")
    /\ BrokerPrepare(conn.request)

ServeSubmit ==
    /\ conn.command = "submit"
    /\ Reply(SubmitStatus(conn.ticket), conn.ticket,
             records[conn.ticket[2]].completion)
    /\ BrokerSubmit(conn.ticket)

ServeResult ==
    /\ conn.command = "poll"
    /\ Reply(ResolveStatus(conn.ticket), conn.ticket,
             records[conn.ticket[2]].completion)
    /\ UNCHANGED bvars

Serve ==
    /\ up /\ conn # None
    /\ conn.status = "sent"
    /\ ServePrepare \/ ServeSubmit \/ ServeResult
    /\ UNCHANGED <<up, lease, cli, fg, job, disables, receipts, watch>>

(* The worker may also fail to verify or read the client: it disconnects      *)
(* without a call.                                                            *)
ServeFails ==
    /\ up /\ conn # None
    /\ conn.status = "sent"
    /\ conn' = None
    /\ UNCHANGED <<bvars, up, lease, cli, fg, job, disables, receipts, watch>>

(* The client reads the report and acknowledges it.                           *)
Receive(c) ==
    /\ Connected(c) /\ conn.status # "sent"
    /\ cli' = [cli EXCEPT ![c] = AfterQuery(c, conn.status, conn.ticket, conn.completion)]
    /\ conn' = None
    /\ UNCHANGED <<bvars, up, lease, fg, job, disables, receipts, watch>>

(* CONTROL_QUERY_TIMEOUT passes first.  A frame already written stays in the  *)
(* pipe, and the worker may still read and execute it.                        *)
QueryTimeout(c) ==
    /\ Connected(c)
    /\ conn' = IF conn.status = "sent" THEN [conn EXCEPT !.client = None] ELSE None
    /\ Heard(c, "Timeout")
    /\ UNCHANGED <<bvars, up, lease, fg, job, disables, receipts, watch>>

(* The pipe broke: the worker disconnected or the Host is gone.               *)
QueryBrokenIgnored(c) == FALSE

QueryBroken(c) ==
    /\ cli[c].waiting
    /\ ~Connected(c)
    /\ Heard(c, "CommunicationError")
    /\ UNCHANGED <<bvars, up, lease, conn, fg, job, disables, receipts, watch>>

(* OPERATION_WAIT_TIMEOUT: stop polling without a result.                     *)
PollDeadline(c) ==
    /\ cli[c].pc = "poll" /\ ~cli[c].waiting
    /\ cli' = [cli EXCEPT ![c] = Ended(c, "uncertain")]
    /\ UNCHANGED <<bvars, up, lease, conn, fg, job, disables, receipts, watch>>

(* offline_edit: the scope lease decides, not the missing endpoint.           *)
EndpointMissing == TRUE

LeaseFree == lease = None

OfflineLease(c) ==
    /\ cli[c].pc = "offline"
    /\ LeaseFree
    /\ lease' = c
    /\ cli' = [cli EXCEPT ![c].pc = "editing"]
    /\ UNCHANGED <<bvars, up, conn, fg, job, disables, receipts, watch>>

(* The lease or the launch mutex is not had in time, or the endpoint and the  *)
(* legacy status do not prove that no Host is running.                        *)
OfflineRefused(c) ==
    /\ cli[c].pc = "offline"
    /\ cli' = [cli EXCEPT ![c] = Ended(c, "offline_unavailable")]
    /\ UNCHANGED <<bvars, up, lease, conn, fg, job, disables, receipts, watch>>

OfflineEdit(c) ==
    /\ cli[c].pc = "editing"
    /\ lease' = None
    /\ cli' = [cli EXCEPT ![c] = Ended(c, "offline")]
    /\ UNCHANGED <<bvars, up, conn, fg, job, disables, receipts, watch>>

-----------------------------------------------------------------------------
(* The foreground loop.  "start" precedes readiness; an iteration then pumps  *)
(* the bindings, visits the self-disables, polls the running job, takes the   *)
(* next one and, when there is none, asks the watcher.                        *)
Goto(pc) == fg' = [fg EXCEPT !.pc = pc, !.ticket = None]

StartSafeMode ==
    /\ up /\ fg.pc = "start" /\ ~recovery_only
    /\ RestrictToRecovery
    /\ UNCHANGED pvars

StartReady ==
    /\ up /\ fg.pc = "start"
    /\ SetReady
    /\ Goto("pump")
    /\ UNCHANGED <<up, lease, conn, cli, job, disables, receipts, watch>>

(* pump_bindings: plugins may ask to be disabled, files may have changed.     *)
(* A safe-mode Host runs no plugin and no watcher.                            *)
PumpBindings ==
    /\ up /\ fg.pc = "pump"
    /\ \E asking \in SUBSET {p \in Plugin : disables[p] = "none" /\ ~recovery_only} :
          /\ disables' = [p \in Plugin |-> IF p \in asking THEN "pending" ELSE disables[p]]
          /\ fg' = [fg EXCEPT !.pc = "disables",
                              !.todo = {p \in Plugin : disables'[p] = "pending"}]
    /\ watch' \in {watch} \cup
          (IF watch.edit = "none" /\ ~recovery_only
           THEN {[watch EXCEPT !.edit = "seen"]} ELSE {})
    /\ UNCHANGED <<bvars, up, lease, conn, cli, job, receipts>>

(* submit_self_disable_requests: reserve once, then submit the same receipt   *)
(* until it is admitted; a receipt that expired is replaced next time.        *)
DisableReserve(p) ==
    /\ up /\ fg.pc = "disables" /\ p \in fg.todo /\ receipts[p] = None
    /\ BrokerPrepare(Disable)
    /\ IF PrepareStatus(Disable) = "Prepared"
       THEN /\ receipts' = [receipts EXCEPT ![p] = Issued]
            /\ UNCHANGED fg
       ELSE /\ fg' = [fg EXCEPT !.todo = @ \ {p}]
            /\ UNCHANGED receipts
    /\ UNCHANGED <<up, lease, conn, cli, job, disables, watch>>

Admitted == {"Queued", "Running", "Completed"}

(* The statuses after which the kept receipt is dropped.                      *)
KeepsExpiredReceipt == Admitted

DropsReceipt == Admitted \cup {"Expired", "StaleHost"}

DisableSubmit(p) ==
    /\ up /\ fg.pc = "disables" /\ p \in fg.todo /\ receipts[p] # None
    /\ BrokerSubmit(receipts[p])
    /\ receipts' = IF SubmitStatus(receipts[p]) \in DropsReceipt
                   THEN [receipts EXCEPT ![p] = None] ELSE receipts
    /\ disables' = IF SubmitStatus(receipts[p]) \in Admitted
                   THEN [disables EXCEPT ![p] = "acknowledged"] ELSE disables
    /\ fg' = [fg EXCEPT !.todo = @ \ {p}]
    /\ UNCHANGED <<up, lease, conn, cli, job, watch>>

(* host_control.poll: the retained operation ends, or is still in progress.   *)
JobEnds(pc) ==
    /\ job # None
    /\ \E result \in LifecycleResult : Complete(job, result)
    /\ job' = None
    /\ Goto(pc)
    /\ UNCHANGED <<up, lease, conn, cli, disables, receipts, watch>>

PollEnds == up /\ fg.pc = "disables" /\ fg.todo = {} /\ JobEnds("next")

PollContinues ==
    /\ up /\ fg.pc = "disables" /\ fg.todo = {}
    /\ Goto("next")
    /\ UNCHANGED <<bvars, up, lease, conn, cli, job, disables, receipts, watch>>

(* is_pending(): nothing is taken while an operation is retained.             *)
NeverPending == FALSE

IsPending == job # None

TakeJob ==
    /\ up /\ fg.pc = "next" /\ ~IsPending
    /\ TakeNext
    /\ job' = <<incarnation, Head(queue)>>
    /\ watch' = IF watch.receipt = <<incarnation, Head(queue)>>
                THEN [watch EXCEPT !.receipt = None] ELSE watch
    /\ Goto("dispatch")
    /\ UNCHANGED <<up, lease, conn, cli, disables, receipts>>

(* dispatch completes the job at once or retains it for later polls.          *)
DispatchEnds == up /\ fg.pc = "dispatch" /\ JobEnds("pump")

DispatchForgets ==
    /\ up /\ fg.pc = "dispatch"
    /\ job' = None
    /\ Goto("pump")
    /\ UNCHANGED <<bvars, up, lease, conn, cli, disables, receipts, watch>>

DispatchRetains ==
    /\ up /\ fg.pc = "dispatch"
    /\ Goto("pump")
    /\ UNCHANGED <<bvars, up, lease, conn, cli, job, disables, receipts, watch>>

Idle ==
    /\ up /\ fg.pc = "next"
    /\ IsPending \/ queue = << >>
    /\ Goto(IF ~IsPending /\ watch.receipt = None /\ watch.edit = "seen"
            THEN "watch" ELSE "pump")
    /\ UNCHANGED <<bvars, up, lease, conn, cli, job, disables, receipts, watch>>

(* While a Runtime or plugin update is being installed no job is taken.       *)
UpdateInstalls ==
    /\ up /\ fg.pc = "next"
    /\ Goto("pump")
    /\ UNCHANGED <<bvars, up, lease, conn, cli, job, disables, receipts, watch>>

(* submit_watched: reserve and submit once; a refusal leaves the edit to the  *)
(* next poll (not_attempted).                                                 *)
WatchReserve ==
    /\ up /\ fg.pc = "watch"
    /\ BrokerPrepare(Reload)
    /\ fg' = IF PrepareStatus(Reload) = "Prepared"
             THEN [fg EXCEPT !.pc = "watchSubmit", !.ticket = Issued]
             ELSE [fg EXCEPT !.pc = "pump"]
    /\ UNCHANGED <<up, lease, conn, cli, job, disables, receipts, watch>>

WatchKeepsBusy == {"Queued", "Busy"}

WatchKeeps == {"Queued"}

WatchSubmit ==
    /\ up /\ fg.pc = "watchSubmit"
    /\ BrokerSubmit(fg.ticket)
    /\ watch' = IF SubmitStatus(fg.ticket) \in WatchKeeps
                THEN [edit |-> "submitted", receipt |-> fg.ticket] ELSE watch
    /\ Goto("pump")
    /\ UNCHANGED <<up, lease, conn, cli, job, disables, receipts>>

(* The runtime ends: stop the mailbox, then drop the server and the lease.    *)
StopHost ==
    /\ up /\ fg.pc \in {"start", "pump"}
    /\ Stop
    /\ Goto("stopped")
    /\ UNCHANGED <<up, lease, conn, cli, job, disables, receipts, watch>>

HostGone ==
    /\ up' = FALSE
    /\ lease' = None
    /\ conn' = None
    /\ fg' = [fg EXCEPT !.pc = "gone", !.todo = {}, !.ticket = None]
    /\ job' = None
    /\ disables' = [p \in Plugin |-> "none"]
    /\ receipts' = [p \in Plugin |-> None]
    /\ watch' = [edit |-> "none", receipt |-> None]
    /\ UNCHANGED <<bvars, cli>>

ExitHost == up /\ fg.pc = "stopped" /\ HostGone

Crash == up /\ incarnation < Incarnations /\ HostGone

StartHost ==
    /\ ~up /\ LeaseFree
    /\ Restart
    /\ up' = TRUE /\ lease' = "Host"
    /\ fg' = [fg EXCEPT !.pc = "start"]
    /\ UNCHANGED <<conn, cli, job, disables, receipts, watch>>

-----------------------------------------------------------------------------
Client(c) ==
    \/ OpenClient(c) \/ Receive(c) \/ QueryTimeout(c) \/ QueryBroken(c)
    \/ PollDeadline(c) \/ OfflineLease(c) \/ OfflineRefused(c) \/ OfflineEdit(c)

Foreground ==
    \/ StartReady \/ PumpBindings
    \/ \E p \in Plugin : DisableReserve(p) \/ DisableSubmit(p)
    \/ PollEnds \/ PollContinues \/ TakeJob \/ DispatchEnds \/ DispatchRetains
    \/ Idle \/ UpdateInstalls \/ WatchReserve \/ WatchSubmit

PlaneNext ==
    \/ \E c \in Cli : Client(c)
    \/ Serve \/ ServeFails
    \/ Foreground
    \/ StartSafeMode \/ StopHost \/ ExitHost \/ Crash \/ StartHost

PlaneSafety == PlaneInit /\ [][PlaneNext]_vars

-----------------------------------------------------------------------------
(* The types of the plane's variables.                                        *)
PlaneTypeOK ==
    /\ TypeOK
    /\ up \in BOOLEAN
    /\ lease \in Cli \cup {"Host", None}
    /\ job \in Ticket \cup {None}
    /\ receipts \in [Plugin -> Ticket \cup {None}]
    /\ watch \in [edit : {"none", "seen", "submitted"}, receipt : Ticket \cup {None}]
    /\ \A c \in Cli : cli[c].ticket \in Ticket \cup {None}

(* "not_submitted" is the truth for ever: a receipt whose submission a client *)
(* was told was refused is never accepted, although frames are delivered late *)
(* and Hosts are replaced (plugin_cli.rs NotSubmitted).                       *)
NotSubmittedIsTrue ==
    \A c \in Cli : cli[c].outcome = "not_submitted" => cli[c].ticket \notin accepted

(* A client that reports a result reports one of its own receipt, which ran   *)
(* exactly once; everything less certain is "uncertain".                      *)
ResultIsTrue ==
    \A c \in Cli : cli[c].outcome \in {"ok", "failed"} =>
        cli[c].ticket \in finished /\ runs[cli[c].ticket] = 1

(* Whatever a client prints is true, however late frames are delivered and    *)
(* however often the Host is replaced; what is uncertain is called so.        *)
ReportsAreTrue == NotSubmittedIsTrue /\ ResultIsTrue

(* One lifecycle operation at a time: a running receipt of the live Host is   *)
(* the one the foreground executes.                                           *)
OneJob == up => \A id \in Running : job = <<incarnation, id>>

(* The watcher waits for its receipt to be dispatched before it selects       *)
(* again, so that receipt must still be on its way, or watching would stall.  *)
WatchReceiptQueued ==
    (up /\ ~stopped /\ watch.receipt # None) =>
        \E i \in 1 .. Len(queue) : watch.receipt = <<incarnation, queue[i]>>

(* The foreground agrees with the mailbox about what runs, whatever is queued *)
(* behind it (LabManagement::pump).                                           *)
PlaneConsistent == PlaneTypeOK /\ OneJob

(* An offline edit of the registry never meets a live Host, although the      *)
(* client found no endpoint before it asked for the lease.                    *)
OfflineEditAlone ==
    \A c \in Cli : cli[c].pc = "editing" =>
        ~up /\ \A d \in Cli \ {c} : cli[d].pc # "editing"

-----------------------------------------------------------------------------
(* Fairness.  The foreground and the pipe worker are threads that run; every  *)
(* query and the polling loop have a deadline; lifecycle operations and       *)
(* update installations have deadlines of their own, so both end.             *)
Fairness ==
    /\ WF_vars(Foreground) /\ WF_vars(Serve \/ ServeFails) /\ WF_vars(ExitHost)
    /\ SF_vars(PollEnds) /\ SF_vars(TakeJob)
    /\ \A c \in Cli : WF_vars(Client(c)) /\ SF_vars(PollDeadline(c))

PlaneSpec == PlaneSafety /\ Fairness

HostEnds == ~up \/ stopped

(* Every accepted job gets a result, unless its Host ends first.              *)
AcceptedSettles ==
    \A t \in Ticket :
        (t \in accepted /\ t[1] = incarnation) ~> (t \in finished \/ HostEnds)

(* Every command-line call ends.                                              *)
CliEnds == \A c \in Cli : <>(cli[c].pc = "done")

(* An authorized self-disable is not lost when the mailbox is full or its     *)
(* receipt expires: it is retried until it is queued, unless the Host ends or *)
(* the ticket sequence is exhausted.                                          *)
DisableLands ==
    \A p \in Plugin :
        disables[p] = "pending" ~>
            (disables[p] = "acknowledged" \/ HostEnds \/ last_ticket = MAX_TICKET)

(* What was accepted, called or revoked is settled, whatever is queued, lost  *)
(* or restarted meanwhile (ControlBroker, run_control_command, pump_tick).    *)
CommandsSettle == AcceptedSettles /\ CliEnds /\ DisableLands

(* However the clients, the pipe, the foreground and the end of the Host      *)
(* interleave: reports are true, an offline edit is alone, the receipt of the *)
(* watcher is on its way, and the foreground agrees with the mailbox.         *)
PlaneSound == ReportsAreTrue /\ OfflineEditAlone /\ WatchReceiptQueued /\ PlaneConsistent

(* The clients of a run are interchangeable.                                  *)
ClientSymmetry == Permutations(Cli)
=============================================================================
