----------------------------- MODULE TrafficHub -----------------------------
(***************************************************************************)
(* The traffic authority of Core (core_services/traffic.rs, traffic/).     *)
(* Hosts register interceptors, open sources and channels through the Core *)
(* services; the engine runs one exchange per intercepted request on the   *)
(* single thread of the traffic runtime and asks the authority, through an *)
(* in-process peer with an ordered inbox, for one lease per interceptor    *)
(* before it relays a callback to the Host.  Core's own threads retire     *)
(* owners and stop the engine between any two critical sections of the     *)
(* authority's lock; `busy' names the section the runtime thread is in.    *)
(*                                                                         *)
(* A key names a registration or a channel; <<x, k>> is the lease exchange *)
(* x holds from the owner of k.  A loss of trust and a replaced generation *)
(* are both the end of an owner's authority: `core.phase'.  Frames, URLs,  *)
(* headers and bodies are left out; deadlines are choices.                 *)
(***************************************************************************)
EXTENDS Naturals, FiniteSetsExt, SequencesExt

CONSTANTS Owners,       \* plugin generations that use traffic
          Exchanges,    \* intercepted requests and channel requests
          MaxKeys,      \* bound: registrations and channels ever made
          MaxOps,       \* bound: operations begun and closings asked for
          MAX_LEASES    \* traffic.rs:23

VARIABLES hub,      \* State of the authority, with the engine's inbox
          engine,   \* the native engine: its channels and its end
          ex,       \* the exchanges
          core,     \* the Core services: authority of owners, operations
          busy      \* the critical section the runtime thread is in

hubVars == <<hub, engine, ex, core, busy>>

Nobody == "nobody"
Keys == 1 .. MaxKeys
Lease == Exchanges \X Keys
Resting == [at |-> "idle"]

Exchange == [pc |-> "none", todo |-> {}, key |-> 0, half |-> "request",
             held |-> {}, letting |-> {}, retire |-> "no", stop |-> FALSE,
             got |-> "none", src |-> Nobody, out |-> "free"]

NewHub == [tickets |-> {}, peers |-> [o \in Owners |-> "none"], gw |-> FALSE,
           regs |-> {}, on |-> {}, of |-> [k \in Keys |-> Nobody], made |-> 0,
           srcs |-> {}, leases |-> {}, pend |-> {}, inbox |-> <<>>,
           queued |-> FALSE, applied |-> TRUE]

NoEngine == [st |-> "none", chans |-> {}, ended |-> {}]

HubInit ==
    /\ hub = NewHub /\ engine = NoEngine
    /\ ex = [x \in Exchanges |-> Exchange]
    /\ core = [phase |-> [o \in Owners |-> "live"], op |-> [o \in Owners |-> "none"],
               made |-> [o \in Owners |-> 0], ops |-> 0]
    /\ busy = Resting

-----------------------------------------------------------------------------
(* The authority's lock: operators from one state of it to the next.       *)

traffic_check(o) == core.phase[o] = "live"

send(h, m) == IF h.gw THEN [h EXCEPT !.inbox = Append(@, m)] ELSE h

\* Every waiting call of the lease fails first, then its end is announced.
release(h, l) ==
    IF l \notin h.leases THEN h
    ELSE LET failed == IF l \in h.pend THEN send(h, [m |-> "failed", l |-> l]) ELSE h
         IN  send([failed EXCEPT !.leases = @ \ {l}, !.pend = @ \ {l}],
                  [m |-> "leaseClosed", l |-> l])

release_all(h, S) == FoldSet(LAMBDA l, acc : release(acc, l), h, S)

LeasesOf(h, ks) == {l \in h.leases : l[2] \in ks}

\* One notification is under way at a time; the gateway clears the mark.
changed(h) ==
    LET h1 == [h EXCEPT !.applied = FALSE]
    IN  IF h.queued THEN h1 ELSE send([h1 EXCEPT !.queued = TRUE], [m |-> "changed"])

remove_registration(h, ks) ==
    release_all([h EXCEPT !.regs = @ \ ks], LeasesOf(h, ks))

RegistrationsOf(o) == {k \in hub.regs : hub.of[k] = o}

ChannelsOf(o) == {k \in engine.chans : hub.of[k] = o}

retire(o) ==
    LET h == remove_registration([hub EXCEPT !.srcs = @ \ {o}], RegistrationsOf(o))
    IN  changed([h EXCEPT !.tickets = @ \ {o},
                          !.peers[o] = IF @ = "up" THEN "stop" ELSE @])

disconnected(o) ==
    changed(remove_registration([hub EXCEPT !.peers[o] = "none", !.srcs = @ \ {o}],
                                RegistrationsOf(o)))

\* Exchange::retire up to the swap of `finished': the rest is Take and LetGo.
Swap(e) == IF e.retire # "no" THEN e
           ELSE [e EXCEPT !.retire = "swapped", !.stop = TRUE]

\* Closed sources cancel the exchanges that entered through them.
Cancels(es, h) ==
    [x \in Exchanges |->
        IF es[x].pc # "none" /\ es[x].src # Nobody /\ es[x].src \notin h.srcs
        THEN [es[x] EXCEPT !.stop = TRUE] ELSE es[x]]

\* The active exchanges of closed channels retire at once; one that is not
\* registered with its channel yet only sees its token cancelled.
ChannelsClose(es, ks) ==
    [x \in Exchanges |->
        CASE es[x].half # "channel" \/ es[x].key \notin ks -> es[x]
          [] es[x].pc \in {"entered", "leased"} -> [es[x] EXCEPT !.stop = TRUE]
          [] OTHER -> Swap(es[x])]

Hub(h) == hub' = h /\ ex' = Cancels(ex, h)

-----------------------------------------------------------------------------
(* Core threads: the engine's life, and the end of an owner.               *)

\* The gateway peer enters the authority; the state so far counts as applied.
GatewayEnters == [hub EXCEPT !.gw = TRUE, !.applied = TRUE]

start_native ==
    /\ engine.st = "none"
    /\ engine' = [engine EXCEPT !.st = "up"]
    /\ hub' = GatewayEnters
    /\ UNCHANGED <<ex, core, busy>>

\* Calls in flight are dropped, and so every waiting exchange fails.
Stopped(e) ==
    IF e.pc = "none" THEN e
    ELSE Swap([e EXCEPT !.got = IF @ = "none" /\ e.pc \in {"opening", "called"} THEN "err" ELSE @])

stop_native ==
    /\ engine.st = "up"
    /\ engine' = [engine EXCEPT !.st = "stopped", !.ended = engine.chans]
    /\ hub' = changed(hub)
    /\ ex' = [x \in Exchanges |-> Stopped(ex[x])]
    /\ UNCHANGED <<core, busy>>

\* The reader of the inbox ends: the gateway peer leaves the authority.
GatewayEnds ==
    /\ engine.st = "stopped" /\ hub.gw /\ busy = Resting
    /\ Hub(changed(remove_registration([hub EXCEPT !.gw = FALSE, !.srcs = {}, !.inbox = <<>>],
                                       hub.regs)))
    /\ UNCHANGED <<engine, core, busy>>

\* Trust was lost, or a later generation was registered.
Ends(o) ==
    /\ core.phase[o] = "live"
    /\ core' = [core EXCEPT !.phase[o] = "ended"]
    /\ UNCHANGED <<hub, engine, ex, busy>>

retire_resources(o) ==
    /\ core.phase[o] = "ended"
    /\ core' = [core EXCEPT !.phase[o] = "hubbed"]
    /\ Hub(retire(o))
    /\ UNCHANGED <<engine, busy>>

\* engine.retire_owner, after the authority's lock is released.
retire_owner(o) ==
    /\ engine' = [engine EXCEPT !.chans = @ \ ChannelsOf(o), !.ended = @ \cup ChannelsOf(o)]
    /\ ex' = ChannelsClose(ex, ChannelsOf(o))

RetiresChannels(o) ==
    /\ core.phase[o] = "hubbed"
    /\ core' = [core EXCEPT !.phase[o] = "retired"]
    /\ retire_owner(o)
    /\ UNCHANGED <<hub, busy>>

-----------------------------------------------------------------------------
(* Core threads: the operations of an owner, checked before and after.     *)

Methods == {"connect", "register", "openSource", "openChannel"}

\* Without its entrance an operation is refused and leaves no trace.
Begins(o, m) ==
    /\ engine.st = "none" \/ hub.gw
    /\ traffic_check(o) /\ core.op[o] = "none" /\ core.ops < MaxOps
    /\ core' = [core EXCEPT !.op[o] = m, !.ops = @ + 1]
    /\ UNCHANGED <<hub, engine, ex, busy>>

NewKey(h, o) == [h EXCEPT !.made = @ + 1, !.of[h.made + 1] = o]

Made(o) == core' = [core EXCEPT !.op[o] = "settle", !.made[o] = hub.made + 1]

endpoint(o) ==
    /\ core.op[o] = "connect" /\ engine.st = "up"
    /\ hub' = [hub EXCEPT !.tickets = @ \cup {o}]
    /\ core' = [core EXCEPT !.op[o] = "connected"]
    /\ UNCHANGED <<engine, ex, busy>>

register(o) ==
    /\ core.op[o] = "register" /\ hub.gw /\ hub.made < MaxKeys
    /\ hub' = [NewKey(hub, o) EXCEPT !.regs = @ \cup {hub.made + 1}]
    /\ Made(o)
    /\ UNCHANGED <<engine, ex, busy>>

openSource(o) ==
    /\ core.op[o] = "openSource" /\ hub.gw /\ o \notin hub.srcs
    /\ hub' = changed([hub EXCEPT !.srcs = @ \cup {o}])
    /\ core' = [core EXCEPT !.op[o] = "opened"]
    /\ UNCHANGED <<engine, ex, busy>>

open_channel(o) ==
    /\ core.op[o] = "openChannel" /\ engine.st = "up" /\ hub.made < MaxKeys
    /\ hub' = NewKey(hub, o)
    /\ engine' = [engine EXCEPT !.chans = @ \cup {hub.made + 1}]
    /\ Made(o)
    /\ UNCHANGED <<ex, busy>>

\* The engine is gone or not ready, a limit is reached, or a duplicate exists.
Refuses(o) ==
    /\ \/ core.op[o] \in {"connect", "openChannel"} /\ engine.st # "up"
       \/ core.op[o] = "register" /\ ~hub.gw
       \/ core.op[o] = "openSource" /\ (~hub.gw \/ o \in hub.srcs)
       \/ core.op[o] \in {"register", "openChannel"} /\ hub.made = MaxKeys
    /\ core' = [core EXCEPT !.op[o] = "none"]
    /\ UNCHANGED <<hub, engine, ex, busy>>

Settles(o) ==
    /\ core.op[o] \in {"settle", "connected", "opened"} /\ traffic_check(o)
    /\ core' = [core EXCEPT !.op[o] = "none", !.made[o] = 0]
    /\ UNCHANGED <<hub, engine, ex, busy>>

\* The caller's authority ended meanwhile: take back what was created.
rollback_resource(o) ==
    LET ks == {core.made[o]} IN
    /\ core.op[o] \in {"settle", "connected", "opened"} /\ ~traffic_check(o)
    /\ core' = [core EXCEPT !.op[o] = "none", !.made[o] = 0]
    /\ CASE core.op[o] = "connected" -> /\ hub' = [hub EXCEPT !.tickets = @ \ {o}]
                                        /\ UNCHANGED <<engine, ex>>
         [] core.op[o] = "opened" -> Hub(changed([hub EXCEPT !.srcs = @ \ {o}])) /\ UNCHANGED engine
         [] ks \subseteq hub.regs -> Hub(changed(remove_registration(hub, ks))) /\ UNCHANGED engine
         [] ks \subseteq engine.chans /\ engine.st = "up" ->
                /\ engine' = [engine EXCEPT !.chans = @ \ ks, !.ended = @ \cup ks]
                /\ ex' = ChannelsClose(ex, ks)
                /\ UNCHANGED hub
         [] OTHER -> Hub(changed(hub)) /\ UNCHANGED engine
    /\ UNCHANGED busy

\* unregister, closeSource and closeChannel, asked by the Host.
Closes(o) ==
    /\ traffic_check(o) /\ core.op[o] = "none" /\ core.ops < MaxOps
    /\ core' = [core EXCEPT !.ops = @ + 1]
    /\ \/ /\ RegistrationsOf(o) # {}
          /\ Hub(changed(remove_registration(hub, RegistrationsOf(o)))) /\ UNCHANGED engine
       \/ o \in hub.srcs /\ Hub(changed([hub EXCEPT !.srcs = @ \ {o}])) /\ UNCHANGED engine
       \/ ChannelsOf(o) # {} /\ engine.st = "up" /\ retire_owner(o) /\ UNCHANGED hub
    /\ UNCHANGED busy

-----------------------------------------------------------------------------
(* The runtime thread: peers of the Hosts.                                 *)

\* The Host learns its ticket from the reply of the operation; the ticket is
\* used up even when the Host has a peer already.
connection(o) ==
    /\ busy = Resting /\ o \in hub.tickets /\ core.op[o] # "connected"
    /\ hub' = [hub EXCEPT !.tickets = @ \ {o}, !.peers[o] = IF @ = "none" THEN "up" ELSE @]
    /\ UNCHANGED <<engine, ex, core, busy>>

Disconnects(o) ==
    /\ busy = Resting /\ hub.peers[o] # "none"
    /\ Hub(disconnected(o))
    /\ busy' = [at |-> "closing", o |-> o]
    /\ UNCHANGED <<engine, core>>

DisconnectCloses ==
    /\ busy.at = "closing"
    /\ retire_owner(busy.o) /\ busy' = Resting
    /\ UNCHANGED <<hub, core>>

\* activate and setEnabled of a key the Host knows: the grant is checked outside the lock, and the
\* registration looked up again inside it.
activate(o) ==
    \E k \in RegistrationsOf(o) \ {core.made[o]} :
        /\ busy = Resting /\ hub.peers[o] # "none" /\ traffic_check(o)
        /\ busy' = [at |-> "activate", k |-> k]
        /\ UNCHANGED <<hub, engine, ex, core>>

Activates ==
    /\ busy.at = "activate" /\ busy' = Resting
    /\ IF busy.k \notin hub.regs \/ ~hub.gw THEN UNCHANGED <<hub, ex>>
       ELSE \/ Hub(changed([hub EXCEPT !.on = @ \cup {busy.k}]))
            \/ /\ busy.k \in hub.on
               /\ Hub(changed(release_all([hub EXCEPT !.on = @ \ {busy.k}],
                                          LeasesOf(hub, {busy.k}))))
    /\ UNCHANGED <<engine, core>>

\* The Host's answer to a callback.  The grant may have changed while the
\* plugin ran: it is checked again, and the call looked up again after it.
reply(l) ==
    /\ busy = Resting /\ l \in hub.pend /\ hub.peers[hub.of[l[2]]] # "none"
    /\ IF traffic_check(hub.of[l[2]])
       THEN busy' = [at |-> "reply", l |-> l] /\ UNCHANGED <<hub, ex>>
       ELSE Hub(release(hub, l)) /\ UNCHANGED busy
    /\ UNCHANGED <<engine, core>>

Answer(l) == send([hub EXCEPT !.pend = @ \ {l}], [m |-> "result", l |-> l])

AnswerLate(l) ==
    release(send([hub EXCEPT !.pend = @ \ {l}], [m |-> "failed", l |-> l]), l)

\* Mutant of ReplyCommits: the call is not looked up again after the check.
ReplyCommitsBlind ==
    /\ busy.at = "reply" /\ busy' = Resting
    /\ Hub(Answer(busy.l))
    /\ UNCHANGED <<engine, core>>

ReplyCommits ==
    /\ busy.at = "reply" /\ busy' = Resting
    /\ IF busy.l \notin hub.pend THEN UNCHANGED <<hub, ex>>
       ELSE Hub(Answer(busy.l)) \/ Hub(AnswerLate(busy.l))
    /\ UNCHANGED <<engine, core>>

\* The timer: leases of registrations and calls end; channel leases do not.
expire(l) ==
    /\ busy = Resting
    /\ \/ l \in hub.leases /\ ex[l[1]].half # "channel" /\ Hub(release(hub, l))
       \/ l \in hub.pend /\ Hub(AnswerLate(l))
    /\ UNCHANGED <<engine, core, busy>>

-----------------------------------------------------------------------------
(* The runtime thread: one exchange, from its arrival to its retirement.   *)

To(x, e) == ex' = [ex EXCEPT ![x] = e]

Fail(x) == [Swap(ex[x]) EXCEPT !.pc = "end"]

\* Read from the authority for each exchange; any order of priorities.
selected == hub.regs \cap hub.on

Arrives(x, s) ==
    /\ busy = Resting /\ engine.st = "up" /\ ex[x].pc = "none"
    /\ s \in {Nobody} \cup {o \in hub.srcs : traffic_check(o) /\ core.op[o] # "opened"}
    /\ To(x, [ex[x] EXCEPT !.pc = "pick", !.src = s, !.todo = selected])
    /\ UNCHANGED <<hub, engine, core, busy>>

\* The sections below run without an await between them.
channel_incoming(x, k) ==
    /\ busy = Resting /\ engine.st = "up" /\ ex[x].pc = "none"
    /\ k \in engine.chans \ engine.ended /\ traffic_check(hub.of[k]) /\ k # core.made[hub.of[k]]
    /\ To(x, [ex[x] EXCEPT !.pc = "entered", !.half = "channel", !.key = k])
    /\ busy' = [at |-> "channel", x |-> x]
    /\ UNCHANGED <<hub, engine, core>>

ChannelLeases ==
    /\ busy.at = "channel" /\ ex[busy.x].pc = "entered"
    /\ hub' = [hub EXCEPT !.leases = @ \cup {<<busy.x, ex[busy.x].key>>}]
    /\ To(busy.x, [ex[busy.x] EXCEPT !.pc = "leased"])
    /\ UNCHANGED <<engine, core, busy>>

ChannelHolds ==
    /\ busy.at = "channel" /\ ex[busy.x].pc = "leased"
    /\ To(busy.x, [ex[busy.x] EXCEPT !.pc = "call", !.held = {ex[busy.x].key}])
    /\ busy' = Resting
    /\ UNCHANGED <<hub, engine, core>>

\* intercept_http: the next interceptor, if the exchange may still use it.
access(x) ==
    /\ busy = Resting /\ ex[x].pc = "pick"
    /\ \E k \in ex[x].todo :
         IF ex[x].stop \/ k \notin hub.on \/ ~traffic_check(hub.of[k]) THEN To(x, Fail(x))
         ELSE To(x, [ex[x] EXCEPT !.key = k, !.pc = IF k \in ex[x].held THEN "call" ELSE "lease"])
    /\ UNCHANGED <<hub, engine, core, busy>>

Forwards(x) ==
    /\ busy = Resting /\ ex[x].pc = "pick" /\ ex[x].todo = {}
    /\ \/ To(x, Fail(x))
       \/ /\ ex[x].half = "request" /\ ~ex[x].stop
          /\ To(x, [ex[x] EXCEPT !.half = "response", !.todo = ex[x].held])
    /\ UNCHANGED <<hub, engine, core, busy>>

open(x) ==
    LET k == ex[x].key IN
    /\ busy = Resting /\ ex[x].pc = "lease"
    /\ IF ~ex[x].stop /\ engine.st = "up" /\ k \in hub.regs \cap hub.on /\ traffic_check(hub.of[k])
       THEN busy' = [at |-> "open", x |-> x] /\ UNCHANGED ex
       ELSE To(x, Fail(x)) /\ UNCHANGED busy
    /\ UNCHANGED <<hub, engine, core>>

\* Mutant of MayOpen: the registration checked before the lock is trusted.
MayOpenUnchecked(k) ==
    /\ hub.peers[hub.of[k]] # "none"
    /\ Cardinality({l \in hub.leases : ex[l[1]].half # "channel"}) < MAX_LEASES

MayOpen(k) ==
    /\ k \in hub.regs
    /\ hub.peers[hub.of[k]] # "none"
    /\ Cardinality({l \in hub.leases : ex[l[1]].half # "channel"}) < MAX_LEASES

OpenInserts ==
    /\ busy.at = "open"
    /\ IF MayOpen(ex[busy.x].key)
       THEN /\ hub' = [hub EXCEPT !.leases = @ \cup {<<busy.x, ex[busy.x].key>>}]
            /\ busy' = [busy EXCEPT !.at = "opened"] /\ UNCHANGED ex
       ELSE To(busy.x, Fail(busy.x)) /\ busy' = Resting /\ UNCHANGED hub
    /\ UNCHANGED <<engine, core>>

\* The lock was released before the answer is queued.
OpenReplies ==
    /\ busy.at = "opened" /\ busy' = Resting
    /\ hub' = send(hub, [m |-> "opened", l |-> <<busy.x, ex[busy.x].key>>])
    /\ To(busy.x, [ex[busy.x] EXCEPT !.pc = "opening",
                                     !.got = IF engine.st = "up" THEN "none" ELSE "err"])
    /\ UNCHANGED <<engine, core>>

Opened(x) ==
    /\ busy = Resting /\ ex[x].pc = "opening" /\ ex[x].got # "none"
    /\ To(x, IF ex[x].got = "ok" /\ ~ex[x].stop THEN [ex[x] EXCEPT !.pc = "call"] ELSE Fail(x))
    /\ UNCHANGED <<hub, engine, core, busy>>

\* A cancelled or expired open takes back a lease whose answer it never saw.
cancelOpen(x) ==
    /\ busy = Resting /\ ex[x].pc = "opening" /\ ex[x].got = "none"
    /\ hub' = release(hub, <<x, ex[x].key>>)
    /\ To(x, Fail(x))
    /\ UNCHANGED <<engine, core, busy>>

relay(x) ==
    LET l == <<x, ex[x].key>>
        dead == ex[x].stop \/ engine.st # "up" \/ l \notin hub.leases IN
    /\ busy = Resting /\ ex[x].pc = "call"
    /\ \/ dead /\ To(x, Fail(x)) /\ UNCHANGED <<hub, busy>>
       \/ ~dead /\ ~traffic_check(hub.of[l[2]]) /\ hub' = release(hub, l) /\ To(x, Fail(x)) /\ UNCHANGED busy
       \/ ~dead /\ traffic_check(hub.of[l[2]]) /\ busy' = [at |-> "relay", x |-> x] /\ UNCHANGED <<hub, ex>>
    /\ UNCHANGED <<engine, core>>

RelaySends ==
    LET l == <<busy.x, ex[busy.x].key>> IN
    /\ busy.at = "relay" /\ busy' = Resting
    /\ IF l \in hub.leases /\ hub.peers[hub.of[l[2]]] # "none"
       THEN /\ hub' = [hub EXCEPT !.pend = @ \cup {l}]
            /\ To(busy.x, [ex[busy.x] EXCEPT !.pc = "called",
                                             !.got = IF engine.st = "up" THEN "none" ELSE "err"])
       ELSE To(busy.x, Fail(busy.x)) /\ UNCHANGED hub
    /\ UNCHANGED <<engine, core>>

\* A channel's exchange ends with its callback; others take the next one.
callback(x) ==
    /\ busy = Resting /\ ex[x].pc = "called"
    /\ \/ ex[x].got \in {"none", "err"} /\ To(x, Fail(x))
       \/ /\ ex[x].got = "ok"
          /\ To(x, IF ex[x].stop \/ ex[x].half = "channel" THEN Fail(x)
                   ELSE [ex[x] EXCEPT !.pc = "pick", !.todo = @ \ {ex[x].key}])
    /\ UNCHANGED <<hub, engine, core, busy>>

\* channel.forward of the Host inside its callback, one at a time and within
\* the budget of one attempt; channel.cancel retires the exchange.
channel_operation(x) ==
    /\ busy = Resting /\ ex[x].half = "channel" /\ ex[x].key \in ex[x].held /\ ~ex[x].stop
    /\ hub.peers[hub.of[ex[x].key]] # "none"
    /\ \/ ex[x].out = "free" /\ To(x, [ex[x] EXCEPT !.out = "preparing"])
       \/ To(x, Swap(ex[x]))
    /\ UNCHANGED <<hub, engine, core, busy>>

ForwardEnds(x) ==
    /\ busy = Resting /\ ex[x].out = "preparing"
    /\ To(x, [ex[x] EXCEPT !.out = "spent"])
    /\ UNCHANGED <<hub, engine, core, busy>>

-----------------------------------------------------------------------------
(* The engine's inbox, and the retirement of exchanges.                    *)

Retired(e) == e.retire # "no" \/ e.stop

\* prepare: the answer of an open finds its exchange waiting, retired or gone.
Opens(l) ==
    LET e == ex[l[1]]
        waits == e.pc = "opening" /\ e.key = l[2] /\ e.got = "none"
        h == IF waits /\ Retired(e) THEN release(hub, l) ELSE hub
    IN  /\ hub' = [h EXCEPT !.inbox = Tail(@)]
        /\ To(l[1], CASE ~waits -> e
                      [] waits /\ Retired(e) -> [e EXCEPT !.got = "err"]
                      [] OTHER -> [e EXCEPT !.held = @ \cup {l[2]}, !.got = "ok"])
        /\ UNCHANGED engine

Lands(l, answer) ==
    LET e == ex[l[1]] IN
    /\ hub' = [hub EXCEPT !.inbox = Tail(@)]
    /\ To(l[1], IF e.pc = "called" /\ e.key = l[2] /\ e.got = "none"
                THEN [e EXCEPT !.got = answer] ELSE e)
    /\ UNCHANGED engine

LeaseClosed(l) ==
    /\ hub' = [hub EXCEPT !.inbox = Tail(@)]
    /\ To(l[1], IF l[2] \in ex[l[1]].held THEN Swap(ex[l[1]]) ELSE ex[l[1]])
    /\ UNCHANGED engine

\* Channels and sources whose owner lost its authority end now.
retire_removed_owners ==
    LET ks == {k \in engine.chans : ~traffic_check(hub.of[k])}
        closed == ChannelsClose(ex, ks)
    IN  /\ engine' = [engine EXCEPT !.chans = @ \ ks, !.ended = @ \cup ks]
        /\ ex' = [x \in Exchanges |->
                    IF closed[x].src # Nobody /\ ~traffic_check(closed[x].src)
                    THEN [closed[x] EXCEPT !.stop = TRUE] ELSE closed[x]]

Applies ==
    /\ hub' = [hub EXCEPT !.inbox = Tail(@), !.queued = FALSE, !.applied = TRUE]
    /\ retire_removed_owners

\* One frame of the inbox, in order.
receive ==
    /\ busy = Resting /\ hub.gw /\ hub.inbox # <<>>
    /\ LET f == Head(hub.inbox) IN
       \/ f.m = "opened" /\ Opens(f.l)
       \/ f.m = "result" /\ Lands(f.l, "ok")
       \/ f.m = "failed" /\ Lands(f.l, "err")
       \/ f.m = "leaseClosed" /\ LeaseClosed(f.l)
       \/ f.m = "changed" /\ Applies
    /\ UNCHANGED <<core, busy>>

\* The task every exchange spawns to watch its own token.
Watcher(x) ==
    /\ busy = Resting /\ ex[x].pc # "none" /\ ex[x].stop /\ ex[x].retire = "no"
    /\ To(x, Swap(ex[x]))
    /\ UNCHANGED <<hub, engine, core, busy>>

\* Exchange::retire after the swap, on whichever thread called it.
Take(x) ==
    /\ ex[x].retire = "swapped"
    /\ To(x, [ex[x] EXCEPT !.retire = "taken", !.letting = ex[x].held, !.held = {}])
    /\ UNCHANGED <<hub, engine, core, busy>>

LetGo(x) ==
    \E k \in ex[x].letting :
        /\ hub' = release(hub, <<x, k>>)
        /\ To(x, [ex[x] EXCEPT !.letting = @ \ {k}])
        /\ UNCHANGED <<engine, core, busy>>

-----------------------------------------------------------------------------
HubNext ==
    \/ start_native \/ stop_native \/ GatewayEnds
    \/ \E o \in Owners :
         \/ Ends(o) \/ retire_resources(o) \/ RetiresChannels(o)
         \/ (\E m \in Methods : Begins(o, m)) \/ Refuses(o)
         \/ endpoint(o) \/ register(o) \/ openSource(o) \/ open_channel(o)
         \/ Settles(o) \/ rollback_resource(o) \/ Closes(o)
         \/ connection(o) \/ Disconnects(o) \/ activate(o)
    \/ DisconnectCloses \/ Activates \/ ReplyCommits
    \/ \E l \in Lease : reply(l) \/ expire(l)
    \/ \E x \in Exchanges :
         \/ (\E s \in Owners \cup {Nobody} : Arrives(x, s)) \/ (\E k \in Keys : channel_incoming(x, k))
         \/ access(x) \/ Forwards(x) \/ open(x) \/ Opened(x) \/ cancelOpen(x)
         \/ relay(x) \/ callback(x) \/ channel_operation(x) \/ ForwardEnds(x)
         \/ Watcher(x) \/ Take(x) \/ LetGo(x)
    \/ ChannelLeases \/ ChannelHolds \/ OpenInserts \/ OpenReplies \/ RelaySends
    \/ receive

HubSpec == HubInit /\ [][HubNext]_hubVars

-----------------------------------------------------------------------------
\* While the engine runs, a lease of the authority belongs to an exchange
\* that will give it back, or to an open whose answer is under way.
NoOrphan ==
    engine.st = "up" =>
        \A l \in hub.leases :
            LET e == ex[l[1]] IN
            \/ l[2] \in e.held /\ e.retire # "taken"
            \/ l[2] \in e.letting
            \/ busy.at \in {"opened", "channel"} /\ busy.x = l[1]
            \/ e.pc = "opening" /\ e.key = l[2] /\ e.got = "none"

\* Nothing of a retired owner stays in the authority once its operations
\* settled; a lease may outlive it only on an exchange already cancelled.
RetiredOwnersGone ==
    \A o \in Owners :
        core.phase[o] = "retired" /\ core.op[o] = "none" /\ engine.st = "up" =>
            /\ o \notin hub.tickets /\ o \notin hub.srcs /\ hub.peers[o] # "up"
            /\ RegistrationsOf(o) = {} /\ ChannelsOf(o) = {}
            /\ \A l \in hub.leases : hub.of[l[2]] = o => ex[l[1]].stop

\* An exchange that waits for a Host always has an answer coming.
AnswerComing ==
    \A x \in Exchanges :
        ex[x].pc = "called" /\ ex[x].got = "none" /\ engine.st = "up" =>
            \/ <<x, ex[x].key>> \in hub.pend
            \/ \E i \in DOMAIN hub.inbox :
                 hub.inbox[i] \in {[m |-> r, l |-> <<x, ex[x].key>>] : r \in {"result", "failed"}}

(***************************************************************************)
(* TrafficSound: the authority, the exchanges and the Core services agree  *)
(* whatever Core's threads do between two critical sections of the runtime *)
(* thread: no lease is orphaned, every waiting call belongs to a lease, no *)
(* exchange waits for ever, and a retired owner leaves nothing behind.     *)
(***************************************************************************)
TrafficSound ==
    /\ hub.pend \subseteq hub.leases
    /\ NoOrphan
    /\ RetiredOwnersGone
    /\ AnswerComing

\* docs/spec/traffic.md: an expired or retired lease sends no late result.
\* A result is queued for the engine only while its lease and its call live.
ResultsUnderLease ==
    [][\A l \in Lease :
          [m |-> "result", l |-> l] \in Range(hub'.inbox) \ Range(hub.inbox) =>
              l \in hub.leases /\ l \in hub.pend]_hubVars

\* docs/spec/traffic.md: "Ordered change notifications acknowledge activation
\* and source changes".  While a live owner has an open source and the engine
\* has not applied the latest change, the notification is on its way.
ChangesAcknowledged ==
    \A o \in hub.srcs :
        traffic_check(o) /\ core.op[o] = "none" /\ engine.st = "up" /\ ~hub.applied =>
            [m |-> "changed"] \in Range(hub.inbox)

=============================================================================
