------------------------------ MODULE CoreEvents -----------------------------
(* Bounded event logs (src/core_resources/events.rs behind the lock of        *)
(* src/core_resources.rs).  A topic keeps the last events its bounds allow;   *)
(* subscribers of its owner, or of another owner that uses the capability it  *)
(* exports, read from a position, acknowledge, and are told of what they can  *)
(* no longer have.  Events are their sequence numbers and sizes.              *)
EXTENDS Integers, FiniteSets, Sequences

CONSTANTS
    Owner,             \* plugin, source and generation
    Topic, Subscription,           \* random tokens, each given out once
    Capability,        \* Runtime capabilities a topic may be exported under
    Caller,            \* threads of the waiting reads
    None,
    MaxSequence,       \* where the sequence is exhausted
    Size,              \* sizes of events
    MAX_EVENTS, MAX_BYTES,         \* bounds of a topic
    MAX_PAGE,          \* events in an answer (64)
    MAX_TOPICS, OWNER_TOPICS,      \* 128 and 16
    MAX_SUBSCRIPTIONS, OWNER_SUBSCRIPTIONS     \* 256 and 32

ASSUME EventBounds ==
    /\ {MaxSequence, MAX_EVENTS, MAX_BYTES, MAX_PAGE, MAX_TOPICS, OWNER_TOPICS,
        MAX_SUBSCRIPTIONS, OWNER_SUBSCRIPTIONS} \subseteq Nat
    /\ Size \subseteq 1 .. MAX_BYTES /\ MAX_EVENTS > 0
    /\ None \notin Capability

VARIABLES
    closing, retired,  \* the service is shut down; owners that have retired
    topics,
    subscriptions,
    waiting,           \* reads in wait_timeout
    issued,            \* tokens given out
    told               \* per subscription, the events its reads answered for

evars == <<closing, retired, topics, subscriptions, waiting, issued, told>>

Sequence == 0 .. MaxSequence

TopicRecord == [owner : Owner, capability : Capability \cup {None}, sequence : Sequence,
                events : Seq(Size), bytes : 0 .. MAX_BYTES,
                closed : BOOLEAN, provider_retired : BOOLEAN]

Position == [owner : Owner, topic : Topic, acknowledged : Sequence, delivered : Sequence]

Wait == [owner : Owner, subscription : Subscription, limit : 1 .. MAX_PAGE,
         notified : BOOLEAN]

EventsInit ==
    /\ closing = FALSE /\ retired = {}
    /\ topics = [t \in Topic |-> None]
    /\ subscriptions = [s \in Subscription |-> None]
    /\ waiting = [c \in Caller |-> None]
    /\ issued = {}
    /\ told = [s \in Subscription |-> {}]

Admitted(o) == ~closing /\ o \notin retired

Topics == {t \in Topic : topics[t] # None}

Subscriptions == {s \in Subscription : subscriptions[s] # None}

(* What would be wrong: a change wakes nobody.                                *)
NobodyNotified == waiting

Notified == [c \in Caller |-> IF waiting[c] = None THEN None
                              ELSE [waiting[c] EXCEPT !.notified = TRUE]]

Bytes(events) ==
    LET Sum[i \in 0 .. Len(events)] == IF i = 0 THEN 0 ELSE Sum[i - 1] + events[i]
    IN  Sum[Len(events)]

-----------------------------------------------------------------------------
CreateTopic(o, capability) ==
    /\ Admitted(o)
    /\ Cardinality(Topics) < MAX_TOPICS
    /\ Cardinality({t \in Topics : topics[t].owner = o}) < OWNER_TOPICS
    /\ \E t \in Topic \ issued :
          /\ topics' = [topics EXCEPT
                ![t] = [owner |-> o, capability |-> capability, sequence |-> 0,
                        events |-> <<>>, bytes |-> 0,
                        closed |-> FALSE, provider_retired |-> FALSE]]
          /\ issued' = issued \cup {t}
    /\ waiting' = Notified
    /\ UNCHANGED <<closing, retired, subscriptions, told>>

(* What would be wrong: the count starts again whenever something is dropped. *)
RestartsBytes(topic, n) == IF n = 0 THEN topic.bytes ELSE 0

BytesWithout(topic, n) == topic.bytes - Bytes(SubSeq(topic.events, 1, n))

(* The oldest events leave until the new one fits both bounds.                *)
Fits(topic, n, size) ==
    /\ Len(topic.events) - n < MAX_EVENTS
    /\ topic.bytes - Bytes(SubSeq(topic.events, 1, n)) + size <= MAX_BYTES

Publish(o, t, size) ==
    /\ Admitted(o)
    /\ t \in Topics /\ topics[t].owner = o /\ ~topics[t].closed
    /\ topics[t].sequence < MaxSequence
    /\ \E n \in 0 .. Len(topics[t].events) :
          /\ Fits(topics[t], n, size) \/ n = Len(topics[t].events)
          /\ \A m \in 0 .. n - 1 : ~Fits(topics[t], m, size)
          /\ topics' = [topics EXCEPT
                ![t].sequence = @ + 1,
                ![t].events = Append(SubSeq(@, n + 1, Len(@)), size),
                ![t].bytes = BytesWithout(topics[t], n) + size]
    /\ waiting' = Notified
    /\ UNCHANGED <<closing, retired, subscriptions, issued, told>>

(* Another owner names the capability the topic is exported under.            *)
Exported(o, topic, capability) ==
    IF o = topic.owner THEN capability \in {None, topic.capability}
    ELSE topic.capability # None /\ capability = topic.capability

(* Omitted, the position is after the newest event.                           *)
Subscribe(o, t, capability, after) ==
    /\ Admitted(o) /\ t \in Topics /\ Admitted(topics[t].owner)
    /\ ~topics[t].provider_retired
    /\ Exported(o, topics[t], capability)
    /\ Cardinality(Subscriptions) < MAX_SUBSCRIPTIONS
    /\ Cardinality({s \in Subscriptions : subscriptions[s].owner = o}) < OWNER_SUBSCRIPTIONS
    /\ after <= topics[t].sequence
    /\ \E s \in Subscription \ issued :
          /\ subscriptions' = [subscriptions EXCEPT
                ![s] = [owner |-> o, topic |-> t, acknowledged |-> after, delivered |-> after]]
          /\ issued' = issued \cup {s}
          /\ told' = [told EXCEPT ![s] = 1 .. after]
    /\ waiting' = Notified
    /\ UNCHANGED <<closing, retired, topics>>

(* The first event a topic still has.                                         *)
FirstKept(topic) == topic.sequence - Len(topic.events) + 1

(* What would be wrong: a gap is seen only when nothing at all is left.       *)
GapIfEmpty(topic, after) == topic.events = <<>> /\ after < topic.sequence

Gap(topic, after) == after + 1 < FirstKept(topic)

Page(topic, after, limit) ==
    {n \in FirstKept(topic) .. topic.sequence : after < n /\
        Cardinality({m \in FirstKept(topic) .. n : after < m}) <= limit}

(* The cursor of an answer.                                                   *)
LastRead(topic, after, limit) ==
    IF topic.provider_retired THEN topic.sequence
    ELSE IF Page(topic, after, limit) = {} THEN after
    ELSE CHOOSE n \in Page(topic, after, limit) : \A m \in Page(topic, after, limit) : m <= n

TopicOf(s) == topics[subscriptions[s].topic]

(* What a read answers: events, a gap before them, or the end.                *)
Told(s, after, limit) ==
    Page(TopicOf(s), after, limit)
    \cup (IF Gap(TopicOf(s), after) THEN after + 1 .. FirstKept(TopicOf(s)) - 1 ELSE {})

Answered(s, after, limit) ==
    LET last == LastRead(TopicOf(s), after, limit)
    IN  /\ subscriptions' = [subscriptions EXCEPT
              ![s].delivered = IF last > @ THEN last ELSE @]
        /\ told' = [told EXCEPT ![s] = @ \cup Told(s, after, limit)]

Terminal(topic, after, limit) ==
    topic.provider_retired \/ (topic.closed /\ LastRead(topic, after, limit) >= topic.sequence)

EmptyRead(s, after, limit) ==
    Page(TopicOf(s), after, limit) = {} /\ ~Terminal(TopicOf(s), after, limit)

Reader(o, s) == s \in Subscriptions /\ subscriptions[s].owner = o

(* events.read from the acknowledged position or from a cursor the subscriber *)
(* was given; a cursor beyond those would be its own choice to skip.          *)
Read(o, s, after, limit) ==
    /\ Admitted(o) /\ Reader(o, s)
    /\ after <= subscriptions[s].delivered
    /\ Answered(s, after, limit)
    /\ waiting' = Notified
    /\ UNCHANGED <<closing, retired, topics, issued>>

WaitForEvents(c, o, s, limit) ==
    /\ Admitted(o) /\ Reader(o, s)
    /\ waiting[c] = None
    /\ EmptyRead(s, subscriptions[s].acknowledged, limit)
    /\ Answered(s, subscriptions[s].acknowledged, limit)
    /\ waiting' = [waiting EXCEPT ![c] = [owner |-> o, subscription |-> s, limit |-> limit,
                                          notified |-> FALSE]]
    /\ UNCHANGED <<closing, retired, topics, issued>>

(* wait_timeout returns, notified or not, and the whole call runs again.      *)
Resume(c) ==
    LET w == waiting[c]
        s == w.subscription
        again == Admitted(w.owner) /\ Reader(w.owner, s)
        after == subscriptions[s].acknowledged
    IN  /\ w # None
        /\ \/ /\ ~again
              /\ waiting' = [waiting EXCEPT ![c] = None]
              /\ UNCHANGED <<subscriptions, told>>
           \/ /\ again
              /\ Answered(s, after, w.limit)
              /\ \/ waiting' = [Notified EXCEPT ![c] = None]
                 \/ /\ EmptyRead(s, after, w.limit)
                    /\ waiting' = [waiting EXCEPT ![c].notified = FALSE]
        /\ UNCHANGED <<closing, retired, topics, issued>>

Acknowledges(s, n) ==
    subscriptions[s].acknowledged <= n /\ n <= subscriptions[s].delivered

Acknowledge(o, s, n) ==
    /\ Admitted(o) /\ Reader(o, s)
    /\ Acknowledges(s, n)
    /\ subscriptions' = [subscriptions EXCEPT ![s].acknowledged = n]
    /\ waiting' = Notified
    /\ UNCHANGED <<closing, retired, topics, issued, told>>

HasSubscribers(T, S, t) == \E s \in S : subscriptions[s].topic = t

(* topics.retain: a closed topic stays for the subscriptions of S it has.     *)
KeptTopics(T, S) ==
    [t \in Topic |-> IF T[t] # None /\ T[t].closed /\ ~HasSubscribers(T, S, t)
                     THEN None ELSE T[t]]

CloseSubscription(o, s) ==
    /\ Admitted(o) /\ Reader(o, s)
    /\ subscriptions' = [subscriptions EXCEPT ![s] = None]
    /\ topics' = KeptTopics(topics, Subscriptions \ {s})
    /\ waiting' = Notified
    /\ UNCHANGED <<closing, retired, issued, told>>

CloseTopic(o, t) ==
    /\ Admitted(o) /\ t \in Topics /\ topics[t].owner = o
    /\ topics' = KeptTopics([topics EXCEPT ![t].closed = TRUE], Subscriptions)
    /\ waiting' = Notified
    /\ UNCHANGED <<closing, retired, subscriptions, issued, told>>

-----------------------------------------------------------------------------
(* Events::retire: the owner's subscriptions go, its topics end for others.   *)
RetireOwner(o) ==
    LET left == {s \in Subscriptions : subscriptions[s].owner # o}
        ended == [t \in Topic |->
                     IF t \in Topics /\ topics[t].owner = o
                     THEN [topics[t] EXCEPT !.closed = TRUE, !.provider_retired = TRUE,
                                            !.events = <<>>, !.bytes = 0]
                     ELSE topics[t]]
    IN  /\ retired' = retired \cup {o}
        /\ subscriptions' = [s \in Subscription |->
                                IF s \in left THEN subscriptions[s] ELSE None]
        /\ topics' = KeptTopics(ended, left)
        /\ waiting' = Notified
        /\ UNCHANGED <<closing, issued, told>>

ShutDown ==
    /\ ~closing
    /\ closing' = TRUE
    /\ topics' = [t \in Topic |-> None]
    /\ subscriptions' = [s \in Subscription |-> None]
    /\ waiting' = Notified
    /\ UNCHANGED <<retired, issued, told>>

EventsNext ==
    \/ \E o \in Owner :
          \/ \E capability \in Capability \cup {None} :
                \/ CreateTopic(o, capability)
                \/ \E t \in Topic, n \in Sequence : Subscribe(o, t, capability, n)
          \/ \E t \in Topic : CloseTopic(o, t) \/ \E size \in Size : Publish(o, t, size)
          \/ \E s \in Subscription :
                \/ CloseSubscription(o, s)
                \/ \E n \in Sequence : Acknowledge(o, s, n)
                \/ \E limit \in 1 .. MAX_PAGE :
                      \/ \E n \in Sequence : Read(o, s, n, limit)
                      \/ \E c \in Caller : WaitForEvents(c, o, s, limit)
          \/ RetireOwner(o)
    \/ \E c \in Caller : Resume(c)
    \/ ShutDown

EventsSpec == EventsInit /\ [][EventsNext]_evars

-----------------------------------------------------------------------------
(* The types of topics, positions and sleeping reads.                         *)
EventsTypeOK ==
    /\ closing \in BOOLEAN /\ retired \subseteq Owner
    /\ topics \in [Topic -> TopicRecord \cup {None}]
    /\ subscriptions \in [Subscription -> Position \cup {None}]
    /\ waiting \in [Caller -> Wait \cup {None}]
    /\ issued \subseteq Topic \cup Subscription
    /\ told \in [Subscription -> SUBSET Sequence]

(* The byte count of a log is what it holds, however it came to hold it, and  *)
(* the newest event is never the one that is dropped (events.publish, retire).*)
LogIsExact ==
    \A t \in Topics :
        /\ topics[t].bytes = Bytes(topics[t].events)
        /\ Len(topics[t].events) <= MAX_EVENTS
        /\ topics[t].events = <<>> => topics[t].sequence = 0 \/ topics[t].provider_retired

(* No event is lost silently: whatever a subscriber can acknowledge was in    *)
(* one of its answers or before a gap one of them reported, though events are *)
(* dropped, topics closed and providers retired at any time                   *)
(* (events.read, events.ack).                                                 *)
NothingMissed ==
    \A s \in Subscriptions : 1 .. subscriptions[s].acknowledged \subseteq told[s]

(* A subscription has its topic until it is closed, also after the topic was  *)
(* closed or its provider retired, and a closed topic without subscribers is  *)
(* not kept (events.close, Events::retire).                                   *)
TopicsHeld ==
    /\ \A s \in Subscriptions : subscriptions[s].topic \in Topics
    /\ \A t \in Topics : topics[t].closed =>
          \E s \in Subscriptions : subscriptions[s].topic = t

(* Logs, topics and subscriptions agree after every publication, eviction,    *)
(* close and retirement.                                                      *)
EventsConsistent == EventsTypeOK /\ LogIsExact /\ TopicsHeld

(* A read that sleeps without having been woken has nothing to wake for: no   *)
(* event, no end of its topic, no end of its subscription (wait_timeout).     *)
NoSleepingReader ==
    \A c \in Caller : waiting[c] # None /\ ~waiting[c].notified =>
        LET w == waiting[c]
        IN  /\ Admitted(w.owner) /\ Reader(w.owner, w.subscription)
            /\ EmptyRead(w.subscription, subscriptions[w.subscription].acknowledged, w.limit)

(* Over all publications, evictions, closes and retirements: the tables agree *)
(* and a subscriber neither misses an event nor sleeps beside one.            *)
EventsSound == EventsConsistent /\ NothingMissed /\ NoSleepingReader
=============================================================================
