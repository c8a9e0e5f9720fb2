--------------------------- MODULE ActivationOrder ---------------------------
(* The order in which entries are activated (src/capabilities.rs,             *)
(* resolve_activation_order and find_dependency_cycle): providers before      *)
(* their consumers, or the entries of a cycle.  The sort and the search are   *)
(* small steps over every graph of Graph, so that what they keep from one     *)
(* turn of their loops to the next can be stated.                             *)
EXTENDS Naturals, FiniteSets, Sequences

CONSTANTS
    N,                 \* entries are 1 .. N, in the order of their names
    Graph              \* the declarations to resolve

Node == 1 .. N

(* What is registered, the entries each must come after, and the entries that *)
(* provide what it requires; nobody provides for an entry that is gone.       *)
Declarations == [registered   : SUBSET Node,
                 dependencies : [Node -> SUBSET Node],
                 requires     : [Node -> SUBSET Node]]

ASSUME GraphAssumption == N \in Nat /\ Graph \subseteq Declarations

VARIABLES
    g,                 \* the registrations
    phase,             \* which loop runs: "collect", "sort", "search", "done"
    dependents,        \* who waits for an entry
    count,             \* dependency_count: how many an entry waits for
    waitless,             \* entries that wait for none
    order,             \* the order so far
    states,            \* what the depth-first search knows of an entry
    stack,             \* the entries it is in, each with the dependents to visit
    outcome            \* "none", "order", "unknown", "missing", "cycle"

ovars == <<g, phase, dependents, count, waitless, order, states, stack, outcome>>

Providers(c) == g.dependencies[c] \cup g.requires[c]

Popped == {order[i] : i \in DOMAIN order}

Frame == [node : Node, left : SUBSET Node]

OrderInit ==
    /\ g \in Graph
    /\ phase = "collect"
    /\ dependents = [p \in Node |-> {}]
    /\ count = [c \in Node |-> 0]
    /\ waitless = {}
    /\ order = <<>>
    /\ states = [p \in Node |-> "none"]
    /\ stack = <<>>
    /\ outcome = "none"

(* What would be wrong: an entry both depended on and required counts twice.  *)
DependencyCountTwice(c) == Cardinality(g.dependencies[c]) + Cardinality(g.requires[c])

DependencyCount(c) == Cardinality(Providers(c))

(* The first consumer with an unknown dependency or without a provider ends   *)
(* the collection; its dependencies are looked at first.                      *)
Unknown(c) == ~(g.dependencies[c] \subseteq g.registered)

Missing(c) == ~(g.requires[c] \subseteq g.registered)

CollectFails ==
    /\ phase = "collect"
    /\ \E c \in g.registered :
          /\ Unknown(c) \/ Missing(c)
          /\ \A d \in g.registered : d < c => ~Unknown(d) /\ ~Missing(d)
          /\ outcome' = IF Unknown(c) THEN "unknown" ELSE "missing"
    /\ phase' = "done"
    /\ UNCHANGED <<g, dependents, count, waitless, order, states, stack>>

Collect ==
    /\ phase = "collect"
    /\ \A c \in g.registered : ~Unknown(c) /\ ~Missing(c)
    /\ dependents' = [p \in Node |-> {c \in g.registered : p \in Providers(c)}]
    /\ count' = [c \in Node |-> IF c \in g.registered THEN DependencyCount(c) ELSE 0]
    /\ waitless' = {c \in g.registered : count'[c] = 0}
    /\ phase' = "sort"
    /\ UNCHANGED <<g, order, states, stack, outcome>>

(* What would be wrong: any ready entry is taken, as a hash set would.        *)
AnyReady(p) == p \in waitless

(* ready.pop_first()                                                          *)
First(p) == p \in waitless /\ \A q \in waitless : p <= q

BecomesReady(p) == {c \in dependents[p] : count[c] = 1}

PopReady(p) ==
    /\ phase = "sort" /\ First(p)
    /\ order' = Append(order, p)
    /\ count' = [c \in Node |-> IF c \in dependents[p] THEN count[c] - 1 ELSE count[c]]
    /\ waitless' = (waitless \ {p}) \cup BecomesReady(p)
    /\ UNCHANGED <<g, phase, dependents, states, stack, outcome>>

Finishes ==
    /\ phase = "sort" /\ waitless = {}
    /\ Len(order) = Cardinality(g.registered)
    /\ phase' = "done" /\ outcome' = "order"
    /\ UNCHANGED <<g, dependents, count, waitless, order, states, stack>>

SortStops ==
    /\ phase = "sort" /\ waitless = {}
    /\ Len(order) # Cardinality(g.registered)
    /\ phase' = "search"
    /\ UNCHANGED <<g, dependents, count, waitless, order, states, stack, outcome>>

-----------------------------------------------------------------------------
(* find_dependency_cycle.  Its unreachable!() has no action: a search that    *)
(* visits everything and finds no cycle never resolves.                       *)

Visited(p) == [node |-> p, left |-> dependents[p]]

SearchFrom(p) ==
    /\ phase = "search" /\ stack = <<>>
    /\ p \in g.registered /\ states[p] = "none"
    /\ \A q \in g.registered : q < p => states[q] # "none"
    /\ states' = [states EXCEPT ![p] = "active"]
    /\ stack' = <<Visited(p)>>
    /\ UNCHANGED <<g, phase, dependents, count, waitless, order, outcome>>

Top == stack[Len(stack)]

Below == SubSeq(stack, 1, Len(stack) - 1)

(* The next dependent of the entry on top, in the order of their names.       *)
NextDependent(d) == d \in Top.left /\ \A e \in Top.left : d <= e

Looked(d) == Append(Below, [Top EXCEPT !.left = @ \ {d}])

Visit(d) ==
    /\ phase = "search" /\ stack # <<>> /\ NextDependent(d)
    /\ states[d] = "none"
    /\ states' = [states EXCEPT ![d] = "active"]
    /\ stack' = Append(Looked(d), Visited(d))
    /\ UNCHANGED <<g, phase, dependents, count, waitless, order, outcome>>

Skip(d) ==
    /\ phase = "search" /\ stack # <<>> /\ NextDependent(d)
    /\ states[d] = "complete"
    /\ stack' = Looked(d)
    /\ UNCHANGED <<g, phase, dependents, count, waitless, order, states, outcome>>

(* What would be wrong: the whole path is reported, not the cycle in it.      *)
WholePath(d) == stack

From(d) ==
    LET start == CHOOSE i \in DOMAIN stack : stack[i].node = d
    IN  SubSeq(stack, start, Len(stack))

(* stack[start..] is the cycle.                                               *)
CycleFound(d) ==
    /\ phase = "search" /\ stack # <<>> /\ NextDependent(d)
    /\ states[d] = "active"
    /\ stack' = From(d)
    /\ phase' = "done" /\ outcome' = "cycle"
    /\ UNCHANGED <<g, dependents, count, waitless, order, states>>

Leave ==
    /\ phase = "search" /\ stack # <<>> /\ Top.left = {}
    /\ states' = [states EXCEPT ![Top.node] = "complete"]
    /\ stack' = Below
    /\ UNCHANGED <<g, phase, dependents, count, waitless, order, outcome>>

OrderNext ==
    \/ CollectFails \/ Collect
    \/ \E p \in Node : PopReady(p)
    \/ Finishes \/ SortStops
    \/ \E p \in Node : SearchFrom(p) \/ Visit(p) \/ Skip(p) \/ CycleFound(p)
    \/ Leave

OrderSpec == OrderInit /\ [][OrderNext]_ovars

-----------------------------------------------------------------------------
(* The types of the sort's and of the search's variables.                     *)
OrderTypeOK ==
    /\ g \in Declarations
    /\ phase \in {"collect", "sort", "search", "done"}
    /\ dependents \in [Node -> SUBSET Node]
    /\ count \in [Node -> 0 .. N]
    /\ waitless \subseteq g.registered
    /\ order \in Seq(Node) /\ Len(order) <= N
    /\ states \in [Node -> {"none", "active", "complete"}]
    /\ stack \in Seq(Frame)
    /\ outcome \in {"none", "order", "unknown", "missing", "cycle"}

Edge(p, c) == c \in g.registered /\ p \in Providers(c)

(* An order is complete, has no entry twice and no entry before what it       *)
(* waits for (resolve_activation_order returning Ok).                         *)
OrderIsTopological ==
    outcome = "order" =>
        /\ Popped = g.registered
        /\ \A i, j \in DOMAIN order : order[i] = order[j] => i = j
        /\ \A j \in DOMAIN order : \A p \in Providers(order[j]) :
              \E i \in 1 .. j - 1 : order[i] = p

Topological(s) ==
    \A i, j \in DOMAIN s : Edge(s[j], s[i]) => j < i

Orders == {s \in [1 .. Cardinality(g.registered) -> g.registered] :
              /\ \A i, j \in DOMAIN s : s[i] = s[j] => i = j
              /\ Topological(s)}

Before(s, t) ==
    \E i \in DOMAIN s : s[i] < t[i] /\ \A j \in 1 .. i - 1 : s[j] = t[j]

(* Of all orders that respect the declarations the result is the one that     *)
(* comes first by name, so activation does not depend on how the plugins were *)
(* found or registered (resolve_activation_order, BTreeSet::pop_first).       *)
OrderIsFirst ==
    outcome = "order" =>
        order \in Orders /\ \A s \in Orders : s # order => Before(order, s)

(* The sort stops short only for a reason: entries are left, and each of them *)
(* waits for another one that is left, so that no order exists                *)
(* (resolve_activation_order, order.len() != registrations.len()).            *)
StopsForACycle ==
    phase = "search" =>
        /\ g.registered \ Popped # {}
        /\ \A c \in g.registered \ Popped : Providers(c) \ Popped # {}

(* The entries reported as a cycle are one: each waits for the one before it, *)
(* the first for the last, and none is named twice                            *)
(* (find_dependency_cycle).                                                   *)
CycleIsReal ==
    outcome = "cycle" =>
        /\ stack # <<>>
        /\ \A i \in 1 .. Len(stack) - 1 : Edge(stack[i].node, stack[i + 1].node)
        /\ Edge(stack[Len(stack)].node, stack[1].node)
        /\ \A i, j \in DOMAIN stack : stack[i].node = stack[j].node => i = j

(* The sort and the search stay within their tables and report only a real    *)
(* cycle (resolve_activation_order, find_dependency_cycle).                   *)
SearchIsSound == OrderTypeOK /\ CycleIsReal

(* Some order or some error is always returned: when the sort comes to a stop *)
(* the search does find a cycle (resolve_activation_order, unreachable!).     *)
AlwaysAnswers == outcome = "none" => ENABLED OrderNext

(* A result is the first of all orders, a reported cycle is a cycle, and one  *)
(* of the two is found.                                                       *)
OrderSound == OrderIsFirst /\ SearchIsSound /\ AlwaysAnswers
=============================================================================
