------------------------ MODULE ActivationOrderProofs ------------------------
(* For every number of entries and every graph of declarations: an order that *)
(* is returned is complete and respects the declarations, and the sort stops  *)
(* short only when no order exists.  The second part is about LabSession.     *)
EXTENDS ActivationOrder, LabSession, FiniteSetTheorems, TLAPS

(* What holds of the counters while the sort runs: an entry's count is how    *)
(* many of its providers are not in the order yet, and ready are those that   *)
(* wait for none and are not in the order themselves.                         *)
SortTypes ==
    /\ g \in Declarations
    /\ phase \in {"collect", "sort", "search", "done"}
    /\ dependents \in [Node -> SUBSET Node]
    /\ count \in [Node -> Int]
    /\ waitless \subseteq g.registered
    /\ order \in Seq(Node)

NothingYet == phase = "collect" => order = <<>> /\ outcome = "none"

Known == \A c \in g.registered : Providers(c) \subseteq g.registered

Left(c) == Providers(c) \ Popped

Counted ==
    phase = "sort" =>
        /\ outcome = "none"
        /\ Known
        /\ dependents = [p \in Node |-> {c \in g.registered : p \in Providers(c)}]
        /\ \A c \in g.registered : count[c] = Cardinality(Left(c))
        /\ \A c \in g.registered : c \in waitless <=> count[c] = 0 /\ c \notin Popped

OrderSoFar ==
    /\ Popped \subseteq g.registered
    /\ Cardinality(Popped) = Len(order)
    /\ \A i, j \in DOMAIN order : order[i] = order[j] => i = j
    /\ \A j \in DOMAIN order : \A p \in Providers(order[j]) :
          \E i \in 1 .. j - 1 : order[i] = p

Ended ==
    /\ phase = "search" => outcome = "none" /\ StopsForACycle
    /\ outcome = "order" => Popped = g.registered

SortInv == SortTypes /\ NothingYet /\ Counted /\ OrderSoFar /\ Ended

-----------------------------------------------------------------------------
(* The entries of an order and one more.                                      *)
LEMMA AppendedEntries ==
    ASSUME NEW s \in Seq(Node), NEW p \in Node
    PROVE  /\ {Append(s, p)[i] : i \in DOMAIN Append(s, p)} = {s[i] : i \in DOMAIN s} \cup {p}
           /\ Append(s, p) \in Seq(Node)
           /\ Len(Append(s, p)) = Len(s) + 1
           /\ \A i \in DOMAIN s : Append(s, p)[i] = s[i]
           /\ Append(s, p)[Len(s) + 1] = p
           /\ DOMAIN Append(s, p) = 1 .. Len(s) + 1
           /\ DOMAIN s = 1 .. Len(s)
<1>1. /\ Append(s, p) \in Seq(Node)
      /\ Len(Append(s, p)) = Len(s) + 1
      /\ DOMAIN Append(s, p) = 1 .. Len(s) + 1
      /\ DOMAIN s = 1 .. Len(s)
      /\ Len(s) \in Nat
  OBVIOUS
<1>2. \A i \in DOMAIN s : Append(s, p)[i] = s[i]
  OBVIOUS
<1>3. Append(s, p)[Len(s) + 1] = p
  OBVIOUS
<1>4. {Append(s, p)[i] : i \in DOMAIN Append(s, p)} = {s[i] : i \in DOMAIN s} \cup {p}
  <2>1. ASSUME NEW i \in DOMAIN Append(s, p)
        PROVE  Append(s, p)[i] \in {s[j] : j \in DOMAIN s} \cup {p}
    <3>1. CASE i \in DOMAIN s
      BY <1>2, <3>1
    <3>2. CASE i = Len(s) + 1
      BY <1>3, <3>2
    <3>3. QED
      BY <1>1, <3>1, <3>2
  <2>2. ASSUME NEW i \in DOMAIN s
        PROVE  s[i] \in {Append(s, p)[j] : j \in DOMAIN Append(s, p)}
    <3>1. i \in DOMAIN Append(s, p)
      BY <1>1
    <3>2. QED
      BY <1>2, <3>1
  <2>3. p \in {Append(s, p)[j] : j \in DOMAIN Append(s, p)}
    <3>1. Len(s) + 1 \in DOMAIN Append(s, p)
      BY <1>1
    <3>2. QED
      BY <1>3, <3>1
  <2>4. QED
    BY <2>1, <2>2, <2>3
<1>5. QED
  BY <1>1, <1>2, <1>3, <1>4

(* Declarations are finite sets of entries.                                   *)
LEMMA FiniteDeclarations ==
    ASSUME g \in Declarations
    PROVE  /\ IsFiniteSet(g.registered)
           /\ g.registered \subseteq Node
           /\ \A c \in Node : Providers(c) \subseteq Node
           /\ \A S : S \subseteq Node => IsFiniteSet(S)
<1>1. IsFiniteSet(Node)
  <2>1. 1 \in Int /\ N \in Int
    BY GraphAssumption
  <2>2. QED
    BY <2>1, FS_Interval DEF Node
<1>2. \A S : S \subseteq Node => IsFiniteSet(S)
  BY <1>1, FS_Subset
<1>3. /\ g.registered \subseteq Node
      /\ \A c \in Node : Providers(c) \subseteq Node
  BY DEF Declarations, Providers
<1>4. QED
  BY <1>2, <1>3

-----------------------------------------------------------------------------
(* Before the sort begins nothing is ordered.                                 *)
LEMMA InitSorted == OrderInit => SortInv
<1> SUFFICES ASSUME OrderInit PROVE SortInv
  OBVIOUS
<1>1. SortTypes
  BY GraphAssumption DEF OrderInit, SortTypes
<1>2. Popped = {}
  BY DEF OrderInit, Popped
<1>3. NothingYet /\ Counted /\ Ended
  BY DEF OrderInit, NothingYet, Counted, Ended
<1>4. OrderSoFar
  <2>1. Cardinality({}) = 0
    BY FS_EmptySet
  <2>2. DOMAIN order = {} /\ Len(order) = 0
    BY DEF OrderInit
  <2>3. QED
    BY <1>2, <2>1, <2>2 DEF OrderSoFar
<1>5. QED
  BY <1>1, <1>3, <1>4 DEF SortInv

(* Collecting counts for every entry what it waits for.                       *)
LEMMA CollectSorted == SortInv /\ Collect => SortInv'
<1> SUFFICES ASSUME SortInv, Collect PROVE SortInv'
  OBVIOUS
<1> USE DEF SortInv
<1>0. /\ phase = "collect" /\ phase' = "sort"
      /\ \A c \in g.registered : ~Unknown(c) /\ ~Missing(c)
      /\ dependents' = [p \in Node |-> {c \in g.registered : p \in Providers(c)}]
      /\ count' = [c \in Node |-> IF c \in g.registered THEN DependencyCount(c) ELSE 0]
      /\ waitless' = {c \in g.registered : count'[c] = 0}
      /\ g' = g /\ order' = order /\ outcome' = outcome
  BY DEF Collect
<1>1. order = <<>> /\ outcome = "none" /\ Popped = {}
  BY <1>0 DEF NothingYet, Popped
<1>2. /\ g.registered \subseteq Node
      /\ \A c \in g.registered : IsFiniteSet(Providers(c))
  BY FiniteDeclarations DEF SortTypes
<1>3. \A c \in g.registered : DependencyCount(c) \in Nat
  BY <1>2, FS_CardinalityType DEF DependencyCount
<1>4. SortTypes'
  <2>1. dependents' \in [Node -> SUBSET Node]
    BY <1>0, <1>2
  <2>2. count' \in [Node -> Int]
    BY <1>0, <1>3
  <2>3. QED
    BY <1>0, <2>1, <2>2 DEF SortTypes
<1>5. Popped' = {} /\ \A c : Providers(c)' = Providers(c)
  BY <1>0, <1>1 DEF Popped, Providers
<1>6. Counted'
  <2>1. Known'
    BY <1>0, <1>5 DEF Known, Unknown, Missing, Providers
  <2>2. \A c \in g.registered : count'[c] = Cardinality(Providers(c))
    BY <1>0, <1>2 DEF DependencyCount
  <2>3. \A c \in g'.registered : count'[c] = Cardinality(Left(c)')
    <3>1. \A c \in g.registered : Left(c)' = Providers(c)
      BY <1>5 DEF Left
    <3>2. QED
      BY <1>0, <2>2, <3>1
  <2>4. \A c \in g'.registered : c \in waitless' <=> count'[c] = 0 /\ c \notin Popped'
    BY <1>0, <1>5
  <2>5. dependents' = [p \in Node |-> {c \in g'.registered : p \in Providers(c)'}]
    BY <1>0, <1>5
  <2>6. QED
    BY <1>0, <1>1, <2>1, <2>3, <2>4, <2>5 DEF Counted
<1>7. OrderSoFar'
  BY <1>0, <1>5 DEF OrderSoFar, Popped, Providers
<1>8. NothingYet' /\ Ended'
  BY <1>0, <1>1 DEF NothingYet, Ended
<1>9. QED
  BY <1>4, <1>6, <1>7, <1>8

(* An entry that is taken waits for none: all its providers are in the order. *)
LEMMA ReadyIsFree ==
    ASSUME SortInv, phase = "sort", NEW p \in waitless
    PROVE  p \in g.registered /\ p \in Node /\ p \notin Popped /\ Providers(p) \subseteq Popped
<1> USE DEF SortInv
<1>1. p \in g.registered
  BY DEF SortTypes
<1>2. count[p] = 0 /\ p \notin Popped /\ count[p] = Cardinality(Left(p))
  BY <1>1 DEF Counted
<1>3. p \in Node /\ IsFiniteSet(Left(p))
  <2>1. p \in Node
    BY <1>1, FiniteDeclarations DEF SortTypes
  <2>2. Left(p) \subseteq Node
    BY <2>1, FiniteDeclarations DEF SortTypes, Left
  <2>3. QED
    BY <2>1, <2>2, FiniteDeclarations DEF SortTypes
<1>4. Left(p) = {}
  BY <1>2, <1>3, FS_EmptySet
<1>5. QED
  BY <1>1, <1>2, <1>3, <1>4 DEF Left

(* Taking a ready entry keeps the counts and the order right.                 *)
LEMMA PopSorted == \A p \in Node : SortInv /\ PopReady(p) => SortInv'
<1> SUFFICES ASSUME NEW p \in Node, SortInv, PopReady(p) PROVE SortInv'
  OBVIOUS
<1> USE DEF SortInv
<1>0. /\ phase = "sort" /\ phase' = phase /\ p \in waitless
      /\ order' = Append(order, p)
      /\ count' = [c \in Node |-> IF c \in dependents[p] THEN count[c] - 1 ELSE count[c]]
      /\ waitless' = (waitless \ {p}) \cup BecomesReady(p)
      /\ g' = g /\ dependents' = dependents /\ outcome' = outcome
  BY DEF PopReady, First
<1>1. p \in g.registered /\ p \notin Popped /\ Providers(p) \subseteq Popped
  BY <1>0, ReadyIsFree
<1>2. order \in Seq(Node) /\ g \in Declarations
  BY DEF SortTypes
<1>3. Popped' = Popped \cup {p}
  <2>1. Popped' = {Append(order, p)[i] : i \in DOMAIN Append(order, p)}
    BY <1>0, Zenon DEF Popped
  <2>2. {Append(order, p)[i] : i \in DOMAIN Append(order, p)} =
           {order[i] : i \in DOMAIN order} \cup {p}
    BY <1>2, AppendedEntries, Zenon
  <2>3. QED
    BY <2>1, <2>2, Zenon DEF Popped
<1>4. \A c : Providers(c)' = Providers(c)
  BY <1>0 DEF Providers
<1>5. /\ outcome = "none" /\ Known
      /\ dependents = [q \in Node |-> {c \in g.registered : q \in Providers(c)}]
  BY <1>0 DEF Counted
<1>6. \A c \in g.registered : c \in dependents[p] <=> p \in Providers(c)
  BY <1>5
<1>7. dependents[p] \subseteq g.registered
  BY <1>5
<1>8. SortTypes'
  <2>1. order' \in Seq(Node)
    BY <1>0, <1>2, AppendedEntries
  <2>2. count' \in [Node -> Int]
    BY <1>0 DEF SortTypes
  <2>3. waitless' \subseteq g.registered
    BY <1>0, <1>7 DEF BecomesReady, SortTypes
  <2>4. QED
    BY <1>0, <2>1, <2>2, <2>3 DEF SortTypes
<1>9. \A c \in g.registered : count'[c] = Cardinality(Left(c)')
  <2> SUFFICES ASSUME NEW c \in g.registered
               PROVE  count'[c] = Cardinality(Left(c)')
    OBVIOUS
  <2>1. c \in Node /\ IsFiniteSet(Left(c))
    <3>1. c \in Node
      BY <1>2, FiniteDeclarations
    <3>2. Left(c) \subseteq Node
      BY <1>2, <3>1, FiniteDeclarations DEF Left
    <3>3. QED
      BY <1>2, <3>1, <3>2, FiniteDeclarations
  <2>2. Left(c)' = Left(c) \ {p}
    BY <1>3, <1>4 DEF Left
  <2>3. count[c] = Cardinality(Left(c))
    BY <1>0 DEF Counted
  <2>4. p \in Left(c) <=> c \in dependents[p]
    BY <1>1, <1>6 DEF Left
  <2>5. Cardinality(Left(c) \ {p}) =
           IF p \in Left(c) THEN Cardinality(Left(c)) - 1 ELSE Cardinality(Left(c))
    BY <2>1, FS_RemoveElement
  <2>6. count'[c] = IF c \in dependents[p] THEN count[c] - 1 ELSE count[c]
    BY <1>0, <2>1
  <2>7. QED
    BY <2>2, <2>3, <2>4, <2>5, <2>6
<1>10. \A c \in g.registered : c \in waitless' <=> count'[c] = 0 /\ c \notin Popped'
  <2> SUFFICES ASSUME NEW c \in g.registered
               PROVE  c \in waitless' <=> count'[c] = 0 /\ c \notin Popped'
    OBVIOUS
  <2>1. c \in Node /\ count[c] \in Int
    BY <1>2, FiniteDeclarations DEF SortTypes
  <2>2. c \in waitless <=> count[c] = 0 /\ c \notin Popped
    BY <1>0 DEF Counted
  <2>3. count'[c] = IF c \in dependents[p] THEN count[c] - 1 ELSE count[c]
    BY <1>0, <2>1
  <2>4. CASE c = p
    <3>1. c \notin dependents[p]
      BY <1>1, <1>6, <2>4
    <3>2. c \notin waitless'
      BY <1>0, <2>4, <3>1 DEF BecomesReady
    <3>3. QED
      BY <1>3, <2>4, <3>2
  <2>5. CASE c # p /\ c \in dependents[p]
    <3>1. c \notin Popped
      <4> SUFFICES ASSUME c \in Popped PROVE FALSE
        OBVIOUS
      <4>1. PICK j \in DOMAIN order : order[j] = c
        BY DEF Popped
      <4>2. p \in Providers(order[j])
        BY <1>6, <2>5, <4>1
      <4>3. PICK i \in 1 .. j - 1 : order[i] = p
        BY <4>1, <4>2 DEF OrderSoFar
      <4>4. i \in DOMAIN order
        BY <1>2, <4>1, <4>3
      <4>5. QED
        BY <1>1, <4>3, <4>4 DEF Popped
    <3>2. count[c] # 0
      <4>1. p \in Left(c)
        BY <1>1, <1>6, <2>5 DEF Left
      <4>2. Left(c) \subseteq Node
        BY <1>2, <2>1, FiniteDeclarations DEF Left
      <4>3. IsFiniteSet(Left(c))
        BY <1>2, <4>2, FiniteDeclarations
      <4>4. Cardinality(Left(c)) # 0
        BY <4>1, <4>3, FS_EmptySet
      <4>5. QED
        BY <1>0, <4>4 DEF Counted
    <3>3. c \in waitless' <=> count[c] = 1
      BY <1>0, <2>2, <2>5, <3>2 DEF BecomesReady
    <3>4. count'[c] = 0 <=> count[c] = 1
      BY <2>1, <2>3, <2>5
    <3>5. QED
      BY <1>3, <2>5, <3>1, <3>3, <3>4
  <2>6. CASE c # p /\ c \notin dependents[p]
    BY <1>0, <1>3, <2>2, <2>3, <2>6 DEF BecomesReady
  <2>7. QED
    BY <2>4, <2>5, <2>6
<1>11. Counted'
  <2>1. dependents' = [q \in Node |-> {c \in g'.registered : q \in Providers(c)'}]
    BY <1>0, <1>4, <1>5
  <2>2. Known'
    BY <1>0, <1>4, <1>5 DEF Known
  <2>3. QED
    BY <1>0, <1>5, <1>9, <1>10, <2>1, <2>2 DEF Counted
<1>12. OrderSoFar'
  <2>1. /\ Len(order') = Len(order) + 1
        /\ \A i \in DOMAIN order : order'[i] = order[i]
        /\ order'[Len(order) + 1] = p
        /\ DOMAIN order' = 1 .. Len(order) + 1
        /\ DOMAIN order = 1 .. Len(order)
        /\ Len(order) \in Nat
    BY <1>0, <1>2, AppendedEntries
  <2>2. Popped' \subseteq g'.registered
    BY <1>0, <1>1, <1>3 DEF OrderSoFar
  <2>3. Cardinality(Popped') = Len(order')
    <3>1. IsFiniteSet(Popped)
      <4>1. Popped \subseteq Node
        BY <1>2, FiniteDeclarations DEF OrderSoFar
      <4>2. QED
        BY <1>2, <4>1, FiniteDeclarations
    <3>2. Cardinality(Popped \cup {p}) = Cardinality(Popped) + 1
      BY <1>1, <3>1, FS_AddElement
    <3>3. QED
      BY <1>3, <2>1, <3>2 DEF OrderSoFar
  <2>4. \A i, j \in DOMAIN order' : order'[i] = order'[j] => i = j
    <3>1. \A i \in DOMAIN order : order[i] # p
      BY <1>1 DEF Popped
    <3>2. \A i, j \in DOMAIN order : order[i] = order[j] => i = j
      BY DEF OrderSoFar
    <3>3. QED
      BY <2>1, <3>1, <3>2
  <2>5. ASSUME NEW j \in DOMAIN order', NEW q \in Providers(order'[j])
        PROVE  \E i \in 1 .. j - 1 : order'[i] = q
    <3>1. CASE j \in DOMAIN order
      <4>1. PICK i \in 1 .. j - 1 : order[i] = q
        BY <2>1, <2>5, <3>1 DEF OrderSoFar
      <4>2. i \in DOMAIN order
        BY <2>1, <3>1, <4>1
      <4>3. QED
        BY <2>1, <4>1, <4>2
    <3>2. CASE j = Len(order) + 1
      <4>1. q \in Popped
        BY <1>1, <2>1, <2>5, <3>2
      <4>2. PICK i \in DOMAIN order : order[i] = q
        BY <4>1 DEF Popped
      <4>3. i \in 1 .. j - 1
        BY <2>1, <3>2, <4>2
      <4>4. QED
        BY <2>1, <4>2, <4>3
    <3>3. QED
      BY <2>1, <3>1, <3>2
  <2>6. \A j \in DOMAIN order' : \A q \in Providers(order[j])' :
           \E i \in 1 .. j - 1 : order'[i] = q
    BY <1>0, <2>5 DEF Providers
  <2>7. QED
    BY <2>2, <2>3, <2>4, <2>6 DEF OrderSoFar
<1>13. NothingYet' /\ Ended'
  BY <1>0, <1>5 DEF NothingYet, Ended
<1>14. QED
  BY <1>8, <1>11, <1>12, <1>13

(* A complete order holds every entry.                                        *)
LEMMA CompleteSorted == SortInv /\ Finishes => SortInv'
<1> SUFFICES ASSUME SortInv, Finishes PROVE SortInv'
  OBVIOUS
<1> USE DEF SortInv
<1>0. /\ phase' = "done" /\ Len(order) = Cardinality(g.registered)
      /\ UNCHANGED <<g, dependents, count, waitless, order>>
  BY DEF Finishes
<1>1. Popped' = Popped /\ \A c : Providers(c)' = Providers(c)
  BY <1>0 DEF Popped, Providers
<1>2. Popped = g.registered
  <2>1. IsFiniteSet(g.registered) /\ Popped \in SUBSET g.registered
    BY FiniteDeclarations DEF SortTypes, OrderSoFar
  <2>2. Cardinality(g.registered) = Cardinality(Popped)
    BY <1>0 DEF OrderSoFar
  <2>3. QED
    BY <2>1, <2>2, FS_Subset
<1>3. OrderSoFar'
  BY <1>0, <1>1 DEF OrderSoFar
<1>4. SortTypes' /\ NothingYet' /\ Counted'
  BY <1>0 DEF SortTypes, NothingYet, Counted
<1>5. Ended'
  BY <1>0, <1>1, <1>2 DEF Ended
<1>6. QED
  BY <1>3, <1>4, <1>5

(* With nothing ready, every entry left waits for another one that is left.   *)
LEMMA StopSorted == SortInv /\ SortStops => SortInv'
<1> SUFFICES ASSUME SortInv, SortStops PROVE SortInv'
  OBVIOUS
<1> USE DEF SortInv
<1>0. /\ phase = "sort" /\ phase' = "search" /\ waitless = {}
      /\ Len(order) # Cardinality(g.registered)
      /\ UNCHANGED <<g, dependents, count, waitless, order, outcome>>
  BY DEF SortStops
<1>1. Popped' = Popped /\ \A c : Providers(c)' = Providers(c)
  BY <1>0 DEF Popped, Providers
<1>2. g.registered \ Popped # {}
  <2> SUFFICES ASSUME g.registered \ Popped = {} PROVE FALSE
    OBVIOUS
  <2>1. g.registered = Popped
    BY Zenon DEF OrderSoFar
  <2>2. QED
    BY <1>0, <2>1 DEF OrderSoFar
<1>3. ASSUME NEW c \in g.registered \ Popped
      PROVE  Left(c) # {}
  <2>1. count[c] # 0 /\ count[c] = Cardinality(Left(c))
    BY <1>0, <1>3 DEF Counted
  <2>2. Cardinality({}) = 0
    BY FS_EmptySet
  <2>3. QED
    BY <2>1, <2>2
<1>4. StopsForACycle'
  BY <1>0, <1>1, <1>2, <1>3 DEF StopsForACycle, Left
<1>5. OrderSoFar'
  BY <1>0, <1>1 DEF OrderSoFar
<1>6. SortTypes' /\ NothingYet' /\ Counted'
  BY <1>0 DEF SortTypes, NothingYet, Counted
<1>7. Ended'
  BY <1>0, <1>4 DEF Ended, Counted
<1>8. QED
  BY <1>4, <1>5, <1>6, <1>7

(* The search and a failed collection leave the order alone.                  *)
LEMMA OtherSorted ==
    ASSUME SortInv,
           UNCHANGED <<g, dependents, count, waitless, order>>,
           \/ phase = "collect" /\ phase' = "done" /\ outcome' \in {"unknown", "missing"}
           \/ phase = "search" /\ phase' = "search" /\ outcome' = outcome
           \/ phase = "search" /\ phase' = "done" /\ outcome' = "cycle"
           \/ phase' = phase /\ outcome' = outcome
    PROVE  SortInv'
<1> USE DEF SortInv
<1>1. Popped' = Popped /\ \A c : Providers(c)' = Providers(c)
  BY DEF Popped, Providers
<1>2. OrderSoFar'
  BY <1>1 DEF OrderSoFar
<1>3. SortTypes' /\ NothingYet'
  BY DEF SortTypes, NothingYet
<1>4. Counted'
  <2>1. (\A c \in g.registered : Left(c)' = Left(c)) /\ (Known' <=> Known)
    BY <1>1 DEF Left, Known
  <2>2. QED
    BY <1>1, <2>1 DEF Counted
<1>5. StopsForACycle' \/ phase' # "search"
  BY <1>1 DEF StopsForACycle, Ended
<1>6. Ended'
  BY <1>1, <1>5 DEF Ended
<1>7. QED
  BY <1>2, <1>3, <1>4, <1>6

(* Every step of the resolution keeps the sort's invariant.                   *)
LEMMA NextSorted == SortInv /\ [OrderNext]_ovars => SortInv'
<1> SUFFICES ASSUME SortInv, [OrderNext]_ovars PROVE SortInv'
  OBVIOUS
<1>1. CASE CollectFails
  BY <1>1, OtherSorted DEF CollectFails
<1>2. CASE Collect
  BY <1>2, CollectSorted
<1>3. CASE \E p \in Node : PopReady(p)
  BY <1>3, PopSorted
<1>4. CASE Finishes
  BY <1>4, CompleteSorted
<1>5. CASE SortStops
  BY <1>5, StopSorted
<1>6. ASSUME NEW p \in Node, SearchFrom(p) \/ Visit(p) \/ Skip(p) \/ CycleFound(p)
      PROVE  SortInv'
  <2>1. CASE SearchFrom(p)
    BY <2>1, OtherSorted DEF SearchFrom
  <2>2. CASE Visit(p)
    BY <2>2, OtherSorted DEF Visit
  <2>3. CASE Skip(p)
    BY <2>3, OtherSorted DEF Skip
  <2>4. CASE CycleFound(p)
    BY <2>4, OtherSorted DEF CycleFound
  <2>5. QED
    BY <1>6, <2>1, <2>2, <2>3, <2>4
<1>7. CASE Leave
  BY <1>7, OtherSorted DEF Leave
<1>8. CASE UNCHANGED ovars
  BY <1>8, OtherSorted DEF ovars
<1>9. QED
  BY <1>1, <1>2, <1>3, <1>4, <1>5, <1>6, <1>7, <1>8 DEF OrderNext

(* The order returned has every entry once, after all it waits for            *)
(* (resolve_activation_order returning Ok).                                   *)
THEOREM OrderCorrect == OrderSpec => []OrderIsTopological
<1>1. SortInv => OrderIsTopological
  BY DEF SortInv, OrderIsTopological, OrderSoFar, Ended
<1>2. QED
  BY <1>1, InitSorted, NextSorted, PTL DEF OrderSpec

(* A sort that stops short leaves entries that all wait for one another       *)
(* (resolve_activation_order returning DependencyCycle).                      *)
THEOREM ShortfallIsACycle == OrderSpec => []StopsForACycle
<1>1. SortInv => StopsForACycle
  BY DEF SortInv, Ended, StopsForACycle
<1>2. QED
  BY <1>1, InitSorted, NextSorted, PTL DEF OrderSpec

-----------------------------------------------------------------------------
(* The lab.                                                                  *)

(* The stations of a run.                                                    *)
LabPcs == {"none", "opened", "reported", "copying", "seeded", "loaded", "prepared", "confirmed", "guarded", "created",
           "exit", "input", "cdp", "updates", "startup", "end", "done", "dead"}

(* A run that has not begun, has ended or was killed.                        *)
LabEnded == {"none", "done", "dead"}

(* A run with its report, before the Desktop is created (run_prepared).      *)
LabPreparing == {"reported", "copying", "seeded", "loaded", "prepared", "confirmed", "guarded"}

(* ... and after its configuration was seeded or resumed.                    *)
LabSeeded == {"seeded", "loaded", "prepared", "confirmed", "guarded"}

(* A run in the loop that holds the Desktop (hold_child).                    *)
LabHolding == {"exit", "input", "cdp", "updates", "startup", "end"}

(* The types of a run, ...                                                   *)
LabRun == [pc : LabPcs, from : 0 .. MaxRuns, safe : BOOLEAN, trace : BOOLEAN, cfg : Nat, quit : {"no", "asked", "late"},
           verified : BOOLEAN, fail : BOOLEAN, cdp : {"none", "open", "closed"}, seen : BOOLEAN,
           rt : {"off", "ready", "active", "clean", "dirty"}, again : BOOLEAN, pumpfail : BOOLEAN,
           upd : {"no", "handoff", "waiting"}, rehearsal : BOOLEAN, result : {"none", "ok", "failed", "refused"}]

(* ... of its report, ...                                                    *)
LabReport == [made : BOOLEAN, header : BOOLEAN, child : BOOLEAN, exited : BOOLEAN, reaped : BOOLEAN,
              cleanup : {"none", "clean", "dirty"}, nochild : BOOLEAN, torn : BOOLEAN]

(* ... and of the root.                                                      *)
LabRootRec == [lease : 0 .. MaxRuns, empty : BOOLEAN, cfg : Nat, edits : Nat, seed : {"none", "part", "marked", "whole"},
               receipt : 0 .. MaxRuns, latest : 0 .. MaxRuns, coordinator : BOOLEAN]

(* The types of all the state.                                               *)
LabTypes ==
    /\ root \in LabRootRec
    /\ runs \in [Runs -> LabRun]
    /\ reports \in [Runs -> LabReport]
    /\ desktops \in [Runs -> {"none", "running", "zero", "bad"}]

(* The runtime is active only after the startup was verified, and a runtime  *)
(* that stopped did so because a quit was asked, the connection was seen     *)
(* closed or a pump failed.                                                  *)
HoldOk(h) ==
    /\ h.rt \in {"active", "dirty"} => h.verified
    /\ h.pc \notin LabHolding => ~h.verified /\ ~Stopped(h) /\ h.rt # "active"
    /\ Stopped(h) => h.quit # "no" \/ h.seen \/ h.pumpfail
    /\ h.verified /\ h.cdp # "none" /\ ~h.safe => h.rt = "active" \/ Stopped(h)

(* What the report of a run says, against where the run is and whether its   *)
(* Desktop exists.                                                           *)
JournalOk(h, p, d) ==
    /\ h.pc = "none" => h = NewRun
    /\ h.pc \in {"none", "opened"} => p = NoReport /\ d = "none"
    /\ h.pc \in LabPreparing => d = "none" /\ ~p.child /\ p.cleanup = "none" /\ p.made /\ ~p.nochild
    /\ h.pc = "created" => d # "none" /\ ~p.child /\ p.cleanup = "none" /\ p.made /\ ~p.nochild
    /\ h.pc \in LabHolding => d # "none" /\ p.child /\ p.made
    /\ p.nochild => d = "none"
    /\ p.child => d # "none"
    /\ p.cleanup = "dirty" => h.rt = "dirty" \/ h.pc \in {"done", "dead"}
    /\ h.result = "ok" => ~h.fail /\ p.cleanup # "dirty" /\ (p.child => d \in {"zero", "bad"})
    /\ h.result # "none" => h.pc = "done"
    /\ h.pc \in LabPreparing \cup {"opened", "created"} => ~h.fail

(* Who has the lease of the root, whose Desktop may run in it, and what is   *)
(* seeded while a run prepares.                                              *)
RootOk(r, h, d) ==
    /\ h.pc \notin LabEnded <=> root.lease = r
    /\ h.pc \notin LabEnded \/ d # "none" => ~root.empty
    /\ h.pc \notin LabEnded \cup {"opened"} => root.latest = r
    /\ d = "running" => root.latest = r /\ root.lease \in {0, r}
    /\ h.pc = "copying" => root.seed \in {"part", "marked"}
    /\ h.pc \in LabSeeded /\ h.from = 0 => root.seed = "whole"
    /\ h.pc = "guarded" => root.cfg = h.cfg /\ SeedVerified

(* The inductive invariant of the lab.                                       *)
LabInv ==
    /\ LabTypes
    /\ \A r \in Runs : HoldOk(runs[r]) /\ JournalOk(runs[r], reports[r], desktops[r]) /\ RootOk(r, runs[r], desktops[r])

(* What is known of a Desktop.                                               *)
LabDesk == {"none", "running", "zero", "bad"}

(* The run that has not ended has the lease, and no other run has begun or   *)
(* has a Desktop running.                                                    *)
LEMMA LabHolder ==
  ASSUME LabInv, NEW r \in Runs, runs[r].pc \notin LabEnded
  PROVE  /\ root.lease = r /\ ~root.empty /\ root.lease # 0
         /\ \A q \in Runs : q # r => runs[q].pc \in LabEnded /\ desktops[q] # "running"
<1>1. root.lease = r /\ ~root.empty
  BY DEF LabInv, RootOk
<1>2. r # 0 /\ \A q \in Runs : q # 0
  BY LabConstants DEF Runs
<1>3. \A q \in Runs : q # r => runs[q].pc \in LabEnded /\ desktops[q] # "running"
  BY <1>1, <1>2 DEF LabInv, RootOk
<1> QED
  BY <1>1, <1>2, <1>3

(* What the invariant says of one run.                                       *)
LEMMA LabFacts ==
  ASSUME LabInv, NEW r \in Runs
  PROVE  /\ root \in LabRootRec /\ runs \in [Runs -> LabRun] /\ reports \in [Runs -> LabReport] /\ desktops \in [Runs -> LabDesk]
         /\ runs[r] \in LabRun /\ reports[r] \in LabReport /\ desktops[r] \in LabDesk
         /\ HoldOk(runs[r]) /\ JournalOk(runs[r], reports[r], desktops[r]) /\ RootOk(r, runs[r], desktops[r])
         /\ r # 0 /\ r \in 0 .. MaxRuns /\ 0 \in 0 .. MaxRuns /\ 0 \in Nat
  BY LabConstants DEF LabInv, LabTypes, LabDesk, Runs

(* A step that sets the run, the report and the Desktop of one run keeps the *)
(* invariant if it keeps its parts.                                          *)
LEMMA LabMoves ==
  ASSUME LabInv, NEW r \in Runs, NEW h \in LabRun, NEW p \in LabReport, NEW d \in LabDesk,
         runs' = [runs EXCEPT ![r] = h], reports' = [reports EXCEPT ![r] = p], desktops' = [desktops EXCEPT ![r] = d],
         root' \in LabRootRec, HoldOk(h), JournalOk(h, p, d), RootOk(r, h, d)',
         \A q \in Runs : q # r => RootOk(q, runs[q], desktops[q])'
  PROVE  LabInv'
<1>1. /\ runs \in [Runs -> LabRun] /\ reports \in [Runs -> LabReport] /\ desktops \in [Runs -> LabDesk]
  BY LabFacts
<1>2. LabTypes'
  BY <1>1 DEF LabTypes, LabDesk
<1>3. ASSUME NEW q \in Runs
      PROVE  (HoldOk(runs[q]) /\ JournalOk(runs[q], reports[q], desktops[q]) /\ RootOk(q, runs[q], desktops[q]))'
  <2>1. CASE q = r
    <3>1. runs'[q] = h /\ reports'[q] = p /\ desktops'[q] = d
      BY <1>1, <2>1
    <3>2. RootOk(r, h, d)' = RootOk(q, runs[q], desktops[q])'
      BY <2>1, <3>1 DEF RootOk
    <3> QED
      BY <3>1, <3>2
  <2>2. CASE q # r
    <3>1. runs'[q] = runs[q] /\ reports'[q] = reports[q] /\ desktops'[q] = desktops[q]
      BY <1>1, <2>2
    <3>2. HoldOk(runs[q]) /\ JournalOk(runs[q], reports[q], desktops[q])
      BY LabFacts
    <3>3. RootOk(q, runs[q], desktops[q])'
      BY <2>2
    <3> QED
      BY <3>1, <3>2, <3>3
  <2> QED
    BY <2>1, <2>2
<1> QED
  BY <1>2, <1>3 DEF LabInv

(* A step of the run that has the lease: only its own parts are at stake.    *)
LEMMA LabGoes ==
  ASSUME LabInv, NEW r \in Runs, runs[r].pc \notin LabEnded, NEW h \in LabRun, NEW p \in LabReport, NEW d \in LabDesk,
         runs' = [runs EXCEPT ![r] = h], reports' = [reports EXCEPT ![r] = p], desktops' = [desktops EXCEPT ![r] = d],
         root' \in LabRootRec, root'.lease \in {0, r}, ~root'.empty, HoldOk(h), JournalOk(h, p, d), RootOk(r, h, d)'
  PROVE  LabInv'
<1>1. ASSUME NEW q \in Runs, q # r
      PROVE  RootOk(q, runs[q], desktops[q])'
  <2>1. runs[q].pc \in LabEnded /\ desktops[q] # "running" /\ runs'[q] = runs[q] /\ desktops'[q] = desktops[q]
    BY <1>1, LabHolder, LabFacts
  <2>2. runs[q].pc \notin LabSeeded /\ runs[q].pc # "copying" /\ runs[q].pc # "guarded"
    BY <2>1 DEF LabEnded, LabSeeded
  <2>3. root'.lease # q
    BY <1>1, LabFacts
  <2> QED
    BY <2>1, <2>2, <2>3 DEF RootOk, LabEnded
<1> QED
  BY <1>1, LabMoves
(* The process of a run ends before it held a Desktop, or with it.           *)
LEMMA LabLeaves ==
  ASSUME LabInv, NEW r \in Runs, NEW result \in {"ok", "failed", "refused"}, LeaveRun(r, result), UNCHANGED desktops,
         runs[r].pc \in {"opened"} \cup LabPreparing \cup {"exit"},
         result = "ok" => runs[r].pc \in LabPreparing
  PROVE  LabInv'
<1>1. runs[r] \in LabRun /\ reports[r] \in LabReport /\ root \in LabRootRec
      /\ JournalOk(runs[r], reports[r], desktops[r]) /\ RootOk(r, runs[r], desktops[r]) /\ runs[r].pc \notin LabEnded
  BY LabFacts DEF LabEnded, LabPreparing
<1>2. PICK h : h = [NewRun EXCEPT !.pc = "done", !.result = result, !.fail = runs[r].fail]
  OBVIOUS
<1>3. /\ h \in LabRun /\ h.pc = "done" /\ h.result = result /\ h.fail = runs[r].fail /\ h.rt = "off" /\ ~h.verified
  <2>1. PICK f : f = runs[r].fail
    OBVIOUS
  <2>2. f \in BOOLEAN
    BY <1>1, <2>1 DEF LabRun
  <2>3. h = [pc |-> "done", from |-> 0, safe |-> FALSE, trace |-> FALSE, cfg |-> 0, quit |-> "no", verified |-> FALSE,
             fail |-> f, cdp |-> "none", seen |-> FALSE, rt |-> "off", again |-> FALSE, pumpfail |-> FALSE,
             upd |-> "no", rehearsal |-> FALSE, result |-> result]
    BY <1>2, <2>1 DEF NewRun
  <2>4. 0 \in 0 .. MaxRuns /\ 0 \in Nat
    BY LabFacts
  <2> QED
    BY <2>1, <2>2, <2>3, <2>4 DEF LabRun, LabPcs
<1>4. PICK p : p = [reports[r] EXCEPT !.nochild = reports[r].made /\ ~reports[r].child]
  OBVIOUS
<1>5. /\ p \in LabReport /\ p.child = reports[r].child /\ p.cleanup = reports[r].cleanup /\ (p.nochild => ~p.child)
  BY <1>1, <1>4 DEF LabReport
<1>6. PICK d : d = desktops[r]
  OBVIOUS
<1>7. runs' = [runs EXCEPT ![r] = h] /\ reports' = [reports EXCEPT ![r] = p] /\ desktops' = [desktops EXCEPT ![r] = d]
      /\ d \in LabDesk
  BY <1>2, <1>4, <1>6, LabFacts DEF LeaveRun, Set
<1>8. /\ root' \in LabRootRec /\ root'.lease = 0 /\ root'.empty = root.empty /\ root'.latest = root.latest /\ ~root.empty
  <2>1. root' = [root EXCEPT !.lease = 0]
    BY LabHolder, <1>1 DEF LeaveRun
  <2> QED
    BY <1>1, <2>1, LabFacts, LabHolder DEF LabRootRec
<1>9. HoldOk(h)
  BY <1>3 DEF HoldOk, Stopped, LabHolding
<1>10. JournalOk(h, p, d)
  BY <1>1, <1>3, <1>5, <1>6 DEF JournalOk, LabPreparing, LabHolding
<1>11. RootOk(r, h, d)'
  BY <1>1, <1>3, <1>6, <1>8, LabFacts DEF RootOk, LabEnded, LabSeeded
<1> QED
  BY <1>1, <1>3, <1>5, <1>7, <1>8, <1>9, <1>10, <1>11, LabGoes

(* A run leaves while it prepares; a path is refused; the wait for the child *)
(* fails.                                                                    *)
LEMMA LabEnds ==
  ASSUME LabInv, NEW r \in Runs,
         \/ check_package_version(r) \/ WaitFails(r)
         \/ Reached(r, "prepared") /\ LeaveRun(r, "ok") /\ UNCHANGED desktops
         \/ Reached(r, "guarded") /\ LeaveRun(r, "failed") /\ UNCHANGED desktops
  PROVE  LabInv'
<1>1. CASE check_package_version(r)
  BY <1>1, LabLeaves DEF check_package_version, LabPreparing
<1>2. CASE WaitFails(r)
  BY <1>2, LabLeaves DEF WaitFails, Reached
<1>3. CASE Reached(r, "prepared") /\ LeaveRun(r, "ok") /\ UNCHANGED desktops
  BY <1>3, LabLeaves DEF Reached, LabPreparing
<1>4. CASE Reached(r, "guarded") /\ LeaveRun(r, "failed") /\ UNCHANGED desktops
  BY <1>4, LabLeaves DEF Reached, LabPreparing
<1> QED
  BY <1>1, <1>2, <1>3, <1>4

(* The lease of the root is not to be had: the run is refused and leaves no  *)
(* trace.                                                                    *)
LEMMA LabRefuses ==
  ASSUME LabInv, NEW r \in Runs, pin_lab_ancestry(r)
  PROVE  LabInv'
<1>1. runs[r].pc = "none" /\ UNCHANGED <<root, reports, desktops>>
  BY DEF pin_lab_ancestry, Reached
<1>2. PICK h : h = [NewRun EXCEPT !.pc = "done", !.result = "refused"]
  OBVIOUS
<1>3. h \in LabRun /\ h.pc = "done" /\ h.result = "refused" /\ h.rt = "off" /\ ~h.verified
  BY ZenonT(60), <1>2, LabFacts DEF NewRun, LabRun, LabPcs
<1>4. PICK p, d : p = reports[r] /\ d = desktops[r]
  OBVIOUS
<1>5. /\ runs' = [runs EXCEPT ![r] = h] /\ reports' = [reports EXCEPT ![r] = p] /\ desktops' = [desktops EXCEPT ![r] = d]
      /\ p \in LabReport /\ d \in LabDesk
  BY <1>1, <1>2, <1>4, LabFacts DEF pin_lab_ancestry, Set
<1>6. JournalOk(runs[r], p, d) /\ RootOk(r, runs[r], d)
  BY <1>4, LabFacts
<1>7. HoldOk(h) /\ JournalOk(h, p, d)
  BY <1>1, <1>3, <1>6 DEF HoldOk, JournalOk, LabHolding, LabPreparing, Stopped
<1>8. RootOk(r, h, d)'
  BY <1>1, <1>3, <1>6 DEF RootOk, LabEnded, LabSeeded, SeedVerified
<1>9. ASSUME NEW q \in Runs, q # r
      PROVE  RootOk(q, runs[q], desktops[q])'
  <2>1. runs'[q] = runs[q] /\ desktops'[q] = desktops[q]
    BY <1>5, <1>9, LabFacts
  <2>2. RootOk(q, runs[q], desktops[q])
    BY LabFacts
  <2> QED
    BY <1>1, <2>1, <2>2 DEF RootOk, SeedVerified
<1>10. root' \in LabRootRec
  BY <1>1, LabFacts
<1> QED
  BY <1>3, <1>5, <1>7, <1>8, <1>9, <1>10, LabMoves

(* The lease of a root that is free is taken.                                *)
LEMMA LabOpens ==
  ASSUME LabInv, NEW r \in Runs, NEW h \in LabRun, runs[r].pc = "none", root.lease = 0,
         h.pc = "opened", ~h.verified, ~h.fail, h.rt = "off", h.result = "none",
         \A q \in Runs : desktops[q] # "running",
         runs' = [runs EXCEPT ![r] = h], UNCHANGED <<reports, desktops>>,
         root' \in LabRootRec, root'.lease = r, ~root'.empty
  PROVE  LabInv'
<1>1. PICK p, d : p = reports[r] /\ d = desktops[r]
  OBVIOUS
<1>2. /\ reports' = [reports EXCEPT ![r] = p] /\ desktops' = [desktops EXCEPT ![r] = d] /\ p \in LabReport /\ d \in LabDesk
  BY <1>1, LabFacts
<1>3. JournalOk(runs[r], p, d) /\ RootOk(r, runs[r], d)
  BY <1>1, LabFacts
<1>4. HoldOk(h)
  BY DEF HoldOk, LabHolding, Stopped
<1>5. JournalOk(h, p, d)
  BY <1>3 DEF JournalOk, LabHolding, LabPreparing, NoReport
<1>6. RootOk(r, h, d)'
  BY <1>1 DEF RootOk, LabEnded, LabSeeded
<1>7. ASSUME NEW q \in Runs, q # r
      PROVE  RootOk(q, runs[q], desktops[q])'
  <2>1. runs'[q] = runs[q] /\ desktops'[q] = desktops[q] /\ RootOk(q, runs[q], desktops[q]) /\ q # 0
    BY <1>2, <1>7, LabFacts
  <2>2. runs[q].pc \in LabEnded /\ desktops[q] # "running"
    BY <2>1 DEF RootOk
  <2> QED
    BY <1>7, <2>1, <2>2 DEF RootOk, LabEnded, LabSeeded
<1> QED
  BY <1>2, <1>4, <1>5, <1>6, <1>7, LabMoves

(* A new root is claimed, ...                                                *)
LEMMA LabClaims ==
  ASSUME LabInv, NEW r \in Runs, NEW o \in LabOptions, claim(r, o)
  PROVE  LabInv'
<1>1. runs[r].pc = "none" /\ root.empty /\ root.lease = 0 /\ UNCHANGED <<reports, desktops>>
  BY DEF claim, Reached
<1>2. PICK h : h = [Go(r, "opened") EXCEPT !.safe = o.safe, !.trace = o.trace]
  OBVIOUS
<1>3. runs[r] \in LabRun /\ HoldOk(runs[r]) /\ JournalOk(runs[r], reports[r], desktops[r]) /\ root \in LabRootRec
  BY LabFacts
<1>4. o.safe \in BOOLEAN /\ o.trace \in BOOLEAN
  BY DEF LabOptions
<1>5. h \in LabRun /\ h.pc = "opened" /\ h.verified = runs[r].verified /\ h.fail = runs[r].fail /\ h.rt = runs[r].rt /\ h.result = runs[r].result
  BY <1>2, <1>3, <1>4 DEF Go, LabRun, LabPcs
<1>6. runs[r] = NewRun
  BY <1>1, <1>3 DEF JournalOk
<1>7. ~h.verified /\ ~h.fail /\ h.rt = "off" /\ h.result = "none"
  BY <1>5, <1>6 DEF NewRun
<1>8. runs' = [runs EXCEPT ![r] = h]
  BY <1>2 DEF claim, Set
<1>9. root' \in LabRootRec /\ root'.lease = r /\ ~root'.empty
  <2>1. root' = [root EXCEPT !.lease = r, !.empty = FALSE] /\ r \in 0 .. MaxRuns
    BY LabFacts DEF claim
  <2> QED
    BY <1>3, <2>1 DEF LabRootRec
<1>10. \A q \in Runs : desktops[q] # "running"
  BY <1>1 DEF LabInv, RootOk
<1> QED
  BY <1>1, <1>5, <1>7, <1>8, <1>9, <1>10, LabOpens

(* ... or an old one resumed, after its last run was recovered.              *)
LEMMA LabResumes ==
  ASSUME LabInv, NEW r \in Runs, NEW q \in Runs, NEW o \in LabOptions, resume_with_recovery(r, q, o)
  PROVE  LabInv'
<1>1. runs[r].pc = "none" /\ ~root.empty /\ root.lease = 0 /\ UNCHANGED <<reports, desktops>> /\ verify(q, o.recover)
  BY DEF resume_with_recovery, Reached
<1>2. PICK h : h = [Go(r, "opened") EXCEPT !.from = q, !.cfg = root.cfg, !.safe = o.safe]
  OBVIOUS
<1>3. runs[r] \in LabRun /\ HoldOk(runs[r]) /\ JournalOk(runs[r], reports[r], desktops[r]) /\ root \in LabRootRec /\ q \in 0 .. MaxRuns
  BY LabFacts
<1>4. o.safe \in BOOLEAN /\ root.cfg \in Nat
  BY <1>3 DEF LabOptions, LabRootRec
<1>5. h \in LabRun /\ h.pc = "opened" /\ h.verified = runs[r].verified /\ h.fail = runs[r].fail /\ h.rt = runs[r].rt /\ h.result = runs[r].result
  BY <1>2, <1>3, <1>4 DEF Go, LabRun, LabPcs
<1>6. runs[r] = NewRun
  BY <1>1, <1>3 DEF JournalOk
<1>7. ~h.verified /\ ~h.fail /\ h.rt = "off" /\ h.result = "none"
  BY <1>5, <1>6 DEF NewRun
<1>8. runs' = [runs EXCEPT ![r] = h]
  BY <1>2 DEF resume_with_recovery, Set
<1>9. root' \in LabRootRec /\ root'.lease = r /\ ~root'.empty
  <2>1. root' = [root EXCEPT !.lease = r] /\ r \in 0 .. MaxRuns
    BY LabFacts DEF resume_with_recovery
  <2> QED
    BY <1>1, <1>3, <2>1 DEF LabRootRec
<1>10. ASSUME NEW x \in Runs, desktops[x] = "running"
       PROVE  FALSE
  <2>1. x = q
    BY <1>1, <1>10 DEF LabInv, RootOk, verify, latest_report
  <2>2. ~reports[q].child /\ ~reports[q].nochild
    BY <1>1, <1>10, <2>1 DEF LabInv, JournalOk, verify, child_still_running
  <2> QED
    BY <1>1, <2>2 DEF verify, parse_reader, ClosedRun
<1> QED
  BY <1>1, <1>5, <1>7, <1>8, <1>9, <1>10, LabOpens

(* A step of the preparation: the run goes on to another station.            *)
LEMMA LabPrepares ==
  ASSUME LabInv, NEW r \in Runs, NEW pc \in LabPreparing, NEW rt \in {"off", "ready"},
         runs[r].pc \in LabPreparing, runs' = [runs EXCEPT ![r] = [runs[r] EXCEPT !.pc = pc, !.rt = rt]],
         root' \in LabRootRec, root'.lease = root.lease, ~root'.empty, root'.latest = root.latest,
         UNCHANGED <<reports, desktops>>,
         pc = "copying" => root'.seed \in {"part", "marked"},
         pc \in LabSeeded /\ runs[r].from = 0 => root'.seed = "whole",
         pc = "guarded" => root'.cfg = runs[r].cfg /\ root'.seed \in {"marked", "whole"}
  PROVE  LabInv'
<1>1. PICK p, d : p = reports[r] /\ d = desktops[r]
  OBVIOUS
<1>2. PICK h : h = [runs[r] EXCEPT !.pc = pc, !.rt = rt]
  OBVIOUS
<1>3. /\ runs' = [runs EXCEPT ![r] = h]
      /\ reports' = [reports EXCEPT ![r] = p] /\ desktops' = [desktops EXCEPT ![r] = d] /\ p \in LabReport /\ d \in LabDesk
      /\ HoldOk(runs[r]) /\ JournalOk(runs[r], p, d) /\ RootOk(r, runs[r], d) /\ runs[r] \in LabRun
  BY <1>1, <1>2, LabFacts
<1>4. pc \in LabPcs /\ pc \notin LabEnded /\ pc # "opened" /\ pc # "created" /\ pc \notin LabHolding /\ pc # "none" /\ pc # "done"
  BY DEF LabPcs, LabPreparing, LabEnded, LabHolding
<1>5. /\ h \in LabRun /\ h.pc = pc /\ h.rt = rt /\ h.verified = runs[r].verified /\ h.fail = runs[r].fail
      /\ h.result = runs[r].result /\ h.from = runs[r].from /\ h.cfg = runs[r].cfg
  BY <1>2, <1>3, <1>4 DEF LabRun
<1>6. runs[r].pc \notin LabEnded /\ runs[r].pc # "opened" /\ runs[r].pc # "done" /\ runs[r].pc \notin LabHolding
  BY DEF LabPreparing, LabEnded, LabHolding
<1>7. HoldOk(h)
  BY <1>3, <1>4, <1>5, <1>6 DEF HoldOk, Stopped
<1>8. JournalOk(h, p, d)
  BY <1>3, <1>4, <1>5, <1>6 DEF JournalOk
<1>9. RootOk(r, h, d)'
  BY <1>3, <1>4, <1>5, <1>6 DEF RootOk, SeedVerified, LabEnded
<1>10. root'.lease \in {0, r}
  BY <1>6, LabHolder
<1> QED
  BY <1>3, <1>5, <1>6, <1>7, <1>8, <1>9, <1>10, LabGoes

(* A step of the preparation that moves the run on, and maybe the root.      *)
LEMMA LabPlain ==
  ASSUME LabInv, NEW r \in Runs, NEW pc \in LabPreparing,
         runs[r].pc \in LabPreparing, Set(r, Go(r, pc)),
         root' \in LabRootRec, root'.lease = root.lease, ~root'.empty, root'.latest = root.latest,
         UNCHANGED <<reports, desktops>>,
         pc = "copying" => root'.seed \in {"part", "marked"},
         pc \in LabSeeded /\ runs[r].from = 0 => root'.seed = "whole",
         pc = "guarded" => root'.cfg = runs[r].cfg /\ root'.seed \in {"marked", "whole"}
  PROVE  LabInv'
<1>1. runs[r] \in LabRun /\ HoldOk(runs[r])
  BY LabFacts
<1>2. PICK rt : rt = runs[r].rt
  OBVIOUS
<1>3. rt \in {"off", "ready"}
  BY <1>1, <1>2 DEF HoldOk, LabRun, LabPreparing, LabHolding, Stopped
<1>4. runs' = [runs EXCEPT ![r] = [runs[r] EXCEPT !.pc = pc, !.rt = rt]]
  <2>1. [runs[r] EXCEPT !.pc = pc] = [runs[r] EXCEPT !.pc = pc, !.rt = rt]
    BY <1>1, <1>2 DEF LabRun
  <2> QED
    BY <2>1 DEF Set, Go
<1> QED
  BY <1>3, <1>4, LabPrepares

(* The report is made.                                                       *)
LEMMA LabReports ==
  ASSUME LabInv, NEW r \in Runs, report(r)
  PROVE  LabInv'
<1>1. /\ runs[r].pc = "opened" /\ runs[r] \in LabRun /\ root \in LabRootRec /\ r \in 0 .. MaxRuns
      /\ HoldOk(runs[r]) /\ JournalOk(runs[r], reports[r], desktops[r]) /\ RootOk(r, runs[r], desktops[r])
      /\ UNCHANGED desktops
  BY LabFacts DEF report, Reached
<1>2. PICK h : h = [runs[r] EXCEPT !.pc = "reported"]
  OBVIOUS
<1>3. /\ h \in LabRun /\ h.pc = "reported" /\ h.rt = runs[r].rt /\ h.verified = runs[r].verified /\ h.fail = runs[r].fail
      /\ h.result = runs[r].result
  BY <1>1, <1>2 DEF LabRun, LabPcs
<1>4. PICK p : p = [NoReport EXCEPT !.made = TRUE, !.header = TRUE]
  OBVIOUS
<1>5. p \in LabReport /\ p.made /\ ~p.child /\ p.cleanup = "none" /\ ~p.nochild
  BY <1>4 DEF NoReport, LabReport
<1>6. PICK d : d = desktops[r]
  OBVIOUS
<1>7. /\ runs' = [runs EXCEPT ![r] = h] /\ reports' = [reports EXCEPT ![r] = p] /\ desktops' = [desktops EXCEPT ![r] = d]
      /\ d \in LabDesk
  BY <1>1, <1>2, <1>4, <1>6, LabFacts DEF report, Set, Go
<1>8. root' \in LabRootRec /\ root'.lease = root.lease /\ root'.empty = root.empty /\ root'.latest = r
  <2>1. root' = [root EXCEPT !.latest = r]
    BY DEF report
  <2> QED
    BY <1>1, <2>1 DEF LabRootRec
<1>9. root.lease = r /\ ~root.empty /\ runs[r].pc \notin LabEnded
  BY <1>1, LabHolder DEF LabEnded
<1>10. HoldOk(h)
  BY <1>1, <1>3 DEF HoldOk, Stopped, LabHolding
<1>11. JournalOk(h, p, d)
  BY <1>1, <1>3, <1>5, <1>6 DEF JournalOk, LabPreparing, LabHolding
<1>12. RootOk(r, h, d)'
  BY <1>1, <1>3, <1>6, <1>8, <1>9 DEF RootOk, LabEnded, LabSeeded
<1> QED
  BY <1>3, <1>5, <1>7, <1>8, <1>9, <1>10, <1>11, <1>12, LabGoes

(* The steps from the report to the guarded configuration.                   *)
LEMMA LabGetsReady ==
  ASSUME LabInv, NEW r \in Runs,
         \/ copy_contents(r) \/ reuse(r) \/ prepare_lab(r) \/ lab_environment(r) \/ verify_configuration(r)
         \/ Reached(r, "prepared") /\ Set(r, Go(r, "confirmed")) /\ UNCHANGED <<root, reports, desktops>>
  PROVE  LabInv'
<1>0. /\ runs[r] \in LabRun /\ root \in LabRootRec /\ RootOk(r, runs[r], desktops[r]) /\ HoldOk(runs[r])
      /\ (runs[r].pc \in LabPreparing => ~root.empty)
  BY LabFacts, LabHolder DEF LabPreparing, LabEnded
<1>1. CASE Reached(r, "reported") /\ root.seed = "none" /\ root' = [root EXCEPT !.seed = "part"] /\ Set(r, Go(r, "copying")) /\ UNCHANGED <<reports, desktops>>
  <2>1. runs[r].pc = "reported" /\ "reported" \in LabPreparing /\ "copying" \in LabPreparing /\ "copying" \notin LabSeeded
    BY <1>1 DEF Reached, LabPreparing, LabSeeded
  <2>2. root' \in LabRootRec /\ root'.lease = root.lease /\ ~root'.empty /\ root'.latest = root.latest /\ root'.seed = "part"
    BY <1>0, <1>1, <2>1 DEF LabRootRec
  <2> QED
    BY <1>1, <2>1, <2>2, LabPlain
<1>2. CASE Reached(r, "copying") /\ root.seed = "part" /\ root' = [root EXCEPT !.seed = "marked"] /\ UNCHANGED runs /\ UNCHANGED <<reports, desktops>>
  <2>1. runs[r].pc = "copying" /\ "copying" \in LabPreparing /\ "copying" \notin LabSeeded
    BY <1>2 DEF Reached, LabPreparing, LabSeeded
  <2>2. root' \in LabRootRec /\ root'.lease = root.lease /\ ~root'.empty /\ root'.latest = root.latest /\ root'.seed = "marked"
    BY <1>0, <1>2, <2>1 DEF LabRootRec
  <2>3. Set(r, Go(r, "copying"))
    <3>1. [runs[r] EXCEPT !.pc = "copying"] = runs[r]
      BY <1>0, <2>1 DEF LabRun
    <3> QED
      BY <1>2, <3>1, LabFacts DEF Set, Go
  <2> QED
    BY <1>2, <2>1, <2>2, <2>3, LabPlain
<1>3. CASE Reached(r, "copying") /\ root.seed = "marked" /\ root' = [root EXCEPT !.seed = "whole"] /\ Set(r, Go(r, "seeded")) /\ UNCHANGED <<reports, desktops>>
  <2>1. runs[r].pc = "copying" /\ "copying" \in LabPreparing /\ "seeded" \in LabPreparing
    BY <1>3 DEF Reached, LabPreparing
  <2>2. root' \in LabRootRec /\ root'.lease = root.lease /\ ~root'.empty /\ root'.latest = root.latest /\ root'.seed = "whole"
    BY <1>0, <1>3, <2>1 DEF LabRootRec
  <2> QED
    BY <1>3, <2>1, <2>2, LabPlain
<1>4. CASE reuse(r)
  <2>1. runs[r].pc = "reported" /\ "reported" \in LabPreparing /\ "seeded" \in LabPreparing /\ runs[r].from # 0 /\ UNCHANGED <<root, reports, desktops>>
    BY <1>4 DEF Reached, LabPreparing, reuse
  <2> QED
    BY <1>0, <1>4, <2>1, LabPlain DEF reuse
<1>5. CASE lab_environment(r)
  <2>1. runs[r].pc = "loaded" /\ "loaded" \in LabPreparing /\ "prepared" \in LabPreparing /\ "loaded" \in LabSeeded /\ UNCHANGED <<root, reports, desktops>>
    BY <1>5 DEF Reached, LabPreparing, LabSeeded, lab_environment
  <2>2. runs[r].from = 0 => root.seed = "whole"
    BY <1>0, <2>1 DEF RootOk
  <2> QED
    BY <1>0, <1>5, <2>1, <2>2, LabPlain DEF lab_environment
<1>6. CASE Reached(r, "prepared") /\ Set(r, Go(r, "confirmed")) /\ UNCHANGED <<root, reports, desktops>>
  <2>1. runs[r].pc = "prepared" /\ "prepared" \in LabPreparing /\ "confirmed" \in LabPreparing /\ "prepared" \in LabSeeded
    BY <1>6 DEF Reached, LabPreparing, LabSeeded
  <2>2. runs[r].from = 0 => root.seed = "whole"
    BY <1>0, <2>1 DEF RootOk
  <2> QED
    BY <1>0, <1>6, <2>1, <2>2, LabPlain
<1>7. CASE verify_configuration(r)
  <2>1. runs[r].pc = "confirmed" /\ "confirmed" \in LabPreparing /\ "guarded" \in LabPreparing /\ "confirmed" \in LabSeeded /\ UNCHANGED <<root, reports, desktops>>
        /\ root.cfg = runs[r].cfg /\ root.seed \in {"marked", "whole"}
    BY <1>7 DEF Reached, LabPreparing, LabSeeded, verify_configuration, SeedVerified
  <2>2. runs[r].from = 0 => root.seed = "whole"
    BY <1>0, <2>1 DEF RootOk
  <2> QED
    BY <1>0, <1>7, <2>1, <2>2, LabPlain DEF verify_configuration
<1>8. CASE prepare_lab(r)
  <2>1. runs[r].pc = "seeded" /\ "seeded" \in LabPreparing /\ "loaded" \in LabPreparing /\ "seeded" \in LabSeeded /\ UNCHANGED <<root, reports, desktops>>
    BY <1>8 DEF Reached, LabPreparing, LabSeeded, prepare_lab
  <2>2. runs[r].from = 0 => root.seed = "whole"
    BY <1>0, <2>1 DEF RootOk
  <2>3. runs' = [runs EXCEPT ![r] = [runs[r] EXCEPT !.pc = "loaded", !.rt = "ready"]]
    BY <1>8 DEF prepare_lab, Set, Go
  <2> QED
    BY <1>0, <2>1, <2>2, <2>3, LabPrepares
<1> QED
  BY <1>1, <1>2, <1>3, <1>4, <1>5, <1>6, <1>7, <1>8 DEF copy_contents

(* The Desktop is created, and recorded.                                     *)
LEMMA LabLaunches ==
  ASSUME LabInv, NEW r \in Runs, launch(r) \/ ChildCreated(r)
  PROVE  LabInv'
<1>0. /\ runs[r] \in LabRun /\ root \in LabRootRec /\ reports[r] \in LabReport
      /\ HoldOk(runs[r]) /\ JournalOk(runs[r], reports[r], desktops[r]) /\ RootOk(r, runs[r], desktops[r])
      /\ runs[r].pc \notin LabEnded /\ root.lease = r /\ ~root.empty
  BY LabFacts, LabHolder DEF launch, ChildCreated, Reached, LabEnded
<1>1. CASE Reached(r, "guarded") /\ LeaveRun(r, "failed") /\ UNCHANGED desktops
  BY <1>1, LabEnds
<1>2. CASE Reached(r, "guarded") /\ desktops' = [desktops EXCEPT ![r] = "running"] /\ Set(r, Go(r, "created")) /\ UNCHANGED <<root, reports>>
  <2>1. PICK h, p : h = [runs[r] EXCEPT !.pc = "created"] /\ p = reports[r]
    OBVIOUS
  <2>2. /\ h \in LabRun /\ h.pc = "created" /\ h.rt = runs[r].rt /\ h.verified = runs[r].verified /\ h.fail = runs[r].fail
        /\ h.result = runs[r].result
    BY <1>0, <2>1 DEF LabRun, LabPcs
  <2>3. runs' = [runs EXCEPT ![r] = h] /\ reports' = [reports EXCEPT ![r] = p] /\ runs[r].pc = "guarded"
    BY <1>2, <2>1, LabFacts DEF Set, Go, Reached
  <2>4. HoldOk(h)
    BY <1>0, <2>2, <2>3 DEF HoldOk, Stopped, LabHolding
  <2>5. JournalOk(h, p, "running")
    <3>1. ~p.nochild
      BY <1>0, <2>1, <2>3 DEF JournalOk, LabPreparing
    <3> QED
      BY <1>0, <2>1, <2>2, <2>3, <3>1 DEF JournalOk, LabPreparing, LabHolding
  <2>6. RootOk(r, h, "running")'
    BY <1>0, <1>2, <2>2, <2>3 DEF RootOk, LabEnded, LabSeeded
  <2> QED
    BY <1>0, <1>2, <2>1, <2>2, <2>3, <2>4, <2>5, <2>6, LabGoes DEF LabDesk
<1>3. CASE ChildCreated(r)
  <2>0. PICK cdp \in {"open", "none"}, unknown \in BOOLEAN :
           /\ Set(r, [Go(r, "exit") EXCEPT !.cdp = cdp])
           /\ reports' = [reports EXCEPT ![r].child = TRUE, ![r].torn = unknown]
    BY <1>3 DEF ChildCreated
  <2>1. PICK h, p, d : h = [runs[r] EXCEPT !.pc = "exit", !.cdp = cdp] /\ p = [reports[r] EXCEPT !.child = TRUE, !.torn = unknown] /\ d = desktops[r]
    OBVIOUS
  <2>2. /\ h \in LabRun /\ h.pc = "exit" /\ h.rt = runs[r].rt /\ h.verified = runs[r].verified /\ h.fail = runs[r].fail
        /\ h.result = runs[r].result
    <3>1. PICK rep : rep = runs[r]
      OBVIOUS
    <3>2. rep \in LabRun /\ h = [rep EXCEPT !.pc = "exit", !.cdp = cdp] /\ "exit" \in LabPcs /\ cdp \in {"none", "open", "closed"}
      BY <1>0, <2>1, <3>1 DEF LabPcs
    <3>3. h \in LabRun /\ h.pc = "exit" /\ h.rt = rep.rt /\ h.verified = rep.verified /\ h.fail = rep.fail /\ h.result = rep.result
      BY <3>2 DEF LabRun
    <3> QED
      BY <3>1, <3>3
  <2>3. /\ runs' = [runs EXCEPT ![r] = h] /\ reports' = [reports EXCEPT ![r] = p] /\ desktops' = [desktops EXCEPT ![r] = d]
        /\ runs[r].pc = "created" /\ d \in LabDesk /\ UNCHANGED root
    BY <1>0, <1>3, <2>0, <2>1, LabFacts DEF Set, Go, Reached, ChildCreated
  <2>4. p \in LabReport /\ p.child /\ p.cleanup = reports[r].cleanup /\ p.nochild = reports[r].nochild /\ p.made = reports[r].made
    BY <1>0, <2>1 DEF LabReport
  <2>5. HoldOk(h)
    BY <1>0, <2>2, <2>3 DEF HoldOk, Stopped, LabHolding
  <2>6. JournalOk(h, p, d)
    BY <1>0, <2>1, <2>2, <2>3, <2>4 DEF JournalOk, LabPreparing, LabHolding
  <2>7. RootOk(r, h, d)'
    BY <1>0, <2>1, <2>2, <2>3 DEF RootOk, LabEnded, LabSeeded
  <2> QED
    BY <1>0, <2>2, <2>3, <2>4, <2>5, <2>6, <2>7, LabGoes
<1> QED
  BY <1>1, <1>2, <1>3 DEF launch

(* What holds of a run between the stop of its runtime and the quit.         *)
HoldWeak(h) ==
    /\ h.pc \in LabHolding
    /\ h.rt \in {"active", "dirty"} => h.verified
    /\ h.verified /\ h.cdp # "none" /\ ~h.safe => h.rt = "active" \/ Stopped(h)

(* The runtime stops: it is clean, or dirty, and nothing else of the run is  *)
(* touched.                                                                  *)
LEMMA LabStops ==
  ASSUME NEW r \in Runs, NEW h \in LabRun, HoldWeak(h), NEW clean \in BOOLEAN, NEW s, s = stop(r, h, clean)
  PROVE  /\ s \in LabRun /\ HoldWeak(s) /\ s.pc = h.pc /\ s.quit = h.quit /\ s.seen = h.seen /\ s.pumpfail = h.pumpfail
         /\ s.verified = h.verified /\ s.cdp = h.cdp /\ s.safe = h.safe /\ s.result = h.result /\ s.fail = h.fail
         /\ s.rehearsal = h.rehearsal /\ (h.rt = "dirty" => s.rt = "dirty") /\ (~h.safe => Stopped(s))
<1>1. CASE Stopped(h) \/ h.safe
  BY <1>1 DEF stop
<1>2. CASE ~ (Stopped(h) \/ h.safe)
  <2>1. PICK rt : rt = IF clean \/ h.rt # "active" THEN "clean" ELSE "dirty"
    OBVIOUS
  <2>2. rt \in {"clean", "dirty"} /\ (rt = "dirty" => h.rt = "active")
    BY <2>1
  <2>3. s = [h EXCEPT !.rt = rt]
    BY <1>2, <2>1 DEF stop
  <2>4. /\ s \in LabRun /\ s.rt = rt /\ s.pc = h.pc /\ s.quit = h.quit /\ s.seen = h.seen /\ s.pumpfail = h.pumpfail
        /\ s.verified = h.verified /\ s.cdp = h.cdp /\ s.safe = h.safe /\ s.result = h.result /\ s.fail = h.fail
        /\ s.rehearsal = h.rehearsal
    BY <2>2, <2>3 DEF LabRun
  <2> QED
    BY <1>2, <2>2, <2>4 DEF HoldWeak, Stopped
<1> QED
  BY <1>1, <1>2

(* A quit is asked once.                                                     *)
LEMMA LabQuits ==
  ASSUME NEW h \in LabRun, HoldWeak(h), NEW s, s = request_own_child_quit(h)
  PROVE  /\ s \in LabRun /\ HoldWeak(s) /\ s.pc = h.pc /\ s.quit # "no" /\ s.seen = h.seen /\ s.pumpfail = h.pumpfail
         /\ s.result = h.result /\ s.rt = h.rt
<1>1. PICK q : q = IF h.quit = "no" THEN "asked" ELSE h.quit
  OBVIOUS
<1>2. s = [h EXCEPT !.quit = q] /\ q \in {"asked", "late"}
  BY <1>1 DEF request_own_child_quit, LabRun
<1>3. /\ s \in LabRun /\ s.pc = h.pc /\ s.quit = q /\ s.seen = h.seen /\ s.pumpfail = h.pumpfail
      /\ s.verified = h.verified /\ s.cdp = h.cdp /\ s.safe = h.safe /\ s.result = h.result /\ s.rt = h.rt
  BY <1>2 DEF LabRun
<1> QED
  BY <1>2, <1>3 DEF HoldWeak, Stopped

(* One step of the loop that holds the Desktop.                              *)
LEMMA LabLoops ==
  ASSUME LabInv, NEW r \in Runs, NEW h \in LabRun, NEW pc \in LabHolding, runs[r].pc \in LabHolding, Loop(r, h, pc), HoldWeak(h),
         Stopped(h) => h.quit # "no" \/ h.seen \/ h.pumpfail, runs[r].rt = "dirty" => h.rt = "dirty",
         h.result = runs[r].result
  PROVE  LabInv'
<1>0. /\ runs[r] \in LabRun /\ root \in LabRootRec /\ reports[r] \in LabReport
      /\ HoldOk(runs[r]) /\ JournalOk(runs[r], reports[r], desktops[r]) /\ RootOk(r, runs[r], desktops[r])
      /\ runs[r].pc \notin LabEnded /\ root.lease = r /\ ~root.empty
  BY LabFacts, LabHolder DEF LabHolding, LabEnded
<1>1. PICK x : x = [h EXCEPT !.pc = pc]
  OBVIOUS
<1>2. /\ x \in LabRun /\ x.pc = pc /\ x.rt = h.rt /\ x.quit = h.quit /\ x.seen = h.seen /\ x.pumpfail = h.pumpfail
      /\ x.verified = h.verified /\ x.cdp = h.cdp /\ x.safe = h.safe /\ x.result = h.result
  <2>1. pc \in LabPcs
    BY DEF LabHolding, LabPcs
  <2> QED
    BY <1>1, <2>1 DEF LabRun
<1>3. PICK p : p = Recorded(r, h)[r]
  OBVIOUS
<1>4. /\ p \in LabReport /\ p.child = reports[r].child /\ p.made = reports[r].made /\ p.nochild = reports[r].nochild
      /\ (p.cleanup = "dirty" => h.rt = "dirty")
      /\ reports' = [reports EXCEPT ![r] = p]
  <2>1. CASE Stopped(h) /\ ~h.safe
    <3>1. PICK rep : rep = reports[r]
      OBVIOUS
    <3>2. h.rt \in {"clean", "dirty"} /\ rep \in LabReport
      BY <1>0, <2>1, <3>1 DEF Stopped
    <3>3. reports' = [reports EXCEPT ![r] = [rep EXCEPT !.cleanup = h.rt]]
      BY <2>1, <3>1 DEF Recorded, Loop
    <3>4. p = [rep EXCEPT !.cleanup = h.rt]
      BY <1>3, <2>1, <3>1, <3>3, LabFacts DEF Loop, Recorded
    <3>5. p \in LabReport /\ p.child = rep.child /\ p.made = rep.made /\ p.nochild = rep.nochild /\ p.cleanup = h.rt
      BY <3>2, <3>4 DEF LabReport
    <3> QED
      BY <3>1, <3>3, <3>4, <3>5
  <2>2. CASE ~ (Stopped(h) /\ ~h.safe)
    <3>1. p = reports[r] /\ reports' = reports
      BY <1>3, <2>2 DEF Recorded, Loop
    <3>2. p.cleanup = "dirty" => h.rt = "dirty"
      BY <1>0, <3>1 DEF JournalOk, LabHolding
    <3> QED
      BY <1>0, <3>1, <3>2, LabFacts
  <2> QED
    BY <2>1, <2>2
<1>5. PICK d : d = desktops[r]
  OBVIOUS
<1>6. runs' = [runs EXCEPT ![r] = x] /\ desktops' = [desktops EXCEPT ![r] = d] /\ d \in LabDesk /\ UNCHANGED root
  BY <1>1, <1>5, LabFacts DEF Loop, Set
<1>7. HoldOk(x)
  BY <1>2 DEF HoldOk, HoldWeak, Stopped
<1>8. JournalOk(x, p, d)
  BY <1>0, <1>2, <1>4, <1>5 DEF JournalOk, LabHolding, LabPreparing
<1>9. RootOk(r, x, d)'
  BY <1>0, <1>2, <1>5, <1>6 DEF RootOk, LabEnded, LabHolding, LabSeeded
<1> QED
  BY <1>0, <1>2, <1>4, <1>6, <1>7, <1>8, <1>9, LabGoes

(* A run in that loop satisfies the weaker condition.                        *)
LEMMA LabHeld ==
  ASSUME LabInv, NEW r \in Runs, runs[r].pc \in LabHolding
  PROVE  runs[r] \in LabRun /\ HoldWeak(runs[r]) /\ (Stopped(runs[r]) => runs[r].quit # "no" \/ runs[r].seen \/ runs[r].pumpfail)
  BY LabFacts DEF HoldOk, HoldWeak

(* The runtime is stopped and the quit is requested.                         *)
LEMMA LabStopsAndQuits ==
  ASSUME LabInv, NEW r \in Runs, NEW y \in LabRun, HoldWeak(y), NEW clean \in BOOLEAN, NEW pc \in LabHolding,
         runs[r].pc \in LabHolding, Loop(r, request_own_child_quit(stop(r, y, clean)), pc),
         runs[r].rt = "dirty" => y.rt = "dirty", y.result = runs[r].result
  PROVE  LabInv'
<1>1. PICK s : s = stop(r, y, clean)
  OBVIOUS
<1>2. s \in LabRun /\ HoldWeak(s) /\ s.result = y.result /\ (y.rt = "dirty" => s.rt = "dirty")
  BY <1>1, LabStops
<1>3. PICK q : q = request_own_child_quit(s)
  OBVIOUS
<1>4. q \in LabRun /\ HoldWeak(q) /\ q.quit # "no" /\ q.result = s.result /\ q.rt = s.rt
  BY <1>2, <1>3, LabQuits
<1>5. Loop(r, q, pc)
  BY <1>1, <1>3
<1> QED
  BY <1>2, <1>4, <1>5, LabLoops

(* The runtime is stopped for a reason the run remembers.                    *)
LEMMA LabStopsFor ==
  ASSUME LabInv, NEW r \in Runs, NEW y \in LabRun, HoldWeak(y), NEW clean \in BOOLEAN, NEW pc \in LabHolding,
         runs[r].pc \in LabHolding, Loop(r, stop(r, y, clean), pc), y.seen \/ y.pumpfail,
         runs[r].rt = "dirty" => y.rt = "dirty", y.result = runs[r].result
  PROVE  LabInv'
<1>1. PICK s : s = stop(r, y, clean)
  OBVIOUS
<1>2. s \in LabRun /\ HoldWeak(s) /\ s.result = y.result /\ (y.rt = "dirty" => s.rt = "dirty") /\ s.seen = y.seen /\ s.pumpfail = y.pumpfail
  BY <1>1, LabStops
<1>3. Loop(r, s, pc)
  BY <1>1
<1> QED
  BY <1>2, <1>3, LabLoops

(* The input of the user: a quit, or the end of the input.                   *)
LEMMA LabInput ==
  ASSUME LabInv, NEW r \in Runs, NEW clean \in BOOLEAN, HoldInput(r, clean)
  PROVE  LabInv'
<1>1. PICK h : h = runs[r]
  OBVIOUS
<1>2. h.pc = "input" /\ runs[r].pc \in LabHolding /\ "cdp" \in LabHolding
  BY <1>1 DEF HoldInput, Reached, LabHolding
<1>3. h \in LabRun /\ HoldWeak(h) /\ (Stopped(h) => h.quit # "no" \/ h.seen \/ h.pumpfail)
  BY <1>1, <1>2, LabHeld
<1>4. CASE Loop(r, h, "cdp")
  BY <1>1, <1>2, <1>3, <1>4, LabLoops
<1>5. CASE Loop(r, request_own_child_quit(stop(r, h, clean)), "cdp")
  BY <1>1, <1>2, <1>3, <1>5, LabStopsAndQuits
<1>6. CASE Loop(r, request_own_child_quit(stop(r, [h EXCEPT !.rehearsal = TRUE], clean)), "cdp")
  <2>1. PICK y : y = [h EXCEPT !.rehearsal = TRUE]
    OBVIOUS
  <2>2. /\ y \in LabRun /\ y.pc = h.pc /\ y.rt = h.rt /\ y.verified = h.verified /\ y.cdp = h.cdp /\ y.safe = h.safe /\ y.result = h.result
    BY <1>3, <2>1 DEF LabRun
  <2>3. HoldWeak(y)
    BY <1>3, <2>2 DEF HoldWeak, Stopped
  <2> QED
    BY <1>1, <1>2, <1>6, <2>1, <2>2, <2>3, LabStopsAndQuits
<1> QED
  BY <1>1, <1>4, <1>5, <1>6 DEF HoldInput

(* The connection is seen closed, or is not.                                 *)
LEMMA LabCdp ==
  ASSUME LabInv, NEW r \in Runs, NEW clean \in BOOLEAN, HoldCdp(r, clean)
  PROVE  LabInv'
<1>1. PICK h : h = runs[r]
  OBVIOUS
<1>2. h.pc = "cdp" /\ runs[r].pc \in LabHolding /\ "updates" \in LabHolding
  BY <1>1 DEF HoldCdp, Reached, LabHolding
<1>3. h \in LabRun /\ HoldWeak(h) /\ (Stopped(h) => h.quit # "no" \/ h.seen \/ h.pumpfail)
  BY <1>1, <1>2, LabHeld
<1>4. CASE Loop(r, h, "updates")
  BY <1>1, <1>2, <1>3, <1>4, LabLoops
<1>5. CASE Loop(r, stop(r, [h EXCEPT !.seen = TRUE], clean), "updates")
  <2>1. PICK y : y = [h EXCEPT !.seen = TRUE]
    OBVIOUS
  <2>2. /\ y \in LabRun /\ y.pc = h.pc /\ y.rt = h.rt /\ y.verified = h.verified /\ y.cdp = h.cdp /\ y.safe = h.safe /\ y.result = h.result
        /\ y.seen
    BY <1>3, <2>1 DEF LabRun
  <2>3. HoldWeak(y)
    BY <1>3, <2>2 DEF HoldWeak, Stopped
  <2> QED
    BY <1>1, <1>2, <1>5, <2>1, <2>2, <2>3, LabStopsFor
<1>6. CASE Loop(r, stop(r, [h EXCEPT !.pumpfail = TRUE, !.fail = TRUE], clean), "updates")
  <2>1. PICK y : y = [h EXCEPT !.pumpfail = TRUE, !.fail = TRUE]
    OBVIOUS
  <2>2. /\ y \in LabRun /\ y.pc = h.pc /\ y.rt = h.rt /\ y.verified = h.verified /\ y.cdp = h.cdp /\ y.safe = h.safe /\ y.result = h.result
        /\ y.pumpfail
    BY <1>3, <2>1 DEF LabRun
  <2>3. HoldWeak(y)
    BY <1>3, <2>2 DEF HoldWeak, Stopped
  <2> QED
    BY <1>1, <1>2, <1>6, <2>1, <2>2, <2>3, LabStopsFor
<1> QED
  BY <1>1, <1>4, <1>5, <1>6 DEF HoldCdp

(* The runtime is pumped, and the update with it.                            *)
LEMMA LabPumps ==
  ASSUME LabInv, NEW r \in Runs, HoldUpdates(r)
  PROVE  LabInv'
<1>1. PICK h : h = runs[r]
  OBVIOUS
<1>2. h.pc = "updates" /\ runs[r].pc \in LabHolding /\ "startup" \in LabHolding
  BY <1>1 DEF HoldUpdates, Reached, LabHolding
<1>3. h \in LabRun /\ HoldWeak(h) /\ (Stopped(h) => h.quit # "no" \/ h.seen \/ h.pumpfail)
  BY <1>1, <1>2, LabHeld
<1>4. PICK y \in PumpsUpdate(h) : Loop(r, y, "startup")
  BY <1>1 DEF HoldUpdates
<1>5. y = h \/ \E u \in {"no", "handoff", "waiting"} : y = [h EXCEPT !.upd = u]
  <2>1. h.upd \in {"no", "handoff", "waiting"}
    BY <1>3 DEF LabRun
  <2>2. CASE ~h.verified \/ Stopped(h) \/ h.safe \/ h.quit # "no" \/ h.cdp # "open"
    BY <1>4, <2>2 DEF PumpsUpdate
  <2>3. CASE ~ (~h.verified \/ Stopped(h) \/ h.safe \/ h.quit # "no" \/ h.cdp # "open") /\ h.upd = "no"
    BY <1>4, <2>3 DEF PumpsUpdate
  <2>4. CASE ~ (~h.verified \/ Stopped(h) \/ h.safe \/ h.quit # "no" \/ h.cdp # "open") /\ h.upd = "handoff"
    BY <1>4, <2>4 DEF PumpsUpdate
  <2>5. CASE ~ (~h.verified \/ Stopped(h) \/ h.safe \/ h.quit # "no" \/ h.cdp # "open") /\ h.upd = "waiting"
    BY <1>4, <2>5 DEF PumpsUpdate
  <2> QED
    BY <2>1, <2>2, <2>3, <2>4, <2>5
<1>6. CASE y = h
  BY <1>1, <1>2, <1>3, <1>4, <1>6, LabLoops
<1>7. ASSUME NEW u \in {"no", "handoff", "waiting"}, y = [h EXCEPT !.upd = u]
      PROVE  LabInv'
  <2>2. /\ y \in LabRun /\ y.pc = h.pc /\ y.rt = h.rt /\ y.verified = h.verified /\ y.cdp = h.cdp /\ y.safe = h.safe /\ y.result = h.result
        /\ y.quit = h.quit /\ y.seen = h.seen /\ y.pumpfail = h.pumpfail
    BY <1>3, <1>7 DEF LabRun
  <2>3. HoldWeak(y) /\ (Stopped(y) => y.quit # "no" \/ y.seen \/ y.pumpfail)
    BY <1>3, <2>2 DEF HoldWeak, Stopped
  <2> QED
    BY <1>1, <1>2, <1>4, <2>2, <2>3, LabLoops
<1> QED
  BY <1>5, <1>6, <1>7

(* The startup is verified and the runtime started, or fails.                *)
LEMMA LabStarts ==
  ASSUME LabInv, NEW r \in Runs, NEW clean \in BOOLEAN, HoldStartup(r, clean)
  PROVE  LabInv'
<1>1. PICK h : h = runs[r]
  OBVIOUS
<1>2. h.pc = "startup" /\ runs[r].pc \in LabHolding /\ "end" \in LabHolding
  BY <1>1 DEF HoldStartup, Reached, LabHolding
<1>3. h \in LabRun /\ HoldWeak(h) /\ (Stopped(h) => h.quit # "no" \/ h.seen \/ h.pumpfail)
  BY <1>1, <1>2, LabHeld
<1>4. PICK up : up = activate([h EXCEPT !.verified = TRUE])
  OBVIOUS
<1>5. /\ up \in LabRun /\ HoldWeak(up) /\ up.result = h.result /\ up.quit = h.quit /\ up.seen = h.seen /\ up.pumpfail = h.pumpfail
      /\ (Stopped(up) => Stopped(h)) /\ (h.rt = "dirty" => up.rt = "dirty")
  <2>1. PICK v : v = [h EXCEPT !.verified = TRUE]
    OBVIOUS
  <2>2. /\ v \in LabRun /\ v.pc = h.pc /\ v.rt = h.rt /\ v.verified /\ v.cdp = h.cdp /\ v.safe = h.safe /\ v.result = h.result
        /\ v.quit = h.quit /\ v.seen = h.seen /\ v.pumpfail = h.pumpfail
    BY <1>3, <2>1 DEF LabRun
  <2>3. CASE v.cdp = "none" \/ v.safe
    <3>1. up = v
      BY <1>4, <2>1, <2>3 DEF activate
    <3> QED
      BY <1>3, <2>2, <2>3, <3>1 DEF HoldWeak, Stopped
  <2>4. CASE ~ (v.cdp = "none" \/ v.safe) /\ Stopped(v)
    <3>1. up = [v EXCEPT !.again = TRUE]
      BY <1>4, <2>1, <2>4 DEF activate
    <3>2. /\ up \in LabRun /\ up.pc = v.pc /\ up.rt = v.rt /\ up.verified = v.verified /\ up.result = v.result
          /\ up.quit = v.quit /\ up.seen = v.seen /\ up.pumpfail = v.pumpfail
      BY <2>2, <3>1 DEF LabRun
    <3> QED
      BY <1>3, <2>2, <2>4, <3>2 DEF HoldWeak, Stopped
  <2>5. CASE ~ (v.cdp = "none" \/ v.safe) /\ ~Stopped(v)
    <3>1. up = [v EXCEPT !.rt = "active"]
      BY <1>4, <2>1, <2>5 DEF activate
    <3>2. /\ up \in LabRun /\ up.pc = v.pc /\ up.rt = "active" /\ up.verified = v.verified /\ up.result = v.result
          /\ up.quit = v.quit /\ up.seen = v.seen /\ up.pumpfail = v.pumpfail
      BY <2>2, <3>1 DEF LabRun
    <3> QED
      BY <1>3, <2>2, <2>5, <3>2 DEF HoldWeak, Stopped
  <2> QED
    BY <2>3, <2>4, <2>5
<1>6. CASE Loop(r, h, "end")
  BY <1>1, <1>2, <1>3, <1>6, LabLoops
<1>7. CASE Loop(r, up, "end")
  BY <1>1, <1>2, <1>3, <1>5, <1>7, LabLoops
<1>8. CASE Loop(r, request_own_child_quit(stop(r, [up EXCEPT !.fail = TRUE], clean)), "end")
  <2>1. PICK y : y = [up EXCEPT !.fail = TRUE]
    OBVIOUS
  <2>2. /\ y \in LabRun /\ y.pc = up.pc /\ y.rt = up.rt /\ y.verified = up.verified /\ y.cdp = up.cdp /\ y.safe = up.safe /\ y.result = up.result
    BY <1>5, <2>1 DEF LabRun
  <2>3. HoldWeak(y)
    BY <1>5, <2>2 DEF HoldWeak, Stopped
  <2> QED
    BY <1>1, <1>2, <1>5, <1>8, <2>1, <2>2, <2>3, LabStopsAndQuits
<1>9. CASE Loop(r, request_own_child_quit([h EXCEPT !.fail = TRUE]), "end")
  <2>1. PICK y : y = [h EXCEPT !.fail = TRUE]
    OBVIOUS
  <2>2. /\ y \in LabRun /\ y.pc = h.pc /\ y.rt = h.rt /\ y.verified = h.verified /\ y.cdp = h.cdp /\ y.safe = h.safe /\ y.result = h.result
    BY <1>3, <2>1 DEF LabRun
  <2>3. HoldWeak(y)
    BY <1>3, <2>2 DEF HoldWeak, Stopped
  <2>4. PICK q : q = request_own_child_quit(y)
    OBVIOUS
  <2>5. q \in LabRun /\ HoldWeak(q) /\ q.quit # "no" /\ q.result = y.result /\ q.rt = y.rt
    BY <2>2, <2>3, <2>4, LabQuits
  <2>6. Loop(r, q, "end")
    BY <1>9, <2>1, <2>4
  <2> QED
    BY <1>1, <1>2, <2>2, <2>5, <2>6, LabLoops
<1> QED
  BY <1>1, <1>4, <1>6, <1>7, <1>8, <1>9 DEF HoldStartup

(* The loop ends at its deadlines.                                           *)
LEMMA LabDeadlines ==
  ASSUME LabInv, NEW r \in Runs, NEW clean \in BOOLEAN, HoldEnd(r, clean)
  PROVE  LabInv'
<1>1. PICK h : h = runs[r]
  OBVIOUS
<1>2. h.pc = "end" /\ runs[r].pc \in LabHolding /\ "exit" \in LabHolding
  BY <1>1 DEF HoldEnd, Reached, LabHolding
<1>3. h \in LabRun /\ HoldWeak(h) /\ (Stopped(h) => h.quit # "no" \/ h.seen \/ h.pumpfail)
  BY <1>1, <1>2, LabHeld
<1>4. CASE Loop(r, h, "exit")
  BY <1>1, <1>2, <1>3, <1>4, LabLoops
<1>5. CASE Loop(r, request_own_child_quit(stop(r, h, clean)), "exit")
  BY <1>1, <1>2, <1>3, <1>5, LabStopsAndQuits
<1>6. CASE Loop(r, [h EXCEPT !.quit = "late", !.fail = TRUE], "exit")
  <2>1. PICK y : y = [h EXCEPT !.quit = "late", !.fail = TRUE]
    OBVIOUS
  <2>2. /\ y \in LabRun /\ y.pc = h.pc /\ y.rt = h.rt /\ y.verified = h.verified /\ y.cdp = h.cdp /\ y.safe = h.safe /\ y.result = h.result
        /\ y.quit # "no"
    BY <1>3, <2>1 DEF LabRun
  <2>3. HoldWeak(y)
    BY <1>3, <2>2 DEF HoldWeak, Stopped
  <2>4. Loop(r, y, "exit")
    BY <1>6, <2>1
  <2> QED
    BY <1>1, <1>2, <2>2, <2>3, <2>4, LabLoops
<1> QED
  BY <1>1, <1>4, <1>5, <1>6 DEF HoldEnd

(* The exit is seen: everything is stopped and the run ends.                 *)
LEMMA LabExits ==
  ASSUME LabInv, NEW r \in Runs, NEW clean \in BOOLEAN, HoldExit(r, clean)
  PROVE  LabInv'
<1>1. PICK h : h = stop(r, runs[r], clean)
  OBVIOUS
<1>0. PICK shut \in BOOLEAN :
        /\ Reached(r, "exit") /\ desktops[r] \in {"zero", "bad"}
        /\ LET failed == h.fail \/ h.rt = "dirty" \/ (h.cdp # "none" /\ ~shut)
               reaped == h.cdp # "none" /\ shut
               zero == desktops[r] = "zero" IN
           /\ reports' = [Recorded(r, h) EXCEPT ![r].exited = zero, ![r].reaped = zero /\ reaped]
           /\ runs' = [runs EXCEPT ![r] = [NewRun EXCEPT !.pc = "done", !.fail = failed,
                     !.result = IF ~failed /\ (h.rehearsal \/ zero) THEN "ok" ELSE "failed"]]
        /\ root' = [root EXCEPT !.lease = 0]
        /\ UNCHANGED desktops
  BY <1>1 DEF HoldExit
<1>2. PICK failed, reaped :
        /\ failed = (h.fail \/ h.rt = "dirty" \/ (h.cdp # "none" /\ ~shut))
        /\ reaped = (h.cdp # "none" /\ shut)
        /\ Reached(r, "exit") /\ desktops[r] \in {"zero", "bad"}
        /\ reports' = [Recorded(r, h) EXCEPT ![r].exited = desktops[r] = "zero", ![r].reaped = desktops[r] = "zero" /\ reaped]
        /\ runs' = [runs EXCEPT ![r] = [NewRun EXCEPT !.pc = "done", !.fail = failed,
                     !.result = IF ~failed /\ (h.rehearsal \/ desktops[r] = "zero") THEN "ok" ELSE "failed"]]
        /\ root' = [root EXCEPT !.lease = 0]
        /\ UNCHANGED desktops
  BY <1>0
<1>3. runs[r].pc = "exit" /\ runs[r].pc \in LabHolding /\ runs[r].pc \notin LabEnded
  BY <1>2 DEF Reached, LabHolding, LabEnded
<1>4. /\ runs[r] \in LabRun /\ root \in LabRootRec /\ reports[r] \in LabReport /\ HoldWeak(runs[r])
      /\ JournalOk(runs[r], reports[r], desktops[r]) /\ RootOk(r, runs[r], desktops[r])
      /\ root.lease = r /\ ~root.empty
  BY <1>3, LabFacts, LabHolder, LabHeld
<1>5. h \in LabRun /\ (runs[r].rt = "dirty" => h.rt = "dirty")
  BY <1>1, <1>4, LabStops
<1>6. failed \in BOOLEAN /\ reaped \in BOOLEAN
  BY <1>2, <1>5 DEF LabRun
<1>7. PICK result : result = IF ~failed /\ (h.rehearsal \/ desktops[r] = "zero") THEN "ok" ELSE "failed"
  OBVIOUS
<1>8. result \in {"ok", "failed"} /\ (result = "ok" => ~failed)
  BY <1>7
<1>9. PICK x : x = [NewRun EXCEPT !.pc = "done", !.fail = failed, !.result = result]
  OBVIOUS
<1>10. /\ x \in LabRun /\ x.pc = "done" /\ x.fail = failed /\ x.result = result /\ x.rt = "off" /\ ~x.verified
  <2>1. x = [pc |-> "done", from |-> 0, safe |-> FALSE, trace |-> FALSE, cfg |-> 0, quit |-> "no", verified |-> FALSE,
             fail |-> failed, cdp |-> "none", seen |-> FALSE, rt |-> "off", again |-> FALSE, pumpfail |-> FALSE,
             upd |-> "no", rehearsal |-> FALSE, result |-> result]
    BY <1>9 DEF NewRun
  <2>2. 0 \in 0 .. MaxRuns /\ 0 \in Nat
    BY LabFacts
  <2> QED
    BY <1>6, <1>8, <2>1, <2>2 DEF LabRun, LabPcs
<1>11. PICK c : c = IF Stopped(h) /\ ~h.safe THEN h.rt ELSE reports[r].cleanup
  OBVIOUS
<1>12. c \in {"none", "clean", "dirty"} /\ (c = "dirty" => h.rt = "dirty")
  <2>1. reports[r].cleanup \in {"none", "clean", "dirty"}
    BY <1>4 DEF LabReport
  <2>2. reports[r].cleanup = "dirty" => runs[r].rt = "dirty"
    BY <1>3, <1>4 DEF JournalOk
  <2> QED
    BY <1>5, <1>11, <2>1, <2>2 DEF Stopped
<1>13. PICK rep, zero : rep = reports[r] /\ zero = (desktops[r] = "zero")
  OBVIOUS
<1>14. PICK p : p = [rep EXCEPT !.cleanup = c, !.exited = zero, !.reaped = zero /\ reaped]
  OBVIOUS
<1>23. PICK rp : rp = (zero /\ reaped)
  OBVIOUS
<1>24. zero \in BOOLEAN /\ rp \in BOOLEAN
  BY <1>6, <1>13, <1>23
<1>25. p = [rep EXCEPT !.cleanup = c, !.exited = zero, !.reaped = rp]
  BY <1>14, <1>23
<1>15. p \in LabReport /\ p.child = rep.child /\ p.nochild = rep.nochild /\ p.cleanup = c /\ p.made = rep.made
  BY ZenonT(60), <1>4, <1>12, <1>13, <1>24, <1>25 DEF LabReport
<1>16. reports' = [reports EXCEPT ![r] = p]
  <2>1. reports \in [Runs -> LabReport]
    BY LabFacts
  <2>2. CASE Stopped(h) /\ ~h.safe
    <3>1. c = h.rt /\ Recorded(r, h) = [reports EXCEPT ![r].cleanup = h.rt]
      BY <1>11, <2>2 DEF Recorded
    <3> QED
      BY <1>2, <1>13, <1>14, <2>1, <3>1
  <2>3. CASE ~ (Stopped(h) /\ ~h.safe)
    <3>1. c = rep.cleanup /\ Recorded(r, h) = reports
      BY <1>11, <1>13, <2>3 DEF Recorded
    <3>2. p = [rep EXCEPT !.exited = zero, !.reaped = zero /\ reaped]
      BY <1>4, <1>13, <1>14, <3>1 DEF LabReport
    <3> QED
      BY <1>2, <1>13, <2>1, <3>1, <3>2
  <2> QED
    BY <2>2, <2>3
<1>17. PICK d : d = desktops[r]
  OBVIOUS
<1>18. runs' = [runs EXCEPT ![r] = x] /\ desktops' = [desktops EXCEPT ![r] = d] /\ d \in {"zero", "bad"} /\ d \in LabDesk
  BY <1>2, <1>7, <1>9, <1>17, LabFacts
<1>19. root' \in LabRootRec /\ root'.lease = 0 /\ root'.empty = root.empty /\ root'.latest = root.latest
  <2>1. 0 \in 0 .. MaxRuns
    BY LabFacts
  <2> QED
    BY <1>2, <1>4, <2>1 DEF LabRootRec
<1>20. HoldOk(x)
  BY <1>10 DEF HoldOk, Stopped, LabHolding
<1>21. JournalOk(x, p, d)
  <2>1. rep.child /\ ~rep.nochild
    BY <1>3, <1>4, <1>13, <1>17, <1>18 DEF JournalOk
  <2>2. result = "ok" => ~failed /\ c # "dirty"
    BY <1>2, <1>8, <1>12
  <2> QED
    BY <1>10, <1>15, <1>18, <2>1, <2>2 DEF JournalOk, LabPreparing, LabHolding
<1>22. RootOk(r, x, d)'
  BY <1>4, <1>10, <1>18, <1>19, LabFacts DEF RootOk, LabEnded, LabSeeded
<1> QED
  BY <1>3, <1>4, <1>10, <1>15, <1>16, <1>18, <1>19, <1>20, <1>21, <1>22, LabGoes

(* The Desktop has not exited.                                               *)
LEMMA LabNoExit ==
  ASSUME LabInv, NEW r \in Runs, HoldNoExit(r)
  PROVE  LabInv'
<1>1. PICK h, p, d : h = [runs[r] EXCEPT !.pc = "input"] /\ p = reports[r] /\ d = desktops[r]
  OBVIOUS
<1>2. runs[r].pc = "exit" /\ runs[r].pc \notin LabEnded /\ UNCHANGED root
  BY DEF HoldNoExit, Reached, LabEnded
<1>3. /\ runs' = [runs EXCEPT ![r] = h] /\ reports' = [reports EXCEPT ![r] = p] /\ desktops' = [desktops EXCEPT ![r] = d]
      /\ p \in LabReport /\ d \in LabDesk /\ HoldOk(runs[r]) /\ JournalOk(runs[r], p, d) /\ RootOk(r, runs[r], d)
      /\ root \in LabRootRec /\ root.lease = r /\ ~root.empty /\ runs[r] \in LabRun
  BY <1>1, <1>2, LabFacts, LabHolder DEF HoldNoExit, Set, Go
<1>4. /\ h \in LabRun /\ h.pc = "input" /\ h.rt = runs[r].rt /\ h.verified = runs[r].verified /\ h.quit = runs[r].quit
      /\ h.seen = runs[r].seen /\ h.pumpfail = runs[r].pumpfail /\ h.cdp = runs[r].cdp /\ h.safe = runs[r].safe /\ h.result = runs[r].result
  BY <1>1, <1>3 DEF LabRun, LabPcs
<1>5. HoldOk(h)
  BY <1>2, <1>3, <1>4 DEF HoldOk, Stopped, LabHolding
<1>6. JournalOk(h, p, d)
  BY <1>2, <1>3, <1>4 DEF JournalOk, LabHolding, LabPreparing
<1>7. RootOk(r, h, d)'
  BY <1>2, <1>3, <1>4 DEF RootOk, LabEnded, LabSeeded
<1> QED
  BY <1>2, <1>3, <1>4, <1>5, <1>6, <1>7, LabGoes

(* The Desktop ends, or only its connection.                                 *)
LEMMA LabCloses ==
  ASSUME LabInv, NEW r \in Runs, DesktopExits(r) \/ ConnectionCloses(r)
  PROVE  LabInv'
<1>1. PICK c : c = IF runs[r].cdp = "open" THEN "closed" ELSE runs[r].cdp
  OBVIOUS
<1>2. PICK h, p, x : h = [runs[r] EXCEPT !.cdp = c] /\ p = reports[r] /\ x = desktops[r]
  OBVIOUS
<1>3. /\ runs[r] \in LabRun /\ p \in LabReport /\ x \in LabDesk /\ HoldOk(runs[r]) /\ JournalOk(runs[r], p, x) /\ RootOk(r, runs[r], x)
      /\ reports' = [reports EXCEPT ![r] = p] /\ root \in LabRootRec /\ UNCHANGED root
  BY <1>2, LabFacts DEF DesktopExits, ConnectionCloses
<1>4. runs' = [runs EXCEPT ![r] = h]
  <2>1. CASE DesktopExits(r)
    BY <1>1, <1>2, <2>1, LabFacts DEF DesktopExits
  <2>2. CASE ConnectionCloses(r)
    BY <1>1, <1>2, <2>2, LabFacts DEF ConnectionCloses
  <2> QED
    BY <2>1, <2>2
<1>5. /\ h \in LabRun /\ h.pc = runs[r].pc /\ h.rt = runs[r].rt /\ h.verified = runs[r].verified /\ h.quit = runs[r].quit
      /\ h.seen = runs[r].seen /\ h.pumpfail = runs[r].pumpfail /\ (h.cdp = "none" <=> runs[r].cdp = "none") /\ h.safe = runs[r].safe
      /\ h.result = runs[r].result /\ h.fail = runs[r].fail /\ h.from = runs[r].from /\ h.cfg = runs[r].cfg
  <2>1. c \in {"none", "open", "closed"} /\ (c = "none" <=> runs[r].cdp = "none")
    BY <1>1, <1>3 DEF LabRun
  <2> QED
    BY <1>2, <1>3, <2>1 DEF LabRun
<1>6. HoldOk(h)
  BY <1>3, <1>5 DEF HoldOk, Stopped
<1>7. PICK d : d = desktops'[r]
  OBVIOUS
<1>8. desktops' = [desktops EXCEPT ![r] = d] /\ d \in LabDesk /\ runs[r].pc # "none" /\ (d = x \/ (x = "running" /\ d \in {"zero", "bad"}))
  <2>1. CASE DesktopExits(r)
    <3>1. PICK code \in {"zero", "bad"} : desktops' = [desktops EXCEPT ![r] = code] /\ desktops[r] = "running"
      BY <2>1 DEF DesktopExits
    <3>2. d = code
      BY <1>7, <3>1, LabFacts
    <3>3. runs[r].pc # "none"
      BY <1>2, <1>3, <3>1 DEF JournalOk
    <3> QED
      BY <1>2, <3>1, <3>2, <3>3 DEF LabDesk
  <2>2. CASE ConnectionCloses(r)
    BY <1>2, <1>7, <2>2, LabFacts DEF ConnectionCloses, Going
  <2> QED
    BY <2>1, <2>2
<1>9. JournalOk(h, p, d)
  BY <1>3, <1>5, <1>8 DEF JournalOk, LabPreparing, LabHolding
<1>10. RootOk(r, h, d)'
  BY <1>3, <1>5, <1>8 DEF RootOk, SeedVerified
<1>11. ASSUME NEW q \in Runs, q # r
       PROVE  RootOk(q, runs[q], desktops[q])'
  <2>1. runs'[q] = runs[q] /\ desktops'[q] = desktops[q] /\ RootOk(q, runs[q], desktops[q])
    BY <1>4, <1>8, <1>11, LabFacts
  <2> QED
    BY <1>3, <2>1 DEF RootOk, SeedVerified
<1>12. root' \in LabRootRec
  BY <1>3
<1> QED
  BY <1>3, <1>4, <1>5, <1>6, <1>8, <1>9, <1>10, <1>11, <1>12, LabMoves

(* The run is killed at any point; its Desktop runs on or goes with it.      *)
LEMMA LabKilled ==
  ASSUME LabInv, NEW r \in Runs, Killed(r)
  PROVE  LabInv'
<1>1. /\ runs[r].pc \notin LabEnded /\ root.lease = r /\ ~root.empty /\ runs[r] \in LabRun /\ reports[r] \in LabReport /\ root \in LabRootRec
      /\ JournalOk(runs[r], reports[r], desktops[r]) /\ RootOk(r, runs[r], desktops[r])
  BY LabFacts, LabHolder DEF Killed, Going, LabEnded
<1>2. PICK torn \in BOOLEAN : reports' = [reports EXCEPT ![r].torn = @ \/ (torn /\ reports[r].made)]
  BY DEF Killed
<1>3. PICK h, rep, d : h = [NewRun EXCEPT !.pc = "dead"] /\ rep = reports[r] /\ d = desktops[r]
  OBVIOUS
<1>4. PICK t : t = (rep.torn \/ (torn /\ rep.made))
  OBVIOUS
<1>5. PICK p : p = [rep EXCEPT !.torn = t]
  OBVIOUS
<1>6. h \in LabRun /\ h.pc = "dead" /\ h.rt = "off" /\ ~h.verified /\ h.result = "none"
  BY ZenonT(60), <1>3, LabFacts DEF NewRun, LabRun, LabPcs
<1>7. p \in LabReport /\ p.child = rep.child /\ p.nochild = rep.nochild /\ p.cleanup = rep.cleanup
  BY <1>1, <1>3, <1>4, <1>5 DEF LabReport
<1>8. /\ runs' = [runs EXCEPT ![r] = h] /\ reports' = [reports EXCEPT ![r] = p] /\ desktops' = [desktops EXCEPT ![r] = d] /\ d \in LabDesk
  BY <1>2, <1>3, <1>4, <1>5, LabFacts DEF Killed, Set
<1>9. root' \in LabRootRec /\ root'.lease = 0 /\ root'.empty = root.empty /\ root'.latest = root.latest
  <2>1. root' = [root EXCEPT !.lease = 0] /\ 0 \in 0 .. MaxRuns
    BY <1>1, LabFacts DEF Killed
  <2> QED
    BY <1>1, <2>1 DEF LabRootRec
<1>10. HoldOk(h)
  BY <1>6 DEF HoldOk, Stopped, LabHolding
<1>11. JournalOk(h, p, d)
  BY <1>1, <1>3, <1>6, <1>7 DEF JournalOk, LabPreparing, LabHolding
<1>12. RootOk(r, h, d)'
  BY <1>1, <1>3, <1>6, <1>9, LabFacts DEF RootOk, LabEnded, LabSeeded
<1> QED
  BY <1>1, <1>6, <1>7, <1>8, <1>9, <1>10, <1>11, <1>12, LabGoes

(* A step that changes only what the root says of the coordinator or the     *)
(* configuration.                                                            *)
LEMMA LabRootOnly ==
  ASSUME LabInv, root' \in LabRootRec, root'.lease = root.lease, root'.empty = root.empty, root'.latest = root.latest,
         root'.seed = root.seed, root'.cfg = root.cfg \/ \A r \in Runs : runs[r].pc # "guarded",
         UNCHANGED <<runs, reports, desktops>>
  PROVE  LabInv'
<1>1. LabTypes'
  BY DEF LabInv, LabTypes
<1>2. ASSUME NEW r \in Runs
      PROVE  (HoldOk(runs[r]) /\ JournalOk(runs[r], reports[r], desktops[r]) /\ RootOk(r, runs[r], desktops[r]))'
  <2>1. HoldOk(runs[r]) /\ JournalOk(runs[r], reports[r], desktops[r]) /\ RootOk(r, runs[r], desktops[r])
    BY LabFacts
  <2>2. RootOk(r, runs[r], desktops[r])'
    BY <2>1 DEF RootOk, SeedVerified
  <2>3. (HoldOk(runs[r]) /\ JournalOk(runs[r], reports[r], desktops[r]))'
    BY <2>1
  <2> QED
    BY <2>2, <2>3
<1> QED
  BY <1>1, <1>2 DEF LabInv

(* The coordinator, and edits of the configuration.                          *)
LEMMA LabOthers ==
  ASSUME LabInv, ConfigurationChanges \/ \E r \in Runs : Coordinator(r)
  PROVE  LabInv'
<1>0. root \in LabRootRec
  BY DEF LabInv, LabTypes
<1>1. CASE ConfigurationChanges
  <2>1. root' = [root EXCEPT !.edits = root.edits + 1, !.cfg = root.edits + 1] /\ UNCHANGED <<runs, reports, desktops>>
        /\ \A r \in Runs : runs[r].pc # "guarded"
    BY <1>1 DEF ConfigurationChanges, Reached
  <2>2. PICK e : e = root.edits + 1
    OBVIOUS
  <2>3. e \in Nat
    BY <1>0, <2>2 DEF LabRootRec
  <2>4. root' \in LabRootRec /\ root'.lease = root.lease /\ root'.empty = root.empty /\ root'.latest = root.latest /\ root'.seed = root.seed
    BY <1>0, <2>1, <2>2, <2>3 DEF LabRootRec
  <2> QED
    BY <2>1, <2>4, LabRootOnly
<1>2. ASSUME NEW r \in Runs, Coordinator(r)
      PROVE  LabInv'
  <2>1. r \in 0 .. MaxRuns /\ UNCHANGED <<runs, reports, desktops>>
    BY <1>2, LabFacts DEF Coordinator
  <2>2. root' \in LabRootRec /\ root'.lease = root.lease /\ root'.empty = root.empty /\ root'.latest = root.latest /\ root'.seed = root.seed /\ root'.cfg = root.cfg
    <3>1. CASE root' = [root EXCEPT !.receipt = r, !.coordinator = TRUE]
      BY <1>0, <2>1, <3>1 DEF LabRootRec
    <3>2. CASE root' = [root EXCEPT !.coordinator = FALSE]
      BY <1>0, <3>2 DEF LabRootRec
    <3> QED
      BY <1>2, <3>1, <3>2 DEF Coordinator
  <2> QED
    BY <2>1, <2>2, LabRootOnly
<1> QED
  BY <1>1, <1>2

(* Every step keeps the invariant.                                           *)
LEMMA LabStep == LabInv /\ [LabNext]_labVars => LabInv'
<1>1. ASSUME LabInv, NEW r \in Runs,
             \/ pin_lab_ancestry(r) \/ check_package_version(r) \/ report(r) \/ copy_contents(r) \/ reuse(r) \/ prepare_lab(r) \/ lab_environment(r)
             \/ wait_for_start(r) \/ verify_configuration(r) \/ launch(r) \/ ChildCreated(r)
      PROVE  LabInv'
  <2>1. CASE pin_lab_ancestry(r)
    BY <1>1, <2>1, LabRefuses
  <2>2. CASE check_package_version(r)
    BY <1>1, <2>2, LabEnds
  <2>3. CASE report(r)
    BY <1>1, <2>3, LabReports
  <2>4. CASE copy_contents(r) \/ reuse(r) \/ prepare_lab(r) \/ lab_environment(r) \/ verify_configuration(r)
    BY <1>1, <2>4, LabGetsReady
  <2>5. CASE wait_for_start(r)
    <3>1. CASE Reached(r, "prepared") /\ Set(r, Go(r, "confirmed")) /\ UNCHANGED <<root, reports, desktops>>
      BY <1>1, <3>1, LabGetsReady
    <3>2. CASE Reached(r, "prepared") /\ LeaveRun(r, "ok") /\ UNCHANGED desktops
      BY <1>1, <3>2, LabEnds
    <3> QED
      BY <2>5, <3>1, <3>2 DEF wait_for_start
  <2>6. CASE launch(r) \/ ChildCreated(r)
    BY <1>1, <2>6, LabLaunches
  <2> QED
    BY <1>1, <2>1, <2>2, <2>3, <2>4, <2>5, <2>6
<1>2. ASSUME LabInv, NEW r \in Runs, Holds(r)
      PROVE  LabInv'
  <2>1. CASE HoldNoExit(r)
    BY <1>2, <2>1, LabNoExit
  <2>2. CASE WaitFails(r)
    BY <1>2, <2>2, LabEnds
  <2>3. CASE HoldUpdates(r)
    BY <1>2, <2>3, LabPumps
  <2>4. CASE \E clean \in BOOLEAN : HoldExit(r, clean)
    BY <1>2, <2>4, LabExits
  <2>5. CASE \E clean \in BOOLEAN : HoldInput(r, clean)
    BY <1>2, <2>5, LabInput
  <2>6. CASE \E clean \in BOOLEAN : HoldCdp(r, clean)
    BY <1>2, <2>6, LabCdp
  <2>7. CASE \E clean \in BOOLEAN : HoldStartup(r, clean)
    BY <1>2, <2>7, LabStarts
  <2>8. CASE \E clean \in BOOLEAN : HoldEnd(r, clean)
    BY <1>2, <2>8, LabDeadlines
  <2> QED
    BY <1>2, <2>1, <2>2, <2>3, <2>4, <2>5, <2>6, <2>7, <2>8 DEF Holds
<1>3. ASSUME LabInv, NEW r \in Runs, DesktopExits(r) \/ ConnectionCloses(r) \/ Killed(r)
      PROVE  LabInv'
  BY <1>3, LabCloses, LabKilled
<1>4. ASSUME LabInv, ConfigurationChanges \/ \E r \in Runs : Coordinator(r)
      PROVE  LabInv'
  BY <1>4, LabOthers
<1>5. ASSUME LabInv, NEW r \in Runs, NEW o \in LabOptions, claim(r, o) \/ \E q \in Runs : resume_with_recovery(r, q, o)
      PROVE  LabInv'
  BY <1>5, LabClaims, LabResumes
<1>6. ASSUME LabInv, UNCHANGED labVars
      PROVE  LabInv'
  <2>1. /\ UNCHANGED <<runs, reports, desktops>> /\ root' = root /\ root \in LabRootRec
    BY <1>6 DEF labVars, LabInv, LabTypes
  <2> QED
    BY <1>6, <2>1, LabRootOnly
<1>7. LabNext =>
        \/ \E r \in Runs :
             \/ pin_lab_ancestry(r) \/ check_package_version(r) \/ report(r) \/ copy_contents(r) \/ reuse(r) \/ prepare_lab(r) \/ lab_environment(r)
             \/ wait_for_start(r) \/ verify_configuration(r) \/ launch(r) \/ ChildCreated(r)
        \/ \E r \in Runs : Holds(r)
        \/ \E r \in Runs : DesktopExits(r) \/ ConnectionCloses(r) \/ Killed(r)
        \/ ConfigurationChanges \/ \E r \in Runs : Coordinator(r)
        \/ \E r \in Runs, o \in LabOptions : claim(r, o) \/ \E q \in Runs : resume_with_recovery(r, q, o)
  BY DEF LabNext
<1> QED
  BY <1>1, <1>2, <1>3, <1>4, <1>5, <1>6, <1>7

(* A fresh root without runs satisfies the invariant.                        *)
LEMMA LabStart == LabInit => LabInv
<1> SUFFICES ASSUME LabInit
             PROVE  LabInv
  OBVIOUS
<1>1. 0 \in 0 .. MaxRuns /\ 0 \in Nat /\ \A r \in Runs : r # 0
  BY LabConstants DEF Runs
<1>2. NewRun \in LabRun /\ NewRun.pc = "none" /\ NewRun.rt = "off" /\ ~NewRun.verified /\ NewRun.result = "none" /\ ~NewRun.fail
  BY <1>1 DEF NewRun, LabRun, LabPcs
<1>3. NoReport \in LabReport /\ ~NoReport.nochild /\ ~NoReport.child /\ NoReport.cleanup = "none"
  BY DEF NoReport, LabReport
<1>4. NewRoot \in LabRootRec /\ NewRoot.lease = 0
  BY <1>1 DEF NewRoot, LabRootRec
<1>5. LabTypes
  BY <1>2, <1>3, <1>4 DEF LabInit, LabTypes
<1>6. HoldOk(NewRun) /\ JournalOk(NewRun, NoReport, "none")
  BY <1>2, <1>3 DEF HoldOk, JournalOk, Stopped, LabHolding, LabPreparing
<1>7. ASSUME NEW r \in Runs
      PROVE  RootOk(r, NewRun, "none")
  BY <1>1, <1>2, <1>4 DEF RootOk, LabInit, LabEnded, LabSeeded
<1> QED
  BY <1>5, <1>6, <1>7 DEF LabInv, LabInit

(* The invariant contains what the run checks.                               *)
LEMMA LabImplies == LabInv => LabSound
<1> SUFFICES ASSUME LabInv
             PROVE  LabSound
  OBVIOUS
<1>1. OneDesktop
  <2>1. PICK S : S = {r \in Runs : desktops[r] = "running"}
    OBVIOUS
  <2>2. \A r \in S : r = root.latest
    BY <2>1 DEF LabInv, RootOk
  <2>3. S = {} \/ S = {root.latest}
    BY <2>2
  <2>4. Cardinality(S) <= 1
    <3>1. CASE S = {}
      BY <3>1, FS_EmptySet
    <3>2. CASE S = {root.latest}
      <4>1. PICK x : x = root.latest
        OBVIOUS
      <4>2. Cardinality({x}) = 1
        BY FS_Singleton
      <4> QED
        BY <3>2, <4>1, <4>2
    <3> QED
      BY <2>3, <3>1, <3>2
  <2> QED
    BY <2>1, <2>4 DEF OneDesktop
<1>2. LeaseHeld
  BY DEF LeaseHeld, LabInv, RootOk, LabEnded
<1>3. StartsAsChecked
  BY DEF StartsAsChecked, LabInv, RootOk, Reached, LabSeeded
<1>4. PluginsAfterStartup
  <2>1. ASSUME NEW r \in Runs
        PROVE  LET h == runs[r] IN
               /\ h.rt \in {"active", "dirty"} => h.verified
               /\ Going(r) /\ PluginCommand(h) /\ h.cdp # "none" /\ ~h.safe => h.rt = "active"
    <3>1. PICK h : h = runs[r]
      OBVIOUS
    <3>2. HoldOk(h)
      BY <3>1, LabFacts
    <3> QED
      BY <3>1, <3>2 DEF HoldOk, PluginCommand
  <2> QED
    BY <2>1 DEF PluginsAfterStartup
<1>5. SuccessIsTrue
  BY DEF SuccessIsTrue, LabInv, JournalOk
<1> QED
  BY <1>1, <1>2, <1>3, <1>4, <1>5 DEF LabSound

(* For any number of runs in one root and any input, crash and order: at     *)
(* most one Desktop runs, what is seeded is what was checked when it is      *)
(* created, plugins start only after the verified startup, and a run that    *)
(* reports success had a Desktop that exited and a clean runtime (lab.rs,    *)
(* lab_cdp.rs).                                                              *)
THEOREM LabIsSound == LabSpec => []LabSound
<1>1. LabSpec => []LabInv
  BY LabStart, LabStep, PTL DEF LabSpec
<1> QED
  BY <1>1, LabImplies, PTL
=============================================================================
