--------------------------- MODULE FloodAppProofs ---------------------------
(***************************************************************************)
(* Proofs about FloodApp, for any mesh, scenario, hop limit and capacity   *)
(* of the cache: types, the window of the cache, the number of             *)
(* rebroadcasts, the hops of a packet, the election of relays and what a   *)
(* naive flood reaches.                                                    *)
(*                                                                         *)
(* FloodInv adds to the properties what they rest on: the cache holds      *)
(* exactly the packets taken in last, a copy was sent by a node the hop    *)
(* limit allows and is heard in that node's range only, and so is a copy   *)
(* that waits. ReachInv, further below, follows a flood without losses.    *)
(***************************************************************************)
EXTENDS FloodApp, SequenceTheorems, FiniteSetTheorems, WellFoundedInduction, TLAPS

(***************************************************************************)
(* Numbers, and functions that repeat a step.                              *)
(***************************************************************************)
LEMMA LeastElement ==
    ASSUME NEW T \in SUBSET Nat, T # {}
    PROVE  \E x \in T : \A y \in T : x <= y
<1>1. PICK x \in T : \A y \in T : ~ (<<y, x>> \in OpToRel(<, Nat))
  BY WFMin, NatLessThanWellFounded
<1>2. \A y \in T : ~ (y < x)
  BY <1>1 DEF OpToRel
<1>3. QED
  BY <1>2

LEMMA IntervalInduction ==
    ASSUME NEW L \in Nat, NEW T, 0 \in T, \A i \in 1 .. L : i - 1 \in T => i \in T
    PROVE  \A i \in 0 .. L : i \in T
<1> SUFFICES ASSUME {i \in 0 .. L : i \notin T} # {} PROVE FALSE
  OBVIOUS
<1>1. PICK i \in {j \in 0 .. L : j \notin T} : \A j \in {j \in 0 .. L : j \notin T} : i <= j
  <2>1. {j \in 0 .. L : j \notin T} \in SUBSET Nat
    OBVIOUS
  <2>2. QED
    BY <2>1, LeastElement
<1>2. i \in 1 .. L
  BY <1>1
<1>3. i - 1 \in T
  BY <1>1, <1>2
<1>4. QED
  BY <1>1, <1>2, <1>3

\* f holds what step makes of e when it is repeated up to k times.
Iterates(f, k, e, step) == f[0] = e /\ \A i \in 1 .. k : f[i] = step[f[i - 1]]

LEMMA IterationExists ==
    ASSUME NEW S, NEW k \in Nat, NEW e \in S, NEW step \in [S -> S]
    PROVE  \E f \in [0 .. k -> S] : Iterates(f, k, e, step)
<1> DEFINE T == {j \in 0 .. k : \E f \in [0 .. j -> S] : Iterates(f, j, e, step)}
<1>1. 0 \in T
  <2>1. [i \in 0 .. 0 |-> e] \in [0 .. 0 -> S]
    OBVIOUS
  <2>2. Iterates([i \in 0 .. 0 |-> e], 0, e, step)
    BY DEF Iterates
  <2>3. QED
    BY <2>1, <2>2
<1>2. ASSUME NEW j \in 1 .. k, j - 1 \in T PROVE j \in T
  <2>1. PICK f \in [0 .. j - 1 -> S] : Iterates(f, j - 1, e, step)
    BY <1>2
  <2>2. PICK g : g = [i \in 0 .. j |-> IF i < j THEN f[i] ELSE step[f[j - 1]]]
    OBVIOUS
  <2>3. g \in [0 .. j -> S]
    <3>1. f[j - 1] \in S
      OBVIOUS
    <3>2. QED
      BY <2>2, <3>1
  <2>4. ASSUME NEW i \in 1 .. j PROVE g[i] = step[g[i - 1]]
    <3>1. g[i - 1] = f[i - 1]
      BY <2>2
    <3>2. CASE i < j
      <4>1. g[i] = f[i] /\ i \in 1 .. j - 1
        BY <2>2, <3>2
      <4>2. f[i] = step[f[i - 1]]
        BY <2>1, <4>1 DEF Iterates
      <4>3. QED
        BY <3>1, <4>1, <4>2
    <3>3. CASE i = j
      BY <2>2, <3>1, <3>3
    <3>4. i < j \/ i = j
      OBVIOUS
    <3>5. QED
      BY <3>2, <3>3, <3>4
  <2>5. g[0] = e
    <3>1. g[0] = f[0]
      BY <2>2
    <3>2. QED
      BY <2>1, <3>1 DEF Iterates
  <2>6. QED
    BY <2>3, <2>4, <2>5 DEF Iterates
<1>3. \A i \in 0 .. k : i \in T
  <2> HIDE DEF T
  <2>1. QED
    BY <1>1, <1>2, IntervalInduction
<1>4. QED
  BY <1>3

\* Two such functions agree as far as both are defined.
LEMMA IterationUnique ==
    ASSUME NEW e, NEW step, NEW j \in Nat, NEW k \in Nat, j <= k,
           NEW f, Iterates(f, j, e, step), NEW g, Iterates(g, k, e, step)
    PROVE  \A i \in 0 .. j : f[i] = g[i]
<1> DEFINE T == {i \in 0 .. j : f[i] = g[i]}
<1>1. 0 \in T
  BY DEF Iterates
<1>2. ASSUME NEW i \in 1 .. j, i - 1 \in T PROVE i \in T
  <2>1. f[i] = step[f[i - 1]] /\ g[i] = step[g[i - 1]]
    BY DEF Iterates
  <2>2. QED
    BY <1>2, <2>1
<1>3. \A i \in 0 .. j : i \in T
  <2> HIDE DEF T
  <2>1. QED
    BY <1>1, <1>2, IntervalInduction
<1>4. QED
  BY <1>3

(***************************************************************************)
(* The nodes within some hops.                                             *)
(***************************************************************************)
Topology == [Node -> SUBSET Node]

\* Within, for a given range of every node.
Hops(range, n, k) ==
    LET ball[i \in 0 .. k] ==
            IF i = 0 THEN {n}
            ELSE ball[i - 1] \cup UNION {range[m] : m \in ball[i - 1]}
    IN  ball[k]

\* One hop further.
Hop(range) == [X \in SUBSET Node |-> X \cup UNION {range[m] : m \in X}]

LEMMA HopsAreIterates ==
    ASSUME NEW range \in Topology, NEW n \in Node, NEW k \in Nat
    PROVE  \E f \in [0 .. k -> SUBSET Node] :
               Iterates(f, k, {n}, Hop(range)) /\ Hops(range, n, k) = f[k]
<1> DEFINE ball[i \in 0 .. k] ==
               IF i = 0 THEN {n}
               ELSE ball[i - 1] \cup UNION {range[m] : m \in ball[i - 1]}
<1>1. Hops(range, n, k) = ball[k]
  BY DEF Hops
<1>2. Hop(range) \in [SUBSET Node -> SUBSET Node] /\ {n} \in SUBSET Node
  BY DEF Hop, Topology
<1>3. PICK f \in [0 .. k -> SUBSET Node] : Iterates(f, k, {n}, Hop(range))
  BY <1>2, IterationExists
<1>4. \A i \in 1 .. k : f[i] = f[i - 1] \cup UNION {range[m] : m \in f[i - 1]}
  <2> TAKE i \in 1 .. k
  <2>1. f[i] = Hop(range)[f[i - 1]] /\ f[i - 1] \in SUBSET Node
    BY <1>3 DEF Iterates
  <2>2. QED
    BY <2>1 DEF Hop
<1>5. f = [i \in 0 .. k |-> IF i = 0 THEN {n}
                            ELSE f[i - 1] \cup UNION {range[m] : m \in f[i - 1]}]
  <2>1. \A i \in 0 .. k : f[i] = IF i = 0 THEN {n}
                                 ELSE f[i - 1] \cup UNION {range[m] : m \in f[i - 1]}
    BY <1>3, <1>4 DEF Iterates
  <2>2. QED
    BY <2>1
<1>6. ball = [i \in 0 .. k |-> IF i = 0 THEN {n}
                               ELSE ball[i - 1] \cup UNION {range[m] : m \in ball[i - 1]}]
  BY <1>5
<1> HIDE DEF ball
<1>7. \A i \in 0 .. k : ball[i] = f[i]
  <2> DEFINE T == {i \in 0 .. k : ball[i] = f[i]}
  <2>1. 0 \in T
    BY <1>5, <1>6
  <2>2. ASSUME NEW i \in 1 .. k, i - 1 \in T PROVE i \in T
    <3>1. i \in 0 .. k /\ i # 0
      OBVIOUS
    <3>2. ball[i] = ball[i - 1] \cup UNION {range[m] : m \in ball[i - 1]}
      BY <1>6, <3>1
    <3>3. ball[i - 1] = f[i - 1]
      BY <2>2
    <3>4. f[i] = f[i - 1] \cup UNION {range[m] : m \in f[i - 1]}
      BY <1>4
    <3>5. ball[i] = f[i]
      BY <3>2, <3>3, <3>4
    <3>6. QED
      BY <3>1, <3>5
  <2> HIDE DEF T
  <2>3. \A i \in 0 .. k : i \in T
    BY <2>1, <2>2, IntervalInduction
  <2>4. QED
    BY <2>3 DEF T
<1>8. QED
  BY <1>1, <1>3, <1>7

LEMMA HopsGrow ==
    ASSUME NEW range \in Topology, NEW n \in Node, NEW k \in Nat
    PROVE  /\ n \in Hops(range, n, k)
           /\ Hops(range, n, k) \subseteq Hops(range, n, k + 1)
           /\ \A m \in Hops(range, n, k) : m \in Node /\ range[m] \subseteq Hops(range, n, k + 1)
<1>1. PICK f \in [0 .. k -> SUBSET Node] :
               Iterates(f, k, {n}, Hop(range)) /\ Hops(range, n, k) = f[k]
  BY HopsAreIterates
<1>2. PICK g \in [0 .. k + 1 -> SUBSET Node] :
               Iterates(g, k + 1, {n}, Hop(range)) /\ Hops(range, n, k + 1) = g[k + 1]
  <2>1. k + 1 \in Nat
    OBVIOUS
  <2>2. QED
    BY <2>1, HopsAreIterates
<1>3. f[k] = g[k]
  BY <1>1, <1>2, IterationUnique
<1>4. \A i \in 1 .. k + 1 : g[i] = g[i - 1] \cup UNION {range[m] : m \in g[i - 1]}
  <2> TAKE i \in 1 .. k + 1
  <2>1. g[i] = Hop(range)[g[i - 1]] /\ g[i - 1] \in SUBSET Node
    BY <1>2 DEF Iterates
  <2>2. QED
    BY <2>1 DEF Hop
<1>5. n \in g[k]
  <2> DEFINE T == {i \in 0 .. k : n \in g[i]}
  <2>1. 0 \in T
    BY <1>2 DEF Iterates
  <2>2. ASSUME NEW i \in 1 .. k, i - 1 \in T PROVE i \in T
    BY <1>4, <2>2
  <2> HIDE DEF T
  <2>3. \A i \in 0 .. k : i \in T
    BY <2>1, <2>2, IntervalInduction
  <2>4. QED
    BY <2>3 DEF T
<1>6. g[k + 1] = g[k] \cup UNION {range[m] : m \in g[k]} /\ g[k] \in SUBSET Node
  BY <1>4
<1>7. QED
  BY <1>1, <1>2, <1>3, <1>5, <1>6

\* Hops of a packet with at most k hops are hops of one with more.
LEMMA HopsMonotone ==
    ASSUME NEW range \in Topology, NEW n \in Node, NEW j \in Nat, NEW k \in Nat, j <= k
    PROVE  Hops(range, n, j) \subseteq Hops(range, n, k)
<1> DEFINE T == {i \in 0 .. k - j : Hops(range, n, j) \subseteq Hops(range, n, j + i)}
<1>1. k - j \in Nat /\ 0 \in T
  OBVIOUS
<1>2. ASSUME NEW i \in 1 .. k - j, i - 1 \in T PROVE i \in T
  <2>1. j + (i - 1) \in Nat /\ (j + (i - 1)) + 1 = j + i
    OBVIOUS
  <2>2. Hops(range, n, j + (i - 1)) \subseteq Hops(range, n, j + i)
    BY <2>1, HopsGrow
  <2>3. QED
    BY <1>2, <2>2
<1>3. \A i \in 0 .. k - j : i \in T
  <2> HIDE DEF T
  <2>1. QED
    BY <1>1, <1>2, IntervalInduction
<1>4. k - j \in T /\ j + (k - j) = k
  BY <1>1, <1>3
<1>5. QED
  BY <1>4

(***************************************************************************)
(* The election of relays.                                                 *)
(***************************************************************************)
Table == [Node -> Hello \cup {NoInfo}]

\* What the relays mprs leave to be covered, how much of it m covers, and who
\* covers the most.
Left(n, table, mprs) == TwoHops(n, table) \ Covered(table, mprs)

Cover(n, table, mprs, m) == Cardinality(table[m].n1 \cap Left(n, table, mprs))

Best(n, table, mprs) ==
    {m \in Known(table) \ mprs :
        /\ Cover(n, table, mprs, m) > 0
        /\ \A o \in Known(table) \ mprs :
              \/ Cover(n, table, mprs, o) < Cover(n, table, mprs, m)
              \/ Cover(n, table, mprs, o) = Cover(n, table, mprs, m) /\ m <= o}

\* One round of the election.
Elect(n, table) == [mprs \in SUBSET Node |-> mprs \cup Best(n, table, mprs)]

LEMMA TableFields ==
    ASSUME NEW table \in Table
    PROVE  /\ Known(table) \subseteq Node
           /\ \A m \in Known(table) : table[m].n1 \subseteq Node /\ table[m].mprs \subseteq Node
           /\ IsFiniteSet(Known(table)) /\ Cardinality(Known(table)) \in Nat
<1>1. Known(table) \subseteq Node
  BY DEF Known, Table
<1>2. \A m \in Known(table) : table[m].n1 \subseteq Node /\ table[m].mprs \subseteq Node
  <2> TAKE m \in Known(table)
  <2>1. table[m] \in Hello
    BY DEF Known, Table
  <2>2. QED
    BY <2>1 DEF Hello
<1>3. IsFiniteSet(Known(table))
  BY <1>1, FloodAssumption, FS_Subset
<1>4. QED
  BY <1>1, <1>2, <1>3, FS_CardinalityType

LEMMA ElectionIsIterate ==
    ASSUME NEW n \in Node, NEW table \in Table
    PROVE  \E f \in [0 .. Cardinality(Known(table)) -> SUBSET Node] :
               /\ Iterates(f, Cardinality(Known(table)), {}, Elect(n, table))
               /\ ElectedMprs(n, table) = f[Cardinality(Known(table))]
<1> DEFINE K == Cardinality(Known(table))
           rounds[k \in 0 .. K] ==
               IF k = 0 THEN {} ELSE rounds[k - 1] \cup Best(n, table, rounds[k - 1])
<1>1. ElectedMprs(n, table) = rounds[K]
  BY Zenon DEF ElectedMprs, Best, Cover, Left
<1>2. K \in Nat
  BY TableFields
<1>3. \A mprs : Best(n, table, mprs) \subseteq Node
  BY TableFields DEF Best
<1>4. Elect(n, table) \in [SUBSET Node -> SUBSET Node] /\ {} \in SUBSET Node
  BY <1>3 DEF Elect
<1> HIDE DEF K
<1>5. PICK f \in [0 .. K -> SUBSET Node] : Iterates(f, K, {}, Elect(n, table))
  BY <1>2, <1>4, IterationExists
<1>6. \A i \in 1 .. K : f[i] = f[i - 1] \cup Best(n, table, f[i - 1])
  <2> TAKE i \in 1 .. K
  <2>1. f[i] = Elect(n, table)[f[i - 1]] /\ f[i - 1] \in SUBSET Node
    BY <1>2, <1>5 DEF Iterates
  <2>2. QED
    BY <2>1 DEF Elect
<1>7. f = [i \in 0 .. K |-> IF i = 0 THEN {} ELSE f[i - 1] \cup Best(n, table, f[i - 1])]
  <2>1. \A i \in 0 .. K : f[i] = IF i = 0 THEN {} ELSE f[i - 1] \cup Best(n, table, f[i - 1])
    BY <1>2, <1>5, <1>6 DEF Iterates
  <2>2. QED
    BY <2>1
<1>8. rounds = [i \in 0 .. K |-> IF i = 0 THEN {}
                                 ELSE rounds[i - 1] \cup Best(n, table, rounds[i - 1])]
  BY <1>7
<1> HIDE DEF rounds
<1>9. \A i \in 0 .. K : rounds[i] = f[i]
  <2> DEFINE T == {i \in 0 .. K : rounds[i] = f[i]}
  <2>1. 0 \in T
    BY <1>2, <1>7, <1>8
  <2>2. ASSUME NEW i \in 1 .. K, i - 1 \in T PROVE i \in T
    <3>1. i \in 0 .. K /\ i # 0
      BY <1>2
    <3>2. rounds[i] = rounds[i - 1] \cup Best(n, table, rounds[i - 1])
      BY <1>8, <3>1
    <3>3. rounds[i - 1] = f[i - 1]
      BY <2>2
    <3>4. f[i] = f[i - 1] \cup Best(n, table, f[i - 1])
      BY <1>6
    <3>5. rounds[i] = f[i]
      BY <3>2, <3>3, <3>4
    <3>6. QED
      BY <3>1, <3>5
  <2> HIDE DEF T
  <2>3. \A i \in 0 .. K : i \in T
    BY <1>2, <2>1, <2>2, IntervalInduction
  <2>4. QED
    BY <2>3 DEF T
<1>10. QED
  BY <1>1, <1>2, <1>5, <1>9 DEF K

\* Of finitely many candidates one is best, if any covers anything that is left.
LEMMA SomeoneIsBest ==
    ASSUME NEW n \in Node, NEW table \in Table, NEW mprs \in SUBSET Node,
           Left(n, table, mprs) # {}
    PROVE  Best(n, table, mprs) # {}
<1> DEFINE Rest == Known(table) \ mprs
           cover(m) == Cover(n, table, mprs, m)
           top == Cardinality(Node)
<1>1. Rest \subseteq Node /\ top \in Nat
  BY TableFields, FloodAssumption, FS_CardinalityType
<1>2. \A m \in Rest : cover(m) \in Nat /\ cover(m) <= top
  <2> TAKE m \in Rest
  <2>1. table[m].n1 \cap Left(n, table, mprs) \subseteq Node
    BY TableFields
  <2>2. QED
    BY <2>1, FloodAssumption, FS_Subset, FS_CardinalityType DEF Cover
<1>3. PICK m \in Rest : cover(m) > 0
  <2>1. PICK x \in Left(n, table, mprs) : TRUE
    OBVIOUS
  <2>2. PICK m \in Known(table) : x \in table[m].n1
    BY <2>1 DEF Left, TwoHops
  <2>3. m \notin mprs
    BY <2>1, <2>2 DEF Left, Covered
  <2>4. IsFiniteSet(table[m].n1 \cap Left(n, table, mprs))
    <3>1. table[m].n1 \cap Left(n, table, mprs) \in SUBSET Node
      BY TableFields
    <3>2. QED
      BY <3>1, FloodAssumption, FS_Subset
  <2>5. cover(m) # 0
    BY <2>1, <2>2, <2>4, FS_EmptySet DEF Cover
  <2>6. QED
    BY <1>2, <2>2, <2>3, <2>5
<1> HIDE DEF cover, Rest, top
<1>4. PICK gap \in {top - cover(o) : o \in Rest} : \A g \in {top - cover(o) : o \in Rest} : gap <= g
  <2>1. {top - cover(o) : o \in Rest} \in SUBSET Nat /\ {top - cover(o) : o \in Rest} # {}
    BY <1>1, <1>2, <1>3
  <2>2. QED
    BY <2>1, LeastElement
<1>5. PICK most \in Nat : /\ \E o \in Rest : cover(o) = most
                          /\ \A o \in Rest : cover(o) <= most
  <2>1. PICK o \in Rest : gap = top - cover(o)
    BY <1>4
  <2>2. \A p \in Rest : gap <= top - cover(p)
    BY <1>4
  <2>3. \A p \in Rest : cover(p) <= cover(o)
    BY <1>1, <1>2, <2>1, <2>2
  <2>4. QED
    BY <1>2, <2>3
<1>6. PICK best \in {o \in Rest : cover(o) = most} :
           \A o \in {o \in Rest : cover(o) = most} : best <= o
  <2>1. {o \in Rest : cover(o) = most} \in SUBSET Nat /\ {o \in Rest : cover(o) = most} # {}
    BY <1>1, <1>5, FloodAssumption
  <2>2. QED
    BY <2>1, LeastElement
<1>7. /\ best \in Rest /\ cover(best) > 0
      /\ \A o \in Rest : cover(o) < cover(best) \/ (cover(o) = cover(best) /\ best <= o)
  BY <1>2, <1>3, <1>5, <1>6
<1>8. QED
  BY <1>7, Zenon DEF Rest, cover, Best

\* The elected relays are neighbours and reach whatever a neighbour reaches: every
\* round elects one more until nothing is left.
LEMMA ElectionCovers ==
    ASSUME NEW n \in Node, NEW table \in Table
    PROVE  /\ ElectedMprs(n, table) \subseteq Known(table)
           /\ TwoHops(n, table) \subseteq Covered(table, ElectedMprs(n, table))
<1> DEFINE K == Cardinality(Known(table))
<1>1. PICK f \in [0 .. K -> SUBSET Node] :
          Iterates(f, K, {}, Elect(n, table)) /\ ElectedMprs(n, table) = f[K]
  BY ElectionIsIterate
<1>2. K \in Nat /\ IsFiniteSet(Known(table))
  BY TableFields
<1> HIDE DEF K
<1>3. \A i \in 1 .. K : f[i - 1] \in SUBSET Node /\ f[i] = f[i - 1] \cup Best(n, table, f[i - 1])
  <2> TAKE i \in 1 .. K
  <2>1. f[i] = Elect(n, table)[f[i - 1]] /\ f[i - 1] \in SUBSET Node
    BY <1>1, <1>2 DEF Iterates
  <2>2. QED
    BY <2>1 DEF Elect
<1> DEFINE T == {i \in 0 .. K : /\ f[i] \subseteq Known(table)
                                /\ Left(n, table, f[i]) = {} \/ Cardinality(f[i]) >= i}
<1>4. 0 \in T
  <2>1. f[0] = {}
    BY <1>1 DEF Iterates
  <2>2. Cardinality(f[0]) = 0
    BY <2>1, FS_EmptySet
  <2>3. QED
    BY <1>2, <2>1, <2>2
<1>5. ASSUME NEW i \in 1 .. K, i - 1 \in T PROVE i \in T
  <2> DEFINE X == f[i - 1]
  <2>1. X \in SUBSET Node /\ X \subseteq Known(table) /\ f[i] = X \cup Best(n, table, X)
    BY <1>3, <1>5
  <2>2. Best(n, table, X) \subseteq Known(table) \ X
    BY DEF Best
  <2>3. f[i] \subseteq Known(table) /\ i \in 0 .. K
    BY <1>2, <2>1, <2>2
  <2>4. CASE Left(n, table, X) = {}
    <3>1. Left(n, table, f[i]) = {}
      BY <2>1, <2>4 DEF Left, Covered
    <3>2. QED
      BY <2>3, <3>1
  <2>5. CASE Left(n, table, X) # {}
    <3>1. PICK b \in Best(n, table, X) : TRUE
      BY <2>1, <2>5, SomeoneIsBest
    <3>2. b \notin X /\ X \cup {b} \subseteq f[i]
      BY <2>1, <2>2, <3>1
    <3>3. IsFiniteSet(X) /\ IsFiniteSet(f[i])
      BY <1>2, <2>1, <2>3, FS_Subset
    <3>4. Cardinality(X) \in Nat /\ Cardinality(X) >= i - 1
      BY <1>5, <2>5, <3>3, FS_CardinalityType
    <3>5. Cardinality(X \cup {b}) = Cardinality(X) + 1
      BY <3>2, <3>3, FS_AddElement
    <3>6. Cardinality(X \cup {b}) <= Cardinality(f[i])
      BY <3>2, <3>3, FS_Subset
    <3>7. Cardinality(f[i]) \in Nat
      BY <3>3, FS_CardinalityType
    <3>8. Cardinality(f[i]) >= i
      BY <1>2, <3>4, <3>5, <3>6, <3>7
    <3>9. QED
      BY <2>3, <3>8
  <2>6. QED
    BY <2>4, <2>5
<1>6. \A i \in 0 .. K : i \in T
  <2> HIDE DEF T
  <2>1. QED
    BY <1>2, <1>4, <1>5, IntervalInduction
<1>7. K \in T
  BY <1>2, <1>6
<1>8. Left(n, table, f[K]) = {}
  <2>1. CASE Cardinality(f[K]) >= K
    <3>1. f[K] \subseteq Known(table)
      BY <1>7
    <3>2. f[K] = Known(table)
      <4>1. IsFiniteSet(f[K]) /\ Cardinality(f[K]) \in Nat
        BY <1>2, <3>1, FS_Subset, FS_CardinalityType
      <4>2. ASSUME NEW m \in Known(table), m \notin f[K] PROVE FALSE
        <5>1. Cardinality(f[K] \cup {m}) = Cardinality(f[K]) + 1
          BY <4>1, <4>2, FS_AddElement
        <5>2. Cardinality(f[K] \cup {m}) <= K
          BY <1>2, <3>1, FS_Subset DEF K
        <5>3. QED
          BY <1>2, <2>1, <4>1, <5>1, <5>2
      <4>3. QED
        BY <3>1, <4>2
    <3>3. QED
      BY <3>2 DEF Left, TwoHops, Covered
  <2>2. QED
    BY <1>7, <2>1
<1>9. QED
  BY <1>1, <1>7, <1>8 DEF Left

(***************************************************************************)
(* Types.                                                                  *)
(***************************************************************************)
Reception == [from : Node, to : Node, frame : Data \cup Hello]

LEMMA EvictedProperties ==
    ASSUME NEW S, NEW queue \in Seq(S), Len(queue) <= RecentCacheCap + 1
    PROVE  /\ Evicted(queue) \in Seq(S)
           /\ Len(Evicted(queue)) = IF Len(queue) > RecentCacheCap THEN RecentCacheCap ELSE Len(queue)
           /\ \A i \in 1 .. Len(Evicted(queue)) :
                 Evicted(queue)[i] = queue[i + Len(queue) - Len(Evicted(queue))]
<1>1. RecentCacheCap \in Nat /\ Len(queue) \in Nat
  BY FloodAssumption
<1>2. CASE Len(queue) > RecentCacheCap
  <2>1. queue # <<>> /\ Evicted(queue) = Tail(queue) /\ Len(queue) = RecentCacheCap + 1
    BY <1>1, <1>2 DEF Evicted
  <2>2. /\ Tail(queue) \in Seq(S)
        /\ Len(Tail(queue)) = Len(queue) - 1
        /\ \A i \in 1 .. Len(Tail(queue)) : Tail(queue)[i] = queue[i + 1]
    BY <2>1, HeadTailProperties
  <2>3. QED
    BY <1>1, <1>2, <2>1, <2>2
<1>3. CASE ~(Len(queue) > RecentCacheCap)
  BY <1>1, <1>3 DEF Evicted
<1>4. QED
  BY <1>2, <1>3

LEMMA RememberType ==
    ASSUME TypeOK, NEW n \in Node, NEW key \in Key, RememberPacket(n, key)
    PROVE  /\ recent' \in [Node -> Seq(Key)] /\ taken' \in [Node -> Seq(Key)]
           /\ \A m \in Node : Len(recent'[m]) <= RecentCacheCap
<1>1. /\ recent \in [Node -> Seq(Key)] /\ taken \in [Node -> Seq(Key)]
      /\ \A m \in Node : Len(recent[m]) <= RecentCacheCap
  BY DEF TypeOK
<1>2. CASE IsInRecentCache(n, key)
  BY <1>1, <1>2 DEF RememberPacket
<1>3. CASE ~IsInRecentCache(n, key)
  <2>1. /\ recent' = [recent EXCEPT ![n] = Evicted(Append(recent[n], key))]
        /\ taken' = [taken EXCEPT ![n] = Append(taken[n], key)]
    BY <1>3 DEF RememberPacket
  <2>2. /\ Append(recent[n], key) \in Seq(Key) /\ Append(taken[n], key) \in Seq(Key)
        /\ Len(Append(recent[n], key)) = Len(recent[n]) + 1
    BY <1>1, AppendProperties
  <2>3. RecentCacheCap \in Nat /\ Len(recent[n]) \in Nat
    BY <1>1, FloodAssumption
  <2>4. Len(Append(recent[n], key)) <= RecentCacheCap + 1
    BY <1>1, <2>2, <2>3
  <2>5. Evicted(Append(recent[n], key)) \in Seq(Key)
    BY <2>2, <2>4, EvictedProperties
  <2>6. Len(Evicted(Append(recent[n], key))) <= RecentCacheCap
    <3>1. Len(Evicted(Append(recent[n], key)))
            = IF Len(Append(recent[n], key)) > RecentCacheCap THEN RecentCacheCap
              ELSE Len(Append(recent[n], key))
      BY <2>2, <2>4, EvictedProperties
    <3>2. QED
      BY <2>2, <2>3, <3>1
  <2>7. QED
    BY <1>1, <2>1, <2>2, <2>5, <2>6
<1>4. QED
  BY <1>2, <1>3

LEMMA SendType ==
    ASSUME TypeOK, NEW n \in Node, NEW frame \in Data \cup Hello, Send(n, frame)
    PROVE  air' \in SUBSET Reception
<1>1. setup \in SetupType /\ air \in SUBSET Reception
  BY FloodAssumption DEF TypeOK, Reception
<1>2. Receptions(n, frame) \in SUBSET Reception
  BY <1>1 DEF Receptions, Reception, SetupType
<1>3. QED
  BY <1>1, <1>2 DEF Send

\* A refreshed table, and the relays elected from it.
LEMMA RefreshType ==
    ASSUME TypeOK, NEW n \in Node, NEW table \in Table, NEW heard, Refresh(n, table, heard)
    PROVE  /\ neighbours' \in [Node -> Table]
           /\ mpr_set' \in [Node -> SUBSET Node]
           /\ timeouts' \in [Node -> Nat]
           /\ mpr_set'[n] = ElectedMprs(n, neighbours'[n])
           /\ \A m \in Node \ {n} : neighbours'[m] = neighbours[m] /\ mpr_set'[m] = mpr_set[m]
<1>1. /\ neighbours \in [Node -> Table] /\ mpr_set \in [Node -> SUBSET Node]
      /\ timeouts \in [Node -> Nat]
  BY DEF TypeOK, Table
<1>2. PICK pruned \in Prune(n, table, heard) :
          /\ neighbours' = [neighbours EXCEPT ![n] = pruned]
          /\ mpr_set' = [mpr_set EXCEPT ![n] = ElectedMprs(n, pruned)]
          /\ timeouts' = [timeouts EXCEPT ![n] = IF pruned = table THEN @ ELSE @ + 1]
  BY DEF Refresh
<1>3. pruned \in Table
  <2>1. CASE pruned = table
    BY <2>1
  <2>2. CASE pruned # table
    <3>1. PICK gone : pruned = [m \in Node |-> IF m \in gone THEN NoInfo ELSE table[m]]
      BY <1>2, <2>2 DEF Prune
    <3>2. QED
      BY <3>1 DEF Table
  <2>3. QED
    BY <2>1, <2>2
<1>4. ElectedMprs(n, pruned) \in SUBSET Node
  BY <1>3, ElectionCovers, TableFields
<1>5. QED
  BY <1>1, <1>2, <1>3, <1>4

\* What an arriving packet carries.
LEMMA ArrivalType ==
    ASSUME TypeOK, NEW rx \in air
    PROVE  /\ rx.from \in Node /\ rx.to \in Node
           /\ rx.frame \in Data => KeyOf(rx.frame) \in Key
<1>1. rx \in Reception
  BY DEF TypeOK, Reception
<1>2. QED
  BY <1>1 DEF Reception, KeyOf, Key, Data

LEMMA NotedType ==
    ASSUME NEW table \in Table, NEW m \in Node
    PROVE  NoteHeard(table, m) \in Table
<1>1. [n1 |-> {}, mprs |-> {}] \in Hello
  BY DEF Hello
<1>2. QED
  BY <1>1 DEF NoteHeard, Table

OwesOnce == \A n \in Node : \A d, e \in pending[n] : KeyOf(d) = KeyOf(e) => d = e

LEMMA SendHelloType ==
    ASSUME TypeOK, NEW n \in Node, SendHello(n)
    PROVE  TypeOK'
<1>1. neighbours[n] \in Table /\ hellos \in [Node -> Nat]
  BY DEF TypeOK, Table
<1>2. /\ neighbours' \in [Node -> Table] /\ mpr_set' \in [Node -> SUBSET Node]
      /\ timeouts' \in [Node -> Nat]
  BY <1>1, RefreshType DEF SendHello
<1>3. Known(neighbours'[n]) \in SUBSET Node /\ mpr_set'[n] \in SUBSET Node
  BY <1>2, TableFields
<1>4. [n1 |-> Known(neighbours'[n]), mprs |-> mpr_set'[n]] \in Hello
  BY <1>3 DEF Hello
<1>5. air' \in SUBSET Reception
  BY <1>4, SendType DEF SendHello
<1>6. hellos' \in [Node -> Nat]
  BY <1>1 DEF SendHello
<1>7. UNCHANGED <<setup, packetVars>>
  BY DEF SendHello
<1>8. QED
  BY <1>2, <1>5, <1>6, <1>7 DEF TypeOK, packetVars, Reception, Table

LEMMA ReceiveHelloType ==
    ASSUME TypeOK, NEW rx \in air, ReceiveHello(rx)
    PROVE  TypeOK'
<1>1. /\ rx.to \in Node /\ rx.from \in Node /\ rx.frame \in Hello
      /\ Refresh(rx.to, [neighbours[rx.to] EXCEPT ![rx.from] = rx.frame], {rx.from})
      /\ air' = air \ {rx} /\ UNCHANGED <<setup, hellos, packetVars>>
  BY ArrivalType DEF ReceiveHello
<1>2. [neighbours[rx.to] EXCEPT ![rx.from] = rx.frame] \in Table
  BY <1>1 DEF TypeOK, Table
<1>3. /\ neighbours' \in [Node -> Table] /\ mpr_set' \in [Node -> SUBSET Node]
      /\ timeouts' \in [Node -> Nat]
  BY <1>1, <1>2, RefreshType
<1>4. QED
  BY <1>1, <1>3 DEF TypeOK, packetVars, Table

LEMMA OriginateType ==
    ASSUME TypeOK, NEW n \in Node, NEW dst \in Node, Originate(n, dst)
    PROVE  TypeOK'
<1> DEFINE data == [src |-> n, id |-> next_id[n], dst |-> dst, hop |-> InitialHopLimit]
<1>1. /\ next_id' = [next_id EXCEPT ![n] = @ + 1]
      /\ RememberPacket(n, [src |-> n, id |-> next_id[n]])
      /\ Send(n, data) /\ sent' = sent \cup {data}
      /\ UNCHANGED <<setup, tableVars, hellos, timeouts, pending, forwarded>>
  BY DEF Originate
<1>2. next_id \in [Node -> Nat] /\ sent \in SUBSET Data
  BY DEF TypeOK
<1>3. next_id' \in [Node -> Nat] /\ [src |-> n, id |-> next_id[n]] \in Key
  BY <1>1, <1>2 DEF Key
<1>4. data \in Data
  BY <1>2, FloodAssumption DEF Data
<1>5. /\ recent' \in [Node -> Seq(Key)] /\ taken' \in [Node -> Seq(Key)]
      /\ \A m \in Node : Len(recent'[m]) <= RecentCacheCap
  BY <1>1, <1>3, RememberType
<1>6. air' \in SUBSET Reception /\ sent' \in SUBSET Data
  <2> HIDE DEF data
  <2>1. QED
    BY <1>1, <1>2, <1>4, SendType
<1>7. QED
  BY <1>1, <1>3, <1>5, <1>6 DEF TypeOK, tableVars, Reception

\* What every arrival of a packet does.
LEMMA ArrivesType ==
    ASSUME TypeOK, NEW rx \in air, Arrives(rx)
    PROVE  /\ neighbours' \in [Node -> Table] /\ air' \in SUBSET Reception
           /\ UNCHANGED <<setup, next_id, mpr_set, hellos, timeouts, forwarded, sent>>
<1>1. rx.to \in Node /\ rx.from \in Node /\ neighbours \in [Node -> Table]
  BY ArrivalType DEF TypeOK, Table
<1>2. NoteHeard(neighbours[rx.to], rx.from) \in Table
  BY <1>1, NotedType
<1>3. neighbours' \in [Node -> Table]
  BY <1>1, <1>2 DEF Arrives
<1>4. QED
  BY <1>3 DEF Arrives, TypeOK, Reception

LEMMA ReceivePendingType ==
    ASSUME TypeOK, NEW rx \in air, ReceivePending(rx)
    PROVE  TypeOK'
<1>1. /\ Arrives(rx) /\ rx.frame \in Data /\ RememberPacket(rx.to, KeyOf(rx.frame))
      /\ pending' = IF KeepsPending(rx.to) THEN pending
                    ELSE [pending EXCEPT ![rx.to] = @ \ PendingFor(rx.to, KeyOf(rx.frame))]
  BY DEF ReceivePending, Arrives
<1>2. rx.to \in Node /\ KeyOf(rx.frame) \in Key
  BY <1>1, ArrivalType
<1>3. /\ recent' \in [Node -> Seq(Key)] /\ taken' \in [Node -> Seq(Key)]
      /\ \A m \in Node : Len(recent'[m]) <= RecentCacheCap
  BY <1>1, <1>2, RememberType
<1>4. /\ neighbours' \in [Node -> Table] /\ air' \in SUBSET Reception
      /\ UNCHANGED <<setup, next_id, mpr_set, hellos, timeouts, forwarded, sent>>
  BY <1>1, ArrivesType
<1>5. \A n \in Node : pending'[n] \subseteq pending[n]
  BY <1>1, <1>2 DEF TypeOK
<1>6. pending' \in [Node -> SUBSET Data] /\ OwesOnce'
  BY <1>1, <1>2, <1>5 DEF TypeOK, OwesOnce
<1>7. QED
  BY <1>3, <1>4, <1>6 DEF TypeOK, OwesOnce, Reception, Table

LEMMA ReceiveNewType ==
    ASSUME TypeOK, NEW rx \in air, ReceiveNew(rx)
    PROVE  TypeOK'
<1>1. /\ Arrives(rx) /\ rx.frame \in Data /\ RememberPacket(rx.to, KeyOf(rx.frame))
      /\ PendingFor(rx.to, KeyOf(rx.frame)) = {}
      /\ pending' = IF MayForward(rx.to, rx.frame, rx.from)
                    THEN ScheduleRebroadcast(rx.to, NextHop(rx.frame)) ELSE pending
  BY DEF ReceiveNew, Arrives
<1>2. rx.to \in Node /\ KeyOf(rx.frame) \in Key
  BY <1>1, ArrivalType
<1>3. /\ recent' \in [Node -> Seq(Key)] /\ taken' \in [Node -> Seq(Key)]
      /\ \A m \in Node : Len(recent'[m]) <= RecentCacheCap
  BY <1>1, <1>2, RememberType
<1>4. /\ neighbours' \in [Node -> Table] /\ air' \in SUBSET Reception
      /\ UNCHANGED <<setup, next_id, mpr_set, hellos, timeouts, forwarded, sent>>
  BY <1>1, ArrivesType
<1>5. pending \in [Node -> SUBSET Data] /\ OwesOnce
  BY DEF TypeOK, OwesOnce
<1>6. pending' \in [Node -> SUBSET Data] /\ OwesOnce'
  <2>1. CASE ~MayForward(rx.to, rx.frame, rx.from)
    BY <1>1, <1>5, <2>1 DEF OwesOnce
  <2>2. CASE MayForward(rx.to, rx.frame, rx.from)
    <3>1. NextHop(rx.frame) \in Data /\ KeyOf(NextHop(rx.frame)) = KeyOf(rx.frame)
      BY <1>1, <2>2 DEF MayForward, NextHop, Data, KeyOf
    <3>2. pending' = [pending EXCEPT ![rx.to] = pending[rx.to] \cup {NextHop(rx.frame)}]
      BY <1>1, <2>2 DEF ScheduleRebroadcast
    <3>3. \A d \in pending[rx.to] : KeyOf(d) # KeyOf(NextHop(rx.frame))
      BY <1>1, <3>1 DEF PendingFor
    <3>4. pending' \in [Node -> SUBSET Data]
      BY <1>2, <1>5, <3>1, <3>2
    <3>5. OwesOnce'
      BY <1>2, <1>5, <3>2, <3>3 DEF OwesOnce
    <3>6. QED
      BY <3>4, <3>5
  <2>3. QED
    BY <2>1, <2>2
<1>7. QED
  BY <1>3, <1>4, <1>6 DEF TypeOK, OwesOnce, Reception, Table

LEMMA RebroadcastType ==
    ASSUME TypeOK, NEW n \in Node, NEW data \in pending[n], Rebroadcast(n, data)
    PROVE  TypeOK'
<1>1. /\ pending' = [pending EXCEPT ![n] = pending[n] \ {data}]
      /\ forwarded' = [forwarded EXCEPT ![n] = Append(@, KeyOf(data))]
      /\ Send(n, data)
      /\ UNCHANGED <<setup, tableVars, hellos, timeouts, next_id, recent, taken, sent>>
  BY DEF Rebroadcast, NoLongerPending
<1>2. pending \in [Node -> SUBSET Data] /\ OwesOnce /\ forwarded \in [Node -> Seq(Key)]
  BY DEF TypeOK, OwesOnce
<1>3. data \in Data /\ KeyOf(data) \in Key
  BY <1>2 DEF KeyOf, Key, Data
<1>4. air' \in SUBSET Reception
  BY <1>1, <1>3, SendType
<1>5. forwarded' \in [Node -> Seq(Key)]
  <2>1. Append(forwarded[n], KeyOf(data)) \in Seq(Key)
    BY <1>2, <1>3, AppendProperties
  <2>2. QED
    BY <1>1, <1>2, <2>1
<1>6. pending' \in [Node -> SUBSET Data] /\ OwesOnce'
  BY <1>1, <1>2 DEF OwesOnce
<1>7. QED
  BY <1>1, <1>4, <1>5, <1>6 DEF TypeOK, OwesOnce, Reception, tableVars

LEMMA StepTypeOK ==
    ASSUME TypeOK, [Next]_vars
    PROVE  TypeOK'
<1>1. ASSUME NEW rx \in air, ReceiveDuplicate(rx) PROVE TypeOK'
  <2>1. Arrives(rx) /\ UNCHANGED <<recent, pending, taken>>
    BY <1>1 DEF ReceiveDuplicate
  <2>2. /\ neighbours' \in [Node -> Table] /\ air' \in SUBSET Reception
        /\ UNCHANGED <<setup, next_id, mpr_set, hellos, timeouts, forwarded, sent>>
    BY <2>1, ArrivesType
  <2>3. QED
    BY <2>1, <2>2 DEF TypeOK, Reception, Table
<1>2. ASSUME NEW rx \in air, ReceptionFails(rx) PROVE TypeOK'
  BY <1>2 DEF ReceptionFails, TypeOK, packetVars, tableVars
<1>3. CASE UNCHANGED vars
  BY <1>3 DEF TypeOK, vars
<1>4. QED
  BY <1>1, <1>2, <1>3, SendHelloType, OriginateType, RebroadcastType, ReceiveHelloType,
     ReceivePendingType, ReceiveNewType DEF Next

(***************************************************************************)
(* The relays cover the two-hop neighbours.                                *)
(***************************************************************************)
LEMMA RefreshCovers ==
    ASSUME TypeOK, MprCovers, NEW n \in Node, NEW table \in Table, NEW heard,
           Refresh(n, table, heard)
    PROVE  MprCovers'
<1>1. /\ neighbours' \in [Node -> Table]
      /\ mpr_set'[n] = ElectedMprs(n, neighbours'[n])
      /\ \A m \in Node \ {n} : neighbours'[m] = neighbours[m] /\ mpr_set'[m] = mpr_set[m]
  BY RefreshType
<1>2. /\ mpr_set'[n] \subseteq Known(neighbours'[n])
      /\ TwoHops(n, neighbours'[n]) \subseteq Covered(neighbours'[n], mpr_set'[n])
  BY <1>1, ElectionCovers
<1>3. ASSUME NEW m \in Node \ {n}
      PROVE  /\ mpr_set'[m] \subseteq Known(neighbours'[m])
             /\ TwoHops(m, neighbours'[m]) \subseteq Covered(neighbours'[m], mpr_set'[m])
  BY <1>1, <1>3 DEF MprCovers
<1>4. QED
  BY <1>2, <1>3 DEF MprCovers

\* A neighbour that was only heard reaches nobody yet.
LEMMA NotedCovers ==
    ASSUME NEW n \in Node, NEW m \in Node, NEW table \in Table, NEW mprs,
           mprs \subseteq Known(table), TwoHops(n, table) \subseteq Covered(table, mprs)
    PROVE  /\ mprs \subseteq Known(NoteHeard(table, m))
           /\ TwoHops(n, NoteHeard(table, m)) \subseteq Covered(NoteHeard(table, m), mprs)
<1>1. CASE table[m] # NoInfo
  BY <1>1 DEF NoteHeard
<1>2. CASE table[m] = NoInfo
  <2> DEFINE noted == NoteHeard(table, m)
  <2>1. noted = [table EXCEPT ![m] = [n1 |-> {}, mprs |-> {}]]
    BY <1>2 DEF NoteHeard
  <2>2. /\ DOMAIN table = Node /\ DOMAIN noted = Node /\ m \notin Known(table)
        /\ noted[m].n1 = {} /\ \A o \in Node \ {m} : noted[o] = table[o]
    BY <1>2, <2>1 DEF Table, Known
  <2> HIDE DEF noted
  <2>3. Known(table) \subseteq Known(noted) /\ Known(noted) \subseteq Known(table) \cup {m}
    BY <2>2 DEF Known
  <2>4. \A o \in Known(table) : noted[o] = table[o]
    BY <2>2 DEF Known
  <2>5. Covered(noted, mprs) = Covered(table, mprs)
    BY <2>4 DEF Covered
  <2>6. TwoHops(n, noted) \subseteq TwoHops(n, table)
    <3>1. ASSUME NEW x \in TwoHops(n, noted) PROVE x \in TwoHops(n, table)
      <4>1. x \notin Known(noted) /\ x # n
        BY <3>1 DEF TwoHops
      <4>2. PICK o \in Known(noted) : x \in noted[o].n1
        BY <3>1 DEF TwoHops
      <4>3. o \in Known(table) /\ x \in table[o].n1
        BY <2>2, <2>3, <2>4, <4>2
      <4>4. QED
        BY <2>3, <4>1, <4>3 DEF TwoHops
    <3>2. QED
      BY <3>1
  <2>7. QED
    BY <2>3, <2>5, <2>6 DEF noted
<1>3. QED
  BY <1>1, <1>2

LEMMA ArrivesCovers ==
    ASSUME TypeOK, MprCovers, NEW rx \in air, Arrives(rx)
    PROVE  MprCovers'
<1>1. /\ rx.to \in Node /\ rx.from \in Node /\ neighbours \in [Node -> Table]
      /\ UNCHANGED mpr_set
  BY ArrivalType DEF TypeOK, Table, Arrives
<1>2. CASE neighbours' = neighbours
  BY <1>1, <1>2 DEF MprCovers
<1>3. CASE neighbours' = [neighbours EXCEPT ![rx.to] = NoteHeard(neighbours[rx.to], rx.from)]
  <2>1. ASSUME NEW n \in Node
        PROVE  /\ mpr_set'[n] \subseteq Known(neighbours'[n])
               /\ TwoHops(n, neighbours'[n]) \subseteq Covered(neighbours'[n], mpr_set'[n])
    <3>1. /\ mpr_set[n] \subseteq Known(neighbours[n])
          /\ TwoHops(n, neighbours[n]) \subseteq Covered(neighbours[n], mpr_set[n])
      BY DEF MprCovers
    <3>2. CASE n # rx.to
      <4>1. neighbours'[n] = neighbours[n] /\ mpr_set'[n] = mpr_set[n]
        BY <1>1, <1>3, <3>2
      <4>2. QED
        BY <3>1, <4>1
    <3>3. CASE n = rx.to
      <4>1. /\ neighbours'[n] = NoteHeard(neighbours[n], rx.from) /\ mpr_set'[n] = mpr_set[n]
            /\ neighbours[n] \in Table
        BY <1>1, <1>3, <3>3
      <4>2. /\ mpr_set[n] \subseteq Known(NoteHeard(neighbours[n], rx.from))
            /\ TwoHops(n, NoteHeard(neighbours[n], rx.from))
                  \subseteq Covered(NoteHeard(neighbours[n], rx.from), mpr_set[n])
        BY <1>1, <3>1, <4>1, NotedCovers
      <4>3. QED
        BY <4>1, <4>2
    <3>4. QED
      BY <3>2, <3>3
  <2>2. QED
    BY <2>1 DEF MprCovers
<1>4. QED
  BY <1>2, <1>3 DEF Arrives

LEMMA StepMprCovers ==
    ASSUME TypeOK, MprCovers, [Next]_vars
    PROVE  MprCovers'
<1>1. ASSUME UNCHANGED tableVars PROVE MprCovers'
  BY <1>1 DEF MprCovers, tableVars
<1>2. ASSUME NEW n \in Node, SendHello(n) PROVE MprCovers'
  <2>1. neighbours[n] \in Table
    BY DEF TypeOK, Table
  <2>2. QED
    BY <1>2, <2>1, RefreshCovers DEF SendHello
<1>3. ASSUME NEW rx \in air, ReceiveHello(rx) PROVE MprCovers'
  <2>1. rx.to \in Node /\ rx.from \in Node /\ rx.frame \in Hello
    BY <1>3, ArrivalType DEF ReceiveHello
  <2>2. [neighbours[rx.to] EXCEPT ![rx.from] = rx.frame] \in Table
    BY <2>1 DEF TypeOK, Table
  <2>3. QED
    BY <1>3, <2>1, <2>2, RefreshCovers DEF ReceiveHello
<1>4. ASSUME NEW rx \in air, ReceivePending(rx) \/ ReceiveDuplicate(rx) \/ ReceiveNew(rx)
      PROVE  MprCovers'
  BY <1>4, ArrivesCovers DEF ReceivePending, ReceiveDuplicate, ReceiveNew
<1>5. ASSUME NEW n \in Node, NEW dst \in Node, Originate(n, dst) PROVE MprCovers'
  BY <1>1, <1>5 DEF Originate
<1>6. ASSUME NEW n \in Node, NEW data \in pending[n], Rebroadcast(n, data) PROVE MprCovers'
  BY <1>1, <1>6 DEF Rebroadcast
<1>7. ASSUME NEW rx \in air, ReceptionFails(rx) PROVE MprCovers'
  BY <1>1, <1>7 DEF ReceptionFails
<1>8. CASE UNCHANGED vars
  BY <1>1, <1>8 DEF vars, tableVars
<1>9. QED
  BY <1>2, <1>3, <1>4, <1>5, <1>6, <1>7, <1>8 DEF Next

(***************************************************************************)
(* The cache holds what was taken in last.                                 *)
(***************************************************************************)
\* queue is the end of all.
LastOf(queue, all) ==
    /\ Len(queue) = IF Len(all) < RecentCacheCap THEN Len(all) ELSE RecentCacheCap
    /\ \A i \in 1 .. Len(queue) : queue[i] = all[i + Len(all) - Len(queue)]

\* No element comes again within the cache's capacity.
Spaced(all) ==
    \A i, j \in DOMAIN all : i < j /\ all[i] = all[j] => j - i > RecentCacheCap

CacheInv == \A n \in Node : LastOf(recent[n], taken[n]) /\ Spaced(taken[n])

LEMMA AppendSpaced ==
    ASSUME NEW queue \in Seq(Key), NEW all \in Seq(Key), NEW key \in Key,
           LastOf(queue, all), Spaced(all), key \notin Elements(queue)
    PROVE  LastOf(Evicted(Append(queue, key)), Append(all, key)) /\ Spaced(Append(all, key))
<1> DEFINE q == Append(queue, key)
           a == Append(all, key)
<1>1. RecentCacheCap \in Nat \ {0} /\ Len(queue) \in Nat /\ Len(all) \in Nat
  BY FloodAssumption
<1>2. /\ q \in Seq(Key) /\ Len(q) = Len(queue) + 1 /\ q[Len(queue) + 1] = key
      /\ \A i \in 1 .. Len(queue) : q[i] = queue[i]
  BY AppendProperties
<1>3. /\ a \in Seq(Key) /\ Len(a) = Len(all) + 1 /\ a[Len(all) + 1] = key
      /\ \A i \in 1 .. Len(all) : a[i] = all[i]
  BY AppendProperties
<1>4. /\ Len(queue) = IF Len(all) < RecentCacheCap THEN Len(all) ELSE RecentCacheCap
      /\ \A i \in 1 .. Len(queue) : queue[i] = all[i + Len(all) - Len(queue)]
  BY DEF LastOf
<1>5. DOMAIN a = 1 .. Len(a) /\ DOMAIN all = 1 .. Len(all) /\ DOMAIN queue = 1 .. Len(queue)
  BY <1>3
<1> HIDE DEF q, a
<1>6. Len(q) <= RecentCacheCap + 1
  BY <1>1, <1>2, <1>4
<1>7. /\ Len(Evicted(q)) = IF Len(q) > RecentCacheCap THEN RecentCacheCap ELSE Len(q)
      /\ \A i \in 1 .. Len(Evicted(q)) : Evicted(q)[i] = q[i + Len(q) - Len(Evicted(q))]
  BY <1>2, <1>6, EvictedProperties
<1>8. Len(Evicted(q)) = IF Len(a) < RecentCacheCap THEN Len(a) ELSE RecentCacheCap
  BY <1>1, <1>2, <1>3, <1>4, <1>7
<1>9. ASSUME NEW i \in 1 .. Len(Evicted(q))
      PROVE  Evicted(q)[i] = a[i + Len(a) - Len(Evicted(q))]
  <2>1. /\ Len(Evicted(q)) \in Nat /\ Len(q) \in Nat /\ Len(Evicted(q)) <= Len(q)
        /\ i \in Int /\ 1 <= i /\ i <= Len(Evicted(q))
    BY <1>1, <1>2, <1>7
  <2>2. PICK k \in Int : k = i + Len(q) - Len(Evicted(q))
    BY <2>1, SMTT(60)
  <2>3. k \in 1 .. Len(q) /\ Evicted(q)[i] = q[k]
    <3>1. k \in 1 .. Len(q)
      BY <2>1, <2>2
    <3>2. QED
      BY <1>7, <2>2, <3>1
  <2>4. i + Len(a) - Len(Evicted(q)) = k + Len(all) - Len(queue)
    BY <1>1, <1>2, <1>3, <1>7, <2>2
  <2>5. CASE k = Len(queue) + 1
    <3>1. k + Len(all) - Len(queue) = Len(all) + 1
      BY <1>1, <2>5
    <3>2. QED
      BY <1>2, <1>3, <2>3, <2>4, <2>5, <3>1
  <2>6. CASE k \in 1 .. Len(queue)
    <3>1. k + Len(all) - Len(queue) \in 1 .. Len(all)
      BY <1>1, <1>4, <2>6
    <3>2. a[k + Len(all) - Len(queue)] = all[k + Len(all) - Len(queue)]
      BY <1>3, <3>1
    <3>3. q[k] = all[k + Len(all) - Len(queue)]
      BY <1>2, <1>4, <2>6
    <3>4. QED
      BY <2>3, <2>4, <3>2, <3>3
  <2>7. QED
    BY <1>1, <1>2, <2>3, <2>5, <2>6
<1>10. Spaced(a)
  <2> SUFFICES ASSUME NEW i \in 1 .. Len(a), NEW j \in 1 .. Len(a), i < j, a[i] = a[j]
               PROVE  j - i > RecentCacheCap
    BY <1>5 DEF Spaced
  <2>1. i \in 1 .. Len(all) /\ a[i] = all[i]
    BY <1>1, <1>3
  <2>2. CASE j \in 1 .. Len(all)
    BY <1>3, <1>5, <2>1, <2>2 DEF Spaced
  <2>3. CASE j = Len(all) + 1
    <3>1. all[i] = key
      BY <1>3, <2>1, <2>3
    <3>2. ASSUME i > Len(all) - Len(queue) PROVE FALSE
      <4>1. PICK k \in Int : k = i - (Len(all) - Len(queue))
        <5>1. i \in Int /\ Len(all) \in Int /\ Len(queue) \in Int
          BY <1>1, <2>1
        <5>2. i - (Len(all) - Len(queue)) \in Int
          BY <5>1
        <5>3. QED
          BY <5>2
      <4>2. k \in 1 .. Len(queue) /\ i = k + Len(all) - Len(queue)
        BY <1>1, <2>1, <3>2, <4>1
      <4>3. queue[k] = key
        BY <1>4, <3>1, <4>2
      <4>4. QED
        BY <1>5, <4>2, <4>3 DEF Elements
    <3>3. i <= Len(all) - Len(queue)
      BY <1>1, <3>2
    <3>4. Len(queue) = RecentCacheCap
      BY <1>1, <1>4, <3>3
    <3>5. QED
      BY <1>1, <2>3, <3>3, <3>4
  <2>4. QED
    BY <1>1, <1>3, <2>2, <2>3
<1>11. QED
  BY <1>8, <1>9, <1>10 DEF LastOf, q, a

LEMMA RememberCached ==
    ASSUME TypeOK, CacheInv, NEW n \in Node, NEW key \in Key, RememberPacket(n, key)
    PROVE  CacheInv'
<1>1. recent \in [Node -> Seq(Key)] /\ taken \in [Node -> Seq(Key)]
  BY DEF TypeOK
<1>2. CASE IsInRecentCache(n, key)
  BY <1>2 DEF RememberPacket, CacheInv
<1>3. CASE ~IsInRecentCache(n, key)
  <2>1. /\ recent' = [recent EXCEPT ![n] = Evicted(Append(recent[n], key))]
        /\ taken' = [taken EXCEPT ![n] = Append(taken[n], key)]
    BY <1>3 DEF RememberPacket
  <2>2. LastOf(recent[n], taken[n]) /\ Spaced(taken[n]) /\ key \notin Elements(recent[n])
    BY <1>3 DEF CacheInv, IsInRecentCache
  <2>3. /\ LastOf(Evicted(Append(recent[n], key)), Append(taken[n], key))
        /\ Spaced(Append(taken[n], key))
    BY <1>1, <2>2, AppendSpaced
  <2>4. ASSUME NEW m \in Node PROVE LastOf(recent'[m], taken'[m]) /\ Spaced(taken'[m])
    <3>1. CASE m = n
      <4>1. recent'[m] = Evicted(Append(recent[n], key)) /\ taken'[m] = Append(taken[n], key)
        BY <1>1, <2>1, <3>1
      <4>2. QED
        BY <2>3, <4>1
    <3>2. CASE m # n
      <4>1. recent'[m] = recent[m] /\ taken'[m] = taken[m]
        BY <1>1, <2>1, <3>2
      <4>2. QED
        BY <4>1 DEF CacheInv
    <3>3. QED
      BY <3>1, <3>2
  <2>5. QED
    BY <2>4 DEF CacheInv
<1>4. QED
  BY <1>2, <1>3

\* What a step makes of the caches.
LEMMA StepRemembers ==
    ASSUME TypeOK, [Next]_vars
    PROVE  \/ UNCHANGED <<recent, taken>>
           \/ \E n \in Node, key \in Key : RememberPacket(n, key)
<1>1. ASSUME NEW rx \in air, ReceivePending(rx) \/ ReceiveNew(rx)
      PROVE  \E n \in Node, key \in Key : RememberPacket(n, key)
  <2>1. /\ rx.to \in Node /\ KeyOf(rx.frame) \in Key
        /\ RememberPacket(rx.to, KeyOf(rx.frame))
    BY <1>1, ArrivalType DEF ReceivePending, ReceiveNew, Arrives
  <2>2. QED
    BY <2>1
<1>2. ASSUME NEW n \in Node, NEW dst \in Node, Originate(n, dst)
      PROVE  \E m \in Node, key \in Key : RememberPacket(m, key)
  <2>1. [src |-> n, id |-> next_id[n]] \in Key
    BY DEF TypeOK, Key
  <2>2. QED
    BY <1>2, <2>1 DEF Originate
<1>3. QED
  BY <1>1, <1>2 DEF Next, SendHello, ReceiveHello, ReceiveDuplicate, ReceptionFails,
     Rebroadcast, packetVars, vars

LEMMA StepCacheInv ==
    ASSUME TypeOK, CacheInv, [Next]_vars
    PROVE  CacheInv'
<1>1. CASE UNCHANGED <<recent, taken>>
  BY <1>1 DEF CacheInv
<1>2. QED
  BY <1>1, StepRemembers, RememberCached

(***************************************************************************)
(* Rebroadcasts are counted by what was taken in.                          *)
(***************************************************************************)
Count(queue, key) == Cardinality({i \in DOMAIN queue : queue[i] = key})

Owed(n, key) == Cardinality(PendingFor(n, key))

\* What a node rebroadcast and what it owes, of any packet.
ForwardInv ==
    \A n \in Node : \A key \in Key :
        Count(forwarded[n], key) + Owed(n, key) <= Count(taken[n], key)

LEMMA CountType ==
    ASSUME NEW queue \in Seq(Key), NEW key
    PROVE  Count(queue, key) \in Nat /\ IsFiniteSet({i \in DOMAIN queue : queue[i] = key})
<1>1. Len(queue) \in Nat /\ DOMAIN queue = 1 .. Len(queue)
  BY LenProperties
<1>2. IsFiniteSet(DOMAIN queue)
  BY <1>1, FS_Interval
<1>3. {i \in DOMAIN queue : queue[i] = key} \in SUBSET DOMAIN queue
  OBVIOUS
<1>4. IsFiniteSet({i \in DOMAIN queue : queue[i] = key})
  BY <1>2, <1>3, FS_Subset
<1>5. QED
  BY <1>4, FS_CardinalityType DEF Count

LEMMA CountAppend ==
    ASSUME NEW queue \in Seq(Key), NEW e \in Key, NEW key
    PROVE  Count(Append(queue, e), key) = Count(queue, key) + (IF e = key THEN 1 ELSE 0)
<1> DEFINE a == Append(queue, e)
           old == {i \in DOMAIN queue : queue[i] = key}
           new == {i \in DOMAIN a : a[i] = key}
<1>1. /\ a \in Seq(Key) /\ Len(a) = Len(queue) + 1 /\ a[Len(queue) + 1] = e
      /\ \A i \in 1 .. Len(queue) : a[i] = queue[i]
  BY AppendProperties
<1>2. Len(queue) \in Nat /\ DOMAIN queue = 1 .. Len(queue) /\ DOMAIN a = 1 .. Len(queue) + 1
  BY <1>1, LenProperties
<1> HIDE DEF a
<1>3. IsFiniteSet(old) /\ Cardinality(old) \in Nat
  BY CountType DEF Count
<1>4. CASE e = key
  <2>1. new = old \cup {Len(queue) + 1} /\ Len(queue) + 1 \notin old
    BY <1>1, <1>2, <1>4
  <2> HIDE DEF old, new
  <2>2. Cardinality(new) = Cardinality(old) + 1
    BY <1>3, <2>1, FS_AddElement
  <2>3. QED
    BY <1>4, <2>2 DEF Count, a, old, new
<1>5. CASE e # key
  <2>1. new = old
    BY <1>1, <1>2, <1>5
  <2> HIDE DEF old, new
  <2>2. Cardinality(new) = Cardinality(old) + 0
    BY <1>3, <2>1
  <2>3. QED
    BY <1>5, <2>2 DEF Count, a, old, new
<1>6. QED
  BY <1>4, <1>5

\* A node owes a packet once at most, and nothing if nothing is pending.
LEMMA OwedOnce ==
    ASSUME TypeOK, NEW n \in Node, NEW key
    PROVE  /\ Owed(n, key) \in {0, 1} /\ IsFiniteSet(PendingFor(n, key))
           /\ PendingFor(n, key) = {} <=> Owed(n, key) = 0
<1>1. CASE PendingFor(n, key) = {}
  BY <1>1, FS_EmptySet DEF Owed
<1>2. CASE PendingFor(n, key) # {}
  <2>1. PICK d \in PendingFor(n, key) : TRUE
    BY <1>2
  <2>2. PendingFor(n, key) = {d}
    BY <2>1 DEF TypeOK, PendingFor
  <2>3. Owed(n, key) = 1 /\ IsFiniteSet(PendingFor(n, key))
    BY <2>2, FS_Singleton DEF Owed
  <2>4. QED
    BY <1>2, <2>3
<1>3. QED
  BY <1>1, <1>2

LEMMA RememberCounts ==
    ASSUME TypeOK, NEW n \in Node, NEW key \in Key, RememberPacket(n, key)
    PROVE  /\ \A m \in Node, k \in Key : Count(taken[m], k) <= Count(taken'[m], k)
           /\ ~IsInRecentCache(n, key) => Count(taken'[n], key) = Count(taken[n], key) + 1
<1>1. \A m \in Node : taken[m] \in Seq(Key)
  BY DEF TypeOK
<1>2. \A m \in Node, k \in Key : Count(taken[m], k) \in Nat
  BY <1>1, CountType
<1>3. CASE IsInRecentCache(n, key)
  BY <1>2, <1>3 DEF RememberPacket
<1>4. CASE ~IsInRecentCache(n, key)
  <2>1. taken' = [taken EXCEPT ![n] = Append(taken[n], key)]
    BY <1>4 DEF RememberPacket
  <2>2. taken'[n] = Append(taken[n], key) /\ \A m \in Node \ {n} : taken'[m] = taken[m]
    BY <2>1 DEF TypeOK
  <2>3. \A k \in Key : Count(taken'[n], k) = Count(taken[n], k) + (IF key = k THEN 1 ELSE 0)
    BY <1>1, <2>2, CountAppend
  <2>4. \A k \in Key : Count(taken[n], k) <= Count(taken'[n], k)
    BY <1>2, <2>3
  <2>5. \A m \in Node \ {n}, k \in Key : Count(taken[m], k) <= Count(taken'[m], k)
    BY <1>2, <2>2
  <2>6. Count(taken'[n], key) = Count(taken[n], key) + 1
    BY <2>3
  <2>7. QED
    BY <2>4, <2>5, <2>6
<1>5. QED
  BY <1>3, <1>4

\* Nothing is owed or forwarded that was not before, and no packet is forgotten.
LEMMA NoMoreOwed ==
    ASSUME TypeOK, TypeOK', ForwardInv, UNCHANGED forwarded,
           \A n \in Node : pending'[n] \subseteq pending[n],
           \A n \in Node, k \in Key : Count(taken[n], k) <= Count(taken'[n], k)
    PROVE  ForwardInv'
<1> SUFFICES ASSUME NEW n \in Node, NEW key \in Key
             PROVE  Count(forwarded'[n], key) + Owed(n, key)' <= Count(taken'[n], key)
  BY DEF ForwardInv
<1>1. PendingFor(n, key)' \subseteq PendingFor(n, key)
  BY DEF PendingFor
<1>2. IsFiniteSet(PendingFor(n, key)) /\ Owed(n, key) \in Nat
  BY OwedOnce
<1>3. Owed(n, key)' <= Owed(n, key) /\ Owed(n, key)' \in Nat
  <2>1. PendingFor(n, key)' \in SUBSET PendingFor(n, key)
    BY <1>1
  <2>2. /\ IsFiniteSet(PendingFor(n, key)')
        /\ Cardinality(PendingFor(n, key)') <= Cardinality(PendingFor(n, key))
    BY <1>2, <2>1, FS_Subset
  <2>3. QED
    BY <2>2, FS_CardinalityType DEF Owed
<1>4. /\ Count(forwarded[n], key) \in Nat /\ Count(taken[n], key) \in Nat
      /\ Count(taken'[n], key) \in Nat
  <2>1. forwarded[n] \in Seq(Key) /\ taken[n] \in Seq(Key) /\ taken'[n] \in Seq(Key)
    BY DEF TypeOK
  <2>2. QED
    BY <2>1, CountType
<1>5. Count(forwarded[n], key) + Owed(n, key) <= Count(taken[n], key)
  BY DEF ForwardInv
<1>6. Count(taken[n], key) <= Count(taken'[n], key)
  OBVIOUS
<1>7. QED
  BY <1>2, <1>3, <1>4, <1>5, <1>6

LEMMA ReceiveNewCounts ==
    ASSUME TypeOK, TypeOK', ForwardInv, NEW rx \in air, ReceiveNew(rx)
    PROVE  ForwardInv'
<1> DEFINE key == KeyOf(rx.frame)
<1>1. /\ rx.to \in Node /\ key \in Key /\ rx.frame \in Data
      /\ RememberPacket(rx.to, key) /\ ~IsInRecentCache(rx.to, key)
      /\ PendingFor(rx.to, key) = {} /\ UNCHANGED forwarded
      /\ pending' = IF MayForward(rx.to, rx.frame, rx.from)
                    THEN ScheduleRebroadcast(rx.to, NextHop(rx.frame)) ELSE pending
  BY ArrivalType DEF ReceiveNew, Arrives
<1>2. KeyOf(NextHop(rx.frame)) = key
  BY <1>1 DEF NextHop, KeyOf, Data
<1> HIDE DEF key
<1>3. /\ \A m \in Node, k \in Key : Count(taken[m], k) <= Count(taken'[m], k)
      /\ Count(taken'[rx.to], key) = Count(taken[rx.to], key) + 1
  BY <1>1, RememberCounts
<1>4. CASE pending' = pending
  BY <1>1, <1>3, <1>4, NoMoreOwed
<1>5. CASE pending' = [pending EXCEPT ![rx.to] = pending[rx.to] \cup {NextHop(rx.frame)}]
  <2> SUFFICES ASSUME NEW n \in Node, NEW k \in Key
               PROVE  Count(forwarded'[n], k) + Owed(n, k)' <= Count(taken'[n], k)
    BY DEF ForwardInv
  <2>1. Count(forwarded[n], k) + Owed(n, k) <= Count(taken[n], k)
    BY DEF ForwardInv
  <2>2. /\ Count(forwarded[n], k) \in Nat /\ Count(taken[n], k) \in Nat
        /\ Count(taken'[n], k) \in Nat /\ Count(taken[n], k) <= Count(taken'[n], k)
    <3>1. forwarded[n] \in Seq(Key) /\ taken[n] \in Seq(Key) /\ taken'[n] \in Seq(Key)
      BY DEF TypeOK
    <3>2. QED
      BY <1>3, <3>1, CountType
  <2>3. CASE n = rx.to /\ k = key
    <3>1. Owed(n, k) = 0
      BY <1>1, <2>3, OwedOnce
    <3>2. PendingFor(n, k)' = {NextHop(rx.frame)}
      <4>1. pending'[n] = pending[n] \cup {NextHop(rx.frame)}
        BY <1>1, <1>5, <2>3 DEF TypeOK
      <4>2. {d \in pending[n] : KeyOf(d) = k} = {}
        BY <1>1, <2>3 DEF PendingFor
      <4>3. {d \in pending'[n] : KeyOf(d) = k} = {NextHop(rx.frame)}
        BY <1>2, <2>3, <4>1, <4>2
      <4>4. QED
        BY <4>3 DEF PendingFor
    <3>3. Owed(n, k)' = 1
      BY <3>2, FS_Singleton DEF Owed
    <3>4. QED
      BY <1>1, <1>3, <2>1, <2>2, <2>3, <3>1, <3>3
  <2>4. CASE ~(n = rx.to /\ k = key)
    <3>1. PendingFor(n, k)' = PendingFor(n, k)
      <4>1. \/ pending'[n] = pending[n]
            \/ pending'[n] = pending[n] \cup {NextHop(rx.frame)} /\ k # key
        BY <1>1, <1>5, <2>4 DEF TypeOK
      <4>2. {d \in pending'[n] : KeyOf(d) = k} = {d \in pending[n] : KeyOf(d) = k}
        BY <1>2, <4>1
      <4>3. QED
        BY <4>2 DEF PendingFor
    <3>2. Owed(n, k)' = Owed(n, k) /\ Owed(n, k) \in Nat
      BY <3>1, OwedOnce DEF Owed
    <3>3. QED
      BY <1>1, <2>1, <2>2, <3>2
  <2>5. QED
    BY <2>3, <2>4
<1>6. QED
  BY <1>1, <1>4, <1>5 DEF ScheduleRebroadcast

LEMMA RebroadcastCounts ==
    ASSUME TypeOK, TypeOK', ForwardInv, NEW n \in Node, NEW data \in pending[n],
           Rebroadcast(n, data)
    PROVE  ForwardInv'
<1>1. /\ pending' = [pending EXCEPT ![n] = pending[n] \ {data}]
      /\ forwarded' = [forwarded EXCEPT ![n] = Append(forwarded[n], KeyOf(data))]
      /\ UNCHANGED taken
  BY DEF Rebroadcast, NoLongerPending
<1>2. KeyOf(data) \in Key
  <2>1. data \in Data
    BY DEF TypeOK
  <2>2. QED
    BY <2>1 DEF KeyOf, Key, Data
<1> SUFFICES ASSUME NEW m \in Node, NEW k \in Key
             PROVE  Count(forwarded'[m], k) + Owed(m, k)' <= Count(taken'[m], k)
  BY DEF ForwardInv
<1>3. Count(forwarded[m], k) + Owed(m, k) <= Count(taken[m], k) /\ taken' = taken
  BY <1>1 DEF ForwardInv
<1>4. /\ forwarded[m] \in Seq(Key) /\ Count(forwarded[m], k) \in Nat
      /\ Count(taken[m], k) \in Nat
  <2>1. forwarded[m] \in Seq(Key) /\ taken[m] \in Seq(Key)
    BY DEF TypeOK
  <2>2. QED
    BY <2>1, CountType
<1>5. CASE m = n /\ k = KeyOf(data)
  <2>1. PendingFor(m, k) = {data}
    BY <1>5 DEF PendingFor, TypeOK
  <2>2. PendingFor(m, k)' = {}
    <3>1. pending'[m] = pending[m] \ {data}
      BY <1>1, <1>5 DEF TypeOK
    <3>2. QED
      BY <2>1, <3>1 DEF PendingFor
  <2>3. Owed(m, k) = 1 /\ Owed(m, k)' = 0
    BY <2>1, <2>2, FS_Singleton, FS_EmptySet DEF Owed
  <2>4. forwarded'[m] = Append(forwarded[m], KeyOf(data))
    BY <1>1, <1>5 DEF TypeOK
  <2>5. Count(forwarded'[m], k) = Count(forwarded[m], k) + 1
    BY <1>2, <1>4, <1>5, <2>4, CountAppend
  <2>6. QED
    BY <1>3, <1>4, <2>3, <2>5
<1>6. CASE m = n /\ k # KeyOf(data)
  <2>1. PendingFor(m, k)' = PendingFor(m, k)
    BY <1>1, <1>6 DEF PendingFor, TypeOK
  <2>2. Owed(m, k)' = Owed(m, k) /\ Owed(m, k) \in Nat
    BY <2>1, OwedOnce DEF Owed
  <2>3. forwarded'[m] = Append(forwarded[m], KeyOf(data))
    BY <1>1, <1>6 DEF TypeOK
  <2>4. Count(forwarded'[m], k) = Count(forwarded[m], k)
    BY <1>2, <1>4, <1>6, <2>3, CountAppend
  <2>5. QED
    BY <1>3, <2>2, <2>4
<1>7. CASE m # n
  <2>1. PendingFor(m, k)' = PendingFor(m, k) /\ forwarded'[m] = forwarded[m]
    BY <1>1, <1>7 DEF PendingFor, TypeOK
  <2>2. Owed(m, k)' = Owed(m, k)
    BY <2>1 DEF Owed
  <2>3. QED
    BY <1>3, <2>1, <2>2
<1>8. QED
  BY <1>5, <1>6, <1>7

LEMMA StepForwardInv ==
    ASSUME TypeOK, ForwardInv, [Next]_vars
    PROVE  ForwardInv'
<1>1. TypeOK'
  BY StepTypeOK
<1>2. \A n \in Node, k \in Key : Count(taken[n], k) <= Count(taken'[n], k)
  <2>1. CASE UNCHANGED <<recent, taken>>
    <3>1. \A n \in Node, k \in Key : Count(taken[n], k) \in Nat
      BY CountType DEF TypeOK
    <3>2. QED
      BY <2>1, <3>1
  <2>2. QED
    BY <2>1, StepRemembers, RememberCounts
<1>3. ASSUME UNCHANGED forwarded, \A n \in Node : pending'[n] \subseteq pending[n]
      PROVE  ForwardInv'
  BY <1>1, <1>2, <1>3, NoMoreOwed
<1>4. ASSUME UNCHANGED <<forwarded, pending>> PROVE ForwardInv'
  BY <1>3, <1>4
<1>5. ASSUME NEW n \in Node, SendHello(n) PROVE ForwardInv'
  BY <1>4, <1>5 DEF SendHello, packetVars
<1>6. ASSUME NEW n \in Node, NEW dst \in Node, Originate(n, dst) PROVE ForwardInv'
  BY <1>4, <1>6 DEF Originate
<1>7. ASSUME NEW n \in Node, NEW data \in pending[n], Rebroadcast(n, data) PROVE ForwardInv'
  BY <1>1, <1>7, RebroadcastCounts
<1>8. ASSUME NEW rx \in air, ReceiveHello(rx) \/ ReceptionFails(rx) PROVE ForwardInv'
  BY <1>4, <1>8 DEF ReceiveHello, ReceptionFails, packetVars
<1>9. ASSUME NEW rx \in air, ReceiveDuplicate(rx) PROVE ForwardInv'
  BY <1>4, <1>9 DEF ReceiveDuplicate, Arrives
<1>10. ASSUME NEW rx \in air, ReceivePending(rx) PROVE ForwardInv'
  <2>1. /\ UNCHANGED forwarded /\ rx.to \in Node
        /\ pending' = IF KeepsPending(rx.to) THEN pending
                      ELSE [pending EXCEPT ![rx.to] = @ \ PendingFor(rx.to, KeyOf(rx.frame))]
    BY <1>10, ArrivalType DEF ReceivePending, Arrives
  <2>2. \A n \in Node : pending'[n] \subseteq pending[n]
    BY <2>1 DEF TypeOK
  <2>3. QED
    BY <1>3, <2>1, <2>2
<1>11. ASSUME NEW rx \in air, ReceiveNew(rx) PROVE ForwardInv'
  BY <1>1, <1>11, ReceiveNewCounts
<1>12. CASE UNCHANGED vars
  BY <1>4, <1>12 DEF vars
<1>13. QED
  BY <1>5, <1>6, <1>7, <1>8, <1>9, <1>10, <1>11, <1>12 DEF Next

(***************************************************************************)
(* Packets keep within the hops they were given.                           *)
(***************************************************************************)
\* Where a copy of data may be sent from.
Allowed(data, n) ==
    /\ data.hop <= InitialHopLimit
    /\ n \in Hops(setup.in_range, data.src, InitialHopLimit - data.hop)

HopInv ==
    /\ \A rx \in air : /\ rx.to \in setup.in_range[rx.from]
                       /\ rx.frame \in Data => Allowed(rx.frame, rx.from)
    /\ \A n \in Node : \A data \in pending[n] : Allowed(data, n)
    /\ \A n \in Node : \A i \in DOMAIN taken[n] :
          n \in Hops(setup.in_range, taken[n][i].src, InitialHopLimit + 1)

\* The parts of HopInv a step has to keep.
LEMMA HopParts ==
    ASSUME HopInv, UNCHANGED setup,
           \A rx \in air' \ air : /\ rx.to \in setup.in_range[rx.from]
                                  /\ rx.frame \in Data => Allowed(rx.frame, rx.from),
           \A n \in Node : \A data \in pending'[n] \ pending[n] : Allowed(data, n),
           \A n \in Node : \A i \in DOMAIN taken'[n] :
               \/ i \in DOMAIN taken[n] /\ taken'[n][i] = taken[n][i]
               \/ n \in Hops(setup.in_range, taken'[n][i].src, InitialHopLimit + 1)
    PROVE  HopInv'
<1>1. \A data, n : Allowed(data, n)' = Allowed(data, n)
  BY DEF Allowed
<1>2. setup' = setup
  OBVIOUS
<1>3. \A rx \in air' : /\ rx.to \in setup.in_range[rx.from]
                       /\ rx.frame \in Data => Allowed(rx.frame, rx.from)
  BY DEF HopInv
<1>4. \A n \in Node : \A data \in pending'[n] : Allowed(data, n)
  BY DEF HopInv
<1>5. \A n \in Node : \A i \in DOMAIN taken'[n] :
          n \in Hops(setup.in_range, taken'[n][i].src, InitialHopLimit + 1)
  BY DEF HopInv
<1>6. QED
  BY <1>1, <1>2, <1>3, <1>4, <1>5 DEF HopInv

\* Packets a node takes in that it may take in.
LEMMA RememberHops ==
    ASSUME TypeOK, NEW n \in Node, NEW key \in Key, RememberPacket(n, key),
           n \in Hops(setup.in_range, key.src, InitialHopLimit + 1)
    PROVE  \A m \in Node : \A i \in DOMAIN taken'[m] :
               \/ i \in DOMAIN taken[m] /\ taken'[m][i] = taken[m][i]
               \/ m \in Hops(setup.in_range, taken'[m][i].src, InitialHopLimit + 1)
<1> SUFFICES ASSUME NEW m \in Node, NEW i \in DOMAIN taken'[m]
             PROVE  \/ i \in DOMAIN taken[m] /\ taken'[m][i] = taken[m][i]
                    \/ m \in Hops(setup.in_range, taken'[m][i].src, InitialHopLimit + 1)
  OBVIOUS
<1>1. taken[n] \in Seq(Key)
  BY DEF TypeOK
<1>2. \/ taken' = taken
      \/ taken' = [taken EXCEPT ![n] = Append(taken[n], key)]
  BY DEF RememberPacket
<1>3. CASE taken'[m] = taken[m]
  BY <1>3
<1>4. CASE m = n /\ taken'[m] = Append(taken[n], key)
  <2>1. /\ Len(Append(taken[n], key)) = Len(taken[n]) + 1
        /\ Append(taken[n], key) \in Seq(Key)
        /\ Append(taken[n], key)[Len(taken[n]) + 1] = key
        /\ \A j \in 1 .. Len(taken[n]) : Append(taken[n], key)[j] = taken[n][j]
    BY <1>1, AppendProperties
  <2>2. DOMAIN Append(taken[n], key) = 1 .. Len(taken[n]) + 1
    BY <2>1, LenProperties
  <2>3. /\ Len(taken[n]) \in Nat /\ DOMAIN taken[n] = 1 .. Len(taken[n])
    BY <1>1, LenProperties
  <2>4. i \in DOMAIN taken[n] \/ i = Len(taken[n]) + 1
    BY <1>4, <2>2, <2>3
  <2>5. QED
    BY <1>4, <2>1, <2>3, <2>4
<1>5. QED
  BY <1>2, <1>3, <1>4 DEF TypeOK

\* Who hears a copy may take the packet in and, with one hop less, send it on.
LEMMA HeardWithinHops ==
    ASSUME TypeOK, HopInv, NEW rx \in air, rx.frame \in Data
    PROVE  /\ rx.to \in Hops(setup.in_range, rx.frame.src, InitialHopLimit + 1)
           /\ rx.frame.hop > 0 => Allowed(NextHop(rx.frame), rx.to)
<1> DEFINE data == rx.frame
           range == setup.in_range
<1>1. /\ rx.to \in range[rx.from] /\ data.hop <= InitialHopLimit
      /\ rx.from \in Hops(range, data.src, InitialHopLimit - data.hop)
  BY DEF HopInv, Allowed
<1>2. data.src \in Node /\ data.hop \in 0 .. 255 /\ InitialHopLimit \in Nat
  BY FloodAssumption DEF Data
<1>3. range \in Topology
  BY FloodAssumption DEF TypeOK, SetupType, Topology
<1> HIDE DEF range
<1>4. PICK k \in Nat : k = InitialHopLimit - data.hop
  BY <1>1, <1>2
<1>5. rx.from \in Hops(range, data.src, k)
  BY <1>1, <1>4
<1>6. rx.to \in Hops(range, data.src, k + 1)
  BY <1>1, <1>2, <1>3, <1>5, HopsGrow
<1>7. k + 1 \in Nat /\ InitialHopLimit + 1 \in Nat /\ k + 1 <= InitialHopLimit + 1
  BY <1>2, <1>4
<1>8. Hops(range, data.src, k + 1) \subseteq Hops(range, data.src, InitialHopLimit + 1)
  BY <1>2, <1>3, <1>7, HopsMonotone
<1>9. ASSUME data.hop > 0 PROVE Allowed(NextHop(data), rx.to)
  <2>1. NextHop(data).hop = data.hop - 1 /\ NextHop(data).src = data.src
    BY DEF NextHop, Data
  <2>2. InitialHopLimit - NextHop(data).hop = k + 1 /\ NextHop(data).hop <= InitialHopLimit
    BY <1>1, <1>2, <1>4, <2>1
  <2>3. QED
    BY <1>6, <2>1, <2>2 DEF Allowed, range
<1>10. QED
  BY <1>6, <1>8, <1>9 DEF range

\* What n sends, its neighbours may hear.
LEMMA SendHops ==
    ASSUME TypeOK, HopInv, NEW n \in Node, NEW frame, Send(n, frame),
           frame \in Data => Allowed(frame, n)
    PROVE  \A rx \in air' \ air : /\ rx.to \in setup.in_range[rx.from]
                                  /\ rx.frame \in Data => Allowed(rx.frame, rx.from)
  BY DEF Send, Receptions

LEMMA StepHopInv ==
    ASSUME TypeOK, HopInv, [Next]_vars
    PROVE  HopInv'
<1>1. setup.in_range \in Topology /\ InitialHopLimit \in Nat
  BY FloodAssumption DEF TypeOK, SetupType, Topology
<1>2. ASSUME UNCHANGED <<setup, pending, taken>>,
             \A rx \in air' \ air : /\ rx.to \in setup.in_range[rx.from]
                                    /\ rx.frame \in Data => Allowed(rx.frame, rx.from)
      PROVE  HopInv'
  BY <1>2, HopParts
<1>3. ASSUME UNCHANGED <<setup, pending, taken>>, air' \subseteq air PROVE HopInv'
  BY <1>2, <1>3
<1>4. ASSUME NEW n \in Node, SendHello(n) PROVE HopInv'
  <2> DEFINE frame == [n1 |-> Known(neighbours'[n]), mprs |-> mpr_set'[n]]
  <2>1. Send(n, frame) /\ UNCHANGED <<setup, pending, taken>>
    BY <1>4 DEF SendHello, packetVars
  <2>2. frame \notin Data
    <3>1. DOMAIN frame = {"n1", "mprs"}
      OBVIOUS
    <3>2. \A d \in Data : DOMAIN d = {"src", "id", "dst", "hop"}
      BY DEF Data
    <3>3. QED
      BY <3>1, <3>2
  <2> HIDE DEF frame
  <2>3. QED
    BY <1>2, <2>1, <2>2, SendHops
<1>5. ASSUME NEW n \in Node, NEW dst \in Node, Originate(n, dst) PROVE HopInv'
  <2> DEFINE data == [src |-> n, id |-> next_id[n], dst |-> dst, hop |-> InitialHopLimit]
             key == [src |-> n, id |-> next_id[n]]
  <2>1. /\ RememberPacket(n, key) /\ Send(n, data) /\ UNCHANGED <<setup, pending>>
    BY <1>5 DEF Originate
  <2>2. key \in Key /\ key.src = n
    BY DEF TypeOK, Key
  <2>3. n \in Hops(setup.in_range, n, 0) /\ n \in Hops(setup.in_range, n, InitialHopLimit + 1)
    <3>1. 0 \in Nat /\ InitialHopLimit + 1 \in Nat
      BY <1>1
    <3>2. QED
      BY <1>1, <3>1, HopsGrow
  <2>4. Allowed(data, n)
    <3>1. InitialHopLimit - InitialHopLimit = 0
      BY <1>1
    <3>2. QED
      BY <1>1, <2>3, <3>1 DEF Allowed
  <2> HIDE DEF data, key
  <2>5. \A rx \in air' \ air : /\ rx.to \in setup.in_range[rx.from]
                               /\ rx.frame \in Data => Allowed(rx.frame, rx.from)
    BY <2>1, <2>4, SendHops
  <2>6. \A m \in Node : \A i \in DOMAIN taken'[m] :
            \/ i \in DOMAIN taken[m] /\ taken'[m][i] = taken[m][i]
            \/ m \in Hops(setup.in_range, taken'[m][i].src, InitialHopLimit + 1)
    BY <2>1, <2>2, <2>3, RememberHops
  <2>7. QED
    BY <2>1, <2>5, <2>6, HopParts
<1>6. ASSUME NEW n \in Node, NEW data \in pending[n], Rebroadcast(n, data) PROVE HopInv'
  <2>1. /\ pending' = [pending EXCEPT ![n] = pending[n] \ {data}] /\ Send(n, data)
        /\ UNCHANGED <<setup, taken>>
    BY <1>6 DEF Rebroadcast, NoLongerPending
  <2>2. \A m \in Node : pending'[m] \subseteq pending[m]
    BY <2>1 DEF TypeOK
  <2>3. Allowed(data, n)
    BY DEF HopInv
  <2>4. \A rx \in air' \ air : /\ rx.to \in setup.in_range[rx.from]
                               /\ rx.frame \in Data => Allowed(rx.frame, rx.from)
    BY <2>1, <2>3, SendHops
  <2>5. QED
    BY <2>1, <2>2, <2>4, HopParts
<1>7. ASSUME NEW rx \in air, ReceiveHello(rx) \/ ReceptionFails(rx) PROVE HopInv'
  BY <1>3, <1>7 DEF ReceiveHello, ReceptionFails, packetVars
<1>8. ASSUME NEW rx \in air, ReceiveDuplicate(rx) PROVE HopInv'
  BY <1>3, <1>8 DEF ReceiveDuplicate, Arrives
<1>9. ASSUME NEW rx \in air, ReceivePending(rx) \/ ReceiveNew(rx) PROVE HopInv'
  <2>1. /\ rx.frame \in Data /\ rx.to \in Node /\ KeyOf(rx.frame) \in Key
        /\ air' \subseteq air /\ UNCHANGED setup
        /\ RememberPacket(rx.to, KeyOf(rx.frame))
    BY <1>9, ArrivalType DEF ReceivePending, ReceiveNew, Arrives
  <2>2. /\ rx.to \in Hops(setup.in_range, rx.frame.src, InitialHopLimit + 1)
        /\ rx.frame.hop > 0 => Allowed(NextHop(rx.frame), rx.to)
    BY <2>1, HeardWithinHops
  <2>3. KeyOf(rx.frame).src = rx.frame.src
    BY DEF KeyOf
  <2>4. \A m \in Node : \A i \in DOMAIN taken'[m] :
            \/ i \in DOMAIN taken[m] /\ taken'[m][i] = taken[m][i]
            \/ m \in Hops(setup.in_range, taken'[m][i].src, InitialHopLimit + 1)
    BY <2>1, <2>2, <2>3, RememberHops
  <2>5. \A n \in Node : \A data \in pending'[n] \ pending[n] : Allowed(data, n)
    <3>1. CASE \A n \in Node : pending'[n] \subseteq pending[n]
      BY <3>1
    <3>2. CASE /\ pending' = [pending EXCEPT ![rx.to] = @ \cup {NextHop(rx.frame)}]
               /\ rx.frame.hop > 0
      BY <2>1, <2>2, <3>2 DEF TypeOK
    <3>3. \/ pending' = pending
          \/ pending' = [pending EXCEPT ![rx.to] = @ \ PendingFor(rx.to, KeyOf(rx.frame))]
          \/ /\ pending' = [pending EXCEPT ![rx.to] = @ \cup {NextHop(rx.frame)}]
             /\ rx.frame.hop > 0
      BY <1>9 DEF ReceivePending, ReceiveNew, ScheduleRebroadcast, MayForward
    <3>4. \/ \A n \in Node : pending'[n] \subseteq pending[n]
          \/ /\ pending' = [pending EXCEPT ![rx.to] = @ \cup {NextHop(rx.frame)}]
             /\ rx.frame.hop > 0
      <4>1. pending \in [Node -> SUBSET Data]
        BY DEF TypeOK
      <4>2. ASSUME pending' = [pending EXCEPT ![rx.to] =
                                   pending[rx.to] \ PendingFor(rx.to, KeyOf(rx.frame))]
            PROVE  \A n \in Node : pending'[n] \subseteq pending[n]
        BY <2>1, <4>1, <4>2
      <4>3. QED
        BY <3>3, <4>2
    <3>5. QED
      BY <3>1, <3>2, <3>4
  <2>6. QED
    BY <2>1, <2>4, <2>5, HopParts
<1>10. CASE UNCHANGED vars
  BY <1>3, <1>10 DEF vars
<1>11. QED
  BY <1>4, <1>5, <1>6, <1>7, <1>8, <1>9, <1>10 DEF Next

(***************************************************************************)
(* The inductive invariant and the properties.                             *)
(***************************************************************************)
FloodInv == TypeOK /\ MprCovers /\ CacheInv /\ ForwardInv /\ HopInv

LEMMA InitFloodInv == Init => FloodInv
<1> SUFFICES ASSUME Init PROVE FloodInv
  OBVIOUS
<1>1. <<>> \in Seq(Key) /\ Len(<<>>) = 0 /\ DOMAIN <<>> = {}
  BY EmptySeq
<1>2. RecentCacheCap \in Nat \ {0}
  BY FloodAssumption
<1>3. TypeOK
  BY <1>1, <1>2 DEF Init, TypeOK
<1>4. MprCovers
  BY DEF Init, MprCovers, TwoHops, Known, Covered
<1>5. CacheInv
  BY <1>1, <1>2 DEF Init, CacheInv, LastOf, Spaced
<1>6. ForwardInv
  <2>1. \A key : Count(<<>>, key) = 0
    BY <1>1, FS_EmptySet DEF Count
  <2>2. \A n \in Node : \A key : Owed(n, key) = 0
    BY FS_EmptySet DEF Init, Owed, PendingFor
  <2>3. QED
    BY <2>1, <2>2 DEF Init, ForwardInv
<1>7. HopInv
  BY <1>1 DEF Init, HopInv
<1>8. QED
  BY <1>3, <1>4, <1>5, <1>6, <1>7 DEF FloodInv

LEMMA FloodInvariance == Spec => []FloodInv
<1>1. FloodInv /\ [Next]_vars => FloodInv'
  BY StepTypeOK, StepMprCovers, StepCacheInv, StepForwardInv, StepHopInv DEF FloodInv
<1>2. QED
  BY <1>1, InitFloodInv, PTL DEF Spec

\* Every reachable state of the flood applications is type correct, with each cache
\* within its capacity and one rebroadcast of a packet owed at most (rememberPacket,
\* scheduleRebroadcast).
THEOREM FloodTypeCorrect == Spec => []TypeOK
<1>1. FloodInv => TypeOK
  BY DEF FloodInv
<1>2. QED
  BY <1>1, FloodInvariance, PTL

\* The cache of recent packets keeps out what was taken in as many packets ago as it
\* has room for (isInRecentCache, rememberPacket), for any capacity.
THEOREM CacheRemembers == Spec => []RecentWindow
<1>1. FloodInv => RecentWindow
  BY DEF FloodInv, CacheInv, Spaced, RecentWindow
<1>2. QED
  BY <1>1, FloodInvariance, PTL

\* A node never rebroadcasts a packet more often than it took it in
\* (onRebroadcastTimer and receivePacket, in any order).
THEOREM ForwardsCounted == Spec => []ForwardedOnce
<1>1. FloodInv => ForwardedOnce
  <2> SUFFICES ASSUME FloodInv, NEW n \in Node, NEW key \in Elements(taken[n])
               PROVE  Count(forwarded[n], key) + Owed(n, key) <= Count(taken[n], key)
    BY DEF ForwardedOnce, Count, Owed
  <2>1. key \in Key
    BY DEF FloodInv, TypeOK, Elements
  <2>2. QED
    BY <2>1 DEF FloodInv, ForwardInv
<1>2. QED
  BY <1>1, FloodInvariance, PTL

\* No copy of a packet is sent or taken in further from its originator than the hop
\* limit allows (the decrement before a rebroadcast), whatever the caches forget.
THEOREM HopsBounded == Spec => []HopBudget
<1>1. \A n, k : Within(n, k) = Hops(setup.in_range, n, k)
  BY Zenon DEF Within, Hops
<1>2. FloodInv => HopBudget
  <2> SUFFICES ASSUME FloodInv PROVE HopBudget
    OBVIOUS
  <2>1. ASSUME NEW rx \in air, rx.frame \in Data
        PROVE  rx.from \in Within(rx.frame.src, InitialHopLimit - rx.frame.hop)
    BY <1>1, <2>1 DEF FloodInv, HopInv, Allowed
  <2>2. ASSUME NEW n \in Node, NEW key \in Elements(taken[n])
        PROVE  n \in Within(key.src, InitialHopLimit + 1)
    BY <1>1 DEF FloodInv, HopInv, Elements
  <2>3. QED
    BY <2>1, <2>2 DEF HopBudget
<1>3. QED
  BY <1>2, FloodInvariance, PTL

\* The relays a node elected reach every node it knows two hops away
\* (recomputeMprSet, pruneNeighbours and the neighbours noted in between), in any mesh.
THEOREM RelaysCover == Spec => []MprCovers
<1>1. FloodInv => MprCovers
  BY DEF FloodInv
<1>2. QED
  BY <1>1, FloodInvariance, PTL

(***************************************************************************)
(* The nodes a flood can reach.                                            *)
(***************************************************************************)
\* FloodRange, for a given range of every node.
FloodHops(range, src, dst) ==
    LET ball[i \in 0 .. Cardinality(Node)] ==
            IF i = 0 THEN {src}
            ELSE ball[i - 1] \cup UNION {range[m] : m \in ball[i - 1] \ {dst}}
    IN  ball[Cardinality(Node)]

\* One rebroadcast further.
Pass(range, dst) == [X \in SUBSET Node |-> X \cup UNION {range[m] : m \in X \ {dst}}]

LEMMA FloodHopsAreIterates ==
    ASSUME NEW range \in Topology, NEW src \in Node, NEW dst
    PROVE  \E f \in [0 .. Cardinality(Node) -> SUBSET Node] :
               /\ Iterates(f, Cardinality(Node), {src}, Pass(range, dst))
               /\ FloodHops(range, src, dst) = f[Cardinality(Node)]
<1> DEFINE k == Cardinality(Node)
           ball[i \in 0 .. k] ==
               IF i = 0 THEN {src}
               ELSE ball[i - 1] \cup UNION {range[m] : m \in ball[i - 1] \ {dst}}
<1>1. FloodHops(range, src, dst) = ball[k]
  BY DEF FloodHops
<1>2. k \in Nat
  BY FloodAssumption, FS_CardinalityType
<1> HIDE DEF k
<1>3. Pass(range, dst) \in [SUBSET Node -> SUBSET Node] /\ {src} \in SUBSET Node
  BY DEF Pass, Topology
<1>4. PICK f \in [0 .. k -> SUBSET Node] : Iterates(f, k, {src}, Pass(range, dst))
  BY <1>2, <1>3, IterationExists
<1>5. \A i \in 1 .. k : f[i] = f[i - 1] \cup UNION {range[m] : m \in f[i - 1] \ {dst}}
  <2> TAKE i \in 1 .. k
  <2>1. f[i] = Pass(range, dst)[f[i - 1]] /\ f[i - 1] \in SUBSET Node
    BY <1>2, <1>4 DEF Iterates
  <2>2. QED
    BY <2>1 DEF Pass
<1>6. f = [i \in 0 .. k |-> IF i = 0 THEN {src}
                            ELSE f[i - 1] \cup UNION {range[m] : m \in f[i - 1] \ {dst}}]
  <2>1. \A i \in 0 .. k :
            f[i] = IF i = 0 THEN {src}
                   ELSE f[i - 1] \cup UNION {range[m] : m \in f[i - 1] \ {dst}}
    <3> TAKE i \in 0 .. k
    <3>1. CASE i = 0
      BY <1>4, <3>1 DEF Iterates
    <3>2. CASE i # 0
      <4>1. i \in 1 .. k
        BY <1>2, <3>2
      <4>2. QED
        BY <1>5, <3>2, <4>1
    <3>3. QED
      BY <3>1, <3>2
  <2>2. QED
    BY <2>1
<1>7. ball = [i \in 0 .. k |->
                 IF i = 0 THEN {src}
                 ELSE ball[i - 1] \cup UNION {range[m] : m \in ball[i - 1] \ {dst}}]
  BY <1>6
<1> HIDE DEF ball
<1>8. \A i \in 0 .. k : ball[i] = f[i]
  <2> DEFINE T == {i \in 0 .. k : ball[i] = f[i]}
  <2>1. 0 \in T
    BY <1>2, <1>6, <1>7
  <2>2. ASSUME NEW i \in 1 .. k, i - 1 \in T PROVE i \in T
    <3>1. i \in 0 .. k /\ i # 0
      BY <1>2
    <3>2. ball[i] = ball[i - 1] \cup UNION {range[m] : m \in ball[i - 1] \ {dst}}
      BY <1>7, <3>1
    <3>3. ball[i - 1] = f[i - 1]
      BY <2>2
    <3>4. f[i] = f[i - 1] \cup UNION {range[m] : m \in f[i - 1] \ {dst}}
      BY <1>5
    <3>5. ball[i] = f[i]
      BY <3>2, <3>3, <3>4
    <3>6. QED
      BY <3>1, <3>5
  <2> HIDE DEF T
  <2>3. \A i \in 0 .. k : i \in T
    BY <1>2, <2>1, <2>2, IntervalInduction
  <2>4. QED
    BY <2>3 DEF T
<1>9. f \in [0 .. k -> SUBSET Node] /\ FloodHops(range, src, dst) = f[k]
  BY <1>1, <1>2, <1>4, <1>8
<1>10. QED
  BY <1>4, <1>9 DEF k

\* Everything a flood can reach is reached by some rebroadcasts of nodes it can
\* reach: it is the least set that the range of its members, dst apart, is in.
LEMMA FloodHopsClosed ==
    ASSUME NEW range \in Topology, NEW src \in Node, NEW dst
    PROVE  /\ src \in FloodHops(range, src, dst) /\ FloodHops(range, src, dst) \in SUBSET Node
           /\ \A m \in FloodHops(range, src, dst) \ {dst} :
                 range[m] \subseteq FloodHops(range, src, dst)
           /\ \A S \in SUBSET Node :
                 src \in S /\ (\A m \in S \ {dst} : range[m] \subseteq S)
                 => FloodHops(range, src, dst) \subseteq S
<1> DEFINE k == Cardinality(Node)
<1>1. k \in Nat
  BY FloodAssumption, FS_CardinalityType
<1>2. PICK f \in [0 .. k -> SUBSET Node] : /\ Iterates(f, k, {src}, Pass(range, dst))
                                           /\ FloodHops(range, src, dst) = f[k]
  BY FloodHopsAreIterates
<1> HIDE DEF k
<1>3. f[0] = {src} /\ \A i \in 1 .. k : /\ f[i - 1] \in SUBSET Node /\ f[i] \in SUBSET Node
                                        /\ f[i] = Pass(range, dst)[f[i - 1]]
  <2>1. \A i \in 1 .. k : i - 1 \in 0 .. k /\ i \in 0 .. k
    BY <1>1
  <2>2. QED
    BY <1>2, <2>1 DEF Iterates
<1>4. \A X \in SUBSET Node :
          Pass(range, dst)[X] = X \cup UNION {range[m] : m \in X \ {dst}}
  BY DEF Pass
<1>5. \A X \in SUBSET Node : IsFiniteSet(X) /\ Cardinality(X) \in Nat /\ Cardinality(X) <= k
  BY FloodAssumption, FS_Subset, FS_CardinalityType DEF k
<1> DEFINE T == {i \in 0 .. k : Cardinality(f[i]) >= i + 1 \/ Pass(range, dst)[f[i]] = f[i]}
<1>6. 0 \in T
  <2>1. Cardinality(f[0]) = 1 /\ 0 \in 0 .. k
    BY <1>1, <1>3, FS_Singleton
  <2>2. QED
    BY <2>1
<1>7. ASSUME NEW i \in 1 .. k, i - 1 \in T PROVE i \in T
  <2>1. /\ f[i - 1] \in SUBSET Node /\ f[i] \in SUBSET Node
        /\ f[i] = Pass(range, dst)[f[i - 1]] /\ i \in 0 .. k /\ i \in Nat
    BY <1>1, <1>3
  <2>2. CASE f[i] = f[i - 1]
    BY <2>1, <2>2
  <2>3. CASE f[i] # f[i - 1]
    <3>1. f[i - 1] \in SUBSET f[i]
      BY <1>4, <2>1
    <3>2. IsFiniteSet(f[i])
      BY <1>5, <2>1
    <3>3. /\ Cardinality(f[i - 1]) <= Cardinality(f[i])
          /\ Cardinality(f[i]) # Cardinality(f[i - 1])
      BY <2>3, <3>1, <3>2, FS_Subset
    <3>4. PICK a \in Nat, b \in Nat : a = Cardinality(f[i - 1]) /\ b = Cardinality(f[i])
      BY <1>5, <2>1
    <3>5. a >= (i - 1) + 1
      BY <1>7, <2>1, <2>3, <3>4
    <3>6. b >= i + 1
      BY <2>1, <3>3, <3>4, <3>5
    <3>7. QED
      BY <2>1, <3>4, <3>6
  <2>4. QED
    BY <2>2, <2>3
<1>8. Pass(range, dst)[f[k]] = f[k]
  <2> HIDE DEF T
  <2>1. \A i \in 0 .. k : i \in T
    BY <1>1, <1>6, <1>7, IntervalInduction
  <2>2. k \in T
    BY <1>1, <2>1
  <2>3. f[k] \in SUBSET Node
    BY <1>1, <1>2
  <2>4. PICK a \in Nat : a = Cardinality(f[k]) /\ a <= k
    BY <1>5, <2>3
  <2>5. ~ (a >= k + 1)
    BY <1>1, <2>4
  <2>6. QED
    BY <2>2, <2>4, <2>5 DEF T
<1>9. f[k] \in SUBSET Node /\ \A m \in f[k] \ {dst} : range[m] \subseteq f[k]
  <2>1. f[k] \in SUBSET Node
    BY <1>1, <1>2
  <2>2. f[k] = f[k] \cup UNION {range[m] : m \in f[k] \ {dst}}
    BY <1>4, <1>8, <2>1
  <2>3. QED
    BY <2>1, <2>2
<1>10. src \in f[k]
  <2> DEFINE U == {i \in 0 .. k : src \in f[i]}
  <2>1. 0 \in U
    BY <1>1, <1>3
  <2>2. ASSUME NEW i \in 1 .. k, i - 1 \in U PROVE i \in U
    <3>1. i \in 0 .. k
      BY <1>1
    <3>2. f[i - 1] \subseteq f[i]
      BY <1>3, <1>4
    <3>3. QED
      BY <2>2, <3>1, <3>2
  <2> HIDE DEF U
  <2>3. \A i \in 0 .. k : i \in U
    BY <1>1, <2>1, <2>2, IntervalInduction
  <2>4. QED
    BY <1>1, <2>3 DEF U
<1>11. ASSUME NEW S \in SUBSET Node, src \in S, \A m \in S \ {dst} : range[m] \subseteq S
       PROVE  f[k] \subseteq S
  <2> DEFINE U == {i \in 0 .. k : f[i] \subseteq S}
  <2>1. 0 \in U
    BY <1>1, <1>3, <1>11
  <2>2. ASSUME NEW i \in 1 .. k, i - 1 \in U PROVE i \in U
    <3>1. i \in 0 .. k /\ f[i - 1] \subseteq S
      BY <1>1, <2>2
    <3>2. f[i] = f[i - 1] \cup UNION {range[m] : m \in f[i - 1] \ {dst}}
      BY <1>3, <1>4
    <3>3. \A m \in f[i - 1] \ {dst} : range[m] \subseteq S
      BY <1>11, <3>1
    <3>4. f[i] \subseteq S
      BY <3>1, <3>2, <3>3
    <3>5. QED
      BY <3>1, <3>4
  <2> HIDE DEF U
  <2>3. \A i \in 0 .. k : i \in U
    BY <1>1, <2>1, <2>2, IntervalInduction
  <2>4. QED
    BY <1>1, <2>3 DEF U
<1>12. QED
  BY <1>2, <1>9, <1>10, <1>11

(***************************************************************************)
(* How far a naive flood gets when no frame is lost.                       *)
(***************************************************************************)
\* The nodes that took the packet in.
Took(key) == {n \in Node : key \in Elements(taken[n])}

\* The packet is on its way from n to m.
UnderWay(n, m, key) ==
    \E rx \in air : /\ rx.from = n /\ rx.to = m
                    /\ rx.frame \in Data /\ KeyOf(rx.frame) = key

Reached(n, m, key) == m \in Took(key) \/ UnderWay(n, m, key)

\* A packet of that key and that destination was originated.
Sent(key, dst) == \E packet \in sent : KeyOf(packet) = key /\ packet.dst = dst

\* n may hold a copy of data, to be sent on or on its way.
Carried(data, n) ==
    n \in Took(KeyOf(data)) /\ n # data.dst /\ Sent(KeyOf(data), data.dst)

\* Packets have keys of their own, copies belong to packets, and both stay where
\* the flood can get.
CarryInv ==
    /\ \A packet \in sent : packet.id < next_id[packet.src]
    /\ \A p, q \in sent : KeyOf(p) = KeyOf(q) => p.dst = q.dst
    /\ \A packet \in sent :
          /\ packet.src \in Took(KeyOf(packet))
          /\ Took(KeyOf(packet)) \subseteq FloodHops(setup.in_range, packet.src, packet.dst)
    /\ \A key \in Key : Took(key) # {} => key.id < next_id[key.src]
    /\ \A rx \in air : rx.frame \in Data => Carried(rx.frame, rx.from)
    /\ \A n \in Node : \A data \in pending[n] : Carried(data, n)

\* As many nodes took the packet in as the hops of this copy number: its way does
\* not lead twice through a node.
Early(data) == InitialHopLimit - data.hop + 1 <= Cardinality(Took(KeyOf(data)))

\* More nodes took the packet in than the longest way has.
Wide(key) == InitialHopLimit + 2 <= Cardinality(Took(key))

\* n has sent the packet to everyone in range, or will.
PassedOn(n, key) ==
    PendingFor(n, key) # {} \/ \A m \in setup.in_range[n] : Reached(n, m, key)

\* Whoever took the packet in passes it on, unless it has used up its hops on the
\* way; that takes more nodes than the flood can reach. A copy that may bring it to
\* someone new has come straight: one that has not is a repetition, and where it can
\* get the first has been sent before.
SpreadInv ==
    /\ \A packet \in sent :
          \/ Wide(KeyOf(packet))
          \/ \A n \in Took(KeyOf(packet)) \ {packet.dst} : PassedOn(n, KeyOf(packet))
    /\ \A rx \in air :
          rx.frame \in Data /\ rx.to \notin Took(KeyOf(rx.frame)) => Early(rx.frame)
    /\ \A n \in Node : \A data \in pending[n] :
          Early(data) \/ \A m \in setup.in_range[n] : Reached(n, m, KeyOf(data))

Plain == setup.mode = "naive" /\ ~setup.lossy

ReachInv == Plain => CarryInv /\ SpreadInv

\* What the cache holds was taken in.
LEMMA CachedTook ==
    ASSUME TypeOK, CacheInv, NEW n \in Node, NEW key \in Key, IsInRecentCache(n, key)
    PROVE  n \in Took(key)
<1>1. taken \in [Node -> Seq(Key)] /\ recent \in [Node -> Seq(Key)]
  BY DEF TypeOK
<1>2. PICK i \in DOMAIN recent[n] : recent[n][i] = key
  BY DEF IsInRecentCache, Elements
<1>3. LastOf(recent[n], taken[n])
  BY DEF CacheInv
<1>4. /\ Len(recent[n]) \in Nat /\ Len(taken[n]) \in Nat /\ RecentCacheCap \in Nat
      /\ DOMAIN recent[n] = 1 .. Len(recent[n]) /\ DOMAIN taken[n] = 1 .. Len(taken[n])
  BY <1>1, FloodAssumption
<1>5. PICK a \in Nat, b \in Nat : a = Len(recent[n]) /\ b = Len(taken[n])
  BY <1>4
<1>6. a = IF b < RecentCacheCap THEN b ELSE RecentCacheCap
  BY <1>3, <1>5 DEF LastOf
<1>7. i \in 1 .. a /\ DOMAIN taken[n] = 1 .. b
  BY <1>2, <1>4, <1>5
<1>8. recent[n][i] = taken[n][i + b - a]
  BY <1>3, <1>5, <1>7 DEF LastOf
<1>9. i + b - a \in DOMAIN taken[n]
  <2>1. a <= b
    BY <1>4, <1>5, <1>6
  <2>2. i \in Int /\ 1 <= i /\ i <= a
    BY <1>5, <1>7
  <2>3. i + b - a \in 1 .. b
    BY <2>1, <2>2
  <2>4. QED
    BY <1>7, <2>3
<1>10. QED
  BY <1>2, <1>8, <1>9 DEF Took, Elements

\* What a node takes in.
LEMMA RememberTook ==
    ASSUME TypeOK, CacheInv, NEW n \in Node, NEW key \in Key, RememberPacket(n, key)
    PROVE  /\ Took(key)' = Took(key) \cup {n}
           /\ \A k \in Key \ {key} : Took(k)' = Took(k)
<1>1. taken \in [Node -> Seq(Key)]
  BY DEF TypeOK
<1>2. CASE IsInRecentCache(n, key)
  <2>1. taken' = taken /\ n \in Took(key)
    BY <1>2, CachedTook DEF RememberPacket
  <2>2. QED
    BY <2>1 DEF Took
<1>3. CASE ~IsInRecentCache(n, key)
  <2>1. taken' = [taken EXCEPT ![n] = Append(taken[n], key)]
    BY <1>3 DEF RememberPacket
  <2>2. Elements(Append(taken[n], key)) = Elements(taken[n]) \cup {key}
    <3>1. /\ Append(taken[n], key) \in Seq(Key)
          /\ Len(Append(taken[n], key)) = Len(taken[n]) + 1
          /\ Append(taken[n], key)[Len(taken[n]) + 1] = key
          /\ \A j \in 1 .. Len(taken[n]) : Append(taken[n], key)[j] = taken[n][j]
      BY <1>1, AppendProperties
    <3>2. /\ Len(taken[n]) \in Nat /\ DOMAIN taken[n] = 1 .. Len(taken[n])
          /\ DOMAIN Append(taken[n], key) = 1 .. Len(taken[n]) + 1
      BY <1>1, <3>1, LenProperties
    <3>3. \A j : j \in DOMAIN Append(taken[n], key) <=>
                     j \in DOMAIN taken[n] \/ j = Len(taken[n]) + 1
      BY <3>2
    <3>4. QED
      BY <3>1, <3>2, <3>3 DEF Elements
  <2>3. /\ Elements(taken'[n]) = Elements(taken[n]) \cup {key}
        /\ \A m \in Node \ {n} : taken'[m] = taken[m]
    BY <1>1, <2>1, <2>2
  <2>4. QED
    BY <2>3 DEF Took
<1>4. QED
  BY <1>2, <1>3

\* What a copy tells about its packet.
LEMMA CarriedPacket ==
    ASSUME TypeOK, CarryInv, NEW data \in Data, NEW n \in Node, Carried(data, n)
    PROVE  /\ KeyOf(data) \in Key /\ n \in Took(KeyOf(data)) /\ n # data.dst
           /\ data.src \in Took(KeyOf(data))
           /\ \E packet \in sent : KeyOf(packet) = KeyOf(data)
           /\ \A packet \in sent : KeyOf(packet) = KeyOf(data) => packet.dst = data.dst
<1>1. KeyOf(data) \in Key
  BY DEF KeyOf, Key, Data
<1>2. PICK packet \in sent : KeyOf(packet) = KeyOf(data) /\ packet.dst = data.dst
  BY DEF Carried, Sent
<1>3. packet.src = data.src
  <2>1. KeyOf(packet).src = packet.src /\ KeyOf(data).src = data.src
    BY DEF KeyOf
  <2>2. QED
    BY <1>2, <2>1
<1>4. data.src \in Took(KeyOf(data))
  BY <1>2, <1>3 DEF CarryInv
<1>5. \A p \in sent : KeyOf(p) = KeyOf(data) => p.dst = data.dst
  BY <1>2 DEF CarryInv
<1>6. QED
  BY <1>1, <1>2, <1>4, <1>5 DEF Carried

\* The receiver of rx takes its packet in.
TakesIn(rx) ==
    /\ Took(KeyOf(rx.frame))' = Took(KeyOf(rx.frame)) \cup {rx.to}
    /\ \A k \in Key \ {KeyOf(rx.frame)} : Took(k)' = Took(k)

\* It will not rebroadcast rx, or will.
NoRelay(rx) ==
    /\ pending' = pending
    /\ rx.to \in Took(KeyOf(rx.frame)) \/ rx.frame.hop = 0 \/ rx.frame.dst = rx.to

NewRelay(rx) ==
    /\ PendingFor(rx.to, KeyOf(rx.frame)) = {}
    /\ pending' = [pending EXCEPT ![rx.to] = pending[rx.to] \cup {NextHop(rx.frame)}]
    /\ rx.frame.hop > 0 /\ rx.frame.dst # rx.to

\* What the arrival of a packet does in naive mode.
LEMMA ArrivalEffect ==
    ASSUME TypeOK, CacheInv, CarryInv, setup.mode = "naive", NEW rx \in air,
           ReceivePending(rx) \/ ReceiveDuplicate(rx) \/ ReceiveNew(rx)
    PROVE  /\ rx.frame \in Data /\ rx.to \in Node /\ rx.from \in Node
           /\ Carried(rx.frame, rx.from)
           /\ air' = air \ {rx} /\ UNCHANGED <<setup, next_id, sent>>
           /\ TakesIn(rx) /\ (NoRelay(rx) \/ NewRelay(rx))
<1> DEFINE n == rx.to
           key == KeyOf(rx.frame)
<1>1. /\ rx.frame \in Data /\ air' = air \ {rx} /\ UNCHANGED <<setup, next_id, sent>>
  BY DEF ReceivePending, ReceiveDuplicate, ReceiveNew, Arrives
<1>2. n \in Node /\ rx.from \in Node /\ key \in Key /\ Carried(rx.frame, rx.from)
  BY <1>1, ArrivalType DEF CarryInv
<1>3. rx.frame.src \in Took(key)
  BY <1>1, <1>2, CarriedPacket
<1>4. CASE ReceivePending(rx)
  <2>1. PendingFor(n, key) # {} /\ RememberPacket(n, key) /\ pending' = pending
    BY <1>4 DEF ReceivePending, KeepsPending
  <2>2. n \in Took(key)
    BY <1>2, <2>1 DEF PendingFor, CarryInv, Carried
  <2>3. QED
    BY <1>1, <1>2, <2>1, <2>2, RememberTook DEF TakesIn, NoRelay
<1>5. CASE ReceiveDuplicate(rx)
  <2>1. UNCHANGED <<taken, pending>> /\ n \in Took(key)
    BY <1>2, <1>5, CachedTook DEF ReceiveDuplicate
  <2>2. \A k : Took(k)' = Took(k)
    BY <2>1 DEF Took
  <2>3. QED
    BY <1>1, <1>2, <2>1, <2>2 DEF TakesIn, NoRelay
<1>6. CASE ReceiveNew(rx)
  <2>1. /\ PendingFor(n, key) = {} /\ RememberPacket(n, key)
        /\ pending' = IF MayForward(n, rx.frame, rx.from)
                      THEN ScheduleRebroadcast(n, NextHop(rx.frame)) ELSE pending
    BY <1>6 DEF ReceiveNew
  <2>2. MayForward(n, rx.frame, rx.from) <=>
            rx.frame.hop > 0 /\ rx.frame.src # n /\ rx.frame.dst # n
    <3>1. setup'.mode # "mpr"
      BY <1>1
    <3>2. QED
      BY <1>1, <3>1 DEF MayForward
  <2>3. TakesIn(rx)
    BY <1>2, <2>1, RememberTook DEF TakesIn
  <2>4. CASE MayForward(n, rx.frame, rx.from)
    BY <1>1, <1>2, <2>1, <2>2, <2>3, <2>4 DEF NewRelay, ScheduleRebroadcast
  <2>5. CASE ~MayForward(n, rx.frame, rx.from)
    <3>1. rx.frame.hop = 0 \/ rx.frame.src = n \/ rx.frame.dst = n
      BY <1>1, <2>2, <2>5 DEF Data
    <3>2. NoRelay(rx)
      BY <1>3, <2>1, <2>5, <3>1 DEF NoRelay
    <3>3. QED
      BY <1>1, <1>2, <2>3, <3>2
  <2>6. QED
    BY <2>4, <2>5
<1>7. QED
  BY <1>4, <1>5, <1>6

LEMMA TookFinite ==
    ASSUME NEW key
    PROVE  /\ IsFiniteSet(Took(key)) /\ Cardinality(Took(key)) \in Nat
           /\ Took(key) \in SUBSET Node
<1>1. Took(key) \in SUBSET Node
  BY DEF Took
<1>2. QED
  BY <1>1, FloodAssumption, FS_Subset, FS_CardinalityType

\* A node more took the packet in, or one that had already.
LEMMA TookOneMore ==
    ASSUME NEW key, NEW n \in Node, Took(key)' = Took(key) \cup {n}
    PROVE  /\ Cardinality(Took(key)) <= Cardinality(Took(key)')
           /\ n \notin Took(key) => Cardinality(Took(key)') = Cardinality(Took(key)) + 1
           /\ Cardinality(Took(key)') \in Nat
<1>1. IsFiniteSet(Took(key)) /\ Cardinality(Took(key)) \in Nat
  BY TookFinite
<1>2. CASE n \in Took(key)
  <2>1. Took(key)' = Took(key)
    BY <1>2
  <2>2. QED
    BY <1>1, <1>2, <2>1
<1>3. CASE n \notin Took(key)
  <2>1. Cardinality(Took(key)') = Cardinality(Took(key)) + 1
    BY <1>1, <1>3, FS_AddElement
  <2>2. QED
    BY <1>1, <1>3, <2>1
<1>4. QED
  BY <1>2, <1>3

\* Copies stay copies when nodes take packets in.
LEMMA CarriedStays ==
    ASSUME sent \subseteq sent', NEW data, NEW n, Carried(data, n),
           Took(KeyOf(data)) \subseteq Took(KeyOf(data))'
    PROVE  Carried(data, n)'
BY DEF Carried, Sent

LEMMA CarryUntouched ==
    ASSUME TypeOK, CarryInv, UNCHANGED <<setup, next_id, sent, taken, pending>>,
           \A rx \in air' : rx.frame \in Data => rx \in air
    PROVE  CarryInv'
<1>1. \A k : Took(k)' = Took(k)
  BY DEF Took
<1>2. \A data, n : Carried(data, n)' = Carried(data, n)
  BY <1>1 DEF Carried, Sent
<1>3. /\ setup' = setup /\ next_id' = next_id /\ sent' = sent /\ pending' = pending
  OBVIOUS
<1>4. QED
  BY <1>1, <1>2, <1>3 DEF CarryInv

LEMMA ArrivalCarries ==
    ASSUME TypeOK, HopInv, CarryInv, NEW rx \in air, rx.frame \in Data, rx.to \in Node,
           rx.from \in Node, Carried(rx.frame, rx.from), air' = air \ {rx},
           UNCHANGED <<setup, next_id, sent>>, TakesIn(rx), NoRelay(rx) \/ NewRelay(rx)
    PROVE  CarryInv'
<1> DEFINE key == KeyOf(rx.frame)
<1>1. /\ key \in Key /\ rx.from \in Took(key) /\ rx.from # rx.frame.dst
      /\ \A packet \in sent : KeyOf(packet) = key => packet.dst = rx.frame.dst
  BY CarriedPacket
<1>2. Took(key)' = Took(key) \cup {rx.to} /\ \A k \in Key \ {key} : Took(k)' = Took(k)
  BY DEF TakesIn
<1> HIDE DEF key
<1>3. \A k \in Key : Took(k) \subseteq Took(k)'
  BY <1>2
<1>4. \A data \in Data : KeyOf(data) \in Key
  BY DEF Data, Key, KeyOf
<1>5. ASSUME NEW data \in Data, NEW n \in Node, Carried(data, n) PROVE Carried(data, n)'
  <2>1. Took(KeyOf(data)) \subseteq Took(KeyOf(data))'
    BY <1>3, <1>4
  <2>2. QED
    BY <1>5, <2>1, CarriedStays
<1>6. ASSUME NEW packet \in sent
      PROVE  /\ packet.src \in Took(KeyOf(packet))'
             /\ Took(KeyOf(packet))'
                    \subseteq FloodHops(setup'.in_range, packet.src, packet.dst)
  <2>1. /\ packet.src \in Node /\ KeyOf(packet) \in Key
        /\ packet.src \in Took(KeyOf(packet))
        /\ Took(KeyOf(packet)) \subseteq FloodHops(setup.in_range, packet.src, packet.dst)
    BY <1>4 DEF CarryInv, TypeOK, Data
  <2>2. CASE KeyOf(packet) # key
    BY <1>2, <2>1, <2>2
  <2>3. CASE KeyOf(packet) = key
    <3>1. rx.from \in FloodHops(setup.in_range, packet.src, packet.dst) \ {packet.dst}
      BY <1>1, <2>1, <2>3
    <3>2. setup.in_range \in Topology /\ rx.to \in setup.in_range[rx.from]
      BY FloodAssumption DEF TypeOK, SetupType, Topology, HopInv
    <3>3. setup.in_range[rx.from] \subseteq FloodHops(setup.in_range, packet.src, packet.dst)
      BY <2>1, <3>1, <3>2, FloodHopsClosed
    <3>4. QED
      BY <1>2, <2>1, <2>3, <3>2, <3>3
  <2>4. QED
    BY <2>2, <2>3
<1>7. \A k \in Key : Took(k)' # {} => k.id < next_id'[k.src]
  BY <1>1, <1>2 DEF CarryInv
<1>8. \A r \in air' : r.frame \in Data => Carried(r.frame, r.from)'
  <2>1. ASSUME NEW r \in air', r.frame \in Data PROVE Carried(r.frame, r.from)'
    <3>1. r \in air /\ r.from \in Node
      BY ArrivalType
    <3>2. QED
      BY <1>5, <2>1, <3>1 DEF CarryInv
  <2>2. QED
    BY <2>1
<1>9. \A n \in Node : \A data \in pending'[n] : Carried(data, n)'
  <2>1. pending \in [Node -> SUBSET Data]
    BY DEF TypeOK
  <2>2. ASSUME NEW n \in Node, NEW data \in pending[n] PROVE Carried(data, n)'
    BY <1>5, <2>1 DEF CarryInv
  <2>3. ASSUME NewRelay(rx) PROVE Carried(NextHop(rx.frame), rx.to)'
    <3>1. /\ KeyOf(NextHop(rx.frame)) = key /\ NextHop(rx.frame).dst = rx.frame.dst
      BY DEF NextHop, KeyOf, key, Data
    <3>2. rx.to \in Took(key)' /\ rx.to # rx.frame.dst
      BY <1>2, <2>3 DEF NewRelay
    <3>3. Sent(key, rx.frame.dst)'
      BY DEF Carried, Sent, key
    <3>4. QED
      BY <3>1, <3>2, <3>3 DEF Carried
  <2>4. ASSUME NEW n \in Node, NEW data \in pending'[n]
        PROVE  data \in pending[n] \/ (NewRelay(rx) /\ n = rx.to /\ data = NextHop(rx.frame))
    <3>1. CASE pending' = pending
      BY <2>4, <3>1
    <3>2. CASE NewRelay(rx)
      <4>1. pending' = [pending EXCEPT ![rx.to] = pending[rx.to] \cup {NextHop(rx.frame)}]
        BY <3>2 DEF NewRelay
      <4>2. n = rx.to => pending'[n] = pending[n] \cup {NextHop(rx.frame)}
        BY <2>1, <4>1
      <4>3. n # rx.to => pending'[n] = pending[n]
        BY <2>1, <4>1
      <4>4. QED
        BY <2>4, <3>2, <4>2, <4>3
    <3>3. QED
      BY <3>1, <3>2 DEF NoRelay
  <2>5. QED
    BY <2>2, <2>3, <2>4
<1>10. QED
  <2>1. setup' = setup /\ next_id' = next_id /\ sent' = sent
    OBVIOUS
  <2>2. /\ \A packet \in sent : packet.id < next_id[packet.src]
        /\ \A p, q \in sent : KeyOf(p) = KeyOf(q) => p.dst = q.dst
    BY DEF CarryInv
  <2>3. QED
    BY <1>6, <1>7, <1>8, <1>9, <2>1, <2>2 DEF CarryInv

LEMMA RebroadcastCarries ==
    ASSUME TypeOK, CarryInv, NEW n \in Node, NEW data \in pending[n], Rebroadcast(n, data)
    PROVE  CarryInv'
<1>1. /\ pending' = [pending EXCEPT ![n] = pending[n] \ {data}]
      /\ air' = air \cup Receptions(n, data) /\ UNCHANGED <<setup, next_id, taken, sent>>
  BY DEF Rebroadcast, NoLongerPending, Send
<1>2. \A k : Took(k)' = Took(k)
  BY <1>1 DEF Took
<1>3. \A d, m : Carried(d, m)' = Carried(d, m)
  BY <1>1, <1>2 DEF Carried, Sent
<1>4. \A m \in Node : pending'[m] \subseteq pending[m]
  BY <1>1 DEF TypeOK
<1>5. \A rx \in air' : rx.frame \in Data => Carried(rx.frame, rx.from)
  BY <1>1 DEF Receptions, CarryInv
<1>6. QED
  BY <1>1, <1>2, <1>3, <1>4, <1>5 DEF CarryInv

\* An originated packet is new to everyone.
LEMMA OriginateEffect ==
    ASSUME TypeOK, CacheInv, CarryInv, NEW n \in Node, NEW dst \in Node, Originate(n, dst),
           NEW data, data = [src |-> n, id |-> next_id[n], dst |-> dst, hop |-> InitialHopLimit]
    PROVE  /\ data \in Data /\ KeyOf(data) \in Key /\ dst # n
           /\ Took(KeyOf(data)) = {} /\ Took(KeyOf(data))' = {n}
           /\ \A k \in Key \ {KeyOf(data)} : Took(k)' = Took(k)
           /\ \A packet \in sent : KeyOf(packet) # KeyOf(data)
           /\ air' = air \cup Receptions(n, data) /\ sent' = sent \cup {data}
           /\ next_id' = [next_id EXCEPT ![n] = next_id[n] + 1] /\ UNCHANGED <<setup, pending>>
<1>1. /\ dst # n /\ RememberPacket(n, [src |-> n, id |-> next_id[n]])
      /\ air' = air \cup Receptions(n, data) /\ sent' = sent \cup {data}
      /\ next_id' = [next_id EXCEPT ![n] = next_id[n] + 1] /\ UNCHANGED <<setup, pending>>
  BY DEF Originate, Send
<1>2. data \in Data
  BY FloodAssumption DEF TypeOK, Data
<1>3. KeyOf(data) = [src |-> n, id |-> next_id[n]] /\ KeyOf(data) \in Key
  BY <1>2 DEF KeyOf, Data, Key
<1>4. Took(KeyOf(data)) = {}
  <2>1. ~ (KeyOf(data).id < next_id[KeyOf(data).src])
    BY <1>3 DEF TypeOK
  <2>2. QED
    BY <1>3, <2>1 DEF CarryInv
<1>5. Took(KeyOf(data))' = {n} /\ \A k \in Key \ {KeyOf(data)} : Took(k)' = Took(k)
  BY <1>1, <1>3, <1>4, RememberTook
<1>6. \A packet \in sent : KeyOf(packet) # KeyOf(data)
  BY <1>4 DEF CarryInv
<1>7. QED
  BY <1>1, <1>2, <1>3, <1>4, <1>5, <1>6

LEMMA OriginateCarries ==
    ASSUME TypeOK, CacheInv, CarryInv, NEW n \in Node, NEW dst \in Node, Originate(n, dst)
    PROVE  CarryInv'
<1>1. PICK data : data = [src |-> n, id |-> next_id[n], dst |-> dst, hop |-> InitialHopLimit]
  OBVIOUS
<1>2. /\ data \in Data /\ KeyOf(data) \in Key /\ dst # n
      /\ Took(KeyOf(data)) = {} /\ Took(KeyOf(data))' = {n}
      /\ \A k \in Key \ {KeyOf(data)} : Took(k)' = Took(k)
      /\ \A packet \in sent : KeyOf(packet) # KeyOf(data)
      /\ air' = air \cup Receptions(n, data) /\ sent' = sent \cup {data}
      /\ next_id' = [next_id EXCEPT ![n] = next_id[n] + 1] /\ UNCHANGED <<setup, pending>>
  BY <1>1, OriginateEffect
<1>3. /\ data.src = n /\ data.dst = dst /\ data.id = next_id[n]
      /\ KeyOf(data).src = n /\ KeyOf(data).id = next_id[n]
  BY <1>1 DEF KeyOf
<1>4. /\ next_id \in [Node -> Nat] /\ sent \in SUBSET Data
      /\ pending \in [Node -> SUBSET Data] /\ setup.in_range \in Topology
  BY FloodAssumption DEF TypeOK, SetupType, Topology
<1>5. \A m \in Node : next_id[m] <= next_id'[m] /\ next_id'[n] = next_id[n] + 1
  BY <1>2, <1>4
<1>6. \A packet \in sent' : packet.id < next_id'[packet.src]
  <2>1. \A packet \in sent : packet.id < next_id[packet.src]
    BY DEF CarryInv
  <2>2. \A packet \in sent : packet.id \in Nat /\ packet.src \in Node
    BY <1>4 DEF Data
  <2>3. \A packet \in sent : packet.id < next_id'[packet.src]
    BY <1>2, <1>4, <1>5, <2>1, <2>2
  <2>4. data.id < next_id'[data.src]
    BY <1>3, <1>4, <1>5
  <2>5. QED
    BY <1>2, <2>3, <2>4
<1>7. \A p, q \in sent' : KeyOf(p) = KeyOf(q) => p.dst = q.dst
  BY <1>2 DEF CarryInv
<1>8. \A packet \in sent' :
          /\ packet.src \in Took(KeyOf(packet))'
          /\ Took(KeyOf(packet))' \subseteq FloodHops(setup'.in_range, packet.src, packet.dst)
  <2>1. ASSUME NEW packet \in sent
        PROVE  /\ packet.src \in Took(KeyOf(packet))'
               /\ Took(KeyOf(packet))'
                      \subseteq FloodHops(setup'.in_range, packet.src, packet.dst)
    <3>1. KeyOf(packet) \in Key
      BY <1>4 DEF KeyOf, Data, Key
    <3>2. Took(KeyOf(packet))' = Took(KeyOf(packet))
      BY <1>2, <3>1
    <3>3. QED
      BY <1>2, <3>2 DEF CarryInv
  <2>2. n \in FloodHops(setup.in_range, n, dst)
    BY <1>4, FloodHopsClosed
  <2>3. QED
    BY <1>2, <1>3, <2>1, <2>2
<1>9. \A k \in Key : Took(k)' # {} => k.id < next_id'[k.src]
  <2>1. ASSUME NEW k \in Key, Took(k) # {} PROVE k.id < next_id'[k.src]
    <3>1. k.id < next_id[k.src] /\ k.id \in Nat /\ k.src \in Node
      BY <2>1 DEF CarryInv, Key
    <3>2. next_id'[k.src] \in Nat /\ next_id[k.src] \in Nat
      BY <1>2, <1>4, <3>1
    <3>3. QED
      BY <1>5, <3>1, <3>2
  <2>2. KeyOf(data).id < next_id'[KeyOf(data).src]
    BY <1>3, <1>4, <1>5
  <2>3. QED
    BY <1>2, <2>1, <2>2
<1>10. ASSUME NEW d \in Data, NEW m \in Node, Carried(d, m) PROVE Carried(d, m)'
  <2>1. KeyOf(d) \in Key /\ KeyOf(d) # KeyOf(data)
    BY <1>2, <1>10 DEF Carried, KeyOf, Data, Key
  <2>2. Took(KeyOf(d)) \subseteq Took(KeyOf(d))' /\ sent \subseteq sent'
    BY <1>2, <2>1
  <2>3. QED
    BY <1>10, <2>2, CarriedStays
<1>11. Carried(data, n)'
  BY <1>2, <1>3 DEF Carried, Sent
<1>12. \A rx \in air' : rx.frame \in Data => Carried(rx.frame, rx.from)'
  <2>1. \A rx \in air : rx.frame \in Data => Carried(rx.frame, rx.from)'
    BY <1>10, ArrivalType DEF CarryInv
  <2>2. \A rx \in Receptions(n, data) : rx.frame = data /\ rx.from = n
    BY DEF Receptions
  <2>3. QED
    BY <1>2, <1>11, <2>1, <2>2
<1>13. \A m \in Node : \A d \in pending'[m] : Carried(d, m)'
  BY <1>2, <1>4, <1>10 DEF CarryInv
<1>14. QED
  BY <1>6, <1>7, <1>8, <1>9, <1>12, <1>13 DEF CarryInv

\* Nothing that was reached is out of reach again, and no count of nodes shrinks.
LEMMA ReachGrows ==
    ASSUME TypeOK, NEW key \in Key, NEW rx,
           Took(key)' = Took(key) \/ \E n \in Node : Took(key)' = Took(key) \cup {n},
           \A r \in air \ air' : r = rx,
           rx \in air /\ KeyOf(rx.frame) = key => rx.to \in Took(key)' \/ rx \in air'
    PROVE  /\ \A n, m : Reached(n, m, key) => Reached(n, m, key)'
           /\ \A data : KeyOf(data) = key /\ data \in Data /\ Early(data) => Early(data)'
           /\ Wide(key) => Wide(key)'
<1>1. Took(key) \subseteq Took(key)'
  OBVIOUS
<1>2. ASSUME NEW n, NEW m, Reached(n, m, key) PROVE Reached(n, m, key)'
  <2>1. CASE m \in Took(key)
    BY <1>1, <2>1 DEF Reached
  <2>2. CASE UnderWay(n, m, key)
    <3>1. PICK r \in air : r.from = n /\ r.to = m /\ r.frame \in Data /\ KeyOf(r.frame) = key
      BY <2>2 DEF UnderWay
    <3>2. CASE r \in air'
      BY <3>1, <3>2 DEF Reached, UnderWay
    <3>3. CASE r \notin air'
      BY <3>1, <3>3 DEF Reached
    <3>4. QED
      BY <3>2, <3>3
  <2>3. QED
    BY <1>2, <2>1, <2>2 DEF Reached
<1>3. PICK a \in Nat, b \in Nat :
          a = Cardinality(Took(key)) /\ b = Cardinality(Took(key)') /\ a <= b
  <2>1. Cardinality(Took(key)) \in Nat
    BY TookFinite
  <2>2. Cardinality(Took(key)') \in Nat /\ Cardinality(Took(key)) <= Cardinality(Took(key)')
    <3>1. CASE Took(key)' = Took(key)
      BY <2>1, <3>1
    <3>2. CASE \E n \in Node : Took(key)' = Took(key) \cup {n}
      BY <3>2, TookOneMore
    <3>3. QED
      BY <3>1, <3>2
  <2>3. QED
    BY <2>1, <2>2
<1>4. InitialHopLimit \in Nat
  BY FloodAssumption
<1>5. ASSUME NEW data, KeyOf(data) = key, data \in Data, Early(data) PROVE Early(data)'
  <2>1. InitialHopLimit - data.hop + 1 <= a /\ data.hop \in Nat
    BY <1>3, <1>5 DEF Early, Data
  <2>2. InitialHopLimit - data.hop + 1 <= b
    BY <1>3, <1>4, <2>1
  <2>3. QED
    BY <1>3, <1>5, <2>2 DEF Early
<1>6. Wide(key) => Wide(key)'
  BY <1>3, <1>4 DEF Wide
<1>7. QED
  BY <1>2, <1>5, <1>6

\* The parts of SpreadInv a step has to keep.
LEMMA SpreadParts ==
    ASSUME TypeOK, SpreadInv, setup' = setup,
           \A key \in Key :
              /\ \A n, m : Reached(n, m, key) => Reached(n, m, key)'
              /\ \A data : KeyOf(data) = key /\ data \in Data /\ Early(data) => Early(data)'
              /\ Wide(key) => Wide(key)'
              /\ Took(key) \subseteq Took(key)',
           \A n \in Node, key \in Key : PassedOn(n, key) => PassedOn(n, key)',
           \A packet \in sent' :
              \/ Wide(KeyOf(packet))'
              \/ \A n \in Took(KeyOf(packet))' :
                    \/ packet \in sent /\ n \in Took(KeyOf(packet))
                    \/ n = packet.dst \/ PassedOn(n, KeyOf(packet))',
           \A rx \in air' \ air :
              rx.frame \in Data => Early(rx.frame)' \/ rx.to \in Took(KeyOf(rx.frame))',
           \A n \in Node : \A data \in pending'[n] \ pending[n] :
              Early(data)' \/ \A m \in setup.in_range[n] : Reached(n, m, KeyOf(data))'
    PROVE  SpreadInv'
<1>1. \A data \in Data : KeyOf(data) \in Key
  BY DEF KeyOf, Key, Data
<1>2. ASSUME NEW packet \in sent'
      PROVE  \/ Wide(KeyOf(packet))'
             \/ \A n \in Took(KeyOf(packet))' \ {packet.dst} : PassedOn(n, KeyOf(packet))'
  <2> SUFFICES ASSUME ~ Wide(KeyOf(packet))',
                      NEW n \in Took(KeyOf(packet))', n # packet.dst
               PROVE  PassedOn(n, KeyOf(packet))'
    OBVIOUS
  <2>1. \/ packet \in sent /\ n \in Took(KeyOf(packet))
        \/ PassedOn(n, KeyOf(packet))'
    BY <1>2
  <2>2. ASSUME packet \in sent, n \in Took(KeyOf(packet)) PROVE PassedOn(n, KeyOf(packet))'
    <3>1. KeyOf(packet) \in Key /\ n \in Node
      BY <1>1, <2>2 DEF TypeOK, Took
    <3>2. ~ Wide(KeyOf(packet))
      BY <3>1
    <3>3. PassedOn(n, KeyOf(packet))
      BY <2>2, <3>2 DEF SpreadInv
    <3>4. QED
      BY <3>1, <3>3
  <2>3. QED
    BY <2>1, <2>2
<1>3. ASSUME NEW rx \in air', rx.frame \in Data, rx.to \notin Took(KeyOf(rx.frame))'
      PROVE  Early(rx.frame)'
  <2>1. CASE rx \in air
    <3>1. KeyOf(rx.frame) \in Key
      BY <1>1, <1>3
    <3>2. Early(rx.frame)
      BY <1>3, <2>1, <3>1 DEF SpreadInv
    <3>3. QED
      BY <1>3, <3>1, <3>2
  <2>2. CASE rx \notin air
    BY <1>3, <2>2
  <2>3. QED
    BY <2>1, <2>2
<1>4. ASSUME NEW n \in Node, NEW data \in pending'[n]
      PROVE  Early(data)' \/ \A m \in setup'.in_range[n] : Reached(n, m, KeyOf(data))'
  <2>1. CASE data \in pending[n]
    <3>1. data \in Data /\ KeyOf(data) \in Key
      BY <1>1, <2>1 DEF TypeOK
    <3>2. Early(data) \/ \A m \in setup.in_range[n] : Reached(n, m, KeyOf(data))
      BY <2>1 DEF SpreadInv
    <3>3. QED
      BY <3>1, <3>2
  <2>2. CASE data \notin pending[n]
    BY <1>4, <2>2
  <2>3. QED
    BY <2>1, <2>2
<1>5. QED
  BY <1>2, <1>3, <1>4 DEF SpreadInv

LEMMA SpreadUntouched ==
    ASSUME SpreadInv, UNCHANGED <<setup, sent, taken, pending>>,
           \A rx : rx.frame \in Data => (rx \in air' <=> rx \in air)
    PROVE  SpreadInv'
<1>1. \A k : Took(k)' = Took(k)
  BY DEF Took
<1>2. \A n, m, k : UnderWay(n, m, k)' <=> UnderWay(n, m, k)
  BY DEF UnderWay
<1>3. \A n, m, k : Reached(n, m, k)' <=> Reached(n, m, k)
  BY <1>1, <1>2 DEF Reached
<1>4. \A n, k : PendingFor(n, k)' = PendingFor(n, k)
  BY DEF PendingFor
<1>5. setup' = setup /\ sent' = sent /\ pending' = pending
  OBVIOUS
<1>6. \A n, k : PassedOn(n, k)' <=> PassedOn(n, k)
  BY <1>3, <1>4, <1>5 DEF PassedOn
<1>7. \A d : Early(d)' <=> Early(d)
  BY <1>1 DEF Early
<1>8. \A k : Wide(k)' <=> Wide(k)
  BY <1>1 DEF Wide
<1>9. QED
  BY <1>1, <1>3, <1>5, <1>6, <1>7, <1>8 DEF SpreadInv

LEMMA ArrivalSpreads ==
    ASSUME TypeOK, CarryInv, SpreadInv, NEW rx \in air, rx.frame \in Data, rx.to \in Node,
           rx.from \in Node, Carried(rx.frame, rx.from), air' = air \ {rx},
           UNCHANGED <<setup, next_id, sent>>, TakesIn(rx), NoRelay(rx) \/ NewRelay(rx)
    PROVE  SpreadInv'
<1> DEFINE key == KeyOf(rx.frame)
           u == rx.to
<1>1. /\ key \in Key /\ \E packet \in sent : KeyOf(packet) = key
      /\ \A packet \in sent : KeyOf(packet) = key => packet.dst = rx.frame.dst
  BY CarriedPacket
<1>2. /\ u \in Node /\ Took(key)' = Took(key) \cup {u}
      /\ \A k \in Key \ {key} : Took(k)' = Took(k)
  BY DEF TakesIn
<1>3. ASSUME NEW k \in Key
      PROVE  /\ \A n, m : Reached(n, m, k) => Reached(n, m, k)'
             /\ \A data : KeyOf(data) = k /\ data \in Data /\ Early(data) => Early(data)'
             /\ Wide(k) => Wide(k)'
             /\ Took(k) \subseteq Took(k)'
  <2>1. Took(k)' = Took(k) \/ \E n \in Node : Took(k)' = Took(k) \cup {n}
    BY <1>2
  <2>2. KeyOf(rx.frame) = k => rx.to \in Took(k)'
    BY <1>2
  <2>3. \A r \in air \ air' : r = rx
    OBVIOUS
  <2>4. QED
    BY <2>1, <2>2, <2>3, ReachGrows
<1>4. pending \in [Node -> SUBSET Data] /\ \A n \in Node : pending[n] \subseteq pending'[n]
  <2>1. pending \in [Node -> SUBSET Data]
    BY DEF TypeOK
  <2>2. CASE pending' = pending
    BY <2>1, <2>2
  <2>3. CASE pending' = [pending EXCEPT ![u] = pending[u] \cup {NextHop(rx.frame)}]
    BY <1>2, <2>1, <2>3
  <2>4. QED
    BY <2>1, <2>2, <2>3 DEF NoRelay, NewRelay
<1>5. ASSUME NEW n \in Node, NEW k \in Key, PassedOn(n, k) PROVE PassedOn(n, k)'
  <2>1. CASE PendingFor(n, k) # {}
    BY <1>4, <2>1 DEF PendingFor, PassedOn
  <2>2. CASE \A m \in setup.in_range[n] : Reached(n, m, k)
    <3>1. \A m \in setup'.in_range[n] : Reached(n, m, k)'
      BY <1>3, <2>2
    <3>2. QED
      BY <3>1 DEF PassedOn
  <2>3. QED
    BY <1>5, <2>1, <2>2 DEF PassedOn
<1>6. /\ rx.frame.hop \in Nat /\ InitialHopLimit \in Nat
      /\ NextHop(rx.frame).hop = rx.frame.hop - 1 /\ KeyOf(NextHop(rx.frame)) = key
  BY FloodAssumption DEF NextHop, KeyOf, Data
<1>7. PICK a \in Nat, b \in Nat :
          /\ a = Cardinality(Took(key)) /\ b = Cardinality(Took(key)') /\ a <= b
          /\ u \notin Took(key) => b = a + 1
  BY <1>2, TookFinite, TookOneMore
<1>8. u \notin Took(key) => InitialHopLimit - rx.frame.hop + 1 <= a
  BY <1>7 DEF SpreadInv, Early
<1>9. ASSUME NewRelay(rx) PROVE PassedOn(u, key)'
  <2>1. NextHop(rx.frame) \in pending'[u]
    BY <1>2, <1>4, <1>9 DEF NewRelay
  <2>2. QED
    BY <1>6, <2>1 DEF PassedOn, PendingFor
<1>10. ASSUME NEW packet \in sent'
       PROVE  \/ Wide(KeyOf(packet))'
              \/ \A n \in Took(KeyOf(packet))' :
                    \/ packet \in sent /\ n \in Took(KeyOf(packet))
                    \/ n = packet.dst \/ PassedOn(n, KeyOf(packet))'
  <2> SUFFICES ASSUME ~ Wide(KeyOf(packet))', NEW n \in Took(KeyOf(packet))',
                      n \notin Took(KeyOf(packet)), n # packet.dst
               PROVE  PassedOn(n, KeyOf(packet))'
    OBVIOUS
  <2>1. packet \in sent /\ KeyOf(packet) \in Key
    <3>1. packet \in sent /\ packet \in Data
      BY <1>10 DEF TypeOK
    <3>2. QED
      BY <3>1 DEF KeyOf, Key, Data
  <2>2. KeyOf(packet) = key /\ n = u /\ u \notin Took(key) /\ u # rx.frame.dst
    BY <1>1, <1>2, <2>1
  <2>3. CASE NewRelay(rx)
    BY <1>9, <2>2, <2>3
  <2>4. CASE NoRelay(rx)
    <3>1. rx.frame.hop = 0
      BY <2>2, <2>4 DEF NoRelay
    <3>2. InitialHopLimit + 2 <= b
      BY <1>6, <1>7, <1>8, <2>2, <3>1
    <3>3. Wide(key)'
      BY <1>7, <3>2 DEF Wide
    <3>4. QED
      BY <2>2, <3>3
  <2>5. QED
    BY <2>3, <2>4
<1>11. ASSUME NewRelay(rx)
       PROVE  \/ Early(NextHop(rx.frame))'
              \/ \A m \in setup.in_range[u] : Reached(u, m, key)'
  <2>1. rx.frame.hop > 0 /\ u # rx.frame.dst /\ PendingFor(u, key) = {}
    BY <1>11 DEF NewRelay
  <2>2. ASSUME InitialHopLimit - (rx.frame.hop - 1) + 1 <= b PROVE Early(NextHop(rx.frame))'
    BY <1>6, <1>7, <2>2 DEF Early
  <2>3. CASE u \notin Took(key)
    <3>1. InitialHopLimit - (rx.frame.hop - 1) + 1 <= b
      BY <1>6, <1>7, <1>8, <2>1, <2>3
    <3>2. QED
      BY <2>2, <3>1
  <2>4. CASE u \in Took(key) /\ Wide(key)
    <3>1. InitialHopLimit + 2 <= a
      BY <1>7, <2>4 DEF Wide
    <3>2. InitialHopLimit - (rx.frame.hop - 1) + 1 <= b
      BY <1>6, <1>7, <2>1, <3>1
    <3>3. QED
      BY <2>2, <3>2
  <2>5. CASE u \in Took(key) /\ ~ Wide(key)
    <3>1. PICK packet \in sent : KeyOf(packet) = key /\ packet.dst = rx.frame.dst
      BY <1>1
    <3>2. PassedOn(u, key)
      BY <2>1, <2>5, <3>1 DEF SpreadInv
    <3>3. \A m \in setup.in_range[u] : Reached(u, m, key)
      BY <2>1, <3>2 DEF PassedOn
    <3>4. QED
      BY <1>1, <1>3, <3>3
  <2>6. QED
    BY <2>3, <2>4, <2>5
<1>12. ASSUME NEW n \in Node, NEW data \in pending'[n] \ pending[n]
       PROVE  Early(data)' \/ \A m \in setup.in_range[n] : Reached(n, m, KeyOf(data))'
  <2>1. NewRelay(rx) /\ n = u /\ data = NextHop(rx.frame)
    <3>1. NewRelay(rx)
      BY <1>12 DEF NoRelay
    <3>2. pending' = [pending EXCEPT ![u] = pending[u] \cup {NextHop(rx.frame)}]
      BY <3>1 DEF NewRelay
    <3>3. QED
      BY <1>2, <1>4, <1>12, <3>1, <3>2
  <2>2. QED
    BY <1>6, <1>11, <2>1
<1>13. air' \ air = {}
  OBVIOUS
<1>14. QED
  BY <1>3, <1>5, <1>10, <1>12, <1>13, SpreadParts

LEMMA RebroadcastSpreads ==
    ASSUME TypeOK, CarryInv, SpreadInv, NEW n \in Node, NEW data \in pending[n],
           Rebroadcast(n, data)
    PROVE  SpreadInv'
<1> DEFINE key == KeyOf(data)
<1>1. /\ pending' = [pending EXCEPT ![n] = pending[n] \ {data}]
      /\ air' = air \cup Receptions(n, data) /\ ~ ChannelBusy(n)
      /\ UNCHANGED <<setup, next_id, taken, sent>>
  BY DEF Rebroadcast, NoLongerPending, Send
<1>2. pending \in [Node -> SUBSET Data] /\ data \in Data /\ key \in Key
  <2>1. pending \in [Node -> SUBSET Data]
    BY DEF TypeOK
  <2>2. data \in Data
    BY <2>1
  <2>3. key \in Key
    BY <2>2 DEF KeyOf, Key, Data
  <2>4. QED
    BY <2>1, <2>2, <2>3
<1>3. \A k : Took(k)' = Took(k)
  BY <1>1 DEF Took
<1>4. ASSUME NEW k \in Key
      PROVE  /\ \A u, m : Reached(u, m, k) => Reached(u, m, k)'
             /\ \A d : KeyOf(d) = k /\ d \in Data /\ Early(d) => Early(d)'
             /\ Wide(k) => Wide(k)'
             /\ Took(k) \subseteq Took(k)'
  <2>1. \A u, m : Reached(u, m, k) => Reached(u, m, k)'
    BY <1>1, <1>3 DEF Reached, UnderWay
  <2>2. (\A d : Early(d)' <=> Early(d)) /\ (Wide(k)' <=> Wide(k))
    BY <1>3 DEF Early, Wide
  <2>3. QED
    BY <1>3, <2>1, <2>2
<1>5. \A m \in setup.in_range[n] : Reached(n, m, key)'
  <2> TAKE m \in setup.in_range[n]
  <2>1. [from |-> n, to |-> m, frame |-> data] \in air'
    BY <1>1 DEF Receptions
  <2>2. UnderWay(n, m, key)'
    BY <1>2, <2>1 DEF UnderWay
  <2>3. QED
    BY <2>2 DEF Reached
<1>6. ASSUME NEW u \in Node, NEW k \in Key, PassedOn(u, k) PROVE PassedOn(u, k)'
  <2>1. CASE u = n /\ k = key
    BY <1>1, <1>5, <2>1 DEF PassedOn
  <2>2. CASE u # n \/ k # key
    <3>1. PendingFor(u, k) \subseteq PendingFor(u, k)'
      BY <1>1, <1>2, <2>2 DEF PendingFor
    <3>2. CASE PendingFor(u, k) # {}
      BY <3>1, <3>2 DEF PassedOn
    <3>3. CASE \A m \in setup.in_range[u] : Reached(u, m, k)
      BY <1>1, <1>4, <3>3 DEF PassedOn
    <3>4. QED
      BY <1>6, <3>2, <3>3 DEF PassedOn
  <2>3. QED
    BY <2>1, <2>2
<1>7. \A packet \in sent' : \A u \in Took(KeyOf(packet))' :
          packet \in sent /\ u \in Took(KeyOf(packet))
  BY <1>1, <1>3
<1>8. ASSUME NEW rx \in air' \ air, rx.frame \in Data
      PROVE  Early(rx.frame)' \/ rx.to \in Took(KeyOf(rx.frame))'
  <2>1. rx.frame = data /\ rx.to \in setup.in_range[n]
    BY <1>1, <1>8 DEF Receptions
  <2>2. Early(data) \/ \A m \in setup.in_range[n] : Reached(n, m, key)
    BY DEF SpreadInv
  <2>3. \A m : ~ UnderWay(n, m, key)
    BY <1>1 DEF ChannelBusy, UnderWay
  <2>4. Early(data) \/ rx.to \in Took(key)
    BY <2>1, <2>2, <2>3 DEF Reached
  <2>5. QED
    BY <1>2, <1>4, <2>1, <2>4
<1>9. \A u \in Node : pending'[u] \subseteq pending[u]
  BY <1>1, <1>2
<1>10. setup' = setup
  BY <1>1
<1>11. QED
  BY <1>4, <1>6, <1>7, <1>8, <1>9, <1>10, SpreadParts

LEMMA OriginateSpreads ==
    ASSUME TypeOK, CacheInv, CarryInv, SpreadInv, NEW n \in Node, NEW dst \in Node,
           Originate(n, dst)
    PROVE  SpreadInv'
<1>1. PICK data : data = [src |-> n, id |-> next_id[n], dst |-> dst, hop |-> InitialHopLimit]
  OBVIOUS
<1> DEFINE key == KeyOf(data)
<1>2. /\ data \in Data /\ key \in Key
      /\ Took(key) = {} /\ Took(key)' = {n}
      /\ \A k \in Key \ {key} : Took(k)' = Took(k)
      /\ \A packet \in sent : KeyOf(packet) # key
      /\ air' = air \cup Receptions(n, data) /\ sent' = sent \cup {data}
      /\ UNCHANGED <<setup, pending>>
  BY <1>1, OriginateEffect
<1>3. ASSUME NEW k \in Key
      PROVE  /\ \A u, m : Reached(u, m, k) => Reached(u, m, k)'
             /\ \A d : KeyOf(d) = k /\ d \in Data /\ Early(d) => Early(d)'
             /\ Wide(k) => Wide(k)'
             /\ Took(k) \subseteq Took(k)'
  <2>1. Took(k)' = Took(k) \/ \E u \in Node : Took(k)' = Took(k) \cup {u}
    BY <1>2
  <2>2. air \subseteq air'
    BY <1>2
  <2>3. \A r \in air \ air' : r = data
    BY <2>2
  <2>4. data \in air /\ KeyOf(data.frame) = k => data.to \in Took(k)' \/ data \in air'
    BY <2>2
  <2>5. QED
    BY <2>1, <2>3, <2>4, ReachGrows
<1>4. \A m \in setup.in_range[n] : Reached(n, m, key)'
  <2> TAKE m \in setup.in_range[n]
  <2>1. [from |-> n, to |-> m, frame |-> data] \in air'
    BY <1>2 DEF Receptions
  <2>2. UnderWay(n, m, key)'
    BY <1>2, <2>1 DEF UnderWay
  <2>3. QED
    BY <2>2 DEF Reached
<1>5. ASSUME NEW u \in Node, NEW k \in Key, PassedOn(u, k) PROVE PassedOn(u, k)'
  <2>1. CASE PendingFor(u, k) # {}
    BY <1>2, <2>1 DEF PendingFor, PassedOn
  <2>2. CASE \A m \in setup.in_range[u] : Reached(u, m, k)
    BY <1>2, <1>3, <2>2 DEF PassedOn
  <2>3. QED
    BY <1>5, <2>1, <2>2 DEF PassedOn
<1>6. ASSUME NEW packet \in sent', NEW u \in Took(KeyOf(packet))'
      PROVE  \/ packet \in sent /\ u \in Took(KeyOf(packet))
             \/ PassedOn(u, KeyOf(packet))'
  <2>1. CASE packet \in sent
    <3>1. KeyOf(packet) \in Key \ {key}
      <4>1. packet \in Data
        BY <2>1 DEF TypeOK
      <4>2. KeyOf(packet) \in Key
        BY <4>1 DEF KeyOf, Key, Data
      <4>3. QED
        BY <1>2, <2>1, <4>2
    <3>2. QED
      BY <1>2, <1>6, <2>1, <3>1
  <2>2. CASE packet = data
    <3>1. u = n
      BY <1>2, <1>6, <2>2
    <3>2. PassedOn(n, key)'
      BY <1>2, <1>4 DEF PassedOn
    <3>3. QED
      BY <2>2, <3>1, <3>2
  <2>3. QED
    BY <1>2, <1>6, <2>1, <2>2
<1>7. Early(data)'
  <2>1. Cardinality(Took(key)') = 1
    BY <1>2, FS_Singleton
  <2>2. InitialHopLimit - data.hop + 1 = 1
    BY <1>1, FloodAssumption
  <2>3. QED
    BY <2>1, <2>2 DEF Early
<1>8. \A rx \in air' \ air : rx.frame = data
  BY <1>2 DEF Receptions
<1>9. setup' = setup /\ pending' = pending
  BY <1>2
<1>10. QED
  BY <1>3, <1>5, <1>6, <1>7, <1>8, <1>9, SpreadParts

LEMMA StepReachInv ==
    ASSUME FloodInv, ReachInv, [Next]_vars
    PROVE  ReachInv'
<1>1. TypeOK /\ CacheInv /\ HopInv
  BY DEF FloodInv
<1>2. setup' = setup
  BY DEF Next, SendHello, Originate, Rebroadcast, ReceiveHello, ReceivePending,
     ReceiveDuplicate, ReceiveNew, ReceptionFails, Arrives, vars
<1> SUFFICES ASSUME Plain PROVE CarryInv' /\ SpreadInv'
  BY <1>2 DEF ReachInv, Plain
<1>3. CarryInv /\ SpreadInv
  BY DEF ReachInv
<1>4. ASSUME UNCHANGED <<setup, next_id, sent, taken, pending>>,
             \A rx : rx.frame \in Data => (rx \in air' <=> rx \in air)
      PROVE  CarryInv' /\ SpreadInv'
  BY <1>1, <1>3, <1>4, CarryUntouched, SpreadUntouched
<1>5. ASSUME NEW n \in Node, NEW dst \in Node, Originate(n, dst)
      PROVE  CarryInv' /\ SpreadInv'
  BY <1>1, <1>3, <1>5, OriginateCarries, OriginateSpreads
<1>6. ASSUME NEW n \in Node, NEW data \in pending[n], Rebroadcast(n, data)
      PROVE  CarryInv' /\ SpreadInv'
  BY <1>1, <1>3, <1>6, RebroadcastCarries, RebroadcastSpreads
<1>7. ASSUME NEW rx \in air, ReceivePending(rx) \/ ReceiveDuplicate(rx) \/ ReceiveNew(rx)
      PROVE  CarryInv' /\ SpreadInv'
  <2>1. /\ rx.frame \in Data /\ rx.to \in Node /\ rx.from \in Node
        /\ Carried(rx.frame, rx.from)
        /\ air' = air \ {rx} /\ UNCHANGED <<setup, next_id, sent>>
        /\ TakesIn(rx) /\ (NoRelay(rx) \/ NewRelay(rx))
    BY <1>1, <1>3, <1>7, ArrivalEffect DEF Plain
  <2>2. CarryInv'
    BY <1>1, <1>3, <2>1, ArrivalCarries
  <2>3. SpreadInv'
    BY <1>1, <1>3, <2>1, ArrivalSpreads
  <2>4. QED
    BY <2>2, <2>3
<1>8. ASSUME NEW rx \in air, ReceiveHello(rx) PROVE CarryInv' /\ SpreadInv'
  <2>1. /\ rx.frame \in Hello /\ air' = air \ {rx}
        /\ UNCHANGED <<setup, next_id, sent, taken, pending>>
    BY <1>8 DEF ReceiveHello, packetVars
  <2>2. rx.frame \notin Data
    <3>1. \A h \in Hello : DOMAIN h = {"n1", "mprs"}
      BY DEF Hello
    <3>2. \A d \in Data : DOMAIN d = {"src", "id", "dst", "hop"}
      BY DEF Data
    <3>3. QED
      BY <2>1, <3>1, <3>2
  <2>3. QED
    BY <1>4, <2>1, <2>2
<1>9. CASE UNCHANGED vars
  BY <1>4, <1>9 DEF vars
<1>10. /\ \A n \in Node : ~ SendHello(n)
       /\ \A rx \in air : ~ ReceptionFails(rx)
  BY DEF Plain, SendHello, ReceptionFails
<1>11. QED
  BY <1>5, <1>6, <1>7, <1>8, <1>9, <1>10 DEF Next

LEMMA InitReachInv == Init => ReachInv
<1> SUFFICES ASSUME Init PROVE CarryInv /\ SpreadInv
  BY DEF ReachInv
<1>1. /\ taken = [n \in Node |-> <<>>] /\ pending = [n \in Node |-> {}]
      /\ air = {} /\ sent = {}
  BY DEF Init
<1>2. \A key : Took(key) = {}
  <2>1. DOMAIN <<>> = {}
    BY EmptySeq
  <2>2. Elements(<<>>) = {}
    BY <2>1 DEF Elements
  <2>3. QED
    BY <1>1, <2>2 DEF Took
<1>3. QED
  BY <1>1, <1>2 DEF CarryInv, SpreadInv

\* Once nothing is under way a packet is wherever its flood can get, or at more nodes
\* than the hop limit asks for, which are then all of them.
LEMMA QuietReaches ==
    ASSUME TypeOK, CarryInv, SpreadInv, Quiet, NEW packet \in sent,
           InitialHopLimit + 2
               >= Cardinality(FloodHops(setup.in_range, packet.src, packet.dst))
    PROVE  FloodHops(setup.in_range, packet.src, packet.dst) \subseteq Took(KeyOf(packet))
<1> DEFINE key == KeyOf(packet)
           range == FloodHops(setup.in_range, packet.src, packet.dst)
<1>1. packet.src \in Node /\ setup.in_range \in Topology
  BY FloodAssumption DEF TypeOK, Data, SetupType, Topology
<1>2. packet.src \in Took(key) /\ Took(key) \subseteq range /\ Took(key) \in SUBSET Node
  BY TookFinite DEF CarryInv
<1>3. CASE Wide(key)
  <2>1. range \in SUBSET Node
    BY <1>1, FloodHopsClosed
  <2>2. IsFiniteSet(range) /\ Cardinality(range) \in Nat
    BY <2>1, FloodAssumption, FS_Subset, FS_CardinalityType
  <2>3. Took(key) \in SUBSET range
    BY <1>2
  <2> HIDE DEF range
  <2>4. Cardinality(Took(key)) <= Cardinality(range) /\ Cardinality(Took(key)) \in Nat
    BY <2>2, <2>3, FS_Subset, TookFinite
  <2>5. InitialHopLimit \in Nat /\ InitialHopLimit + 2 <= Cardinality(Took(key))
    BY <1>3, FloodAssumption DEF Wide
  <2>6. Cardinality(range) <= InitialHopLimit + 2
    BY <2>2, <2>5 DEF range
  <2>7. Cardinality(range) = Cardinality(Took(key))
    BY <2>2, <2>4, <2>5, <2>6
  <2>8. range = Took(key)
    BY <2>2, <2>3, <2>7, FS_Subset
  <2>9. QED
    BY <2>8 DEF range
<1>4. CASE ~ Wide(key)
  <2>1. \A n \in Took(key) \ {packet.dst} : PassedOn(n, key)
    BY <1>4 DEF SpreadInv
  <2>2. \A n \in Node : PendingFor(n, key) = {} /\ \A m : ~ UnderWay(n, m, key)
    BY DEF Quiet, PendingFor, UnderWay
  <2>3. \A n \in Took(key) \ {packet.dst} : setup.in_range[n] \subseteq Took(key)
    BY <1>2, <2>1, <2>2 DEF PassedOn, Reached
  <2>4. QED
    BY <1>1, <1>2, <2>3, FloodHopsClosed
<1>5. QED
  BY <1>3, <1>4

\* Without losses a naive flood brings a packet to every node it can reach, whatever
\* the caches forget and in whatever order nodes rebroadcast, if the hop limit allows
\* the longest way (receivePacket, onRebroadcastTimer), in any mesh.
THEOREM FloodReaches == Spec => []NaiveReaches
<1>1. FloodInv /\ ReachInv /\ [Next]_vars => ReachInv'
  BY StepReachInv
<1>2. \A src, dst : FloodRange(src, dst) = FloodHops(setup.in_range, src, dst)
  BY Zenon DEF FloodRange, FloodHops
<1>3. FloodInv /\ ReachInv => NaiveReaches
  <2> SUFFICES ASSUME FloodInv, ReachInv, setup.mode = "naive", ~ setup.lossy, Quiet,
                      NEW packet \in sent,
                      InitialHopLimit + 2 >= Cardinality(FloodRange(packet.src, packet.dst)),
                      NEW n \in FloodRange(packet.src, packet.dst)
               PROVE  KeyOf(packet) \in Elements(taken[n])
    BY DEF NaiveReaches
  <2>1. TypeOK /\ CarryInv /\ SpreadInv
    BY DEF FloodInv, ReachInv, Plain
  <2>2. n \in Took(KeyOf(packet))
    BY <1>2, <2>1, QuietReaches
  <2>3. QED
    BY <2>2 DEF Took
<1>4. QED
  BY <1>1, <1>3, InitReachInv, FloodInvariance, PTL DEF Spec
=============================================================================
