-------------------------- MODULE SloraMeshProofs ----------------------------
(***************************************************************************)
(* Proofs about the data plane, for any mesh, payloads and queue limits.   *)
(***************************************************************************)
EXTENDS SloraMesh, SloraReverseProofs

(***************************************************************************)
(* Sequences, and induction over an interval.                              *)
(***************************************************************************)
LEMMA IntervalInduction ==
    ASSUME NEW L \in Nat, NEW T, 0 \in T, \A i \in 1 .. L : i - 1 \in T => i \in T
    PROVE  \A i \in 0 .. L : i \in T
<1> SUFFICES ASSUME {i \in 0 .. L : i \notin T} # {} PROVE FALSE
    OBVIOUS
<1>1. PICK i \in {j \in 0 .. L : j \notin T} : \A j \in {j \in 0 .. L : j \notin T} : i <= j
  <2>1. {j \in 0 .. L : j \notin T} \in SUBSET Nat
    OBVIOUS
  <2>2. QED
    BY <2>1, LeastElement
<1>2. i \in 1 .. L
    BY <1>1
<1>3. i - 1 \in T
    BY <1>1, <1>2
<1>4. QED
    BY <1>1, <1>2, <1>3

LEMMA TruncatedProperties ==
    ASSUME NEW S, NEW queue \in Seq(S), NEW len \in Nat
    PROVE  /\ Truncated(queue, len) \in Seq(S)
           /\ Len(Truncated(queue, len)) <= len
           /\ Len(Truncated(queue, len)) <= Len(queue)
           /\ \A i \in DOMAIN Truncated(queue, len) :
                 i \in DOMAIN queue /\ Truncated(queue, len)[i] = queue[i]
<1> DEFINE k == IF Len(queue) < len THEN Len(queue) ELSE len
<1>1. k \in 0 .. Len(queue) /\ k <= len
    OBVIOUS
<1>2. /\ SubSeq(queue, 1, k) \in Seq(S)
      /\ Len(SubSeq(queue, 1, k)) = k
      /\ \A i \in 1 .. k : SubSeq(queue, 1, k)[i] = queue[i]
    BY <1>1, SubSeqProperties
<1>3. QED
    BY <1>1, <1>2 DEF Truncated

\* What is left of a queue when the first k elements have left.
LEMMA RestProperties ==
    ASSUME NEW S, NEW queue \in Seq(S), NEW k \in 0 .. Len(queue)
    PROVE  /\ SubSeq(queue, k + 1, Len(queue)) \in Seq(S)
           /\ Len(SubSeq(queue, k + 1, Len(queue))) = Len(queue) - k
           /\ \A i \in DOMAIN SubSeq(queue, k + 1, Len(queue)) :
                 /\ i + k \in DOMAIN queue
                 /\ SubSeq(queue, k + 1, Len(queue))[i] = queue[i + k]
    BY SubSeqProperties

LEMMA WithRoomForProperties ==
    ASSUME NEW S, NEW queue \in Seq(S), NEW pkt \in S, Len(queue) <= PendingPerDestMax
    PROVE  /\ WithRoomFor(queue, pkt) \in Seq(S)
           /\ Len(WithRoomFor(queue, pkt)) <= PendingPerDestMax
           /\ \E k \in {0, 1} : \A i \in DOMAIN WithRoomFor(queue, pkt) :
                 \/ i = Len(WithRoomFor(queue, pkt)) /\ WithRoomFor(queue, pkt)[i] = pkt
                 \/ /\ i < Len(WithRoomFor(queue, pkt)) /\ i + k \in DOMAIN queue
                    /\ WithRoomFor(queue, pkt)[i] = queue[i + k]
<1>1. PendingPerDestMax \in Nat \ {0}
    BY PacketAssumption
<1>2. CASE Len(queue) < PendingPerDestMax
  <2>1. WithRoomFor(queue, pkt) = Append(queue, pkt)
    BY <1>2 DEF WithRoomFor
  <2>2. /\ Append(queue, pkt) \in Seq(S) /\ Len(Append(queue, pkt)) = Len(queue) + 1
        /\ \A i \in 1 .. Len(queue) : Append(queue, pkt)[i] = queue[i]
        /\ Append(queue, pkt)[Len(queue) + 1] = pkt
    BY AppendProperties
  <2>3. \A i \in DOMAIN Append(queue, pkt) :
             \/ i = Len(Append(queue, pkt)) /\ Append(queue, pkt)[i] = pkt
             \/ /\ i < Len(Append(queue, pkt)) /\ i + 0 \in DOMAIN queue
                /\ Append(queue, pkt)[i] = queue[i + 0]
    BY <2>2
  <2>4. QED
    BY <1>1, <1>2, <2>1, <2>2, <2>3
<1>3. CASE ~(Len(queue) < PendingPerDestMax)
  <2> DEFINE rest == Tail(queue)
  <2>1. queue # <<>> /\ WithRoomFor(queue, pkt) = Append(rest, pkt)
    BY <1>1, <1>3 DEF WithRoomFor
  <2>2. /\ rest \in Seq(S) /\ Len(rest) = Len(queue) - 1
        /\ \A i \in 1 .. Len(rest) : i + 1 \in DOMAIN queue /\ rest[i] = queue[i + 1]
    BY <2>1, HeadTailProperties
  <2> HIDE DEF rest
  <2>3. /\ Append(rest, pkt) \in Seq(S) /\ Len(Append(rest, pkt)) = Len(rest) + 1
        /\ \A i \in 1 .. Len(rest) : Append(rest, pkt)[i] = rest[i]
        /\ Append(rest, pkt)[Len(rest) + 1] = pkt
    BY <2>2, AppendProperties
  <2>4. \A i \in DOMAIN Append(rest, pkt) :
             \/ i = Len(Append(rest, pkt)) /\ Append(rest, pkt)[i] = pkt
             \/ /\ i < Len(Append(rest, pkt)) /\ i + 1 \in DOMAIN queue
                /\ Append(rest, pkt)[i] = queue[i + 1]
    BY <2>2, <2>3
  <2>5. QED
    BY <1>1, <1>3, <2>1, <2>2, <2>3, <2>4
<1>4. QED
    BY <1>2, <1>3

(***************************************************************************)
(* What a cell takes.                                                      *)
(***************************************************************************)
\* There is a longest part of the queue that fits (the loop of maybeTxOnCell ends).
LEMMA BatchType ==
    ASSUME MeshTypeOK, NEW n \in Node, NEW p \in Node
    PROVE  Batch(n, p) \in 0 .. Len(pending_tx[n][p])
<1> DEFINE queue == pending_tx[n][p]
           fits(k) == \A i \in 1 .. k : Fits(queue[i])
           Possible == {k \in 0 .. Len(queue) : k <= FramesPerTxCell /\ fits(k)}
           left(k) == Len(queue) - k
<1>1. queue \in Seq(Transit) /\ Len(queue) \in Nat /\ FramesPerTxCell \in Nat
    BY PacketAssumption DEF MeshTypeOK
<1>2. 0 \in Possible
    BY <1>1
<1>3. PICK m \in {left(k) : k \in Possible} : \A j \in {left(k) : k \in Possible} : m <= j
  <2>1. {left(k) : k \in Possible} \in SUBSET Nat
    BY <1>1
  <2>2. {left(k) : k \in Possible} # {}
    BY <1>2
  <2> HIDE DEF left, Possible
  <2>3. QED
    BY <2>1, <2>2, LeastElement
<1>4. PICK k \in Possible : m = left(k)
    BY <1>3
<1>5. k < Len(queue) /\ k < FramesPerTxCell => ~fits(k + 1)
  <2> SUFFICES ASSUME k < Len(queue), k < FramesPerTxCell, fits(k + 1) PROVE FALSE
    OBVIOUS
  <2>1. k + 1 \in Possible
    BY <1>1
  <2>2. left(k) <= left(k + 1)
    BY <1>3, <1>4, <2>1
  <2>3. QED
    BY <1>1, <2>2
<1>6. \E j \in 0 .. Len(queue) : /\ j <= FramesPerTxCell /\ fits(j)
                                 /\ j < Len(queue) /\ j < FramesPerTxCell => ~fits(j + 1)
    BY <1>5
<1>7. Batch(n, p) = CHOOSE j \in 0 .. Len(queue) :
                        /\ j <= FramesPerTxCell /\ fits(j)
                        /\ j < Len(queue) /\ j < FramesPerTxCell => ~fits(j + 1)
    BY DEF Batch
<1> HIDE DEF fits
<1>8. QED
    BY <1>6, <1>7

(***************************************************************************)
(* What a flush moves.                                                     *)
(***************************************************************************)
\* Sequences can be joined one after the other.
Joins(f, j, w) ==
    /\ DOMAIN f = 0 .. j
    /\ f[0] = <<>>
    /\ \A i \in 1 .. j : f[i] = f[i - 1] \o w[i]

LEMMA JoinExists ==
    ASSUME NEW S, NEW L \in Nat, NEW w \in [1 .. L -> Seq(S)]
    PROVE  \E f : f = [i \in 0 .. L |-> IF i = 0 THEN <<>> ELSE f[i - 1] \o w[i]]
<1> DEFINE T == {j \in 0 .. L : \E f \in [0 .. j -> Seq(S)] : Joins(f, j, w)}
<1>1. 0 \in T
  <2>1. PICK f : f = [i \in 0 .. 0 |-> <<>>]
    OBVIOUS
  <2>2. f \in [0 .. 0 -> Seq(S)]
    BY <2>1
  <2>3. Joins(f, 0, w)
    BY <2>1 DEF Joins
  <2>4. QED
    BY <2>2, <2>3
<1>2. ASSUME NEW j \in 1 .. L, j - 1 \in T PROVE j \in T
  <2>1. PICK f \in [0 .. j - 1 -> Seq(S)] : Joins(f, j - 1, w)
    BY <1>2
  <2>2. PICK g : g = [i \in 0 .. j |-> IF i < j THEN f[i] ELSE f[j - 1] \o w[j]]
    OBVIOUS
  <2>3. f[j - 1] \o w[j] \in Seq(S)
    <3>1. f[j - 1] \in Seq(S) /\ w[j] \in Seq(S)
      OBVIOUS
    <3>2. QED
      BY <3>1, ConcatProperties
  <2>4. g \in [0 .. j -> Seq(S)]
    BY <2>2, <2>3
  <2>5. ASSUME NEW i \in 1 .. j PROVE g[i] = g[i - 1] \o w[i]
    <3>1. g[i - 1] = f[i - 1]
      BY <2>2
    <3>2. CASE i < j
      <4>1. g[i] = f[i] /\ i \in 1 .. j - 1
        BY <2>2, <3>2
      <4>2. f[i] = f[i - 1] \o w[i]
        BY <2>1, <4>1 DEF Joins
      <4>3. QED
        BY <3>1, <4>1, <4>2
    <3>3. CASE i = j
      <4>1. g[i] = f[j - 1] \o w[j]
        BY <2>2, <3>3
      <4>2. QED
        BY <3>1, <3>3, <4>1
    <3>4. i < j \/ i = j
      OBVIOUS
    <3>5. QED
      BY <3>2, <3>3, <3>4
  <2>6. Joins(g, j, w)
    <3>1. DOMAIN g = 0 .. j /\ g[0] = f[0]
      BY <2>2
    <3>2. f[0] = <<>>
      BY <2>1 DEF Joins
    <3>3. QED
      BY <2>5, <3>1, <3>2 DEF Joins
  <2>7. QED
    BY <2>4, <2>6
<1>3. \A i \in 0 .. L : i \in T
  <2> HIDE DEF T
  <2>1. QED
    BY <1>1, <1>2, IntervalInduction
<1>4. PICK f \in [0 .. L -> Seq(S)] : Joins(f, L, w)
    BY <1>3
<1>5. ASSUME NEW i \in 0 .. L
      PROVE  f[i] = IF i = 0 THEN <<>> ELSE f[i - 1] \o w[i]
  <2>1. i = 0 \/ i \in 1 .. L
    OBVIOUS
  <2>2. QED
    BY <1>4, <2>1 DEF Joins
<1>6. f = [i \in 0 .. L |-> IF i = 0 THEN <<>> ELSE f[i - 1] \o w[i]]
    BY <1>5
<1>7. QED
    BY <1>6

LEMMA JoinType ==
    ASSUME NEW S, NEW L \in Nat, NEW w \in [1 .. L -> Seq(S)],
           NEW f, f = [i \in 0 .. L |-> IF i = 0 THEN <<>> ELSE f[i - 1] \o w[i]]
    PROVE  f \in [0 .. L -> Seq(S)]
<1> DEFINE T == {i \in 0 .. L : f[i] \in Seq(S)}
<1>1. /\ f[0] = <<>>
      /\ \A i \in 1 .. L : f[i] = f[i - 1] \o w[i]
  <2>1. \A i \in 0 .. L : f[i] = IF i = 0 THEN <<>> ELSE f[i - 1] \o w[i]
    <3> DEFINE body == [i \in 0 .. L |-> IF i = 0 THEN <<>> ELSE f[i - 1] \o w[i]]
    <3>1. \A i \in 0 .. L : body[i] = IF i = 0 THEN <<>> ELSE f[i - 1] \o w[i]
      OBVIOUS
    <3>2. f = body
      OBVIOUS
    <3> HIDE DEF body
    <3>3. QED
      BY <3>1, <3>2
  <2>2. /\ 0 \in 0 .. L
        /\ \A i \in 1 .. L : i \in 0 .. L /\ i # 0
    OBVIOUS
  <2>3. QED
    BY <2>1, <2>2
<1>2. 0 \in T
    BY <1>1
<1>3. ASSUME NEW i \in 1 .. L, i - 1 \in T PROVE i \in T
  <2>1. f[i - 1] \in Seq(S) /\ w[i] \in Seq(S)
    BY <1>3
  <2>2. i \in 0 .. L /\ f[i] = f[i - 1] \o w[i]
    BY <1>1
  <2>3. f[i - 1] \o w[i] \in Seq(S)
    BY <2>1, ConcatProperties
  <2>4. QED
    BY <2>2, <2>3
<1>4. \A i \in 0 .. L : i \in T
  <2> HIDE DEF T
  <2>1. QED
    BY <1>2, <1>3, IntervalInduction
<1>5. DOMAIN f = 0 .. L /\ f = [i \in 0 .. L |-> f[i]]
    OBVIOUS
<1>6. QED
    BY <1>4, <1>5

\* The payloads that flushPendingFor collects, destination by destination.
Collects(all, n, order) ==
    /\ all \in [0 .. Len(order) -> Seq(Packet)]
    /\ all[0] = <<>>
    /\ \A i \in 1 .. Len(order) : all[i] = all[i - 1] \o pending_routes[n][order[i]]

LEMMA CollectionExists ==
    ASSUME MeshTypeOK, NEW n \in Node, NEW peer \in Node, NEW order \in Seq(Node)
    PROVE  \E all : /\ Collects(all, n, order)
                    /\ Flushed(n, peer, order) =
                          [i \in DOMAIN all[Len(order)] |->
                              TransitOn(n, all[Len(order)][i], peer, routes')]
<1> DEFINE all[i \in 0 .. Len(order)] ==
               IF i = 0 THEN <<>> ELSE all[i - 1] \o pending_routes[n][order[i]]
           w == [i \in 1 .. Len(order) |-> pending_routes[n][order[i]]]
<1>1. Flushed(n, peer, order) =
          [i \in DOMAIN all[Len(order)] |-> TransitOn(n, all[Len(order)][i], peer, routes')]
    BY DEF Flushed
<1>2. Len(order) \in Nat /\ w \in [1 .. Len(order) -> Seq(Packet)]
  <2>1. \A i \in 1 .. Len(order) : order[i] \in Node
    OBVIOUS
  <2>2. \A i \in 1 .. Len(order) : pending_routes[n][order[i]] \in Seq(Packet)
    BY <2>1 DEF MeshTypeOK
  <2>3. QED
    BY <2>2
<1>3. \A f : [i \in 0 .. Len(order) |->
                 IF i = 0 THEN <<>> ELSE f[i - 1] \o w[i]]
             = [i \in 0 .. Len(order) |->
                 IF i = 0 THEN <<>> ELSE f[i - 1] \o pending_routes[n][order[i]]]
    BY <1>2
<1>4. \E f : f = [i \in 0 .. Len(order) |-> IF i = 0 THEN <<>> ELSE f[i - 1] \o w[i]]
  <2> HIDE DEF w
  <2>1. QED
    BY <1>2, JoinExists
<1>5. all = [i \in 0 .. Len(order) |->
               IF i = 0 THEN <<>> ELSE all[i - 1] \o pending_routes[n][order[i]]]
  <2>1. \E f : f = [i \in 0 .. Len(order) |->
                 IF i = 0 THEN <<>> ELSE f[i - 1] \o pending_routes[n][order[i]]]
    BY <1>3, <1>4
  <2>2. QED
    BY <2>1
<1> HIDE DEF all
<1>6. all \in [0 .. Len(order) -> Seq(Packet)]
  <2>1. all = [i \in 0 .. Len(order) |-> IF i = 0 THEN <<>> ELSE all[i - 1] \o w[i]]
    BY <1>3, <1>5
  <2> HIDE DEF w
  <2>2. QED
    BY <1>2, <2>1, JoinType
<1>7. all[0] = <<>> /\ \A i \in 1 .. Len(order) : all[i] = all[i - 1] \o pending_routes[n][order[i]]
  <2>1. 0 \in 0 .. Len(order) /\ \A i \in 1 .. Len(order) : i \in 0 .. Len(order) /\ i # 0
    BY <1>2
  <2>2. QED
    BY <1>5, <2>1
<1>8. Collects(all, n, order)
    BY <1>6, <1>7 DEF Collects
<1>9. QED
    BY <1>1, <1>8

LEMMA CollectsStep ==
    ASSUME MeshTypeOK, NEW n \in Node, NEW order \in Seq(Node), NEW all,
           Collects(all, n, order), NEW i \in 1 .. Len(order)
    PROVE  /\ order[i] \in Node
           /\ all[i - 1] \in Seq(Packet)
           /\ pending_routes[n][order[i]] \in Seq(Packet)
           /\ all[i] = all[i - 1] \o pending_routes[n][order[i]]
<1>1. order[i] \in Node /\ i - 1 \in 0 .. Len(order)
    OBVIOUS
<1>2. all[i - 1] \in Seq(Packet)
    BY <1>1 DEF Collects
<1>3. pending_routes[n][order[i]] \in Seq(Packet)
  <2>1. pending_routes \in [Node -> [Node -> Seq(Packet)]]
    BY DEF MeshTypeOK
  <2>2. QED
    BY <1>1, <2>1
<1>4. QED
    BY <1>1, <1>2, <1>3 DEF Collects

\* A payload that waits for one of the first i destinations.
WaitsAmong(pkt, n, order, i) ==
    \E h \in 1 .. i : \E j \in DOMAIN pending_routes[n][order[h]] :
        pkt = pending_routes[n][order[h]][j]

\* Every payload collected waited for one of the destinations.
LEMMA CollectedFrom ==
    ASSUME MeshTypeOK, NEW n \in Node, NEW order \in Seq(Node), NEW all, Collects(all, n, order)
    PROVE  \A i \in 0 .. Len(order) : \A k \in DOMAIN all[i] : WaitsAmong(all[i][k], n, order, i)
<1> DEFINE From(i) == \A k \in DOMAIN all[i] : WaitsAmong(all[i][k], n, order, i)
           T == {i \in 0 .. Len(order) : From(i)}
<1>1. Len(order) \in Nat
    OBVIOUS
<1>2. 0 \in T
    BY DEF Collects
<1>3. ASSUME NEW i \in 1 .. Len(order), i - 1 \in T PROVE i \in T
  <2> SUFFICES ASSUME NEW k \in DOMAIN all[i]
               PROVE  WaitsAmong(all[i][k], n, order, i)
    OBVIOUS
  <2> DEFINE w == pending_routes[n][order[i]]
             a == all[i - 1]
  <2>1. order[i] \in Node /\ a \in Seq(Packet) /\ all[i] = a \o w
    BY CollectsStep, ZenonT(60)
  <2>2. w \in Seq(Packet)
    BY CollectsStep
  <2>3. From(i - 1)
    BY <1>3
  <2> HIDE DEF w
  <2>4. /\ k \in 1 .. Len(a) + Len(w)
        /\ all[i][k] = IF k <= Len(a) THEN a[k] ELSE w[k - Len(a)]
    BY <2>1, <2>2, ConcatProperties
  <2>5. CASE k <= Len(a)
    <3>1. k \in DOMAIN a /\ all[i][k] = a[k]
      BY <2>1, <2>4, <2>5
    <3>2. PICK h \in 1 .. i - 1 : \E j \in DOMAIN pending_routes[n][order[h]] :
              a[k] = pending_routes[n][order[h]][j]
      BY <2>3, <3>1 DEF WaitsAmong
    <3>3. h \in 1 .. i
      BY <3>2
    <3>4. QED
      BY <3>1, <3>2, <3>3 DEF WaitsAmong
  <2>6. CASE ~(k <= Len(a))
    <3>1. k - Len(a) \in DOMAIN w /\ all[i][k] = w[k - Len(a)]
      BY <2>1, <2>2, <2>4, <2>6
    <3>2. i \in 1 .. i
      OBVIOUS
    <3>3. QED
      BY <3>1, <3>2 DEF w, WaitsAmong
  <2>7. QED
    BY <2>5, <2>6
<1>4. \A i \in 0 .. Len(order) : i \in T
  <2> HIDE DEF T
  <2>1. QED
    BY <1>1, <1>2, <1>3, IntervalInduction
<1>5. QED
    BY <1>4

\* What waits at n waits once.
WaitsOnce(n) ==
    \A d, e \in Node : \A i \in DOMAIN pending_routes[n][d], j \in DOMAIN pending_routes[n][e] :
        pending_routes[n][d][i].id = pending_routes[n][e][j].id => d = e /\ i = j

\* Every destination is visited once.
Distinct(order) == \A i, j \in DOMAIN order : order[i] = order[j] => i = j

\* Then it is collected once.
LEMMA CollectedOnce ==
    ASSUME MeshTypeOK, NEW n \in Node, WaitsOnce(n), NEW order \in Seq(Node),
           Distinct(order), NEW all, Collects(all, n, order)
    PROVE  \A i \in 0 .. Len(order) : \A k, l \in DOMAIN all[i] :
               all[i][k].id = all[i][l].id => k = l
<1> DEFINE Once(i) == \A k, l \in DOMAIN all[i] : all[i][k].id = all[i][l].id => k = l
           T == {i \in 0 .. Len(order) : Once(i)}
<1>1. Len(order) \in Nat
    OBVIOUS
<1>2. 0 \in T
    BY DEF Collects
<1>3. ASSUME NEW i \in 1 .. Len(order), i - 1 \in T PROVE i \in T
  <2> DEFINE w == pending_routes[n][order[i]]
             a == all[i - 1]
  <2>1. order[i] \in Node /\ a \in Seq(Packet) /\ all[i] = a \o w
    BY CollectsStep, ZenonT(60)
  <2>2. w \in Seq(Packet)
    BY CollectsStep
  <2>3. Once(i - 1)
    BY <1>3
  <2>4. \A j, l \in DOMAIN w : w[j].id = w[l].id => j = l
    BY <2>1 DEF WaitsOnce
  <2>5. ASSUME NEW k \in DOMAIN a, NEW j \in DOMAIN w PROVE a[k].id # w[j].id
    <3>1. i - 1 \in 0 .. Len(order)
      BY <1>1
    <3>2. PICK h \in 1 .. i - 1 : \E x \in DOMAIN pending_routes[n][order[h]] :
              a[k] = pending_routes[n][order[h]][x]
      <4>1. WaitsAmong(all[i - 1][k], n, order, i - 1)
        BY <3>1, CollectedFrom
      <4>2. QED
        BY <4>1 DEF WaitsAmong
    <3>3. h \in DOMAIN order /\ i \in DOMAIN order /\ h # i
      BY <1>1
    <3>4. order[h] # order[i] /\ order[h] \in Node
      BY <3>3 DEF Distinct
    <3>5. QED
      BY <2>1, <3>2, <3>4 DEF WaitsOnce
  <2> HIDE DEF w
  <2>6. /\ DOMAIN all[i] = 1 .. Len(a) + Len(w)
        /\ \A k \in 1 .. Len(a) + Len(w) :
              all[i][k] = IF k <= Len(a) THEN a[k] ELSE w[k - Len(a)]
    BY <2>1, <2>2, ConcatProperties
  <2>7. Once(i)
    <3> SUFFICES ASSUME NEW k \in DOMAIN all[i], NEW l \in DOMAIN all[i],
                        all[i][k].id = all[i][l].id
                 PROVE  k = l
      OBVIOUS
    <3> HIDE DEF a
    <3>1. /\ DOMAIN a = 1 .. Len(a) /\ Len(a) \in Nat
          /\ DOMAIN w = 1 .. Len(w) /\ Len(w) \in Nat
      BY <2>1, <2>2
    <3>2. CASE k <= Len(a) /\ l <= Len(a)
      <4>1. k \in DOMAIN a /\ l \in DOMAIN a /\ all[i][k] = a[k] /\ all[i][l] = a[l]
        BY <2>6, <3>1, <3>2
      <4>2. QED
        BY <2>3, <4>1 DEF a
    <3>3. CASE k <= Len(a) /\ ~(l <= Len(a))
      <4>1. /\ k \in DOMAIN a /\ l - Len(a) \in DOMAIN w
            /\ all[i][k] = a[k] /\ all[i][l] = w[l - Len(a)]
        BY <2>6, <3>1, <3>3
      <4>2. QED
        BY <2>5, <4>1
    <3>4. CASE ~(k <= Len(a)) /\ l <= Len(a)
      <4>1. /\ l \in DOMAIN a /\ k - Len(a) \in DOMAIN w
            /\ all[i][l] = a[l] /\ all[i][k] = w[k - Len(a)]
        BY <2>6, <3>1, <3>4
      <4>2. QED
        BY <2>5, <4>1
    <3>5. CASE ~(k <= Len(a)) /\ ~(l <= Len(a))
      <4>1. /\ k - Len(a) \in DOMAIN w /\ l - Len(a) \in DOMAIN w
            /\ all[i][k] = w[k - Len(a)] /\ all[i][l] = w[l - Len(a)]
        <5>1. /\ k \in 1 .. Len(a) + Len(w) /\ k - Len(a) \in 1 .. Len(w)
              /\ l \in 1 .. Len(a) + Len(w) /\ l - Len(a) \in 1 .. Len(w)
          BY <2>6, <3>1, <3>5
        <5>2. QED
          BY <2>6, <3>1, <3>5, <5>1
      <4>2. k - Len(a) = l - Len(a)
        BY <2>4, <4>1
      <4>3. QED
        BY <2>6, <3>1, <4>2
    <3>6. QED
      BY <3>2, <3>3, <3>4, <3>5
  <2>8. QED
    BY <2>7
<1>4. \A i \in 0 .. Len(order) : i \in T
  <2> HIDE DEF T
  <2>1. QED
    BY <1>1, <1>2, <1>3, IntervalInduction
<1>5. QED
    BY <1>4

\* No payload is in a queue twice.
Unrepeated(queue) == \A k, l \in DOMAIN queue : queue[k].id = queue[l].id => k = l

LEMMA CollectedQueue ==
    ASSUME MeshTypeOK, NEW n \in Node, NEW order \in Seq(Node), NEW all,
           Collects(all, n, order), NEW queue, queue = all[Len(order)]
    PROVE  /\ queue \in Seq(Packet)
           /\ \A k \in DOMAIN queue : WaitsAmong(queue[k], n, order, Len(order))
           /\ WaitsOnce(n) /\ Distinct(order) => Unrepeated(queue)
<1>1. Len(order) \in 0 .. Len(order)
    OBVIOUS
<1>2. queue \in Seq(Packet)
    BY <1>1 DEF Collects
<1>3. \A k \in DOMAIN queue : WaitsAmong(queue[k], n, order, Len(order))
    BY <1>1, CollectedFrom
<1>4. ASSUME WaitsOnce(n), Distinct(order)
      PROVE  Unrepeated(queue)
    BY <1>1, <1>4, CollectedOnce DEF Unrepeated
<1>5. QED
    BY <1>2, <1>3, <1>4

(***************************************************************************)
(* What becomes of the queues.                                             *)
(***************************************************************************)
LEMMA QueueTypes ==
    ASSUME MeshTypeOK, NEW n \in Node, NEW d \in Node
    PROVE  /\ pending_routes[n][d] \in Seq(Packet) /\ Len(pending_routes[n][d]) <= PendingPerDestMax
           /\ pending_tx[n][d] \in Seq(Transit) /\ Len(pending_tx[n][d]) <= PendingTxMax
           /\ tx_counter[n][d] \in Nat
           /\ nonces[n][d] \in Seq(Nonce)
    BY DEF MeshTypeOK

LEMMA Limits == PendingTxMax \in Nat /\ PendingPerDestMax \in Nat \ {0} /\ FramesPerTxCell \in Nat
    BY PacketAssumption

\* A packet under way over hop fits the type of a link queue.
LEMMA TransitType ==
    ASSUME NEW n \in Node, NEW pkt \in Packet, NEW hop, NEW rts,
           rts \in [Node -> [Node -> RouteEntry \cup {NoEntry}]]
    PROVE  TransitOn(n, pkt, hop, rts) \in Transit /\ TransitOn(n, pkt, hop, rts).pkt = pkt
<1>1. pkt.dest \in Node
    BY DEF Packet
<1>2. rts[n][pkt.dest] \in RouteEntry \cup {NoEntry}
    BY <1>1
<1>3. QED
    BY <1>2 DEF TransitOn, Transit

\* A link's queue after more transits: what it held, then the new ones, up to its
\* limit.  (enqueueOnLink, relay.enqueue, flushPendingFor.)
Extended(n, peer, more) ==
    pending_tx' = [pending_tx EXCEPT ![n][peer] = Truncated(@ \o more, PendingTxMax)]

LEMMA ExtendedQueue ==
    ASSUME MeshTypeOK, NEW n \in Node, NEW peer \in Node, NEW more \in Seq(Transit),
           Extended(n, peer, more)
    PROVE  /\ pending_tx' \in [Node -> [Node -> Seq(Transit)]]
           /\ \A m, p \in Node : m # n \/ p # peer => pending_tx'[m][p] = pending_tx[m][p]
           /\ Len(pending_tx'[n][peer]) <= PendingTxMax
           /\ \A i \in DOMAIN pending_tx'[n][peer] :
                 \/ /\ i \in DOMAIN pending_tx[n][peer]
                    /\ pending_tx'[n][peer][i] = pending_tx[n][peer][i]
                 \/ /\ i - Len(pending_tx[n][peer]) \in DOMAIN more
                    /\ pending_tx'[n][peer][i] = more[i - Len(pending_tx[n][peer])]
<1> DEFINE old == pending_tx[n][peer]
           both == old \o more
           new == Truncated(both, PendingTxMax)
<1>1. old \in Seq(Transit)
    BY QueueTypes
<1>2. /\ both \in Seq(Transit) /\ Len(both) = Len(old) + Len(more)
      /\ \A i \in 1 .. Len(old) + Len(more) :
            both[i] = IF i <= Len(old) THEN old[i] ELSE more[i - Len(old)]
    BY <1>1, ConcatProperties
<1>3. /\ new \in Seq(Transit) /\ Len(new) <= PendingTxMax
      /\ \A i \in DOMAIN new : i \in DOMAIN both /\ new[i] = both[i]
  <2> HIDE DEF both
  <2>1. QED
    BY <1>2, Limits, TruncatedProperties
<1>4. /\ pending_tx'[n][peer] = new
      /\ \A m, p \in Node : m # n \/ p # peer => pending_tx'[m][p] = pending_tx[m][p]
      /\ pending_tx' \in [Node -> [Node -> Seq(Transit)]]
  <2> HIDE DEF new
  <2>1. pending_tx \in [Node -> [Node -> Seq(Transit)]]
    BY DEF MeshTypeOK
  <2>2. pending_tx' = [pending_tx EXCEPT ![n][peer] = new]
    BY DEF Extended, new
  <2>3. QED
    BY <1>3, <2>1, <2>2
<1>5. ASSUME NEW i \in DOMAIN new
      PROVE  \/ i \in DOMAIN old /\ new[i] = old[i]
             \/ i - Len(old) \in DOMAIN more /\ new[i] = more[i - Len(old)]
  <2> HIDE DEF both, old, new
  <2>1. i \in 1 .. Len(old) + Len(more) /\ new[i] = both[i]
    BY <1>2, <1>3
  <2>2. Len(old) \in Nat /\ Len(more) \in Nat /\ DOMAIN old = 1 .. Len(old)
        /\ DOMAIN more = 1 .. Len(more)
    BY <1>1
  <2>3. CASE i <= Len(old)
    BY <1>2, <2>1, <2>2, <2>3
  <2>4. CASE ~(i <= Len(old))
    BY <1>2, <2>1, <2>2, <2>4
  <2>5. QED
    BY <2>3, <2>4
<1>6. QED
    BY <1>3, <1>4, <1>5

LEMMA EnqueueExtends ==
    ASSUME TypeOK, MeshTypeOK, NEW n \in Node, NEW hop \in Node, NEW pkt \in Packet,
           EnqueueOnLink(n, hop, pkt)
    PROVE  /\ TransitOn(n, pkt, hop, routes) \in Transit
           /\ Extended(n, hop, <<TransitOn(n, pkt, hop, routes)>>)
<1>1. PICK t \in Transit : t = TransitOn(n, pkt, hop, routes)
    BY TransitType DEF TypeOK
<1>2. Append(pending_tx[n][hop], t) = pending_tx[n][hop] \o <<t>>
    BY QueueTypes, AppendIsConcat
<1>3. QED
    BY <1>1, <1>2 DEF EnqueueOnLink, Extended

\* The flush of what waits for peer.
LEMMA FlushExtends ==
    ASSUME TypeOK', MeshTypeOK, NEW n \in Node, NEW peer \in Node, Flush(n, peer)
    PROVE  \E more \in Seq(Transit) :
              /\ Extended(n, peer, more)
              /\ \A k \in DOMAIN more : \E d \in WaitingFor(n, peer) :
                    \E j \in DOMAIN pending_routes[n][d] :
                        more[k] = TransitOn(n, pending_routes[n][d][j], peer, routes')
              /\ WaitsOnce(n) => \A k, l \in DOMAIN more : more[k].pkt.id = more[l].pkt.id => k = l
<1> DEFINE dests == WaitingFor(n, peer)
<1>1. dests \in SUBSET Node /\ Cardinality(dests) \in Nat
  <2>1. dests \in SUBSET Node
    BY DEF WaitingFor
  <2>2. QED
    BY <2>1, NodeAssumption, FS_Subset, FS_CardinalityType
<1>2. PICK order \in [1 .. Cardinality(dests) -> dests] :
          /\ Distinct(order)
          /\ Extended(n, peer, Flushed(n, peer, order))
    BY DEF Flush, Distinct, Extended
<1> HIDE DEF dests
<1>3. order \in Seq(Node) /\ Len(order) = Cardinality(dests)
      /\ \A h \in 1 .. Len(order) : order[h] \in dests
    BY <1>1
<1>4. PICK all : /\ Collects(all, n, order)
                 /\ Flushed(n, peer, order) =
                       [i \in DOMAIN all[Len(order)] |->
                           TransitOn(n, all[Len(order)][i], peer, routes')]
    BY <1>3, CollectionExists
<1> DEFINE queue == all[Len(order)]
<1>5. PICK more : more = [i \in DOMAIN queue |-> TransitOn(n, queue[i], peer, routes')]
    OBVIOUS
<1>7. /\ queue \in Seq(Packet)
      /\ \A k \in DOMAIN queue : WaitsAmong(queue[k], n, order, Len(order))
      /\ WaitsOnce(n) => Unrepeated(queue)
  <2>1. PICK ord \in Seq(Node) : ord = order
    BY <1>3
  <2>2. Collects(all, n, ord) /\ Distinct(ord)
    BY <1>2, <1>4, <2>1
  <2>3. queue = all[Len(ord)]
    BY <2>1
  <2> HIDE DEF queue
  <2>4. queue \in Seq(Packet)
    BY <2>2, <2>3, CollectedQueue
  <2>5. \A k \in DOMAIN queue : WaitsAmong(queue[k], n, ord, Len(ord))
    BY <2>2, <2>3, CollectedQueue
  <2>6. WaitsOnce(n) => Unrepeated(queue)
    BY <2>2, <2>3, CollectedQueue
  <2>7. QED
    BY <2>1, <2>4, <2>5, <2>6
<1> HIDE DEF queue
<1>9. \A i \in DOMAIN queue : /\ TransitOn(n, queue[i], peer, routes') \in Transit
                              /\ TransitOn(n, queue[i], peer, routes').pkt = queue[i]
  <2>1. routes' \in [Node -> [Node -> RouteEntry \cup {NoEntry}]]
    BY DEF TypeOK
  <2>2. QED
    BY <1>7, <2>1, TransitType
<1>10. more \in Seq(Transit) /\ DOMAIN more = DOMAIN queue
    BY <1>5, <1>7, <1>9
<1>11. \A i \in DOMAIN more : /\ more[i] = TransitOn(n, queue[i], peer, routes')
                              /\ more[i].pkt = queue[i]
    BY <1>5, <1>9
<1>12. \A k \in DOMAIN more : \E d \in WaitingFor(n, peer) :
            \E j \in DOMAIN pending_routes[n][d] :
                more[k] = TransitOn(n, pending_routes[n][d][j], peer, routes')
    BY <1>3, <1>7, <1>10, <1>11 DEF dests, WaitsAmong
<1>13. WaitsOnce(n) => \A k, l \in DOMAIN more : more[k].pkt.id = more[l].pkt.id => k = l
    BY <1>7, <1>10, <1>11 DEF Unrepeated
<1>14. Extended(n, peer, more)
    BY <1>2, <1>4, <1>5 DEF queue
<1>15. QED
    BY <1>10, <1>12, <1>13, <1>14

\* What a flush leaves waiting.
LEMMA FlushClears ==
    ASSUME MeshTypeOK, NEW n \in Node, NEW peer \in Node, Flush(n, peer)
    PROVE  /\ pending_routes' \in [Node -> [Node -> Seq(Packet)]]
           /\ \A m, d \in Node : m # n => pending_routes'[m][d] = pending_routes[m][d]
           /\ \A d \in WaitingFor(n, peer) : pending_routes'[n][d] = <<>>
           /\ \A d \in Node \ WaitingFor(n, peer) : pending_routes'[n][d] = pending_routes[n][d]
<1>1. pending_routes' = [pending_routes EXCEPT ![n] =
          [d \in Node |-> IF d \in WaitingFor(n, peer) THEN <<>> ELSE pending_routes[n][d]]]
    BY DEF Flush, Cleared, MeshTypeOK
<1>2. pending_routes \in [Node -> [Node -> Seq(Packet)]] /\ WaitingFor(n, peer) \in SUBSET Node
    BY DEF MeshTypeOK, WaitingFor
<1>3. <<>> \in Seq(Packet)
    BY EmptySeq
<1> DEFINE row == [d \in Node |-> IF d \in WaitingFor(n, peer) THEN <<>> ELSE pending_routes[n][d]]
<1>4. /\ row \in [Node -> Seq(Packet)]
      /\ \A d \in WaitingFor(n, peer) : row[d] = <<>>
      /\ \A d \in Node \ WaitingFor(n, peer) : row[d] = pending_routes[n][d]
    BY <1>2, <1>3
<1>5. pending_routes' = [pending_routes EXCEPT ![n] = row]
    BY <1>1
<1> HIDE DEF row
<1>6. QED
    BY <1>2, <1>4, <1>5

(***************************************************************************)
(* A step of the mesh is a step of its control plane.                      *)
(***************************************************************************)
LEMMA SubmitControl ==
    ASSUME NEW n \in Node, NEW pkt \in Packet, Submit(n, pkt)
    PROVE  ControlStep \/ UNCHANGED vars
<1>1. pkt.dest \in Node
    BY DEF Packet
<1>2. CASE SendOnLink(n, pkt)
    BY <1>2 DEF SendOnLink
<1>3. CASE SendWaiting(n, pkt)
    BY <1>1, <1>3 DEF SendWaiting, ControlStep
<1>4. QED
    BY <1>2, <1>3 DEF Submit

\* What a host hands in, and what echo answers, are packets.
LEMMA SentPacketType ==
    ASSUME NEW n \in Node, NEW d \in Node, NEW i \in PacketId
    PROVE  /\ [id |-> i, form |-> FirstForm[i], source |-> n, dest |-> d] \in Packet
           /\ [id |-> i, form |-> "response", source |-> n, dest |-> d] \in Packet
<1>1. FirstForm[i] \in Form
    BY PacketAssumption
<1>2. "response" \in Form
    BY DEF Form
<1>3. QED
    BY <1>1, <1>2 DEF Packet

LEMMA DataFrameFields ==
    ASSUME MeshTypeOK, NEW f \in data_air
    PROVE  /\ f \in DataFrame /\ f.from \in Node /\ f.to \in Node /\ f.counter \in Nat
           /\ f.transit \in Transit /\ f.transit.pkt \in Packet
           /\ f.transit.pkt.id \in PacketId
           /\ f.transit.pkt.source \in Node /\ f.transit.pkt.dest \in Node
    BY DEF MeshTypeOK, DataFrame, Transit, Packet

LEMMA AnswerType ==
    ASSUME MeshTypeOK, NEW f \in data_air
    PROVE  [id |-> f.transit.pkt.id, form |-> "response", source |-> f.to,
            dest |-> f.transit.pkt.source] \in Packet
    BY DataFrameFields, SentPacketType

LEMMA ReceiveDataControl ==
    ASSUME MeshTypeOK, NEW f \in data_air, ReceiveData(f.to, f)
    PROVE  ControlStep \/ UNCHANGED vars
<1>1. f.to \in Node /\ f.transit.pkt.dest \in Node
    BY DataFrameFields
<1>2. CASE AnswerEcho(f.to, f)
  <2>1. PICK pkt \in Packet : Submit(f.to, pkt)
    BY <1>2, AnswerType DEF AnswerEcho
  <2>2. QED
    BY <1>1, <2>1, SubmitControl
<1>3. CASE ForwardFails(f.to, f)
  <2>1. ForwardToward(f.to, f.transit.pkt.dest) \/ UNCHANGED vars
    BY <1>3 DEF ForwardFails
  <2>2. QED
    BY <1>1, <2>1 DEF ControlStep, Next, Stimulus
<1>4. CASE DataUnopened(f.to, f) \/ DeliverLocal(f.to, f) \/ ForwardOnLink(f.to, f)
    BY <1>4 DEF DataUnopened, DeliverLocal, ForwardOnLink
<1>5. QED
    BY <1>2, <1>3, <1>4 DEF ReceiveData

LEMMA MeshStepIsControlStep ==
    ASSUME MeshTypeOK, [MeshNext]_meshVars
    PROVE  [ControlStep]_vars
<1>1. CASE UNCHANGED meshVars
    BY <1>1 DEF meshVars, vars
<1>2. ASSUME NEW n \in Node, Timer(n) PROVE ControlStep
    BY <1>2 DEF Timer, ControlStep, Next, Stimulus
<1>3. ASSUME NEW n \in Node, NEW d \in Destinations[n], NEW i \in PacketId, HostSend(n, d, i)
      PROVE  [ControlStep]_vars
  <2>1. d \in Node
    BY NodeAssumption
  <2>2. PICK pkt \in Packet : Submit(n, pkt)
    BY <1>3, <2>1, SentPacketType DEF HostSend
  <2>3. QED
    BY <2>2, SubmitControl
<1>4. ASSUME NEW n \in Node, Transmit(n) PROVE ControlStep
    BY <1>4 DEF ControlStep, Next
<1>5. ASSUME NEW rx \in air, MeshReceive(rx.to, rx.frame) PROVE ControlStep
  <2>1. Receive(rx.to, rx.frame)
    BY <1>5 DEF MeshReceive, ControlOnly, MeshLinkUp, MeshRrepAtOrigin, Receive
  <2>2. QED
    BY <2>1 DEF ControlStep, Next
<1>6. ASSUME NEW n \in Node, NEW p \in Node, TxOnCell(n, p) PROVE UNCHANGED vars
    BY <1>6 DEF TxOnCell
<1>7. ASSUME NEW f \in data_air, ReceiveData(f.to, f) PROVE [ControlStep]_vars
    BY <1>7, ReceiveDataControl
<1>8. QED
    BY <1>1, <1>2, <1>3, <1>4, <1>5, <1>6, <1>7 DEF MeshNext

\* No handler takes a link down.
LinksKept == \A n \in Node : links[n] \subseteq links'[n]

LEMMA StepKeepsLinks ==
    ASSUME TypeOK, [ControlStep]_vars
    PROVE  LinksKept
<1>1. ASSUME NEW rx \in air, Receive(rx.to, rx.frame)
      PROVE  UNCHANGED links \/ \E n, p \in Node : links' = [links EXCEPT ![n] = @ \cup {p}]
  <2>1. rx.to \in Node /\ rx.frame \in Frame
    BY DEF TypeOK
  <2>2. rx.frame.from \in Node
    BY <2>1, FrameFields
  <2>3. QED
    BY <1>1, <2>1, <2>2
    DEF Receive, HandleAnnounce, OverhearLink, HandleLinkRequest, HandleLinkResponse, LinkUp,
        RreqReturns, RreqDuplicate, RreqAtDestination, RreqForward, RreqExpires, RrepStray,
        RrepOverheard, RrepAtOrigin, RrepForward, RrepAddressed, LearnRoute, LearnReversePath,
        AcceptRoute, tableVars
<1>2. ASSUME NEW n \in Node, NEW d \in Node,
             QueueEb(n) \/ Transmit(n) \/ LinkRetryElapsed(n, d) \/ RreqRetryElapsed(n, d)
             \/ RouteSend(n, d) \/ ForwardToward(n, d)
      PROVE  UNCHANGED links
    BY <1>2 DEF QueueEb, Transmit, LinkRetryElapsed, RreqRetryElapsed, RouteSend, ForwardToward,
                tableVars
<1>3. ASSUME UNCHANGED vars PROVE UNCHANGED links
    BY <1>3 DEF vars
<1>4. UNCHANGED links \/ \E n, p \in Node : links' = [links EXCEPT ![n] = @ \cup {p}]
    BY <1>1, <1>2, <1>3, NodeAssumption DEF ControlStep, Next, Stimulus
<1>5. links \in [Node -> SUBSET Node]
    BY DEF TypeOK
<1>6. QED
    BY <1>4, <1>5 DEF LinksKept

\* Routes improve, sequence numbers and the history of discoveries grow.
LEMMA StepGrows ==
    ASSUME TypeOK, TypeOK', [ControlStep]_vars
    PROVE  Grow
<1>1. ASSUME NEW m \in Node, NEW e \in Node, routes[m][e] # NoEntry
      PROVE  /\ routes'[m][e] # NoEntry
             /\ \/ routes'[m][e].seq > routes[m][e].seq
                \/ /\ routes'[m][e].seq = routes[m][e].seq
                   /\ routes'[m][e].cost <= routes[m][e].cost
  <2>1. CASE routes'[m][e] = routes[m][e]
    BY <1>1, <2>1, RouteFields
  <2>2. CASE routes'[m][e] # routes[m][e]
    <3>1. PICK n \in Node, d \in Node, hop \in Node, c \in 0 .. MaxCost, s \in Nat :
              UpsertRoute(n, d, hop, c, s)
      BY <2>2, StepUpserts
    <3> DEFINE new == [next_hop |-> hop, cost |-> c, seq |-> s]
    <3>2. m = n /\ e = d /\ routes'[n][d] = new /\ Improves(s, c, routes[n][d])
      BY <2>2, <3>1 DEF UpsertRoute, TypeOK
    <3>3. new \in RouteEntry /\ new # NoEntry
      BY NoEntryAssumption DEF RouteEntry
    <3>4. QED
      BY <1>1, <3>2, <3>3, RouteFields DEF Improves
  <2>3. QED
    BY <2>1, <2>2
<1>2. ASSUME UNCHANGED <<seq, discovery>>
      PROVE  /\ \A d \in Node : seq[d] <= seq'[d]
             /\ \A id \in Id : discovery[id] # NoEntry => discovery'[id] = discovery[id]
    BY <1>2 DEF TypeOK
<1>3. ASSUME NEW n \in Node, NEW d \in Node, RouteSend(n, d)
      PROVE  /\ \A e \in Node : seq[e] <= seq'[e]
             /\ \A id \in Id : discovery[id] # NoEntry => discovery'[id] = discovery[id]
  <2>1. CASE InitiateThrottled(n, d)
    BY <1>2, <2>1 DEF InitiateThrottled, routeVars
  <2>2. CASE InitiateDiscovery(n, d)
    <3>1. \A e \in Node : seq[e] <= seq'[e]
      BY <2>2 DEF InitiateDiscovery, TypeOK
    <3>2. \A id \in Id : discovery[id] # NoEntry => discovery'[id] = discovery[id]
      BY <2>2 DEF InitiateDiscovery, TypeOK
    <3>3. QED
      BY <3>1, <3>2
  <2>3. QED
    BY <1>3, <2>1, <2>2 DEF RouteSend
<1>4. ASSUME NEW rx \in air, Receive(rx.to, rx.frame)
      PROVE  UNCHANGED <<seq, discovery>>
    BY <1>4
    DEF Receive, HandleAnnounce, OverhearLink, HandleLinkRequest, HandleLinkResponse, LinkUp,
        RreqReturns, RreqDuplicate, RreqAtDestination, RreqForward, RreqExpires, RrepStray,
        RrepOverheard, RrepAtOrigin, RrepForward, RrepAddressed, LearnRoute, LearnReversePath,
        AcceptRoute, routeVars
<1>5. ASSUME NEW n \in Node, NEW d \in Node,
             QueueEb(n) \/ Transmit(n) \/ LinkRetryElapsed(n, d) \/ RreqRetryElapsed(n, d)
             \/ ForwardToward(n, d)
      PROVE  UNCHANGED <<seq, discovery>>
    BY <1>5 DEF QueueEb, Transmit, LinkRetryElapsed, RreqRetryElapsed, ForwardToward, routeVars
<1>6. ASSUME UNCHANGED vars PROVE UNCHANGED <<seq, discovery>>
    BY <1>6 DEF vars
<1>7. /\ \A d \in Node : seq[d] <= seq'[d]
      /\ \A id \in Id : discovery[id] # NoEntry => discovery'[id] = discovery[id]
    BY <1>2, <1>3, <1>4, <1>5, <1>6, NodeAssumption DEF ControlStep, Next, Stimulus
<1>8. QED
    BY <1>1, <1>7 DEF Grow

(***************************************************************************)
(* Types.                                                                  *)
(***************************************************************************)
QueuesOK ==
    /\ pending_routes \in [Node -> [Node -> Seq(Packet)]]
    /\ pending_tx \in [Node -> [Node -> Seq(Transit)]]
    /\ \A n, p \in Node :
          /\ Len(pending_routes[n][p]) <= PendingPerDestMax
          /\ Len(pending_tx[n][p]) <= PendingTxMax
          /\ p \notin links[n] => pending_tx[n][p] = <<>>

CountersOK ==
    /\ tx_counter \in [Node -> [Node -> Nat]]
    /\ \A n, p \in Node : p \notin links[n] => tx_counter[n][p] = 0

LEMMA TypeParts ==
    MeshTypeOK <=> /\ QueuesOK /\ CountersOK
                   /\ data_air \in SUBSET DataFrame
                   /\ delivered \in [Node -> SUBSET Packet]
                   /\ sent \in SUBSET PacketId
                   /\ nonces \in [Node -> [Node -> Seq(Nonce)]]
    BY DEF MeshTypeOK, QueuesOK, CountersOK

LEMMA QueuesKept ==
    ASSUME MeshTypeOK, LinksKept, UNCHANGED <<pending_routes, pending_tx>>
    PROVE  QueuesOK'
    BY TypeParts DEF QueuesOK, LinksKept

LEMMA CountersKept ==
    ASSUME MeshTypeOK, LinksKept, UNCHANGED tx_counter
    PROVE  CountersOK'
    BY TypeParts DEF CountersOK, LinksKept

LEMMA ExtendedQueuesOK ==
    ASSUME MeshTypeOK, LinksKept, NEW n \in Node, NEW peer \in Node, peer \in links'[n],
           NEW more \in Seq(Transit), Extended(n, peer, more),
           pending_routes' \in [Node -> [Node -> Seq(Packet)]],
           \A m, d \in Node : Len(pending_routes'[m][d]) <= PendingPerDestMax
    PROVE  QueuesOK'
<1>1. /\ pending_tx' \in [Node -> [Node -> Seq(Transit)]]
      /\ \A m, p \in Node : m # n \/ p # peer => pending_tx'[m][p] = pending_tx[m][p]
      /\ Len(pending_tx'[n][peer]) <= PendingTxMax
    BY ExtendedQueue
<1>2. ASSUME NEW m \in Node, NEW p \in Node
      PROVE  /\ Len(pending_tx'[m][p]) <= PendingTxMax
             /\ p \notin links'[m] => pending_tx'[m][p] = <<>>
  <2>1. CASE m = n /\ p = peer
    BY <1>1, <2>1
  <2>2. CASE m # n \/ p # peer
    <3>1. pending_tx'[m][p] = pending_tx[m][p]
      BY <1>1, <2>2
    <3>2. Len(pending_tx[m][p]) <= PendingTxMax /\ (p \notin links[m] => pending_tx[m][p] = <<>>)
      BY DEF MeshTypeOK
    <3>3. QED
      BY <3>1, <3>2 DEF LinksKept
  <2>3. QED
    BY <2>1, <2>2
<1>3. QED
    BY <1>1, <1>2 DEF QueuesOK

LEMMA UsableHop ==
    ASSUME TypeOK, NEW n \in Node, NEW d \in Node, HasUsableLink(n, d)
    PROVE  HopToward(n, d) \in links[n] /\ HopToward(n, d) \in Node
    BY DEF TypeOK, HasUsableLink, HopToward

LEMMA EnqueueQueuesOK ==
    ASSUME TypeOK, MeshTypeOK, LinksKept, NEW n \in Node, NEW pkt \in Packet,
           HasUsableLink(n, pkt.dest), EnqueueOnLink(n, HopToward(n, pkt.dest), pkt),
           UNCHANGED pending_routes
    PROVE  QueuesOK'
<1> DEFINE hop == HopToward(n, pkt.dest)
<1>1. hop \in links[n] /\ hop \in Node
    BY UsableHop DEF Packet
<1>2. hop \in links'[n]
    BY <1>1 DEF LinksKept
<1> HIDE DEF hop
<1>3. PICK t \in Transit : t = TransitOn(n, pkt, hop, routes) /\ Extended(n, hop, <<t>>)
    BY <1>1, EnqueueExtends DEF hop
<1>4. <<t>> \in Seq(Transit)
    OBVIOUS
<1>5. /\ pending_routes' \in [Node -> [Node -> Seq(Packet)]]
      /\ \A m, d \in Node : Len(pending_routes'[m][d]) <= PendingPerDestMax
    BY DEF MeshTypeOK
<1>6. QED
    BY <1>1, <1>2, <1>3, <1>4, <1>5, ExtendedQueuesOK

\* The queue for a destination without a usable link, after a new payload.
LEMMA WaitingProperties ==
    ASSUME MeshTypeOK, NEW n \in Node, NEW pkt \in Packet,
           pending_routes' = [pending_routes EXCEPT ![n][pkt.dest] = WithRoomFor(@, pkt)]
    PROVE  /\ pkt.dest \in Node
           /\ pending_routes' \in [Node -> [Node -> Seq(Packet)]]
           /\ \A m, d \in Node : m # n \/ d # pkt.dest => pending_routes'[m][d] = pending_routes[m][d]
           /\ pending_routes'[n][pkt.dest] = WithRoomFor(pending_routes[n][pkt.dest], pkt)
           /\ \A m, d \in Node : Len(pending_routes'[m][d]) <= PendingPerDestMax
<1> DEFINE d == pkt.dest
           new == WithRoomFor(pending_routes[n][d], pkt)
<1>1. d \in Node
    BY DEF Packet
<1>2. new \in Seq(Packet) /\ Len(new) <= PendingPerDestMax
    BY <1>1, QueueTypes, WithRoomForProperties
<1>3. pending_routes \in [Node -> [Node -> Seq(Packet)]]
      /\ \A m, e \in Node : Len(pending_routes[m][e]) <= PendingPerDestMax
    BY DEF MeshTypeOK
<1>4. pending_routes' = [pending_routes EXCEPT ![n][d] = new]
    OBVIOUS
<1>5. pending_routes'[n][d] = new
    BY <1>1, <1>3
<1> HIDE DEF new, d
<1>6. /\ pending_routes' \in [Node -> [Node -> Seq(Packet)]]
      /\ \A m, e \in Node : m # n \/ e # d => pending_routes'[m][e] = pending_routes[m][e]
  <2>1. [pending_routes[n] EXCEPT ![d] = new] \in [Node -> Seq(Packet)]
    BY <1>2, <1>3
  <2>2. pending_routes' = [pending_routes EXCEPT ![n] = [pending_routes[n] EXCEPT ![d] = new]]
    BY <1>4
  <2>3. pending_routes' \in [Node -> [Node -> Seq(Packet)]]
    BY <1>3, <2>1, <2>2
  <2>4. \A m, e \in Node : m # n \/ e # d => pending_routes'[m][e] = pending_routes[m][e]
    BY <1>1, <1>3, <1>4
  <2>5. QED
    BY <2>3, <2>4
<1>7. ASSUME NEW m \in Node, NEW e \in Node
      PROVE  Len(pending_routes'[m][e]) <= PendingPerDestMax
    BY <1>2, <1>3, <1>5, <1>6
<1>8. QED
    BY <1>1, <1>5, <1>6, <1>7 DEF new, d

LEMMA SubmitQueuesOK ==
    ASSUME TypeOK, MeshTypeOK, LinksKept, NEW n \in Node, NEW pkt \in Packet, Submit(n, pkt)
    PROVE  QueuesOK'
<1>1. CASE SendOnLink(n, pkt)
    BY <1>1, EnqueueQueuesOK DEF SendOnLink
<1>2. CASE SendWaiting(n, pkt)
  <2>1. /\ UNCHANGED pending_tx
        /\ pending_routes' = [pending_routes EXCEPT ![n][pkt.dest] = WithRoomFor(@, pkt)]
    BY <1>2 DEF SendWaiting
  <2>2. /\ pending_routes' \in [Node -> [Node -> Seq(Packet)]]
        /\ \A m, d \in Node : Len(pending_routes'[m][d]) <= PendingPerDestMax
    BY <2>1, WaitingProperties
  <2>3. QED
    BY <2>1, <2>2 DEF MeshTypeOK, QueuesOK, LinksKept
<1>3. QED
    BY <1>1, <1>2 DEF Submit

LEMMA FlushQueuesOK ==
    ASSUME TypeOK', MeshTypeOK, LinksKept, NEW n \in Node, NEW peer \in Node,
           FlushPendingFor(n, peer)
    PROVE  QueuesOK'
<1>1. CASE peer \in links'[n]
  <2>1. Flush(n, peer)
    BY <1>1 DEF FlushPendingFor
  <2>2. PICK more \in Seq(Transit) : Extended(n, peer, more)
    BY <2>1, FlushExtends
  <2>3. /\ pending_routes' \in [Node -> [Node -> Seq(Packet)]]
        /\ \A m, d \in Node : m # n => pending_routes'[m][d] = pending_routes[m][d]
        /\ \A d \in WaitingFor(n, peer) : pending_routes'[n][d] = <<>>
        /\ \A d \in Node \ WaitingFor(n, peer) : pending_routes'[n][d] = pending_routes[n][d]
    BY <2>1, FlushClears
  <2>4. ASSUME NEW m \in Node, NEW d \in Node
        PROVE  Len(pending_routes'[m][d]) <= PendingPerDestMax
    <3>1. pending_routes'[m][d] = pending_routes[m][d] \/ pending_routes'[m][d] = <<>>
      BY <2>3
    <3>2. QED
      BY <3>1, Limits, QueueTypes, EmptySeq
  <2>5. QED
    BY <1>1, <2>2, <2>3, <2>4, ExtendedQueuesOK
<1>2. CASE peer \notin links'[n]
    BY <1>2, QueuesKept DEF FlushPendingFor
<1>3. QED
    BY <1>1, <1>2

\* The frame n seals of the i-th packet of its queue for p.
Sealed(n, p, i) ==
    [from |-> n, to |-> p, counter |-> tx_counter[n][p] + i - 1,
     transit |-> pending_tx[n][p][i]]

\* What happens to a link when its peer's cell takes k packets.
Takes(n, p, k) ==
    /\ p \in links[n]
    /\ UNCHANGED <<vars, pending_routes, delivered, sent>>
    /\ pending_tx' = [pending_tx EXCEPT ![n][p] = SubSeq(@, k + 1, Len(@))]
    /\ tx_counter' = [tx_counter EXCEPT ![n][p] = @ + k]
    /\ nonces' = [nonces EXCEPT ![n][p] =
                     @ \o [i \in 1 .. k |-> LinkNonce(n, p, tx_counter[n][p] + i - 1)]]
    /\ \A f \in data_air' : f \in data_air \/ \E i \in 1 .. k : f = Sealed(n, p, i)

LEMMA TxTakes ==
    ASSUME MeshTypeOK, NEW n \in Node, NEW p \in Node, TxOnCell(n, p)
    PROVE  \E k \in 0 .. Len(pending_tx[n][p]) : Takes(n, p, k)
<1> DEFINE k == Batch(n, p)
           frames == {Sealed(n, p, i) : i \in 1 .. k}
<1>1. k \in 0 .. Len(pending_tx[n][p])
    BY BatchType
<1>2. /\ p \in links[n]
      /\ UNCHANGED <<vars, pending_routes, delivered, sent>>
      /\ pending_tx' = [pending_tx EXCEPT ![n][p] = SubSeq(@, k + 1, Len(@))]
      /\ tx_counter' = [tx_counter EXCEPT ![n][p] = @ + k]
      /\ nonces' = [nonces EXCEPT ![n][p] =
                     @ \o [i \in 1 .. k |-> LinkNonce(n, p, tx_counter[n][p] + i - 1)]]
      /\ \E heard \in IF DataLossy THEN SUBSET frames ELSE {frames} :
              data_air' = data_air \cup heard
    BY DEF TxOnCell, Sealed
<1>3. \A f \in data_air' : f \in data_air \/ f \in frames
    BY <1>2
<1> HIDE DEF k
<1>4. QED
    BY <1>1, <1>2, <1>3 DEF Takes

\* A link's queue, counter and nonces after a cell.
LEMMA TakesProperties ==
    ASSUME MeshTypeOK, NEW n \in Node, NEW p \in Node,
           NEW k \in 0 .. Len(pending_tx[n][p]), Takes(n, p, k)
    PROVE  /\ pending_tx' \in [Node -> [Node -> Seq(Transit)]]
           /\ \A m, q \in Node : m # n \/ q # p =>
                 /\ pending_tx'[m][q] = pending_tx[m][q]
                 /\ tx_counter'[m][q] = tx_counter[m][q]
                 /\ nonces'[m][q] = nonces[m][q]
           /\ Len(pending_tx'[n][p]) <= PendingTxMax
           /\ \A i \in DOMAIN pending_tx'[n][p] : /\ i + k \in DOMAIN pending_tx[n][p]
                                                  /\ pending_tx'[n][p][i] = pending_tx[n][p][i + k]
           /\ tx_counter' \in [Node -> [Node -> Nat]]
           /\ tx_counter'[n][p] = tx_counter[n][p] + k
           /\ nonces' \in [Node -> [Node -> Seq(Nonce)]]
           /\ \A i \in DOMAIN nonces'[n][p] :
                 \/ i \in DOMAIN nonces[n][p] /\ nonces'[n][p][i] = nonces[n][p][i]
                 \/ \E j \in 1 .. k :
                       /\ i = Len(nonces[n][p]) + j
                       /\ nonces'[n][p][i] = LinkNonce(n, p, tx_counter[n][p] + j - 1)
<1> DEFINE old == pending_tx[n][p]
           new == SubSeq(old, k + 1, Len(old))
           fresh == [i \in 1 .. k |-> LinkNonce(n, p, tx_counter[n][p] + i - 1)]
           used == nonces[n][p] \o fresh
<1>1. /\ old \in Seq(Transit) /\ Len(old) <= PendingTxMax
      /\ tx_counter[n][p] \in Nat /\ nonces[n][p] \in Seq(Nonce) /\ k \in Nat
    BY QueueTypes
<1>2. /\ new \in Seq(Transit) /\ Len(new) <= PendingTxMax
      /\ \A i \in DOMAIN new : i + k \in DOMAIN old /\ new[i] = old[i + k]
  <2> HIDE DEF old
  <2>1. k \in 0 .. Len(old)
    BY DEF old
  <2>2. QED
    BY <1>1, <2>1, Limits, RestProperties
<1>3. /\ fresh \in Seq(Nonce) /\ Len(fresh) = k
      /\ \A j \in 1 .. k : fresh[j] = LinkNonce(n, p, tx_counter[n][p] + j - 1)
  <2>1. \A j \in 1 .. k : LinkNonce(n, p, tx_counter[n][p] + j - 1) \in Nonce
    BY <1>1, AddressAssumption DEF LinkNonce, Nonce
  <2> DEFINE nonce(j) == LinkNonce(n, p, tx_counter[n][p] + j - 1)
  <2> HIDE DEF nonce
  <2>2. \A j \in 1 .. k : nonce(j) \in Nonce
    BY <2>1 DEF nonce
  <2>3. [j \in 1 .. k |-> nonce(j)] \in Seq(Nonce) /\ Len([j \in 1 .. k |-> nonce(j)]) = k
    BY <1>1, <2>2
  <2>4. QED
    BY <2>3 DEF nonce
<1> HIDE DEF fresh
<1>4. /\ used \in Seq(Nonce)
      /\ \A i \in DOMAIN used :
            \/ i \in DOMAIN nonces[n][p] /\ used[i] = nonces[n][p][i]
            \/ \E j \in 1 .. k : i = Len(nonces[n][p]) + j /\ used[i] = fresh[j]
  <2> DEFINE a == nonces[n][p]
  <2>1. a \in Seq(Nonce)
    BY <1>1
  <2> HIDE DEF a
  <2>2. /\ a \o fresh \in Seq(Nonce) /\ Len(a \o fresh) = Len(a) + k
        /\ \A i \in 1 .. Len(a) + k :
              (a \o fresh)[i] = IF i <= Len(a) THEN a[i] ELSE fresh[i - Len(a)]
    BY <1>3, <2>1, ConcatProperties
  <2>3. ASSUME NEW i \in DOMAIN (a \o fresh)
        PROVE  \/ i \in DOMAIN a /\ (a \o fresh)[i] = a[i]
               \/ \E j \in 1 .. k : i = Len(a) + j /\ (a \o fresh)[i] = fresh[j]
    <3>1. i \in 1 .. Len(a) + k /\ Len(a) \in Nat /\ DOMAIN a = 1 .. Len(a)
      BY <2>1, <2>2
    <3>2. CASE i <= Len(a)
      BY <2>2, <3>1, <3>2
    <3>3. CASE ~(i <= Len(a))
      <4>1. i - Len(a) \in 1 .. k /\ i = Len(a) + (i - Len(a))
        BY <1>1, <3>1, <3>3
      <4>2. (a \o fresh)[i] = fresh[i - Len(a)]
        BY <2>2, <3>1, <3>3
      <4>3. QED
        BY <4>1, <4>2
    <3>4. QED
      BY <3>2, <3>3
  <2>4. QED
    BY <2>2, <2>3 DEF a
<1> HIDE DEF new, used
<1>5. /\ pending_tx' = [pending_tx EXCEPT ![n][p] = new]
      /\ nonces' = [nonces EXCEPT ![n][p] = used]
      /\ tx_counter' = [tx_counter EXCEPT ![n][p] = tx_counter[n][p] + k]
    BY DEF Takes, new, used, fresh
<1>6. /\ pending_tx' \in [Node -> [Node -> Seq(Transit)]]
      /\ pending_tx'[n][p] = new
      /\ \A m, q \in Node : m # n \/ q # p => pending_tx'[m][q] = pending_tx[m][q]
  <2>1. pending_tx \in [Node -> [Node -> Seq(Transit)]]
    BY DEF MeshTypeOK
  <2>2. QED
    BY <1>2, <1>5, <2>1
<1>7. /\ nonces' \in [Node -> [Node -> Seq(Nonce)]]
      /\ nonces'[n][p] = used
      /\ \A m, q \in Node : m # n \/ q # p => nonces'[m][q] = nonces[m][q]
  <2>1. nonces \in [Node -> [Node -> Seq(Nonce)]]
    BY DEF MeshTypeOK
  <2>2. QED
    BY <1>4, <1>5, <2>1
<1>8. /\ tx_counter' \in [Node -> [Node -> Nat]]
      /\ tx_counter'[n][p] = tx_counter[n][p] + k
      /\ \A m, q \in Node : m # n \/ q # p => tx_counter'[m][q] = tx_counter[m][q]
  <2>1. tx_counter \in [Node -> [Node -> Nat]]
    BY DEF MeshTypeOK
  <2>2. tx_counter[n][p] + k \in Nat
    BY <1>1
  <2>3. QED
    BY <1>5, <2>1, <2>2
<1>9. \A i \in DOMAIN used :
          \/ i \in DOMAIN nonces[n][p] /\ used[i] = nonces[n][p][i]
          \/ \E j \in 1 .. k : /\ i = Len(nonces[n][p]) + j
                               /\ used[i] = LinkNonce(n, p, tx_counter[n][p] + j - 1)
    BY <1>3, <1>4
<1>10. QED
    BY <1>2, <1>6, <1>7, <1>8, <1>9 DEF old

LEMMA TakesMeshType ==
    ASSUME MeshTypeOK, NEW n \in Node, NEW p \in Node,
           NEW k \in 0 .. Len(pending_tx[n][p]), Takes(n, p, k)
    PROVE  MeshTypeOK'
<1>1. links' = links
    BY DEF Takes, vars
<1>2. QueuesOK'
  <2>1. pending_routes' = pending_routes
    BY DEF Takes
  <2>2. ASSUME NEW m \in Node, NEW q \in Node
        PROVE  Len(pending_tx'[m][q]) <= PendingTxMax /\ (q \notin links[m] => pending_tx'[m][q] = <<>>)
    <3>1. CASE m = n /\ q = p
      <4>1. Len(pending_tx'[n][p]) <= PendingTxMax
        BY TakesProperties
      <4>2. p \in links[n]
        BY DEF Takes
      <4>3. QED
        BY <3>1, <4>1, <4>2
    <3>2. CASE m # n \/ q # p
      <4>1. pending_tx'[m][q] = pending_tx[m][q]
        BY <3>2, TakesProperties
      <4>2. QED
        BY <4>1 DEF MeshTypeOK
    <3>3. QED
      BY <3>1, <3>2
  <2>3. pending_tx' \in [Node -> [Node -> Seq(Transit)]]
    BY TakesProperties
  <2>4. QED
    BY <1>1, <2>1, <2>2, <2>3 DEF MeshTypeOK, QueuesOK
<1>3. CountersOK'
  <2>1. ASSUME NEW m \in Node, NEW q \in Node, q \notin links[m]
        PROVE  tx_counter'[m][q] = 0
    <3>1. m # n \/ q # p
      BY <2>1 DEF Takes
    <3>2. tx_counter'[m][q] = tx_counter[m][q]
      BY <3>1, TakesProperties
    <3>3. QED
      BY <2>1, <3>2 DEF MeshTypeOK
  <2>2. tx_counter' \in [Node -> [Node -> Nat]]
    BY TakesProperties
  <2>3. QED
    BY <1>1, <2>1, <2>2 DEF CountersOK
<1>4. data_air' \in SUBSET DataFrame
  <2>1. ASSUME NEW i \in 1 .. k PROVE Sealed(n, p, i) \in DataFrame
    <3>1. tx_counter[n][p] + i - 1 \in Nat
      BY QueueTypes
    <3>2. pending_tx[n][p][i] \in Transit
      <4>1. pending_tx[n][p] \in Seq(Transit)
        BY QueueTypes
      <4>2. i \in 1 .. Len(pending_tx[n][p])
        BY <4>1
      <4>3. QED
        BY <4>1, <4>2
    <3>3. QED
      BY <3>1, <3>2 DEF Sealed, DataFrame
  <2>2. QED
    BY <2>1 DEF Takes, MeshTypeOK
<1>5. nonces' \in [Node -> [Node -> Seq(Nonce)]]
    BY TakesProperties
<1>6. delivered' \in [Node -> SUBSET Packet] /\ sent' \in SUBSET PacketId
    BY DEF Takes, MeshTypeOK
<1>7. QED
  <2>1. (QueuesOK /\ CountersOK /\ data_air \in SUBSET DataFrame /\ delivered \in [Node -> SUBSET Packet]
         /\ sent \in SUBSET PacketId /\ nonces \in [Node -> [Node -> Seq(Nonce)]])' => MeshTypeOK'
    BY DEF MeshTypeOK, QueuesOK, CountersOK
  <2>2. QED
    BY <1>2, <1>3, <1>4, <1>5, <1>6, <2>1

LEMMA ReceiveDataMeshType ==
    ASSUME TypeOK, TypeOK', MeshTypeOK, LinksKept, NEW f \in data_air, ReceiveData(f.to, f)
    PROVE  MeshTypeOK'
<1>1. f.to \in Node /\ f.transit.pkt \in Packet
    BY DataFrameFields
<1>2. HearsData(f.to, f)
    BY DEF ReceiveData, DataUnopened, DeliverLocal, AnswerEcho, ForwardOnLink, ForwardFails, OpensData
<1>3. QueuesOK'
  <2>1. CASE AnswerEcho(f.to, f)
    <3>1. PICK pkt \in Packet : Submit(f.to, pkt)
      BY <2>1, AnswerType DEF AnswerEcho
    <3>2. QED
      BY <1>1, <3>1, SubmitQueuesOK
  <2>2. CASE ForwardOnLink(f.to, f)
    <3>1. CASE ReturnsToSource(f.to, f.transit.pkt)
      BY <2>2, <3>1, QueuesKept DEF ForwardOnLink
    <3>2. CASE ~ReturnsToSource(f.to, f.transit.pkt)
      BY <1>1, <2>2, <3>2, EnqueueQueuesOK DEF ForwardOnLink
    <3>3. QED
      BY <3>1, <3>2
  <2>3. CASE DataUnopened(f.to, f) \/ DeliverLocal(f.to, f) \/ ForwardFails(f.to, f)
    BY <2>3, QueuesKept DEF DataUnopened, DeliverLocal, ForwardFails
  <2>4. QED
    BY <2>1, <2>2, <2>3 DEF ReceiveData
<1>4. CountersOK'
    BY <1>2, CountersKept DEF HearsData
<1>5. /\ data_air' \in SUBSET DataFrame
      /\ sent' \in SUBSET PacketId
      /\ nonces' \in [Node -> [Node -> Seq(Nonce)]]
    BY <1>2 DEF HearsData, MeshTypeOK
<1>6. delivered' \in [Node -> SUBSET Packet]
  <2>1. \/ delivered' = delivered
        \/ delivered' = [delivered EXCEPT ![f.to] = @ \cup {f.transit.pkt}]
    BY DEF ReceiveData, DataUnopened, DeliverLocal, AnswerEcho, ForwardOnLink, ForwardFails
  <2>2. delivered \in [Node -> SUBSET Packet]
    BY DEF MeshTypeOK
  <2>3. delivered[f.to] \cup {f.transit.pkt} \in SUBSET Packet
    BY <1>1, <2>2
  <2>4. QED
    BY <1>1, <2>1, <2>2, <2>3
<1>7. QED
    BY <1>3, <1>4, <1>5, <1>6 DEF MeshTypeOK, QueuesOK, CountersOK

\* The handlers that flush: a link that comes up, a reply that reaches its origin.
LEMMA FlushesMeshType ==
    ASSUME TypeOK, TypeOK', MeshTypeOK, LinksKept, NEW n \in Node, NEW f \in Frame,
           MeshLinkUp(n, f) \/ MeshRrepAtOrigin(n, f)
    PROVE  MeshTypeOK'
<1>1. f.from \in Node
    BY FrameFields
<1>2. QueuesOK'
    BY <1>1, FlushQueuesOK DEF MeshLinkUp, MeshRrepAtOrigin
<1>3. CountersOK'
  <2>1. CASE UNCHANGED tx_counter
    BY <2>1, CountersKept
  <2>2. CASE tx_counter' = [tx_counter EXCEPT ![n][f.from] = 0]
    <3>1. tx_counter \in [Node -> [Node -> Nat]]
      BY DEF MeshTypeOK
    <3>2. /\ tx_counter' \in [Node -> [Node -> Nat]]
          /\ \A m, p \in Node : tx_counter'[m][p] \in {0, tx_counter[m][p]}
      BY <1>1, <2>2, <3>1
    <3>3. ASSUME NEW m \in Node, NEW p \in Node, p \notin links'[m] PROVE tx_counter'[m][p] = 0
      <4>1. p \notin links[m]
        BY <3>3 DEF LinksKept
      <4>2. tx_counter[m][p] = 0
        BY <4>1 DEF MeshTypeOK
      <4>3. QED
        BY <3>2, <4>2
    <3>4. QED
      BY <3>2, <3>3 DEF CountersOK
  <2>3. QED
    BY <2>1, <2>2 DEF MeshLinkUp, MeshRrepAtOrigin, LinkInfo
<1>4. /\ data_air' \in SUBSET DataFrame /\ delivered' \in [Node -> SUBSET Packet]
      /\ sent' \in SUBSET PacketId /\ nonces' \in [Node -> [Node -> Seq(Nonce)]]
    BY DEF MeshLinkUp, MeshRrepAtOrigin, MeshTypeOK
<1>5. QED
    BY <1>2, <1>3, <1>4 DEF MeshTypeOK, QueuesOK, CountersOK

LEMMA QuietMeshType ==
    ASSUME MeshTypeOK, LinksKept, UNCHANGED dataVars
    PROVE  MeshTypeOK'
<1>1. QueuesOK' /\ CountersOK'
    BY QueuesKept, CountersKept DEF dataVars
<1>2. QED
    BY <1>1 DEF dataVars, MeshTypeOK, QueuesOK, CountersOK

LEMMA HostSendMeshType ==
    ASSUME TypeOK, MeshTypeOK, LinksKept, NEW n \in Node, NEW d \in Node, NEW i \in PacketId,
           HostSend(n, d, i)
    PROVE  MeshTypeOK'
<1>1. PICK pkt \in Packet : Submit(n, pkt)
    BY SentPacketType DEF HostSend
<1>2. QueuesOK' /\ CountersOK'
    BY <1>1, SubmitQueuesOK, CountersKept DEF HostSend
<1>3. /\ data_air' \in SUBSET DataFrame /\ delivered' \in [Node -> SUBSET Packet]
      /\ sent' \in SUBSET PacketId /\ nonces' \in [Node -> [Node -> Seq(Nonce)]]
    BY DEF HostSend, MeshTypeOK
<1>4. QED
    BY <1>2, <1>3 DEF MeshTypeOK, QueuesOK, CountersOK

\* Every step of the mesh is one of five kinds.
LEMMA MeshStepKinds ==
    ASSUME TypeOK, MeshTypeOK, [MeshNext]_meshVars
    PROVE  \/ UNCHANGED dataVars
           \/ \E n, d \in Node, i \in PacketId : HostSend(n, d, i)
           \/ \E n \in Node, f \in Frame : MeshLinkUp(n, f) \/ MeshRrepAtOrigin(n, f)
           \/ \E n, p \in Node : \E k \in 0 .. Len(pending_tx[n][p]) : Takes(n, p, k)
           \/ \E f \in data_air : ReceiveData(f.to, f)
<1>1. CASE UNCHANGED meshVars
    BY <1>1 DEF meshVars, dataVars
<1>2. ASSUME NEW rx \in air, MeshReceive(rx.to, rx.frame)
      PROVE  \/ UNCHANGED dataVars
             \/ \E n \in Node, f \in Frame : MeshLinkUp(n, f) \/ MeshRrepAtOrigin(n, f)
  <2>1. rx.to \in Node /\ rx.frame \in Frame
    BY DEF TypeOK
  <2>2. QED
    BY <1>2, <2>1 DEF MeshReceive
<1>3. ASSUME NEW n \in Node, NEW d \in Destinations[n], NEW i \in PacketId, HostSend(n, d, i)
      PROVE  \E m, e \in Node, j \in PacketId : HostSend(m, e, j)
  <2>1. d \in Node
    BY NodeAssumption
  <2>2. QED
    BY <1>3, <2>1
<1>4. QED
    BY <1>1, <1>2, <1>3, TxTakes DEF MeshNext

LEMMA StepMeshTypeOK ==
    ASSUME TypeOK, TypeOK', MeshTypeOK, LinksKept, [MeshNext]_meshVars
    PROVE  MeshTypeOK'
    BY MeshStepKinds, QuietMeshType, HostSendMeshType, FlushesMeshType, TakesMeshType,
       ReceiveDataMeshType

LEMMA InitMeshTypeOK == MeshInit => MeshTypeOK
<1> SUFFICES ASSUME MeshInit PROVE MeshTypeOK
    OBVIOUS
<1>1. <<>> \in Seq(Packet) /\ <<>> \in Seq(Transit) /\ <<>> \in Seq(Nonce)
      /\ Len(<<>>) = 0
    BY EmptySeq
<1>2. QED
    BY <1>1, Limits DEF MeshInit, MeshTypeOK

\* What both planes keep together.
MeshInv == TypeOK /\ RouteInv /\ MeshTypeOK

LEMMA StepMeshInv ==
    ASSUME MeshInv, [MeshNext]_meshVars
    PROVE  MeshInv' /\ LinksKept /\ Grow
<1>1. TypeOK /\ RouteInv /\ MeshTypeOK
    BY DEF MeshInv
<1>2. [ControlStep]_vars
    BY <1>1, MeshStepIsControlStep
<1>3. TypeOK'
    BY <1>1, <1>2, StepTypeOK
<1>4. RouteInv' /\ LinksKept /\ Grow
    BY <1>1, <1>2, <1>3, StepRouteInv, StepKeepsLinks, StepGrows
<1>5. MeshTypeOK'
    BY <1>1, <1>3, <1>4, StepMeshTypeOK
<1>6. QED
    BY <1>3, <1>4, <1>5 DEF MeshInv

LEMMA MeshInvariance == MeshSpec => []MeshInv
<1>1. MeshInit => MeshInv
    BY InitTypeOK, InitRouteInv, InitMeshTypeOK DEF MeshInit, MeshInv
<1>2. MeshInv /\ [MeshNext]_meshVars => MeshInv'
    BY StepMeshInv
<1>3. QED
    BY <1>1, <1>2, PTL DEF MeshSpec

\* The queues never outgrow their limits, and a link's queue and frame counter are
\* untouched until the link is up (enqueueOnLink, relay.enqueue, flushPendingFor,
\* initiate and maybeTxOnCell, in any order).
THEOREM MeshTypeCorrect == MeshSpec => []MeshTypeOK
<1>1. MeshInv => MeshTypeOK
    BY DEF MeshInv
<1>2. QED
    BY <1>1, MeshInvariance, PTL

\* The data plane does not disturb the routes: no routing loop with traffic either.
THEOREM MeshNoRoutingLoop == MeshSpec => []LoopFree
<1>1. MeshInv => LoopFree
    BY OrderedRoutesLoopFree DEF MeshInv, RouteInv
<1>2. QED
    BY <1>1, MeshInvariance, PTL

(***************************************************************************)
(* Nonces.  Every nonce used on a link carries the node's direction and a  *)
(* counter below the link's counter, and a link that is down has used      *)
(* none: a counter that starts again starts with an empty history.         *)
(***************************************************************************)
UsedOnce(n, p) == \A i, j \in DOMAIN nonces[n][p] : nonces[n][p][i] = nonces[n][p][j] => i = j

UsedBelow(n, p) ==
    \A i \in DOMAIN nonces[n][p] :
        /\ nonces[n][p][i].counter < tx_counter[n][p]
        /\ nonces[n][p][i].flag = (AddressValue[n] > AddressValue[p])

NonceInv ==
    \A n, p \in Node :
        /\ p \notin links[n] => nonces[n][p] = <<>>
        /\ UsedBelow(n, p)
        /\ UsedOnce(n, p)

LEMMA NoncesDiffer ==
    ASSUME NonceInv
    PROVE  NonceUnique
<1>1. ASSUME NEW n \in Node, NEW p \in Node, n # p, NEW i \in DOMAIN nonces[n][p],
             NEW j \in DOMAIN nonces[p][n]
      PROVE  nonces[n][p][i] # nonces[p][n][j]
  <2>1. /\ nonces[n][p][i].flag = (AddressValue[n] > AddressValue[p])
        /\ nonces[p][n][j].flag = (AddressValue[p] > AddressValue[n])
    BY DEF NonceInv, UsedBelow
  <2>2. /\ AddressValue[n] \in Nat /\ AddressValue[p] \in Nat
        /\ AddressValue[n] # AddressValue[p]
    BY <1>1, AddressAssumption
  <2>3. (AddressValue[n] > AddressValue[p]) # (AddressValue[p] > AddressValue[n])
    BY <2>2
  <2>4. QED
    BY <2>1, <2>3
<1>2. QED
    BY <1>1 DEF NonceInv, UsedOnce, NonceUnique

LEMMA NoncesKept ==
    ASSUME NonceInv, LinksKept, UNCHANGED <<nonces, tx_counter>>
    PROVE  NonceInv'
    BY DEF NonceInv, UsedBelow, UsedOnce, LinksKept

LEMMA LinkUpKeepsNonces ==
    ASSUME MeshTypeOK, NonceInv, LinksKept, NEW n \in Node, NEW f \in Frame, MeshLinkUp(n, f)
    PROVE  NonceInv'
<1>1. f.from \in Node
    BY FrameFields
<1>2. CASE f.from \in links[n]
    BY <1>2, NoncesKept DEF MeshLinkUp, LinkInfo
<1>3. CASE f.from \notin links[n]
  <2>1. /\ nonces' = nonces
        /\ \A m, p \in Node : tx_counter'[m][p] = tx_counter[m][p] \/ nonces[m][p] = <<>>
    BY <1>1, <1>3 DEF MeshLinkUp, LinkInfo, MeshTypeOK, NonceInv
  <2>2. \A m, p \in Node : UsedBelow(m, p)'
    BY <2>1 DEF NonceInv, UsedBelow
  <2>3. QED
    BY <2>1, <2>2 DEF NonceInv, UsedOnce, LinksKept
<1>4. QED
    BY <1>2, <1>3

LEMMA TakesKeepsNonces ==
    ASSUME MeshTypeOK, NonceInv, NEW n \in Node, NEW p \in Node,
           NEW k \in 0 .. Len(pending_tx[n][p]), Takes(n, p, k)
    PROVE  NonceInv'
<1> DEFINE c == tx_counter[n][p]
           u == Len(nonces[n][p])
           flag == AddressValue[n] > AddressValue[p]
<1>1. /\ c \in Nat /\ u \in Nat /\ k \in Nat
      /\ DOMAIN nonces[n][p] = 1 .. u
      /\ \A i \in 1 .. u : nonces[n][p][i].counter \in Nat
  <2>1. nonces[n][p] \in Seq(Nonce) /\ c \in Nat /\ k \in Nat
    BY QueueTypes
  <2>2. \A i \in 1 .. u : nonces[n][p][i] \in Nonce
    BY <2>1
  <2>3. QED
    BY <2>1, <2>2 DEF Nonce
<1>2. /\ \A m, q \in Node : m # n \/ q # p =>
            tx_counter'[m][q] = tx_counter[m][q] /\ nonces'[m][q] = nonces[m][q]
      /\ tx_counter'[n][p] = c + k
      /\ \A i \in DOMAIN nonces'[n][p] :
            \/ i \in DOMAIN nonces[n][p] /\ nonces'[n][p][i] = nonces[n][p][i]
            \/ \E j \in 1 .. k : i = u + j /\ nonces'[n][p][i] = LinkNonce(n, p, c + j - 1)
  <2>1. \A m, q \in Node : m # n \/ q # p =>
            tx_counter'[m][q] = tx_counter[m][q] /\ nonces'[m][q] = nonces[m][q]
    BY TakesProperties
  <2>2. tx_counter'[n][p] = c + k
    BY TakesProperties
  <2>3. \A i \in DOMAIN nonces'[n][p] :
            \/ i \in DOMAIN nonces[n][p] /\ nonces'[n][p][i] = nonces[n][p][i]
            \/ \E j \in 1 .. k : i = u + j /\ nonces'[n][p][i] = LinkNonce(n, p, c + j - 1)
    BY TakesProperties, Zenon
  <2>4. QED
    BY <2>1, <2>2, <2>3
<1>3. links' = links /\ p \in links[n]
    BY DEF Takes, vars
<1>4. /\ UsedBelow(n, p) /\ UsedOnce(n, p)
    BY DEF NonceInv
<1> HIDE DEF c, u
<1>5. ASSUME NEW i \in DOMAIN nonces'[n][p]
      PROVE  \/ /\ i \in 1 .. u /\ nonces'[n][p][i] = nonces[n][p][i]
                /\ nonces'[n][p][i].counter < c
             \/ \E j \in 1 .. k : i = u + j /\ nonces'[n][p][i].counter = c + j - 1
  <2>1. CASE i \in DOMAIN nonces[n][p] /\ nonces'[n][p][i] = nonces[n][p][i]
    BY <1>1, <1>4, <2>1 DEF UsedBelow, c
  <2>2. CASE \E j \in 1 .. k : i = u + j /\ nonces'[n][p][i] = LinkNonce(n, p, c + j - 1)
    BY <2>2 DEF LinkNonce
  <2>3. QED
    BY <1>2, <2>1, <2>2
<1>6. UsedBelow(n, p)'
  <2> SUFFICES ASSUME NEW i \in DOMAIN nonces'[n][p]
               PROVE  /\ nonces'[n][p][i].counter < c + k
                      /\ nonces'[n][p][i].flag = flag
    BY <1>2 DEF UsedBelow
  <2>1. nonces'[n][p][i].counter < c + k
    <3>1. CASE /\ i \in 1 .. u /\ nonces'[n][p][i] = nonces[n][p][i]
               /\ nonces'[n][p][i].counter < c
      <4>1. c \in Nat /\ k \in Nat /\ nonces[n][p][i].counter \in Nat
        BY <1>1, <3>1
      <4>2. QED
        BY <3>1, <4>1
    <3>2. CASE \E j \in 1 .. k : nonces'[n][p][i].counter = c + j - 1
      BY <1>1, <3>2
    <3>3. QED
      BY <1>5, <3>1, <3>2
  <2>2. nonces'[n][p][i].flag = flag
    <3>1. \A counter : LinkNonce(n, p, counter).flag = flag
      BY DEF LinkNonce
    <3>2. \A j \in DOMAIN nonces[n][p] : nonces[n][p][j].flag = flag
      BY <1>4 DEF UsedBelow
    <3> HIDE DEF flag
    <3>3. QED
      <4>1. CASE i \in DOMAIN nonces[n][p] /\ nonces'[n][p][i] = nonces[n][p][i]
        BY <3>2, <4>1, Zenon
      <4>2. CASE \E j \in 1 .. k : i = u + j /\ nonces'[n][p][i] = LinkNonce(n, p, c + j - 1)
        BY <3>1, <4>2, Zenon
      <4>3. QED
        BY <1>2, <4>1, <4>2, Zenon
  <2>3. QED
    BY <2>1, <2>2
<1>7. UsedOnce(n, p)'
  <2> SUFFICES ASSUME NEW i \in DOMAIN nonces'[n][p], NEW j \in DOMAIN nonces'[n][p],
                      nonces'[n][p][i] = nonces'[n][p][j]
               PROVE  i = j
    BY DEF UsedOnce
  <2>1. CASE i \in 1 .. u /\ nonces'[n][p][i] = nonces[n][p][i]
             /\ nonces'[n][p][i].counter < c
    <3>1. CASE j \in 1 .. u /\ nonces'[n][p][j] = nonces[n][p][j]
      BY <1>1, <1>4, <2>1, <3>1 DEF UsedOnce
    <3>2. CASE \E h \in 1 .. k : j = u + h /\ nonces'[n][p][j].counter = c + h - 1
      BY <1>1, <2>1, <3>2
    <3>3. QED
      BY <1>5, <3>1, <3>2
  <2>2. CASE \E g \in 1 .. k : i = u + g /\ nonces'[n][p][i].counter = c + g - 1
    <3>1. CASE j \in 1 .. u /\ nonces'[n][p][j].counter < c
      BY <1>1, <2>2, <3>1
    <3>2. CASE \E h \in 1 .. k : j = u + h /\ nonces'[n][p][j].counter = c + h - 1
      BY <1>1, <2>2, <3>2
    <3>3. QED
      BY <1>5, <3>1, <3>2
  <2>3. QED
    BY <1>5, <2>1, <2>2
<1>8. ASSUME NEW m \in Node, NEW q \in Node
      PROVE  /\ q \notin links'[m] => nonces'[m][q] = <<>>
             /\ UsedBelow(m, q)' /\ UsedOnce(m, q)'
  <2>1. CASE m = n /\ q = p
    BY <1>3, <1>6, <1>7, <2>1
  <2>2. CASE m # n \/ q # p
    <3>1. tx_counter'[m][q] = tx_counter[m][q] /\ nonces'[m][q] = nonces[m][q]
      BY <1>2, <2>2
    <3>2. QED
      BY <1>3, <3>1 DEF NonceInv, UsedBelow, UsedOnce
  <2>3. QED
    BY <2>1, <2>2
<1>9. QED
    BY <1>8 DEF NonceInv

LEMMA StepNonceInv ==
    ASSUME MeshInv, NonceInv, [MeshNext]_meshVars
    PROVE  NonceInv'
<1>1. TypeOK /\ MeshTypeOK /\ LinksKept
    BY StepMeshInv DEF MeshInv
<1>2. ASSUME UNCHANGED <<nonces, tx_counter>> PROVE NonceInv'
    BY <1>1, <1>2, NoncesKept
<1>3. CASE UNCHANGED dataVars
    BY <1>2, <1>3 DEF dataVars
<1>4. ASSUME NEW n \in Node, NEW d \in Node, NEW i \in PacketId, HostSend(n, d, i)
      PROVE  NonceInv'
    BY <1>2, <1>4 DEF HostSend
<1>5. ASSUME NEW n \in Node, NEW f \in Frame, MeshLinkUp(n, f) PROVE NonceInv'
    BY <1>1, <1>5, LinkUpKeepsNonces
<1>6. ASSUME NEW n \in Node, NEW f \in Frame, MeshRrepAtOrigin(n, f) PROVE NonceInv'
    BY <1>2, <1>6 DEF MeshRrepAtOrigin
<1>7. ASSUME NEW n \in Node, NEW p \in Node, NEW k \in 0 .. Len(pending_tx[n][p]), Takes(n, p, k)
      PROVE  NonceInv'
    BY <1>1, <1>7, TakesKeepsNonces
<1>8. ASSUME NEW f \in data_air, ReceiveData(f.to, f) PROVE NonceInv'
  <2>1. HearsData(f.to, f)
    BY <1>8 DEF ReceiveData, DataUnopened, DeliverLocal, AnswerEcho, ForwardOnLink, ForwardFails,
                OpensData
  <2>2. QED
    BY <1>2, <2>1 DEF HearsData
<1>9. QED
    BY <1>1, <1>3, <1>4, <1>5, <1>6, <1>7, <1>8, MeshStepKinds

\* No nonce of a link key is ever used twice, in either direction, however often
\* the link is set up again (relay.seal, crypto.linkNonce, links.getOrPut).
THEOREM NoncesNeverRepeat == MeshSpec => []NonceUnique
<1>1. MeshInit => NonceInv
    BY DEF MeshInit, NonceInv, UsedBelow, UsedOnce
<1>2. MeshInv /\ NonceInv /\ [MeshNext]_meshVars => NonceInv'
    BY StepNonceInv
<1>3. NonceInv => NonceUnique
    BY NoncesDiffer
<1>4. QED
    BY <1>1, <1>2, <1>3, MeshInvariance, PTL DEF MeshSpec

(***************************************************************************)
(* Progress.  A packet is queued under a route its next node beats, and    *)
(* goes on beating, since routes only improve (Grow); what waits for a     *)
(* route waits under its own destination, so a flush queues it under the   *)
(* right one.                                                              *)
(***************************************************************************)
\* The packets that may be on their way to p.
Towards(p) == {t \in Transit : TowardDest(p, t)}

WaitsUnderDest ==
    \A n, d \in Node : \A i \in DOMAIN pending_routes[n][d] : pending_routes[n][d][i].dest = d

QueuedTowards ==
    \A n, p \in Node : \A i \in DOMAIN pending_tx[n][p] : pending_tx[n][p][i] \in Towards(p)

FlyingTowards == \A f \in data_air : f.transit \in Towards(f.to)

ProgressInv == QueuedTowards /\ FlyingTowards /\ WaitsUnderDest

LEMMA TowardsStable ==
    ASSUME TypeOK, TypeOK', Grow, NEW p \in Node
    PROVE  Towards(p) \subseteq Towards(p)'
<1> SUFFICES ASSUME NEW t \in Transit, TowardDest(p, t) PROVE TowardDest(p, t)'
    BY DEF Towards, Transit
<1>1. t.pkt.dest \in Node
    BY DEF Transit, Packet
<1>2. CASE p = t.pkt.dest
    BY <1>2 DEF TowardDest
<1>3. CASE p # t.pkt.dest
  <2>1. t.route # NoEntry /\ Beats(p, t.pkt.dest, t.route.seq, t.route.cost)
    BY <1>3 DEF TowardDest
  <2>2. t.route.seq \in Nat /\ t.route.cost \in 0 .. MaxCost
    BY <2>1 DEF Transit, RouteEntry
  <2>3. Beats(p, t.pkt.dest, t.route.seq, t.route.cost)'
    BY <1>1, <2>1, <2>2, BeatsStable
  <2>4. QED
    BY <2>1, <2>3 DEF TowardDest
<1>4. QED
    BY <1>2, <1>3

\* A packet queued on a usable link is closer to its destination there.
LEMMA EnqueuedTowards ==
    ASSUME TypeOK, RouteOrder, NEW n \in Node, NEW pkt \in Packet, HasUsableLink(n, pkt.dest)
    PROVE  TransitOn(n, pkt, HopToward(n, pkt.dest), routes) \in Towards(HopToward(n, pkt.dest))
<1> DEFINE d == pkt.dest
           hop == HopToward(n, d)
           t == TransitOn(n, pkt, hop, routes)
<1>1. d \in Node
    BY DEF Packet
<1>2. t \in Transit /\ t.pkt = pkt
    BY TransitType DEF TypeOK
<1>3. CASE hop = d
    BY <1>2, <1>3 DEF Towards, TowardDest
<1>4. CASE hop # d
  <2>1. routes[n][d] # NoEntry /\ hop = routes[n][d].next_hop
    BY <1>4 DEF HasUsableLink, HopToward
  <2>2. t.route = routes[n][d]
    BY <1>4 DEF TransitOn
  <2>3. Beats(hop, d, routes[n][d].seq, routes[n][d].cost)
    BY <1>1, <2>1 DEF RouteOrder
  <2>4. QED
    BY <1>2, <2>1, <2>2, <2>3 DEF Towards, TowardDest
<1>5. QED
    BY <1>3, <1>4

\* So is one that a flush moves, under the routes after the handler.
LEMMA FlushedTowards ==
    ASSUME TypeOK', RouteOrder', NEW n \in Node, NEW peer \in Node, NEW d \in WaitingFor(n, peer),
           NEW pkt \in Packet, pkt.dest = d
    PROVE  TransitOn(n, pkt, peer, routes') \in Towards(peer)'
<1>1. d \in Node
    BY DEF WaitingFor
<1>2. PICK t \in Transit : t = TransitOn(n, pkt, peer, routes') /\ t.pkt = pkt
    BY TransitType DEF TypeOK
<1>3. CASE peer = d
    BY <1>2, <1>3 DEF Towards, TowardDest, Transit
<1>4. CASE peer # d
  <2>1. routes'[n][d] # NoEntry /\ peer = routes'[n][d].next_hop
    BY <1>4 DEF WaitingFor
  <2>2. t.route = routes'[n][d]
    BY <1>2, <1>4 DEF TransitOn
  <2>3. Beats(peer, d, t.route.seq, t.route.cost)'
    BY <1>1, <2>1, <2>2 DEF RouteOrder, Beats
  <2>4. TowardDest(peer, t)'
    BY <1>2, <2>1, <2>2, <2>3 DEF TowardDest
  <2>5. QED
    BY <1>2, <2>4 DEF Towards, Transit
<1>5. QED
    BY <1>3, <1>4

LEMMA ExtendedTowards ==
    ASSUME TypeOK, TypeOK', Grow, MeshTypeOK, QueuedTowards, NEW n \in Node, NEW peer \in Node,
           NEW more \in Seq(Transit), Extended(n, peer, more),
           \A k \in DOMAIN more : more[k] \in Towards(peer)'
    PROVE  QueuedTowards'
<1> SUFFICES ASSUME NEW m \in Node, NEW p \in Node, NEW i \in DOMAIN pending_tx'[m][p]
             PROVE  pending_tx'[m][p][i] \in Towards(p)'
    BY DEF QueuedTowards
<1>1. Towards(p) \subseteq Towards(p)'
    BY TowardsStable
<1>2. CASE m = n /\ p = peer
  <2>1. \A j \in DOMAIN pending_tx'[n][peer] :
            \/ /\ j \in DOMAIN pending_tx[n][peer]
               /\ pending_tx'[n][peer][j] = pending_tx[n][peer][j]
            \/ /\ j - Len(pending_tx[n][peer]) \in DOMAIN more
               /\ pending_tx'[n][peer][j] = more[j - Len(pending_tx[n][peer])]
    BY ExtendedQueue, ZenonT(60)
  <2>2. QED
    BY <1>1, <1>2, <2>1 DEF QueuedTowards
<1>3. CASE m # n \/ p # peer
  <2>1. pending_tx'[m][p] = pending_tx[m][p]
    BY <1>3, ExtendedQueue
  <2>2. pending_tx[m][p][i] \in Towards(p)
    BY <2>1 DEF QueuedTowards
  <2>3. QED
    BY <1>1, <2>1, <2>2
<1>4. QED
    BY <1>2, <1>3

LEMMA QueuesKeptTowards ==
    ASSUME TypeOK, TypeOK', Grow, QueuedTowards, UNCHANGED pending_tx
    PROVE  QueuedTowards'
<1> SUFFICES ASSUME NEW m \in Node, NEW p \in Node, NEW i \in DOMAIN pending_tx'[m][p]
             PROVE  pending_tx'[m][p][i] \in Towards(p)'
    BY DEF QueuedTowards
<1>1. pending_tx[m][p][i] \in Towards(p)
    BY DEF QueuedTowards
<1>2. QED
    BY <1>1, TowardsStable

LEMMA AirKeptTowards ==
    ASSUME TypeOK, TypeOK', Grow, MeshTypeOK, FlyingTowards, data_air' \subseteq data_air
    PROVE  FlyingTowards'
<1> SUFFICES ASSUME NEW f \in data_air PROVE f.transit \in Towards(f.to)'
    BY DEF FlyingTowards
<1>1. PICK p \in Node : p = f.to
    BY DataFrameFields
<1>2. f.transit \in Towards(p)
    BY <1>1 DEF FlyingTowards
<1>3. f.transit \in Towards(p)'
    BY <1>2, TowardsStable
<1>4. QED
    BY <1>1, <1>3

LEMMA EnqueueProgress ==
    ASSUME TypeOK, TypeOK', RouteOrder, Grow, MeshTypeOK, QueuedTowards, NEW n \in Node,
           NEW pkt \in Packet, HasUsableLink(n, pkt.dest),
           EnqueueOnLink(n, HopToward(n, pkt.dest), pkt)
    PROVE  QueuedTowards'
<1>1. PICK hop \in Node : hop = HopToward(n, pkt.dest)
    BY UsableHop DEF Packet
<1>2. PICK t \in Transit : t = TransitOn(n, pkt, hop, routes) /\ Extended(n, hop, <<t>>)
    BY <1>1, EnqueueExtends
<1>3. t \in Towards(hop)
    BY <1>1, <1>2, EnqueuedTowards
<1>4. t \in Towards(hop)'
    BY <1>3, TowardsStable
<1>5. <<t>> \in Seq(Transit) /\ \A k \in DOMAIN <<t>> : <<t>>[k] \in Towards(hop)'
    BY <1>4
<1>6. QED
    BY <1>2, <1>5, ExtendedTowards

LEMMA SubmitProgress ==
    ASSUME TypeOK, TypeOK', RouteOrder, Grow, MeshTypeOK, QueuedTowards, WaitsUnderDest,
           NEW n \in Node, NEW pkt \in Packet, Submit(n, pkt)
    PROVE  QueuedTowards' /\ WaitsUnderDest'
<1>1. CASE SendOnLink(n, pkt)
  <2>1. QueuedTowards'
    BY <1>1, EnqueueProgress DEF SendOnLink
  <2>2. WaitsUnderDest'
    BY <1>1 DEF SendOnLink, WaitsUnderDest
  <2>3. QED
    BY <2>1, <2>2
<1>2. CASE SendWaiting(n, pkt)
  <2> DEFINE new == WithRoomFor(pending_routes[n][pkt.dest], pkt)
  <2>1. /\ UNCHANGED pending_tx
        /\ pending_routes' = [pending_routes EXCEPT ![n][pkt.dest] = WithRoomFor(@, pkt)]
    BY <1>2 DEF SendWaiting
  <2>2. /\ pkt.dest \in Node
        /\ \A m, d \in Node : m # n \/ d # pkt.dest => pending_routes'[m][d] = pending_routes[m][d]
        /\ pending_routes'[n][pkt.dest] = new
    BY <2>1, WaitingProperties
  <2>3. \A i \in DOMAIN new : new[i] = pkt \/ \E j \in DOMAIN pending_routes[n][pkt.dest] :
                                                new[i] = pending_routes[n][pkt.dest][j]
    <3> DEFINE queue == pending_routes[n][pkt.dest]
    <3>1. queue \in Seq(Packet) /\ Len(queue) <= PendingPerDestMax
      BY <2>2, QueueTypes
    <3> HIDE DEF queue
    <3>2. \E k \in {0, 1} : \A i \in DOMAIN WithRoomFor(queue, pkt) :
                 \/ i = Len(WithRoomFor(queue, pkt)) /\ WithRoomFor(queue, pkt)[i] = pkt
                 \/ /\ i < Len(WithRoomFor(queue, pkt)) /\ i + k \in DOMAIN queue
                    /\ WithRoomFor(queue, pkt)[i] = queue[i + k]
      BY <3>1, WithRoomForProperties
    <3>3. \A i \in DOMAIN WithRoomFor(queue, pkt) :
              WithRoomFor(queue, pkt)[i] = pkt \/ \E j \in DOMAIN queue :
                                                     WithRoomFor(queue, pkt)[i] = queue[j]
      BY <3>2
    <3>4. QED
      BY <3>3 DEF queue
  <2>4. \A i \in DOMAIN new : new[i].dest = pkt.dest
    BY <2>2, <2>3 DEF WaitsUnderDest
  <2>5. ASSUME NEW m \in Node, NEW d \in Node, NEW i \in DOMAIN pending_routes'[m][d]
        PROVE  pending_routes'[m][d][i].dest = d
    BY <2>2, <2>4 DEF WaitsUnderDest
  <2>6. QED
    BY <2>1, <2>5, QueuesKeptTowards DEF WaitsUnderDest
<1>3. QED
    BY <1>1, <1>2 DEF Submit

LEMMA FlushProgress ==
    ASSUME TypeOK, TypeOK', RouteOrder', Grow, MeshTypeOK, QueuedTowards, WaitsUnderDest,
           NEW n \in Node, NEW peer \in Node, FlushPendingFor(n, peer)
    PROVE  QueuedTowards' /\ WaitsUnderDest'
<1>1. CASE peer \in links'[n]
  <2>1. Flush(n, peer)
    BY <1>1 DEF FlushPendingFor
  <2>2. PICK more \in Seq(Transit) :
            /\ Extended(n, peer, more)
            /\ \A k \in DOMAIN more : \E d \in WaitingFor(n, peer) :
                  \E j \in DOMAIN pending_routes[n][d] :
                      more[k] = TransitOn(n, pending_routes[n][d][j], peer, routes')
    BY <2>1, FlushExtends, ZenonT(60)
  <2>3. ASSUME NEW k \in DOMAIN more PROVE more[k] \in Towards(peer)'
    <3>1. PICK d \in WaitingFor(n, peer) : \E j \in DOMAIN pending_routes[n][d] :
              more[k] = TransitOn(n, pending_routes[n][d][j], peer, routes')
      BY <2>2
    <3>2. PICK j \in DOMAIN pending_routes[n][d] :
              more[k] = TransitOn(n, pending_routes[n][d][j], peer, routes')
      BY <3>1
    <3>3. d \in Node
      BY DEF WaitingFor
    <3>4. PICK pkt \in Packet : pkt = pending_routes[n][d][j]
      BY <3>3, QueueTypes
    <3>5. pkt.dest = d
      BY <3>3, <3>4 DEF WaitsUnderDest
    <3>6. QED
      BY <3>2, <3>4, <3>5, FlushedTowards
  <2>4. QueuedTowards'
    BY <2>2, <2>3, ExtendedTowards
  <2>5. /\ \A m, d \in Node : m # n => pending_routes'[m][d] = pending_routes[m][d]
        /\ \A d \in WaitingFor(n, peer) : pending_routes'[n][d] = <<>>
        /\ \A d \in Node \ WaitingFor(n, peer) : pending_routes'[n][d] = pending_routes[n][d]
    BY <2>1, FlushClears
  <2>6. \A m, d \in Node : pending_routes'[m][d] = pending_routes[m][d] \/ pending_routes'[m][d] = <<>>
    BY <2>5
  <2>7. WaitsUnderDest'
    BY <2>6 DEF WaitsUnderDest
  <2>8. QED
    BY <2>4, <2>7
<1>2. CASE peer \notin links'[n]
  <2>1. UNCHANGED <<pending_routes, pending_tx>>
    BY <1>2 DEF FlushPendingFor
  <2>2. QED
    BY <2>1, QueuesKeptTowards DEF WaitsUnderDest
<1>3. QED
    BY <1>1, <1>2

LEMMA TakesProgress ==
    ASSUME TypeOK, TypeOK', Grow, MeshTypeOK, ProgressInv, NEW n \in Node, NEW p \in Node,
           NEW k \in 0 .. Len(pending_tx[n][p]), Takes(n, p, k)
    PROVE  ProgressInv'
<1>1. /\ \A m, q \in Node : m # n \/ q # p => pending_tx'[m][q] = pending_tx[m][q]
      /\ \A i \in DOMAIN pending_tx'[n][p] : /\ i + k \in DOMAIN pending_tx[n][p]
                                             /\ pending_tx'[n][p][i] = pending_tx[n][p][i + k]
    BY TakesProperties
<1>2. ASSUME NEW m \in Node, NEW q \in Node, NEW i \in DOMAIN pending_tx'[m][q]
      PROVE  pending_tx'[m][q][i] \in Towards(q)'
  <2>1. \E j \in DOMAIN pending_tx[m][q] : pending_tx'[m][q][i] = pending_tx[m][q][j]
    BY <1>1
  <2>2. pending_tx'[m][q][i] \in Towards(q)
    BY <2>1 DEF ProgressInv, QueuedTowards
  <2>3. QED
    BY <2>2, TowardsStable
<1>3. ASSUME NEW f \in data_air' PROVE f.transit \in Towards(f.to)'
  <2>1. CASE f \in data_air
    <3>1. PICK q \in Node : q = f.to
      BY <2>1, DataFrameFields
    <3>2. f.transit \in Towards(q)
      BY <2>1, <3>1 DEF ProgressInv, FlyingTowards
    <3>3. QED
      BY <3>1, <3>2, TowardsStable
  <2>2. CASE \E i \in 1 .. k : f = Sealed(n, p, i)
    <3>1. PICK i \in 1 .. k : f = Sealed(n, p, i)
      BY <2>2
    <3>2. i \in DOMAIN pending_tx[n][p]
      <4>1. pending_tx[n][p] \in Seq(Transit)
        BY QueueTypes
      <4>2. QED
        BY <4>1
    <3>3. f.to = p /\ f.transit = pending_tx[n][p][i]
      BY <3>1 DEF Sealed
    <3>4. f.transit \in Towards(p)
      BY <3>2, <3>3 DEF ProgressInv, QueuedTowards
    <3>5. QED
      BY <3>3, <3>4, TowardsStable
  <2>3. QED
    BY <2>1, <2>2 DEF Takes
<1>4. WaitsUnderDest'
    BY DEF Takes, ProgressInv, WaitsUnderDest
<1>5. QED
    BY <1>2, <1>3, <1>4 DEF ProgressInv, QueuedTowards, FlyingTowards

LEMMA ReceiveDataProgress ==
    ASSUME TypeOK, TypeOK', RouteOrder, Grow, MeshTypeOK, ProgressInv, NEW f \in data_air,
           ReceiveData(f.to, f)
    PROVE  ProgressInv'
<1>1. f.to \in Node /\ f.transit.pkt \in Packet
    BY DataFrameFields
<1>2. QueuedTowards /\ FlyingTowards /\ WaitsUnderDest
    BY DEF ProgressInv
<1>3. HearsData(f.to, f)
    BY DEF ReceiveData, DataUnopened, DeliverLocal, AnswerEcho, ForwardOnLink, ForwardFails, OpensData
<1>4. FlyingTowards'
    BY <1>2, <1>3, AirKeptTowards DEF HearsData
<1>5. CASE AnswerEcho(f.to, f)
  <2>1. PICK pkt \in Packet : Submit(f.to, pkt)
    BY <1>5, AnswerType DEF AnswerEcho
  <2>2. QED
    BY <1>1, <1>2, <1>4, <2>1, SubmitProgress DEF ProgressInv
<1>6. CASE ForwardOnLink(f.to, f)
  <2>1. WaitsUnderDest'
    BY <1>2, <1>6 DEF ForwardOnLink, WaitsUnderDest
  <2>2. QueuedTowards'
    <3>1. CASE ReturnsToSource(f.to, f.transit.pkt)
      BY <1>2, <1>6, <3>1, QueuesKeptTowards DEF ForwardOnLink
    <3>2. CASE ~ReturnsToSource(f.to, f.transit.pkt)
      BY <1>1, <1>2, <1>6, <3>2, EnqueueProgress DEF ForwardOnLink
    <3>3. QED
      BY <3>1, <3>2
  <2>3. QED
    BY <1>4, <2>1, <2>2 DEF ProgressInv
<1>7. CASE DataUnopened(f.to, f) \/ DeliverLocal(f.to, f) \/ ForwardFails(f.to, f)
  <2>1. UNCHANGED <<pending_routes, pending_tx>>
    BY <1>7 DEF DataUnopened, DeliverLocal, ForwardFails
  <2>2. QED
    BY <1>2, <1>4, <2>1, QueuesKeptTowards DEF ProgressInv, WaitsUnderDest
<1>8. QED
    BY <1>5, <1>6, <1>7 DEF ReceiveData

LEMMA StepProgress ==
    ASSUME MeshInv, ProgressInv, [MeshNext]_meshVars
    PROVE  ProgressInv'
<1>1. /\ TypeOK /\ TypeOK' /\ MeshTypeOK /\ Grow /\ RouteOrder /\ RouteOrder'
      /\ QueuedTowards /\ FlyingTowards /\ WaitsUnderDest
    BY StepMeshInv DEF MeshInv, RouteInv, ProgressInv
<1>2. CASE UNCHANGED dataVars
    BY <1>1, <1>2, QueuesKeptTowards, AirKeptTowards DEF dataVars, ProgressInv, WaitsUnderDest
<1>3. ASSUME NEW n \in Node, NEW d \in Node, NEW i \in PacketId, HostSend(n, d, i)
      PROVE  ProgressInv'
  <2>1. PICK pkt \in Packet : Submit(n, pkt)
    BY <1>3, SentPacketType DEF HostSend
  <2>2. QueuedTowards' /\ WaitsUnderDest'
    BY <1>1, <2>1, SubmitProgress
  <2>3. FlyingTowards'
    BY <1>1, <1>3, AirKeptTowards DEF HostSend
  <2>4. QED
    BY <2>2, <2>3 DEF ProgressInv
<1>4. ASSUME NEW n \in Node, NEW f \in Frame, MeshLinkUp(n, f) \/ MeshRrepAtOrigin(n, f)
      PROVE  ProgressInv'
  <2>1. f.from \in Node
    BY FrameFields
  <2>2. FlushPendingFor(n, f.from) /\ UNCHANGED data_air
    BY <1>4 DEF MeshLinkUp, MeshRrepAtOrigin
  <2>3. QueuedTowards' /\ WaitsUnderDest'
    BY <1>1, <2>1, <2>2, FlushProgress
  <2>4. FlyingTowards'
    BY <1>1, <2>2, AirKeptTowards
  <2>5. QED
    BY <2>3, <2>4 DEF ProgressInv
<1>5. ASSUME NEW n \in Node, NEW p \in Node, NEW k \in 0 .. Len(pending_tx[n][p]), Takes(n, p, k)
      PROVE  ProgressInv'
    BY <1>1, <1>5, TakesProgress
<1>6. ASSUME NEW f \in data_air, ReceiveData(f.to, f) PROVE ProgressInv'
    BY <1>1, <1>6, ReceiveDataProgress
<1>7. QED
    BY <1>1, <1>2, <1>3, <1>4, <1>5, <1>6, MeshStepKinds

\* Every hop takes a packet closer to its destination, also when routes change
\* while it is queued or on the air (send, flushPendingFor, forwardToward and
\* upsertRoute together).
THEOREM PacketsProgress == MeshSpec => []PacketProgress
<1>1. MeshInit => ProgressInv
    BY DEF MeshInit, ProgressInv, QueuedTowards, FlyingTowards, WaitsUnderDest
<1>2. MeshInv /\ ProgressInv /\ [MeshNext]_meshVars => ProgressInv'
    BY StepProgress
<1>3. ProgressInv => PacketProgress
    BY DEF ProgressInv, QueuedTowards, FlyingTowards, Towards, PacketProgress
<1>4. QED
    BY <1>1, <1>2, <1>3, MeshInvariance, PTL DEF MeshSpec

(***************************************************************************)
(* The datagram service.  A packet is in one place at a time: waiting for  *)
(* a route, in the queue of a link, or on the air.  A step moves packets   *)
(* to one place, from where they then are no more.                         *)
(***************************************************************************)
WaitingAt(n, d) == [kind |-> "waiting", node |-> n, peer |-> d]
LinkQueue(n, p) == [kind |-> "queued", node |-> n, peer |-> p]
Airborne == [kind |-> "air"]

Store == {WaitingAt(n, d) : n, d \in Node} \cup {LinkQueue(n, p) : n, p \in Node} \cup {Airborne}

Waiting(n, d) == {pending_routes[n][d][i] : i \in DOMAIN pending_routes[n][d]}
Queued(n, p) == {pending_tx[n][p][i].pkt : i \in DOMAIN pending_tx[n][p]}
Flying == {f.transit.pkt : f \in data_air}

Contents(s) ==
    IF s.kind = "waiting" THEN Waiting(s.node, s.peer)
    ELSE IF s.kind = "queued" THEN Queued(s.node, s.peer) ELSE Flying

\* No packet is in two places.
Apart == \A s, t \in Store : s # t => \A p \in Contents(s), q \in Contents(t) : p.id # q.id

\* What is anywhere was handed in.
Known == \A s \in Store : \A p \in Contents(s) : p.id \in sent

\* No packet is twice in one place.
OnceWaiting == \A n, d \in Node : Unrepeated(pending_routes[n][d])
UnrepeatedTransits(queue) == \A k, l \in DOMAIN queue : queue[k].pkt.id = queue[l].pkt.id => k = l
OnceQueued == \A n, p \in Node : UnrepeatedTransits(pending_tx[n][p])
OnceFlying == \A f, g \in data_air : f.transit.pkt.id = g.transit.pkt.id => f = g

\* What was delivered is nowhere on its way any more.
Gone ==
    \A n \in Node : \A x \in delivered[n] : x.id \in sent /\ \A y \in Inside : y.id # x.id

OnceInv == Apart /\ Known /\ OnceWaiting /\ OnceQueued /\ OnceFlying /\ Gone

LEMMA StoreContents ==
    /\ \A n, d \in Node : /\ WaitingAt(n, d) \in Store
                          /\ Contents(WaitingAt(n, d)) = Waiting(n, d)
                          /\ Contents(WaitingAt(n, d))' = Waiting(n, d)'
    /\ \A n, p \in Node : /\ LinkQueue(n, p) \in Store
                          /\ Contents(LinkQueue(n, p)) = Queued(n, p)
                          /\ Contents(LinkQueue(n, p))' = Queued(n, p)'
    /\ Airborne \in Store /\ Contents(Airborne) = Flying /\ Contents(Airborne)' = Flying'
<1>1. /\ \A n, d \in Node : WaitingAt(n, d) \in Store
      /\ \A n, p \in Node : LinkQueue(n, p) \in Store
      /\ Airborne \in Store
    BY DEF Store
<1>2. ASSUME NEW n \in Node, NEW d \in Node
      PROVE  /\ Contents(WaitingAt(n, d)) = Waiting(n, d)
             /\ Contents(WaitingAt(n, d))' = Waiting(n, d)'
             /\ Contents(LinkQueue(n, d)) = Queued(n, d)
             /\ Contents(LinkQueue(n, d))' = Queued(n, d)'
    BY DEF Contents, WaitingAt, LinkQueue
<1>3. Contents(Airborne) = Flying /\ Contents(Airborne)' = Flying'
    BY DEF Contents, Airborne
<1>4. QED
    BY <1>1, <1>2, <1>3

LEMMA StoreKinds ==
    ASSUME NEW s \in Store
    PROVE  \/ \E n, d \in Node : s = WaitingAt(n, d)
           \/ \E n, p \in Node : s = LinkQueue(n, p)
           \/ s = Airborne
    BY DEF Store

LEMMA StoresDiffer ==
    ASSUME NEW n \in Node, NEW d \in Node
    PROVE  /\ \A m, p \in Node : WaitingAt(n, d) # LinkQueue(m, p)
           /\ \A m, e \in Node : WaitingAt(n, d) = WaitingAt(m, e) => m = n /\ e = d
           /\ \A m, p \in Node : LinkQueue(n, d) = LinkQueue(m, p) => m = n /\ p = d
           /\ WaitingAt(n, d) # Airborne
           /\ LinkQueue(n, d) # Airborne
<1>1. /\ WaitingAt(n, d).kind = "waiting" /\ LinkQueue(n, d).kind = "queued"
      /\ Airborne.kind = "air"
    BY DEF WaitingAt, LinkQueue, Airborne
<1>2. \A m, p \in Node : LinkQueue(m, p).kind = "queued"
    BY DEF LinkQueue
<1>3. /\ \A m, e \in Node : WaitingAt(n, d) = WaitingAt(m, e) => m = n /\ e = d
      /\ \A m, p \in Node : LinkQueue(n, d) = LinkQueue(m, p) => m = n /\ p = d
    BY DEF WaitingAt, LinkQueue
<1>4. QED
    BY <1>1, <1>2, <1>3

\* What the service sees.
LEMMA InsideContents ==
    /\ \A pkt : pkt \in Inside <=> \E s \in Store : pkt \in Contents(s)
    /\ \A pkt : pkt \in Inside' <=> \E s \in Store : pkt \in Contents(s)'
<1>1. ASSUME NEW pkt
      PROVE  pkt \in Inside <=>
                 \/ \E n, d \in Node : pkt \in Waiting(n, d)
                 \/ \E n, p \in Node : pkt \in Queued(n, p)
                 \/ pkt \in Flying
  <2> DEFINE W == UNION {Waiting(n, d) : n, d \in Node}
             Q == UNION {Queued(n, p) : n, p \in Node}
  <2>1. Inside = W \cup Q \cup Flying
    BY DEF Inside, Waiting, Queued, Flying
  <2>2. pkt \in W <=> \E n, d \in Node : pkt \in Waiting(n, d)
    <3> DEFINE S == {Waiting(n, d) : n, d \in Node}
    <3>1. \A y : y \in S <=> \E n, d \in Node : y = Waiting(n, d)
      OBVIOUS
    <3> HIDE DEF S
    <3>2. pkt \in UNION S <=> \E n, d \in Node : pkt \in Waiting(n, d)
      BY <3>1
    <3>3. QED
      BY <3>2 DEF S
  <2>3. pkt \in Q <=> \E n, p \in Node : pkt \in Queued(n, p)
    <3> DEFINE S == {Queued(n, p) : n, p \in Node}
    <3>1. \A y : y \in S <=> \E n, p \in Node : y = Queued(n, p)
      OBVIOUS
    <3> HIDE DEF S
    <3>2. pkt \in UNION S <=> \E n, p \in Node : pkt \in Queued(n, p)
      BY <3>1
    <3>3. QED
      BY <3>2 DEF S
  <2> HIDE DEF W, Q
  <2>4. QED
    BY <2>1, <2>2, <2>3
<1>2. ASSUME NEW pkt
      PROVE  pkt \in Inside' <=>
                 \/ \E n, d \in Node : pkt \in Waiting(n, d)'
                 \/ \E n, p \in Node : pkt \in Queued(n, p)'
                 \/ pkt \in Flying'
  <2> DEFINE W == UNION {Waiting(n, d)' : n, d \in Node}
             Q == UNION {Queued(n, p)' : n, p \in Node}
  <2>1. Inside' = W \cup Q \cup Flying'
    BY DEF Inside, Waiting, Queued, Flying
  <2>2. pkt \in W <=> \E n, d \in Node : pkt \in Waiting(n, d)'
    <3> DEFINE S == {Waiting(n, d)' : n, d \in Node}
    <3>1. \A y : y \in S <=> \E n, d \in Node : y = Waiting(n, d)'
      OBVIOUS
    <3> HIDE DEF S
    <3>2. pkt \in UNION S <=> \E n, d \in Node : pkt \in Waiting(n, d)'
      BY <3>1
    <3>3. QED
      BY <3>2 DEF S
  <2>3. pkt \in Q <=> \E n, p \in Node : pkt \in Queued(n, p)'
    <3> DEFINE S == {Queued(n, p)' : n, p \in Node}
    <3>1. \A y : y \in S <=> \E n, p \in Node : y = Queued(n, p)'
      OBVIOUS
    <3> HIDE DEF S
    <3>2. pkt \in UNION S <=> \E n, p \in Node : pkt \in Queued(n, p)'
      BY <3>1
    <3>3. QED
      BY <3>2 DEF S
  <2> HIDE DEF W, Q
  <2>4. QED
    BY <2>1, <2>2, <2>3
<1>3. ASSUME NEW pkt
      PROVE  (\E s \in Store : pkt \in Contents(s)) <=>
                    \/ \E n, d \in Node : pkt \in Waiting(n, d)
                    \/ \E n, p \in Node : pkt \in Queued(n, p)
                    \/ pkt \in Flying
    BY StoreContents, StoreKinds
<1>4. ASSUME NEW pkt
      PROVE  (\E s \in Store : pkt \in Contents(s)') <=>
                    \/ \E n, d \in Node : pkt \in Waiting(n, d)'
                    \/ \E n, p \in Node : pkt \in Queued(n, p)'
                    \/ pkt \in Flying'
    BY StoreContents, StoreKinds
<1>5. QED
    BY <1>1, <1>2, <1>3, <1>4

(***************************************************************************)
(* What the moves of packets keep.                                         *)
(***************************************************************************)
\* The place target gains at most pkts, which are nowhere else then; the other
\* places gain nothing.
Gains(target, pkts) ==
    /\ \A s \in Store : s # target =>
          \A p \in Contents(s)' : p \in Contents(s) /\ \A q \in pkts : p.id # q.id
    /\ \A p \in Contents(target)' : p \in Contents(target) \/ p \in pkts

LEMMA GainsKeepsApart ==
    ASSUME Apart, NEW target \in Store, NEW pkts, Gains(target, pkts)
    PROVE  Apart'
<1> SUFFICES ASSUME NEW s \in Store, NEW t \in Store, s # t,
                    NEW p \in Contents(s)', NEW q \in Contents(t)'
             PROVE  p.id # q.id
    BY DEF Apart, Store
<1>1. CASE s # target /\ t # target
    BY <1>1 DEF Apart, Gains
<1>2. CASE s = target /\ t # target
    BY <1>2 DEF Apart, Gains
<1>3. CASE s # target /\ t = target
    BY <1>3 DEF Apart, Gains
<1>4. QED
    BY <1>1, <1>2, <1>3

LEMMA GainsKeepsKnown ==
    ASSUME Known, NEW target \in Store, NEW pkts, Gains(target, pkts), sent \subseteq sent',
           \A q \in pkts : q.id \in sent'
    PROVE  Known'
<1> SUFFICES ASSUME NEW s \in Store, NEW p \in Contents(s)' PROVE p.id \in sent'
    BY DEF Known, Store
<1>1. p \in Contents(s) \/ p \in pkts
    BY DEF Gains
<1>2. QED
    BY <1>1 DEF Known

LEMMA GainsInside ==
    ASSUME NEW target \in Store, NEW pkts, Gains(target, pkts)
    PROVE  \A p \in Inside' : p \in Inside \/ p \in pkts
    BY InsideContents DEF Gains

\* Packets (perhaps rewritten) that leave one place arrive at another.
LEMMA Transfer ==
    ASSUME Apart, NEW target \in Store, NEW pkts,
           \A s \in Store : s # target => \A p \in Contents(s)' : p \in Contents(s),
           \A p \in Contents(target)' : p \in Contents(target) \/ p \in pkts,
           \A q \in pkts : \E o \in Store : /\ \E x \in Contents(o) : x.id = q.id
                                            /\ \A p \in Contents(o)' : p.id # q.id
    PROVE  Gains(target, pkts)
<1> SUFFICES ASSUME NEW s \in Store, s # target, NEW p \in Contents(s)', NEW q \in pkts
             PROVE  p.id # q.id
    BY DEF Gains
<1>1. p \in Contents(s)
    OBVIOUS
<1>2. PICK o \in Store : /\ \E x \in Contents(o) : x.id = q.id
                         /\ \A y \in Contents(o)' : y.id # q.id
    OBVIOUS
<1>3. CASE s = o
    BY <1>2, <1>3
<1>4. CASE s # o
    BY <1>1, <1>2, <1>4 DEF Apart
<1>5. QED
    BY <1>3, <1>4

(***************************************************************************)
(* The moves.                                                              *)
(***************************************************************************)
\* A link's queue gains the packets appended to it, and repeats none if they are
\* new to it.
LEMMA ExtendedStores ==
    ASSUME MeshTypeOK, OnceQueued, NEW n \in Node, NEW peer \in Node, NEW more \in Seq(Transit),
           Extended(n, peer, more)
    PROVE  /\ \A m, p \in Node : m # n \/ p # peer => Queued(m, p)' = Queued(m, p)
           /\ \A x \in Queued(n, peer)' : x \in Queued(n, peer) \/ \E k \in DOMAIN more : x = more[k].pkt
           /\ /\ UnrepeatedTransits(more)
              /\ \A k \in DOMAIN more : \A x \in Queued(n, peer) : x.id # more[k].pkt.id
              => OnceQueued'
<1> DEFINE old == pending_tx[n][peer]
           new == pending_tx'[n][peer]
<1>0. \A m, p \in Node : m # n \/ p # peer => pending_tx'[m][p] = pending_tx[m][p]
    BY ExtendedQueue
<1>1. \A i \in DOMAIN new : \/ i \in DOMAIN old /\ new[i] = old[i]
                            \/ i - Len(old) \in DOMAIN more /\ new[i] = more[i - Len(old)]
  <2>1. \A i \in DOMAIN pending_tx'[n][peer] :
            \/ /\ i \in DOMAIN pending_tx[n][peer]
               /\ pending_tx'[n][peer][i] = pending_tx[n][peer][i]
            \/ /\ i - Len(pending_tx[n][peer]) \in DOMAIN more
               /\ pending_tx'[n][peer][i] = more[i - Len(pending_tx[n][peer])]
    BY ExtendedQueue, Zenon
  <2>2. QED
    BY <2>1, Zenon
<1>2. old \in Seq(Transit) /\ Len(old) \in Nat
    BY QueueTypes
<1>3. new \in Seq(Transit)
    BY ExtendedQueue
<1>4. \A m, p \in Node : m # n \/ p # peer => Queued(m, p)' = Queued(m, p)
    BY <1>0 DEF Queued
<1>5. \A x \in Queued(n, peer)' : x \in Queued(n, peer) \/ \E k \in DOMAIN more : x = more[k].pkt
  <2> SUFFICES ASSUME NEW i \in DOMAIN new
               PROVE  \/ \E j \in DOMAIN old : new[i].pkt = old[j].pkt
                      \/ \E k \in DOMAIN more : new[i].pkt = more[k].pkt
    BY DEF Queued
  <2> HIDE DEF new, old
  <2>1. QED
    BY <1>1
<1>6. ASSUME UnrepeatedTransits(more),
             \A k \in DOMAIN more : \A x \in Queued(n, peer) : x.id # more[k].pkt.id
      PROVE  OnceQueued'
  <2>1. UnrepeatedTransits(old)
    BY DEF OnceQueued
  <2>2. \A k \in DOMAIN more, j \in DOMAIN old : old[j].pkt.id # more[k].pkt.id
    BY <1>6 DEF Queued
  <2>3. UnrepeatedTransits(new)
    <3> HIDE DEF new, old
    <3> SUFFICES ASSUME NEW k \in DOMAIN new, NEW l \in DOMAIN new, new[k].pkt.id = new[l].pkt.id
                 PROVE  k = l
      BY DEF UnrepeatedTransits
    <3>1. k \in Int /\ l \in Int
      BY <1>3
    <3>2. CASE k \in DOMAIN old /\ new[k] = old[k]
      <4>1. l \in DOMAIN old /\ new[l] = old[l]
        BY <1>1, <2>2, <3>2
      <4>2. QED
        BY <2>1, <3>2, <4>1 DEF UnrepeatedTransits
    <3>3. CASE k - Len(old) \in DOMAIN more /\ new[k] = more[k - Len(old)]
      <4>1. l - Len(old) \in DOMAIN more /\ new[l] = more[l - Len(old)]
        BY <1>1, <2>2, <3>3
      <4>2. k - Len(old) = l - Len(old)
        BY <1>6, <3>3, <4>1 DEF UnrepeatedTransits
      <4>3. QED
        BY <1>2, <3>1, <4>2
    <3>4. QED
      BY <1>1, <3>2, <3>3
  <2>4. ASSUME NEW m \in Node, NEW p \in Node PROVE UnrepeatedTransits(pending_tx'[m][p])
    BY <1>0, <2>3, <2>4 DEF OnceQueued
  <2>5. QED
    BY <2>4 DEF OnceQueued, UnrepeatedTransits
<1>7. QED
    BY <1>4, <1>5, <1>6

\* enqueueOnLink and relay.enqueue.
LEMMA EnqueueStores ==
    ASSUME TypeOK, MeshTypeOK, OnceQueued, NEW n \in Node, NEW pkt \in Packet,
           HasUsableLink(n, pkt.dest), EnqueueOnLink(n, HopToward(n, pkt.dest), pkt),
           \A m, p \in Node : \A x \in Queued(m, p) : x.id # pkt.id
    PROVE  \E hop \in Node : /\ \A m, p \in Node : m # n \/ p # hop => Queued(m, p)' = Queued(m, p)
                             /\ \A x \in Queued(n, hop)' : x \in Queued(n, hop) \/ x = pkt
                             /\ OnceQueued'
<1>1. PICK hop \in Node : hop = HopToward(n, pkt.dest)
    BY UsableHop DEF Packet
<1>2. PICK t \in Transit : t = TransitOn(n, pkt, hop, routes) /\ Extended(n, hop, <<t>>)
    BY <1>1, EnqueueExtends
<1>3. t.pkt = pkt
    BY <1>2, TransitType DEF TypeOK
<1>4. PICK more : more = <<t>>
    OBVIOUS
<1>5. more \in Seq(Transit) /\ \A k \in DOMAIN more : k = 1 /\ more[k].pkt = pkt
    BY <1>3, <1>4
<1>6. Extended(n, hop, more)
    BY <1>2, <1>4
<1>7. UnrepeatedTransits(more)
    BY <1>5 DEF UnrepeatedTransits
<1>8. /\ \A m, p \in Node : m # n \/ p # hop => Queued(m, p)' = Queued(m, p)
      /\ \A x \in Queued(n, hop)' : x \in Queued(n, hop) \/ x = pkt
    BY <1>5, <1>6, ExtendedStores
<1>9. OnceQueued'
    BY <1>5, <1>6, <1>7, ExtendedStores
<1>10. QED
    BY <1>8, <1>9

\* A payload that waits for a route.
LEMMA WaitingStores ==
    ASSUME MeshTypeOK, OnceWaiting, NEW n \in Node, NEW pkt \in Packet,
           pending_routes' = [pending_routes EXCEPT ![n][pkt.dest] = WithRoomFor(@, pkt)],
           \A m, d \in Node : \A x \in Waiting(m, d) : x.id # pkt.id
    PROVE  /\ pkt.dest \in Node
           /\ \A m, d \in Node : m # n \/ d # pkt.dest => Waiting(m, d)' = Waiting(m, d)
           /\ \A x \in Waiting(n, pkt.dest)' : x \in Waiting(n, pkt.dest) \/ x = pkt
           /\ OnceWaiting'
<1> DEFINE e == pkt.dest
           old == pending_routes[n][e]
           new == WithRoomFor(old, pkt)
<1>1. /\ e \in Node
      /\ \A m, d \in Node : m # n \/ d # e => pending_routes'[m][d] = pending_routes[m][d]
      /\ pending_routes'[n][e] = new
    BY WaitingProperties, ZenonT(60)
<1>2. old \in Seq(Packet) /\ Len(old) <= PendingPerDestMax
    BY <1>1, QueueTypes
<1>3. \A i \in DOMAIN old : old[i].id # pkt.id
    BY <1>1 DEF Waiting
<1>4. Unrepeated(old)
    BY <1>1 DEF OnceWaiting
<1> HIDE DEF old, e
<1>5. new \in Seq(Packet)
    BY <1>2, WithRoomForProperties
<1>6. PICK k \in {0, 1} : \A i \in DOMAIN new :
          \/ i = Len(new) /\ new[i] = pkt
          \/ i < Len(new) /\ i + k \in DOMAIN old /\ new[i] = old[i + k]
    BY <1>2, WithRoomForProperties, ZenonT(60)
<1> HIDE DEF new
<1>7. Unrepeated(new)
  <2> SUFFICES ASSUME NEW i \in DOMAIN new, NEW j \in DOMAIN new, new[i].id = new[j].id
               PROVE  i = j
    BY DEF Unrepeated
  <2>1. i \in Int /\ j \in Int
    BY <1>5
  <2>2. CASE new[i] = pkt /\ i = Len(new)
    <3>1. ~(\E x \in DOMAIN old : new[j] = old[x])
      BY <1>3, <2>2
    <3>2. j = Len(new)
      BY <1>6, <3>1
    <3>3. QED
      BY <2>2, <3>2
  <2>3. CASE i + k \in DOMAIN old /\ new[i] = old[i + k]
    <3>1. new[j] # pkt
      BY <1>3, <2>3
    <3>2. j + k \in DOMAIN old /\ new[j] = old[j + k]
      BY <1>6, <3>1
    <3>3. i + k = j + k
      BY <1>4, <2>3, <3>2 DEF Unrepeated
    <3>4. QED
      BY <2>1, <3>3
  <2>4. QED
    BY <1>6, <2>2, <2>3
<1>8. \A m, d \in Node : m # n \/ d # e => Waiting(m, d)' = Waiting(m, d)
    BY <1>1 DEF Waiting
<1>9. \A x \in Waiting(n, e)' : x \in Waiting(n, e) \/ x = pkt
  <2>1. \A i \in DOMAIN new : new[i] = pkt \/ \E j \in DOMAIN old : new[i] = old[j]
    BY <1>6
  <2>2. Waiting(n, e)' = {new[i] : i \in DOMAIN new}
    BY <1>1 DEF Waiting
  <2>3. Waiting(n, e) = {old[i] : i \in DOMAIN old}
    BY DEF Waiting, old
  <2>4. QED
    BY <2>1, <2>2, <2>3
<1>10. OnceWaiting'
  <2>1. ASSUME NEW m \in Node, NEW d \in Node PROVE Unrepeated(pending_routes'[m][d])
    BY <1>1, <1>7, <2>1 DEF OnceWaiting
  <2>2. QED
    BY <2>1 DEF OnceWaiting, Unrepeated
<1>11. QED
    BY <1>1, <1>8, <1>9, <1>10 DEF e

\* A packet that is in no queue, and no more on the air, arrives at a queue.
LEMMA QueueGains ==
    ASSUME NEW target \in Store, NEW pkt, data_air' \subseteq data_air,
           \A s \in Store : s # target /\ s # Airborne =>
               \A p \in Contents(s)' : p \in Contents(s),
           \A p \in Contents(target)' : p \in Contents(target) \/ p = pkt,
           \A s \in Store : s # Airborne => \A x \in Contents(s) : x.id # pkt.id,
           \A x \in Flying' : x.id # pkt.id
    PROVE  Gains(target, {pkt})
<1>1. \A p \in Contents(Airborne)' : p \in Contents(Airborne) /\ p.id # pkt.id
  <2>1. \A x \in Flying' : x \in Flying
    BY DEF Flying
  <2>2. QED
    BY <2>1, StoreContents
<1>2. ASSUME NEW s \in Store, s # target, NEW p \in Contents(s)'
      PROVE  p \in Contents(s) /\ p.id # pkt.id
  <2>1. CASE s = Airborne
    BY <1>1, <2>1
  <2>2. CASE s # Airborne
    BY <1>2, <2>2
  <2>3. QED
    BY <2>1, <2>2
<1>3. QED
    BY <1>2 DEF Gains

\* route.send, of a packet that is in no queue.
LEMMA SubmitGains ==
    ASSUME TypeOK, MeshTypeOK, OnceWaiting, OnceQueued, NEW n \in Node, NEW pkt \in Packet,
           Submit(n, pkt), data_air' \subseteq data_air,
           \A s \in Store : s # Airborne => \A x \in Contents(s) : x.id # pkt.id,
           \A x \in Flying' : x.id # pkt.id
    PROVE  /\ \E target \in Store : Gains(target, {pkt})
           /\ OnceWaiting' /\ OnceQueued'
<1>1. \A m, p \in Node : /\ \A x \in Queued(m, p) : x.id # pkt.id
                         /\ \A x \in Waiting(m, p) : x.id # pkt.id
    BY StoreContents, StoresDiffer
<1>2. CASE SendOnLink(n, pkt)
  <2>1. /\ HasUsableLink(n, pkt.dest)
        /\ EnqueueOnLink(n, HopToward(n, pkt.dest), pkt)
        /\ UNCHANGED pending_routes
    BY <1>2 DEF SendOnLink
  <2>2. PICK hop \in Node :
            /\ \A m, p \in Node : m # n \/ p # hop => Queued(m, p)' = Queued(m, p)
            /\ \A x \in Queued(n, hop)' : x \in Queued(n, hop) \/ x = pkt
            /\ OnceQueued'
    BY <1>1, <2>1, EnqueueStores
  <2>3. \A m, d \in Node : Waiting(m, d)' = Waiting(m, d)
    BY <2>1 DEF Waiting
  <2>4. \A p \in Contents(LinkQueue(n, hop))' : p \in Contents(LinkQueue(n, hop)) \/ p = pkt
    BY <2>2, StoreContents
  <2>5. ASSUME NEW s \in Store, s # LinkQueue(n, hop), s # Airborne, NEW p \in Contents(s)'
        PROVE  p \in Contents(s)
    <3>1. CASE \E m, d \in Node : s = WaitingAt(m, d)
      BY <2>3, <2>5, <3>1, StoreContents
    <3>2. CASE \E m, q \in Node : s = LinkQueue(m, q)
      BY <2>2, <2>5, <3>2, StoreContents
    <3>3. QED
      BY <2>5, <3>1, <3>2, StoreKinds
  <2>6. LinkQueue(n, hop) \in Store
    BY StoreContents
  <2>7. Gains(LinkQueue(n, hop), {pkt})
    BY <2>4, <2>5, <2>6, QueueGains
  <2>8. OnceWaiting'
    BY <2>1 DEF OnceWaiting, Unrepeated
  <2>9. QED
    BY <2>2, <2>6, <2>7, <2>8
<1>3. CASE SendWaiting(n, pkt)
  <2>1. /\ UNCHANGED pending_tx
        /\ pending_routes' = [pending_routes EXCEPT ![n][pkt.dest] = WithRoomFor(@, pkt)]
    BY <1>3 DEF SendWaiting
  <2>10. \A m, e \in Node : \A x \in Waiting(m, e) : x.id # pkt.id
    BY <1>1
  <2>11. /\ pkt.dest \in Node
         /\ \A m, e \in Node : m # n \/ e # pkt.dest => Waiting(m, e)' = Waiting(m, e)
         /\ \A x \in Waiting(n, pkt.dest)' : x \in Waiting(n, pkt.dest) \/ x = pkt
         /\ OnceWaiting'
    BY <2>1, <2>10, WaitingStores, Zenon
  <2>2. PICK d \in Node :
           /\ \A m, e \in Node : m # n \/ e # d => Waiting(m, e)' = Waiting(m, e)
           /\ \A x \in Waiting(n, d)' : x \in Waiting(n, d) \/ x = pkt
           /\ OnceWaiting'
    BY <2>11
  <2>3. \A m, p \in Node : Queued(m, p)' = Queued(m, p)
    BY <2>1 DEF Queued
  <2>4. \A p \in Contents(WaitingAt(n, d))' : p \in Contents(WaitingAt(n, d)) \/ p = pkt
    BY <2>2, StoreContents
  <2>5. ASSUME NEW s \in Store, s # WaitingAt(n, d), s # Airborne, NEW p \in Contents(s)'
        PROVE  p \in Contents(s)
    <3>1. CASE \E m, e \in Node : s = WaitingAt(m, e)
      BY <2>2, <2>5, <3>1, StoreContents
    <3>2. CASE \E m, q \in Node : s = LinkQueue(m, q)
      BY <2>3, <2>5, <3>2, StoreContents
    <3>3. QED
      BY <2>5, <3>1, <3>2, StoreKinds
  <2>6. WaitingAt(n, d) \in Store
    BY StoreContents
  <2>7. Gains(WaitingAt(n, d), {pkt})
    BY <2>4, <2>5, <2>6, QueueGains
  <2>8. OnceQueued'
    BY <2>1 DEF OnceQueued, UnrepeatedTransits
  <2>9. QED
    BY <2>2, <2>6, <2>7, <2>8
<1>4. QED
    BY <1>2, <1>3 DEF Submit

\* relay.enqueue, of a packet that is in no queue.
LEMMA ForwardGains ==
    ASSUME TypeOK, MeshTypeOK, OnceWaiting, OnceQueued, NEW n \in Node, NEW pkt \in Packet,
           HasUsableLink(n, pkt.dest), EnqueueOnLink(n, HopToward(n, pkt.dest), pkt),
           UNCHANGED pending_routes, data_air' \subseteq data_air,
           \A s \in Store : s # Airborne => \A x \in Contents(s) : x.id # pkt.id,
           \A x \in Flying' : x.id # pkt.id
    PROVE  /\ \E target \in Store : Gains(target, {pkt})
           /\ OnceWaiting' /\ OnceQueued'
<1>1. \A m, p \in Node : \A x \in Queued(m, p) : x.id # pkt.id
    BY StoreContents, StoresDiffer
<1>2. PICK hop \in Node :
          /\ \A m, p \in Node : m # n \/ p # hop => Queued(m, p)' = Queued(m, p)
          /\ \A x \in Queued(n, hop)' : x \in Queued(n, hop) \/ x = pkt
          /\ OnceQueued'
    BY <1>1, EnqueueStores
<1>3. \A m, d \in Node : Waiting(m, d)' = Waiting(m, d)
    BY DEF Waiting
<1>4. \A p \in Contents(LinkQueue(n, hop))' : p \in Contents(LinkQueue(n, hop)) \/ p = pkt
    BY <1>2, StoreContents
<1>5. ASSUME NEW s \in Store, s # LinkQueue(n, hop), s # Airborne, NEW p \in Contents(s)'
      PROVE  p \in Contents(s)
  <2>1. CASE \E m, d \in Node : s = WaitingAt(m, d)
    BY <1>3, <1>5, <2>1, StoreContents
  <2>2. CASE \E m, q \in Node : s = LinkQueue(m, q)
    BY <1>2, <1>5, <2>2, StoreContents
  <2>3. QED
    BY <1>5, <2>1, <2>2, StoreKinds
<1>6. LinkQueue(n, hop) \in Store
    BY StoreContents
<1>7. Gains(LinkQueue(n, hop), {pkt})
    BY <1>4, <1>5, <1>6, QueueGains
<1>8. OnceWaiting'
    BY DEF OnceWaiting, Unrepeated
<1>9. QED
    BY <1>2, <1>6, <1>7, <1>8

\* A frame that leaves the air takes its packet with it.
LEMMA FrameLeaves ==
    ASSUME Apart, OnceFlying, NEW f \in data_air, data_air' = data_air \ {f}
    PROVE  /\ \A s \in Store : s # Airborne => \A x \in Contents(s) : x.id # f.transit.pkt.id
           /\ \A x \in Flying' : x.id # f.transit.pkt.id
           /\ f.transit.pkt \in Contents(Airborne)
           /\ OnceFlying'
<1>1. f.transit.pkt \in Contents(Airborne) /\ Airborne \in Store
    BY StoreContents DEF Flying
<1>2. \A s \in Store : s # Airborne => \A x \in Contents(s) : x.id # f.transit.pkt.id
    BY <1>1 DEF Apart
<1>3. \A x \in Flying' : x.id # f.transit.pkt.id
    BY DEF Flying, OnceFlying
<1>4. QED
    BY <1>1, <1>2, <1>3 DEF OnceFlying

\* Steps that at most take frames from the air.
LEMMA NothingGained ==
    ASSUME UNCHANGED <<pending_routes, pending_tx>>, data_air' \subseteq data_air,
           OnceWaiting, OnceQueued, OnceFlying
    PROVE  Gains(Airborne, {}) /\ OnceWaiting' /\ OnceQueued' /\ OnceFlying'
<1>1. /\ \A m, d \in Node : Waiting(m, d)' = Waiting(m, d) /\ Queued(m, d)' = Queued(m, d)
      /\ \A x \in Flying' : x \in Flying
    BY DEF Waiting, Queued, Flying
<1>2. ASSUME NEW s \in Store, NEW p \in Contents(s)' PROVE p \in Contents(s)
    BY <1>1, <1>2, StoreContents, StoreKinds
<1>3. Gains(Airborne, {})
    BY <1>2, StoreContents DEF Gains
<1>4. OnceWaiting' /\ OnceQueued' /\ OnceFlying'
    BY DEF OnceWaiting, OnceQueued, OnceFlying, Unrepeated, UnrepeatedTransits
<1>5. QED
    BY <1>3, <1>4

\* The payloads of a node wait for one destination each.
LEMMA WaitsOnceInOrder ==
    ASSUME Apart, OnceWaiting, NEW n \in Node
    PROVE  WaitsOnce(n)
<1> SUFFICES ASSUME NEW d \in Node, NEW e \in Node, NEW i \in DOMAIN pending_routes[n][d],
                    NEW j \in DOMAIN pending_routes[n][e],
                    pending_routes[n][d][i].id = pending_routes[n][e][j].id
             PROVE  d = e /\ i = j
    BY DEF WaitsOnce
<1>1. /\ pending_routes[n][d][i] \in Contents(WaitingAt(n, d))
      /\ pending_routes[n][e][j] \in Contents(WaitingAt(n, e))
      /\ WaitingAt(n, d) \in Store /\ WaitingAt(n, e) \in Store
    BY StoreContents DEF Waiting
<1>2. WaitingAt(n, d) = WaitingAt(n, e)
    BY <1>1 DEF Apart
<1>3. d = e
    BY <1>2, StoresDiffer
<1>4. QED
    BY <1>3 DEF OnceWaiting, Unrepeated

\* flushPendingFor: the payloads leave their destinations and come to the link.
LEMMA FlushMoves ==
    ASSUME TypeOK', MeshTypeOK, Apart, OnceWaiting, OnceQueued, NEW n \in Node, NEW peer \in Node,
           Flush(n, peer), UNCHANGED data_air
    PROVE  /\ Gains(LinkQueue(n, peer), UNION {Waiting(n, d) : d \in WaitingFor(n, peer)})
           /\ OnceWaiting' /\ OnceQueued'
<1> DEFINE pkts == UNION {Waiting(n, d) : d \in WaitingFor(n, peer)}
<1>1. \A q : q \in pkts <=> \E d \in WaitingFor(n, peer) : q \in Waiting(n, d)
  <2> DEFINE S == {Waiting(n, d) : d \in WaitingFor(n, peer)}
  <2>1. \A y : y \in S <=> \E d \in WaitingFor(n, peer) : y = Waiting(n, d)
    OBVIOUS
  <2> HIDE DEF S
  <2>2. \A q : q \in UNION S <=> \E d \in WaitingFor(n, peer) : q \in Waiting(n, d)
    BY <2>1
  <2>3. QED
    BY <2>2 DEF S
<1>2. WaitingFor(n, peer) \subseteq Node
    BY DEF WaitingFor
<1>3. /\ \A m, d \in Node : m # n => pending_routes'[m][d] = pending_routes[m][d]
      /\ \A d \in WaitingFor(n, peer) : pending_routes'[n][d] = <<>>
      /\ \A d \in Node \ WaitingFor(n, peer) : pending_routes'[n][d] = pending_routes[n][d]
    BY FlushClears
<1>4. PICK more \in Seq(Transit) :
          /\ Extended(n, peer, more)
          /\ \A k \in DOMAIN more : \E d \in WaitingFor(n, peer) :
                \E j \in DOMAIN pending_routes[n][d] :
                    more[k] = TransitOn(n, pending_routes[n][d][j], peer, routes')
          /\ WaitsOnce(n) => \A k, l \in DOMAIN more : more[k].pkt.id = more[l].pkt.id => k = l
    BY FlushExtends
<1>5. Extended(n, peer, more) /\ UnrepeatedTransits(more)
    BY <1>4, WaitsOnceInOrder DEF UnrepeatedTransits
<1>6. ASSUME NEW k \in DOMAIN more PROVE more[k].pkt \in pkts
  <2>1. PICK d \in WaitingFor(n, peer) : \E j \in DOMAIN pending_routes[n][d] :
            more[k] = TransitOn(n, pending_routes[n][d][j], peer, routes')
    BY <1>4
  <2>2. PICK j \in DOMAIN pending_routes[n][d] :
            more[k] = TransitOn(n, pending_routes[n][d][j], peer, routes')
    BY <2>1
  <2>3. more[k].pkt = pending_routes[n][d][j]
    BY <2>2 DEF TransitOn
  <2>4. more[k].pkt \in Waiting(n, d)
    BY <2>3 DEF Waiting
  <2> HIDE DEF pkts
  <2>5. QED
    BY <1>1, <2>4
<1> HIDE DEF pkts
<1>7. \A q \in pkts : \E d \in WaitingFor(n, peer) : q \in Waiting(n, d)
    BY <1>1
<1>8. ASSUME NEW q \in pkts, NEW x \in Queued(n, peer) PROVE x.id # q.id
  <2>1. PICK d \in Node : q \in Waiting(n, d)
    BY <1>2, <1>7
  <2>2. q \in Contents(WaitingAt(n, d)) /\ x \in Contents(LinkQueue(n, peer))
    BY <2>1, StoreContents
  <2>3. WaitingAt(n, d) \in Store /\ LinkQueue(n, peer) \in Store
    BY StoreContents
  <2>4. WaitingAt(n, d) # LinkQueue(n, peer)
    BY StoresDiffer
  <2>5. QED
    BY <2>2, <2>3, <2>4 DEF Apart
<1>9. /\ \A m, p \in Node : m # n \/ p # peer => Queued(m, p)' = Queued(m, p)
      /\ \A x \in Queued(n, peer)' : x \in Queued(n, peer) \/ \E k \in DOMAIN more : x = more[k].pkt
    BY <1>5, ExtendedStores
<1>10. OnceQueued'
  <2>1. \A k \in DOMAIN more : \A x \in Queued(n, peer) : x.id # more[k].pkt.id
    BY <1>6, <1>8
  <2>2. QED
    BY <1>5, <2>1, ExtendedStores
<1>11. \A x \in Queued(n, peer)' : x \in Queued(n, peer) \/ x \in pkts
    BY <1>6, <1>9
<1>12. \A m, d \in Node : \A x \in Waiting(m, d)' : x \in Waiting(m, d)
  <2> SUFFICES ASSUME NEW m \in Node, NEW d \in Node, NEW x \in Waiting(m, d)'
               PROVE  x \in Waiting(m, d)
    OBVIOUS
  <2>1. PICK i \in DOMAIN pending_routes'[m][d] : x = pending_routes'[m][d][i]
    BY DEF Waiting
  <2>2. pending_routes'[m][d] = pending_routes[m][d]
    BY <1>3, <2>1
  <2>3. QED
    BY <2>1, <2>2 DEF Waiting
<1>13. \A d \in WaitingFor(n, peer) : Waiting(n, d)' = {}
    BY <1>3 DEF Waiting
<1>14. \A s \in Store : s # LinkQueue(n, peer) => \A p \in Contents(s)' : p \in Contents(s)
  <2> SUFFICES ASSUME NEW s \in Store, s # LinkQueue(n, peer), NEW p \in Contents(s)'
               PROVE  p \in Contents(s)
    OBVIOUS
  <2>1. CASE \E m, d \in Node : s = WaitingAt(m, d)
    BY <1>12, <2>1, StoreContents
  <2>2. CASE \E m, q \in Node : s = LinkQueue(m, q)
    BY <1>9, <2>2, StoreContents
  <2>3. CASE s = Airborne
    <3>1. Flying' = Flying
      BY DEF Flying
    <3>2. QED
      BY <2>3, <3>1, StoreContents
  <2>4. QED
    BY <2>1, <2>2, <2>3, StoreKinds
<1>15. \A q \in pkts : \E o \in Store : /\ \E x \in Contents(o) : x.id = q.id
                                        /\ \A p \in Contents(o)' : p.id # q.id
  <2> SUFFICES ASSUME NEW q \in pkts
               PROVE  \E o \in Store : /\ \E x \in Contents(o) : x.id = q.id
                                       /\ \A p \in Contents(o)' : p.id # q.id
    OBVIOUS
  <2>1. PICK d \in WaitingFor(n, peer) : q \in Waiting(n, d)
    BY <1>7
  <2>2. d \in Node
    BY <1>2
  <2>3. WaitingAt(n, d) \in Store /\ q \in Contents(WaitingAt(n, d))
    BY <2>1, <2>2, StoreContents
  <2>4. Contents(WaitingAt(n, d))' = {}
    BY <1>13, <2>2, StoreContents
  <2>5. QED
    BY <2>3, <2>4
<1>16. LinkQueue(n, peer) \in Store
      /\ \A p \in Contents(LinkQueue(n, peer))' : p \in Contents(LinkQueue(n, peer)) \/ p \in pkts
    BY <1>11, StoreContents
<1>17. Gains(LinkQueue(n, peer), pkts)
    BY <1>14, <1>15, <1>16, Transfer
<1>18. OnceWaiting'
  <2>1. ASSUME NEW m \in Node, NEW d \in Node PROVE Unrepeated(pending_routes'[m][d])
    <3>1. pending_routes'[m][d] = pending_routes[m][d] \/ pending_routes'[m][d] = <<>>
      BY <1>3
    <3>2. QED
      BY <3>1 DEF OnceWaiting, Unrepeated
  <2>2. QED
    BY <2>1 DEF OnceWaiting, Unrepeated
<1>19. QED
    BY <1>10, <1>17, <1>18 DEF pkts

LEMMA FlushGains ==
    ASSUME TypeOK', MeshTypeOK, Apart, OnceWaiting, OnceQueued, OnceFlying,
           NEW n \in Node, NEW peer \in Node, FlushPendingFor(n, peer), UNCHANGED data_air
    PROVE  /\ \E target \in Store : \E pkts \in SUBSET Inside : Gains(target, pkts)
           /\ OnceWaiting' /\ OnceQueued' /\ OnceFlying'
<1>1. CASE peer \in links'[n]
  <2>1. Flush(n, peer)
    BY <1>1 DEF FlushPendingFor
  <2>2. PICK pkts : pkts = UNION {Waiting(n, d) : d \in WaitingFor(n, peer)}
    OBVIOUS
  <2>3. \A q \in pkts : \E d \in Node : q \in Waiting(n, d)
    <3> DEFINE S == {Waiting(n, d) : d \in WaitingFor(n, peer)}
    <3>1. \A y \in S : \E d \in Node : y = Waiting(n, d)
      BY DEF WaitingFor
    <3>2. \A q \in pkts : \E y \in S : q \in y
      BY <2>2
    <3> HIDE DEF S
    <3>3. QED
      BY <3>1, <3>2
  <2>4. \A q \in pkts : q \in Inside
    BY <2>3, InsideContents, StoreContents
  <2>5. Gains(LinkQueue(n, peer), pkts)
    BY <2>1, <2>2, FlushMoves
  <2>6. OnceWaiting' /\ OnceQueued'
    BY <2>1, FlushMoves
  <2>7. OnceFlying'
    BY DEF OnceFlying
  <2>8. pkts \in SUBSET Inside /\ LinkQueue(n, peer) \in Store
    BY <2>4, StoreContents
  <2>9. QED
    BY <2>5, <2>6, <2>7, <2>8
<1>2. CASE peer \notin links'[n]
  <2>1. UNCHANGED <<pending_routes, pending_tx>>
    BY <1>2 DEF FlushPendingFor
  <2>2. Gains(Airborne, {}) /\ OnceWaiting' /\ OnceQueued' /\ OnceFlying'
    BY <2>1, NothingGained
  <2>3. Airborne \in Store
    BY StoreContents
  <2>4. QED
    BY <2>2, <2>3
<1>3. QED
    BY <1>1, <1>2

\* maybeTxOnCell: the first k packets leave the link's queue for the air.
LEMMA TakesGains ==
    ASSUME MeshTypeOK, Apart, OnceWaiting, OnceQueued, OnceFlying, NEW n \in Node, NEW p \in Node,
           NEW k \in 0 .. Len(pending_tx[n][p]), Takes(n, p, k)
    PROVE  /\ \E target \in Store : \E pkts \in SUBSET Inside : Gains(target, pkts)
           /\ OnceWaiting' /\ OnceQueued' /\ OnceFlying'
<1> DEFINE queue == pending_tx[n][p]
           pkts == {queue[i].pkt : i \in 1 .. k}
<1>1. /\ \A m, q \in Node : m # n \/ q # p => pending_tx'[m][q] = pending_tx[m][q]
      /\ \A i \in DOMAIN pending_tx'[n][p] : /\ i + k \in DOMAIN pending_tx[n][p]
                                             /\ pending_tx'[n][p][i] = pending_tx[n][p][i + k]
    BY TakesProperties
<1>2. queue \in Seq(Transit) /\ k \in Nat /\ \A i \in 1 .. k : i \in DOMAIN queue
  <2>1. queue \in Seq(Transit)
    BY QueueTypes
  <2>2. QED
    BY <2>1
<1>3. UNCHANGED pending_routes
      /\ \A f \in data_air' : f \in data_air \/ \E i \in 1 .. k : f = Sealed(n, p, i)
    BY DEF Takes
<1>4. UnrepeatedTransits(queue)
    BY DEF OnceQueued
<1>5. \A i \in 1 .. k : Sealed(n, p, i).transit = queue[i]
    BY DEF Sealed
<1>6. \A m, q \in Node : \A x \in Queued(m, q)' : x \in Queued(m, q)
  <2> SUFFICES ASSUME NEW m \in Node, NEW q \in Node, NEW i \in DOMAIN pending_tx'[m][q]
               PROVE  \E j \in DOMAIN pending_tx[m][q] : pending_tx'[m][q][i] = pending_tx[m][q][j]
    BY DEF Queued
  <2>1. QED
    BY <1>1
<1>7. ASSUME NEW i \in 1 .. k, NEW x \in Queued(n, p)' PROVE x.id # queue[i].pkt.id
  <2>1. PICK j \in DOMAIN pending_tx'[n][p] : x = pending_tx'[n][p][j].pkt
    BY DEF Queued
  <2>2. j + k \in DOMAIN queue /\ x = queue[j + k].pkt
    BY <1>1, <2>1
  <2>3. j \in Nat /\ j > 0
    <3>1. pending_tx'[n][p] = SubSeq(queue, k + 1, Len(queue))
      BY DEF Takes, MeshTypeOK
    <3>2. pending_tx'[n][p] \in Seq(Transit)
      BY <1>2, <3>1, RestProperties
    <3>3. QED
      BY <3>2
  <2>4. i # j + k /\ i \in DOMAIN queue
    BY <1>2, <2>3
  <2> HIDE DEF queue
  <2>5. QED
    BY <1>4, <2>2, <2>4 DEF UnrepeatedTransits
<1>8. \A i \in 1 .. k : queue[i].pkt \in Queued(n, p)
    BY <1>2 DEF Queued
<1>9. \A q \in pkts : \E i \in 1 .. k : q = queue[i].pkt
    OBVIOUS
<1>10. \A i \in 1 .. k : queue[i].pkt \in pkts
    OBVIOUS
<1> HIDE DEF queue, pkts
<1>11. \A x \in Flying' : x \in Flying \/ x \in pkts
    BY <1>3, <1>5, <1>10 DEF Flying
<1>12. \A m, d \in Node : Waiting(m, d)' = Waiting(m, d)
    BY <1>3 DEF Waiting
<1>13. \A s \in Store : s # Airborne => \A x \in Contents(s)' : x \in Contents(s)
    BY <1>6, <1>12, StoreContents, StoreKinds
<1>14. \A q \in pkts : \E o \in Store : /\ \E x \in Contents(o) : x.id = q.id
                                        /\ \A x \in Contents(o)' : x.id # q.id
  <2> SUFFICES ASSUME NEW q \in pkts
               PROVE  /\ \E x \in Contents(LinkQueue(n, p)) : x.id = q.id
                      /\ \A x \in Contents(LinkQueue(n, p))' : x.id # q.id
    BY StoreContents
  <2>1. PICK i \in 1 .. k : q = queue[i].pkt
    BY <1>9
  <2>2. QED
    BY <1>7, <1>8, <2>1, StoreContents
<1>15. Airborne \in Store /\ \A x \in Contents(Airborne)' : x \in Contents(Airborne) \/ x \in pkts
    BY <1>11, StoreContents
<1>16. Gains(Airborne, pkts)
    BY <1>13, <1>14, <1>15, Transfer
<1>17. pkts \in SUBSET Inside
    BY <1>8, <1>9, InsideContents, StoreContents
<1>18. OnceWaiting'
    BY <1>3 DEF OnceWaiting, Unrepeated
<1>19. OnceQueued'
  <2>1. ASSUME NEW m \in Node, NEW q \in Node, NEW i \in DOMAIN pending_tx'[m][q],
               NEW j \in DOMAIN pending_tx'[m][q],
               pending_tx'[m][q][i].pkt.id = pending_tx'[m][q][j].pkt.id
        PROVE  i = j
    <3>1. CASE m = n /\ q = p
      <4>1. i + k = j + k
        BY <1>1, <1>4, <2>1, <3>1 DEF queue, UnrepeatedTransits
      <4>2. i \in Int /\ j \in Int
        <5>1. pending_tx'[n][p] = SubSeq(queue, k + 1, Len(queue))
          BY DEF Takes, MeshTypeOK, queue
        <5>2. pending_tx'[n][p] \in Seq(Transit)
          BY <1>2, <5>1, RestProperties DEF queue
        <5>3. QED
          BY <3>1, <5>2
      <4>3. QED
        BY <1>2, <4>1, <4>2
    <3>2. CASE m # n \/ q # p
      BY <1>1, <2>1, <3>2 DEF OnceQueued, UnrepeatedTransits
    <3>3. QED
      BY <3>1, <3>2
  <2>2. QED
    BY <2>1 DEF OnceQueued, UnrepeatedTransits
<1>20. OnceFlying'
  <2>1. ASSUME NEW f \in data_air', NEW g \in data_air', f.transit.pkt.id = g.transit.pkt.id
        PROVE  f = g
    <3>1. CASE f \in data_air /\ g \in data_air
      BY <2>1, <3>1 DEF OnceFlying
    <3>2. ASSUME NEW h \in data_air, NEW i \in 1 .. k
          PROVE  h.transit.pkt.id # Sealed(n, p, i).transit.pkt.id
      <4>1. h.transit.pkt \in Contents(Airborne)
        BY StoreContents DEF Flying
      <4>2. queue[i].pkt \in Contents(LinkQueue(n, p))
        BY <1>8, StoreContents
      <4>3. QED
        BY <1>5, <4>1, <4>2, StoreContents, StoresDiffer DEF Apart
    <3>3. ASSUME NEW i \in 1 .. k, NEW j \in 1 .. k,
                 Sealed(n, p, i).transit.pkt.id = Sealed(n, p, j).transit.pkt.id
          PROVE  Sealed(n, p, i) = Sealed(n, p, j)
      <4>1. i = j
        BY <1>2, <1>4, <1>5, <3>3 DEF UnrepeatedTransits
      <4>2. QED
        BY <4>1
    <3>4. QED
      BY <1>3, <2>1, <3>1, <3>2, <3>3
  <2>2. QED
    BY <2>1 DEF OnceFlying
<1>21. QED
    BY <1>16, <1>17, <1>18, <1>19, <1>20, <1>15

(***************************************************************************)
(* The steps, as the service sees them.                                    *)
(***************************************************************************)
\* Packets that were inside move to one place: the service sees at most a loss.
LEMMA MovesAreLosses ==
    ASSUME Apart, Known, NEW target \in Store, NEW pkts \in SUBSET Inside,
           Gains(target, pkts), UNCHANGED sent
    PROVE  Apart' /\ Known' /\ Inside' \subseteq Inside
<1>1. Inside' \subseteq Inside
    BY GainsInside
<1>2. \A q \in pkts : q.id \in sent'
    BY InsideContents DEF Known
<1>3. Apart'
    BY GainsKeepsApart
<1>4. Known'
    BY <1>2, GainsKeepsKnown
<1>5. QED
    BY <1>1, <1>3, <1>4

\* Whatever comes inside was there before under its identity, or is new.
LEMMA StaysGone ==
    ASSUME Gone, UNCHANGED delivered, sent \subseteq sent',
           \A y \in Inside' : y.id \notin sent \/ \E z \in Inside : z.id = y.id
    PROVE  Gone'
<1> SUFFICES ASSUME NEW n \in Node, NEW x \in delivered'[n]
             PROVE  x.id \in sent' /\ \A y \in Inside' : y.id # x.id
    BY DEF Gone
<1>1. x.id \in sent /\ \A z \in Inside : z.id # x.id
    BY DEF Gone
<1>2. QED
    BY <1>1

LEMMA LossStaysGone ==
    ASSUME Gone, UNCHANGED <<delivered, sent>>, Inside' \subseteq Inside
    PROVE  Gone'
    BY StaysGone

LEMMA LossImplements ==
    ASSUME Inside' \subseteq Inside, UNCHANGED <<sent, delivered>>
    PROVE  Service!Next
    BY DEF Service!Next, Service!Lose

LEMMA QuietImplements ==
    ASSUME OnceInv, UNCHANGED dataVars
    PROVE  OnceInv' /\ Service!Next
<1>1. Gains(Airborne, {}) /\ OnceWaiting' /\ OnceQueued' /\ OnceFlying'
    BY NothingGained DEF dataVars, OnceInv
<1>2. Apart' /\ Known' /\ Inside' \subseteq Inside
    BY <1>1, StoreContents, MovesAreLosses DEF dataVars, OnceInv
<1>3. Service!Next /\ Gone'
    BY <1>2, LossImplements, LossStaysGone DEF dataVars, OnceInv
<1>4. QED
    BY <1>1, <1>2, <1>3 DEF OnceInv

LEMMA HostSendImplements ==
    ASSUME TypeOK, MeshTypeOK, OnceInv, NEW n \in Node, NEW d \in Node, NEW i \in PacketId,
           HostSend(n, d, i)
    PROVE  OnceInv' /\ Service!Next
<1>1. PICK pkt \in Packet : pkt = [id |-> i, form |-> FirstForm[i], source |-> n, dest |-> d]
    BY SentPacketType
<1>2. pkt.id = i /\ pkt.source = n /\ pkt.dest = d
    BY <1>1
<1>3. /\ i \notin sent /\ d # n /\ sent' = sent \cup {i} /\ Submit(n, pkt)
      /\ UNCHANGED <<data_air, delivered>>
    BY <1>1 DEF HostSend
<1>4. \A s \in Store : \A x \in Contents(s) : x.id # pkt.id
    BY <1>2, <1>3 DEF OnceInv, Known
<1>5. \A x \in Flying' : x.id # pkt.id
    BY <1>3, <1>4, StoreContents DEF Flying
<1>6. OnceWaiting /\ OnceQueued /\ OnceFlying /\ Apart /\ Known
    BY DEF OnceInv
<1>7. data_air' \subseteq data_air /\ \A s \in Store : s # Airborne => \A x \in Contents(s) : x.id # pkt.id
    BY <1>3, <1>4
<1>8. /\ \E target \in Store : Gains(target, {pkt})
      /\ OnceWaiting' /\ OnceQueued'
    BY <1>3, <1>5, <1>6, <1>7, SubmitGains
<1>9. PICK target \in Store : Gains(target, {pkt})
    BY <1>8
<1>10. Apart'
    BY <1>6, <1>9, GainsKeepsApart
<1>11. sent \subseteq sent' /\ \A q \in {pkt} : q.id \in sent'
    BY <1>2, <1>3
<1>12. Known'
    BY <1>6, <1>9, <1>11, GainsKeepsKnown
<1>13. OnceFlying'
    BY <1>3, <1>6 DEF OnceFlying
<1>14. Inside' \subseteq Inside \cup {pkt}
    BY <1>9, GainsInside
<1>15. Service!Offer(pkt)
    BY <1>2, <1>3, <1>14 DEF Service!Offer
<1>16. pkt \in Service!Packet
    BY DEF Packet, Form, Service!Packet, Service!Form
<1>17. Gone'
  <2>1. pkt.id \notin sent
    BY <1>2, <1>3
  <2>2. \A y \in Inside' : y.id \notin sent \/ \E z \in Inside : z.id = y.id
    BY <1>14, <2>1
  <2>3. QED
    BY <1>3, <1>11, <2>2, StaysGone DEF OnceInv
<1>18. QED
    BY <1>8, <1>10, <1>12, <1>13, <1>15, <1>16, <1>17 DEF OnceInv, Service!Next

LEMMA FlushImplements ==
    ASSUME TypeOK', MeshTypeOK, OnceInv, NEW n \in Node, NEW f \in Frame,
           MeshLinkUp(n, f) \/ MeshRrepAtOrigin(n, f)
    PROVE  OnceInv' /\ Service!Next
<1>1. f.from \in Node
    BY FrameFields
<1>2. FlushPendingFor(n, f.from) /\ UNCHANGED <<data_air, delivered, sent>>
    BY DEF MeshLinkUp, MeshRrepAtOrigin
<1>3. OnceWaiting /\ OnceQueued /\ OnceFlying /\ Apart /\ Known
    BY DEF OnceInv
<1>4. /\ \E target \in Store : \E pkts \in SUBSET Inside : Gains(target, pkts)
      /\ OnceWaiting' /\ OnceQueued' /\ OnceFlying'
    BY <1>1, <1>2, <1>3, FlushGains
<1>5. Apart' /\ Known' /\ Inside' \subseteq Inside
    BY <1>2, <1>3, <1>4, MovesAreLosses
<1>6. Service!Next /\ Gone'
    BY <1>2, <1>5, LossImplements, LossStaysGone DEF OnceInv
<1>7. QED
    BY <1>4, <1>5, <1>6 DEF OnceInv

LEMMA TakesImplements ==
    ASSUME MeshTypeOK, OnceInv, NEW n \in Node, NEW p \in Node,
           NEW k \in 0 .. Len(pending_tx[n][p]), Takes(n, p, k)
    PROVE  OnceInv' /\ Service!Next
<1>1. UNCHANGED <<delivered, sent>>
    BY DEF Takes
<1>2. OnceWaiting /\ OnceQueued /\ OnceFlying /\ Apart /\ Known
    BY DEF OnceInv
<1>3. /\ \E target \in Store : \E pkts \in SUBSET Inside : Gains(target, pkts)
      /\ OnceWaiting' /\ OnceQueued' /\ OnceFlying'
    BY <1>2, TakesGains
<1>4. Apart' /\ Known' /\ Inside' \subseteq Inside
    BY <1>1, <1>2, <1>3, MovesAreLosses
<1>5. Service!Next /\ Gone'
    BY <1>1, <1>4, LossImplements, LossStaysGone DEF OnceInv
<1>6. QED
    BY <1>3, <1>4, <1>5 DEF OnceInv

LEMMA ReceiveDataImplements ==
    ASSUME TypeOK, MeshTypeOK, OnceInv, NEW f \in data_air, ReceiveData(f.to, f)
    PROVE  OnceInv' /\ Service!Next
<1> DEFINE n == f.to
           pkt == f.transit.pkt
<1>1. /\ n \in Node /\ pkt \in Packet /\ pkt.id \in PacketId
      /\ pkt.source \in Node /\ pkt.dest \in Node
    BY DataFrameFields
<1>2. HearsData(n, f)
    BY DEF ReceiveData, DataUnopened, DeliverLocal, AnswerEcho, ForwardOnLink, ForwardFails, OpensData
<1>3. data_air' = data_air \ {f} /\ UNCHANGED sent
    BY <1>2 DEF HearsData
<1>4. OnceWaiting /\ OnceQueued /\ OnceFlying /\ Apart /\ Known
    BY DEF OnceInv
<1>5. /\ \A s \in Store : s # Airborne => \A x \in Contents(s) : x.id # pkt.id
      /\ \A x \in Flying' : x.id # pkt.id
      /\ pkt \in Contents(Airborne)
      /\ OnceFlying'
    BY <1>3, <1>4, FrameLeaves
<1>6. pkt \in Inside /\ Airborne \in Store
    BY <1>5, InsideContents, StoreContents
<1>7. data_air' \subseteq data_air
    BY <1>3
<1>8. ASSUME UNCHANGED <<pending_routes, pending_tx>>
      PROVE  /\ Apart' /\ Known' /\ OnceWaiting' /\ OnceQueued'
             /\ Inside' \subseteq Inside \ {pkt}
             /\ \A y \in Inside' : y.id # pkt.id
  <2>1. Gains(Airborne, {}) /\ OnceWaiting' /\ OnceQueued'
    BY <1>4, <1>7, <1>8, NothingGained
  <2>2. Apart' /\ Known' /\ Inside' \subseteq Inside
    BY <1>3, <1>4, <1>6, <2>1, MovesAreLosses
  <2>3. \A s \in Store : s # Airborne => Contents(s)' = Contents(s)
    <3>1. \A m, d \in Node : Waiting(m, d)' = Waiting(m, d) /\ Queued(m, d)' = Queued(m, d)
      BY <1>8 DEF Waiting, Queued
    <3>2. QED
      BY <3>1, StoreContents, StoreKinds
  <2>4. \A s \in Store : \A x \in Contents(s)' : x.id # pkt.id
    BY <1>5, <2>3, StoreContents
  <2>5. pkt \notin Inside' /\ \A y \in Inside' : y.id # pkt.id
    BY <2>4, InsideContents
  <2>6. QED
    BY <2>1, <2>2, <2>5
<1>9. CASE DeliverLocal(n, f)
  <2>1. /\ pkt.form # "request" /\ pkt.dest = n
        /\ delivered' = [delivered EXCEPT ![n] = @ \cup {pkt}]
        /\ UNCHANGED <<pending_routes, pending_tx>>
    BY <1>9 DEF DeliverLocal
  <2>2. pkt \notin delivered[n] /\ pkt.id \in sent
    BY <1>1, <1>4, <1>5, <1>6 DEF OnceInv, Gone, Known
  <2>3. Service!Deliver(pkt)
    BY <1>3, <1>8, <2>1, <2>2 DEF Service!Deliver
  <2>4. Gone'
    <3> SUFFICES ASSUME NEW m \in Node, NEW x \in delivered'[m]
                 PROVE  x.id \in sent' /\ \A y \in Inside' : y.id # x.id
      BY DEF Gone
    <3>1. delivered \in [Node -> SUBSET Packet]
      BY DEF MeshTypeOK
    <3>2. x \in delivered[m] \/ x = pkt
      BY <1>1, <2>1, <3>1
    <3>3. CASE x \in delivered[m]
      <4>1. x.id \in sent /\ \A y \in Inside : y.id # x.id
        BY <3>3 DEF OnceInv, Gone
      <4>2. Inside' \subseteq Inside
        BY <1>8, <2>1
      <4>3. QED
        BY <1>3, <4>1, <4>2
    <3>4. CASE x = pkt
      BY <1>3, <1>8, <2>1, <2>2, <3>4
    <3>5. QED
      BY <3>2, <3>3, <3>4
  <2>5. QED
    BY <1>5, <1>6, <1>8, <2>1, <2>3, <2>4 DEF OnceInv, Service!Next
<1>10. CASE DataUnopened(n, f) \/ ForwardFails(n, f)
  <2>1. UNCHANGED <<pending_routes, pending_tx, delivered>>
    BY <1>10 DEF DataUnopened, ForwardFails
  <2>2. Service!Next /\ Gone'
    BY <1>3, <1>8, <2>1, LossImplements, LossStaysGone DEF OnceInv
  <2>3. QED
    BY <1>5, <1>8, <2>1, <2>2 DEF OnceInv
<1>11. CASE AnswerEcho(n, f)
  <2>1. PICK answer \in Packet : answer = [id |-> pkt.id, form |-> "response", source |-> n, dest |-> pkt.source]
    BY AnswerType
  <2>2. /\ pkt.form = "request" /\ pkt.dest = n /\ Submit(n, answer) /\ UNCHANGED delivered
    BY <1>11, <2>1 DEF AnswerEcho
  <2>3. answer.id = pkt.id /\ answer = Service!Response(pkt)
    BY <2>1, <2>2 DEF Service!Response
  <2>4. /\ \A s \in Store : s # Airborne => \A x \in Contents(s) : x.id # answer.id
        /\ \A x \in Flying' : x.id # answer.id
    BY <1>5, <2>3
  <2>5. /\ \E target \in Store : Gains(target, {answer})
        /\ OnceWaiting' /\ OnceQueued'
    BY <1>1, <1>4, <1>7, <2>2, <2>4, SubmitGains
  <2>6. PICK target \in Store : Gains(target, {answer})
    BY <2>5
  <2>7. Apart'
    BY <1>4, <2>6, GainsKeepsApart
  <2>8. sent \subseteq sent' /\ \A q \in {answer} : q.id \in sent'
    BY <1>3, <1>4, <1>5, <1>6, <2>3 DEF Known
  <2>9. Known'
    BY <1>4, <2>6, <2>8, GainsKeepsKnown
  <2>10. Inside' \subseteq (Inside \ {pkt}) \cup {answer}
    <3>1. \A x \in Inside' : x \in Inside \/ x = answer
      BY <2>6, GainsInside
    <3>2. ASSUME pkt \in Inside' PROVE pkt = answer
      <4>1. PICK s \in Store : pkt \in Contents(s)'
        BY <3>2, InsideContents
      <4>2. s # Airborne
        BY <1>5, <4>1, StoreContents
      <4>3. pkt \notin Contents(s)
        BY <1>5, <4>2
      <4>4. pkt \in {answer}
        BY <2>6, <4>1, <4>3 DEF Gains
      <4>5. QED
        BY <4>4
    <3>3. QED
      BY <3>1, <3>2
  <2>11. Service!Answer(pkt)
    BY <1>3, <2>2, <2>3, <2>10 DEF Service!Answer
  <2>12. Gone'
    <3>1. \A y \in Inside' : \E z \in Inside : z.id = y.id
      BY <1>6, <2>3, <2>10
    <3>2. QED
      BY <1>3, <2>2, <3>1, StaysGone DEF OnceInv
  <2>13. QED
    BY <1>5, <1>6, <2>5, <2>7, <2>9, <2>11, <2>12 DEF OnceInv, Service!Next
<1>12. CASE ForwardOnLink(n, f)
  <2>1. UNCHANGED <<pending_routes, delivered>> /\ HasUsableLink(n, pkt.dest)
    BY <1>12 DEF ForwardOnLink
  <2>2. CASE ReturnsToSource(n, pkt)
    <3>1. UNCHANGED pending_tx
      BY <1>12, <2>2 DEF ForwardOnLink
    <3>2. Service!Next /\ Gone'
      BY <1>3, <1>8, <2>1, <3>1, LossImplements, LossStaysGone DEF OnceInv
    <3>3. QED
      BY <1>5, <1>8, <2>1, <3>1, <3>2 DEF OnceInv
  <2>3. CASE ~ReturnsToSource(n, pkt)
    <3>1. EnqueueOnLink(n, HopToward(n, pkt.dest), pkt)
      BY <1>12, <2>3 DEF ForwardOnLink
    <3>2. /\ \E target \in Store : Gains(target, {pkt})
          /\ OnceWaiting' /\ OnceQueued'
      BY <1>1, <1>4, <1>5, <1>7, <2>1, <3>1, ForwardGains
    <3>3. {pkt} \in SUBSET Inside
      BY <1>6
    <3>4. Apart' /\ Known' /\ Inside' \subseteq Inside
      BY <1>3, <1>4, <3>2, <3>3, MovesAreLosses
    <3>5. Service!Next /\ Gone'
      BY <1>3, <2>1, <3>4, LossImplements, LossStaysGone DEF OnceInv
    <3>6. QED
      BY <1>5, <3>2, <3>4, <3>5 DEF OnceInv
  <2>4. QED
    BY <2>2, <2>3
<1>13. QED
    BY <1>9, <1>10, <1>11, <1>12 DEF ReceiveData

LEMMA StepImplements ==
    ASSUME MeshInv, OnceInv, [MeshNext]_meshVars
    PROVE  OnceInv' /\ Service!Next
<1>1. TypeOK /\ TypeOK' /\ MeshTypeOK
    BY StepMeshInv DEF MeshInv
<1>2. QED
    BY <1>1, MeshStepKinds, QuietImplements, HostSendImplements, FlushImplements, TakesImplements,
       ReceiveDataImplements

LEMMA InitImplements == MeshInit => OnceInv /\ Service!Init
<1> SUFFICES ASSUME MeshInit PROVE OnceInv /\ Service!Init
    OBVIOUS
<1>1. /\ \A n, d \in Node : pending_routes[n][d] = <<>> /\ pending_tx[n][d] = <<>>
      /\ data_air = {} /\ delivered = [n \in Node |-> {}] /\ sent = {}
    BY DEF MeshInit
<1>2. \A s \in Store : Contents(s) = {}
  <2>1. /\ \A n, d \in Node : Waiting(n, d) = {} /\ Queued(n, d) = {}
        /\ Flying = {}
    BY <1>1 DEF Waiting, Queued, Flying
  <2>2. QED
    BY <2>1, StoreContents, StoreKinds
<1>3. Inside = {}
    BY <1>2, InsideContents
<1>4. Apart /\ Known
    BY <1>2 DEF Apart, Known
<1>5. OnceWaiting /\ OnceQueued /\ OnceFlying
    BY <1>1 DEF OnceWaiting, OnceQueued, OnceFlying, Unrepeated, UnrepeatedTransits
<1>6. Gone
    BY <1>1 DEF Gone
<1>7. QED
    BY <1>1, <1>3, <1>4, <1>5, <1>6 DEF OnceInv, Service!Init

\* The mesh implements the datagram service: whatever its queues, flushes, relays,
\* links set up again and the air do (route.send, flushPendingFor, maybeTxOnCell,
\* handleEncryptedRx), a packet comes out at most once, at the node it names, as it
\* was handed in, and an echo request turns into one response.
THEOREM MeshImplementsDatagram == MeshSpec => Delivers
<1>1. MeshInit => OnceInv /\ Service!Init
    BY InitImplements
<1>2. MeshInv /\ OnceInv /\ [MeshNext]_meshVars => OnceInv' /\ Service!Next
    BY StepImplements
<1>3. QED
    BY <1>1, <1>2, MeshInvariance, PTL DEF MeshSpec, Delivers, Service!Spec
=============================================================================
