-------------------------- MODULE SloraRouteProofs --------------------------
(***************************************************************************)
(* Routes never form a loop.  RouteInv is inductive: every frame in flight *)
(* is backed by its sender's own table, and stays so because tables only   *)
(* improve (Grow); a receiver that keeps the advertised route is therefore *)
(* strictly further from the destination than the sender (UpsertSound).    *)
(***************************************************************************)
EXTENDS SloraControlProofs

\* What no step ever undoes: routes improve, sequence numbers and the history of
\* discoveries only grow.
Grow ==
    /\ \A n, d \in Node : routes[n][d] # NoEntry =>
          /\ routes'[n][d] # NoEntry
          /\ \/ routes'[n][d].seq > routes[n][d].seq
             \/ /\ routes'[n][d].seq = routes[n][d].seq
                /\ routes'[n][d].cost <= routes[n][d].cost
    /\ \A d \in Node : seq[d] <= seq'[d]
    /\ \A id \in Id : discovery[id] # NoEntry => discovery'[id] = discovery[id]

\* The fields of a route that exists.
LEMMA RouteFields ==
    ASSUME TypeOK, NEW n \in Node, NEW d \in Node, routes[n][d] # NoEntry
    PROVE  /\ routes[n][d].next_hop \in Node
           /\ routes[n][d].cost \in 0 .. MaxCost
           /\ routes[n][d].seq \in Nat
    BY DEF TypeOK, RouteEntry

LEMMA RouteFieldsPrimed ==
    ASSUME TypeOK', NEW n \in Node, NEW d \in Node, routes'[n][d] # NoEntry
    PROVE  /\ routes'[n][d].next_hop \in Node
           /\ routes'[n][d].cost \in 0 .. MaxCost
           /\ routes'[n][d].seq \in Nat
    BY DEF TypeOK, RouteEntry

\* A node stands behind what it once stood behind.
LEMMA AdvertisesStable ==
    ASSUME TypeOK, TypeOK', Grow, NEW m \in Node, NEW d \in Node, NEW s \in Nat,
           NEW c \in 0 .. MaxCost, Advertises(m, d, s, c)
    PROVE  Advertises(m, d, s, c)'
<1>1. seq[d] \in Nat /\ seq'[d] \in Nat
    BY DEF TypeOK
<1>2. s <= seq'[d]
    BY <1>1 DEF Advertises, Grow
<1>3. CASE m = d
    BY <1>2, <1>3 DEF Advertises
<1>4. CASE m # d
  <2>1. routes[m][d] # NoEntry /\ routes'[m][d] # NoEntry
    BY <1>4 DEF Advertises, Grow
  <2>2. QED
    BY <1>2, <1>4, <2>1, RouteFields, RouteFieldsPrimed, BoundAssumption
    DEF Advertises, Grow
<1>5. QED
    BY <1>3, <1>4

\* A route that was beaten stays beaten.
LEMMA BeatsStable ==
    ASSUME TypeOK, TypeOK', Grow, NEW m \in Node, NEW d \in Node, NEW s \in Nat,
           NEW c \in 0 .. MaxCost, Beats(m, d, s, c)
    PROVE  Beats(m, d, s, c)'
<1>1. CASE m = d
    BY <1>1 DEF Beats
<1>2. CASE m # d
  <2>1. routes[m][d] # NoEntry /\ routes'[m][d] # NoEntry
    BY <1>2 DEF Beats, Grow
  <2>2. /\ routes[m][d].cost \in 0 .. MaxCost /\ routes[m][d].seq \in Nat
        /\ routes'[m][d].cost \in 0 .. MaxCost /\ routes'[m][d].seq \in Nat
    BY <2>1, RouteFields, RouteFieldsPrimed
  <2>3. \/ routes'[m][d].seq > routes[m][d].seq
        \/ /\ routes'[m][d].seq = routes[m][d].seq
           /\ routes'[m][d].cost <= routes[m][d].cost
    BY <2>1 DEF Grow
  <2>4. \/ routes[m][d].seq > s
        \/ /\ routes[m][d].seq = s
           /\ \/ routes[m][d].cost < c
              \/ routes[m][d].cost = c /\ c = MaxCost
    BY <1>2 DEF Beats
  <2>5. \/ routes'[m][d].seq > s
        \/ /\ routes'[m][d].seq = s
           /\ \/ routes'[m][d].cost < c
              \/ routes'[m][d].cost = c /\ c = MaxCost
    BY <2>2, <2>3, <2>4, BoundAssumption
  <2>6. QED
    BY <2>1, <2>5 DEF Beats
<1>3. QED
    BY <1>1, <1>2

\* A sound frame stays sound while it waits.
LEMMA SoundFrameStable ==
    ASSUME TypeOK, TypeOK', Grow
    PROVE  SoundFrame \subseteq SoundFrame'
<1> SUFFICES ASSUME NEW f \in Frame, FrameSound(f) PROVE FrameSound(f)'
    BY DEF SoundFrame, Frame
<1>1. CASE f.kind = "rreq"
  <2>1. /\ f.from \in Node /\ f.orig \in Node /\ f.to \in Node /\ f.id \in Id
        /\ f.orig_seq \in Nat /\ f.cost \in 0 .. MaxCost
    BY <1>1, FrameFields
  <2>2. /\ discovery[f.id] = [orig |-> f.orig, dest |-> f.to]
        /\ Advertises(f.from, f.orig, f.orig_seq, f.cost)
    BY <1>1 DEF FrameSound
  <2>3. discovery[f.id] # NoEntry
    BY <2>1, <2>2, NoEntryAssumption DEF Discovery
  <2>4. discovery'[f.id] = [orig |-> f.orig, dest |-> f.to]
    BY <2>1, <2>2, <2>3 DEF Grow
  <2>5. Advertises(f.from, f.orig, f.orig_seq, f.cost)'
    BY <2>1, <2>2, AdvertisesStable
  <2>6. QED
    BY <1>1, <2>4, <2>5 DEF FrameSound
<1>2. CASE f.kind = "rrep"
  <2>1. /\ f.from \in Node /\ f.id \in Id /\ f.dst_seq \in Nat /\ f.cost \in 0 .. MaxCost
    BY <1>2, FrameFields
  <2>2. /\ discovery[f.id] # NoEntry
        /\ Advertises(f.from, discovery[f.id].dest, f.dst_seq, f.cost)
    BY <1>2 DEF FrameSound
  <2>3. discovery'[f.id] = discovery[f.id]
    BY <2>1, <2>2 DEF Grow
  <2>4. discovery[f.id].dest \in Node
    BY <2>1, <2>2 DEF TypeOK, Discovery
  <2>5. PICK dst \in Node : dst = discovery[f.id].dest
    BY <2>4
  <2>6. Advertises(f.from, dst, f.dst_seq, f.cost)'
    BY <2>1, <2>2, <2>5, AdvertisesStable
  <2>7. QED
    BY <1>2, <2>2, <2>3, <2>5, <2>6 DEF FrameSound
<1>3. CASE f.kind \notin {"rreq", "rrep"}
    BY <1>3 DEF FrameSound
<1>4. QED
    BY <1>1, <1>2, <1>3

(***************************************************************************)
(* The effect of one upsertRoute.                                          *)
(***************************************************************************)
\* Keeping an advertised route at a positive extra cost preserves the order of
\* all routes, and the receiver then stands behind its own cost.
LEMMA UpsertSound ==
    ASSUME TypeOK, TypeOK', RouteOrder, RouteSeqReached,
           NEW n \in Node, NEW d \in Node, NEW hop \in Node, n # d, hop # n,
           NEW c0 \in 0 .. MaxCost, NEW c \in 0 .. MaxCost, c0 < c \/ c = MaxCost,
           NEW s \in Nat, Advertises(hop, d, s, c0),
           UpsertRoute(n, d, hop, c, s), UNCHANGED <<seq, discovery>>
    PROVE  /\ Grow
           /\ RouteOrder'
           /\ RouteSeqReached'
           /\ Advertises(n, d, s, c)'
<1> DEFINE new == [next_hop |-> hop, cost |-> c, seq |-> s]
<1>1. \A m, e \in Node : (m # n \/ e # d) => routes'[m][e] = routes[m][e]
    BY DEF UpsertRoute, TypeOK
<1>2. \/ /\ Improves(s, c, routes[n][d])
         /\ routes'[n][d] = new
      \/ /\ ~Improves(s, c, routes[n][d])
         /\ routes'[n][d] = routes[n][d]
    BY DEF UpsertRoute, TypeOK
<1>3. \A e \in Node : seq[e] \in Nat
    BY DEF TypeOK
<1>4. s <= seq[d]
    BY DEF Advertises
<1>5. routes[n][d] # NoEntry =>
        /\ routes[n][d].cost \in 0 .. MaxCost
        /\ routes[n][d].seq \in Nat
    BY RouteFields
<1>6. Grow
  <2>1. \A m, e \in Node : routes[m][e] # NoEntry =>
          /\ routes'[m][e] # NoEntry
          /\ \/ routes'[m][e].seq > routes[m][e].seq
             \/ /\ routes'[m][e].seq = routes[m][e].seq
                /\ routes'[m][e].cost <= routes[m][e].cost
    <3> SUFFICES ASSUME NEW m \in Node, NEW e \in Node, routes[m][e] # NoEntry
                 PROVE  /\ routes'[m][e] # NoEntry
                        /\ \/ routes'[m][e].seq > routes[m][e].seq
                           \/ /\ routes'[m][e].seq = routes[m][e].seq
                              /\ routes'[m][e].cost <= routes[m][e].cost
      OBVIOUS
    <3>1. /\ routes[m][e].cost \in 0 .. MaxCost
          /\ routes[m][e].seq \in Nat
      BY RouteFields
    <3>2. CASE routes'[m][e] = routes[m][e]
      BY <3>1, <3>2
    <3>3. CASE routes'[m][e] # routes[m][e]
      <4>1. m = n /\ e = d /\ routes'[n][d] = new /\ Improves(s, c, routes[n][d])
        BY <1>1, <1>2, <3>3
      <4>2. new \in RouteEntry
        BY DEF RouteEntry
      <4>3. new # NoEntry
        BY <4>2, NoEntryAssumption
      <4>4. QED
        BY <3>1, <4>1, <4>3 DEF Improves
    <3>4. QED
      BY <3>2, <3>3
  <2>2. QED
    BY <1>3, <2>1 DEF Grow
<1>7. Advertises(n, d, s, c)'
  <2>1. CASE routes'[n][d] = new
    <3>1. new \in RouteEntry
      BY DEF RouteEntry
    <3>2. new # NoEntry
      BY <3>1, NoEntryAssumption
    <3>3. QED
      BY <1>4, <2>1, <3>2 DEF Advertises
  <2>2. CASE ~Improves(s, c, routes[n][d]) /\ routes'[n][d] = routes[n][d]
    BY <1>4, <1>5, <2>2 DEF Advertises, Improves
  <2>3. QED
    BY <1>2, <2>1, <2>2
<1>8. RouteOrder'
  <2> SUFFICES ASSUME NEW m \in Node, NEW e \in Node, routes'[m][e] # NoEntry
               PROVE  Beats(routes[m][e].next_hop, e, routes[m][e].seq, routes[m][e].cost)'
    BY DEF RouteOrder
  <2>1. CASE routes'[m][e] = routes[m][e]
    <3>1. PICK h \in Node, s1 \in Nat, c1 \in 0 .. MaxCost :
            routes[m][e].next_hop = h /\ routes[m][e].seq = s1 /\ routes[m][e].cost = c1
      BY <2>1, RouteFields
    <3>2. Beats(h, e, s1, c1)
      BY <2>1, <3>1 DEF RouteOrder
    <3>3. Beats(h, e, s1, c1)'
      BY <1>6, <3>2, BeatsStable
    <3>4. QED
      BY <2>1, <3>1, <3>3
  <2>2. CASE routes'[m][e] # routes[m][e]
    <3>1. m = n /\ e = d /\ routes'[n][d] = new
      BY <1>1, <1>2, <2>2
    <3>2. Beats(hop, d, s, c)'
      <4>1. CASE hop = d
        BY <4>1 DEF Beats
      <4>2. CASE hop # d
        <5>1. routes'[hop][d] = routes[hop][d]
          BY <1>1
        <5>2. routes[hop][d] # NoEntry
          BY <4>2 DEF Advertises
        <5>3. routes[hop][d].cost \in 0 .. MaxCost /\ routes[hop][d].seq \in Nat
          BY <5>2, RouteFields
        <5>4. \/ routes[hop][d].seq > s
              \/ routes[hop][d].seq = s /\ routes[hop][d].cost <= c0
          BY <4>2 DEF Advertises
        <5>5. \/ routes[hop][d].seq > s
              \/ /\ routes[hop][d].seq = s
                 /\ \/ routes[hop][d].cost < c
                    \/ routes[hop][d].cost = c /\ c = MaxCost
          BY <5>3, <5>4, BoundAssumption
        <5>6. QED
          BY <5>1, <5>2, <5>5 DEF Beats
      <4>3. QED
        BY <4>1, <4>2
    <3>3. QED
      BY <3>1, <3>2
  <2>3. QED
    BY <2>1, <2>2
<1>9. RouteSeqReached'
  <2> SUFFICES ASSUME NEW m \in Node, NEW e \in Node, routes'[m][e] # NoEntry
               PROVE  routes'[m][e].seq <= seq'[e]
    BY DEF RouteSeqReached
  <2>1. CASE routes'[m][e] = routes[m][e]
    BY <2>1 DEF RouteSeqReached
  <2>2. CASE routes'[m][e] # routes[m][e]
    BY <1>1, <1>2, <1>4, <2>2
  <2>3. QED
    BY <2>1, <2>2
<1>10. QED
    BY <1>6, <1>7, <1>8, <1>9

\* A step that leaves the routes alone.
LEMMA RoutesUntouched ==
    ASSUME TypeOK, TypeOK', RouteOrder, RouteSeqReached, UNCHANGED routes,
           \A d \in Node : seq[d] <= seq'[d],
           \A id \in Id : discovery[id] # NoEntry => discovery'[id] = discovery[id]
    PROVE  Grow /\ RouteOrder' /\ RouteSeqReached'
<1>1. Grow
    BY RouteFields DEF Grow
<1>2. RouteOrder'
    BY DEF RouteOrder, Beats
<1>3. RouteSeqReached'
  <2> SUFFICES ASSUME NEW m \in Node, NEW e \in Node, routes[m][e] # NoEntry
               PROVE  routes[m][e].seq <= seq'[e]
    BY DEF RouteSeqReached
  <2>1. routes[m][e].seq \in Nat /\ seq[e] \in Nat /\ seq'[e] \in Nat
    BY RouteFields DEF TypeOK
  <2>2. routes[m][e].seq <= seq[e]
    BY DEF RouteSeqReached
  <2>3. QED
    BY <2>1, <2>2
<1>4. QED
    BY <1>1, <1>2, <1>3

(***************************************************************************)
(* Frames in flight.                                                       *)
(***************************************************************************)
LEMMA LinkFramesSound ==
    /\ \A n \in Node : AnnounceFrame(n) \in SoundFrame'
    /\ \A n, p \in Node, op \in {"request", "response"} : LinkFrame(op, n, p) \in SoundFrame'
<1>1. \A f \in Frame : f.kind \notin {"rreq", "rrep"} => f \in SoundFrame'
    BY DEF SoundFrame, FrameSound
<1>2. \A n \in Node : AnnounceFrame(n).kind = "announce"
    BY DEF AnnounceFrame
<1>3. \A n, p \in Node, op \in {"request", "response"} : LinkFrame(op, n, p).kind = op
    BY DEF LinkFrame
<1>4. QED
    BY <1>1, <1>2, <1>3, FrameConstructors

LEMMA EnqueueSound ==
    ASSUME TypeOK, TypeOK', SoundInFlight, Grow, NEW n \in Node, NEW frames,
           frames \in Seq(SoundFrame'), Enqueue(n, frames)
    PROVE  broadcast_queue' \in [Node -> Seq(SoundFrame')]
<1>1. SoundFrame \subseteq SoundFrame'
    BY SoundFrameStable
<1>2. broadcast_queue \in [Node -> Seq(SoundFrame)]
    BY DEF SoundInFlight
<1>3. \A m \in Node : broadcast_queue[m] \in Seq(SoundFrame')
    BY <1>1, <1>2, SeqMonotonic
<1>4. broadcast_queue \in [Node -> Seq(SoundFrame')]
    BY <1>2, <1>3
<1>5. QED
    BY <1>4, EnqueueKeepsQueues DEF Enqueue

LEMMA QueueKept ==
    ASSUME TypeOK, TypeOK', SoundInFlight, Grow, UNCHANGED broadcast_queue
    PROVE  broadcast_queue' \in [Node -> Seq(SoundFrame')]
<1>1. SoundFrame \subseteq SoundFrame'
    BY SoundFrameStable
<1>2. broadcast_queue \in [Node -> Seq(SoundFrame)]
    BY DEF SoundInFlight
<1>3. \A m \in Node : broadcast_queue[m] \in Seq(SoundFrame')
    BY <1>1, <1>2, SeqMonotonic
<1>4. QED
    BY <1>2, <1>3

LEMMA AirKept ==
    ASSUME TypeOK, TypeOK', SoundInFlight, Grow, air' \subseteq air
    PROVE  air' \in SUBSET [frame : SoundFrame', to : Node]
<1>1. SoundFrame \subseteq SoundFrame'
    BY SoundFrameStable
<1>2. air \in SUBSET [frame : SoundFrame, to : Node]
    BY DEF SoundInFlight
<1>3. QED
    BY <1>1, <1>2

\* A step that leaves the routes, the reverse paths and the history alone.
LEMMA QuietStep ==
    ASSUME TypeOK, TypeOK', RouteInv, UNCHANGED <<routes, reverse_paths, seq, discovery>>
    PROVE  Grow /\ RouteOrder' /\ RouteSeqReached' /\ ReverseDest'
<1>1. \A d \in Node : seq[d] <= seq'[d]
    BY DEF TypeOK
<1>2. ReverseDest'
    BY DEF RouteInv, ReverseDest
<1>3. QED
    BY <1>1, <1>2, RoutesUntouched DEF RouteInv

\* What initiate() leaves: a new discovery, known to its originator alone, and
\* the request that floods it.
LEMMA DiscoverySound ==
    ASSUME TypeOK, TypeOK', RouteInv, NEW n \in Node, NEW d \in Node,
           InitiateDiscovery(n, d)
    PROVE  /\ Grow /\ RouteOrder' /\ RouteSeqReached' /\ ReverseDest'
           /\ broadcast_queue' \in [Node -> Seq(SoundFrame')]
<1> DEFINE request(id) == RreqFrame(n, d, n, id, seq[n] + 1, 0, RouteRadius)
<1>1. PICK id \in Id :
        /\ discovery[id] = NoEntry
        /\ discovery' = [discovery EXCEPT ![id] = [orig |-> n, dest |-> d]]
        /\ reverse_paths' = [reverse_paths EXCEPT ![n][id] =
                                [dest |-> d, prev_hop |-> n, min_cost |-> 0]]
        /\ Enqueue(n, CandidateRequests(n, d) \o <<request(id)>>)
    BY DEF InitiateDiscovery
<1>2. /\ seq' = [seq EXCEPT ![n] = @ + 1]
      /\ UNCHANGED routes
    BY DEF InitiateDiscovery
<1>3. /\ \A e \in Node : seq[e] <= seq'[e]
      /\ seq'[n] = seq[n] + 1
    BY <1>2 DEF TypeOK
<1>4. /\ \A i \in Id : i # id => discovery'[i] = discovery[i]
      /\ discovery'[id] = [orig |-> n, dest |-> d]
    BY <1>1 DEF TypeOK
<1>5. Grow /\ RouteOrder' /\ RouteSeqReached'
  <2>1. \A i \in Id : discovery[i] # NoEntry => discovery'[i] = discovery[i]
    BY <1>1, <1>4
  <2>2. QED
    BY <1>2, <1>3, <2>1, RoutesUntouched DEF RouteInv
<1>6. ReverseDest'
  <2> SUFFICES ASSUME NEW m \in Node, NEW i \in Id, reverse_paths'[m][i] # NoEntry
               PROVE  /\ discovery'[i] # NoEntry
                      /\ reverse_paths'[m][i].dest = discovery'[i].dest
    BY DEF ReverseDest
  <2>1. CASE i = id
    <3>1. [orig |-> n, dest |-> d] # NoEntry
      BY NoEntryAssumption DEF Discovery
    <3>2. m = n
      BY <1>1, <2>1 DEF TypeOK, RouteInv, ReverseDest
    <3>3. QED
      BY <1>1, <1>4, <2>1, <3>1, <3>2 DEF TypeOK
  <2>2. CASE i # id
    BY <1>1, <1>4, <2>2 DEF TypeOK, RouteInv, ReverseDest
  <2>3. QED
    BY <2>1, <2>2
<1>7. request(id) \in SoundFrame'
  <2>1. request(id) \in Frame
    BY FrameConstructors, BoundAssumption DEF TypeOK
  <2>2. PICK f \in Frame : f = request(id)
    BY <2>1
  <2>3. /\ f.kind = "rreq" /\ f.id = id /\ f.orig = n /\ f.to = d /\ f.from = n
        /\ f.orig_seq = seq[n] + 1
    BY <2>2 DEF RreqFrame
  <2>4. FrameSound(f)'
    BY <1>3, <1>4, <2>3 DEF FrameSound, Advertises, TypeOK
  <2>5. QED
    BY <2>2, <2>4 DEF SoundFrame
<1>8. CandidateRequests(n, d) \o <<request(id)>> \in Seq(SoundFrame')
  <2>1. CandidateRequests(n, d) \in Seq(SoundFrame')
    BY CandidateRequestsType, LinkFramesSound
  <2>2. <<request(id)>> \in Seq(SoundFrame')
    BY <1>7
  <2>3. QED
    BY <2>1, <2>2, ConcatProperties
<1>9. QED
    BY <1>1, <1>5, <1>6, <1>8, EnqueueSound DEF RouteInv

(***************************************************************************)
(* What a request and a reply teach their receiver.                        *)
(***************************************************************************)
\* A request that shortens the reverse path (handleRreq past its early return).
LEMMA LearnReversePathSound ==
    ASSUME TypeOK, TypeOK', RouteInv, NEW n \in Node, NEW f \in SoundFrame,
           f.kind = "rreq", f.from # n, LearnReversePath(n, f),
           NEW c \in 0 .. MaxCost, c = ReverseCost(n, f)
    PROVE  /\ Grow /\ RouteOrder' /\ RouteSeqReached' /\ ReverseDest'
           /\ Advertises(n, f.orig, f.orig_seq, c)'
<1>1. f \in Frame /\ FrameSound(f)
    BY DEF SoundFrame
<1>2. /\ f.from \in Node /\ f.to \in Node /\ f.orig \in Node /\ f.id \in Id
      /\ f.orig_seq \in Nat /\ f.cost \in 0 .. MaxCost
    BY <1>1, FrameFields
<1>3. /\ discovery[f.id] = [orig |-> f.orig, dest |-> f.to]
      /\ Advertises(f.from, f.orig, f.orig_seq, f.cost)
    BY <1>1 DEF FrameSound
<1>4. f.cost < c \/ c = MaxCost
    BY <1>2, ReceivedCostType DEF ReverseCost
<1>5. /\ f.orig # n
      /\ UNCHANGED <<seq, discovery>>
      /\ UpsertRoute(n, f.orig, f.from, c, f.orig_seq)
    BY DEF LearnReversePath, AcceptRoute
<1>6. Grow /\ RouteOrder' /\ RouteSeqReached' /\ Advertises(n, f.orig, f.orig_seq, c)'
    BY <1>2, <1>3, <1>4, <1>5, UpsertSound DEF RouteInv
<1>7. ReverseDest'
  <2> SUFFICES ASSUME NEW m \in Node, NEW i \in Id, reverse_paths'[m][i] # NoEntry
               PROVE  /\ discovery'[i] # NoEntry
                      /\ reverse_paths'[m][i].dest = discovery'[i].dest
    BY DEF ReverseDest
  <2>1. CASE m = n /\ i = f.id
    <3>1. reverse_paths'[n][f.id].dest =
             IF reverse_paths[n][f.id] = NoEntry THEN f.to ELSE reverse_paths[n][f.id].dest
      <4>1. reverse_paths \in [Node -> [Id -> ReverseEntry \cup {NoEntry}]]
        BY DEF TypeOK
      <4>2. reverse_paths' = [reverse_paths EXCEPT ![n][f.id] =
               [dest |-> IF @ = NoEntry THEN f.to ELSE @.dest,
                prev_hop |-> f.from, min_cost |-> ReverseCost(n, f)]]
        BY DEF LearnReversePath
      <4>3. reverse_paths'[n][f.id] =
               [dest |-> IF reverse_paths[n][f.id] = NoEntry THEN f.to
                         ELSE reverse_paths[n][f.id].dest,
                prev_hop |-> f.from, min_cost |-> ReverseCost(n, f)]
        BY <1>2, <4>1, <4>2
      <4>4. QED
        BY <4>3
    <3>2. discovery[f.id] # NoEntry /\ discovery[f.id].dest = f.to
      BY <1>2, <1>3, NoEntryAssumption DEF Discovery
    <3>3. QED
      BY <1>2, <1>5, <2>1, <3>1, <3>2 DEF RouteInv, ReverseDest
  <2>2. CASE m # n \/ i # f.id
    <3>1. reverse_paths'[m][i] = reverse_paths[m][i]
      <4>1. reverse_paths \in [Node -> [Id -> ReverseEntry \cup {NoEntry}]]
        BY DEF TypeOK
      <4>2. reverse_paths' = [reverse_paths EXCEPT ![n][f.id] =
               [dest |-> IF @ = NoEntry THEN f.to ELSE @.dest,
                prev_hop |-> f.from, min_cost |-> ReverseCost(n, f)]]
        BY DEF LearnReversePath
      <4>3. QED
        BY <1>2, <2>2, <4>1, <4>2
    <3>2. QED
      BY <1>5, <3>1 DEF RouteInv, ReverseDest
  <2>3. QED
    BY <2>1, <2>2
<1>8. QED
    BY <1>6, <1>7

\* A reply, overheard or addressed (handleRrep up to its test of env.to).
LEMMA LearnRouteSound ==
    ASSUME TypeOK, TypeOK', RouteInv, NEW n \in Node, NEW f \in SoundFrame,
           f.kind = "rrep", f.from # n, LearnRoute(n, f),
           NEW c \in 0 .. MaxCost, c = ViaCost(n, f)
    PROVE  /\ Grow /\ RouteOrder' /\ RouteSeqReached' /\ ReverseDest'
           /\ discovery'[f.id] # NoEntry
           /\ \A d \in Node : d = discovery'[f.id].dest => Advertises(n, d, f.dst_seq, c)'
<1>1. f \in Frame /\ FrameSound(f)
    BY DEF SoundFrame
<1>2. /\ f.from \in Node /\ f.id \in Id /\ f.dst_seq \in Nat /\ f.cost \in 0 .. MaxCost
    BY <1>1, FrameFields
<1>3. reverse_paths[n][f.id] # NoEntry /\ reverse_paths[n][f.id] \in ReverseEntry
    BY LearnRouteType, <1>1 DEF LearnRoute, OnReversePath
<1>4. PICK d \in Node : d = reverse_paths[n][f.id].dest
    BY <1>3 DEF ReverseEntry
<1>5. discovery[f.id] # NoEntry /\ d = discovery[f.id].dest
    BY <1>2, <1>3, <1>4 DEF RouteInv, ReverseDest
<1>6. Advertises(f.from, d, f.dst_seq, f.cost)
    BY <1>1, <1>5 DEF FrameSound
<1>7. f.cost < c \/ c = MaxCost
    BY <1>2, ReceivedCostType DEF ViaCost
<1>8. /\ d # n
      /\ UNCHANGED <<seq, discovery, reverse_paths>>
      /\ UpsertRoute(n, d, f.from, c, f.dst_seq)
    BY <1>4 DEF LearnRoute, OnReversePath
<1>9. Grow /\ RouteOrder' /\ RouteSeqReached' /\ Advertises(n, d, f.dst_seq, c)'
    BY <1>2, <1>6, <1>7, <1>8, UpsertSound DEF RouteInv
<1>10. ReverseDest'
    BY <1>8 DEF RouteInv, ReverseDest
<1>11. QED
    BY <1>5, <1>8, <1>9, <1>10

\* Handling a sound frame keeps RouteInv.
LEMMA ReceiveKeepsRouteInv ==
    ASSUME TypeOK, TypeOK', RouteInv, NEW n \in Node, NEW f \in SoundFrame, Receive(n, f)
    PROVE  RouteInv'
<1>1. f \in Frame /\ f.from \in Node
    BY FrameFields DEF SoundFrame
<1>2. f.from # n /\ air' \subseteq air
    BY DEF Receive, HandleAnnounce, OverhearLink, HandleLinkRequest, HandleLinkResponse,
           RreqReturns, RreqDuplicate, RreqAtDestination, RreqForward, RreqExpires,
           RrepStray, RrepOverheard, RrepAtOrigin, RrepForward, Hears
<1>3. SUFFICES /\ Grow /\ RouteOrder' /\ RouteSeqReached' /\ ReverseDest'
               /\ broadcast_queue' \in [Node -> Seq(SoundFrame')]
    BY <1>2, AirKept DEF RouteInv, SoundInFlight
<1>4. CASE HandleAnnounce(n, f)
  <2> DEFINE frames == IF f.from \in TargetPeers[n]
                       THEN LinkRequest(n, f.from, link_req) ELSE <<>>
  <2>1. UNCHANGED <<routes, reverse_paths, seq, discovery>> /\ Enqueue(n, frames)
    BY <1>4 DEF HandleAnnounce, routeVars
  <2>2. frames \in Seq(SoundFrame')
    BY <1>1, LinkFramesSound, LinkRequestType
  <2>3. QED
    BY <2>1, <2>2, QuietStep, EnqueueSound DEF RouteInv
<1>5. CASE OverhearLink(n, f) \/ HandleLinkResponse(n, f) \/ RreqReturns(n, f)
           \/ RreqDuplicate(n, f) \/ RrepStray(n, f)
  <2>1. UNCHANGED <<routes, reverse_paths, seq, discovery, broadcast_queue>>
    BY <1>5 DEF OverhearLink, HandleLinkResponse, LinkUp, RreqReturns, RreqDuplicate,
                RrepStray, AcceptRoute, routeVars
  <2>2. QED
    BY <2>1, QuietStep, QueueKept DEF RouteInv
<1>6. CASE HandleLinkRequest(n, f)
  <2>1. UNCHANGED <<routes, reverse_paths, seq, discovery>>
        /\ Enqueue(n, <<LinkFrame("response", n, f.from)>>)
    BY <1>6 DEF HandleLinkRequest, LinkUp, routeVars
  <2>2. <<LinkFrame("response", n, f.from)>> \in Seq(SoundFrame')
    BY <1>1, LinkFramesSound
  <2>3. QED
    BY <2>1, <2>2, QuietStep, EnqueueSound DEF RouteInv
<1>7. ASSUME LearnReversePath(n, f), f.kind = "rreq"
      PROVE  /\ f.from \in Node /\ f.to \in Node /\ f.orig \in Node /\ f.id \in Id
             /\ f.orig_seq \in Nat /\ ReverseCost(n, f) \in 0 .. MaxCost
             /\ discovery'[f.id] = [orig |-> f.orig, dest |-> f.to]
             /\ UNCHANGED seq
    BY <1>1, <1>7, FrameFields, LearnReversePathType
    DEF LearnReversePath, AcceptRoute, SoundFrame, FrameSound
<1>8. CASE RreqAtDestination(n, f)
  <2>1. f.kind = "rreq" /\ f.to = n /\ LearnReversePath(n, f)
    BY <1>8 DEF RreqAtDestination, Hears
  <2>2. Grow /\ RouteOrder' /\ RouteSeqReached' /\ ReverseDest'
    BY <1>2, <1>7, <2>1, LearnReversePathSound
  <2>3. seq[n] \in Nat /\ HopCost(n) \in 0 .. MaxCost
    BY HopCostType, BoundAssumption DEF TypeOK
  <2>4. PICK g \in Frame : g = RrepFrame(n, f.from, f.orig, f.id, seq[n], HopCost(n))
    BY <1>7, <2>1, <2>3, FrameConstructors
  <2>5. /\ g.kind = "rrep" /\ g.id = f.id /\ g.from = n /\ g.dst_seq = seq[n]
    BY <2>4 DEF RrepFrame
  <2>6. [orig |-> f.orig, dest |-> f.to] # NoEntry
    BY <1>7, <2>1, NoEntryAssumption DEF Discovery
  <2>7. FrameSound(g)'
    BY <1>7, <2>1, <2>3, <2>5, <2>6 DEF FrameSound, Advertises
  <2>8. Enqueue(n, <<g>>) /\ <<g>> \in Seq(SoundFrame')
    BY <1>8, <2>4, <2>7 DEF RreqAtDestination, SoundFrame
  <2>9. QED
    BY <2>2, <2>8, EnqueueSound DEF RouteInv
<1>9. CASE RreqForward(n, f)
  <2>1. f.kind = "rreq" /\ LearnReversePath(n, f)
    BY <1>9 DEF RreqForward, Hears
  <2>2. PICK c \in 0 .. MaxCost : c = ReverseCost(n, f)
    BY <1>7, <2>1
  <2>3. /\ Grow /\ RouteOrder' /\ RouteSeqReached' /\ ReverseDest'
        /\ Advertises(n, f.orig, f.orig_seq, c)'
    BY <1>2, <2>1, <2>2, LearnReversePathSound
  <2>4. f.radius - 1 \in 0 .. RouteRadius
    BY <1>1, <1>9, <2>1, FrameFields, BoundAssumption DEF RreqForward, MayRebroadcast
  <2>5. PICK g \in Frame :
          g = RreqFrame(n, f.to, f.orig, f.id, f.orig_seq, c, f.radius - 1)
    BY <1>7, <2>1, <2>4, FrameConstructors
  <2>6. /\ g.kind = "rreq" /\ g.id = f.id /\ g.from = n /\ g.orig = f.orig
        /\ g.to = f.to /\ g.orig_seq = f.orig_seq /\ g.cost = c
    BY <2>5 DEF RreqFrame
  <2>7. FrameSound(g)'
    BY <1>7, <2>1, <2>3, <2>6 DEF FrameSound
  <2>8. Enqueue(n, <<g>>) /\ <<g>> \in Seq(SoundFrame')
    BY <1>9, <2>2, <2>5, <2>7 DEF RreqForward, SoundFrame
  <2>9. QED
    BY <2>3, <2>8, EnqueueSound DEF RouteInv
<1>10. CASE RreqExpires(n, f)
  <2>1. f.kind = "rreq" /\ LearnReversePath(n, f)
    BY <1>10 DEF RreqExpires, Hears
  <2>2. Grow /\ RouteOrder' /\ RouteSeqReached' /\ ReverseDest'
    BY <1>2, <1>7, <2>1, LearnReversePathSound
  <2>3. QED
    BY <1>10, <2>2, QueueKept DEF RreqExpires, RouteInv
<1>11. ASSUME LearnRoute(n, f), f.kind = "rrep"
       PROVE  /\ f.id \in Id /\ f.orig \in Node /\ f.dst_seq \in Nat
              /\ reverse_paths[n][f.id] \in ReverseEntry
              /\ ViaCost(n, f) \in 0 .. MaxCost
    BY <1>1, <1>11, FrameFields, LearnRouteType
<1>12. CASE RrepOverheard(n, f)
  <2>1. f.kind = "rrep" /\ LearnRoute(n, f)
    BY <1>12 DEF RrepOverheard, Hears
  <2>2. Grow /\ RouteOrder' /\ RouteSeqReached' /\ ReverseDest'
    BY <1>2, <1>11, <2>1, LearnRouteSound
  <2>3. QED
    BY <1>12, <2>2, QueueKept DEF RrepOverheard, RouteInv
<1>13. ASSUME NEW frames, frames \in Seq(SoundFrame'), RrepAddressed(n, f, frames), Grow
       PROVE  broadcast_queue' \in [Node -> Seq(SoundFrame')]
  <2>1. PICK req : Enqueue(n, LinkRequest(n, f.from, req) \o frames)
    BY <1>13 DEF RrepAddressed
  <2>2. LinkRequest(n, f.from, req) \in Seq(SoundFrame')
    BY <1>1, LinkFramesSound, LinkRequestType
  <2>3. LinkRequest(n, f.from, req) \o frames \in Seq(SoundFrame')
    BY <1>13, <2>2, ConcatProperties
  <2>4. QED
    BY <1>13, <2>1, <2>3, EnqueueSound DEF RouteInv
<1>14. CASE RrepAtOrigin(n, f)
  <2>1. f.kind = "rrep" /\ LearnRoute(n, f) /\ RrepAddressed(n, f, <<>>)
    BY <1>14 DEF RrepAtOrigin, Hears, RrepAddressed
  <2>2. Grow /\ RouteOrder' /\ RouteSeqReached' /\ ReverseDest'
    BY <1>2, <1>11, <2>1, LearnRouteSound
  <2>3. <<>> \in Seq(SoundFrame')
    BY EmptySeq
  <2>4. QED
    BY <1>13, <2>1, <2>2, <2>3
<1>15. CASE RrepForward(n, f)
  <2>1. /\ f.kind = "rrep" /\ LearnRoute(n, f)
        /\ RrepAddressed(n, f, <<RrepFrame(n, reverse_paths[n][f.id].prev_hop, f.orig,
                                           f.id, f.dst_seq, ViaCost(n, f))>>)
    BY <1>15 DEF RrepForward, Hears, RrepAddressed
  <2>2. PICK c \in 0 .. MaxCost : c = ViaCost(n, f)
    BY <1>11, <2>1
  <2>3. /\ Grow /\ RouteOrder' /\ RouteSeqReached' /\ ReverseDest'
        /\ discovery'[f.id] # NoEntry
        /\ \A d \in Node : d = discovery'[f.id].dest => Advertises(n, d, f.dst_seq, c)'
    BY <1>2, <2>1, <2>2, LearnRouteSound
  <2>4. PICK g \in Frame : g = RrepFrame(n, reverse_paths[n][f.id].prev_hop, f.orig,
                                         f.id, f.dst_seq, c)
    BY <1>11, <2>1, FrameConstructors DEF ReverseEntry
  <2>5. /\ g.kind = "rrep" /\ g.id = f.id /\ g.from = n /\ g.dst_seq = f.dst_seq
        /\ g.cost = c
    BY <2>4 DEF RrepFrame
  <2>6. PICK d \in Node : d = discovery'[f.id].dest
    BY <1>11, <2>1, <2>3 DEF TypeOK, Discovery
  <2>7. Advertises(n, d, f.dst_seq, c)'
    BY <2>3, <2>6
  <2>8. FrameSound(g)'
    BY <2>3, <2>5, <2>6, <2>7 DEF FrameSound
  <2>9. <<g>> \in Seq(SoundFrame')
    BY <2>8 DEF SoundFrame
  <2>10. QED
    BY <1>13, <2>1, <2>2, <2>3, <2>4, <2>9
<1>16. QED
    BY <1>4, <1>5, <1>6, <1>8, <1>9, <1>10, <1>12, <1>14, <1>15 DEF Receive

(***************************************************************************)
(* RouteInv is an invariant.                                               *)
(***************************************************************************)
LEMMA InitRouteInv == Init => RouteInv
<1> SUFFICES ASSUME Init PROVE RouteInv
    OBVIOUS
<1>1. RouteOrder /\ RouteSeqReached /\ ReverseDest
    BY DEF Init, RouteOrder, RouteSeqReached, ReverseDest
<1>2. <<>> \in Seq(SoundFrame)
    BY EmptySeq
<1>3. SoundInFlight
    BY <1>2 DEF Init, SoundInFlight
<1>4. QED
    BY <1>1, <1>3 DEF RouteInv

LEMMA StepRouteInv ==
    ASSUME TypeOK, TypeOK', RouteInv, [ControlStep]_vars
    PROVE  RouteInv'
<1>1. ASSUME UNCHANGED <<routes, reverse_paths, seq, discovery, air>>,
             NEW n \in Node, NEW frames, frames \in Seq(SoundFrame'), Enqueue(n, frames)
      PROVE  RouteInv'
  <2>1. Grow /\ RouteOrder' /\ RouteSeqReached' /\ ReverseDest'
    BY <1>1, QuietStep
  <2>2. broadcast_queue' \in [Node -> Seq(SoundFrame')]
    BY <1>1, <2>1, EnqueueSound DEF RouteInv
  <2>3. air' \in SUBSET [frame : SoundFrame', to : Node]
    BY <1>1, <2>1, AirKept DEF RouteInv
  <2>4. QED
    BY <2>1, <2>2, <2>3 DEF RouteInv, SoundInFlight
<1>2. ASSUME UNCHANGED <<routes, reverse_paths, seq, discovery, air, broadcast_queue>>
      PROVE  RouteInv'
  <2>1. Grow /\ RouteOrder' /\ RouteSeqReached' /\ ReverseDest'
    BY <1>2, QuietStep
  <2>2. broadcast_queue' \in [Node -> Seq(SoundFrame')]
    BY <1>2, <2>1, QueueKept DEF RouteInv
  <2>3. air' \in SUBSET [frame : SoundFrame', to : Node]
    BY <1>2, <2>1, AirKept DEF RouteInv
  <2>4. QED
    BY <2>1, <2>2, <2>3 DEF RouteInv, SoundInFlight
<1>3. CASE UNCHANGED vars
    BY <1>2, <1>3 DEF vars
<1>4. ASSUME NEW n \in Node, QueueEb(n) PROVE RouteInv'
  <2>1. <<AnnounceFrame(n)>> \in Seq(SoundFrame')
    BY LinkFramesSound
  <2>2. QED
    BY <1>1, <1>4, <2>1 DEF QueueEb, routeVars
<1>5. ASSUME NEW n \in Node, NEW p \in Node, LinkRetryElapsed(n, p) PROVE RouteInv'
    BY <1>2, <1>5 DEF LinkRetryElapsed, routeVars
<1>6. ASSUME NEW n \in Node, NEW d \in Node, RreqRetryElapsed(n, d) PROVE RouteInv'
    BY <1>2, <1>6 DEF RreqRetryElapsed
<1>7. ASSUME NEW n \in Node, NEW d \in Node, RouteSend(n, d) PROVE RouteInv'
  <2>1. CASE InitiateThrottled(n, d)
    <3>1. CandidateRequests(n, d) \in Seq(SoundFrame')
      BY CandidateRequestsType, LinkFramesSound
    <3>2. QED
      BY <1>1, <1>7, <2>1, <3>1 DEF RouteSend, InitiateThrottled, routeVars
  <2>2. CASE InitiateDiscovery(n, d)
    <3>1. /\ Grow /\ RouteOrder' /\ RouteSeqReached' /\ ReverseDest'
          /\ broadcast_queue' \in [Node -> Seq(SoundFrame')]
      BY <2>2, DiscoverySound
    <3>2. air' \in SUBSET [frame : SoundFrame', to : Node]
      BY <1>7, <3>1, AirKept DEF RouteSend, RouteInv
    <3>3. QED
      BY <3>1, <3>2 DEF RouteInv, SoundInFlight
  <2>3. QED
    BY <1>7, <2>1, <2>2 DEF RouteSend
<1>8. ASSUME NEW n \in Node, NEW d \in Node, ForwardToward(n, d) PROVE RouteInv'
  <2> DEFINE peers == IF routes[n][d] # NoEntry THEN {routes[n][d].next_hop}
                      ELSE LinkCandidates(n, d)
  <2>1. peers \in SUBSET Node
    BY DEF TypeOK, LinkCandidates, RouteEntry
  <2>2. PICK p \in peers : Enqueue(n, LinkRequest(n, p, link_req))
    BY <1>8 DEF ForwardToward
  <2>3. LinkRequest(n, p, link_req) \in Seq(SoundFrame')
    BY <2>1, LinkFramesSound, LinkRequestType
  <2>4. QED
    BY <1>1, <1>8, <2>2, <2>3 DEF ForwardToward, routeVars
<1>9. ASSUME NEW n \in Node, Transmit(n) PROVE RouteInv'
  <2>1. Grow /\ RouteOrder' /\ RouteSeqReached' /\ ReverseDest'
    BY <1>9, QuietStep DEF Transmit, routeVars
  <2>2. SoundFrame \subseteq SoundFrame'
    BY <2>1, SoundFrameStable
  <2>3. /\ broadcast_queue \in [Node -> Seq(SoundFrame)]
        /\ air \in SUBSET [frame : SoundFrame, to : Node]
    BY DEF RouteInv, SoundInFlight
  <2>4. broadcast_queue \in [Node -> Seq(SoundFrame')]
    <3>1. \A m \in Node : broadcast_queue[m] \in Seq(SoundFrame')
      BY <2>2, <2>3, SeqMonotonic
    <3>2. QED
      BY <2>3, <3>1
  <2>5. Head(broadcast_queue[n]) \in SoundFrame'
        /\ broadcast_queue' \in [Node -> Seq(SoundFrame')]
    BY <1>9, <2>4, DequeueKeepsQueues DEF Transmit
  <2>6. air' \in SUBSET [frame : SoundFrame', to : Node]
    <3>1. PICK heard \in SUBSET Node :
            air' = air \cup {[frame |-> Head(broadcast_queue[n]), to |-> m] : m \in heard}
      BY <1>9, NodeAssumption DEF Transmit
    <3>2. QED
      BY <2>2, <2>3, <2>5, <3>1
  <2>7. QED
    BY <2>1, <2>5, <2>6 DEF RouteInv, SoundInFlight
<1>10. ASSUME NEW rx \in air, Receive(rx.to, rx.frame) PROVE RouteInv'
  <2>1. rx.to \in Node /\ rx.frame \in SoundFrame
    BY DEF RouteInv, SoundInFlight
  <2>2. QED
    BY <1>10, <2>1, ReceiveKeepsRouteInv
<1>11. QED
    BY <1>3, <1>4, <1>5, <1>6, <1>7, <1>8, <1>9, <1>10, NodeAssumption
    DEF ControlStep, Next, Stimulus

\* RouteInv holds in every reachable state.
THEOREM RouteInvariance == Spec => []RouteInv
<1>1. Init => RouteInv
    BY InitRouteInv
<1>2. TypeOK /\ TypeOK' /\ RouteInv /\ [Next]_vars => RouteInv'
    BY StepRouteInv DEF ControlStep
<1>3. QED
    BY <1>1, <1>2, TypeCorrect, PTL DEF Spec

\* In every reachable state the next hop of every route is closer to the route's
\* destination: newer or cheaper, or the destination itself (upsertRoute under
\* handleRreq and handleRrep).
THEOREM RoutesOrdered == Spec => []RouteOrder
<1>1. RouteInv => RouteOrder
    BY DEF RouteInv
<1>2. QED
    BY <1>1, RouteInvariance, PTL

(***************************************************************************)
(* Loop freedom.                                                           *)
(***************************************************************************)
LEMMA LeastElement ==
    ASSUME NEW T \in SUBSET Nat, T # {}
    PROVE  \E x \in T : \A y \in T : x <= y
<1>1. PICK x \in T : \A y \in T : ~ (<<y, x>> \in OpToRel(<, Nat))
    BY WFMin, NatLessThanWellFounded
<1>2. \A y \in T : ~ (y < x)
    BY <1>1 DEF OpToRel
<1>3. QED
    BY <1>2

\* Ordered routes cannot form a loop: in a closed set of nodes take those with
\* the newest sequence number, and of them the cheapest; its next hop beats it.
LEMMA OrderedRoutesLoopFree ==
    ASSUME TypeOK, RouteOrder, RouteSeqReached
    PROVE  LoopFree
<1> SUFFICES ASSUME NEW d \in Node, NEW S \in SUBSET (Node \ {d}), S # {},
                    \A n \in S : /\ routes[n][d] # NoEntry
                                 /\ routes[n][d].next_hop \in S
                                 /\ routes[n][d].cost # MaxCost
             PROVE  FALSE
    BY DEF LoopFree
<1> DEFINE age(n) == seq[d] - routes[n][d].seq
           cost(n) == routes[n][d].cost
<1>1. \A n \in S : /\ age(n) \in Nat /\ cost(n) \in Nat
                   /\ seq[d] \in Nat /\ routes[n][d].seq \in Nat
    BY RouteFields, BoundAssumption DEF TypeOK, RouteSeqReached
<1>2. PICK a \in {age(n) : n \in S} : \A b \in {age(n) : n \in S} : a <= b
  <2>1. {age(n) : n \in S} \in SUBSET Nat /\ {age(n) : n \in S} # {}
    BY <1>1
  <2> HIDE DEF age
  <2>2. QED
    BY <2>1, LeastElement
<1> DEFINE Newest == {n \in S : age(n) = a}
<1>3. PICK c \in {cost(n) : n \in Newest} : \A b \in {cost(n) : n \in Newest} : c <= b
  <2>1. {cost(n) : n \in Newest} \in SUBSET Nat /\ {cost(n) : n \in Newest} # {}
    BY <1>1, <1>2
  <2> HIDE DEF Newest, cost
  <2>2. QED
    BY <2>1, LeastElement
<1>4. PICK n \in S : age(n) = a /\ cost(n) = c
    BY <1>3
<1>5. PICK m \in S : m = routes[n][d].next_hop
    OBVIOUS
<1>6. m # d /\ Beats(m, d, routes[n][d].seq, routes[n][d].cost)
    BY <1>5 DEF RouteOrder
<1>7. \/ routes[m][d].seq > routes[n][d].seq
      \/ routes[m][d].seq = routes[n][d].seq /\ cost(m) < cost(n)
    BY <1>6 DEF Beats
<1>8. age(n) <= age(m)
    BY <1>2, <1>4
<1>9. routes[m][d].seq = routes[n][d].seq /\ cost(m) < cost(n)
    BY <1>1, <1>7, <1>8
<1>10. m \in Newest
    BY <1>4, <1>9
<1>11. cost(n) <= cost(m)
    BY <1>3, <1>4, <1>10
<1>12. QED
    BY <1>1, <1>9, <1>11

\* No reachable state has a routing loop (forwardToward would circle in it).
THEOREM NoRoutingLoop == Spec => []LoopFree
<1>1. TypeOK /\ RouteInv => LoopFree
    BY OrderedRoutesLoopFree DEF RouteInv
<1>2. QED
    BY <1>1, TypeCorrect, RouteInvariance, PTL
=============================================================================
