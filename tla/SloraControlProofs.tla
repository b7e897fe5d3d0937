------------------------ MODULE SloraControlProofs --------------------------
(***************************************************************************)
(* Proofs about SloraControl, for any mesh, any medium and any bounds.     *)
(*                                                                         *)
(* The argument for the absence of routing loops: every frame that waits   *)
(* in a queue or is on the air advertises a (sequence number, cost) for    *)
(* some destination, and its sender is that destination or holds a route   *)
(* at least as good.  A receiver adds a positive hop cost before it keeps  *)
(* the route, and routes are only ever replaced by better ones, so along   *)
(* the next hops towards a destination the pairs improve strictly.         *)
(***************************************************************************)
EXTENDS SloraControl, SequenceTheorems, FiniteSetTheorems, WellFoundedInduction, TLAPS

(***************************************************************************)
(* Queues over any set of frames.                                          *)
(***************************************************************************)
\* Appending frames of S to a queue keeps every queue over S (Enqueue).
LEMMA EnqueueKeepsQueues ==
    ASSUME NEW S, NEW q \in [Node -> Seq(S)], NEW n \in Node, NEW frames \in Seq(S)
    PROVE  [q EXCEPT ![n] = @ \o frames] \in [Node -> Seq(S)]
<1>1. q[n] \o frames \in Seq(S)
    BY ConcatProperties
<1>2. QED
    BY <1>1

\* Taking the head off a queue keeps every queue over S, and the head is in S
\* (Transmit).
LEMMA DequeueKeepsQueues ==
    ASSUME NEW S, NEW q \in [Node -> Seq(S)], NEW n \in Node, q[n] # <<>>
    PROVE  /\ Head(q[n]) \in S
           /\ [q EXCEPT ![n] = Tail(@)] \in [Node -> Seq(S)]
<1>1. Head(q[n]) \in S /\ Tail(q[n]) \in Seq(S)
    BY HeadTailProperties
<1>2. QED
    BY <1>1

(***************************************************************************)
(* Costs.                                                                  *)
(***************************************************************************)
\* A hop costs at least one and fits a u16 (hopCost).
LEMMA HopCostType ==
    ASSUME TypeOK, NEW n \in Node
    PROVE  HopCost(n) \in 1 .. MaxCost
<1>1. links[n] \in SUBSET Node
    BY DEF TypeOK
<1>2. /\ Cardinality(Node) \in Nat
      /\ Cardinality(links[n]) \in Nat
      /\ Cardinality(links[n]) <= Cardinality(Node)
    BY <1>1, NodeAssumption, FS_Subset, FS_CardinalityType
<1>3. QED
    BY <1>2, BoundAssumption DEF HopCost

\* Saturating addition stays a u16, and is strict below saturation.
LEMMA SatAddType ==
    ASSUME NEW a \in 0 .. MaxCost, NEW b \in 1 .. MaxCost
    PROVE  /\ SatAdd(a, b) \in 0 .. MaxCost
           /\ a < SatAdd(a, b) \/ SatAdd(a, b) = MaxCost
    BY BoundAssumption DEF SatAdd

\* The cost a frame leaves in a table of its receiver.
LEMMA ReceivedCostType ==
    ASSUME TypeOK, NEW n \in Node, NEW c \in 0 .. MaxCost
    PROVE  /\ SatAdd(c, HopCost(n)) \in 0 .. MaxCost
           /\ c < SatAdd(c, HopCost(n)) \/ SatAdd(c, HopCost(n)) = MaxCost
    BY HopCostType, SatAddType

(***************************************************************************)
(* Frames the handlers build.                                              *)
(***************************************************************************)
LEMMA FrameConstructors ==
    /\ \A n \in Node : AnnounceFrame(n) \in Frame
    /\ \A n, p \in Node, op \in {"request", "response"} : LinkFrame(op, n, p) \in Frame
    /\ \A n, dest, orig \in Node, id \in Id, s \in Nat, c \in 0 .. MaxCost,
          r \in 0 .. RouteRadius : RreqFrame(n, dest, orig, id, s, c, r) \in Frame
    /\ \A n, hop, orig \in Node, id \in Id, s \in Nat, c \in 0 .. MaxCost :
          RrepFrame(n, hop, orig, id, s, c) \in Frame
    BY DEF AnnounceFrame, LinkFrame, RreqFrame, RrepFrame, Frame

\* The fields of a frame by its kind.
LEMMA FrameFields ==
    ASSUME NEW f \in Frame
    PROVE  /\ f.from \in Node
           /\ f.kind \in {"announce", "request", "response", "rreq", "rrep"}
           /\ f.kind # "announce" => f.to \in Node
           /\ f.kind = "rreq" => /\ f.orig \in Node /\ f.id \in Id /\ f.orig_seq \in Nat
                                 /\ f.cost \in 0 .. MaxCost /\ f.radius \in 0 .. RouteRadius
           /\ f.kind = "rrep" => /\ f.orig \in Node /\ f.id \in Id /\ f.dst_seq \in Nat
                                 /\ f.cost \in 0 .. MaxCost
    BY DEF Frame

\* tryEstablish queues link requests only, so over any set that holds those.
LEMMA LinkRequestType ==
    ASSUME NEW S, \A n, p \in Node : LinkFrame("request", n, p) \in S,
           NEW n \in Node, NEW p \in Node, NEW req
    PROVE  LinkRequest(n, p, req) \in Seq(S)
<1>1. LinkFrame("request", n, p) \in S
    OBVIOUS
<1>2. QED
    BY <1>1 DEF LinkRequest

\* So does send() before it floods a request.
LEMMA CandidateRequestsType ==
    ASSUME TypeOK, NEW S, \A n, p \in Node : LinkFrame("request", n, p) \in S,
           NEW n \in Node, NEW d \in Node
    PROVE  CandidateRequests(n, d) \in Seq(S)
<1> DEFINE hop == IF routes[n][d] # NoEntry THEN {routes[n][d].next_hop} ELSE {}
           first == IF hop # {} THEN LinkRequest(n, routes[n][d].next_hop, link_req) ELSE <<>>
           second == IF neighbors[n][d] # "absent" /\ d \notin hop
                     THEN LinkRequest(n, d, link_req) ELSE <<>>
<1>1. hop # {} => routes[n][d].next_hop \in Node
    BY DEF TypeOK, RouteEntry
<1>2. first \in Seq(S)
    BY <1>1, LinkRequestType
<1>3. second \in Seq(S)
    BY LinkRequestType
<1>4. CandidateRequests(n, d) = first \o second
    BY DEF CandidateRequests
<1>5. QED
    BY <1>2, <1>3, <1>4, ConcatProperties

(***************************************************************************)
(* Type correctness.                                                       *)
(***************************************************************************)
\* The table updates shared by the handlers keep the tables' types.
LEMMA TableTypes ==
    ASSUME TypeOK, NEW n \in Node
    PROVE  /\ \A p \in Node : /\ VerifiedNeighbor(n, p) \in
                                   [Node -> [Node -> {"absent", "unverified", "verified"}]]
                              /\ ResetRequest(n, p) \in
                                   [Node -> [Node -> {"never", "recent", "elapsed"}]]
           /\ \A peers \in SUBSET Node :
                 Placeholders(n, peers) \in
                     [Node -> [Node -> {"absent", "unverified", "verified"}]]
           /\ \A peers \in SUBSET Node,
                 req \in [Node -> [Node -> {"never", "recent", "elapsed"}]] :
                 RequestTimes(n, peers, req) \in
                     [Node -> [Node -> {"never", "recent", "elapsed"}]]
    BY DEF TypeOK, VerifiedNeighbor, ResetRequest, Placeholders, RequestTimes

LEMMA UpsertRouteType ==
    ASSUME TypeOK, NEW n \in Node, NEW dest \in Node, NEW hop \in Node,
           NEW c \in 0 .. MaxCost, NEW s \in Nat, UpsertRoute(n, dest, hop, c, s)
    PROVE  routes' \in [Node -> [Node -> RouteEntry \cup {NoEntry}]]
<1>1. [next_hop |-> hop, cost |-> c, seq |-> s] \in RouteEntry
    BY DEF RouteEntry
<1>2. QED
    BY <1>1 DEF TypeOK, UpsertRoute

LEMMA SpontaneousType ==
    ASSUME TypeOK, NEW kind, Spontaneous(kind),
           kind \in {"announce", "link_retry", "rreq_retry", "send", "relay"}
    PROVE  stimuli' \in [StimulusKind -> Nat]
    BY DEF TypeOK, Spontaneous, StimulusKind

\* Taking a frame from the air leaves receptions of frames there.
LEMMA HearsType ==
    ASSUME TypeOK, NEW n, NEW f, NEW kind, Hears(n, f, kind)
    PROVE  /\ air' \in SUBSET [frame : Frame, to : Node]
           /\ stimuli' \in [StimulusKind -> Nat]
    BY DEF TypeOK, Hears

LEMMA AcceptRouteType ==
    ASSUME TypeOK, NEW n \in Node, NEW f \in Frame, AcceptRoute(n, f)
    PROVE  /\ neighbors' \in [Node -> [Node -> {"absent", "unverified", "verified"}]]
           /\ link_req' \in [Node -> [Node -> {"never", "recent", "elapsed"}]]
    BY TableTypes, FrameFields DEF AcceptRoute

LEMMA LearnReversePathType ==
    ASSUME TypeOK, NEW n \in Node, NEW f \in Frame, f.kind = "rreq",
           LearnReversePath(n, f)
    PROVE  /\ routes' \in [Node -> [Node -> RouteEntry \cup {NoEntry}]]
           /\ reverse_paths' \in [Node -> [Id -> ReverseEntry \cup {NoEntry}]]
           /\ ReverseCost(n, f) \in 0 .. MaxCost
<1>1. /\ f.from \in Node /\ f.to \in Node /\ f.orig \in Node /\ f.id \in Id
      /\ f.orig_seq \in Nat /\ f.cost \in 0 .. MaxCost
    BY FrameFields
<1>2. ReverseCost(n, f) \in 0 .. MaxCost
    BY <1>1, ReceivedCostType DEF ReverseCost
<1>3. routes' \in [Node -> [Node -> RouteEntry \cup {NoEntry}]]
    BY <1>1, <1>2, UpsertRouteType DEF LearnReversePath
<1>4. [dest |-> IF reverse_paths[n][f.id] = NoEntry THEN f.to
                ELSE reverse_paths[n][f.id].dest,
       prev_hop |-> f.from, min_cost |-> ReverseCost(n, f)] \in ReverseEntry
    BY <1>1, <1>2 DEF TypeOK, ReverseEntry
<1>5. reverse_paths' \in [Node -> [Id -> ReverseEntry \cup {NoEntry}]]
    BY <1>1, <1>4 DEF TypeOK, LearnReversePath
<1>6. QED
    BY <1>2, <1>3, <1>5

LEMMA LearnRouteType ==
    ASSUME TypeOK, NEW n \in Node, NEW f \in Frame, f.kind = "rrep", LearnRoute(n, f)
    PROVE  /\ routes' \in [Node -> [Node -> RouteEntry \cup {NoEntry}]]
           /\ neighbors' \in [Node -> [Node -> {"absent", "unverified", "verified"}]]
           /\ reverse_paths[n][f.id] \in ReverseEntry
           /\ ViaCost(n, f) \in 0 .. MaxCost
<1>1. /\ f.from \in Node /\ f.id \in Id /\ f.dst_seq \in Nat /\ f.cost \in 0 .. MaxCost
    BY FrameFields
<1>2. ViaCost(n, f) \in 0 .. MaxCost
    BY <1>1, ReceivedCostType DEF ViaCost
<1>3. reverse_paths[n][f.id] \in ReverseEntry
    BY <1>1 DEF TypeOK, LearnRoute, OnReversePath
<1>4. routes' \in [Node -> [Node -> RouteEntry \cup {NoEntry}]]
    BY <1>1, <1>2, <1>3, UpsertRouteType DEF LearnRoute, ReverseEntry
<1>5. neighbors' \in [Node -> [Node -> {"absent", "unverified", "verified"}]]
    BY <1>1, TableTypes DEF LearnRoute
<1>6. QED
    BY <1>2, <1>3, <1>4, <1>5

\* A reply addressed to n: the request for a link, then the frames that pass it on.
LEMMA RrepAddressedType ==
    ASSUME TypeOK, NEW n \in Node, NEW f \in Frame, f.kind = "rrep",
           NEW frames \in Seq(Frame), RrepAddressed(n, f, frames)
    PROVE  /\ link_req' \in [Node -> [Node -> {"never", "recent", "elapsed"}]]
           /\ broadcast_queue' \in [Node -> Seq(Frame)]
<1> DEFINE req == ResetRequest(n, f.from)
<1>1. f.from \in Node /\ {f.from} \in SUBSET Node
    BY FrameFields
<1>2. req \in [Node -> [Node -> {"never", "recent", "elapsed"}]]
    BY <1>1, TableTypes
<1>3. link_req' = RequestTimes(n, {f.from}, req)
      /\ Enqueue(n, LinkRequest(n, f.from, req) \o frames)
    BY DEF RrepAddressed
<1> HIDE DEF req
<1>4. link_req' \in [Node -> [Node -> {"never", "recent", "elapsed"}]]
    BY <1>1, <1>2, <1>3, TableTypes
<1>5. LinkRequest(n, f.from, req) \o frames \in Seq(Frame)
    BY <1>1, LinkRequestType, FrameConstructors, ConcatProperties
<1>6. broadcast_queue' \in [Node -> Seq(Frame)]
    BY <1>3, <1>5, EnqueueKeepsQueues DEF TypeOK, Enqueue
<1>7. QED
    BY <1>4, <1>6

LEMMA ReceiveKeepsTypes ==
    ASSUME TypeOK, NEW n \in Node, NEW f \in Frame, Receive(n, f)
    PROVE  TypeOK'
<1>1. f.from \in Node /\ {f.from} \in SUBSET Node
    BY FrameFields
<1>2. CASE HandleAnnounce(n, f)
  <2> DEFINE wanted == IF f.from \in TargetPeers[n] THEN {f.from} ELSE {}
             frames == IF f.from \in wanted THEN LinkRequest(n, f.from, link_req) ELSE <<>>
  <2>1. /\ Hears(n, f, "announce")
        /\ neighbors' = VerifiedNeighbor(n, f.from)
        /\ link_req' = RequestTimes(n, wanted, link_req)
        /\ Enqueue(n, frames)
        /\ UNCHANGED <<links, routeVars>>
    BY <1>2 DEF HandleAnnounce
  <2>2. wanted \in SUBSET Node /\ frames \in Seq(Frame)
    BY <1>1, LinkRequestType, FrameConstructors
  <2>3. link_req \in [Node -> [Node -> {"never", "recent", "elapsed"}]]
    BY DEF TypeOK
  <2> HIDE DEF wanted, frames
  <2>4. /\ neighbors' \in [Node -> [Node -> {"absent", "unverified", "verified"}]]
        /\ link_req' \in [Node -> [Node -> {"never", "recent", "elapsed"}]]
    BY <1>1, <2>1, <2>2, <2>3, TableTypes
  <2>5. broadcast_queue' \in [Node -> Seq(Frame)]
    BY <2>1, <2>2, EnqueueKeepsQueues DEF TypeOK, Enqueue
  <2>6. QED
    BY <2>1, <2>4, <2>5, HearsType DEF TypeOK, routeVars
<1>3. CASE OverhearLink(n, f)
    BY <1>3, HearsType DEF TypeOK, OverhearLink, tableVars, routeVars
<1>4. ASSUME LinkUp(n, f)
      PROVE  /\ neighbors' \in [Node -> [Node -> {"absent", "unverified", "verified"}]]
             /\ links' \in [Node -> SUBSET Node]
    BY <1>1, <1>4, TableTypes DEF TypeOK, LinkUp
<1>5. CASE HandleLinkRequest(n, f)
  <2>1. <<LinkFrame("response", n, f.from)>> \in Seq(Frame)
    BY <1>1, FrameConstructors
  <2>2. broadcast_queue' \in [Node -> Seq(Frame)]
    BY <1>5, <2>1, EnqueueKeepsQueues DEF TypeOK, HandleLinkRequest, Enqueue
  <2>3. QED
    BY <1>4, <1>5, <2>2, HearsType DEF TypeOK, HandleLinkRequest, LinkUp, routeVars
<1>6. CASE HandleLinkResponse(n, f)
    BY <1>4, <1>6, HearsType DEF TypeOK, HandleLinkResponse, LinkUp, routeVars
<1>7. CASE RreqReturns(n, f)
    BY <1>7, HearsType DEF TypeOK, RreqReturns, tableVars, routeVars
<1>8. CASE RreqDuplicate(n, f)
    BY <1>8, HearsType, AcceptRouteType DEF TypeOK, RreqDuplicate, AcceptRoute
<1>9. CASE RreqAtDestination(n, f)
  <2>1. f.kind = "rreq" /\ LearnReversePath(n, f) /\ AcceptRoute(n, f)
    BY <1>9 DEF RreqAtDestination, Hears, LearnReversePath
  <2>2. RrepFrame(n, f.from, f.orig, f.id, seq[n], HopCost(n)) \in Frame
    <3>1. seq[n] \in Nat
      BY DEF TypeOK
    <3>2. HopCost(n) \in 0 .. MaxCost
      BY HopCostType, BoundAssumption
    <3>3. QED
      BY <1>1, <2>1, <3>1, <3>2, FrameFields, FrameConstructors
  <2>3. broadcast_queue' \in [Node -> Seq(Frame)]
    BY <1>9, <2>2, EnqueueKeepsQueues DEF TypeOK, RreqAtDestination, Enqueue
  <2>4. QED
    BY <1>9, <2>1, <2>3, HearsType, AcceptRouteType, LearnReversePathType
    DEF TypeOK, RreqAtDestination, AcceptRoute
<1>10. CASE RreqForward(n, f)
  <2>1. f.kind = "rreq" /\ LearnReversePath(n, f) /\ AcceptRoute(n, f)
    BY <1>10 DEF RreqForward, Hears, LearnReversePath
  <2>2. f.radius - 1 \in 0 .. RouteRadius
    BY <1>10, <2>1, FrameFields, BoundAssumption DEF RreqForward, MayRebroadcast
  <2>3. RreqFrame(n, f.to, f.orig, f.id, f.orig_seq, ReverseCost(n, f), f.radius - 1) \in Frame
    BY <1>1, <2>1, <2>2, FrameFields, FrameConstructors, LearnReversePathType
  <2>4. broadcast_queue' \in [Node -> Seq(Frame)]
    BY <1>10, <2>3, EnqueueKeepsQueues DEF TypeOK, RreqForward, Enqueue
  <2>5. QED
    BY <1>10, <2>1, <2>4, HearsType, AcceptRouteType, LearnReversePathType
    DEF TypeOK, RreqForward, AcceptRoute
<1>11. CASE RreqExpires(n, f)
  <2>1. f.kind = "rreq" /\ LearnReversePath(n, f) /\ AcceptRoute(n, f)
    BY <1>11 DEF RreqExpires, Hears, LearnReversePath
  <2>2. QED
    BY <1>11, <2>1, HearsType, AcceptRouteType, LearnReversePathType
    DEF TypeOK, RreqExpires, AcceptRoute
<1>12. CASE RrepStray(n, f)
    BY <1>12, HearsType, AcceptRouteType DEF TypeOK, RrepStray, AcceptRoute
<1>13. CASE RrepOverheard(n, f)
  <2>1. f.kind = "rrep" /\ LearnRoute(n, f)
    BY <1>13 DEF RrepOverheard, Hears
  <2>2. link_req' \in [Node -> [Node -> {"never", "recent", "elapsed"}]]
    BY <1>1, <1>13, TableTypes DEF RrepOverheard
  <2>3. QED
    BY <1>13, <2>1, <2>2, HearsType, LearnRouteType DEF TypeOK, RrepOverheard, LearnRoute
<1>14. CASE RrepAtOrigin(n, f)
  <2>1. f.kind = "rrep" /\ LearnRoute(n, f) /\ RrepAddressed(n, f, <<>>)
    BY <1>14 DEF RrepAtOrigin, Hears, RrepAddressed
  <2>2. <<>> \in Seq(Frame)
    BY EmptySeq
  <2>3. QED
    BY <1>14, <2>1, <2>2, HearsType, LearnRouteType, RrepAddressedType
    DEF TypeOK, RrepAtOrigin, LearnRoute
<1>15. CASE RrepForward(n, f)
  <2> DEFINE reply == RrepFrame(n, reverse_paths[n][f.id].prev_hop, f.orig,
                                f.id, f.dst_seq, ViaCost(n, f))
  <2>1. f.kind = "rrep" /\ LearnRoute(n, f) /\ RrepAddressed(n, f, <<reply>>)
    BY <1>15 DEF RrepForward, Hears, RrepAddressed
  <2>2. reply \in Frame
    BY <2>1, FrameFields, FrameConstructors, LearnRouteType DEF ReverseEntry
  <2>3. <<reply>> \in Seq(Frame)
    BY <2>2
  <2> HIDE DEF reply
  <2>4. QED
    BY <1>15, <2>1, <2>3, HearsType, LearnRouteType, RrepAddressedType
    DEF TypeOK, RrepForward, LearnRoute
<1>16. QED
    BY <1>2, <1>3, <1>5, <1>6, <1>7, <1>8, <1>9, <1>10, <1>11, <1>12, <1>13, <1>14,
       <1>15 DEF Receive

\* A step of the control plane, whomever a node's packets are for.  The echo
\* service of SloraMesh answers nodes that no application of its own addresses.
ControlStep == Next \/ \E n, d \in Node : RouteSend(n, d)

LEMMA InitTypeOK == Init => TypeOK
<1> SUFFICES ASSUME Init PROVE TypeOK
  OBVIOUS
<1>1. <<>> \in Seq(Frame)
  BY EmptySeq
<1>2. QED
  BY <1>1, BoundAssumption DEF Init, TypeOK

LEMMA StepTypeOK ==
    ASSUME TypeOK, [ControlStep]_vars
    PROVE  TypeOK'
<1>1. CASE UNCHANGED vars
  BY <1>1 DEF TypeOK, vars
<1>2. ASSUME NEW n \in Node, QueueEb(n) PROVE TypeOK'
  <2>1. <<AnnounceFrame(n)>> \in Seq(Frame)
    BY FrameConstructors
  <2>2. broadcast_queue' \in [Node -> Seq(Frame)]
    BY <1>2, <2>1, EnqueueKeepsQueues DEF TypeOK, QueueEb, Enqueue
  <2>3. QED
    BY <1>2, <2>2, SpontaneousType DEF TypeOK, QueueEb, tableVars, routeVars
<1>3. ASSUME NEW n \in Node, NEW p \in Node, LinkRetryElapsed(n, p) PROVE TypeOK'
  BY <1>3, SpontaneousType DEF TypeOK, LinkRetryElapsed, routeVars
<1>4. ASSUME NEW n \in Node, NEW d \in Node, RreqRetryElapsed(n, d) PROVE TypeOK'
  BY <1>4, SpontaneousType DEF TypeOK, RreqRetryElapsed, tableVars
<1>5. ASSUME NEW n \in Node, NEW d \in Node, RouteSend(n, d) PROVE TypeOK'
  <2>1. LinkCandidates(n, d) \in SUBSET Node
    BY DEF TypeOK, LinkCandidates, RouteEntry
  <2>2. /\ neighbors' \in [Node -> [Node -> {"absent", "unverified", "verified"}]]
        /\ link_req' \in [Node -> [Node -> {"never", "recent", "elapsed"}]]
    <3>1. link_req \in [Node -> [Node -> {"never", "recent", "elapsed"}]]
      BY DEF TypeOK
    <3>2. QED
      BY <1>5, <2>1, <3>1, TableTypes DEF RouteSend
  <2>3. CandidateRequests(n, d) \in Seq(Frame)
    BY CandidateRequestsType, FrameConstructors
  <2>4. CASE InitiateThrottled(n, d)
    <3>1. broadcast_queue' \in [Node -> Seq(Frame)]
      BY <2>3, <2>4, EnqueueKeepsQueues DEF TypeOK, InitiateThrottled, Enqueue
    <3>2. QED
      BY <1>5, <2>2, <2>4, <3>1, SpontaneousType
      DEF TypeOK, RouteSend, InitiateThrottled, routeVars
  <2>5. CASE InitiateDiscovery(n, d)
    <3>1. PICK id \in Id :
            /\ discovery' = [discovery EXCEPT ![id] = [orig |-> n, dest |-> d]]
            /\ reverse_paths' = [reverse_paths EXCEPT ![n][id] =
                                    [dest |-> d, prev_hop |-> n, min_cost |-> 0]]
            /\ Enqueue(n, CandidateRequests(n, d)
                          \o <<RreqFrame(n, d, n, id, seq[n] + 1, 0, RouteRadius)>>)
      BY <2>5 DEF InitiateDiscovery
    <3>2. RreqFrame(n, d, n, id, seq[n] + 1, 0, RouteRadius) \in Frame
      BY FrameConstructors, BoundAssumption DEF TypeOK
    <3>3. CandidateRequests(n, d) \o <<RreqFrame(n, d, n, id, seq[n] + 1, 0, RouteRadius)>>
            \in Seq(Frame)
      BY <2>3, <3>2, ConcatProperties
    <3>4. broadcast_queue' \in [Node -> Seq(Frame)]
      BY <3>1, <3>3, EnqueueKeepsQueues DEF TypeOK, Enqueue
    <3>5. [orig |-> n, dest |-> d] \in Discovery
          /\ [dest |-> d, prev_hop |-> n, min_cost |-> 0] \in ReverseEntry
      BY BoundAssumption DEF Discovery, ReverseEntry
    <3>6. /\ discovery' \in [Id -> Discovery \cup {NoEntry}]
          /\ reverse_paths' \in [Node -> [Id -> ReverseEntry \cup {NoEntry}]]
      BY <3>1, <3>5 DEF TypeOK
    <3>7. stimuli' \in [StimulusKind -> Nat]
      BY <1>5, SpontaneousType DEF RouteSend
    <3>8. /\ seq' \in [Node -> Nat]
          /\ rreq_recent' \in [Node -> SUBSET Node]
      BY <2>5 DEF TypeOK, InitiateDiscovery
    <3>9. UNCHANGED <<links, air, routes>>
      BY <1>5, <2>5 DEF RouteSend, InitiateDiscovery
    <3>10. QED
      BY <2>2, <3>4, <3>6, <3>7, <3>8, <3>9 DEF TypeOK
  <2>6. QED
    BY <1>5, <2>4, <2>5 DEF RouteSend
<1>6. ASSUME NEW n \in Node, NEW d \in Node, ForwardToward(n, d) PROVE TypeOK'
  <2> DEFINE peers == IF routes[n][d] # NoEntry THEN {routes[n][d].next_hop}
                      ELSE LinkCandidates(n, d)
  <2>1. peers \in SUBSET Node
    BY DEF TypeOK, LinkCandidates, RouteEntry
  <2>2. PICK p \in peers :
            /\ neighbors' = Placeholders(n, {p})
            /\ link_req' = RequestTimes(n, {p}, link_req)
            /\ Enqueue(n, LinkRequest(n, p, link_req))
    BY <1>6 DEF ForwardToward
  <2>3. {p} \in SUBSET Node
    BY <2>1, <2>2
  <2>4. link_req \in [Node -> [Node -> {"never", "recent", "elapsed"}]]
    BY DEF TypeOK
  <2>5. /\ neighbors' \in [Node -> [Node -> {"absent", "unverified", "verified"}]]
        /\ link_req' \in [Node -> [Node -> {"never", "recent", "elapsed"}]]
    BY <2>2, <2>3, <2>4, TableTypes
  <2>6. broadcast_queue' \in [Node -> Seq(Frame)]
    BY <2>2, <2>3, LinkRequestType, FrameConstructors, EnqueueKeepsQueues DEF TypeOK, Enqueue
  <2>7. QED
    BY <1>6, <2>5, <2>6, SpontaneousType DEF TypeOK, ForwardToward, routeVars
<1>7. ASSUME NEW n \in Node, Transmit(n) PROVE TypeOK'
  <2>1. Head(broadcast_queue[n]) \in Frame /\ broadcast_queue' \in [Node -> Seq(Frame)]
    BY <1>7, DequeueKeepsQueues DEF TypeOK, Transmit
  <2>2. air' \in SUBSET [frame : Frame, to : Node]
    BY <1>7, <2>1, NodeAssumption DEF TypeOK, Transmit
  <2>3. QED
    BY <1>7, <2>1, <2>2 DEF TypeOK, Transmit, tableVars, routeVars
<1>8. ASSUME NEW rx \in air, Receive(rx.to, rx.frame) PROVE TypeOK'
  <2> DEFINE n == rx.to
             f == rx.frame
  <2>1. n \in Node /\ f \in Frame
    BY <1>8 DEF TypeOK
  <2>2. QED
    BY <1>8, <2>1, ReceiveKeepsTypes
<1>9. QED
  BY <1>1, <1>2, <1>3, <1>4, <1>5, <1>6, <1>7, <1>8, NodeAssumption DEF ControlStep, Next, Stimulus

\* Every reachable state has the types the code's tables have.
THEOREM TypeCorrect == Spec => []TypeOK
<1>1. TypeOK /\ [Next]_vars => TypeOK'
    BY StepTypeOK DEF ControlStep
<1>2. QED
    BY <1>1, InitTypeOK, PTL DEF Spec
=============================================================================
