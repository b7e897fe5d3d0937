------------------------- MODULE SloraReverseProofs --------------------------
(***************************************************************************)
(* The reverse paths of a discovery form a tree rooted at its originator.  *)
(* ReverseTree is not inductive by itself: a request may wait in a queue   *)
(* while the sender's own entry changes.  What is kept is that the sender  *)
(* of a request in flight has an entry for its discovery that is at least  *)
(* as cheap as the request says.                                           *)
(***************************************************************************)
EXTENDS SloraRouteProofs

\* A request is backed by the reverse path of its sender.
Backed(f) ==
    f.kind = "rreq" => /\ reverse_paths[f.from][f.id] # NoEntry
                       /\ reverse_paths[f.from][f.id].min_cost <= f.cost

BackedFrame == {f \in Frame : Backed(f)}

FloodInFlight ==
    /\ broadcast_queue \in [Node -> Seq(BackedFrame)]
    /\ air \in SUBSET [frame : BackedFrame, to : Node]

\* The inductive invariant behind ReverseTree (next to RouteInv).
ReverseInv == ReverseTree /\ FloodInFlight

\* What no step undoes: entries get cheaper, and what a discovery looks for stays.
ReverseGrow ==
    /\ \A n \in Node, id \in Id : reverse_paths[n][id] # NoEntry =>
          /\ reverse_paths'[n][id] # NoEntry
          /\ reverse_paths'[n][id].min_cost <= reverse_paths[n][id].min_cost
    /\ \A id \in Id : discovery[id] # NoEntry => discovery'[id] = discovery[id]

LEMMA ReverseFields ==
    ASSUME TypeOK, NEW n \in Node, NEW id \in Id, reverse_paths[n][id] # NoEntry
    PROVE  /\ reverse_paths[n][id].dest \in Node
           /\ reverse_paths[n][id].prev_hop \in Node
           /\ reverse_paths[n][id].min_cost \in 0 .. MaxCost
    BY DEF TypeOK, ReverseEntry

LEMMA ReverseFieldsPrimed ==
    ASSUME TypeOK', NEW n \in Node, NEW id \in Id, reverse_paths'[n][id] # NoEntry
    PROVE  /\ reverse_paths'[n][id].dest \in Node
           /\ reverse_paths'[n][id].prev_hop \in Node
           /\ reverse_paths'[n][id].min_cost \in 0 .. MaxCost
    BY DEF TypeOK, ReverseEntry

(***************************************************************************)
(* Frames in flight.                                                       *)
(***************************************************************************)
LEMMA BackedStable ==
    ASSUME TypeOK, TypeOK', ReverseGrow
    PROVE  BackedFrame \subseteq BackedFrame'
<1> SUFFICES ASSUME NEW f \in Frame, Backed(f), f.kind = "rreq" PROVE Backed(f)'
    BY DEF BackedFrame, Backed, Frame
<1>1. f.from \in Node /\ f.id \in Id /\ f.cost \in 0 .. MaxCost
    BY FrameFields
<1>2. /\ reverse_paths[f.from][f.id] # NoEntry /\ reverse_paths'[f.from][f.id] # NoEntry
      /\ reverse_paths[f.from][f.id].min_cost <= f.cost
      /\ reverse_paths'[f.from][f.id].min_cost <= reverse_paths[f.from][f.id].min_cost
    BY <1>1 DEF Backed, ReverseGrow
<1>3. /\ reverse_paths[f.from][f.id].min_cost \in 0 .. MaxCost
      /\ reverse_paths'[f.from][f.id].min_cost \in 0 .. MaxCost
    BY <1>1, <1>2, ReverseFields, ReverseFieldsPrimed
<1>4. reverse_paths'[f.from][f.id].min_cost <= f.cost
    BY <1>1, <1>2, <1>3, BoundAssumption
<1>5. QED
    BY <1>2, <1>4 DEF Backed

LEMMA OtherFramesBacked ==
    ASSUME NEW f \in Frame, f.kind # "rreq"
    PROVE  f \in BackedFrame'
    BY DEF BackedFrame, Backed

LEMMA LinkFramesBacked ==
    /\ \A n \in Node : AnnounceFrame(n) \in BackedFrame'
    /\ \A n, p \in Node, op \in {"request", "response"} : LinkFrame(op, n, p) \in BackedFrame'
<1>1. \A n \in Node : AnnounceFrame(n).kind = "announce"
    BY DEF AnnounceFrame
<1>2. \A n, p \in Node, op \in {"request", "response"} : LinkFrame(op, n, p).kind = op
    BY DEF LinkFrame
<1>3. QED
    BY <1>1, <1>2, FrameConstructors, OtherFramesBacked

\* The queues and the air after a step that receives, and queues at most frames.
LEMMA InFlightBacked ==
    ASSUME TypeOK, TypeOK', FloodInFlight, ReverseGrow, air' \subseteq air,
           \/ UNCHANGED broadcast_queue
           \/ \E n \in Node : \E frames \in Seq(BackedFrame') : Enqueue(n, frames)
    PROVE  FloodInFlight'
<1>1. BackedFrame \subseteq BackedFrame'
    BY BackedStable
<1>2. air' \in SUBSET [frame : BackedFrame', to : Node]
    BY <1>1 DEF FloodInFlight
<1>3. broadcast_queue \in [Node -> Seq(BackedFrame')]
  <2>1. \A m \in Node : broadcast_queue[m] \in Seq(BackedFrame')
    BY <1>1, SeqMonotonic DEF FloodInFlight
  <2>2. QED
    BY <2>1 DEF FloodInFlight
<1>4. broadcast_queue' \in [Node -> Seq(BackedFrame')]
  <2>1. CASE UNCHANGED broadcast_queue
    BY <1>3, <2>1
  <2>2. ASSUME NEW n \in Node, NEW frames \in Seq(BackedFrame'), Enqueue(n, frames)
        PROVE  broadcast_queue' \in [Node -> Seq(BackedFrame')]
    BY <1>3, <2>2, EnqueueKeepsQueues DEF Enqueue
  <2>3. QED
    BY <2>1, <2>2
<1>5. QED
    BY <1>2, <1>4 DEF FloodInFlight

\* A step that leaves the reverse paths and the history of discoveries alone.
LEMMA ReverseUntouched ==
    ASSUME TypeOK, ReverseTree, UNCHANGED <<reverse_paths, discovery>>
    PROVE  ReverseTree' /\ ReverseGrow
<1>1. ReverseTree'
    BY DEF ReverseTree
<1>2. ReverseGrow
    BY ReverseFields DEF ReverseGrow
<1>3. QED
    BY <1>1, <1>2

(***************************************************************************)
(* The two steps that change a reverse path.                               *)
(***************************************************************************)
\* initiate() puts the root.
LEMMA RootAdded ==
    ASSUME TypeOK, RouteInv, ReverseTree, NEW n \in Node, NEW d \in Node, NEW id \in Id,
           discovery[id] = NoEntry,
           discovery' = [discovery EXCEPT ![id] = [orig |-> n, dest |-> d]],
           reverse_paths' = [reverse_paths EXCEPT ![n][id] =
                                [dest |-> d, prev_hop |-> n, min_cost |-> 0]]
    PROVE  ReverseTree' /\ ReverseGrow
<1>1. \A m \in Node : reverse_paths[m][id] = NoEntry
    BY DEF RouteInv, ReverseDest
<1>2. /\ \A i \in Id : i # id => discovery'[i] = discovery[i]
      /\ discovery'[id] = [orig |-> n, dest |-> d]
    BY DEF TypeOK
<1>3. /\ \A m \in Node, i \in Id : m # n \/ i # id =>
             reverse_paths'[m][i] = reverse_paths[m][i]
      /\ reverse_paths'[n][id] = [dest |-> d, prev_hop |-> n, min_cost |-> 0]
    BY DEF TypeOK
<1>4. ReverseGrow
  <2>1. \A m \in Node, i \in Id : reverse_paths[m][i] # NoEntry =>
            reverse_paths'[m][i] = reverse_paths[m][i]
    BY <1>1, <1>3
  <2>2. \A m \in Node, i \in Id : reverse_paths[m][i] # NoEntry =>
            reverse_paths[m][i].min_cost <= reverse_paths[m][i].min_cost
    BY ReverseFields
  <2>3. QED
    BY <1>2, <2>1, <2>2 DEF ReverseGrow
<1>5. ReverseTree'
  <2> SUFFICES ASSUME NEW m \in Node, NEW i \in Id, reverse_paths'[m][i] # NoEntry
               PROVE  LET r == reverse_paths'[m][i]
                          up == reverse_paths'[r.prev_hop][i]
                      IN  /\ discovery'[i] # NoEntry
                          /\ r.dest = discovery'[i].dest
                          /\ m = discovery'[i].orig <=> r.prev_hop = m
                          /\ r.prev_hop # m => /\ up # NoEntry
                                               /\ \/ up.min_cost < r.min_cost
                                                  \/ r.min_cost = MaxCost
    BY DEF ReverseTree
  <2>1. CASE i = id
    <3>1. m = n
      BY <1>1, <1>3, <2>1
    <3>2. [orig |-> n, dest |-> d] # NoEntry
      BY NoEntryAssumption DEF Discovery
    <3>3. QED
      BY <1>2, <1>3, <2>1, <3>1, <3>2
  <2>2. CASE i # id
    <3>1. /\ reverse_paths'[m][i] = reverse_paths[m][i]
          /\ discovery'[i] = discovery[i]
      BY <1>2, <1>3, <2>2
    <3>2. PICK hop \in Node : hop = reverse_paths[m][i].prev_hop
      BY <3>1, ReverseFields
    <3>3. reverse_paths'[hop][i] = reverse_paths[hop][i]
      BY <1>3, <2>2
    <3>4. QED
      BY <3>1, <3>2, <3>3 DEF ReverseTree
  <2>3. QED
    BY <2>1, <2>2
<1>6. QED
    BY <1>4, <1>5

\* handleRreq hangs its node under the sender of the request, or moves it there.
LEMMA BranchMoved ==
    ASSUME TypeOK, RouteInv, ReverseTree, NEW n \in Node, NEW f \in SoundFrame, Backed(f),
           f.kind = "rreq", f.from # n, LearnReversePath(n, f)
    PROVE  ReverseTree' /\ ReverseGrow
<1>1. f \in Frame /\ FrameSound(f)
    BY DEF SoundFrame
<1>2. /\ f.from \in Node /\ f.to \in Node /\ f.orig \in Node /\ f.id \in Id
      /\ f.cost \in 0 .. MaxCost
    BY <1>1, FrameFields
<1>3. discovery[f.id] = [orig |-> f.orig, dest |-> f.to]
    BY <1>1 DEF FrameSound
<1>4. discovery[f.id] # NoEntry
    BY <1>2, <1>3, NoEntryAssumption DEF Discovery
<1>5. /\ ReverseCost(n, f) \in 0 .. MaxCost
      /\ f.cost < ReverseCost(n, f) \/ ReverseCost(n, f) = MaxCost
    BY <1>2, ReceivedCostType DEF ReverseCost
<1>6. /\ reverse_paths[f.from][f.id] # NoEntry
      /\ reverse_paths[f.from][f.id].min_cost <= f.cost
      /\ reverse_paths[f.from][f.id].min_cost \in 0 .. MaxCost
    BY <1>2, ReverseFields DEF Backed
<1>7. f.orig # n /\ UNCHANGED discovery
    BY DEF LearnReversePath, AcceptRoute
<1> DEFINE new == [dest |-> IF reverse_paths[n][f.id] = NoEntry THEN f.to
                            ELSE reverse_paths[n][f.id].dest,
                   prev_hop |-> f.from, min_cost |-> ReverseCost(n, f)]
<1>8. /\ \A m \in Node, i \in Id : m # n \/ i # f.id =>
             reverse_paths'[m][i] = reverse_paths[m][i]
      /\ reverse_paths'[n][f.id] = new
  <2>1. reverse_paths \in [Node -> [Id -> ReverseEntry \cup {NoEntry}]]
    BY DEF TypeOK
  <2>2. reverse_paths' = [reverse_paths EXCEPT ![n][f.id] =
               [dest |-> IF @ = NoEntry THEN f.to ELSE @.dest,
                prev_hop |-> f.from, min_cost |-> ReverseCost(n, f)]]
    BY DEF LearnReversePath
  <2>3. reverse_paths'[n][f.id] = new
    BY <1>2, <2>1, <2>2
  <2>4. \A m \in Node, i \in Id : m # n \/ i # f.id =>
             reverse_paths'[m][i] = reverse_paths[m][i]
    BY <1>2, <2>1, <2>2
  <2>5. QED
    BY <2>3, <2>4
<1>9. new \in ReverseEntry /\ new # NoEntry
  <2>1. reverse_paths[n][f.id] # NoEntry => reverse_paths[n][f.id].dest \in Node
    BY <1>2, ReverseFields
  <2>2. new \in ReverseEntry
    BY <1>2, <1>5, <2>1 DEF ReverseEntry
  <2>3. QED
    BY <2>2, NoEntryAssumption
<1>10. new.dest = f.to
    BY <1>2, <1>3 DEF RouteInv, ReverseDest
<1>11. ReverseGrow
  <2> SUFFICES ASSUME NEW m \in Node, NEW i \in Id, reverse_paths[m][i] # NoEntry
               PROVE  /\ reverse_paths'[m][i] # NoEntry
                      /\ reverse_paths'[m][i].min_cost <= reverse_paths[m][i].min_cost
    BY <1>7 DEF ReverseGrow
  <2>1. reverse_paths[m][i].min_cost \in 0 .. MaxCost
    BY ReverseFields
  <2>2. CASE m # n \/ i # f.id
    BY <1>8, <2>1, <2>2
  <2>3. CASE m = n /\ i = f.id
    <3>1. ReverseCost(n, f) < reverse_paths[n][f.id].min_cost
      BY <2>3 DEF LearnReversePath, ShortensReversePath
    <3>2. QED
      BY <1>5, <1>8, <1>9, <2>1, <2>3, <3>1
  <2>4. QED
    BY <2>2, <2>3
<1>12. ReverseTree'
  <2> SUFFICES ASSUME NEW m \in Node, NEW i \in Id, reverse_paths'[m][i] # NoEntry
               PROVE  LET r == reverse_paths'[m][i]
                          up == reverse_paths'[r.prev_hop][i]
                      IN  /\ discovery'[i] # NoEntry
                          /\ r.dest = discovery'[i].dest
                          /\ m = discovery'[i].orig <=> r.prev_hop = m
                          /\ r.prev_hop # m => /\ up # NoEntry
                                               /\ \/ up.min_cost < r.min_cost
                                                  \/ r.min_cost = MaxCost
    BY DEF ReverseTree
  <2>1. CASE m = n /\ i = f.id
    <3>1. reverse_paths'[f.from][f.id] = reverse_paths[f.from][f.id]
      BY <1>2, <1>8
    <3>2. \/ reverse_paths[f.from][f.id].min_cost < ReverseCost(n, f)
          \/ ReverseCost(n, f) = MaxCost
      BY <1>2, <1>5, <1>6, BoundAssumption
    <3>3. reverse_paths'[m][i] = new /\ new.prev_hop = f.from
          /\ new.min_cost = ReverseCost(n, f)
      BY <1>8, <2>1
    <3>4. discovery'[i].orig = f.orig /\ discovery'[i].dest = f.to /\ discovery'[i] # NoEntry
      BY <1>3, <1>4, <1>7, <2>1
    <3>5. QED
      BY <1>6, <1>7, <1>10, <2>1, <3>1, <3>2, <3>3, <3>4
  <2>2. CASE m # n \/ i # f.id
    <3>1. reverse_paths'[m][i] = reverse_paths[m][i]
      BY <1>8, <2>2
    <3>2. PICK hop \in Node : hop = reverse_paths[m][i].prev_hop
      BY <3>1, ReverseFields
    <3>3. /\ discovery[i] # NoEntry
          /\ reverse_paths[m][i].dest = discovery[i].dest
          /\ m = discovery[i].orig <=> hop = m
          /\ hop # m => /\ reverse_paths[hop][i] # NoEntry
                        /\ \/ reverse_paths[hop][i].min_cost < reverse_paths[m][i].min_cost
                           \/ reverse_paths[m][i].min_cost = MaxCost
      BY <3>1, <3>2 DEF ReverseTree
    <3>4. ASSUME hop # m
          PROVE  /\ reverse_paths'[hop][i] # NoEntry
                 /\ \/ reverse_paths'[hop][i].min_cost < reverse_paths[m][i].min_cost
                    \/ reverse_paths[m][i].min_cost = MaxCost
      <4>1. /\ reverse_paths'[hop][i] # NoEntry
            /\ reverse_paths'[hop][i].min_cost <= reverse_paths[hop][i].min_cost
        BY <1>11, <3>3, <3>4 DEF ReverseGrow
      <4>2. /\ reverse_paths[hop][i].min_cost \in 0 .. MaxCost
            /\ reverse_paths[m][i].min_cost \in 0 .. MaxCost
        BY <3>1, <3>3, <3>4, ReverseFields
      <4>3. reverse_paths'[hop][i].min_cost \in 0 .. MaxCost
        BY <1>5, <1>8, <4>2
      <4>4. QED
        BY <3>3, <3>4, <4>1, <4>2, <4>3, BoundAssumption
    <3>5. QED
      BY <1>7, <3>1, <3>2, <3>3, <3>4
  <2>3. QED
    BY <2>1, <2>2
<1>13. QED
    BY <1>11, <1>12

(***************************************************************************)
(* Handlers.                                                               *)
(***************************************************************************)
LEMMA ReceiveKeepsReverseInv ==
    ASSUME TypeOK, TypeOK', RouteInv, ReverseInv, NEW n \in Node,
           NEW f \in SoundFrame, f \in BackedFrame, Receive(n, f)
    PROVE  ReverseInv'
<1>1. f \in Frame /\ f.from \in Node /\ Backed(f)
    BY FrameFields DEF BackedFrame
<1>2. f.from # n /\ air' \subseteq air
    BY DEF Receive, HandleAnnounce, OverhearLink, HandleLinkRequest, HandleLinkResponse,
           RreqReturns, RreqDuplicate, RreqAtDestination, RreqForward, RreqExpires,
           RrepStray, RrepOverheard, RrepAtOrigin, RrepForward, Hears
<1>3. SUFFICES /\ ReverseTree' /\ ReverseGrow
               /\ \/ UNCHANGED broadcast_queue
                  \/ \E frames \in Seq(BackedFrame') : Enqueue(n, frames)
    BY <1>2, InFlightBacked DEF ReverseInv
<1>4. CASE HandleAnnounce(n, f)
  <2> DEFINE frames == IF f.from \in TargetPeers[n]
                       THEN LinkRequest(n, f.from, link_req) ELSE <<>>
  <2>1. UNCHANGED <<reverse_paths, discovery>> /\ Enqueue(n, frames)
    BY <1>4 DEF HandleAnnounce, routeVars
  <2>2. frames \in Seq(BackedFrame')
    BY <1>1, LinkFramesBacked, LinkRequestType
  <2>3. QED
    BY <2>1, <2>2, ReverseUntouched DEF ReverseInv
<1>5. CASE OverhearLink(n, f) \/ HandleLinkResponse(n, f) \/ RreqReturns(n, f)
           \/ RreqDuplicate(n, f) \/ RrepStray(n, f)
  <2>1. UNCHANGED <<reverse_paths, discovery, broadcast_queue>>
    BY <1>5 DEF OverhearLink, HandleLinkResponse, LinkUp, RreqReturns, RreqDuplicate,
                RrepStray, AcceptRoute, routeVars
  <2>2. QED
    BY <2>1, ReverseUntouched DEF ReverseInv
<1>6. CASE HandleLinkRequest(n, f)
  <2>1. UNCHANGED <<reverse_paths, discovery>>
        /\ Enqueue(n, <<LinkFrame("response", n, f.from)>>)
    BY <1>6 DEF HandleLinkRequest, LinkUp, routeVars
  <2>2. <<LinkFrame("response", n, f.from)>> \in Seq(BackedFrame')
    BY <1>1, LinkFramesBacked
  <2>3. QED
    BY <2>1, <2>2, ReverseUntouched DEF ReverseInv
<1>7. ASSUME LearnReversePath(n, f), f.kind = "rreq"
      PROVE  /\ ReverseTree' /\ ReverseGrow
             /\ f.from \in Node /\ f.to \in Node /\ f.orig \in Node /\ f.id \in Id
             /\ f.orig_seq \in Nat /\ ReverseCost(n, f) \in 0 .. MaxCost
    BY <1>1, <1>2, <1>7, FrameFields, LearnReversePathType, BranchMoved DEF ReverseInv
<1>8. CASE RreqAtDestination(n, f)
  <2>1. f.kind = "rreq" /\ f.to = n /\ LearnReversePath(n, f)
    BY <1>8 DEF RreqAtDestination, Hears
  <2>2. seq[n] \in Nat /\ HopCost(n) \in 0 .. MaxCost
    BY HopCostType, BoundAssumption DEF TypeOK
  <2>3. PICK g \in Frame : g = RrepFrame(n, f.from, f.orig, f.id, seq[n], HopCost(n))
    BY <1>7, <2>1, <2>2, FrameConstructors
  <2>4. g \in BackedFrame'
    BY <2>3, OtherFramesBacked DEF RrepFrame
  <2>5. Enqueue(n, <<g>>) /\ <<g>> \in Seq(BackedFrame')
    BY <1>8, <2>3, <2>4 DEF RreqAtDestination
  <2>6. QED
    BY <1>7, <2>1, <2>5
<1>9. CASE RreqForward(n, f)
  <2>1. f.kind = "rreq" /\ LearnReversePath(n, f)
    BY <1>9 DEF RreqForward, Hears
  <2>2. f.radius - 1 \in 0 .. RouteRadius
    BY <1>1, <1>9, <2>1, FrameFields, BoundAssumption DEF RreqForward, MayRebroadcast
  <2>3. PICK g \in Frame : g = RreqFrame(n, f.to, f.orig, f.id, f.orig_seq,
                                         ReverseCost(n, f), f.radius - 1)
    BY <1>7, <2>1, <2>2, FrameConstructors
  <2>4. g.from = n /\ g.id = f.id /\ g.cost = ReverseCost(n, f)
    BY <2>3 DEF RreqFrame
  <2>5. /\ reverse_paths'[n][f.id] # NoEntry
        /\ reverse_paths'[n][f.id].min_cost <= ReverseCost(n, f)
    <3>1. reverse_paths \in [Node -> [Id -> ReverseEntry \cup {NoEntry}]]
      BY DEF TypeOK
    <3>2. reverse_paths' = [reverse_paths EXCEPT ![n][f.id] =
             [dest |-> IF @ = NoEntry THEN f.to ELSE @.dest,
              prev_hop |-> f.from, min_cost |-> ReverseCost(n, f)]]
      BY <2>1 DEF LearnReversePath
    <3>3. reverse_paths'[n][f.id] =
             [dest |-> IF reverse_paths[n][f.id] = NoEntry THEN f.to
                       ELSE reverse_paths[n][f.id].dest,
              prev_hop |-> f.from, min_cost |-> ReverseCost(n, f)]
      BY <1>7, <2>1, <3>1, <3>2
    <3>4. reverse_paths'[n][f.id] \in ReverseEntry
      <4>1. reverse_paths[n][f.id] # NoEntry => reverse_paths[n][f.id].dest \in Node
        BY <1>7, <2>1, ReverseFields
      <4>2. QED
        BY <1>7, <2>1, <3>3, <4>1 DEF ReverseEntry
    <3>5. QED
      BY <1>7, <2>1, <3>3, <3>4, NoEntryAssumption, BoundAssumption
  <2>6. g \in BackedFrame'
    BY <2>4, <2>5 DEF BackedFrame, Backed
  <2>7. Enqueue(n, <<g>>) /\ <<g>> \in Seq(BackedFrame')
    BY <1>9, <2>3, <2>6 DEF RreqForward
  <2>8. QED
    BY <1>7, <2>1, <2>7
<1>10. CASE RreqExpires(n, f)
  <2>1. f.kind = "rreq" /\ LearnReversePath(n, f) /\ UNCHANGED broadcast_queue
    BY <1>10 DEF RreqExpires, Hears
  <2>2. QED
    BY <1>7, <2>1
<1>11. ASSUME LearnRoute(n, f) PROVE ReverseTree' /\ ReverseGrow
    BY <1>11, ReverseUntouched DEF LearnRoute, ReverseInv
<1>12. CASE RrepOverheard(n, f)
    BY <1>11, <1>12 DEF RrepOverheard
<1>13. ASSUME NEW frames \in Seq(BackedFrame'), RrepAddressed(n, f, frames)
       PROVE  \E queued \in Seq(BackedFrame') : Enqueue(n, queued)
  <2>1. PICK req : Enqueue(n, LinkRequest(n, f.from, req) \o frames)
    BY <1>13 DEF RrepAddressed
  <2>2. LinkRequest(n, f.from, req) \in Seq(BackedFrame')
    BY <1>1, LinkFramesBacked, LinkRequestType
  <2>3. LinkRequest(n, f.from, req) \o frames \in Seq(BackedFrame')
    BY <1>13, <2>2, ConcatProperties
  <2>4. QED
    BY <2>1, <2>3
<1>14. CASE RrepAtOrigin(n, f)
  <2>1. LearnRoute(n, f) /\ RrepAddressed(n, f, <<>>)
    BY <1>14 DEF RrepAtOrigin, RrepAddressed
  <2>2. <<>> \in Seq(BackedFrame')
    BY EmptySeq
  <2>3. QED
    BY <1>11, <1>13, <2>1, <2>2
<1>15. CASE RrepForward(n, f)
  <2>1. /\ f.kind = "rrep" /\ LearnRoute(n, f)
        /\ RrepAddressed(n, f, <<RrepFrame(n, reverse_paths[n][f.id].prev_hop, f.orig,
                                           f.id, f.dst_seq, ViaCost(n, f))>>)
    BY <1>15 DEF RrepForward, Hears, RrepAddressed
  <2>2. /\ f.id \in Id /\ f.orig \in Node /\ f.dst_seq \in Nat
        /\ reverse_paths[n][f.id].prev_hop \in Node /\ ViaCost(n, f) \in 0 .. MaxCost
    BY <1>1, <2>1, FrameFields, LearnRouteType DEF ReverseEntry
  <2>3. PICK g \in Frame : g = RrepFrame(n, reverse_paths[n][f.id].prev_hop, f.orig,
                                         f.id, f.dst_seq, ViaCost(n, f))
    BY <2>2, FrameConstructors
  <2>4. g \in BackedFrame'
    BY <2>3, OtherFramesBacked DEF RrepFrame
  <2>5. <<g>> \in Seq(BackedFrame')
    BY <2>4
  <2>6. QED
    BY <1>11, <1>13, <2>1, <2>3, <2>5
<1>16. QED
    BY <1>4, <1>5, <1>6, <1>8, <1>9, <1>10, <1>12, <1>14, <1>15 DEF Receive

(***************************************************************************)
(* ReverseInv is an invariant.                                             *)
(***************************************************************************)
LEMMA InitReverseInv == Init => ReverseInv
<1> SUFFICES ASSUME Init PROVE ReverseInv
    OBVIOUS
<1>1. ReverseTree
    BY DEF Init, ReverseTree
<1>2. <<>> \in Seq(BackedFrame)
    BY EmptySeq
<1>3. FloodInFlight
    BY <1>2 DEF Init, FloodInFlight
<1>4. QED
    BY <1>1, <1>3 DEF ReverseInv

LEMMA StepReverseInv ==
    ASSUME TypeOK, TypeOK', RouteInv, ReverseInv, [ControlStep]_vars
    PROVE  ReverseInv'
<1>1. ASSUME UNCHANGED <<reverse_paths, discovery>>, air' \subseteq air,
             \/ UNCHANGED broadcast_queue
             \/ \E n \in Node : \E frames \in Seq(BackedFrame') : Enqueue(n, frames)
      PROVE  ReverseInv'
  <2>1. ReverseTree' /\ ReverseGrow
    BY <1>1, ReverseUntouched DEF ReverseInv
  <2>2. FloodInFlight'
    BY <1>1, <2>1, InFlightBacked DEF ReverseInv
  <2>3. QED
    BY <2>1, <2>2 DEF ReverseInv
<1>2. CASE UNCHANGED vars
    BY <1>1, <1>2 DEF vars
<1>3. ASSUME NEW n \in Node, QueueEb(n) PROVE ReverseInv'
  <2>1. Enqueue(n, <<AnnounceFrame(n)>>) /\ <<AnnounceFrame(n)>> \in Seq(BackedFrame')
    BY <1>3, LinkFramesBacked DEF QueueEb
  <2>2. UNCHANGED <<reverse_paths, discovery, air>>
    BY <1>3 DEF QueueEb, routeVars
  <2>3. QED
    BY <1>1, <2>1, <2>2
<1>4. ASSUME NEW n \in Node, NEW p \in Node, LinkRetryElapsed(n, p) PROVE ReverseInv'
    BY <1>1, <1>4 DEF LinkRetryElapsed, routeVars
<1>5. ASSUME NEW n \in Node, NEW d \in Node, RreqRetryElapsed(n, d) PROVE ReverseInv'
    BY <1>1, <1>5 DEF RreqRetryElapsed
<1>6. ASSUME NEW n \in Node, NEW d \in Node, RouteSend(n, d) PROVE ReverseInv'
  <2>1. CandidateRequests(n, d) \in Seq(BackedFrame')
    BY CandidateRequestsType, LinkFramesBacked
  <2>2. UNCHANGED air
    BY <1>6 DEF RouteSend
  <2>3. CASE InitiateThrottled(n, d)
    BY <1>1, <2>1, <2>2, <2>3 DEF InitiateThrottled, routeVars
  <2>4. CASE InitiateDiscovery(n, d)
    <3>1. PICK id \in Id :
            /\ discovery[id] = NoEntry
            /\ discovery' = [discovery EXCEPT ![id] = [orig |-> n, dest |-> d]]
            /\ reverse_paths' = [reverse_paths EXCEPT ![n][id] =
                                    [dest |-> d, prev_hop |-> n, min_cost |-> 0]]
            /\ Enqueue(n, CandidateRequests(n, d)
                          \o <<RreqFrame(n, d, n, id, seq[n] + 1, 0, RouteRadius)>>)
      BY <2>4 DEF InitiateDiscovery
    <3>2. ReverseTree' /\ ReverseGrow
      BY <3>1, RootAdded DEF ReverseInv
    <3>3. PICK g \in Frame : g = RreqFrame(n, d, n, id, seq[n] + 1, 0, RouteRadius)
      BY FrameConstructors, BoundAssumption DEF TypeOK
    <3>4. g.from = n /\ g.id = id /\ g.cost = 0
      BY <3>3 DEF RreqFrame
    <3>5. reverse_paths'[n][id] = [dest |-> d, prev_hop |-> n, min_cost |-> 0]
      BY <3>1 DEF TypeOK
    <3>6. [dest |-> d, prev_hop |-> n, min_cost |-> 0] # NoEntry
      BY NoEntryAssumption, BoundAssumption DEF ReverseEntry
    <3>7. g \in BackedFrame'
      BY <3>4, <3>5, <3>6 DEF BackedFrame, Backed
    <3>8. <<g>> \in Seq(BackedFrame')
      BY <3>7
    <3>9. CandidateRequests(n, d) \o <<g>> \in Seq(BackedFrame')
      BY <2>1, <3>8, ConcatProperties
    <3>10. Enqueue(n, CandidateRequests(n, d) \o <<g>>)
      BY <3>1, <3>3
    <3>11. FloodInFlight'
      BY <2>2, <3>2, <3>9, <3>10, InFlightBacked DEF ReverseInv
    <3>12. QED
      BY <3>2, <3>11 DEF ReverseInv
  <2>5. QED
    BY <1>6, <2>3, <2>4 DEF RouteSend
<1>7. ASSUME NEW n \in Node, NEW d \in Node, ForwardToward(n, d) PROVE ReverseInv'
  <2> DEFINE peers == IF routes[n][d] # NoEntry THEN {routes[n][d].next_hop}
                      ELSE LinkCandidates(n, d)
  <2>1. peers \in SUBSET Node
    BY DEF TypeOK, LinkCandidates, RouteEntry
  <2>2. PICK p \in peers : Enqueue(n, LinkRequest(n, p, link_req))
    BY <1>7 DEF ForwardToward
  <2>3. LinkRequest(n, p, link_req) \in Seq(BackedFrame')
    BY <2>1, LinkFramesBacked, LinkRequestType
  <2>4. UNCHANGED <<reverse_paths, discovery, air>>
    BY <1>7 DEF ForwardToward, routeVars
  <2>5. QED
    BY <1>1, <2>2, <2>3, <2>4
<1>8. ASSUME NEW n \in Node, Transmit(n) PROVE ReverseInv'
  <2>1. ReverseTree' /\ ReverseGrow
    BY <1>8, ReverseUntouched DEF Transmit, routeVars, ReverseInv
  <2>2. BackedFrame \subseteq BackedFrame'
    BY <2>1, BackedStable
  <2>3. /\ broadcast_queue \in [Node -> Seq(BackedFrame)]
        /\ air \in SUBSET [frame : BackedFrame, to : Node]
    BY DEF ReverseInv, FloodInFlight
  <2>4. broadcast_queue \in [Node -> Seq(BackedFrame')]
    <3>1. \A m \in Node : broadcast_queue[m] \in Seq(BackedFrame')
      BY <2>2, <2>3, SeqMonotonic
    <3>2. QED
      BY <2>3, <3>1
  <2>5. Head(broadcast_queue[n]) \in BackedFrame'
        /\ broadcast_queue' \in [Node -> Seq(BackedFrame')]
    BY <1>8, <2>4, DequeueKeepsQueues DEF Transmit
  <2>6. air' \in SUBSET [frame : BackedFrame', to : Node]
    <3>1. PICK heard \in SUBSET Node :
            air' = air \cup {[frame |-> Head(broadcast_queue[n]), to |-> m] : m \in heard}
      BY <1>8, NodeAssumption DEF Transmit
    <3>2. QED
      BY <2>2, <2>3, <2>5, <3>1
  <2>7. QED
    BY <2>1, <2>5, <2>6 DEF ReverseInv, FloodInFlight
<1>9. ASSUME NEW rx \in air, Receive(rx.to, rx.frame) PROVE ReverseInv'
  <2>1. rx.to \in Node /\ rx.frame \in SoundFrame /\ rx.frame \in BackedFrame
    BY DEF RouteInv, SoundInFlight, ReverseInv, FloodInFlight
  <2>2. QED
    BY <1>9, <2>1, ReceiveKeepsReverseInv
<1>10. QED
    BY <1>2, <1>3, <1>4, <1>5, <1>6, <1>7, <1>8, <1>9, NodeAssumption
    DEF ControlStep, Next, Stimulus

\* The reverse paths of every discovery form a tree rooted at its originator
\* (handleRreq's min_cost test, initiate), in every reachable state.
THEOREM ReversePathsLeadHome == Spec => []ReverseTree
<1>1. Init => ReverseInv
    BY InitReverseInv
<1>2. TypeOK /\ TypeOK' /\ RouteInv /\ ReverseInv /\ [Next]_vars => ReverseInv'
    BY StepReverseInv DEF ControlStep
<1>3. ReverseInv => ReverseTree
    BY DEF ReverseInv
<1>4. QED
    BY <1>1, <1>2, <1>3, TypeCorrect, RouteInvariance, PTL DEF Spec

(***************************************************************************)
(* Who writes the routes.                                                  *)
(***************************************************************************)
\* The only step on the routes is upsertRoute, on one entry.
LEMMA ReceiveUpserts ==
    ASSUME TypeOK, NEW n \in Node, NEW f \in Frame, Receive(n, f)
    PROVE  UNCHANGED routes \/ \E d \in Node : \E c \in 0 .. MaxCost, s \in Nat :
               UpsertRoute(n, d, f.from, c, s)
<1>1. CASE RreqAtDestination(n, f) \/ RreqForward(n, f) \/ RreqExpires(n, f)
  <2>1. f.kind = "rreq" /\ LearnReversePath(n, f)
    BY <1>1 DEF RreqAtDestination, RreqForward, RreqExpires, Hears
  <2>2. f.orig \in Node /\ f.orig_seq \in Nat /\ ReverseCost(n, f) \in 0 .. MaxCost
    BY <2>1, FrameFields, LearnReversePathType
  <2>3. QED
    BY <2>1, <2>2 DEF LearnReversePath
<1>2. CASE RrepOverheard(n, f) \/ RrepAtOrigin(n, f) \/ RrepForward(n, f)
  <2>1. f.kind = "rrep" /\ LearnRoute(n, f)
    BY <1>2 DEF RrepOverheard, RrepAtOrigin, RrepForward, RrepAddressed, Hears
  <2>2. /\ reverse_paths[n][f.id].dest \in Node /\ f.dst_seq \in Nat
        /\ ViaCost(n, f) \in 0 .. MaxCost
    BY <2>1, FrameFields, LearnRouteType DEF ReverseEntry
  <2>3. QED
    BY <2>1, <2>2 DEF LearnRoute
<1>3. QED
    BY <1>1, <1>2
    DEF Receive, HandleAnnounce, OverhearLink, HandleLinkRequest, HandleLinkResponse, LinkUp,
        RreqReturns, RreqDuplicate, RrepStray, routeVars

LEMMA StepUpserts ==
    ASSUME TypeOK, [ControlStep]_vars
    PROVE  UNCHANGED routes \/ \E n, d, hop \in Node : \E c \in 0 .. MaxCost, s \in Nat :
               UpsertRoute(n, d, hop, c, s)
<1>1. ASSUME NEW rx \in air, Receive(rx.to, rx.frame)
      PROVE  UNCHANGED routes \/ \E n, d, hop \in Node : \E c \in 0 .. MaxCost, s \in Nat :
               UpsertRoute(n, d, hop, c, s)
  <2>1. rx.to \in Node /\ rx.frame \in Frame
    BY DEF TypeOK
  <2>2. rx.frame.from \in Node
    BY <2>1, FrameFields
  <2>3. QED
    BY <1>1, <2>1, <2>2, ReceiveUpserts
<1>2. ASSUME NEW n \in Node, NEW d \in Node,
             QueueEb(n) \/ Transmit(n) \/ LinkRetryElapsed(n, d) \/ RreqRetryElapsed(n, d)
             \/ RouteSend(n, d) \/ ForwardToward(n, d)
      PROVE  UNCHANGED routes
    BY <1>2 DEF QueueEb, Transmit, LinkRetryElapsed, RreqRetryElapsed, RouteSend,
                InitiateThrottled, InitiateDiscovery, ForwardToward, routeVars
<1>3. CASE UNCHANGED vars
    BY <1>3 DEF vars
<1>4. QED
    BY <1>1, <1>2, <1>3, NodeAssumption DEF ControlStep, Next, Stimulus
=============================================================================
