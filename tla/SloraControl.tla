---------------------------- MODULE SloraControl ----------------------------
(***************************************************************************)
(* The control plane of a slora mesh: identity announcements               *)
(* (announce.zig), link setup (link.zig) and AODV-style route discovery    *)
(* (route.zig), on every node at once, over the shared broadcast radio.    *)
(*                                                                         *)
(* Abstractions.  A node is its address: a frame whose signature verifies  *)
(* comes from the node it names, so `from' stands for the public key, the  *)
(* signature and the exchange key.  The three tables keyed by time keep    *)
(* whether their retry interval has elapsed instead of a time stamp.  A    *)
(* node's broadcast queue and the host's copy of it (SloraApp::bcastQueue) *)
(* are one FIFO.  The medium delivers a frame to any subset of the nodes   *)
(* in range when Lossy (collisions, half-duplex radios), to all of them    *)
(* otherwise.  Discovery identifiers are random 32-bit numbers; they are   *)
(* taken as fresh.  Data packets, their queues and the TSCH clock are not  *)
(* here: SloraMesh adds the packets.                                       *)
(***************************************************************************)
EXTENDS Integers, Sequences, FiniteSets

CONSTANTS
    Node,           \* the addresses
    InRange,        \* InRange[n]: the nodes that can hear n
    TargetPeers,    \* TargetPeers[n]: the addresses n was told to link with
    Destinations,   \* Destinations[n]: where n's application sends to
    Id,             \* discovery identifiers
    RouteRadius,    \* route_radius: rebroadcasts a request may still see
    MaxLinks,       \* max_links_per_node
    MaxCost,        \* the largest u16: costs saturate there
    Lossy,          \* whether the medium may lose a frame at a receiver
    MaxStimuli,     \* bound: how often each kind of spontaneous step happens
    NoEntry         \* a table holds no entry for a key

ASSUME NodeAssumption ==
    /\ IsFiniteSet(Node)
    /\ InRange \in [Node -> SUBSET Node]
    /\ \A n \in Node : n \notin InRange[n]
    /\ TargetPeers \in [Node -> SUBSET Node]
    /\ Destinations \in [Node -> SUBSET Node]

\* What happens without a frame arriving: an announce timer, the two retry
\* intervals, the application's send and the arrival of a packet to relay.
StimulusKind == {"announce", "link_retry", "rreq_retry", "send", "relay"}

ASSUME BoundAssumption ==
    /\ RouteRadius \in Nat
    /\ MaxLinks \in Nat
    /\ MaxCost \in Nat
    /\ Cardinality(Node) < MaxCost     \* hopCost's @intCast never traps
    /\ MaxStimuli \in [StimulusKind -> Nat]
    /\ Lossy \in BOOLEAN

RouteEntry   == [next_hop : Node, cost : 0 .. MaxCost, seq : Nat]
ReverseEntry == [dest : Node, prev_hop : Node, min_cost : 0 .. MaxCost]
Discovery    == [orig : Node, dest : Node]

\* NoEntry is none of the entries (it is a model value in TLC).
ASSUME NoEntryAssumption ==
    NoEntry \notin RouteEntry \cup ReverseEntry \cup Discovery

VARIABLES
    neighbors,        \* neighbors[n][p]: what n knows of p's public key
    link_req,         \* link_req[n][p]: when n last asked p for a link
    links,            \* links[n]: the peers n holds a link key for
    routes,           \* routes[n][d]: n's RouteEntry towards d
    reverse_paths,    \* reverse_paths[n][id]: n's ReverseEntry for a discovery
    seq,              \* seq[n]: how many discoveries n has started
    rreq_recent,      \* rreq_recent[n]: destinations asked for within the retry time
    broadcast_queue,  \* broadcast_queue[n]: frames waiting for n's broadcast radio
    air,              \* receptions still to happen: [frame, to]
    discovery,        \* history: who asked for whom under each identifier
    stimuli           \* how many spontaneous steps of each kind there have been

tableVars == <<neighbors, link_req, links>>
routeVars == <<routes, reverse_paths, seq, rreq_recent, discovery>>
vars == <<neighbors, link_req, links, routes, reverse_paths, seq, rreq_recent,
          broadcast_queue, air, discovery, stimuli>>

(***************************************************************************)
(* Frames.                                                                 *)
(***************************************************************************)
AnnounceFrame(n) == [kind |-> "announce", from |-> n]

LinkFrame(op, n, p) == [kind |-> op, to |-> p, from |-> n]

RreqFrame(n, dest, orig, id, orig_seq, cost, radius) ==
    [kind |-> "rreq", to |-> dest, from |-> n, orig |-> orig, id |-> id,
     orig_seq |-> orig_seq, cost |-> cost, radius |-> radius]

RrepFrame(n, to_hop, orig, id, dst_seq, cost) ==
    [kind |-> "rrep", to |-> to_hop, from |-> n, orig |-> orig, id |-> id,
     dst_seq |-> dst_seq, cost |-> cost]

Frame ==
    [kind : {"announce"}, from : Node]
    \cup [kind : {"request", "response"}, to : Node, from : Node]
    \cup [kind : {"rreq"}, to : Node, from : Node, orig : Node, id : Id,
          orig_seq : Nat, cost : 0 .. MaxCost, radius : 0 .. RouteRadius]
    \cup [kind : {"rrep"}, to : Node, from : Node, orig : Node, id : Id,
          dst_seq : Nat, cost : 0 .. MaxCost]

(***************************************************************************)
(* Pure helpers of the handlers.                                           *)
(***************************************************************************)
\* Mutants: the sum is not saturated; the sum wraps.
PlainAdd(a, b) == a + b
WrapAdd(a, b) == (a + b) % (MaxCost + 1)

\* u16 addition that saturates (`+|').
SatAdd(a, b) == IF a + b > MaxCost THEN MaxCost ELSE a + b

HopCost(n) == 1 + Cardinality(links[n])

\* Mutant: the route heard last is kept.
ImprovesAlways(seq1, cost1, r) == TRUE

\* The comparison of upsertRoute: a newer sequence number, or a cheaper path.
Improves(seq1, cost1, r) ==
    \/ r = NoEntry
    \/ seq1 > r.seq
    \/ seq1 = r.seq /\ cost1 < r.cost

\* upsertRoute applied to node n's route to dest.
UpsertRoute(n, dest, next_hop, cost, seq1) ==
    routes' = IF Improves(seq1, cost, routes[n][dest])
              THEN [routes EXCEPT ![n][dest] =
                       [next_hop |-> next_hop, cost |-> cost, seq |-> seq1]]
              ELSE routes

\* Mutants: only a known entry is filled in; the entry is always replaced.
VerifiedIfKnown(n, p) ==
    IF neighbors[n][p] = "absent" THEN neighbors ELSE [neighbors EXCEPT ![n][p] = "verified"]
ResetAlways(n, p) == [link_req EXCEPT ![n][p] = "never"]

\* The neighbour table, and the link request times, of n after verifySig
\* accepted a frame of p: an entry without a key is replaced by a new one.
VerifiedNeighbor(n, p) == [neighbors EXCEPT ![n][p] = "verified"]
ResetRequest(n, p) ==
    IF neighbors[n][p] = "verified" THEN link_req ELSE [link_req EXCEPT ![n][p] = "never"]

\* tryEstablish gets as far as the neighbour table.
MayLink(n, p) == p # n /\ p \notin links[n] /\ Cardinality(links[n]) < MaxLinks

\* The frames tryEstablish(n, p) queues when the request times are req.
LinkRequest(n, p, req) ==
    IF MayLink(n, p) /\ req[n][p] # "recent"
    THEN <<LinkFrame("request", n, p)>> ELSE <<>>

\* The request times after tryEstablish(n, p) for every p in peers.
RequestTimes(n, peers, req) ==
    [req EXCEPT ![n] = [p \in Node |-> IF p \in peers /\ MayLink(n, p)
                                       THEN "recent" ELSE req[n][p]]]

\* The neighbour table after it: an unknown peer gets an entry without a key.
Placeholders(n, peers) ==
    [neighbors EXCEPT ![n] = [p \in Node |->
        IF p \in peers /\ MayLink(n, p) /\ neighbors[n][p] = "absent"
        THEN "unverified" ELSE neighbors[n][p]]]

Enqueue(n, frames) ==
    broadcast_queue' = [broadcast_queue EXCEPT ![n] = @ \o frames]

Spontaneous(kind) ==
    /\ stimuli[kind] < MaxStimuli[kind]
    /\ stimuli' = [stimuli EXCEPT ![kind] = @ + 1]

Init ==
    /\ neighbors = [n \in Node |-> [p \in Node |-> "absent"]]
    /\ link_req = [n \in Node |-> [p \in Node |-> "never"]]
    /\ links = [n \in Node |-> {}]
    /\ routes = [n \in Node |-> [d \in Node |-> NoEntry]]
    /\ reverse_paths = [n \in Node |-> [id \in Id |-> NoEntry]]
    /\ seq = [n \in Node |-> 0]
    /\ rreq_recent = [n \in Node |-> {}]
    /\ broadcast_queue = [n \in Node |-> <<>>]
    /\ air = {}
    /\ discovery = [id \in Id |-> NoEntry]
    /\ stimuli = [kind \in StimulusKind |-> 0]

(***************************************************************************)
(* Spontaneous steps: timers and the application.                          *)
(***************************************************************************)
\* Slot 0 after an announce wakeup: buildAndQueueEb.
QueueEb(n) ==
    /\ Spontaneous("announce")
    /\ Enqueue(n, <<AnnounceFrame(n)>>)
    /\ UNCHANGED <<tableVars, routeVars, air>>

\* retry_interval_ns has passed since n asked p for a link.
LinkRetryElapsed(n, p) ==
    /\ Spontaneous("link_retry")
    /\ link_req[n][p] = "recent"
    /\ link_req' = [link_req EXCEPT ![n][p] = "elapsed"]
    /\ UNCHANGED <<neighbors, links, routeVars, broadcast_queue, air>>

\* rreq_retry_ns has passed since n asked for d.
RreqRetryElapsed(n, d) ==
    /\ Spontaneous("rreq_retry")
    /\ d \in rreq_recent[n]
    /\ rreq_recent' = [rreq_recent EXCEPT ![n] = @ \ {d}]
    /\ UNCHANGED <<tableVars, routes, reverse_paths, seq, discovery,
                   broadcast_queue, air>>

\* n holds a link on which a packet for d can leave.
HasUsableLink(n, d) ==
    \/ d \in links[n]
    \/ routes[n][d] # NoEntry /\ routes[n][d].next_hop \in links[n]

\* The peers send() asks for a link on the way to d, its route's next hop first.
LinkCandidates(n, d) ==
    (IF routes[n][d] # NoEntry THEN {routes[n][d].next_hop} ELSE {})
    \cup (IF neighbors[n][d] # "absent" THEN {d} ELSE {})

CandidateRequests(n, d) ==
    LET hop == IF routes[n][d] # NoEntry THEN {routes[n][d].next_hop} ELSE {}
    IN  (IF hop # {} THEN LinkRequest(n, routes[n][d].next_hop, link_req) ELSE <<>>)
        \o (IF neighbors[n][d] # "absent" /\ d \notin hop
            THEN LinkRequest(n, d, link_req) ELSE <<>>)

\* initiate() up to its flood: within the retry time of an earlier request the
\* payload only waits; otherwise n floods a request under a fresh identifier.
InitiateThrottled(n, d) ==
    /\ d \in rreq_recent[n]
    /\ Enqueue(n, CandidateRequests(n, d))
    /\ UNCHANGED routeVars

InitiateDiscovery(n, d) ==
    /\ d \notin rreq_recent[n]
    /\ rreq_recent' = [rreq_recent EXCEPT ![n] = @ \cup {d}]
    /\ seq' = [seq EXCEPT ![n] = @ + 1]
    /\ \E id \in Id :
          /\ discovery[id] = NoEntry
          /\ discovery' = [discovery EXCEPT ![id] = [orig |-> n, dest |-> d]]
          /\ reverse_paths' = [reverse_paths EXCEPT ![n][id] =
                                  [dest |-> d, prev_hop |-> n, min_cost |-> 0]]
          /\ Enqueue(n, CandidateRequests(n, d)
                        \o <<RreqFrame(n, d, n, id, seq[n] + 1, 0, RouteRadius)>>)
    /\ UNCHANGED routes

\* send() of the node's own payload when no usable link exists.
RouteSend(n, d) ==
    /\ Spontaneous("send")
    /\ d # n
    /\ ~HasUsableLink(n, d)
    /\ neighbors' = Placeholders(n, LinkCandidates(n, d))
    /\ link_req' = RequestTimes(n, LinkCandidates(n, d), link_req)
    /\ InitiateThrottled(n, d) \/ InitiateDiscovery(n, d)
    /\ UNCHANGED <<links, air>>

\* forwardToward() of a packet that arrived over a link: without a usable link
\* it asks the next hop, or a neighbouring destination without route, for one.
ForwardToward(n, d) ==
    LET peers == IF routes[n][d] # NoEntry THEN {routes[n][d].next_hop}
                 ELSE LinkCandidates(n, d)
    IN  /\ Spontaneous("relay")
        /\ d # n
        /\ links[n] # {}
        /\ ~HasUsableLink(n, d)
        /\ \E p \in peers :
              /\ neighbors' = Placeholders(n, {p})
              /\ link_req' = RequestTimes(n, {p}, link_req)
              /\ Enqueue(n, LinkRequest(n, p, link_req))
        /\ UNCHANGED <<links, routeVars, air>>

(***************************************************************************)
(* The broadcast radio.                                                    *)
(***************************************************************************)
\* The head of n's queue goes on the air.  The receptions of n's previous frame
\* are over by then.
Transmit(n) ==
    /\ broadcast_queue[n] # <<>>
    /\ \A rx \in air : rx.frame.from # n
    /\ \E heard \in IF Lossy THEN SUBSET InRange[n] ELSE {InRange[n]} :
          air' = air \cup {[frame |-> Head(broadcast_queue[n]), to |-> m] : m \in heard}
    /\ broadcast_queue' = [broadcast_queue EXCEPT ![n] = Tail(@)]
    /\ UNCHANGED <<tableVars, routeVars, stimuli>>

\* Node n takes frame f from the air.  (Every handler returns on a frame of the
\* node itself; no radio hears its own.)
Hears(n, f, kind) ==
    /\ f.kind = kind
    /\ f.from # n
    /\ air' = air \ {[frame |-> f, to |-> n]}
    /\ UNCHANGED stimuli

(***************************************************************************)
(* announce.handleRx and link.handleRx.                                    *)
(***************************************************************************)
HandleAnnounce(n, f) ==
    LET p == f.from
        wanted == IF p \in TargetPeers[n] THEN {p} ELSE {}
    IN  /\ Hears(n, f, "announce")
        /\ neighbors' = VerifiedNeighbor(n, p)
        /\ link_req' = RequestTimes(n, wanted, link_req)
        /\ Enqueue(n, IF p \in wanted THEN LinkRequest(n, p, link_req) ELSE <<>>)
        /\ UNCHANGED <<links, routeVars>>

\* A link frame for someone else.
OverhearLink(n, f) ==
    /\ f.kind \in {"request", "response"}
    /\ Hears(n, f, f.kind)
    /\ f.to # n
    /\ UNCHANGED <<tableVars, routeVars, broadcast_queue>>

\* Mutant: env.to is not looked at.
LinkUpUnaddressed(n, f) ==
    /\ neighbors' = VerifiedNeighbor(n, f.from)
    /\ links' = [links EXCEPT ![n] = @ \cup {f.from}]
    /\ UNCHANGED <<link_req, routeVars>>

LinkUp(n, f) ==
    /\ f.to = n
    /\ neighbors' = VerifiedNeighbor(n, f.from)
    /\ links' = [links EXCEPT ![n] = @ \cup {f.from}]
    /\ UNCHANGED <<link_req, routeVars>>

\* Mutant: the responder brings its side up and does not answer.
HandleLinkRequestSilent(n, f) ==
    /\ Hears(n, f, "request")
    /\ LinkUp(n, f)
    /\ UNCHANGED broadcast_queue

HandleLinkRequest(n, f) ==
    /\ Hears(n, f, "request")
    /\ LinkUp(n, f)
    /\ Enqueue(n, <<LinkFrame("response", n, f.from)>>)

HandleLinkResponse(n, f) ==
    /\ Hears(n, f, "response")
    /\ LinkUp(n, f)
    /\ UNCHANGED broadcast_queue

(***************************************************************************)
(* route.handleRreq.                                                       *)
(***************************************************************************)
\* n's own request comes back.
RreqReturns(n, f) ==
    /\ Hears(n, f, "rreq")
    /\ f.orig = n
    /\ UNCHANGED <<tableVars, routeVars, broadcast_queue>>

\* verifySig accepted f.
AcceptRoute(n, f) ==
    /\ neighbors' = VerifiedNeighbor(n, f.from)
    /\ link_req' = ResetRequest(n, f.from)
    /\ UNCHANGED <<links, seq, rreq_recent, discovery>>

\* Mutant: the receiver's own hop is not charged.
ReverseCostOfSender(n, f) == f.cost

ReverseCost(n, f) == SatAdd(f.cost, HopCost(n))

\* f took a cheaper way to n than any request of its discovery before it.
ShortensReversePath(n, f) ==
    reverse_paths[n][f.id] # NoEntry =>
        ReverseCost(n, f) < reverse_paths[n][f.id].min_cost

RreqDuplicate(n, f) ==
    /\ Hears(n, f, "rreq")
    /\ f.orig # n
    /\ ~ShortensReversePath(n, f)
    /\ AcceptRoute(n, f)
    /\ UNCHANGED <<routes, reverse_paths, broadcast_queue>>

\* The tables after a request that shortens the reverse path.
LearnReversePath(n, f) ==
    /\ f.orig # n
    /\ ShortensReversePath(n, f)
    /\ AcceptRoute(n, f)
    /\ reverse_paths' = [reverse_paths EXCEPT ![n][f.id] =
          [dest |-> IF @ = NoEntry THEN f.to ELSE @.dest,
           prev_hop |-> f.from, min_cost |-> ReverseCost(n, f)]]
    /\ UpsertRoute(n, f.orig, f.from, ReverseCost(n, f), f.orig_seq)

RreqAtDestination(n, f) ==
    /\ Hears(n, f, "rreq")
    /\ f.to = n
    /\ LearnReversePath(n, f)
    /\ Enqueue(n, <<RrepFrame(n, f.from, f.orig, f.id, seq[n], HopCost(n))>>)

\* Mutant: the radius runs out one hop early.
MayRebroadcastEarly(f) == f.radius > 1

MayRebroadcast(f) == f.radius > 0

RreqForward(n, f) ==
    /\ Hears(n, f, "rreq")
    /\ f.to # n
    /\ MayRebroadcast(f)
    /\ LearnReversePath(n, f)
    /\ Enqueue(n, <<RreqFrame(n, f.to, f.orig, f.id, f.orig_seq,
                              ReverseCost(n, f), f.radius - 1)>>)

RreqExpires(n, f) ==
    /\ Hears(n, f, "rreq")
    /\ f.to # n
    /\ ~MayRebroadcast(f)
    /\ LearnReversePath(n, f)
    /\ UNCHANGED broadcast_queue

(***************************************************************************)
(* route.handleRrep.                                                       *)
(***************************************************************************)
\* n saw the discovery and is not what it looked for.
OnReversePath(n, f) ==
    /\ reverse_paths[n][f.id] # NoEntry
    /\ reverse_paths[n][f.id].dest # n

RrepStray(n, f) ==
    /\ Hears(n, f, "rrep")
    /\ ~OnReversePath(n, f)
    /\ AcceptRoute(n, f)
    /\ UNCHANGED <<routes, reverse_paths, broadcast_queue>>

ViaCost(n, f) == SatAdd(f.cost, HopCost(n))

\* The reply teaches n a route, whoever it is addressed to.
LearnRoute(n, f) ==
    /\ OnReversePath(n, f)
    /\ UpsertRoute(n, reverse_paths[n][f.id].dest, f.from, ViaCost(n, f), f.dst_seq)
    /\ neighbors' = VerifiedNeighbor(n, f.from)
    /\ UNCHANGED <<links, seq, rreq_recent, discovery, reverse_paths>>

RrepOverheard(n, f) ==
    /\ Hears(n, f, "rrep")
    /\ f.to # n
    /\ LearnRoute(n, f)
    /\ link_req' = ResetRequest(n, f.from)
    /\ UNCHANGED broadcast_queue

\* The reply is n's to pass on: n asks its sender for a link, and unless n
\* started the discovery sends the reply one hop up the reverse path.
RrepAddressed(n, f, frames) ==
    LET req == ResetRequest(n, f.from)
    IN  /\ f.to = n
        /\ LearnRoute(n, f)
        /\ link_req' = RequestTimes(n, {f.from}, req)
        /\ Enqueue(n, LinkRequest(n, f.from, req) \o frames)

RrepAtOrigin(n, f) ==
    /\ Hears(n, f, "rrep")
    /\ f.orig = n
    /\ RrepAddressed(n, f, <<>>)

RrepForward(n, f) ==
    /\ Hears(n, f, "rrep")
    /\ f.orig # n
    /\ RrepAddressed(n, f, <<RrepFrame(n, reverse_paths[n][f.id].prev_hop, f.orig,
                                       f.id, f.dst_seq, ViaCost(n, f))>>)

(***************************************************************************)
(* The specification.                                                      *)
(***************************************************************************)
Receive(n, f) ==
    \/ HandleAnnounce(n, f)
    \/ OverhearLink(n, f)
    \/ HandleLinkRequest(n, f)
    \/ HandleLinkResponse(n, f)
    \/ RreqReturns(n, f)
    \/ RreqDuplicate(n, f)
    \/ RreqAtDestination(n, f)
    \/ RreqForward(n, f)
    \/ RreqExpires(n, f)
    \/ RrepStray(n, f)
    \/ RrepOverheard(n, f)
    \/ RrepAtOrigin(n, f)
    \/ RrepForward(n, f)

Stimulus ==
    \/ \E n \in Node : QueueEb(n)
    \/ \E n, p \in Node : LinkRetryElapsed(n, p)
    \/ \E n, d \in Node : RreqRetryElapsed(n, d)
    \/ \E n \in Node : \E d \in Destinations[n] : RouteSend(n, d)
    \/ \E n, d \in Node : ForwardToward(n, d)

Next ==
    \/ Stimulus
    \/ \E n \in Node : Transmit(n)
    \/ \E rx \in air : Receive(rx.to, rx.frame)

Spec == Init /\ [][Next]_vars

\* While a frame is queued or on the air some node's slot wakeup drains its queue
\* (tsch.handleSlotWakeup runs once per slot, for ever) or a frame is received or
\* lost, never parked; a bounded number of stimuli leaves none of them behind.
Fairness ==
    WF_vars(\/ \E n \in Node : Transmit(n)
            \/ \E rx \in air : Receive(rx.to, rx.frame))

FairSpec == Spec /\ Fairness

(***************************************************************************)
(* Properties.                                                             *)
(***************************************************************************)
\* The tables, the queues and the air hold what the code can put there.
TypeOK ==
    /\ neighbors \in [Node -> [Node -> {"absent", "unverified", "verified"}]]
    /\ link_req \in [Node -> [Node -> {"never", "recent", "elapsed"}]]
    /\ links \in [Node -> SUBSET Node]
    /\ routes \in [Node -> [Node -> RouteEntry \cup {NoEntry}]]
    /\ reverse_paths \in [Node -> [Id -> ReverseEntry \cup {NoEntry}]]
    /\ seq \in [Node -> Nat]
    /\ rreq_recent \in [Node -> SUBSET Node]
    /\ broadcast_queue \in [Node -> Seq(Frame)]
    /\ air \in SUBSET [frame : Frame, to : Node]
    /\ discovery \in [Id -> Discovery \cup {NoEntry}]
    /\ stimuli \in [StimulusKind -> Nat]

\* Node m's word on dest d (m is d, or has a route) beats cost c under sequence
\* number s: upsertRoute at m would refuse (s, c), strictly unless c is saturated.
Beats(m, d, s, c) ==
    \/ m = d
    \/ /\ routes[m][d] # NoEntry
       /\ \/ routes[m][d].seq > s
          \/ /\ routes[m][d].seq = s
             /\ \/ routes[m][d].cost < c
                \/ routes[m][d].cost = c /\ c = MaxCost

\* Along every route the next hop is closer: it is the destination or holds a
\* newer or cheaper route to it (upsertRoute, handleRreq and handleRrep at all
\* nodes, whatever was lost, reordered between senders or overheard).
RouteOrder ==
    \A n, d \in Node : routes[n][d] # NoEntry =>
        Beats(routes[n][d].next_hop, d, routes[n][d].seq, routes[n][d].cost)

\* No set of nodes routes packets for d in circles: forwardToward has no hop
\* count, so a routing loop would carry a packet for ever.  A set closed under
\* next_hop that misses d could only exist where a path cost is saturated.
LoopFree ==
    \A d \in Node : \A S \in SUBSET (Node \ {d}) : S # {} =>
        \E n \in S :
            \/ routes[n][d] = NoEntry
            \/ routes[n][d].next_hop \notin S
            \/ routes[n][d].cost = MaxCost

\* Node m stands behind cost c under sequence number s for destination d: it is
\* the destination, or its own route is at least that good.
Advertises(m, d, s, c) ==
    /\ s <= seq[d]
    /\ \/ m = d
       \/ /\ routes[m][d] # NoEntry
          /\ \/ routes[m][d].seq > s
             \/ routes[m][d].seq = s /\ routes[m][d].cost <= c

\* A frame says what its discovery is about, and its sender stands behind it.
FrameSound(f) ==
    /\ f.kind = "rreq" => /\ discovery[f.id] = [orig |-> f.orig, dest |-> f.to]
                          /\ Advertises(f.from, f.orig, f.orig_seq, f.cost)
    /\ f.kind = "rrep" => /\ discovery[f.id] # NoEntry
                          /\ Advertises(f.from, discovery[f.id].dest, f.dst_seq, f.cost)

SoundFrame == {f \in Frame : FrameSound(f)}

SoundInFlight ==
    /\ broadcast_queue \in [Node -> Seq(SoundFrame)]
    /\ air \in SUBSET [frame : SoundFrame, to : Node]

\* All entries made for one discovery look for the same destination.
ReverseDest ==
    \A n \in Node, id \in Id : reverse_paths[n][id] # NoEntry =>
        /\ discovery[id] # NoEntry
        /\ reverse_paths[n][id].dest = discovery[id].dest

\* A route's sequence number is one its destination has reached: nobody makes a
\* sequence number up, or takes one meant for another destination.
RouteSeqReached ==
    \A n, d \in Node : routes[n][d] # NoEntry => routes[n][d].seq <= seq[d]

\* The inductive invariant behind RouteOrder: a route is sound because the frame
\* it came from was, however long that frame waited in a queue or on the air.
RouteInv == RouteOrder /\ RouteSeqReached /\ ReverseDest /\ SoundInFlight

\* The reverse paths of a discovery form a tree rooted at its originator: every
\* other entry leads to a node with a strictly cheaper entry for the same
\* destination, so a reply relayed by handleRrep reaches the originator.
ReverseTree ==
    \A n \in Node, id \in Id : reverse_paths[n][id] # NoEntry =>
        LET r == reverse_paths[n][id]
            up == reverse_paths[r.prev_hop][id]
        IN  /\ discovery[id] # NoEntry
            /\ r.dest = discovery[id].dest
            /\ n = discovery[id].orig <=> r.prev_hop = n
            /\ r.prev_hop # n => /\ up # NoEntry
                                 /\ (up.min_cost < r.min_cost \/ r.min_cost = MaxCost)

\* A route or a reverse path only goes through neighbours whose key is known:
\* tryEstablish on a next hop never leaves an entry without a key, and so
\* verifySig never replaces an entry that holds a request time.
HopsVerified ==
    \A n \in Node :
        /\ \A p \in Node : neighbors[n][p] # "unverified"
        /\ \A p \in links[n] : neighbors[n][p] = "verified"
        /\ \A d \in Node : routes[n][d] # NoEntry =>
              neighbors[n][routes[n][d].next_hop] = "verified"

\* A node holds a link only with a peer that holds the same link, or that asked
\* for it (the responder is up first: link.handleRx answers after it is up).
LinkHandshake ==
    \A n \in Node : \A p \in links[n] :
        n \in links[p] \/ link_req[p][n] # "never"

\* max_links_per_node bounds the links of a node, so the receiver of a data
\* frame tries a small number of link keys (relay.handleEncryptedRx).
LinksWithinLimit == \A n \in Node : Cardinality(links[n]) <= MaxLinks

\* A link request within the retry interval is not forgotten, whatever frames
\* arrive: it ends only when the interval has elapsed, so a peer is asked at
\* most once per interval.
RequestThrottled ==
    [][\A n, p \in Node : link_req[n][p] = "recent" => link_req'[n][p] # "never"]_vars

\* A request for a link that is not lost ends with the link up on both sides,
\* also when both sides ask at once.
RequestAnswered ==
    \A n \in Node : \A p \in InRange[n] :
        link_req[n][p] = "recent" ~> (p \in links[n] /\ n \in links[p])

\* When the medium loses nothing and the radius spans the mesh, every discovery
\* ends with a route at its originator.
DiscoveryAnswered ==
    \A n \in Node : \A d \in Destinations[n] :
        (\E id \in Id : discovery[id] = [orig |-> n, dest |-> d]) ~> routes[n][d] # NoEntry
=============================================================================
