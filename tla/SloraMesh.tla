------------------------------ MODULE SloraMesh ------------------------------
(***************************************************************************)
(* The data plane of a slora mesh on top of its control plane: payloads    *)
(* that wait for a route (route.send, flushPendingFor), the transmit queue *)
(* and frame counter of every link (tsch.maybeTxOnCell, relay.seal), the   *)
(* relaying of sealed packets (relay.handleEncryptedRx) and the echo       *)
(* service (echo.zig).  Each handler is the control plane's action         *)
(* together with what the same handler does to the packets.                *)
(*                                                                         *)
(* Abstractions.  A payload is its identity, its length and what its first *)
(* bytes read as.  A sealed frame carries its link and its counter; it     *)
(* opens exactly at a peer that holds the link.  The cell of a peer comes  *)
(* up in any order (SloraTsch has the slots).  The four counters of        *)
(* forwarded and dropped packets are left out: nothing acts on them.       *)
(***************************************************************************)
EXTENDS SloraControl

CONSTANTS
    AddressValue,     \* AddressValue[n]: address n as a number
    PacketId,         \* identities of the payloads the hosts send
    Length,           \* Length[i]: bytes of payload i, echo header included
    FirstForm,        \* FirstForm[i]: "plain", or the echo operation it reads as
    MaxRoutePayload,  \* route.max_payload
    MaxRelayPayload,  \* relay.max_payload
    PendingTxMax,     \* pending_tx_max: packets queued on a link
    PendingPerDestMax, \* pending_per_dest_max: payloads waiting for a route
    FramesPerTxCell,  \* frames_per_tx_cell
    DataLossy         \* whether a data frame may get lost

VARIABLES
    pending_routes,  \* pending_routes[n][d]: n's packets that wait for a way to d
    pending_tx,      \* pending_tx[n][p]: packets queued on n's link to p
    tx_counter,      \* tx_counter[n][p]: the counter of the next frame n seals for p
    data_air,        \* sealed frames on their way to the peer they are for
    delivered,       \* delivered[n]: packets that deliverLocal or echo hand to n's host
    sent,            \* history: identities of the payloads handed in
    nonces           \* history: nonces[n][p]: what n sealed its frames for p with

dataVars == <<pending_routes, pending_tx, tx_counter, data_air, delivered, sent, nonces>>
meshVars == <<neighbors, link_req, links, routes, reverse_paths, seq, rreq_recent,
              broadcast_queue, air, discovery, stimuli, pending_routes, pending_tx,
              tx_counter, data_air, delivered, sent, nonces>>

Form == {"plain", "request", "response"}

Packet == [id : PacketId, form : Form, source : Node, dest : Node]

\* A packet on its way over a link, with the route it was queued under (history;
\* NoEntry for a link to the destination itself).
Transit == [pkt : Packet, route : RouteEntry \cup {NoEntry}]

DataFrame == [from : Node, to : Node, counter : Nat, transit : Transit]

\* The nonces of a link key: a counter and, in the top bit, the direction.
Nonce == [counter : Nat, flag : BOOLEAN]

ASSUME AddressAssumption ==
    /\ AddressValue \in [Node -> Nat]
    /\ \A n, p \in Node : AddressValue[n] = AddressValue[p] => n = p

ASSUME PacketAssumption ==
    /\ Length \in [PacketId -> Nat]
    /\ FirstForm \in [PacketId -> Form]
    /\ {MaxRoutePayload, MaxRelayPayload, PendingTxMax} \subseteq Nat
    /\ {PendingPerDestMax, FramesPerTxCell} \subseteq Nat \ {0}
    /\ DataLossy \in BOOLEAN

MeshInit ==
    /\ Init
    /\ pending_routes = [n \in Node |-> [d \in Node |-> <<>>]]
    /\ pending_tx = [n \in Node |-> [p \in Node |-> <<>>]]
    /\ tx_counter = [n \in Node |-> [p \in Node |-> 0]]
    /\ data_air = {}
    /\ delivered = [n \in Node |-> {}]
    /\ sent = {}
    /\ nonces = [n \in Node |-> [p \in Node |-> <<>>]]

(***************************************************************************)
(* Queues.                                                                 *)
(***************************************************************************)
\* The link a packet of n for d leaves on when HasUsableLink(n, d).
HopToward(n, d) == IF d \in links[n] THEN d ELSE routes[n][d].next_hop

TransitOn(n, pkt, hop, rts) ==
    [pkt |-> pkt, route |-> IF hop = pkt.dest THEN NoEntry ELSE rts[n][pkt.dest]]

Truncated(queue, len) == SubSeq(queue, 1, IF Len(queue) < len THEN Len(queue) ELSE len)

\* enqueueOnLink and relay.enqueue: a packet that finds the queue full is lost.
EnqueueOnLink(n, hop, pkt) ==
    pending_tx' = [pending_tx EXCEPT ![n][hop] =
                      Truncated(Append(@, TransitOn(n, pkt, hop, routes)), PendingTxMax)]

\* The oldest payload makes room for a new one.
WithRoomFor(queue, pkt) ==
    Append(IF Len(queue) < PendingPerDestMax THEN queue ELSE Tail(queue), pkt)

\* Mutants: every waiting payload goes to the peer; flushed payloads stay.
WaitingForAny(n, peer) == {d \in Node : pending_routes[n][d] # <<>>}
ClearedKept(n, dests) == pending_routes

\* Destinations whose waiting payloads can leave on the link to peer.
WaitingFor(n, peer) ==
    {d \in Node :
        /\ pending_routes[n][d] # <<>>
        /\ d = peer \/ (routes'[n][d] # NoEntry /\ routes'[n][d].next_hop = peer)}

Cleared(n, dests) ==
    [pending_routes EXCEPT ![n] = [d \in Node |-> IF d \in dests THEN <<>> ELSE @[d]]]

\* The payloads waiting at n for the destinations in order, for the link to peer.
Flushed(n, peer, order) ==
    LET all[i \in 0 .. Len(order)] ==
            IF i = 0 THEN <<>> ELSE all[i - 1] \o pending_routes[n][order[i]]
        queue == all[Len(order)]
    IN  [i \in DOMAIN queue |-> TransitOn(n, queue[i], peer, routes')]

\* What waits for peer moves to its link.  The hash map yields the destinations in
\* some order.
Flush(n, peer) ==
    LET dests == WaitingFor(n, peer)
    IN  /\ \E order \in [1 .. Cardinality(dests) -> dests] :
              /\ \A i, j \in DOMAIN order : order[i] = order[j] => i = j
              /\ pending_tx' = [pending_tx EXCEPT ![n][peer] =
                    Truncated(@ \o Flushed(n, peer, order), PendingTxMax)]
        /\ pending_routes' = Cleared(n, dests)

\* Mutant: the flush does not look whether there is a link.
FlushUnlinked(n, peer) == Flush(n, peer)

\* flushPendingFor, after the handler's changes to links and routes.
FlushPendingFor(n, peer) ==
    IF peer \in links'[n] THEN Flush(n, peer) ELSE UNCHANGED <<pending_routes, pending_tx>>

(***************************************************************************)
(* Sending.                                                                *)
(***************************************************************************)
\* route.send of n's own packet.
SendOnLink(n, pkt) ==
    /\ HasUsableLink(n, pkt.dest)
    /\ EnqueueOnLink(n, HopToward(n, pkt.dest), pkt)
    /\ UNCHANGED <<vars, pending_routes>>

SendWaiting(n, pkt) ==
    /\ RouteSend(n, pkt.dest)
    /\ pending_routes' = [pending_routes EXCEPT ![n][pkt.dest] = WithRoomFor(@, pkt)]
    /\ UNCHANGED pending_tx

Submit(n, pkt) == SendOnLink(n, pkt) \/ SendWaiting(n, pkt)

\* The host hands in payload i for d: sendPayload or sendEcho.
HostSend(n, d, i) ==
    /\ i \notin sent
    /\ d # n
    /\ Length[i] <= MaxRoutePayload
    /\ sent' = sent \cup {i}
    /\ Submit(n, [id |-> i, form |-> FirstForm[i], source |-> n, dest |-> d])
    /\ UNCHANGED <<tx_counter, data_air, delivered, nonces>>

(***************************************************************************)
(* The data radio.                                                         *)
(***************************************************************************)
\* crypto.linkNonce.
LinkNonce(n, p, counter) ==
    [counter |-> counter, flag |-> AddressValue[n] > AddressValue[p]]

\* Mutant: buildDataFrame also refuses a payload of exactly its limit.
FitsStrictly(transit) == Length[transit.pkt.id] < MaxRelayPayload

\* buildDataFrame takes the packet.
Fits(transit) == Length[transit.pkt.id] <= MaxRelayPayload

\* How many packets of n's queue for p one cell takes: the loop stops at one
\* that buildDataFrame refuses.
Batch(n, p) ==
    LET queue == pending_tx[n][p]
        fits(k) == \A i \in 1 .. k : Fits(queue[i])
    IN  CHOOSE k \in 0 .. Len(queue) :
            /\ k <= FramesPerTxCell /\ fits(k)
            /\ k < Len(queue) /\ k < FramesPerTxCell => ~fits(k + 1)

\* p's cell comes up and n serves its link to p.  An empty payload fails
\* maybeTxOnCell's assertion, which ends the program: that is no step.
TxOnCell(n, p) ==
    LET k == Batch(n, p)
        frame(i) == [from |-> n, to |-> p, counter |-> tx_counter[n][p] + i - 1,
                     transit |-> pending_tx[n][p][i]]
        frames == {frame(i) : i \in 1 .. k}
    IN  /\ p \in links[n]
        /\ pending_tx[n][p] # <<>>
        /\ \A i \in 1 .. k : Length[pending_tx[n][p][i].pkt.id] > 0
        /\ pending_tx' = [pending_tx EXCEPT ![n][p] = SubSeq(@, k + 1, Len(@))]
        /\ tx_counter' = [tx_counter EXCEPT ![n][p] = @ + k]
        /\ nonces' = [nonces EXCEPT ![n][p] =
                         @ \o [i \in 1 .. k |-> LinkNonce(n, p, tx_counter[n][p] + i - 1)]]
        /\ \E heard \in IF DataLossy THEN SUBSET frames ELSE {frames} :
              data_air' = data_air \cup heard
        /\ UNCHANGED <<vars, pending_routes, delivered, sent>>

\* n takes the oldest frame of a link from the air.
HearsData(n, f) ==
    /\ f.to = n
    /\ \A g \in data_air : g.from = f.from /\ g.to = n => f.counter <= g.counter
    /\ data_air' = data_air \ {f}
    /\ UNCHANGED <<tx_counter, sent, nonces>>

\* n opens f with the key of its link to the sender.
OpensData(n, f) == HearsData(n, f) /\ f.from \in links[n]

\* No key of n opens f.
DataUnopened(n, f) ==
    /\ HearsData(n, f)
    /\ f.from \notin links[n]
    /\ UNCHANGED <<vars, pending_routes, pending_tx, delivered>>

\* deliverLocal of an application payload, echo.handleDelivered of a response.
DeliverLocal(n, f) ==
    /\ OpensData(n, f)
    /\ f.transit.pkt.dest = n
    /\ f.transit.pkt.form # "request"
    /\ delivered' = [delivered EXCEPT ![n] = @ \cup {f.transit.pkt}]
    /\ UNCHANGED <<vars, pending_routes, pending_tx>>

\* echo.handleDelivered of a request: the response goes to its source.
AnswerEcho(n, f) ==
    /\ OpensData(n, f)
    /\ f.transit.pkt.dest = n
    /\ f.transit.pkt.form = "request"
    /\ Submit(n, [id |-> f.transit.pkt.id, form |-> "response", source |-> n,
                  dest |-> f.transit.pkt.source])
    /\ UNCHANGED delivered

\* forwardToward on a usable link.  A route back to the packet's source is not
\* taken: the packet is lost.
ReturnsToSource(n, pkt) ==
    pkt.dest \notin links[n] /\ routes[n][pkt.dest] # NoEntry
        /\ routes[n][pkt.dest].next_hop = pkt.source

ForwardOnLink(n, f) ==
    LET pkt == f.transit.pkt
    IN  /\ OpensData(n, f)
        /\ pkt.dest # n
        /\ HasUsableLink(n, pkt.dest)
        /\ IF ReturnsToSource(n, pkt) THEN UNCHANGED pending_tx
           ELSE EnqueueOnLink(n, HopToward(n, pkt.dest), pkt)
        /\ UNCHANGED <<vars, pending_routes, delivered>>

\* forwardToward without one: the packet is lost, and the node asks for a link
\* that would have served it.
ForwardFails(n, f) ==
    LET pkt == f.transit.pkt
        asks == ~ReturnsToSource(n, pkt) /\ LinkCandidates(n, pkt.dest) # {}
    IN  /\ OpensData(n, f)
        /\ pkt.dest # n
        /\ ~HasUsableLink(n, pkt.dest)
        /\ IF asks THEN ForwardToward(n, pkt.dest) ELSE UNCHANGED vars
        /\ UNCHANGED <<pending_routes, pending_tx, delivered>>

ReceiveData(n, f) ==
    \/ DataUnopened(n, f)
    \/ DeliverLocal(n, f)
    \/ AnswerEcho(n, f)
    \/ ForwardOnLink(n, f)
    \/ ForwardFails(n, f)

(***************************************************************************)
(* Control frames that move packets.                                       *)
(***************************************************************************)
\* Mutant: a link that comes up again starts a fresh LinkInfo.
LinkInfoReset(n, p) ==
    tx_counter' = [tx_counter EXCEPT ![n][p] = 0]

\* links.getOrPut: only a new link starts with a fresh LinkInfo.
LinkInfo(n, p) ==
    tx_counter' = IF p \in links[n] THEN tx_counter
                  ELSE [tx_counter EXCEPT ![n][p] = 0]

MeshLinkUp(n, f) ==
    /\ HandleLinkRequest(n, f) \/ HandleLinkResponse(n, f)
    /\ LinkInfo(n, f.from)
    /\ FlushPendingFor(n, f.from)
    /\ UNCHANGED <<data_air, delivered, sent, nonces>>

MeshRrepAtOrigin(n, f) ==
    /\ RrepAtOrigin(n, f)
    /\ FlushPendingFor(n, f.from)
    /\ UNCHANGED <<tx_counter, data_air, delivered, sent, nonces>>

\* Frames and timers that leave the packets alone.
ControlOnly(n, f) ==
    \/ HandleAnnounce(n, f)
    \/ OverhearLink(n, f)
    \/ RreqReturns(n, f)
    \/ RreqDuplicate(n, f)
    \/ RreqAtDestination(n, f)
    \/ RreqForward(n, f)
    \/ RreqExpires(n, f)
    \/ RrepStray(n, f)
    \/ RrepOverheard(n, f)
    \/ RrepForward(n, f)

Timer(n) ==
    \/ QueueEb(n)
    \/ \E p \in Node : LinkRetryElapsed(n, p)
    \/ \E d \in Node : RreqRetryElapsed(n, d)

MeshReceive(n, f) ==
    \/ ControlOnly(n, f) /\ UNCHANGED dataVars
    \/ MeshLinkUp(n, f)
    \/ MeshRrepAtOrigin(n, f)

MeshNext ==
    \/ \E n \in Node : Timer(n) /\ UNCHANGED dataVars
    \/ \E n \in Node : \E d \in Destinations[n], i \in PacketId : HostSend(n, d, i)
    \/ \E n \in Node : Transmit(n) /\ UNCHANGED dataVars
    \/ \E rx \in air : MeshReceive(rx.to, rx.frame)
    \/ \E n, p \in Node : TxOnCell(n, p)
    \/ \E f \in data_air : ReceiveData(f.to, f)

MeshSpec == MeshInit /\ [][MeshNext]_meshVars

\* While anything is queued or on the air one of the nodes' slots comes up or a
\* frame arrives or is lost.  The slots of every peer come up again and again, and
\* a bounded number of packets cannot keep a link from its turn for ever.
MeshFairness ==
    WF_meshVars(\/ \E n \in Node : Transmit(n) /\ UNCHANGED dataVars
                \/ \E rx \in air : MeshReceive(rx.to, rx.frame)
                \/ \E n, p \in Node : TxOnCell(n, p)
                \/ \E f \in data_air : ReceiveData(f.to, f))

FairMeshSpec == MeshSpec /\ MeshFairness

(***************************************************************************)
(* Properties.                                                             *)
(***************************************************************************)
\* The queues stay within their limits and hold packets of the right shape; a
\* link's queue and counter are only used once the link exists.
MeshTypeOK ==
    /\ pending_routes \in [Node -> [Node -> Seq(Packet)]]
    /\ pending_tx \in [Node -> [Node -> Seq(Transit)]]
    /\ tx_counter \in [Node -> [Node -> Nat]]
    /\ data_air \in SUBSET DataFrame
    /\ delivered \in [Node -> SUBSET Packet]
    /\ sent \in SUBSET PacketId
    /\ nonces \in [Node -> [Node -> Seq(Nonce)]]
    /\ \A n, p \in Node :
          /\ Len(pending_routes[n][p]) <= PendingPerDestMax
          /\ Len(pending_tx[n][p]) <= PendingTxMax
          /\ p \notin links[n] => pending_tx[n][p] = <<>> /\ tx_counter[n][p] = 0

\* Wherever a packet is queued or flying to, that node is closer to the packet's
\* destination than the route it was sent along: it is the destination, or its
\* own route is newer or cheaper, whatever changed since the packet was queued.
TowardDest(p, transit) ==
    LET d == transit.pkt.dest
        r == transit.route
    IN  p = d \/ (r # NoEntry /\ Beats(p, d, r.seq, r.cost))

PacketProgress ==
    /\ \A n, p \in Node : \A i \in DOMAIN pending_tx[n][p] :
          TowardDest(p, pending_tx[n][p][i])
    /\ \A f \in data_air : TowardDest(f.to, f.transit)

\* No two frames of a link, in either direction, are sealed with the same nonce
\* (a link has one key), also when the link is set up again.
NonceUnique ==
    \A n, p \in Node :
        /\ \A i, j \in DOMAIN nonces[n][p] : nonces[n][p][i] = nonces[n][p][j] => i = j
        /\ n # p => \A i \in DOMAIN nonces[n][p], j \in DOMAIN nonces[p][n] :
                       nonces[n][p][i] # nonces[p][n][j]

\* The packets anywhere between the hosts.
Inside ==
    (UNION {{pending_routes[n][d][i] : i \in DOMAIN pending_routes[n][d]} : n, d \in Node})
    \cup (UNION {{pending_tx[n][p][i].pkt : i \in DOMAIN pending_tx[n][p]} : n, p \in Node})
    \cup {f.transit.pkt : f \in data_air}

Service == INSTANCE Datagram WITH inside <- Inside

\* The mesh implements the datagram service: no packet is ever duplicated by a
\* queue, a flush, a relay or a link set up again, none changes its source or
\* destination, and each comes out at most once, at the node it names.
Delivers == Service!Spec

QueuedOnLink(i) ==
    \E n, p \in Node : \E k \in DOMAIN pending_tx[n][p] : pending_tx[n][p][k].pkt.id = i

\* A packet queued on a link leaves it: the link's peer owns a cell in every
\* slotframe.
QueuedPacketLeaves == \A i \in PacketId : QueuedOnLink(i) ~> ~QueuedOnLink(i)
=============================================================================
