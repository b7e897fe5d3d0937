-------------------------- MODULE SloraLinkProofs ---------------------------
(***************************************************************************)
(* Neighbours, link requests and links.  A frame from a peer is verified   *)
(* before anything is remembered of the peer, so nobody is ever asked for  *)
(* a link, linked with or routed through while its key is unknown; and a   *)
(* link that one side holds was asked for or is held by the other.         *)
(***************************************************************************)
EXTENDS SloraControlProofs

\* Whoever was asked for a link had its key known then, and still has.
RequestsKnown ==
    \A n, p \in Node : link_req[n][p] # "never" => neighbors[n][p] = "verified"

\* A link request was sent by someone who remembers it, and a response by someone
\* who holds the link.
Granted(f) ==
    /\ f.kind = "request" => link_req[f.from][f.to] # "never"
    /\ f.kind = "response" => f.to \in links[f.from]

GrantedFrame == {f \in Frame : Granted(f)}

HandshakeInFlight ==
    /\ broadcast_queue \in [Node -> Seq(GrantedFrame)]
    /\ air \in SUBSET [frame : GrantedFrame, to : Node]

\* The inductive invariant behind HopsVerified and LinkHandshake.
LinkInv == HopsVerified /\ RequestsKnown /\ LinkHandshake /\ HandshakeInFlight

\* What no step undoes.
TablesGrow ==
    \A n, p \in Node :
        /\ neighbors[n][p] = "verified" => neighbors'[n][p] = "verified"
        /\ link_req[n][p] # "never" => link_req'[n][p] # "never"
        /\ p \in links[n] => p \in links'[n]

(***************************************************************************)
(* One update of the tables.                                               *)
(***************************************************************************)
\* verifySig never finds a request time at an entry without a key.
LEMMA ResetIsIdentity ==
    ASSUME TypeOK, RequestsKnown, NEW n \in Node, NEW p \in Node
    PROVE  ResetRequest(n, p) = link_req
<1>1. CASE neighbors[n][p] = "verified"
    BY <1>1 DEF ResetRequest
<1>2. CASE neighbors[n][p] # "verified"
  <2>1. link_req[n][p] = "never"
    BY <1>2 DEF RequestsKnown
  <2>2. [link_req EXCEPT ![n][p] = "never"] = link_req
    BY <2>1 DEF TypeOK
  <2>3. QED
    BY <1>2, <2>2 DEF ResetRequest
<1>3. QED
    BY <1>1, <1>2

\* tryEstablish on peers with known keys leaves the neighbour table alone.
LEMMA PlaceholdersAreIdentity ==
    ASSUME TypeOK, NEW n \in Node, NEW peers \in SUBSET Node,
           \A p \in peers : neighbors[n][p] = "verified"
    PROVE  Placeholders(n, peers) = neighbors
    BY DEF Placeholders, TypeOK

\* Asking peers with known keys for a link forgets no request, and the peers asked
\* are remembered.
LEMMA RequestTimesKnown ==
    ASSUME TypeOK, NEW n \in Node, NEW peers \in SUBSET Node,
           link_req' = RequestTimes(n, peers, link_req)
    PROVE  /\ \A m, p \in Node : link_req[m][p] # "never" => link_req'[m][p] # "never"
           /\ \A m, p \in Node : link_req'[m][p] # link_req[m][p] => m = n /\ p \in peers
           /\ \A p \in peers : MayLink(n, p) => link_req'[n][p] # "never"
    BY DEF RequestTimes, TypeOK

\* The shape of every step: perhaps one more key of n known, and requests of n to
\* peers whose keys are known then.
LEMMA TablesUpdated ==
    ASSUME TypeOK, HopsVerified, RequestsKnown, NEW n \in Node, NEW p \in Node,
           neighbors' \in {neighbors, VerifiedNeighbor(n, p)},
           NEW peers \in SUBSET Node, \A q \in peers : neighbors'[n][q] = "verified",
           link_req' = RequestTimes(n, peers, link_req),
           \A m \in Node : links[m] \subseteq links'[m]
    PROVE  /\ TablesGrow
           /\ RequestsKnown'
           /\ \A m, q \in Node : neighbors'[m][q] # "unverified"
<1>1. /\ \A m, q \in Node : neighbors[m][q] = "verified" => neighbors'[m][q] = "verified"
      /\ \A m, q \in Node : neighbors'[m][q] # "unverified"
  <2>1. \A m, q \in Node : neighbors[m][q] # "unverified"
    BY DEF HopsVerified
  <2>2. CASE neighbors' = neighbors
    BY <2>1, <2>2
  <2>3. CASE neighbors' = [neighbors EXCEPT ![n][p] = "verified"]
    BY <2>1, <2>3 DEF TypeOK
  <2>4. QED
    BY <2>2, <2>3 DEF VerifiedNeighbor
<1>2. /\ \A m, q \in Node : link_req[m][q] # "never" => link_req'[m][q] # "never"
      /\ \A m, q \in Node : link_req'[m][q] # link_req[m][q] => m = n /\ q \in peers
    BY RequestTimesKnown
<1>3. RequestsKnown'
    BY <1>1, <1>2 DEF RequestsKnown
<1>4. QED
    BY <1>1, <1>2, <1>3 DEF TablesGrow

LEMMA NobodyAsked ==
    ASSUME TypeOK, NEW n \in Node
    PROVE  RequestTimes(n, {}, link_req) = link_req
    BY DEF RequestTimes, TypeOK

\* Routes go through verified neighbours when an upsert's next hop is one.
LEMMA RoutesStayVerified ==
    ASSUME TypeOK, HopsVerified, TablesGrow,
           UNCHANGED routes \/ \E n, d, hop \in Node : \E c, s :
                UpsertRoute(n, d, hop, c, s) /\ neighbors'[n][hop] = "verified"
    PROVE  \A m, e \in Node : routes'[m][e] # NoEntry =>
                neighbors'[m][routes'[m][e].next_hop] = "verified"
<1> SUFFICES ASSUME NEW m \in Node, NEW e \in Node, routes'[m][e] # NoEntry
             PROVE  neighbors'[m][routes'[m][e].next_hop] = "verified"
    OBVIOUS
<1>1. ASSUME routes'[m][e] = routes[m][e]
      PROVE  neighbors'[m][routes'[m][e].next_hop] = "verified"
  <2>1. routes[m][e].next_hop \in Node
    BY <1>1 DEF TypeOK, RouteEntry
  <2>2. neighbors[m][routes[m][e].next_hop] = "verified"
    BY <1>1 DEF HopsVerified
  <2>3. QED
    BY <1>1, <2>1, <2>2 DEF TablesGrow
<1>2. CASE UNCHANGED routes
    BY <1>1, <1>2
<1>3. ASSUME NEW n \in Node, NEW d \in Node, NEW hop \in Node, NEW c, NEW s,
             UpsertRoute(n, d, hop, c, s), neighbors'[n][hop] = "verified"
      PROVE  neighbors'[m][routes'[m][e].next_hop] = "verified"
  <2>1. \/ routes'[m][e] = routes[m][e]
        \/ m = n /\ routes'[m][e] = [next_hop |-> hop, cost |-> c, seq |-> s]
    BY <1>3 DEF UpsertRoute, TypeOK
  <2>2. QED
    BY <1>1, <1>3, <2>1
<1>4. QED
    BY <1>2, <1>3

(***************************************************************************)
(* The tables stay sound.                                                  *)
(***************************************************************************)
\* A step on the tables of n: p's key may become known, peers with known keys may
\* be asked for a link, and a link or a route may come up through p.
TableUpdate(n, p, peers) ==
    /\ neighbors' \in {neighbors, VerifiedNeighbor(n, p)}
    /\ \A q \in peers : neighbors'[n][q] = "verified"
    /\ link_req' = RequestTimes(n, peers, link_req)
    /\ \/ UNCHANGED links
       \/ neighbors'[n][p] = "verified" /\ links' = [links EXCEPT ![n] = @ \cup {p}]
    /\ \/ UNCHANGED routes
       \/ /\ neighbors'[n][p] = "verified"
          /\ \E d \in Node : \E c, s : UpsertRoute(n, d, p, c, s)

LEMMA TableUpdateSound ==
    ASSUME TypeOK, HopsVerified, RequestsKnown, NEW n \in Node, NEW p \in Node,
           NEW peers \in SUBSET Node, TableUpdate(n, p, peers)
    PROVE  TablesGrow /\ HopsVerified' /\ RequestsKnown'
<1>1. \A m \in Node : links[m] \subseteq links'[m]
  <2>1. links \in [Node -> SUBSET Node]
    BY DEF TypeOK
  <2>2. CASE UNCHANGED links
    BY <2>2
  <2>3. CASE links' = [links EXCEPT ![n] = @ \cup {p}]
    BY <2>1, <2>3
  <2>4. QED
    BY <2>2, <2>3 DEF TableUpdate
<1>2. /\ TablesGrow
      /\ RequestsKnown'
      /\ \A m, q \in Node : neighbors'[m][q] # "unverified"
    BY <1>1, TablesUpdated DEF TableUpdate
<1>3. \A m \in Node : \A q \in links'[m] : neighbors'[m][q] = "verified"
  <2> SUFFICES ASSUME NEW m \in Node, NEW q \in links'[m]
               PROVE  neighbors'[m][q] = "verified"
    OBVIOUS
  <2>1. q \in links[m] \/ (m = n /\ q = p /\ neighbors'[n][p] = "verified")
    BY DEF TableUpdate, TypeOK
  <2>2. ASSUME q \in links[m] PROVE neighbors'[m][q] = "verified"
    <3>1. q \in Node
      BY <2>2 DEF TypeOK
    <3>2. neighbors[m][q] = "verified"
      BY <2>2 DEF HopsVerified
    <3>3. QED
      BY <1>2, <3>1, <3>2 DEF TablesGrow
  <2>3. QED
    BY <2>1, <2>2
<1>4. \A m, e \in Node : routes'[m][e] # NoEntry =>
           neighbors'[m][routes'[m][e].next_hop] = "verified"
    BY <1>2, RoutesStayVerified DEF TableUpdate
<1>5. HopsVerified'
    BY <1>2, <1>3, <1>4 DEF HopsVerified
<1>6. QED
    BY <1>2, <1>5

\* A step that only sends, receives or keeps time of other things.
LEMMA TablesUntouched ==
    ASSUME TypeOK, HopsVerified, RequestsKnown, NEW n \in Node,
           UNCHANGED <<neighbors, link_req, links, routes>>
    PROVE  TableUpdate(n, n, {})
    BY NobodyAsked DEF TableUpdate

LEMMA ReceiveUpdatesTables ==
    ASSUME TypeOK, HopsVerified, RequestsKnown, NEW n \in Node, NEW f \in Frame,
           Receive(n, f)
    PROVE  \E peers \in SUBSET Node : TableUpdate(n, f.from, peers)
<1>1. f.from \in Node
    BY FrameFields
<1>2. ASSUME neighbors' = VerifiedNeighbor(n, f.from) PROVE neighbors'[n][f.from] = "verified"
    BY <1>1, <1>2 DEF VerifiedNeighbor, TypeOK
<1>3. RequestTimes(n, {}, link_req) = link_req
    BY NobodyAsked
<1>4. ResetRequest(n, f.from) = link_req
    BY <1>1, ResetIsIdentity
<1>5. CASE HandleAnnounce(n, f)
  <2> DEFINE wanted == IF f.from \in TargetPeers[n] THEN {f.from} ELSE {}
  <2>1. TableUpdate(n, f.from, wanted)
    BY <1>2, <1>5 DEF HandleAnnounce, TableUpdate, routeVars
  <2>2. wanted \in SUBSET Node
    BY <1>1
  <2>3. QED
    BY <2>1, <2>2
<1>6. CASE OverhearLink(n, f) \/ RreqReturns(n, f)
  <2>1. TableUpdate(n, f.from, {})
    BY <1>3, <1>6 DEF OverhearLink, RreqReturns, TableUpdate, tableVars, routeVars
  <2>2. QED
    BY <2>1
<1>7. CASE HandleLinkRequest(n, f) \/ HandleLinkResponse(n, f)
  <2>1. TableUpdate(n, f.from, {})
    BY <1>2, <1>3, <1>7
    DEF HandleLinkRequest, HandleLinkResponse, LinkUp, TableUpdate, routeVars
  <2>2. QED
    BY <2>1
<1>8. CASE RreqDuplicate(n, f) \/ RrepStray(n, f)
  <2>1. TableUpdate(n, f.from, {})
    BY <1>2, <1>3, <1>4, <1>8 DEF RreqDuplicate, RrepStray, AcceptRoute, TableUpdate
  <2>2. QED
    BY <2>1
<1>9. CASE RreqAtDestination(n, f) \/ RreqForward(n, f) \/ RreqExpires(n, f)
  <2>1. f.kind = "rreq" /\ LearnReversePath(n, f)
    BY <1>9 DEF RreqAtDestination, RreqForward, RreqExpires, Hears
  <2>2. f.orig \in Node
    BY <2>1, FrameFields
  <2>3. TableUpdate(n, f.from, {})
    BY <1>2, <1>3, <1>4, <2>1, <2>2 DEF LearnReversePath, AcceptRoute, TableUpdate
  <2>4. QED
    BY <2>3
<1>10. CASE RrepOverheard(n, f) \/ RrepAtOrigin(n, f) \/ RrepForward(n, f)
  <2>1. f.kind = "rrep" /\ LearnRoute(n, f)
    BY <1>10 DEF RrepOverheard, RrepAtOrigin, RrepForward, RrepAddressed, Hears
  <2>2. reverse_paths[n][f.id].dest \in Node
    BY <2>1, LearnRouteType DEF ReverseEntry
  <2>3. link_req' \in {RequestTimes(n, {}, link_req), RequestTimes(n, {f.from}, link_req)}
    BY <1>3, <1>4, <1>10 DEF RrepOverheard, RrepAtOrigin, RrepForward, RrepAddressed
  <2>4. PICK peers \in {{}, {f.from}} : link_req' = RequestTimes(n, peers, link_req)
    BY <2>3
  <2>5. TableUpdate(n, f.from, peers)
    BY <1>2, <2>1, <2>2, <2>4 DEF LearnRoute, TableUpdate
  <2>6. QED
    BY <1>1, <2>4, <2>5
<1>11. QED
    BY <1>5, <1>6, <1>7, <1>8, <1>9, <1>10 DEF Receive

\* The candidates a node asks on the way to d have known keys.
LEMMA CandidatesKnown ==
    ASSUME TypeOK, HopsVerified, NEW n \in Node, NEW d \in Node
    PROVE  /\ LinkCandidates(n, d) \in SUBSET Node
           /\ \A p \in LinkCandidates(n, d) : neighbors[n][p] = "verified"
           /\ routes[n][d] # NoEntry => /\ routes[n][d].next_hop \in Node
                                        /\ neighbors[n][routes[n][d].next_hop] = "verified"
<1>1. routes[n][d] # NoEntry => /\ routes[n][d].next_hop \in Node
                                /\ neighbors[n][routes[n][d].next_hop] = "verified"
    BY DEF TypeOK, RouteEntry, HopsVerified
<1>2. neighbors[n][d] # "absent" => neighbors[n][d] = "verified"
    BY DEF TypeOK, HopsVerified
<1>3. QED
    BY <1>1, <1>2 DEF LinkCandidates

LEMMA StepUpdatesTables ==
    ASSUME TypeOK, HopsVerified, RequestsKnown, [ControlStep]_vars
    PROVE  TablesGrow /\ HopsVerified' /\ RequestsKnown'
<1>1. ASSUME UNCHANGED <<neighbors, link_req, links, routes>>
      PROVE  TablesGrow /\ HopsVerified' /\ RequestsKnown'
  <2>1. CASE Node = {}
    BY <2>1 DEF TablesGrow, HopsVerified, RequestsKnown
  <2>2. CASE Node # {}
    BY <1>1, <2>2, TablesUntouched, TableUpdateSound
  <2>3. QED
    BY <2>1, <2>2
<1>2. CASE UNCHANGED vars
    BY <1>1, <1>2 DEF vars
<1>3. ASSUME NEW n \in Node, QueueEb(n) \/ Transmit(n)
      PROVE  TablesGrow /\ HopsVerified' /\ RequestsKnown'
    BY <1>1, <1>3 DEF QueueEb, Transmit, tableVars, routeVars
<1>4. ASSUME NEW n \in Node, NEW d \in Node, RreqRetryElapsed(n, d)
      PROVE  TablesGrow /\ HopsVerified' /\ RequestsKnown'
    BY <1>1, <1>4 DEF RreqRetryElapsed, tableVars
<1>5. ASSUME NEW n \in Node, NEW p \in Node, LinkRetryElapsed(n, p)
      PROVE  TablesGrow /\ HopsVerified' /\ RequestsKnown'
    BY <1>5 DEF LinkRetryElapsed, routeVars, TablesGrow, HopsVerified, RequestsKnown, TypeOK
<1>6. ASSUME NEW n \in Node, NEW peers \in SUBSET Node,
             \A p \in peers : neighbors[n][p] = "verified",
             neighbors' = Placeholders(n, peers),
             link_req' = RequestTimes(n, peers, link_req), UNCHANGED <<links, routes>>
      PROVE  TablesGrow /\ HopsVerified' /\ RequestsKnown'
  <2>1. neighbors' = neighbors
    BY <1>6, PlaceholdersAreIdentity
  <2>2. TableUpdate(n, n, peers)
    BY <1>6, <2>1 DEF TableUpdate
  <2>3. QED
    BY <2>2, TableUpdateSound
<1>7. ASSUME NEW n \in Node, NEW d \in Node, RouteSend(n, d)
      PROVE  TablesGrow /\ HopsVerified' /\ RequestsKnown'
  <2>1. UNCHANGED <<links, routes>>
    BY <1>7 DEF RouteSend, InitiateThrottled, InitiateDiscovery, routeVars
  <2>2. QED
    BY <1>6, <1>7, <2>1, CandidatesKnown DEF RouteSend
<1>8. ASSUME NEW n \in Node, NEW d \in Node, ForwardToward(n, d)
      PROVE  TablesGrow /\ HopsVerified' /\ RequestsKnown'
  <2> DEFINE hops == IF routes[n][d] # NoEntry THEN {routes[n][d].next_hop}
                     ELSE LinkCandidates(n, d)
  <2>1. PICK p \in hops : /\ neighbors' = Placeholders(n, {p})
                          /\ link_req' = RequestTimes(n, {p}, link_req)
    BY <1>8 DEF ForwardToward
  <2>2. p \in Node /\ neighbors[n][p] = "verified"
    BY CandidatesKnown
  <2>3. UNCHANGED <<links, routes>>
    BY <1>8 DEF ForwardToward, routeVars
  <2>4. QED
    BY <1>6, <2>1, <2>2, <2>3
<1>9. ASSUME NEW rx \in air, Receive(rx.to, rx.frame)
      PROVE  TablesGrow /\ HopsVerified' /\ RequestsKnown'
  <2>1. rx.to \in Node /\ rx.frame \in Frame
    BY DEF TypeOK
  <2>2. rx.frame.from \in Node
    BY <2>1, FrameFields
  <2>3. QED
    BY <1>9, <2>1, <2>2, ReceiveUpdatesTables, TableUpdateSound
<1>10. QED
    BY <1>2, <1>3, <1>4, <1>5, <1>7, <1>8, <1>9, NodeAssumption
    DEF ControlStep, Next, Stimulus

(***************************************************************************)
(* The handshake.                                                          *)
(***************************************************************************)
LEMMA GrantedStable ==
    ASSUME TypeOK, TablesGrow
    PROVE  GrantedFrame \subseteq GrantedFrame'
<1> SUFFICES ASSUME NEW f \in Frame, Granted(f) PROVE Granted(f)'
    BY DEF GrantedFrame, Frame
<1>1. f.from \in Node /\ (f.kind # "announce" => f.to \in Node)
    BY FrameFields
<1>2. QED
    BY <1>1 DEF Granted, TablesGrow

\* Frames that are no link frames are granted to anybody.
LEMMA OtherFramesGranted ==
    ASSUME NEW f \in Frame, f.kind \notin {"request", "response"}
    PROVE  f \in GrantedFrame'
    BY DEF GrantedFrame, Granted

\* The queues and the air after a step that receives, and queues at most frames.
LEMMA InFlightGranted ==
    ASSUME TypeOK, HandshakeInFlight, TablesGrow, air' \subseteq air,
           \/ UNCHANGED broadcast_queue
           \/ \E n \in Node : \E frames \in Seq(GrantedFrame') : Enqueue(n, frames)
    PROVE  HandshakeInFlight'
<1>1. GrantedFrame \subseteq GrantedFrame'
    BY GrantedStable
<1>2. air' \in SUBSET [frame : GrantedFrame', to : Node]
    BY <1>1 DEF HandshakeInFlight
<1>3. broadcast_queue \in [Node -> Seq(GrantedFrame')]
  <2>1. \A m \in Node : broadcast_queue[m] \in Seq(GrantedFrame')
    BY <1>1, SeqMonotonic DEF HandshakeInFlight
  <2>2. QED
    BY <2>1 DEF HandshakeInFlight
<1>4. broadcast_queue' \in [Node -> Seq(GrantedFrame')]
  <2>1. CASE UNCHANGED broadcast_queue
    BY <1>3, <2>1
  <2>2. ASSUME NEW n \in Node, NEW frames \in Seq(GrantedFrame'), Enqueue(n, frames)
        PROVE  broadcast_queue' \in [Node -> Seq(GrantedFrame')]
    BY <1>3, <2>2, EnqueueKeepsQueues DEF Enqueue
  <2>3. QED
    BY <2>1, <2>2
<1>5. QED
    BY <1>2, <1>4 DEF HandshakeInFlight

\* A request that tryEstablish queues is remembered.
LEMMA LinkRequestGranted ==
    ASSUME TypeOK, NEW n \in Node, NEW peers \in SUBSET Node, NEW p \in peers,
           link_req' = RequestTimes(n, peers, link_req)
    PROVE  LinkRequest(n, p, link_req) \in Seq(GrantedFrame')
<1>1. CASE MayLink(n, p)
  <2>1. link_req'[n][p] # "never"
    BY <1>1, RequestTimesKnown
  <2>2. PICK f \in Frame : f = LinkFrame("request", n, p)
    BY FrameConstructors
  <2>3. f \in GrantedFrame'
    BY <2>1, <2>2 DEF GrantedFrame, Granted, LinkFrame
  <2>4. QED
    BY <2>2, <2>3 DEF LinkRequest
<1>2. CASE ~MayLink(n, p)
    BY <1>2 DEF LinkRequest
<1>3. QED
    BY <1>1, <1>2

LEMMA CandidatesGranted ==
    ASSUME TypeOK, HopsVerified, NEW n \in Node, NEW d \in Node,
           link_req' = RequestTimes(n, LinkCandidates(n, d), link_req)
    PROVE  CandidateRequests(n, d) \in Seq(GrantedFrame')
<1> DEFINE hop == IF routes[n][d] # NoEntry THEN {routes[n][d].next_hop} ELSE {}
           first == IF hop # {} THEN LinkRequest(n, routes[n][d].next_hop, link_req) ELSE <<>>
           second == IF neighbors[n][d] # "absent" /\ d \notin hop
                     THEN LinkRequest(n, d, link_req) ELSE <<>>
<1>1. LinkCandidates(n, d) \in SUBSET Node
    BY CandidatesKnown
<1>2. first \in Seq(GrantedFrame')
  <2>1. hop # {} => routes[n][d].next_hop \in LinkCandidates(n, d)
    BY DEF LinkCandidates
  <2>2. QED
    BY <1>1, <2>1, LinkRequestGranted
<1>3. second \in Seq(GrantedFrame')
  <2>1. neighbors[n][d] # "absent" => d \in LinkCandidates(n, d)
    BY DEF LinkCandidates
  <2>2. QED
    BY <1>1, <2>1, LinkRequestGranted
<1>4. CandidateRequests(n, d) = first \o second
    BY DEF CandidateRequests
<1>5. QED
    BY <1>2, <1>3, <1>4, ConcatProperties

\* The frames a handler queues.
LEMMA ReceiveGrants ==
    ASSUME TypeOK, HopsVerified, RequestsKnown, TablesGrow,
           NEW n \in Node, NEW f \in Frame, Receive(n, f)
    PROVE  \/ UNCHANGED broadcast_queue
           \/ \E frames \in Seq(GrantedFrame') : Enqueue(n, frames)
<1>1. f.from \in Node
    BY FrameFields
<1>2. CASE HandleAnnounce(n, f)
  <2> DEFINE wanted == IF f.from \in TargetPeers[n] THEN {f.from} ELSE {}
             frames == IF f.from \in wanted THEN LinkRequest(n, f.from, link_req) ELSE <<>>
  <2>1. Enqueue(n, frames) /\ link_req' = RequestTimes(n, wanted, link_req)
    BY <1>2 DEF HandleAnnounce
  <2>2. frames \in Seq(GrantedFrame')
    BY <1>1, <2>1, LinkRequestGranted
  <2>3. QED
    BY <2>1, <2>2
<1>3. CASE OverhearLink(n, f) \/ HandleLinkResponse(n, f) \/ RreqReturns(n, f)
           \/ RreqDuplicate(n, f) \/ RreqExpires(n, f) \/ RrepStray(n, f)
           \/ RrepOverheard(n, f)
    BY <1>3 DEF OverhearLink, HandleLinkResponse, RreqReturns, RreqDuplicate, RreqExpires,
                RrepStray, RrepOverheard
<1>4. CASE HandleLinkRequest(n, f)
  <2>1. PICK g \in Frame : g = LinkFrame("response", n, f.from)
    BY <1>1, FrameConstructors
  <2>2. f.from \in links'[n]
    BY <1>4 DEF HandleLinkRequest, LinkUp, TypeOK
  <2>3. g \in GrantedFrame'
    BY <2>1, <2>2 DEF GrantedFrame, Granted, LinkFrame
  <2>4. Enqueue(n, <<g>>) /\ <<g>> \in Seq(GrantedFrame')
    BY <1>4, <2>1, <2>3 DEF HandleLinkRequest
  <2>5. QED
    BY <2>4
<1>5. ASSUME LearnReversePath(n, f), f.kind = "rreq"
      PROVE  /\ f.to \in Node /\ f.orig \in Node /\ f.id \in Id
             /\ f.orig_seq \in Nat /\ ReverseCost(n, f) \in 0 .. MaxCost
    BY <1>5, FrameFields, LearnReversePathType
<1>6. CASE RreqAtDestination(n, f)
  <2>1. f.kind = "rreq" /\ LearnReversePath(n, f)
    BY <1>6 DEF RreqAtDestination, Hears
  <2>2. seq[n] \in Nat /\ HopCost(n) \in 0 .. MaxCost
    BY HopCostType, BoundAssumption DEF TypeOK
  <2>3. PICK g \in Frame : g = RrepFrame(n, f.from, f.orig, f.id, seq[n], HopCost(n))
    BY <1>1, <1>5, <2>1, <2>2, FrameConstructors
  <2>4. g \in GrantedFrame'
    BY <2>3, OtherFramesGranted DEF RrepFrame
  <2>5. Enqueue(n, <<g>>) /\ <<g>> \in Seq(GrantedFrame')
    BY <1>6, <2>3, <2>4 DEF RreqAtDestination
  <2>6. QED
    BY <2>5
<1>7. CASE RreqForward(n, f)
  <2>1. f.kind = "rreq" /\ LearnReversePath(n, f)
    BY <1>7 DEF RreqForward, Hears
  <2>2. f.radius - 1 \in 0 .. RouteRadius
    BY <1>7, <2>1, FrameFields, BoundAssumption DEF RreqForward, MayRebroadcast
  <2>3. PICK g \in Frame : g = RreqFrame(n, f.to, f.orig, f.id, f.orig_seq,
                                         ReverseCost(n, f), f.radius - 1)
    BY <1>5, <2>1, <2>2, FrameConstructors
  <2>4. g \in GrantedFrame'
    BY <2>3, OtherFramesGranted DEF RreqFrame
  <2>5. Enqueue(n, <<g>>) /\ <<g>> \in Seq(GrantedFrame')
    BY <1>7, <2>3, <2>4 DEF RreqForward
  <2>6. QED
    BY <2>5
<1>8. ASSUME NEW frames \in Seq(GrantedFrame'), RrepAddressed(n, f, frames)
      PROVE  \E queued \in Seq(GrantedFrame') : Enqueue(n, queued)
  <2>1. /\ Enqueue(n, LinkRequest(n, f.from, link_req) \o frames)
        /\ link_req' = RequestTimes(n, {f.from}, link_req)
    BY <1>1, <1>8, ResetIsIdentity DEF RrepAddressed
  <2>2. LinkRequest(n, f.from, link_req) \in Seq(GrantedFrame')
    BY <1>1, <2>1, LinkRequestGranted
  <2>3. LinkRequest(n, f.from, link_req) \o frames \in Seq(GrantedFrame')
    BY <2>2, ConcatProperties
  <2>4. QED
    BY <2>1, <2>3
<1>9. CASE RrepAtOrigin(n, f)
  <2>1. <<>> \in Seq(GrantedFrame')
    BY EmptySeq
  <2>2. QED
    BY <1>8, <1>9, <2>1 DEF RrepAtOrigin
<1>10. CASE RrepForward(n, f)
  <2>1. f.kind = "rrep" /\ LearnRoute(n, f)
    BY <1>10 DEF RrepForward, RrepAddressed, Hears
  <2>2. /\ f.id \in Id /\ f.orig \in Node /\ f.dst_seq \in Nat
        /\ reverse_paths[n][f.id].prev_hop \in Node /\ ViaCost(n, f) \in 0 .. MaxCost
    BY <2>1, FrameFields, LearnRouteType DEF ReverseEntry
  <2>3. PICK g \in Frame : g = RrepFrame(n, reverse_paths[n][f.id].prev_hop, f.orig,
                                         f.id, f.dst_seq, ViaCost(n, f))
    BY <2>2, FrameConstructors
  <2>4. g \in GrantedFrame'
    BY <2>3, OtherFramesGranted DEF RrepFrame
  <2>5. <<g>> \in Seq(GrantedFrame')
    BY <2>4
  <2>6. QED
    BY <1>8, <1>10, <2>3, <2>5 DEF RrepForward
<1>11. QED
    BY <1>2, <1>3, <1>4, <1>6, <1>7, <1>9, <1>10 DEF Receive

\* A link that comes up was asked for, or is held by the other side: the frame that
\* brings it up was granted.
LEMMA HandshakeKept ==
    ASSUME TypeOK, LinkInv, TablesGrow,
           \/ UNCHANGED links
           \/ \E n, p \in Node :
                 /\ links' = [links EXCEPT ![n] = @ \cup {p}]
                 /\ n \in links[p] \/ link_req[p][n] # "never"
    PROVE  LinkHandshake'
<1> SUFFICES ASSUME NEW m \in Node, NEW q \in links'[m]
             PROVE  m \in links'[q] \/ link_req'[q][m] # "never"
    BY DEF LinkHandshake
<1>1. q \in Node /\ (m \in links[q] \/ link_req[q][m] # "never")
  <2>1. CASE q \in links[m]
    BY <2>1 DEF TypeOK, LinkInv, LinkHandshake
  <2>2. CASE q \notin links[m]
    <3>1. PICK n, p \in Node : /\ links' = [links EXCEPT ![n] = @ \cup {p}]
                               /\ n \in links[p] \/ link_req[p][n] # "never"
      BY <2>2
    <3>2. links'[m] = IF m = n THEN links[m] \cup {p} ELSE links[m]
      BY <3>1 DEF TypeOK
    <3>3. m = n /\ q = p
      BY <2>2, <3>2
    <3>4. QED
      BY <3>1, <3>3
  <2>3. QED
    BY <2>1, <2>2
<1>2. QED
    BY <1>1 DEF TablesGrow

LEMMA StepLinkInv ==
    ASSUME TypeOK, LinkInv, [ControlStep]_vars
    PROVE  LinkInv'
<1>1. TablesGrow /\ HopsVerified' /\ RequestsKnown'
    BY StepUpdatesTables DEF LinkInv
<1>2. HopsVerified /\ RequestsKnown /\ HandshakeInFlight
    BY DEF LinkInv
<1>3. ASSUME UNCHANGED links, air' \subseteq air,
             \/ UNCHANGED broadcast_queue
             \/ \E n \in Node : \E frames \in Seq(GrantedFrame') : Enqueue(n, frames)
      PROVE  LinkInv'
  <2>1. LinkHandshake' /\ HandshakeInFlight'
    BY <1>1, <1>2, <1>3, HandshakeKept, InFlightGranted
  <2>2. QED
    BY <1>1, <2>1 DEF LinkInv
<1>4. CASE UNCHANGED vars
    BY <1>3, <1>4 DEF vars
<1>5. ASSUME NEW n \in Node, QueueEb(n) PROVE LinkInv'
  <2>1. PICK f \in Frame : f = AnnounceFrame(n)
    BY FrameConstructors
  <2>2. f \in GrantedFrame'
    BY <2>1, OtherFramesGranted DEF AnnounceFrame
  <2>3. Enqueue(n, <<f>>) /\ <<f>> \in Seq(GrantedFrame')
    BY <1>5, <2>1, <2>2 DEF QueueEb
  <2>4. QED
    BY <1>3, <1>5, <2>3 DEF QueueEb, tableVars
<1>6. ASSUME NEW n \in Node, NEW p \in Node, LinkRetryElapsed(n, p) PROVE LinkInv'
    BY <1>3, <1>6 DEF LinkRetryElapsed
<1>7. ASSUME NEW n \in Node, NEW d \in Node, RreqRetryElapsed(n, d) PROVE LinkInv'
    BY <1>3, <1>7 DEF RreqRetryElapsed, tableVars
<1>8. ASSUME NEW n \in Node, NEW d \in Node, RouteSend(n, d) PROVE LinkInv'
  <2>1. /\ CandidateRequests(n, d) \in Seq(GrantedFrame')
        /\ UNCHANGED <<links, air>>
    BY <1>2, <1>8, CandidatesGranted DEF RouteSend
  <2>2. CASE InitiateThrottled(n, d)
    BY <1>3, <2>1, <2>2 DEF InitiateThrottled
  <2>3. CASE InitiateDiscovery(n, d)
    <3>1. PICK id \in Id :
            Enqueue(n, CandidateRequests(n, d)
                       \o <<RreqFrame(n, d, n, id, seq[n] + 1, 0, RouteRadius)>>)
      BY <2>3 DEF InitiateDiscovery
    <3>2. PICK f \in Frame : f = RreqFrame(n, d, n, id, seq[n] + 1, 0, RouteRadius)
      BY FrameConstructors, BoundAssumption DEF TypeOK
    <3>3. f \in GrantedFrame'
      BY <3>2, OtherFramesGranted DEF RreqFrame
    <3>4. CandidateRequests(n, d) \o <<f>> \in Seq(GrantedFrame')
      BY <2>1, <3>3, ConcatProperties
    <3>5. Enqueue(n, CandidateRequests(n, d) \o <<f>>)
      BY <3>1, <3>2
    <3>6. QED
      BY <1>3, <2>1, <3>4, <3>5
  <2>4. QED
    BY <1>8, <2>2, <2>3 DEF RouteSend
<1>9. ASSUME NEW n \in Node, NEW d \in Node, ForwardToward(n, d) PROVE LinkInv'
  <2> DEFINE hops == IF routes[n][d] # NoEntry THEN {routes[n][d].next_hop}
                     ELSE LinkCandidates(n, d)
  <2>1. PICK p \in hops : /\ link_req' = RequestTimes(n, {p}, link_req)
                          /\ Enqueue(n, LinkRequest(n, p, link_req))
    BY <1>9 DEF ForwardToward
  <2>2. {p} \in SUBSET Node
    BY <1>2, CandidatesKnown
  <2>3. LinkRequest(n, p, link_req) \in Seq(GrantedFrame')
    BY <2>1, <2>2, LinkRequestGranted
  <2>4. QED
    BY <1>3, <1>9, <2>1, <2>3 DEF ForwardToward
<1>10. ASSUME NEW n \in Node, Transmit(n) PROVE LinkInv'
  <2>1. GrantedFrame \subseteq GrantedFrame'
    BY <1>1, GrantedStable
  <2>2. broadcast_queue \in [Node -> Seq(GrantedFrame')]
    <3>1. \A m \in Node : broadcast_queue[m] \in Seq(GrantedFrame')
      BY <1>2, <2>1, SeqMonotonic DEF HandshakeInFlight
    <3>2. QED
      BY <1>2, <3>1 DEF HandshakeInFlight
  <2>3. /\ Head(broadcast_queue[n]) \in GrantedFrame'
        /\ broadcast_queue' \in [Node -> Seq(GrantedFrame')]
    BY <1>10, <2>2, DequeueKeepsQueues DEF Transmit
  <2>4. air' \in SUBSET [frame : GrantedFrame', to : Node]
    <3>1. PICK heard \in SUBSET Node :
            air' = air \cup {[frame |-> Head(broadcast_queue[n]), to |-> m] : m \in heard}
      BY <1>10, NodeAssumption DEF Transmit
    <3>2. QED
      BY <1>2, <2>1, <2>3, <3>1 DEF HandshakeInFlight
  <2>5. LinkHandshake'
    BY <1>1, <1>10, HandshakeKept DEF Transmit, tableVars
  <2>6. QED
    BY <1>1, <2>3, <2>4, <2>5 DEF LinkInv, HandshakeInFlight
<1>11. ASSUME NEW rx \in air, Receive(rx.to, rx.frame) PROVE LinkInv'
  <2>1. PICK n \in Node, f \in GrantedFrame : rx.to = n /\ rx.frame = f
    BY <1>2 DEF HandshakeInFlight
  <2>2. f \in Frame /\ f.from \in Node /\ Granted(f)
    BY FrameFields DEF GrantedFrame
  <2>3. air' \subseteq air
    BY <1>11, <2>1
    DEF Receive, HandleAnnounce, OverhearLink, HandleLinkRequest, HandleLinkResponse,
        RreqReturns, RreqDuplicate, RreqAtDestination, RreqForward, RreqExpires,
        RrepStray, RrepOverheard, RrepAtOrigin, RrepForward, Hears
  <2>4. \/ UNCHANGED broadcast_queue
        \/ \E frames \in Seq(GrantedFrame') : Enqueue(n, frames)
    BY <1>1, <1>2, <1>11, <2>1, <2>2, ReceiveGrants
  <2>5. HandshakeInFlight'
    BY <1>1, <1>2, <2>3, <2>4, InFlightGranted
  <2>6. CASE HandleLinkRequest(n, f) \/ HandleLinkResponse(n, f)
    <3>1. /\ links' = [links EXCEPT ![n] = @ \cup {f.from}]
          /\ n \in links[f.from] \/ link_req[f.from][n] # "never"
      BY <2>2, <2>6 DEF HandleLinkRequest, HandleLinkResponse, LinkUp, Hears, Granted
    <3>2. LinkHandshake'
      BY <1>1, <2>2, <3>1, HandshakeKept
    <3>3. QED
      BY <1>1, <2>5, <3>2 DEF LinkInv
  <2>7. CASE UNCHANGED links
    <3>1. LinkHandshake'
      BY <1>1, <2>7, HandshakeKept
    <3>2. QED
      BY <1>1, <2>5, <3>1 DEF LinkInv
  <2>8. UNCHANGED links \/ HandleLinkRequest(n, f) \/ HandleLinkResponse(n, f)
    BY <1>11, <2>1
    DEF Receive, HandleAnnounce, OverhearLink, RreqReturns, RreqDuplicate, RreqAtDestination,
        RreqForward, RreqExpires, RrepStray, RrepOverheard, RrepAtOrigin, RrepForward,
        RrepAddressed, LearnReversePath, LearnRoute, AcceptRoute, tableVars
  <2>9. QED
    BY <2>6, <2>7, <2>8
<1>12. QED
    BY <1>4, <1>5, <1>6, <1>7, <1>8, <1>9, <1>10, <1>11, NodeAssumption
    DEF ControlStep, Next, Stimulus

LEMMA InitLinkInv == Init => LinkInv
<1> SUFFICES ASSUME Init PROVE LinkInv
    OBVIOUS
<1>1. <<>> \in Seq(GrantedFrame)
    BY EmptySeq
<1>2. HopsVerified /\ RequestsKnown /\ LinkHandshake
    BY DEF Init, HopsVerified, RequestsKnown, LinkHandshake
<1>3. HandshakeInFlight
    BY <1>1 DEF Init, HandshakeInFlight
<1>4. QED
    BY <1>2, <1>3 DEF LinkInv

LEMMA LinkInvariance == Spec => []LinkInv
<1>1. TypeOK /\ LinkInv /\ [Next]_vars => LinkInv'
    BY StepLinkInv DEF ControlStep
<1>2. QED
    BY <1>1, InitLinkInv, TypeCorrect, PTL DEF Spec

(***************************************************************************)
(* The properties.                                                         *)
(***************************************************************************)
\* In every reachable state a node only links with, and only routes through,
\* neighbours whose public key it has verified (verifySig, tryEstablish).
THEOREM OnlyVerifiedHops == Spec => []HopsVerified
<1>1. LinkInv => HopsVerified
    BY DEF LinkInv
<1>2. QED
    BY <1>1, LinkInvariance, PTL

\* In every reachable state a link is held by both sides, or by a responder whose
\* requester remembers that it asked (link.handleRx).
THEOREM HandshakeSound == Spec => []LinkHandshake
<1>1. LinkInv => LinkHandshake
    BY DEF LinkInv
<1>2. QED
    BY <1>1, LinkInvariance, PTL

\* No step forgets that a peer was asked for a link within the retry interval
\* (tryEstablish, and verifySig's new entries).
THEOREM RequestsRemembered == Spec => RequestThrottled
<1>1. ASSUME TypeOK, LinkInv, [Next]_vars
      PROVE  \A n, p \in Node : link_req[n][p] = "recent" => link_req'[n][p] # "never"
  <2>1. TablesGrow
    BY <1>1, StepUpdatesTables DEF LinkInv, ControlStep
  <2>2. QED
    BY <2>1 DEF TablesGrow
<1>2. TypeOK /\ LinkInv /\ [Next]_vars =>
        [\A n, p \in Node : link_req[n][p] = "recent" => link_req'[n][p] # "never"]_vars
    BY <1>1
<1>3. QED
    BY <1>2, TypeCorrect, LinkInvariance, PTL DEF Spec, RequestThrottled
=============================================================================
