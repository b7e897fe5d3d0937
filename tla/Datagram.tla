------------------------------ MODULE Datagram ------------------------------
(***************************************************************************)
(* What a slora mesh promises the hosts that hand it packets: a packet may *)
(* get lost anywhere, but it comes out at most once, at the node it names, *)
(* with the source it was sent from, and an echo request that arrives      *)
(* turns into one response on its way back.  Queues, links, routes and     *)
(* frames are not visible here.  SloraMesh implements it.                  *)
(***************************************************************************)
CONSTANTS Node, PacketId

VARIABLES
    sent,        \* identities of the packets handed to the mesh so far
    inside,      \* the packets on their way
    delivered    \* delivered[n]: the packets handed to n's host

datagramVars == <<sent, inside, delivered>>

Form == {"plain", "request", "response"}

Packet == [id : PacketId, form : Form, source : Node, dest : Node]

\* The echo response to a request (echo.handleDelivered).
Response(pkt) ==
    [id |-> pkt.id, form |-> "response", source |-> pkt.dest, dest |-> pkt.source]

Init == sent = {} /\ inside = {} /\ delivered = [n \in Node |-> {}]

\* Every step may lose packets: what stays inside is a part of what could.
Offer(pkt) ==
    /\ pkt.id \notin sent
    /\ pkt.source # pkt.dest
    /\ sent' = sent \cup {pkt.id}
    /\ inside' \subseteq inside \cup {pkt}
    /\ UNCHANGED delivered

\* To the node the packet names, and not a second time.
Deliver(pkt) ==
    /\ pkt.form # "request"
    /\ pkt \notin delivered[pkt.dest]
    /\ inside' \subseteq inside \ {pkt}
    /\ delivered' = [delivered EXCEPT ![pkt.dest] = @ \cup {pkt}]
    /\ UNCHANGED sent

Answer(pkt) ==
    /\ pkt.form = "request"
    /\ inside' \subseteq (inside \ {pkt}) \cup {Response(pkt)}
    /\ UNCHANGED <<sent, delivered>>

Lose ==
    /\ inside' \subseteq inside
    /\ UNCHANGED <<sent, delivered>>

Next ==
    \/ \E pkt \in Packet : Offer(pkt)
    \/ \E pkt \in inside : Deliver(pkt) \/ Answer(pkt)
    \/ Lose

Spec == Init /\ [][Next]_datagramVars
=============================================================================
