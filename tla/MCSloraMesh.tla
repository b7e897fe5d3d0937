---------------------------- MODULE MCSloraMesh ----------------------------
(***************************************************************************)
(* Instances of SloraMesh for TLC: three nodes.                            *)
(***************************************************************************)
EXTENDS SloraMesh, TLC

CONSTANTS A, B, C, p1, p2

Nodes == {A, B, C}

\* A - B - C: the ends out of each other's range.
LineRange == A :> {B} @@ B :> {A, C} @@ C :> {B}

TriangleRange == A :> {B, C} @@ B :> {A, C} @@ C :> {A, B}

Nobody == [n \in Node |-> {}]

\* Whom the hosts address; an answered echo addresses its source.
AToC == A :> {C} @@ B :> {} @@ C :> {}
AToB == A :> {B} @@ B :> {} @@ C :> {}

Addresses == A :> 1 @@ B :> 2 @@ C :> 3

\* Payload lengths, and what the first bytes of the payloads read as.
AtSealLimit == [i \in PacketId |-> 191]
AtSendLimit == [i \in PacketId |-> IF i = p1 THEN 192 ELSE 32]

Plain == [i \in PacketId |-> "plain"]
OneEcho == [i \in PacketId |-> IF i = p1 THEN "request" ELSE "plain"]

\* How often each kind of spontaneous step happens.
Traffic(sends, relays, announces, retries) ==
    [kind \in StimulusKind |->
        CASE kind = "send" -> sends [] kind = "relay" -> relays
          [] kind = "announce" -> announces [] kind = "link_retry" -> retries
          [] OTHER -> 0]
Through == Traffic(4, 4, 0, 0)
Relink == Traffic(2, 1, 0, 1)
=============================================================================
