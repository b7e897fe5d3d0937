--------------------------- MODULE MCSloraControl ---------------------------
(***************************************************************************)
(* Instances of SloraControl for TLC: four nodes, meshed in different ways. *)
(***************************************************************************)
EXTENDS SloraControl, TLC

CONSTANTS A, B, C, D

FourNodes == {A, B, C, D}

\* A - B - C: the ends out of each other's range; nobody hears D.
LineRange == A :> {B} @@ B :> {A, C} @@ C :> {B} @@ D :> {}

\* A, B and C all in range of each other, D out of range.
TriangleRange == A :> {B, C} @@ B :> {A, C} @@ C :> {A, B} @@ D :> {}

\* A hub B with the leaves A, C and D.
HubRange == A :> {B} @@ B :> {A, C, D} @@ C :> {B} @@ D :> {B}

\* Whom the nodes were told to link with, and whom their applications address.
Nobody == [n \in Node |-> {}]
Neighbours == A :> {B} @@ B :> {A} @@ C :> {B} @@ D :> {}
EndToEnd == A :> {C, D} @@ B :> {} @@ C :> {} @@ D :> {}
Across == A :> {C} @@ B :> {} @@ C :> {} @@ D :> {}

\* How often each kind of spontaneous step happens.
Sends(k) == [kind \in StimulusKind |-> IF kind = "send" THEN k ELSE 0]
TriangleTraffic == [Sends(2) EXCEPT !["link_retry"] = 1]
LineTraffic ==
    [Sends(1) EXCEPT !["link_retry"] = 1, !["rreq_retry"] = 1, !["announce"] = 1, !["relay"] = 1]
LinkTraffic == [Sends(0) EXCEPT !["announce"] = 2, !["link_retry"] = 1]

IdSymmetry == Permutations(Id)
=============================================================================
