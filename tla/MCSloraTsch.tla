---------------------------- MODULE MCSloraTsch ----------------------------
(***************************************************************************)
(* Instances of SloraTsch for TLC: A and B hear each other's beacons; C is *)
(* a peer of A out of the range of its beacons.                            *)
(***************************************************************************)
EXTENDS SloraTsch, TLC

CONSTANTS A, B, C

Nodes == {A, B, C}
EbRange == A :> {B} @@ B :> {A} @@ C :> {}
Links == A :> {B, C} @@ B :> {A} @@ C :> {}

\* A slotframe of three slots.  A and B own the same one, on other channels.
Cells == A :> [slot_offset |-> 1, ch_offset |-> 0]
      @@ B :> [slot_offset |-> 1, ch_offset |-> 2]
      @@ C :> [slot_offset |-> 2, ch_offset |-> 0]
Hops == 0 :> 0 @@ 1 :> 2 @@ 2 :> 1

\* How often the announce timer fires, and how many packets are queued.
Beacons == A :> 2 @@ B :> 1 @@ C :> 0
Packets == A :> 2 @@ B :> 1 @@ C :> 0
=============================================================================
