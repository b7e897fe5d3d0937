----------------------------- MODULE MCSloraHost -----------------------------
(***************************************************************************)
(* A host for TLC: a slotframe of three slots, the node's own cell and the *)
(* cells of two peers, one of which shares the node's slot.                *)
(***************************************************************************)
EXTENDS SloraHost, TLC

CONSTANTS p, q

Hops == 0 :> 1 @@ 1 :> 2 @@ 2 :> 0

Own == [slot_offset |-> 1, ch_offset |-> 0]
Cells == p :> [slot_offset |-> 2, ch_offset |-> 0] @@ q :> [slot_offset |-> 1, ch_offset |-> 1]
Keys == [m \in Message |-> m]
=============================================================================
