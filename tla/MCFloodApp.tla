----------------------------- MODULE MCFloodApp -----------------------------
(***************************************************************************)
(* Scenarios of FloodApp for TLC.                                          *)
(***************************************************************************)
EXTENDS FloodApp, TLC

Each(k) == [n \in Node |-> k]

\* Two nodes that send, a third that hears both, a fourth behind the third.
TailRange == 0 :> {1, 2} @@ 1 :> {0, 2} @@ 2 :> {0, 1, 3} @@ 3 :> {2} @@ 4 :> {}

\* A node whose two neighbours, who hear each other, each have one of their own.
ForkRange ==
    0 :> {1, 2} @@ 1 :> {0, 2, 3} @@ 2 :> {0, 1, 4} @@ 3 :> {1} @@ 4 :> {2}

Bounds(k0, k1, k2, k3, k4) == 0 :> k0 @@ 1 :> k1 @@ 2 :> k2 @@ 3 :> k3 @@ 4 :> k4

Flood(mode, lossy) ==
    [mode |-> mode, in_range |-> TailRange, lossy |-> lossy,
     dests |-> 0 :> {1, 3} @@ 1 :> {3} @@ 2 :> {} @@ 3 :> {} @@ 4 :> {}, packets |-> Bounds(1, 1, 0, 0, 0),
     hellos |-> Each(0), timeouts |-> Each(0)]

\* The fork learns its relays; a packet flows, or a neighbour falls silent.
Relays(sends, silences) ==
    [mode |-> "mpr", in_range |-> ForkRange, lossy |-> FALSE,
     dests |-> [Each({}) EXCEPT ![0] = {3}], packets |-> Bounds(sends, 0, 0, 0, 0),
     hellos |-> Bounds(1, 1, 1, 1, 1), timeouts |-> Bounds(silences, 0, 0, 0, 0)]

PassSetups ==
    {Flood("naive", FALSE), Flood("naive", TRUE), Flood("snr", TRUE), Relays(1, 1)}
NaiveSetup == {Flood("naive", FALSE)}
RelaySetup == {Relays(1, 0)}
=============================================================================
