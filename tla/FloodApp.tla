------------------------------- MODULE FloodApp -------------------------------
(***************************************************************************)
(* The flood baselines that slora is compared with (FloodApp.cc): one      *)
(* application per node on one broadcast radio, in one of three modes.     *)
(* "naive" rebroadcasts every packet, "snr" drops its own rebroadcast when *)
(* it hears another one first, "mpr" rebroadcasts for the neighbours that  *)
(* elected it as multipoint relay.                                         *)
(*                                                                         *)
(* Abstractions.  A node is the index its identifier is made of.  Payloads *)
(* and time stamps are left out, and so are the counters, which nothing    *)
(* acts on.  Random delays end in any order; the contention window, which  *)
(* only shapes them, is left out.  A neighbour may time out whenever the   *)
(* table is pruned.  A frame is in the air until its receiver has it or    *)
(* has lost it.                                                            *)
(***************************************************************************)
EXTENDS Integers, Sequences, FiniteSets

CONSTANTS
    Node,              \* node indices
    Setup,             \* the scenarios: see SetupType
    InitialHopLimit,   \* initialHopLimit
    RecentCacheCap,    \* RECENT_CACHE_CAP
    NoInfo             \* no entry in the neighbour table

Mode == {"naive", "snr", "mpr"}

\* A scenario: mode, who hears whom, whether frames get lost, whom each node sends
\* to, and bounds on the packets originated, the hellos sent and the prunings that
\* find a neighbour silent, per node.
SetupType ==
    [mode : Mode, in_range : [Node -> SUBSET Node], lossy : BOOLEAN,
     dests : [Node -> SUBSET Node],
     packets : [Node -> Nat], hellos : [Node -> Nat], timeouts : [Node -> Nat]]

ASSUME FloodAssumption ==
    /\ Node \subseteq Nat /\ IsFiniteSet(Node)
    /\ \A s \in Setup : s \in SetupType
    /\ InitialHopLimit \in 0 .. 255
    /\ RecentCacheCap \in Nat \ {0}

VARIABLES
    setup,       \* the scenario
    next_id,     \* next_id[n]: nextPacketId
    recent,      \* recent[n]: recentList; recentSet holds the same keys
    pending,     \* pending[n]: pendingRebroadcasts, the frames to send
    neighbours,  \* neighbours[n][m]: what n knows of m, or NoInfo
    mpr_set,     \* mpr_set[n]: myMprSet
    air,         \* receptions in progress: [from, to, frame]
    hellos,      \* hellos[n]: hellos sent so far
    timeouts,    \* timeouts[n]: prunings that found someone silent
    taken,       \* history: taken[n]: the keys n remembered, oldest first
    forwarded,   \* history: forwarded[n]: the keys n rebroadcast
    sent         \* history: the packets originated

tableVars == <<neighbours, mpr_set>>
packetVars == <<next_id, recent, pending, taken, forwarded, sent>>
vars == <<setup, next_id, recent, pending, neighbours, mpr_set, air, hellos, timeouts,
          taken, forwarded, sent>>

Key == [src : Node, id : Nat]
Data == [src : Node, id : Nat, dst : Node, hop : 0 .. 255]
Hello == [n1 : SUBSET Node, mprs : SUBSET Node]

KeyOf(data) == [src |-> data.src, id |-> data.id]

Elements(queue) == {queue[i] : i \in DOMAIN queue}

Init ==
    /\ setup \in Setup
    /\ next_id = [n \in Node |-> 1]
    /\ recent = [n \in Node |-> <<>>]
    /\ pending = [n \in Node |-> {}]
    /\ neighbours = [n \in Node |-> [m \in Node |-> NoInfo]]
    /\ mpr_set = [n \in Node |-> {}]
    /\ air = {}
    /\ hellos = [n \in Node |-> 0]
    /\ timeouts = [n \in Node |-> 0]
    /\ taken = [n \in Node |-> <<>>]
    /\ forwarded = [n \in Node |-> <<>>]
    /\ sent = {}

(***************************************************************************)
(* The radio.                                                              *)
(***************************************************************************)
ChannelBusy(n) == \E rx \in air : n \in {rx.from, rx.to}

\* handleUpperPacket of the radio: everyone in range begins to receive.
Receptions(n, frame) ==
    {[from |-> n, to |-> m, frame |-> frame] : m \in setup.in_range[n]}

\* broadcast and sendHello on an idle channel.  On a busy one every timer is
\* set again.
Send(n, frame) == ~ChannelBusy(n) /\ air' = air \cup Receptions(n, frame)

\* computeIsReceptionAttempted: a frame that collides is lost.
ReceptionFails(rx) ==
    /\ setup.lossy
    /\ air' = air \ {rx}
    /\ UNCHANGED <<setup, packetVars, tableVars, hellos, timeouts>>

(***************************************************************************)
(* The cache of recent packets.                                            *)
(***************************************************************************)
IsInRecentCache(n, key) == key \in Elements(recent[n])

\* Mutants: nothing is evicted; a key is evicted when the cache is full.
NeverEvicted(queue) == queue
EvictedEarly(queue) == IF Len(queue) >= RecentCacheCap THEN Tail(queue) ELSE queue

Evicted(queue) == IF Len(queue) > RecentCacheCap THEN Tail(queue) ELSE queue

RememberPacket(n, key) ==
    IF IsInRecentCache(n, key)
    THEN UNCHANGED <<recent, taken>>
    ELSE /\ recent' = [recent EXCEPT ![n] = Evicted(Append(@, key))]
         /\ taken' = [taken EXCEPT ![n] = Append(@, key)]

(***************************************************************************)
(* Neighbours and multipoint relays.                                       *)
(***************************************************************************)
Known(table) == {m \in DOMAIN table : table[m] # NoInfo}

NoteHeard(table, m) ==
    IF table[m] # NoInfo THEN table
    ELSE [table EXCEPT ![m] = [n1 |-> {}, mprs |-> {}]]

\* pruneNeighbours: some that were not heard just now are found silent.
Prune(n, table, heard) ==
    {table} \cup
    IF timeouts[n] = setup.timeouts[n] THEN {}
    ELSE {[m \in Node |-> IF m \in gone THEN NoInfo ELSE table[m]] :
             gone \in (SUBSET (Known(table) \ heard)) \ {{}}}

\* The nodes n reaches only through a neighbour.
TwoHops(n, table) ==
    (UNION {table[m].n1 : m \in Known(table)}) \ (Known(table) \cup {n})

Covered(table, mprs) == UNION {table[m].n1 : m \in mprs}

\* Mutant: the first round of the election is the last.
FirstElected(n, table) ==
    LET cover(m) == Cardinality(table[m].n1 \cap TwoHops(n, table))
        best == {m \in Known(table) :
                    /\ cover(m) > 0
                    /\ \A o \in Known(table) :
                          cover(o) < cover(m) \/ (cover(o) = cover(m) /\ m <= o)}
    IN  best

\* recomputeMprSet: round by round the neighbour that covers the most of what
\* is left, the smaller identifier first among equals.
ElectedMprs(n, table) ==
    LET rounds[k \in 0 .. Cardinality(Known(table))] ==
            IF k = 0 THEN {}
            ELSE LET mprs == rounds[k - 1]
                     left == TwoHops(n, table) \ Covered(table, mprs)
                     cover(m) == Cardinality(table[m].n1 \cap left)
                     best == {m \in Known(table) \ mprs :
                                 /\ cover(m) > 0
                                 /\ \A o \in Known(table) \ mprs :
                                       \/ cover(o) < cover(m)
                                       \/ cover(o) = cover(m) /\ m <= o}
                 IN  mprs \cup best
    IN  rounds[Cardinality(Known(table))]

\* pruneNeighbours and recomputeMprSet on table.
Refresh(n, table, heard) ==
    \E pruned \in Prune(n, table, heard) :
        /\ neighbours' = [neighbours EXCEPT ![n] = pruned]
        /\ mpr_set' = [mpr_set EXCEPT ![n] = ElectedMprs(n, pruned)]
        /\ timeouts' = [timeouts EXCEPT ![n] = IF pruned = table THEN @ ELSE @ + 1]

SendHello(n) ==
    /\ setup.mode = "mpr"
    /\ hellos[n] < setup.hellos[n]
    /\ hellos' = [hellos EXCEPT ![n] = @ + 1]
    /\ Refresh(n, neighbours[n], {})
    /\ Send(n, [n1 |-> Known(neighbours'[n]), mprs |-> mpr_set'[n]])
    /\ UNCHANGED <<setup, packetVars>>

ReceiveHello(rx) ==
    LET n == rx.to
    IN  /\ rx.frame \in Hello
        /\ Refresh(n, [neighbours[n] EXCEPT ![rx.from] = rx.frame], {rx.from})
        /\ air' = air \ {rx}
        /\ UNCHANGED <<setup, hellos, packetVars>>

SenderElectedUs(n, table, m) == table[m] # NoInfo /\ n \in table[m].mprs

(***************************************************************************)
(* Packets.                                                                *)
(***************************************************************************)
Originate(n, dst) ==
    /\ next_id[n] <= setup.packets[n]
    /\ dst \in setup.dests[n] \ {n}
    /\ next_id' = [next_id EXCEPT ![n] = @ + 1]
    /\ RememberPacket(n, [src |-> n, id |-> next_id[n]])
    /\ LET data == [src |-> n, id |-> next_id[n], dst |-> dst, hop |-> InitialHopLimit]
       IN  Send(n, data) /\ sent' = sent \cup {data}
    /\ UNCHANGED <<setup, tableVars, hellos, timeouts, pending, forwarded>>

\* A packet arrives; in mpr mode its last hop is noted first.
Arrives(rx) ==
    /\ rx.frame \in Data
    /\ air' = air \ {rx}
    /\ neighbours' = IF setup.mode # "mpr" THEN neighbours
                     ELSE [neighbours EXCEPT ![rx.to] = NoteHeard(@, rx.from)]
    /\ UNCHANGED <<setup, next_id, mpr_set, hellos, timeouts, forwarded, sent>>

PendingFor(n, key) == {data \in pending[n] : KeyOf(data) = key}

\* Mutant: every mode suppresses.
NeverKeeps(n) == FALSE

KeepsPending(n) == setup.mode = "naive"

\* n still owes a rebroadcast of the packet: naive keeps it, the others drop it.
ReceivePending(rx) ==
    LET n == rx.to
        key == KeyOf(rx.frame)
    IN  /\ Arrives(rx)
        /\ PendingFor(n, key) # {}
        /\ pending' = IF KeepsPending(n) THEN pending
                      ELSE [pending EXCEPT ![n] = @ \ PendingFor(n, key)]
        /\ RememberPacket(n, key)

ReceiveDuplicate(rx) ==
    LET n == rx.to
        key == KeyOf(rx.frame)
    IN  /\ Arrives(rx)
        /\ PendingFor(n, key) = {}
        /\ IsInRecentCache(n, key)
        /\ UNCHANGED <<recent, pending, taken>>

\* Mutant: the hop limit is not counted down.
SameHop(data) == data

NextHop(data) == [data EXCEPT !.hop = @ - 1]

\* The timer of the rebroadcast; its delay is any.
ScheduleRebroadcast(n, data) == [pending EXCEPT ![n] = @ \cup {data}]

\* Whether n, who takes the packet in, owes a rebroadcast.
MayForward(n, data, last) ==
    /\ data.hop > 0 /\ data.src # n /\ data.dst # n
    /\ setup.mode = "mpr" => SenderElectedUs(n, neighbours'[n], last)

ReceiveNew(rx) ==
    LET n == rx.to
        key == KeyOf(rx.frame)
    IN  /\ Arrives(rx)
        /\ PendingFor(n, key) = {}
        /\ ~IsInRecentCache(n, key)
        /\ RememberPacket(n, key)
        /\ pending' = IF MayForward(n, rx.frame, rx.from)
                      THEN ScheduleRebroadcast(n, NextHop(rx.frame))
                      ELSE pending

\* Mutant: the rebroadcast stays scheduled.
StillPending(n, data) == pending[n]

NoLongerPending(n, data) == pending[n] \ {data}

\* onRebroadcastTimer on an idle channel.
Rebroadcast(n, data) ==
    /\ data \in pending[n]
    /\ pending' = [pending EXCEPT ![n] = NoLongerPending(n, data)]
    /\ forwarded' = [forwarded EXCEPT ![n] = Append(@, KeyOf(data))]
    /\ Send(n, data)
    /\ UNCHANGED <<setup, tableVars, hellos, timeouts, next_id, recent, taken, sent>>

Next ==
    \/ \E n \in Node : SendHello(n)
    \/ \E n, dst \in Node : Originate(n, dst)
    \/ \E n \in Node : \E data \in pending[n] : Rebroadcast(n, data)
    \/ \E rx \in air :
          \/ ReceiveHello(rx)
          \/ ReceivePending(rx)
          \/ ReceiveDuplicate(rx)
          \/ ReceiveNew(rx)
          \/ ReceptionFails(rx)

Spec == Init /\ [][Next]_vars

(***************************************************************************)
(* Properties.                                                             *)
(***************************************************************************)
\* Types; the cache stays within its capacity, and a node owes at most one
\* rebroadcast of a packet.
TypeOK ==
    /\ setup \in Setup
    /\ next_id \in [Node -> Nat]
    /\ recent \in [Node -> Seq(Key)]
    /\ pending \in [Node -> SUBSET Data]
    /\ neighbours \in [Node -> [Node -> Hello \cup {NoInfo}]]
    /\ mpr_set \in [Node -> SUBSET Node]
    /\ air \in SUBSET [from : Node, to : Node, frame : Data \cup Hello]
    /\ hellos \in [Node -> Nat] /\ timeouts \in [Node -> Nat]
    /\ taken \in [Node -> Seq(Key)] /\ forwarded \in [Node -> Seq(Key)]
    /\ sent \in SUBSET Data
    /\ \A n \in Node :
          /\ Len(recent[n]) <= RecentCacheCap
          /\ \A d, e \in pending[n] : KeyOf(d) = KeyOf(e) => d = e

\* A node takes a packet in again only when at least as many others as the cache
\* holds came in between.
RecentWindow ==
    \A n \in Node : \A i, j \in DOMAIN taken[n] :
        i < j /\ taken[n][i] = taken[n][j] => j - i > RecentCacheCap

\* A naive node rebroadcasts every packet at most once (FloodApp.h).
RebroadcastOnce ==
    setup.mode = "naive" =>
        \A n \in Node : \A i, j \in DOMAIN forwarded[n] :
            forwarded[n][i] = forwarded[n][j] => i = j

\* A node rebroadcasts a packet at most once for every time it takes it in, also
\* when the cache forgot the packet while its rebroadcast was waiting.
ForwardedOnce ==
    \A n \in Node : \A key \in Elements(taken[n]) :
        Cardinality({i \in DOMAIN forwarded[n] : forwarded[n][i] = key})
            + Cardinality(PendingFor(n, key))
        <= Cardinality({i \in DOMAIN taken[n] : taken[n][i] = key})

\* The nodes within k hops of n.
Within(n, k) ==
    LET ball[i \in 0 .. k] ==
            IF i = 0 THEN {n}
            ELSE ball[i - 1] \cup UNION {setup.in_range[m] : m \in ball[i - 1]}
    IN  ball[k]

\* No packet gets further than the hop limit allows, whichever way it goes and
\* whatever the caches forget.
HopBudget ==
    /\ \A rx \in air : rx.frame \in Data =>
          rx.from \in Within(rx.frame.src, InitialHopLimit - rx.frame.hop)
    /\ \A n \in Node : \A key \in Elements(taken[n]) :
          n \in Within(key.src, InitialHopLimit + 1)

\* Nothing is in the air and nothing is owed.
Quiet == air = {} /\ \A n \in Node : pending[n] = {}

\* The nodes that a flood for dst can reach: dst itself does not rebroadcast.
FloodRange(src, dst) ==
    LET ball[i \in 0 .. Cardinality(Node)] ==
            IF i = 0 THEN {src}
            ELSE ball[i - 1] \cup UNION {setup.in_range[m] : m \in ball[i - 1] \ {dst}}
    IN  ball[Cardinality(Node)]

\* Without losses, once a naive flood is over every node it can reach took every
\* packet in, the destination among them, whatever the caches forgot meanwhile.
\* The hop limit has to allow every path: a node that took in a copy with few
\* hops left does not forward a later one with more.
NaiveReaches ==
    setup.mode = "naive" /\ ~setup.lossy /\ Quiet =>
        \A packet \in sent :
            LET range == FloodRange(packet.src, packet.dst)
            IN  InitialHopLimit + 2 >= Cardinality(range) =>
                    \A n \in range : KeyOf(packet) \in Elements(taken[n])

\* The relays a node elected are its neighbours and reach every node it knows
\* two hops away, also after neighbours fell silent or were only heard
\* rebroadcasting.
MprCovers ==
    \A n \in Node :
        /\ mpr_set[n] \subseteq Known(neighbours[n])
        /\ TwoHops(n, neighbours[n]) \subseteq Covered(neighbours[n], mpr_set[n])

\* Suppression is the snr mode's: a relay that owes a rebroadcast in mpr mode,
\* because the sender elected it, sends it.
ElectedForwards ==
    [][setup.mode = "mpr" =>
          \A n \in Node : \A data \in pending[n] \ pending'[n] :
              KeyOf(data) \in Elements(forwarded'[n])]_vars
=============================================================================
