------------------------------ MODULE SloraTsch ------------------------------
(***************************************************************************)
(* Time on a slora mesh: the slot clock of every node (schedule.zig,       *)
(* tsch.zig), the Enhanced Beacons that move it (announce.zig), and the    *)
(* host that keeps the slot timer, queues the beacons for the broadcast    *)
(* radio, stamps them with the absolute slot number when they leave, and   *)
(* tunes the data radio (SloraApp.cc).                                     *)
(*                                                                         *)
(* Abstractions.  Time is counted in ticks and the wall clock of all hosts *)
(* is the simulation's.  A beacon is on the air for AirTime ticks and may  *)
(* be lost at any receiver; other broadcast frames, which wait in the same *)
(* queue, only delay it.  The delay of a backoff is arbitrary.  The links  *)
(* are up, and a packet queued on one is only counted.                     *)
(***************************************************************************)
EXTENDS Integers, FiniteSets

CONSTANTS
    Node,             \* the addresses
    InRange,          \* InRange[n]: the nodes that can hear n
    Link,             \* Link[n]: the peers n has a link with
    Cell,             \* Cell[n]: autonomousRxCell of n
    HopSequence,      \* hop_sequence
    SlotDuration,     \* slot_duration_ns, in ticks
    SlotframeLen,     \* slotframe_len, and num_channels: both are 16
    AirTime,          \* ticks a beacon is on the air
    FramesPerTxCell,  \* frames_per_tx_cell
    NoSource,         \* no beacon heard yet
    NoChannel,        \* the data radio's frequency before the first tune
    MaxTime,          \* bound: ticks a behaviour lasts
    MaxBeacons,       \* bound: MaxBeacons[n], announce wakeups of n
    MaxPackets        \* bound: MaxPackets[n], packets queued by n

Channel == 0 .. SlotframeLen - 1

ASSUME ScheduleAssumption ==
    /\ SlotframeLen \in Nat \ {0, 1}
    /\ SlotDuration \in Nat \ {0}
    /\ AirTime \in Nat \ {0}
    /\ FramesPerTxCell \in Nat \ {0}
    /\ HopSequence \in [Channel -> Channel]
    /\ Cell \in [Node -> [slot_offset : 1 .. SlotframeLen - 1, ch_offset : Channel]]
    /\ {InRange, Link} \subseteq [Node -> SUBSET Node]
    /\ NoSource \notin Node /\ NoChannel \notin Channel
    /\ MaxTime \in Nat
    /\ {MaxBeacons, MaxPackets} \subseteq [Node -> Nat]

VARIABLES
    now,          \* the simulation time
    asn_offset,   \* asn_offset[n]: what n adds to the time to get its own
    time_source,  \* time_source[n]: whose beacons n follows
    eb_pending,   \* eb_pending[n]: n owes a beacon
    wakeup,       \* wakeup[n]: when the host wakes n for a slot
    pending_tx,   \* pending_tx[n][p]: packets on n's link to p
    data_channel, \* data_channel[n]: what n's data radio is tuned to
    bcast_queue,  \* bcast_queue[n]: beacons in bcastTxQueue
    backoff,      \* backoff[n]: bcastBackoffTimer is scheduled
    tx_busy,      \* tx_busy[n]: bcastTxBusy
    air,          \* beacons being received: [from, to, asn, due]
    on_air,       \* on_air[n]: when n's transmission ends, 0 for none
    announced,    \* announced[n]: announce wakeups so far
    queued,       \* queued[n]: packets queued so far
    handled       \* history: handled[n]: the slot n handled last, by its own clock

clockVars == <<now, asn_offset, time_source, wakeup>>
dataVars == <<pending_tx, data_channel, queued, handled>>
hostVars == <<bcast_queue, backoff, tx_busy, air, on_air>>
vars == <<now, asn_offset, time_source, eb_pending, wakeup, pending_tx, data_channel,
          bcast_queue, backoff, tx_busy, air, on_air, announced, queued, handled>>

(***************************************************************************)
(* schedule.zig and currentAsn.                                            *)
(***************************************************************************)
SlotOffset(asn) == asn % SlotframeLen

\* Mutant: slots are counted from one.
WallclockFromOne(asn) == (asn - 1) * SlotDuration

WallclockAtAsn(asn) == asn * SlotDuration

PhysicalChannel(asn, ch_offset) == HopSequence[(asn + ch_offset) % SlotframeLen]

CurrentAsn(offset) == (now + offset) \div SlotDuration

\* Mutant: the slot after the next.
NextSlotLate(offset) == WallclockAtAsn(CurrentAsn(offset) + 2) - offset

\* scheduleNextSlot and scheduleWakeup: the host's only slot timer is set for
\* the next boundary of a clock that is offset from the host's.
NextSlot(offset) ==
    LET next == WallclockAtAsn(CurrentAsn(offset) + 1) - offset
    IN  IF next > now THEN next ELSE now + SlotDuration

Reschedule(n, offset) == wakeup' = [wakeup EXCEPT ![n] = NextSlot(offset)]

Init ==
    /\ now = 0
    /\ asn_offset = [n \in Node |-> 0]
    /\ time_source = [n \in Node |-> NoSource]
    /\ eb_pending = [n \in Node |-> FALSE]
    /\ wakeup = [n \in Node |-> SlotDuration]
    /\ pending_tx = [n \in Node |-> [p \in Node |-> 0]]
    /\ data_channel = [n \in Node |-> NoChannel]
    /\ bcast_queue = [n \in Node |-> 0]
    /\ backoff = [n \in Node |-> FALSE]
    /\ tx_busy = [n \in Node |-> FALSE]
    /\ air = {}
    /\ on_air = [n \in Node |-> 0]
    /\ announced = [n \in Node |-> 0]
    /\ queued = [n \in Node |-> 0]
    /\ handled = [n \in Node |-> 0]

(***************************************************************************)
(* Slot wakeups.                                                           *)
(***************************************************************************)
\* The host's timer fires: handleSlotWakeup in n's slot slot_off, and the next.
Wakes(n, slot_off) ==
    /\ now = wakeup[n]
    /\ slot_off = SlotOffset(CurrentAsn(asn_offset[n]))
    /\ handled' = [handled EXCEPT ![n] = CurrentAsn(asn_offset[n])]
    /\ Reschedule(n, asn_offset[n])
    /\ UNCHANGED <<now, asn_offset, time_source, announced, queued>>

\* pumpBcastQueue: whether the backoff timer is scheduled afterwards.
Pump(queue, busy, timer) == timer \/ (~busy /\ queue > 0)

\* Slot 0: an owed beacon goes to the host's queue.
SlotZero(n) ==
    /\ Wakes(n, 0)
    /\ eb_pending' = [eb_pending EXCEPT ![n] = FALSE]
    /\ LET queue == bcast_queue[n] + IF eb_pending[n] THEN 1 ELSE 0
       IN  /\ bcast_queue' = [bcast_queue EXCEPT ![n] = queue]
           /\ backoff' = [backoff EXCEPT ![n] =
                 Pump(queue, tx_busy[n], @)]
    /\ UNCHANGED <<pending_tx, data_channel, tx_busy, air, on_air>>

\* The channel a node tunes its data radio to in slot asn.
TunedTo(n, asn) == PhysicalChannel(asn, Cell[n].ch_offset)

\* Mutant: after a transmission the radio stays where it was.
TunedAfterTxToPeer(n, p, asn) == TunedTo(p, asn)

\* deliverTxData tunes to the peer's channel, tuneToOwnRx back at once.
TunedAfterTx(n, p, asn) == TunedTo(n, asn)

\* The links that have something to send in slot slot_off.
Due(n, slot_off) ==
    {p \in Link[n] : pending_tx[n][p] > 0 /\ Cell[p].slot_offset = slot_off}

\* Mutant: a cell always takes FramesPerTxCell packets.
AfterFullCell(k) == k - FramesPerTxCell

\* What is left of k packets after a cell.
AfterCell(k) == IF k > FramesPerTxCell THEN k - FramesPerTxCell ELSE 0

\* maybeTxOnCell serves one link whose peer owns the slot.
TxOnCell(n, slot_off, p) ==
    /\ slot_off # 0
    /\ Wakes(n, slot_off)
    /\ p \in Due(n, slot_off)
    /\ pending_tx' = [pending_tx EXCEPT ![n][p] = AfterCell(@)]
    /\ data_channel' = [data_channel EXCEPT ![n] =
                           TunedAfterTx(n, p, CurrentAsn(asn_offset[n]))]
    /\ UNCHANGED <<eb_pending, hostVars>>

\* Nothing to send in n's own slot.
ListenOnCell(n) ==
    /\ Wakes(n, Cell[n].slot_offset)
    /\ Due(n, Cell[n].slot_offset) = {}
    /\ data_channel' = [data_channel EXCEPT ![n] = TunedTo(n, CurrentAsn(asn_offset[n]))]
    /\ UNCHANGED <<eb_pending, pending_tx, hostVars>>

IdleSlot(n, slot_off) ==
    /\ slot_off \notin {0, Cell[n].slot_offset}
    /\ Wakes(n, slot_off)
    /\ Due(n, slot_off) = {}
    /\ UNCHANGED <<eb_pending, pending_tx, data_channel, hostVars>>

(***************************************************************************)
(* The announce timer, the application and the broadcast radio.            *)
(***************************************************************************)
AnnounceWakeup(n) ==
    /\ announced[n] < MaxBeacons[n]
    /\ announced' = [announced EXCEPT ![n] = @ + 1]
    /\ eb_pending' = [eb_pending EXCEPT ![n] = TRUE]
    /\ UNCHANGED <<clockVars, dataVars, hostVars>>

QueuePacket(n, p) ==
    /\ queued[n] < MaxPackets[n]
    /\ p \in Link[n]
    /\ queued' = [queued EXCEPT ![n] = @ + 1]
    /\ pending_tx' = [pending_tx EXCEPT ![n][p] = @ + 1]
    /\ UNCHANGED <<clockVars, eb_pending, data_channel, handled, hostVars, announced>>

\* broadcastChannelBusy.
ChannelBusy(n) == on_air[n] > 0 \/ \E rx \in air : rx.to = n

\* bcastBackoffTimer fires: on a busy channel it is set again, otherwise the
\* head of the queue is stamped with the host's slot number and leaves.
BackoffEnds(n) ==
    /\ backoff[n]
    /\ ~ChannelBusy(n)
    /\ IF bcast_queue[n] > 0
       THEN /\ bcast_queue' = [bcast_queue EXCEPT ![n] = @ - 1]
            /\ backoff' = [backoff EXCEPT ![n] = bcast_queue[n] > 1]
            /\ tx_busy' = [tx_busy EXCEPT ![n] = TRUE]
            /\ on_air' = [on_air EXCEPT ![n] = now + AirTime]
            /\ \E heard \in SUBSET InRange[n] :
                  air' = air \cup {[from |-> n, to |-> m, asn |-> now \div SlotDuration,
                                    due |-> now + AirTime] : m \in heard}
       ELSE /\ backoff' = [backoff EXCEPT ![n] = FALSE]
            /\ UNCHANGED <<bcast_queue, tx_busy, on_air, air>>
    /\ UNCHANGED <<clockVars, eb_pending, dataVars, announced>>

\* Mutant: the end of a transmission does not pump the queue.
NoPump(queue, timer) == timer

PumpAfterTx(queue, timer) == Pump(queue, FALSE, timer)

\* receiveSignal: n's transmission is over.
TransmissionEnds(n) ==
    /\ on_air[n] > 0 /\ on_air[n] = now
    /\ on_air' = [on_air EXCEPT ![n] = 0]
    /\ tx_busy' = [tx_busy EXCEPT ![n] = FALSE]
    /\ backoff' = [backoff EXCEPT ![n] = PumpAfterTx(bcast_queue[n], @)]
    /\ UNCHANGED <<clockVars, eb_pending, dataVars, bcast_queue, air, announced>>

\* Mutant: a clock that moved keeps its timer.
KeepTimer(n, offset) == UNCHANGED wakeup

\* The end of syncTimeFromEb: a clock that moved needs another timer.
RescheduleIfMoved(n, offset) ==
    IF offset = asn_offset[n] THEN UNCHANGED wakeup ELSE Reschedule(n, offset)

\* announce.handleRx and syncTimeFromEb: the first source heard moves the clock.
ReceiveEb(rx) ==
    LET n == rx.to
        offset == WallclockAtAsn(rx.asn) - now
    IN  /\ rx.due = now
        /\ air' = air \ {rx}
        /\ IF time_source[n] \in {NoSource, rx.from}
           THEN /\ time_source' = [time_source EXCEPT ![n] = rx.from]
                /\ asn_offset' = [asn_offset EXCEPT ![n] = offset]
                /\ RescheduleIfMoved(n, offset)
           ELSE UNCHANGED <<time_source, asn_offset, wakeup>>
        /\ UNCHANGED <<now, eb_pending, dataVars, bcast_queue, backoff, tx_busy,
                       on_air, announced>>

\* Time passes when nothing is due.
Tick ==
    /\ now < MaxTime
    /\ \A n \in Node : wakeup[n] > now /\ (on_air[n] = 0 \/ on_air[n] > now)
    /\ \A rx \in air : rx.due > now
    /\ now' = now + 1
    /\ UNCHANGED <<asn_offset, time_source, wakeup, eb_pending, dataVars, hostVars,
                   announced>>

Next ==
    \/ \E n \in Node : SlotZero(n)
    \/ \E n, p \in Node, s \in 0 .. SlotframeLen - 1 : TxOnCell(n, s, p)
    \/ \E n \in Node : ListenOnCell(n)
    \/ \E n \in Node, s \in 0 .. SlotframeLen - 1 : IdleSlot(n, s)
    \/ \E n \in Node : AnnounceWakeup(n)
    \/ \E n, p \in Node : QueuePacket(n, p)
    \/ \E n \in Node : BackoffEnds(n)
    \/ \E n \in Node : TransmissionEnds(n)
    \/ \E rx \in air : ReceiveEb(rx)
    \/ Tick

Spec == Init /\ [][Next]_vars

(***************************************************************************)
(* Properties.                                                             *)
(***************************************************************************)
\* Types, and what the host's timers and radios allow.
TypeOK ==
    /\ now \in Nat
    /\ asn_offset \in [Node -> Int]
    /\ time_source \in [Node -> Node \cup {NoSource}]
    /\ eb_pending \in [Node -> BOOLEAN]
    /\ wakeup \in [Node -> Nat]
    /\ pending_tx \in [Node -> [Node -> Nat]]
    /\ data_channel \in [Node -> Channel \cup {NoChannel}]
    /\ bcast_queue \in [Node -> Nat]
    /\ backoff \in [Node -> BOOLEAN]
    /\ tx_busy \in [Node -> BOOLEAN]
    /\ air \in SUBSET [from : Node, to : Node, asn : Nat, due : Nat]
    /\ on_air \in [Node -> Nat]
    /\ announced \in [Node -> Nat]
    /\ queued \in [Node -> Nat]
    /\ handled \in [Node -> Nat]

\* A node's clock is never ahead of the host's, and behind by less than a slot
\* and a beacon's time on the air; so it never was negative (the assertion in
\* currentAsn), and two clocks of the mesh are never further apart than that.
ClockSkew ==
    \A n \in Node :
        /\ now + asn_offset[n] >= 0
        /\ asn_offset[n] <= 0
        /\ asn_offset[n] > - (SlotDuration + AirTime)

\* A node is always about to be woken, at the next boundary of its own clock,
\* also right after a beacon moved that clock.
WakeupOnBoundary ==
    \A n \in Node :
        /\ now <= wakeup[n] /\ wakeup[n] <= now + SlotDuration
        /\ (wakeup[n] + asn_offset[n]) % SlotDuration = 0

\* How many slots a clock that stands less than a slot and a beacon's time on the
\* air behind the host's can be behind.
MaxJump == (SlotDuration + AirTime - 1 + SlotDuration - 1) \div SlotDuration

\* Beacons make a node handle slots again or pass over them; a node that did not
\* hear one since handles every slot once, and none throws it further back behind
\* a slot it handled than its clock can be wrong.  (Ahead there is no such bound:
\* beacons that follow each other in less than a slot move the slot timer before
\* it ever fires.)
ResyncBounded ==
    \A n \in Node :
        LET asn == CurrentAsn(asn_offset[n])
        IN  /\ handled[n] - MaxJump <= asn
            /\ time_source[n] = NoSource =>
                  asn = IF now = wakeup[n] THEN handled[n] + 1 ELSE handled[n]

\* The channel of n's own cell: slot and channel offsets wrap at the same number,
\* so a cell never changes its channel.
OwnChannel(n) == HopSequence[(Cell[n].slot_offset + Cell[n].ch_offset) % SlotframeLen]

\* From the moment a node handles its own slot until the slot ends, it listens on
\* the channel every sender computes for its cell, whatever absolute slot number
\* the sender believes in, also when it transmits itself in that slot.
ListensInOwnSlot ==
    \A n \in Node :
        LET asn == CurrentAsn(asn_offset[n])
        IN  handled[n] = asn /\ SlotOffset(asn) = Cell[n].slot_offset
                => data_channel[n] = OwnChannel(n)

\* A beacon in the host's queue is never stuck: the backoff timer or the end of
\* a transmission will get to it.
BroadcastsMove ==
    \A n \in Node : bcast_queue[n] > 0 => backoff[n] \/ (tx_busy[n] /\ on_air[n] > 0)

\* A node that follows a beacon source has the same slot number as the network.
Aligned ==
    \A n \in Node :
        time_source[n] # NoSource => CurrentAsn(asn_offset[n]) = now \div SlotDuration
=============================================================================
