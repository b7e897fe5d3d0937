------------------------------ MODULE SloraHost ------------------------------
(***************************************************************************)
(* One slora node inside its host: the list of actions the node queues     *)
(* (slora.zig) and the simulation module that runs them (SloraApp.cc): its *)
(* timers, its two transmit queues and radios, and the set it counts       *)
(* deliveries with.  A call into the node and the drain that follows it    *)
(* are one event of the simulator; the steps of the drain are steps here,  *)
(* and no other event comes between them.                                  *)
(*                                                                         *)
(* Abstractions.  What a frame or a payload makes the node queue is any    *)
(* outcome its handlers have (SloraControl and SloraMesh say which, and    *)
(* when).  Events come in any order, except that a frame on its way to a   *)
(* radio is there before the timer set after it fires; slots follow one    *)
(* another unless a beacon moves the clock.  A frame may be on the air for *)
(* any time.  Frames of the broadcast queue are only counted, and a data   *)
(* frame is the peer it is for.                                            *)
(***************************************************************************)
EXTENDS Integers, Sequences, FiniteSets

CONSTANTS
    Peer,              \* the nodes this one has a link with
    OwnCell,           \* autonomousRxCell of the node
    PeerCell,          \* PeerCell[p]: autonomousRxCell of p
    HopSequence,       \* hop_sequence
    SlotframeLen,      \* slotframe_len, and num_channels: both are 16
    Message,           \* the payloads that reach the node
    Stamped,           \* those of 8 bytes or more, which carry their time of sending
    DedupKey,          \* DedupKey[m]: the key made of m's sender and stamp
    FrameLen,          \* the most bytes of tx_buf a frame or a payload takes
    TxBufCap,          \* capacity of tx_buf
    ActionsCap,        \* capacity of actions
    ConsumedCap,       \* capacity of consumed_frames
    FramesPerTxCell,   \* frames_per_tx_cell
    BroadcastsDrained, \* broadcasts_drained_per_slot
    None,              \* no slot handled, no channel tuned, no frame
    MaxEvents,         \* bound: receptions on either radio and traffic timers
    MaxBroadcasts,     \* bound: broadcasts queued before the next announcement
    MaxWork            \* bound: broadcasts, and packets, that one call queues

Slot == 0 .. SlotframeLen - 1
Cell == [slot_offset : Slot \ {0}, ch_offset : Slot]
Token == {"announce", "slot"}

ASSUME CellAssumption ==
    /\ SlotframeLen \in Nat \ {0, 1}
    /\ OwnCell \in Cell
    /\ PeerCell \in [Peer -> Cell]
    /\ HopSequence \in [Slot -> Slot]
    /\ None \notin Slot \cup Peer

\* Finitely many payloads reach the node; no two stamped ones have one key.
ASSUME KeyAssumption ==
    /\ Stamped \subseteq Message /\ IsFiniteSet(Message)
    /\ \A m, k \in Stamped : DedupKey[m] = DedupKey[k] => m = k

\* A slot queues the broadcasts it drains and a cell's frames, a tuning and the
\* next slot's timer; nothing else queues as much.
ASSUME CapacityAssumption ==
    /\ {FramesPerTxCell, BroadcastsDrained, FrameLen} \subseteq Nat \ {0}
    /\ {TxBufCap, ActionsCap, ConsumedCap} \subseteq Nat
    /\ FramesPerTxCell * FrameLen <= TxBufCap
    /\ BroadcastsDrained + FramesPerTxCell + 2 <= ActionsCap
    /\ BroadcastsDrained <= ConsumedCap

ASSUME BoundAssumption ==
    {MaxEvents, MaxBroadcasts, MaxWork} \subseteq Nat

VARIABLES
    node,         \* the node: broadcast_queue (its length), pending_tx (packets on
                  \* the link to every peer), eb_pending, and asn, the slot of its
                  \* clock modulo the slotframe
    list,         \* actions, the number of consumed frames, the bytes used in tx_buf
    stage,        \* how far initialize has come
    draining,     \* drainActions is running
    wakeups,      \* the tokens in the host's map of timers
    timers,       \* timers[tok]: wakeups the simulator holds for tok
    trafficTimer, \* trafficTimer is scheduled
    bcast,        \* bcastTxQueue (its length), bcastBackoffTimer, bcastTxBusy, the
                  \* frames on their way to the radio, what the radio does
    data,         \* dataTxQueue, dataTxBusy, the frames on their way to the radio,
                  \* the one it transmits, and the channel it is tuned to
    tally,        \* deliveredDedup, deliveredCount, duplicateCount; history:
                  \* handed[m], how often the node handed m over
    events,       \* receptions and traffic timers so far
    handled       \* history: the slot of the latest slot wakeup

vars == <<node, list, stage, draining, wakeups, timers, trafficTimer, bcast, data, tally,
          events, handled>>

\* The actions of slora.h.  The bytes of a data frame or a payload end at `end`
\* in tx_buf.
Action ==
    [tag : {"tx_broadcast"}]
        \cup [tag : {"tx_data"}, to : Peer, end : Nat]
        \cup [tag : {"tune_data"}, channel : Slot]
        \cup [tag : {"schedule"}, token : Token]
        \cup [tag : {"deliver"}, message : Message, end : Nat]

Schedule(tok) == [tag |-> "schedule", token |-> tok]

Init ==
    /\ node = [broadcast_queue |-> 0, pending_tx |-> [p \in Peer |-> 0],
               eb_pending |-> FALSE, asn |-> 0]
    /\ list = [actions |-> <<>>, consumed |-> 0, tx_buf |-> 0]
    /\ stage = "local" /\ draining = FALSE
    /\ wakeups = {} /\ timers = [tok \in Token |-> 0] /\ trafficTimer = FALSE
    /\ bcast = [queue |-> 0, backoff |-> FALSE, busy |-> FALSE, out |-> 0, radio |-> {}]
    /\ data = [queue |-> <<>>, busy |-> FALSE, out |-> <<>>, radio |-> None, freq |-> None]
    /\ tally = [dedup |-> {}, delivered |-> 0, duplicate |-> 0,
                handed |-> [m \in Message |-> 0]]
    /\ events = 0
    /\ handled = None

Channel(cell, slot) == HopSequence[(slot + cell.ch_offset) % SlotframeLen]

(***************************************************************************)
(* initialize.                                                             *)
(***************************************************************************)
\* The first two stages make the node and the timers, tune both radios and listen
\* to their state; the last one starts the node.
Start ==
    /\ stage = "local"
    /\ stage' = "started" /\ draining' = TRUE
    /\ list' = [list EXCEPT !.actions = <<Schedule("announce"), Schedule("slot")>>]
    /\ UNCHANGED <<node, wakeups, timers, trafficTimer, bcast, data, tally, events, handled>>

\* The target peers, which queue no action, the drain after them and the traffic
\* timer, if there is traffic.
AddTargetPeers ==
    /\ stage = "started" /\ ~draining
    /\ stage' = "running" /\ draining' = TRUE
    /\ trafficTimer' \in BOOLEAN
    /\ UNCHANGED <<node, list, wakeups, timers, bcast, data, tally, events, handled>>

(***************************************************************************)
(* Calls into the node.                                                    *)
(***************************************************************************)
\* An event of the host that calls the node and drains its actions.
Calls ==
    /\ stage = "running" /\ ~draining
    /\ draining' = TRUE
    /\ UNCHANGED <<stage, trafficTimer, data, tally>>

\* Broadcasts and packets for p that the node queues.
Queued(broadcasts, p, packets) ==
    [node EXCEPT !.broadcast_queue = @ + broadcasts, !.pending_tx[p] = @ + packets]

\* What link.zig, route.zig, relay.zig and echo.zig do with a frame or a payload:
\* they queue some broadcasts, and some packets on a link.
Work == \E b, k \in 0 .. MaxWork : \E p \in Peer : node' = Queued(b, p, k)

\* handleMessage takes the wakeup out of the map before it calls the node.
WakeupFires(tok) ==
    /\ Calls
    /\ timers[tok] > 0
    /\ timers' = [timers EXCEPT ![tok] = @ - 1]
    /\ wakeups' = wakeups \ {tok}
    /\ UNCHANGED <<bcast, events>>

\* scheduleNextAnnounce.
AnnounceWakeup ==
    /\ WakeupFires("announce")
    /\ node.broadcast_queue + bcast.queue < MaxBroadcasts
    /\ node' = [node EXCEPT !.eb_pending = TRUE]
    /\ list' = [list EXCEPT !.actions = Append(@, Schedule("announce"))]
    /\ UNCHANGED handled

\* Mutant: a slot takes its full number whatever is queued.
AlwaysFull(k, bound) == bound

AtMost(k, bound) == IF k < bound THEN k ELSE bound

\* drainBroadcasts with k frames in the queue.
Drained(k) == [i \in 1 .. AtMost(k, BroadcastsDrained) |-> [tag |-> "tx_broadcast"]]

\* The frames of maybeTxOnCell, one after the other in tx_buf.
Frames(p) ==
    [i \in 1 .. AtMost(node.pending_tx[p], FramesPerTxCell) |->
        [tag |-> "tx_data", to |-> p, end |-> list.tx_buf + i * FrameLen]]

TuneToOwnRx(slot) == <<[tag |-> "tune_data", channel |-> Channel(OwnCell, slot)]>>

\* Mutant: slot zero sets no timer for the next slot.
TimerUnlessZero(slot) == IF slot = 0 THEN <<>> ELSE <<Schedule("slot")>>

\* scheduleNextSlot, deferred: in every slot, after everything else.
NextSlotTimer(slot) == <<Schedule("slot")>>

\* The links that have something to send in the slot.
Due(slot) == {p \in Peer : node.pending_tx[p] > 0 /\ PeerCell[p].slot_offset = slot}

NextSlot == (node.asn + 1) % SlotframeLen

\* handleSlotWakeup in the next slot, when `broadcasts` frames are in the queue
\* and the slot's cell adds `cell`.  The timer's delay is longer than the way of a
\* frame to its radio.
SlotWakeup(broadcasts, cell) ==
    /\ WakeupFires("slot")
    /\ bcast.out = 0 /\ data.out = <<>>
    /\ handled' = NextSlot
    /\ list' = [list EXCEPT
                   !.actions = @ \o Drained(broadcasts) \o cell \o NextSlotTimer(NextSlot),
                   !.tx_buf = @ + FrameLen * Cardinality({i \in DOMAIN cell :
                                                            cell[i].tag = "tx_data"})]

\* The node's clock and its broadcast queue after that.
AfterSlot(broadcasts) ==
    [node EXCEPT !.asn = NextSlot,
                 !.broadcast_queue = broadcasts - AtMost(broadcasts, BroadcastsDrained)]

SlotZero ==
    LET broadcasts == node.broadcast_queue + IF node.eb_pending THEN 1 ELSE 0
    IN  /\ NextSlot = 0
        /\ SlotWakeup(broadcasts, <<>>)
        /\ node' = [AfterSlot(broadcasts) EXCEPT !.eb_pending = FALSE]

SlotWithTx(p) ==
    /\ NextSlot # 0 /\ p \in Due(NextSlot)
    /\ SlotWakeup(node.broadcast_queue, Frames(p) \o TuneToOwnRx(NextSlot))
    /\ node' = [AfterSlot(node.broadcast_queue) EXCEPT
                   !.pending_tx[p] = @ - AtMost(@, FramesPerTxCell)]

SlotWithoutTx ==
    /\ NextSlot # 0 /\ Due(NextSlot) = {}
    /\ SlotWakeup(node.broadcast_queue,
                  IF NextSlot = OwnCell.slot_offset THEN TuneToOwnRx(NextSlot) ELSE <<>>)
    /\ node' = AfterSlot(node.broadcast_queue)

\* A traffic timer or a frame on the data radio.
Stimulus ==
    /\ Calls
    /\ events < MaxEvents
    /\ events' = events + 1
    /\ UNCHANGED <<wakeups, timers, bcast, handled>>

\* The traffic timer: sendPayload or sendEcho, and the timer again.
TrafficTimer ==
    /\ trafficTimer
    /\ Stimulus
    /\ Work
    /\ UNCHANGED list

\* computeIsReceptionPossible: the radio hears frames on its own channel only.
ReceptionPossible(channel) == channel = data.freq

\* dataIn: a frame for another node, to forward, or an echo request.
DataRx ==
    /\ \E channel \in Slot : ReceptionPossible(channel)
    /\ Stimulus
    /\ Work
    /\ UNCHANGED list

\* dataIn: payload m for the host (deliverLocal, echo.handleDelivered).
DeliverRx(m) ==
    /\ \E channel \in Slot : ReceptionPossible(channel)
    /\ Stimulus
    /\ LET end == list.tx_buf + FrameLen
       IN  list' = [list EXCEPT
                       !.actions = Append(@, [tag |-> "deliver", message |-> m, end |-> end]),
                       !.tx_buf = end]
    /\ UNCHANGED node

\* broadcastIn: a frame the broadcast radio received.
BroadcastIn ==
    /\ Calls
    /\ "receive" \in bcast.radio
    /\ bcast' = [bcast EXCEPT !.radio = @ \ {"receive"}]
    /\ UNCHANGED <<wakeups, timers, events>>

\* One that is no beacon, or a beacon that does not move the clock.
BroadcastRx ==
    /\ BroadcastIn
    /\ Work
    /\ UNCHANGED <<list, handled>>

\* A beacon that moves the clock (syncTimeFromEb): another slot, another timer,
\* and a link request if its sender is a target peer.
BeaconRx(slot) ==
    /\ BroadcastIn
    /\ handled' = None
    /\ list' = [list EXCEPT !.actions = Append(@, Schedule("slot"))]
    /\ \E b \in {0, 1} : node' = [node EXCEPT !.asn = slot, !.broadcast_queue = @ + b]

(***************************************************************************)
(* Transmit queues and timers.                                             *)
(***************************************************************************)
\* Mutant: no frame starts the backoff.
NoPump(b) == b

\* pumpBcastQueue and scheduleBcastBackoff.
PumpBcast(b) == [b EXCEPT !.backoff = @ \/ (~b.busy /\ b.queue > 0)]

\* Mutant: a frame goes out whatever the radio does.
DataFreeAlways(d) == d.queue # <<>>

DataFree(d) == ~d.busy /\ d.queue # <<>>

\* pumpDataQueue sends a frame when none is under way.
PumpData(d) ==
    IF ~DataFree(d) THEN d
    ELSE [d EXCEPT !.busy = TRUE, !.queue = Tail(@),
                   !.out = Append(@, [to |-> Head(d.queue), slot |-> node.asn])]

\* Mutant: the timer that is replaced stays scheduled.
NotCancelled(tok) == timers[tok]

\* cancelWakeup: what the simulator still holds for tok.
Cancelled(tok) == IF tok \in wakeups THEN timers[tok] - 1 ELSE timers[tok]

(***************************************************************************)
(* drainActions, one action at a time.                                     *)
(***************************************************************************)
\* nextAction yields an action of the tag, of which `consumed` have to be freed.
Takes(tag, consumed) ==
    /\ draining /\ list.actions # <<>>
    /\ Head(list.actions).tag = tag
    /\ list' = [list EXCEPT !.actions = Tail(@), !.consumed = @ + consumed]
    /\ UNCHANGED <<node, stage, draining, trafficTimer, events, handled>>

\* deliverTxBroadcast copies the frame; the node frees it later.
TakeTxBroadcast ==
    /\ Takes("tx_broadcast", 1)
    /\ bcast' = PumpBcast([bcast EXCEPT !.queue = @ + 1])
    /\ UNCHANGED <<wakeups, timers, data, tally>>

\* deliverTxData tunes the radio and copies the frame to the queue.
TakeTxData ==
    LET to == Head(list.actions).to
    IN  /\ Takes("tx_data", 0)
        /\ data' = PumpData([data EXCEPT !.freq = Channel(PeerCell[to], node.asn),
                                         !.queue = Append(@, to)])
        /\ UNCHANGED <<wakeups, timers, bcast, tally>>

TakeTuneData ==
    /\ Takes("tune_data", 0)
    /\ data' = [data EXCEPT !.freq = Head(list.actions).channel]
    /\ UNCHANGED <<wakeups, timers, bcast, tally>>

\* scheduleWakeup: one timer per token.
TakeSchedule ==
    LET tok == Head(list.actions).token
    IN  /\ Takes("schedule", 0)
        /\ timers' = [timers EXCEPT ![tok] = Cancelled(tok) + 1]
        /\ wakeups' = wakeups \cup {tok}
        /\ UNCHANGED <<bcast, data, tally>>

\* Mutant: no payload is remembered.
NeverDuplicate(m) == FALSE

Duplicate(m) == m \in Stamped /\ DedupKey[m] \in tally.dedup

\* A payload too short for a stamp is always counted.
TakeDeliver ==
    LET m == Head(list.actions).message
    IN  /\ Takes("deliver", 0)
        /\ tally' = [tally EXCEPT
                        !.handed[m] = @ + 1,
                        !.dedup = IF m \in Stamped THEN @ \cup {DedupKey[m]} ELSE @,
                        !.delivered = IF Duplicate(m) THEN @ ELSE @ + 1,
                        !.duplicate = IF Duplicate(m) THEN @ + 1 ELSE @]
        /\ UNCHANGED <<wakeups, timers, bcast, data>>

\* Mutant: the broadcasts that were sent are not freed.
NotFreed == [list EXCEPT !.tx_buf = 0]

Freed == [list EXCEPT !.consumed = 0, !.tx_buf = 0]

\* nextAction finds no action: frames and buffer are free again.
DrainEnds ==
    /\ draining /\ list.actions = <<>>
    /\ draining' = FALSE
    /\ list' = Freed
    /\ UNCHANGED <<node, stage, wakeups, timers, trafficTimer, bcast, data, tally, events,
                   handled>>

(***************************************************************************)
(* The radios.                                                             *)
(***************************************************************************)
\* An event of a radio that does not call the node.
Apart ==
    /\ stage = "running" /\ ~draining
    /\ UNCHANGED <<node, list, stage, draining, wakeups, timers, trafficTimer, tally, handled>>

\* bcastBackoffTimer fires on an idle channel (broadcastChannelBusy), after the
\* frame that was sent before it was set has arrived; on a busy one it is set again.
BackoffEnds ==
    /\ Apart
    /\ bcast.backoff /\ bcast.radio = {} /\ bcast.out = 0
    /\ bcast' = [bcast EXCEPT !.queue = @ - AtMost(@, 1), !.out = AtMost(bcast.queue, 1),
                              !.busy = @ \/ bcast.queue > 0, !.backoff = bcast.queue > 1]
    /\ UNCHANGED <<data, events>>

\* handleUpperPacket of the broadcast radio, and receiveSignal.
BroadcastTxStarts ==
    /\ Apart
    /\ bcast.out > 0
    /\ bcast' = PumpBcast([bcast EXCEPT !.out = @ - 1, !.radio = @ \cup {"transmit"},
                                        !.busy = TRUE])
    /\ UNCHANGED <<data, events>>

BroadcastTxEnds ==
    /\ Apart
    /\ "transmit" \in bcast.radio
    /\ bcast' = PumpBcast([bcast EXCEPT !.radio = @ \ {"transmit"}, !.busy = FALSE])
    /\ UNCHANGED <<data, events>>

\* sendToRadio: the medium brings another node's frame to the broadcast radio ...
ReceptionStarts ==
    /\ Apart
    /\ "receive" \notin bcast.radio
    /\ events < MaxEvents
    /\ events' = events + 1
    /\ bcast' = [bcast EXCEPT !.radio = @ \cup {"receive"}]
    /\ UNCHANGED data

\* ... where it is lost when it collides (computeIsReceptionAttempted).
ReceptionFails ==
    /\ Apart
    /\ "receive" \in bcast.radio
    /\ bcast' = [bcast EXCEPT !.radio = @ \ {"receive"}]
    /\ UNCHANGED <<data, events>>

\* handleUpperPacket of the data radio, and receiveSignal.
DataTxStarts ==
    /\ Apart
    /\ data.out # <<>>
    /\ data' = [data EXCEPT !.radio = Head(data.out), !.out = Tail(@), !.busy = TRUE]
    /\ UNCHANGED <<bcast, events>>

\* Mutants: the end of a transmission does not pump the queue; the radio is tuned
\* for the frame that leaves then.
NoPumpAfterTx(d) == d
TunedForNext(d) ==
    IF d.queue = <<>> THEN d
    ELSE PumpData([d EXCEPT !.freq = Channel(PeerCell[Head(d.queue)],
                                             PeerCell[Head(d.queue)].slot_offset)])

\* A frame that waited leaves on the channel in its tag (tagForData); the radio
\* stays tuned as it is.
PumpAfterTx(d) == PumpData(d)

DataTxEnds ==
    /\ Apart
    /\ data.radio # None
    /\ data' = PumpAfterTx([data EXCEPT !.radio = None, !.busy = FALSE])
    /\ UNCHANGED <<bcast, events>>

SlotEvent == SlotZero \/ (\E p \in Peer : SlotWithTx(p)) \/ SlotWithoutTx

BroadcastEvent ==
    \/ BackoffEnds
    \/ BroadcastTxStarts
    \/ BroadcastTxEnds
    \/ ReceptionFails
    \/ BroadcastRx
    \/ \E slot \in Slot : BeaconRx(slot)

DataEvent == DataTxStarts \/ DataTxEnds

Drain ==
    \/ TakeTxBroadcast
    \/ TakeTxData
    \/ TakeTuneData
    \/ TakeSchedule
    \/ TakeDeliver
    \/ DrainEnds

Next ==
    \/ Start
    \/ AddTargetPeers
    \/ AnnounceWakeup
    \/ SlotEvent
    \/ TrafficTimer
    \/ DataRx
    \/ \E m \in Message : DeliverRx(m)
    \/ Drain
    \/ ReceptionStarts
    \/ BroadcastEvent
    \/ DataEvent

Spec == Init /\ [][Next]_vars

\* The simulator runs every event that stays scheduled after finitely many others:
\* initialisation, a drain, a slot's timer, and what goes on at each radio.  The
\* last three are strong because a drain comes between any two events.
Fairness ==
    /\ WF_vars(Start \/ AddTargetPeers)
    /\ WF_vars(Drain)
    /\ SF_vars(SlotEvent)
    /\ SF_vars(BroadcastEvent)
    /\ SF_vars(DataEvent)

FairSpec == Spec /\ Fairness

(***************************************************************************)
(* Properties.                                                             *)
(***************************************************************************)
\* Types.
TypeOK ==
    /\ node \in [broadcast_queue : Nat, pending_tx : [Peer -> Nat], eb_pending : BOOLEAN,
                 asn : Slot]
    /\ list \in [actions : Seq(Action), consumed : Nat, tx_buf : Nat]
    /\ stage \in {"local", "started", "running"}
    /\ {draining, trafficTimer} \subseteq BOOLEAN
    /\ wakeups \subseteq Token /\ timers \in [Token -> Nat]
    /\ bcast \in [queue : Nat, backoff : BOOLEAN, busy : BOOLEAN, out : Nat,
                  radio : SUBSET {"transmit", "receive"}]
    /\ data \in [queue : Seq(Peer), busy : BOOLEAN, out : Seq([to : Peer, slot : Slot]),
                 radio : [to : Peer, slot : Slot] \cup {None}, freq : Slot \cup {None}]
    /\ tally \in [dedup : SUBSET {DedupKey[m] : m \in Stamped}, delivered : Nat,
                  duplicate : Nat, handed : [Message -> Nat]]
    /\ events \in Nat /\ handled \in Slot \cup {None}

\* The node never queues more than it made room for (appendAssumeCapacity), and
\* what the host has not copied yet is still in the buffer: the host drains the
\* list after every call, and only then is the room freed.
WithinCapacity ==
    /\ Len(list.actions) <= ActionsCap
    /\ list.consumed <= ConsumedCap
    /\ list.tx_buf <= TxBufCap
    /\ \A i \in DOMAIN list.actions :
          list.actions[i].tag \in {"tx_data", "deliver"} => list.actions[i].end <= list.tx_buf

\* The simulator holds one wakeup for every token in the map and no other: a
\* beacon that moves the clock replaces the slot's timer, it does not add one.
OneTimerPerToken ==
    \A tok \in Token : timers[tok] = IF tok \in wakeups THEN 1 ELSE 0

\* A running host always has the node's two timers.
TimersAlive == stage = "running" /\ ~draining => wakeups = Token

\* No frame reaches a radio that is transmitting (handleUpperPacket would end the
\* simulation), and none is on its way when the next one leaves.
NeverWhileTransmitting ==
    /\ bcast.out > 0 => bcast.out = 1 /\ "transmit" \notin bcast.radio
    /\ data.out # <<>> => Len(data.out) = 1 /\ data.radio = None

\* From the wakeup of the node's own slot on its data radio hears what is sent to
\* its cell, whatever the host still has to send for other slots.
OwnSlotHeard ==
    stage = "running" /\ handled = OwnCell.slot_offset /\ ~draining
        => ReceptionPossible(Channel(OwnCell, handled))

\* Every stamped payload counts once, every other one whenever it comes.
CountedOnce ==
    LET total[S \in SUBSET Message] ==
            IF S = {} THEN 0
            ELSE LET m == CHOOSE m \in S : TRUE IN tally.handed[m] + total[S \ {m}]
    IN  /\ tally.delivered = Cardinality({m \in Stamped : tally.handed[m] > 0})
                                + total[Message \ Stamped]
        /\ tally.delivered + tally.duplicate = total[Message]

\* Slots go on for ever: the chain in which every wakeup of the slot timer sets
\* the next one never breaks.
SlotsContinue == []<><<SlotEvent>>_vars

\* A host that has a broadcast to send sends one, again and again, however often
\* the channel is busy meanwhile.
BroadcastsLeave == []<>(bcast.queue = 0 \/ bcast.out > 0)

\* The same for data frames: the end of one transmission starts the next.
DataLeaves == []<>(data.queue = <<>> \/ data.out # <<>>)

\* tsch.zig says that the node transmits on a link whose peer owns the slot: a
\* frame leaves for the radio in a slot of the peer it is for.
SentInPeerSlot ==
    \A i \in DOMAIN data.out : data.out[i].slot = PeerCell[data.out[i].to].slot_offset
=============================================================================
