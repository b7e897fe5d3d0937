-------------------------- MODULE SloraHostProofs ---------------------------
(***************************************************************************)
(* Proofs about SloraHost, for any slotframe, any peers, any number of     *)
(* events and any capacities that CapacityAssumption allows.               *)
(*                                                                         *)
(* All of them rest on one discipline: a call into the node starts with an *)
(* empty list of actions, and every event of the host drains the list      *)
(* before the next one.                                                    *)
(***************************************************************************)
EXTENDS SloraHost, SequenceTheorems, FiniteSetTheorems, WellFoundedInduction, TLAPS

(***************************************************************************)
(* Operators.                                                              *)
(***************************************************************************)
\* The hop sequence has a channel for every slot and every channel offset.
LEMMA ChannelType ==
    ASSUME NEW cell \in Cell, NEW slot \in Slot
    PROVE  Channel(cell, slot) \in Slot
<1>1. (slot + cell.ch_offset) % SlotframeLen \in Slot
    <2>1. slot + cell.ch_offset \in Nat
        BY DEF Cell, Slot
    <2>2. SlotframeLen \in Nat /\ SlotframeLen > 0
        BY CellAssumption
    <2>3. QED
        BY <2>1, <2>2 DEF Slot
<1>2. QED
    BY <1>1, CellAssumption DEF Channel

LEMMA AtMostType ==
    ASSUME NEW k \in Nat, NEW bound \in Nat
    PROVE  /\ AtMost(k, bound) \in Nat
           /\ AtMost(k, bound) <= k /\ AtMost(k, bound) <= bound
    BY DEF AtMost

LEMMA NextSlotType ==
    ASSUME node.asn \in Slot
    PROVE  NextSlot \in Slot
    BY CellAssumption DEF NextSlot, Slot

\* The token of a timer is one of the two (nextAction).
LEMMA ActionFields ==
    ASSUME NEW a \in Action
    PROVE  /\ a.tag = "tx_data" => a.to \in Peer /\ a.end \in Nat
           /\ a.tag = "tune_data" => a.channel \in Slot
           /\ a.tag = "schedule" => a.token \in Token
           /\ a.tag = "deliver" => a.message \in Message /\ a.end \in Nat
    BY DEF Action

LEMMA ActionConstructors ==
    /\ [tag |-> "tx_broadcast"] \in Action
    /\ \A p \in Peer, end \in Nat : [tag |-> "tx_data", to |-> p, end |-> end] \in Action
    /\ \A c \in Slot : [tag |-> "tune_data", channel |-> c] \in Action
    /\ \A tok \in Token : Schedule(tok) \in Action
    /\ \A m \in Message, end \in Nat : [tag |-> "deliver", message |-> m, end |-> end] \in Action
    BY DEF Action, Schedule

\* The broadcasts a slot drains (drainBroadcasts).
LEMMA DrainedType ==
    ASSUME NEW k \in Nat
    PROVE  /\ Drained(k) \in Seq(Action)
           /\ Len(Drained(k)) = AtMost(k, BroadcastsDrained)
           /\ \A i \in DOMAIN Drained(k) : Drained(k)[i] = [tag |-> "tx_broadcast"]
<1>1. AtMost(k, BroadcastsDrained) \in Nat
    BY AtMostType, CapacityAssumption
<1>2. \A i \in 1 .. AtMost(k, BroadcastsDrained) : [tag |-> "tx_broadcast"] \in Action
    BY ActionConstructors
<1>3. QED
    BY <1>1, <1>2 DEF Drained

\* What a slot's cell can queue: at most FramesPerTxCell data frames, each with
\* its place in the buffer, and one tuning, the last.
CellFits(cell) ==
    \E k \in 0 .. FramesPerTxCell :
        /\ cell \in Seq(Action)
        /\ Len(cell) \in {k, k + 1}
        /\ \A i \in DOMAIN cell :
              /\ cell[i].tag = IF i <= k THEN "tx_data" ELSE "tune_data"
              /\ i <= k => cell[i].end = list.tx_buf + i * FrameLen

LEMMA TuneFits ==
    ASSUME NEW slot \in Slot
    PROVE  CellFits(TuneToOwnRx(slot)) /\ CellFits(<<>>)
<1>1. [tag |-> "tune_data", channel |-> Channel(OwnCell, slot)] \in Action
    BY ChannelType, CellAssumption, ActionConstructors
<1>2. TuneToOwnRx(slot) \in Seq(Action) /\ Len(TuneToOwnRx(slot)) = 1
      /\ DOMAIN TuneToOwnRx(slot) = {1} /\ TuneToOwnRx(slot)[1].tag = "tune_data"
    BY <1>1 DEF TuneToOwnRx
<1>3. 0 \in 0 .. FramesPerTxCell
    BY CapacityAssumption
<1>4. CellFits(TuneToOwnRx(slot))
    BY <1>2, <1>3 DEF CellFits
<1>5. CellFits(<<>>)
    BY <1>3 DEF CellFits
<1>6. QED
    BY <1>4, <1>5

\* The frames of a cell, one after the other in the buffer (maybeTxOnCell).
LEMMA FramesType ==
    ASSUME NEW p \in Peer, node.pending_tx[p] \in Nat, list.tx_buf \in Nat
    PROVE  LET k == AtMost(node.pending_tx[p], FramesPerTxCell)
           IN  /\ k \in 0 .. FramesPerTxCell
               /\ Frames(p) \in Seq(Action) /\ Len(Frames(p)) = k
               /\ \A i \in 1 .. k : /\ Frames(p)[i].tag = "tx_data"
                                    /\ Frames(p)[i].end = list.tx_buf + i * FrameLen
<1> DEFINE k == AtMost(node.pending_tx[p], FramesPerTxCell)
<1>1. k \in 0 .. FramesPerTxCell
    <2>1. FramesPerTxCell \in Nat
        BY CapacityAssumption
    <2>2. k \in Nat /\ k <= FramesPerTxCell
        BY <2>1, AtMostType
    <2>3. QED
        BY <2>1, <2>2
<1>2. \A i \in 1 .. k : list.tx_buf + i * FrameLen \in Nat
    BY <1>1, CapacityAssumption
<1>3. \A i \in 1 .. k :
          [tag |-> "tx_data", to |-> p, end |-> list.tx_buf + i * FrameLen] \in Action
    BY <1>2, ActionConstructors
<1>4. QED
    BY <1>1, <1>3 DEF Frames

LEMMA FramesFit ==
    ASSUME NEW p \in Peer, NEW slot \in Slot, node.pending_tx[p] \in Nat, list.tx_buf \in Nat
    PROVE  CellFits(Frames(p) \o TuneToOwnRx(slot))
<1> DEFINE k == AtMost(node.pending_tx[p], FramesPerTxCell)
           cell == Frames(p) \o TuneToOwnRx(slot)
           tune == [tag |-> "tune_data", channel |-> Channel(OwnCell, slot)]
<1>1. k \in 0 .. FramesPerTxCell
    <2>1. FramesPerTxCell \in Nat
        BY CapacityAssumption
    <2>2. k \in Nat /\ k <= FramesPerTxCell
        BY <2>1, AtMostType
    <2>3. QED
        BY <2>1, <2>2
<1>3. Frames(p) \in Seq(Action) /\ Len(Frames(p)) = k
      /\ \A i \in 1 .. k : /\ Frames(p)[i].tag = "tx_data"
                           /\ Frames(p)[i].end = list.tx_buf + i * FrameLen
    BY FramesType
<1>4. tune \in Action
    BY ChannelType, CellAssumption, ActionConstructors
<1>5. TuneToOwnRx(slot) = <<tune>>
    BY DEF TuneToOwnRx
<1>6. /\ cell \in Seq(Action) /\ Len(cell) = k + 1
      /\ \A i \in 1 .. k : cell[i] = Frames(p)[i]
      /\ cell[k + 1] = tune
    BY <1>1, <1>3, <1>4, <1>5
<1>7. ASSUME NEW i \in DOMAIN cell
      PROVE  /\ cell[i].tag = IF i <= k THEN "tx_data" ELSE "tune_data"
             /\ i <= k => cell[i].end = list.tx_buf + i * FrameLen
    <2>1. CASE i <= k
        BY <2>1, <1>1, <1>3, <1>6
    <2>2. CASE i = k + 1
        BY <2>2, <1>1, <1>6
    <2>3. QED
        BY <1>1, <1>6, <2>1, <2>2
<1>8. QED
    BY <1>1, <1>6, <1>7 DEF CellFits

(***************************************************************************)
(* Types.                                                                  *)
(***************************************************************************)
NodeType ==
    [broadcast_queue : Nat, pending_tx : [Peer -> Nat], eb_pending : BOOLEAN, asn : Slot]
ListType == [actions : Seq(Action), consumed : Nat, tx_buf : Nat]
BcastType ==
    [queue : Nat, backoff : BOOLEAN, busy : BOOLEAN, out : Nat,
     radio : SUBSET {"transmit", "receive"}]
Sent == [to : Peer, slot : Slot]
DataType ==
    [queue : Seq(Peer), busy : BOOLEAN, out : Seq(Sent), radio : Sent \cup {None},
     freq : Slot \cup {None}]
TallyType ==
    [dedup : SUBSET {DedupKey[m] : m \in Stamped}, delivered : Nat, duplicate : Nat,
     handed : [Message -> Nat]]
ControlType ==
    /\ stage \in {"local", "started", "running"}
    /\ draining \in BOOLEAN /\ trafficTimer \in BOOLEAN
    /\ wakeups \subseteq Token /\ timers \in [Token -> Nat]
    /\ events \in Nat /\ handled \in Slot \cup {None}

LEMMA TypeParts ==
    TypeOK <=> /\ node \in NodeType /\ list \in ListType /\ bcast \in BcastType
               /\ data \in DataType /\ tally \in TallyType /\ ControlType
    BY DEF TypeOK, NodeType, ListType, BcastType, Sent, DataType, TallyType, ControlType

LEMMA TypePartsPrime ==
    TypeOK' <=> /\ node' \in NodeType /\ list' \in ListType /\ bcast' \in BcastType
                /\ data' \in DataType /\ tally' \in TallyType /\ ControlType'
    BY DEF TypeOK, NodeType, ListType, BcastType, Sent, DataType, TallyType, ControlType

\* The pumps change a queue into a queue (pumpBcastQueue, pumpDataQueue).
LEMMA PumpBcastType ==
    ASSUME NEW b \in BcastType
    PROVE  PumpBcast(b) \in BcastType
    BY DEF PumpBcast, BcastType

LEMMA PumpDataType ==
    ASSUME NEW d \in DataType, node \in NodeType
    PROVE  PumpData(d) \in DataType
<1>1. CASE ~DataFree(d)
    BY <1>1 DEF PumpData
<1>2. CASE DataFree(d)
    <2>1. d.queue \in Seq(Peer) /\ d.queue # <<>> /\ d.out \in Seq(Sent)
        BY <1>2 DEF DataType, DataFree
    <2>2. Head(d.queue) \in Peer /\ Tail(d.queue) \in Seq(Peer)
        BY <2>1, HeadTailProperties
    <2>3. [to |-> Head(d.queue), slot |-> node.asn] \in Sent
        BY <2>2 DEF Sent, NodeType
    <2>4. Append(d.out, [to |-> Head(d.queue), slot |-> node.asn]) \in Seq(Sent)
        BY <2>1, <2>3, AppendProperties
    <2>5. PumpData(d) = [d EXCEPT !.busy = TRUE, !.queue = Tail(@),
                   !.out = Append(@, [to |-> Head(d.queue), slot |-> node.asn])]
        BY <1>2 DEF PumpData
    <2>6. QED
        BY <2>2, <2>4, <2>5 DEF DataType
<1>3. QED
    BY <1>1, <1>2

LEMMA CancelledType ==
    ASSUME TypeOK, NEW tok \in Token, tok \in wakeups => timers[tok] > 0
    PROVE  Cancelled(tok) \in Nat
    BY DEF Cancelled, TypeOK

(***************************************************************************)
(* Type correctness.                                                       *)
(***************************************************************************)
LEMMA InitType == Init => TypeOK
<1> SUFFICES ASSUME Init PROVE TypeOK
    OBVIOUS
<1>1. 0 \in Slot
    BY CellAssumption DEF Slot
<1>2. node \in NodeType /\ list \in ListType /\ bcast \in BcastType
    BY <1>1 DEF Init, NodeType, ListType, BcastType
<1>3. data \in DataType
    BY DEF Init, DataType
<1>4. tally \in TallyType
    BY DEF Init, TallyType
<1>5. ControlType
    BY DEF Init, ControlType
<1>6. QED
    BY <1>2, <1>3, <1>4, <1>5, TypeParts

\* Queued and the clocks of a slot keep the node's type.
LEMMA QueuedType ==
    ASSUME node \in NodeType, NEW b \in Nat, NEW p \in Peer, NEW k \in Nat
    PROVE  Queued(b, p, k) \in NodeType
<1>1. [node.pending_tx EXCEPT ![p] = @ + k] \in [Peer -> Nat]
    BY DEF NodeType
<1>2. Queued(b, p, k) = [broadcast_queue |-> node.broadcast_queue + b,
                         pending_tx |-> [node.pending_tx EXCEPT ![p] = @ + k],
                         eb_pending |-> node.eb_pending, asn |-> node.asn]
    <2>1. Queued(b, p, k) = [[node EXCEPT !.broadcast_queue = @ + b] EXCEPT !.pending_tx =
                                [node.pending_tx EXCEPT ![p] = @ + k]]
        BY DEF Queued, NodeType
    <2>2. QED
        BY <2>1 DEF NodeType
<1>3. node.broadcast_queue + b \in Nat /\ node.eb_pending \in BOOLEAN /\ node.asn \in Slot
    BY DEF NodeType
<1>4. QED
    BY <1>1, <1>2, <1>3 DEF NodeType

LEMMA AfterSlotType ==
    ASSUME node \in NodeType, NEW b \in Nat
    PROVE  AfterSlot(b) \in NodeType
<1>1. NextSlot \in Slot
    BY NextSlotType DEF NodeType
<1>2. BroadcastsDrained \in Nat
    BY CapacityAssumption
<1>3. b - AtMost(b, BroadcastsDrained) \in Nat
    BY <1>2, AtMostType
<1>4. QED
    BY <1>1, <1>3 DEF AfterSlot, NodeType

LEMMA WorkType ==
    ASSUME node \in NodeType, Work
    PROVE  node' \in NodeType
<1>1. PICK b \in 0 .. MaxWork, k \in 0 .. MaxWork, p \in Peer : node' = Queued(b, p, k)
    BY DEF Work
<1>2. MaxWork \in Nat
    BY BoundAssumption
<1>3. b \in Nat /\ k \in Nat
    BY <1>2
<1>4. QED
    BY <1>1, <1>3, QueuedType

\* A timer that fires is one the simulator holds.
LEMMA WakeupType ==
    ASSUME TypeOK, NEW tok \in Token, WakeupFires(tok), events' = events,
           stage' = stage, trafficTimer' = trafficTimer, handled' \in Slot \cup {None}
    PROVE  ControlType'
<1>1. ControlType
    BY TypeParts
<1>2. timers[tok] - 1 \in Nat
    BY <1>1 DEF WakeupFires, ControlType
<1>3. timers' \in [Token -> Nat] /\ wakeups' \subseteq Token /\ draining' = TRUE
    BY <1>1, <1>2 DEF WakeupFires, Calls, ControlType
<1>4. QED
    BY <1>1, <1>3 DEF ControlType

\* Removing the head of the list keeps its type (nextAction).
LEMMA TakesType ==
    ASSUME TypeOK, NEW tag, NEW c \in {0, 1}, Takes(tag, c)
    PROVE  /\ Head(list.actions) \in Action /\ Head(list.actions).tag = tag
           /\ list' \in ListType
           /\ list'.actions = Tail(list.actions)
           /\ list'.consumed = list.consumed + c
           /\ list'.tx_buf = list.tx_buf
<1>1. list \in ListType /\ list.actions \in Seq(Action) /\ list.actions # <<>>
    BY TypeParts DEF ListType, Takes
<1>2. Head(list.actions) \in Action /\ Tail(list.actions) \in Seq(Action)
    BY <1>1, HeadTailProperties
<1>3. list' = [list EXCEPT !.actions = Tail(@), !.consumed = @ + c]
    BY DEF Takes
<1>4. /\ list'.actions = Tail(list.actions) /\ list'.consumed = list.consumed + c
      /\ list'.tx_buf = list.tx_buf /\ list' \in ListType
    <2>1. list' = [actions |-> Tail(list.actions), consumed |-> list.consumed + c,
                   tx_buf |-> list.tx_buf]
        BY <1>1, <1>3 DEF ListType
    <2>2. list.consumed + c \in Nat /\ list.tx_buf \in Nat
        BY <1>1 DEF ListType
    <2>3. QED
        BY <1>2, <2>1, <2>2 DEF ListType
<1>5. Head(list.actions).tag = tag
    BY DEF Takes
<1>6. QED
    BY <1>2, <1>4, <1>5

LEMMA IntervalCardinality ==
    ASSUME NEW k \in Nat
    PROVE  Cardinality(1 .. k) = k
<1>1. Cardinality(1 .. k) = IF 1 > k THEN 0 ELSE k - 1 + 1
    BY FS_Interval
<1>2. QED
    BY <1>1

\* The data frames of a cell come first.
LEMMA FrameIndices ==
    ASSUME NEW cell, NEW k \in Nat, NEW n \in {k, k + 1}, DOMAIN cell = 1 .. n,
           \A i \in DOMAIN cell : cell[i].tag = IF i <= k THEN "tx_data" ELSE "tune_data"
    PROVE  {i \in DOMAIN cell : cell[i].tag = "tx_data"} = 1 .. k
<1>1. ASSUME NEW i \in DOMAIN cell, cell[i].tag = "tx_data" PROVE i \in 1 .. k
    <2>1. i <= k
        BY <1>1
    <2>2. QED
        BY <2>1
<1>2. ASSUME NEW i \in 1 .. k PROVE i \in DOMAIN cell /\ cell[i].tag = "tx_data"
    <2>1. i \in DOMAIN cell /\ i <= k
        OBVIOUS
    <2>2. QED
        BY <2>1
<1>3. QED
    BY <1>1, <1>2

\* The list after a slot wakeup.
LEMMA SlotListType ==
    ASSUME TypeOK, NEW b \in Nat, NEW cell, CellFits(cell), SlotWakeup(b, cell)
    PROVE  /\ list' \in ListType
           /\ list'.actions = list.actions \o Drained(b) \o cell \o <<Schedule("slot")>>
           /\ list'.consumed = list.consumed
<1>1. list \in ListType /\ list.actions \in Seq(Action) /\ list.tx_buf \in Nat
    BY TypeParts DEF ListType
<1>2. PICK k \in 0 .. FramesPerTxCell :
        /\ cell \in Seq(Action)
        /\ Len(cell) \in {k, k + 1}
        /\ \A i \in DOMAIN cell : cell[i].tag = IF i <= k THEN "tx_data" ELSE "tune_data"
    BY DEF CellFits
<1>3. {i \in DOMAIN cell : cell[i].tag = "tx_data"} = 1 .. k
    <2>1. k \in Nat /\ DOMAIN cell = 1 .. Len(cell)
        BY <1>2, CapacityAssumption
    <2>2. QED
        BY <1>2, <2>1, FrameIndices
<1>4. Cardinality({i \in DOMAIN cell : cell[i].tag = "tx_data"}) = k
    <2>1. k \in Nat
        BY CapacityAssumption
    <2>2. QED
        BY <1>3, <2>1, IntervalCardinality
<1>5. list.tx_buf + FrameLen * Cardinality({i \in DOMAIN cell : cell[i].tag = "tx_data"}) \in Nat
    <2>1. FrameLen \in Nat /\ k \in Nat
        BY CapacityAssumption
    <2>2. FrameLen * k \in Nat
        BY <2>1
    <2>3. QED
        BY <1>1, <1>4, <2>2
<1>6. Drained(b) \in Seq(Action) /\ <<Schedule("slot")>> \in Seq(Action)
    BY DrainedType, ActionConstructors DEF Token
<1>7. list.actions \o Drained(b) \o cell \o <<Schedule("slot")>> \in Seq(Action)
    BY <1>1, <1>2, <1>6, ConcatProperties
<1>8. QED
    BY <1>1, <1>5, <1>7 DEF SlotWakeup, NextSlotTimer, ListType

\* Every step keeps the types; a timer is only cancelled when it is scheduled.
LEMMA StepType ==
    ASSUME TypeOK, OneTimerPerToken, [Next]_vars
    PROVE  TypeOK'
<1> USE TypeParts, TypePartsPrime
<1>0. /\ node \in NodeType /\ list \in ListType /\ bcast \in BcastType
      /\ data \in DataType /\ tally \in TallyType /\ ControlType
    OBVIOUS
<1>1. CASE Start
    <2>1. <<Schedule("announce"), Schedule("slot")>> \in Seq(Action)
        BY ActionConstructors DEF Token
    <2>2. list' \in ListType
        BY <1>0, <1>1, <2>1 DEF Start, ListType
    <2>3. ControlType'
        BY <1>0, <1>1 DEF Start, ControlType
    <2>4. QED
        BY <1>0, <1>1, <2>2, <2>3 DEF Start
<1>2. CASE AddTargetPeers
    <2>1. ControlType'
        BY <1>0, <1>2 DEF AddTargetPeers, ControlType
    <2>2. QED
        BY <1>0, <1>2, <2>1 DEF AddTargetPeers
<1>3. CASE AnnounceWakeup
    <2>1. ControlType'
        BY <1>0, <1>3, WakeupType DEF AnnounceWakeup, WakeupFires, Calls, ControlType, Token
    <2>2. node' \in NodeType
        BY <1>0, <1>3 DEF AnnounceWakeup, NodeType
    <2>3. Append(list.actions, Schedule("announce")) \in Seq(Action)
        BY <1>0, ActionConstructors, AppendProperties DEF ListType, Token
    <2>4. list' \in ListType
        BY <1>0, <1>3, <2>3 DEF AnnounceWakeup, ListType
    <2>5. QED
        BY <1>0, <1>3, <2>1, <2>2, <2>4 DEF AnnounceWakeup, WakeupFires, Calls
<1>4. ASSUME NEW b \in Nat, NEW cell, CellFits(cell), SlotWakeup(b, cell), node' \in NodeType
      PROVE  TypeOK'
    <2>1. NextSlot \in Slot
        BY <1>0, NextSlotType DEF NodeType
    <2>2. ControlType'
        BY <1>0, <1>4, <2>1, WakeupType DEF SlotWakeup, WakeupFires, Calls, ControlType, Token
    <2>3. list' \in ListType
        BY <1>4, SlotListType
    <2>4. QED
        BY <1>0, <1>4, <2>2, <2>3 DEF SlotWakeup, WakeupFires, Calls
<1>5. CASE SlotZero
    <2> DEFINE b == node.broadcast_queue + IF node.eb_pending THEN 1 ELSE 0
    <2>1. b \in Nat
        BY <1>0 DEF NodeType
    <2>2. node' = [AfterSlot(b) EXCEPT !.eb_pending = FALSE] /\ SlotWakeup(b, <<>>)
        BY <1>5 DEF SlotZero
    <2>3. node' \in NodeType
        BY <1>0, <2>1, <2>2, AfterSlotType DEF NodeType
    <2>4. CellFits(<<>>)
        BY <1>0, NextSlotType, TuneFits DEF NodeType
    <2> HIDE DEF b
    <2>5. QED
        BY <1>4, <2>1, <2>2, <2>3, <2>4
<1>6. ASSUME NEW p \in Peer, SlotWithTx(p) PROVE TypeOK'
    <2> DEFINE b == node.broadcast_queue
               cell == Frames(p) \o TuneToOwnRx(NextSlot)
    <2>1. b \in Nat /\ node.pending_tx[p] \in Nat
        BY <1>0 DEF NodeType
    <2>2. CellFits(cell)
        BY <1>0, <2>1, NextSlotType, FramesFit DEF NodeType, ListType
    <2>3. FramesPerTxCell \in Nat
        BY CapacityAssumption
    <2>4. node.pending_tx[p] - AtMost(node.pending_tx[p], FramesPerTxCell) \in Nat
        <3>1. /\ AtMost(node.pending_tx[p], FramesPerTxCell) \in Nat
              /\ AtMost(node.pending_tx[p], FramesPerTxCell) <= node.pending_tx[p]
            BY <2>1, <2>3, AtMostType
        <3>2. QED
            BY <2>1, <3>1
    <2>5. AfterSlot(b) \in NodeType /\ AfterSlot(b).pending_tx = node.pending_tx
        BY <1>0, <2>1, AfterSlotType DEF AfterSlot, NodeType
    <2>6. [node.pending_tx EXCEPT ![p] = @ - AtMost(@, FramesPerTxCell)] \in [Peer -> Nat]
        BY <1>0, <2>4 DEF NodeType
    <2>7. node' = [AfterSlot(b) EXCEPT !.pending_tx =
                      [node.pending_tx EXCEPT ![p] = @ - AtMost(@, FramesPerTxCell)]]
        BY <1>6, <2>5 DEF SlotWithTx
    <2>8. node' \in NodeType
        BY <2>5, <2>6, <2>7 DEF NodeType
    <2>9. QED
        BY <1>4, <1>6, <2>1, <2>2, <2>8 DEF SlotWithTx
<1>7. CASE SlotWithoutTx
    <2> DEFINE cell == IF NextSlot = OwnCell.slot_offset THEN TuneToOwnRx(NextSlot) ELSE <<>>
    <2>1. CellFits(cell)
        BY <1>0, NextSlotType, TuneFits DEF NodeType
    <2>2. node.broadcast_queue \in Nat
        BY <1>0 DEF NodeType
    <2>3. node' \in NodeType
        BY <1>0, <1>7, <2>2, AfterSlotType DEF SlotWithoutTx
    <2>4. QED
        BY <1>4, <1>7, <2>1, <2>2, <2>3 DEF SlotWithoutTx
<1>8. ASSUME Stimulus, node' \in NodeType, list' \in ListType, trafficTimer' \in BOOLEAN
      PROVE  TypeOK'
    <2>1. ControlType'
        BY <1>0, <1>8 DEF Stimulus, Calls, ControlType
    <2>2. QED
        BY <1>0, <1>8, <2>1 DEF Stimulus, Calls
<1>9. CASE TrafficTimer \/ DataRx
    <2>1. /\ Stimulus /\ Work /\ list' = list
        BY <1>9 DEF TrafficTimer, DataRx
    <2>2. trafficTimer' \in BOOLEAN
        BY <1>0, <2>1 DEF Stimulus, Calls, ControlType
    <2>3. QED
        BY <1>0, <1>8, <2>1, <2>2, WorkType
<1>10. ASSUME NEW m \in Message, DeliverRx(m) PROVE TypeOK'
    <2> DEFINE end == list.tx_buf + FrameLen
               a == [tag |-> "deliver", message |-> m, end |-> end]
    <2>1. end \in Nat
        BY <1>0, CapacityAssumption DEF ListType
    <2>2. a \in Action
        BY <2>1, ActionConstructors
    <2>3. list.actions \in Seq(Action)
        BY <1>0 DEF ListType
    <2>4. Append(list.actions, a) \in Seq(Action)
        BY <2>2, <2>3, AppendProperties
    <2>5. list' = [list EXCEPT !.actions = Append(@, a), !.tx_buf = end]
        BY <1>10 DEF DeliverRx
    <2>6. list' \in ListType
        BY <1>0, <2>1, <2>4, <2>5 DEF ListType
    <2>7. Stimulus /\ node' = node
        BY <1>10 DEF DeliverRx
    <2>8. trafficTimer' \in BOOLEAN
        BY <1>0, <2>7 DEF Stimulus, Calls, ControlType
    <2>9. QED
        BY <1>0, <1>8, <2>6, <2>7, <2>8
<1>11. CASE BroadcastRx
    <2>1. node' \in NodeType
        BY <1>0, <1>11, WorkType DEF BroadcastRx
    <2>2. bcast' \in BcastType
        BY <1>0, <1>11 DEF BroadcastRx, BroadcastIn, BcastType
    <2>3. ControlType'
        BY <1>0, <1>11 DEF BroadcastRx, BroadcastIn, Calls, ControlType
    <2>4. QED
        BY <1>0, <1>11, <2>1, <2>2, <2>3 DEF BroadcastRx, BroadcastIn, Calls
<1>12. ASSUME NEW slot \in Slot, BeaconRx(slot) PROVE TypeOK'
    <2>1. PICK b \in {0, 1} : node' = [node EXCEPT !.asn = slot, !.broadcast_queue = @ + b]
        BY <1>12 DEF BeaconRx
    <2>7. node' \in NodeType
        <3>1. node.broadcast_queue + b \in Nat
            BY <1>0 DEF NodeType
        <3>2. node' = [broadcast_queue |-> node.broadcast_queue + b,
                       pending_tx |-> node.pending_tx, eb_pending |-> node.eb_pending,
                       asn |-> slot]
            BY <1>0, <2>1 DEF NodeType
        <3>3. QED
            BY <1>0, <3>1, <3>2 DEF NodeType
    <2>2. bcast' \in BcastType
        BY <1>0, <1>12 DEF BeaconRx, BroadcastIn, BcastType
    <2>3. ControlType'
        BY <1>0, <1>12 DEF BeaconRx, BroadcastIn, Calls, ControlType
    <2>4. Append(list.actions, Schedule("slot")) \in Seq(Action)
        BY <1>0, ActionConstructors, AppendProperties DEF ListType, Token
    <2>5. list' \in ListType
        BY <1>0, <1>12, <2>4 DEF BeaconRx, ListType
    <2>6. QED
        BY <1>0, <1>12, <2>2, <2>3, <2>5, <2>7 DEF BeaconRx, BroadcastIn, Calls
<1>13. CASE Drain
    <2>1. CASE DrainEnds
        <3>1. list' \in ListType
            BY <1>0, <2>1 DEF DrainEnds, Freed, ListType
        <3>2. ControlType'
            BY <1>0, <2>1 DEF DrainEnds, ControlType
        <3>3. QED
            BY <1>0, <2>1, <3>1, <3>2 DEF DrainEnds
    <2>2. ASSUME NEW tag, NEW c \in {0, 1}, Takes(tag, c), timers' \in [Token -> Nat],
                 wakeups' \subseteq Token, bcast' \in BcastType, data' \in DataType,
                 tally' \in TallyType
          PROVE  TypeOK'
        <3>1. list' \in ListType
            BY <2>2, TakesType
        <3>2. ControlType'
            BY <1>0, <2>2 DEF Takes, ControlType
        <3>3. QED
            BY <1>0, <2>2, <3>1, <3>2 DEF Takes
    <2>3. CASE TakeTxBroadcast
        <3>1. [bcast EXCEPT !.queue = @ + 1] \in BcastType
            BY <1>0 DEF BcastType
        <3>2. bcast' \in BcastType
            BY <2>3, <3>1, PumpBcastType DEF TakeTxBroadcast
        <3>3. QED
            BY <1>0, <2>2, <2>3, <3>2 DEF TakeTxBroadcast, ControlType
    <2>4. CASE TakeTxData
        <3> DEFINE to == Head(list.actions).to
                   d == [data EXCEPT !.freq = Channel(PeerCell[to], node.asn),
                                     !.queue = Append(@, to)]
        <3>1. to \in Peer
            BY <2>4, TakesType, ActionFields DEF TakeTxData
        <3>2. Channel(PeerCell[to], node.asn) \in Slot
            BY <1>0, <3>1, CellAssumption, ChannelType DEF NodeType
        <3>3. Append(data.queue, to) \in Seq(Peer)
            BY <1>0, <3>1, AppendProperties DEF DataType
        <3>4. d \in DataType
            BY <1>0, <3>2, <3>3 DEF DataType
        <3>5. data' = PumpData(d)
            BY <2>4 DEF TakeTxData
        <3> HIDE DEF d
        <3>6. data' \in DataType
            BY <1>0, <3>4, <3>5, PumpDataType
        <3>7. QED
            BY <1>0, <2>2, <2>4, <3>6 DEF TakeTxData, ControlType
    <2>5. CASE TakeTuneData
        <3>1. Head(list.actions).channel \in Slot
            BY <2>5, TakesType, ActionFields DEF TakeTuneData
        <3>2. data' \in DataType
            BY <1>0, <2>5, <3>1 DEF TakeTuneData, DataType
        <3>3. QED
            BY <1>0, <2>2, <2>5, <3>2 DEF TakeTuneData, ControlType
    <2>6. CASE TakeSchedule
        <3> DEFINE tok == Head(list.actions).token
        <3>1. tok \in Token
            BY <2>6, TakesType, ActionFields DEF TakeSchedule
        <3>2. Cancelled(tok) + 1 \in Nat
            BY <3>1, CancelledType DEF OneTimerPerToken
        <3>3. timers' \in [Token -> Nat] /\ wakeups' \subseteq Token
            BY <1>0, <2>6, <3>1, <3>2 DEF TakeSchedule, ControlType
        <3>4. QED
            BY <1>0, <2>2, <2>6, <3>3 DEF TakeSchedule
    <2>7. CASE TakeDeliver
        <3> DEFINE m == Head(list.actions).message
        <3>1. m \in Message
            BY <2>7, TakesType, ActionFields DEF TakeDeliver
        <3>2. tally' = [dedup |-> IF m \in Stamped THEN tally.dedup \cup {DedupKey[m]}
                                  ELSE tally.dedup,
                        delivered |-> IF Duplicate(m) THEN tally.delivered
                                      ELSE tally.delivered + 1,
                        duplicate |-> IF Duplicate(m) THEN tally.duplicate + 1
                                      ELSE tally.duplicate,
                        handed |-> [tally.handed EXCEPT ![m] = @ + 1]]
            BY <1>0, <2>7 DEF TakeDeliver, TallyType
        <3> HIDE DEF m
        <3>3. [tally.handed EXCEPT ![m] = @ + 1] \in [Message -> Nat]
            BY <1>0, <3>1 DEF TallyType
        <3>4. tally.dedup \subseteq {DedupKey[k] : k \in Stamped}
            BY <1>0 DEF TallyType
        <3>5. (IF m \in Stamped THEN tally.dedup \cup {DedupKey[m]} ELSE tally.dedup)
                \subseteq {DedupKey[k] : k \in Stamped}
            BY <3>4
        <3>6. /\ (IF Duplicate(m) THEN tally.delivered ELSE tally.delivered + 1) \in Nat
              /\ (IF Duplicate(m) THEN tally.duplicate + 1 ELSE tally.duplicate) \in Nat
            BY <1>0 DEF TallyType
        <3>7. tally' \in TallyType
            BY <3>2, <3>3, <3>5, <3>6 DEF TallyType
        <3>8. QED
            BY <1>0, <2>2, <2>7, <3>7 DEF TakeDeliver, ControlType
    <2>8. QED
        BY <1>13, <2>1, <2>3, <2>4, <2>5, <2>6, <2>7 DEF Drain
<1>14. ASSUME Apart, bcast' \in BcastType, data' \in DataType, events' \in Nat
       PROVE  TypeOK'
    <2>1. ControlType'
        BY <1>0, <1>14 DEF Apart, ControlType
    <2>2. QED
        BY <1>0, <1>14, <2>1 DEF Apart
<1>15. CASE BackoffEnds
    <2>1. bcast.queue \in Nat /\ events \in Nat
        BY <1>0 DEF BcastType, ControlType
    <2>2. /\ AtMost(bcast.queue, 1) \in Nat
          /\ bcast.queue - AtMost(bcast.queue, 1) \in Nat
        BY <2>1, AtMostType
    <2>5. (bcast.busy \/ bcast.queue > 0) \in BOOLEAN /\ (bcast.queue > 1) \in BOOLEAN
        BY <1>0 DEF BcastType
    <2>6. bcast' = [queue |-> bcast.queue - AtMost(bcast.queue, 1),
                    backoff |-> bcast.queue > 1, busy |-> bcast.busy \/ bcast.queue > 0,
                    out |-> AtMost(bcast.queue, 1), radio |-> bcast.radio]
        BY <1>0, <1>15 DEF BackoffEnds, BcastType
    <2>7. bcast.radio \in SUBSET {"transmit", "receive"}
        BY <1>0 DEF BcastType
    <2>3. bcast' \in BcastType
        BY <2>2, <2>5, <2>6, <2>7 DEF BcastType
    <2>4. QED
        BY <1>0, <1>14, <1>15, <2>1, <2>3 DEF BackoffEnds
<1>16. CASE BroadcastTxStarts \/ BroadcastTxEnds
    <2> DEFINE starts == [bcast EXCEPT !.out = @ - 1, !.radio = @ \cup {"transmit"},
                                       !.busy = TRUE]
               ends == [bcast EXCEPT !.radio = @ \ {"transmit"}, !.busy = FALSE]
    <2>1. BroadcastTxStarts => starts \in BcastType /\ bcast' = PumpBcast(starts)
        <3>1. CASE BroadcastTxStarts
            <4>1. bcast.out - 1 \in Nat
                BY <1>0, <3>1 DEF BroadcastTxStarts, BcastType
            <4>2. bcast.radio \cup {"transmit"} \in SUBSET {"transmit", "receive"}
                BY <1>0 DEF BcastType
            <4>3. starts \in BcastType
                BY <1>0, <4>1, <4>2 DEF BcastType
            <4>4. QED
                BY <3>1, <4>3 DEF BroadcastTxStarts
        <3>2. QED
            BY <3>1
    <2>2. BroadcastTxEnds => ends \in BcastType /\ bcast' = PumpBcast(ends)
        BY <1>0 DEF BroadcastTxEnds, BcastType
    <2> HIDE DEF starts, ends
    <2>3. bcast' \in BcastType
        BY <1>16, <2>1, <2>2, PumpBcastType
    <2>4. Apart /\ data' = data /\ events' = events /\ events \in Nat
        BY <1>0, <1>16 DEF BroadcastTxStarts, BroadcastTxEnds, ControlType
    <2>5. QED
        BY <1>0, <1>14, <2>3, <2>4
<1>17. CASE ReceptionStarts \/ ReceptionFails
    <2>1. bcast' \in BcastType
        BY <1>0, <1>17 DEF ReceptionStarts, ReceptionFails, BcastType
    <2>2. Apart /\ data' = data /\ events' \in Nat
        BY <1>0, <1>17 DEF ReceptionStarts, ReceptionFails, ControlType
    <2>3. QED
        BY <1>0, <1>14, <2>1, <2>2
<1>18. CASE DataTxStarts
    <2>1. data.out \in Seq(Sent) /\ data.out # <<>>
        BY <1>0, <1>18 DEF DataTxStarts, DataType
    <2>2. Head(data.out) \in Sent /\ Tail(data.out) \in Seq(Sent)
        BY <2>1, HeadTailProperties
    <2>3. data' \in DataType
        BY <1>0, <1>18, <2>2 DEF DataTxStarts, DataType
    <2>4. Apart /\ bcast' = bcast /\ events' = events /\ events \in Nat
        BY <1>0, <1>18 DEF DataTxStarts, ControlType
    <2>5. QED
        BY <1>0, <1>14, <2>3, <2>4
<1>19. CASE DataTxEnds
    <2> DEFINE ends == [data EXCEPT !.radio = None, !.busy = FALSE]
    <2>1. ends \in DataType /\ data' = PumpData(ends)
        BY <1>0, <1>19 DEF DataTxEnds, PumpAfterTx, DataType
    <2> HIDE DEF ends
    <2>2. data' \in DataType
        BY <1>0, <2>1, PumpDataType
    <2>3. Apart /\ bcast' = bcast /\ events' = events /\ events \in Nat
        BY <1>0, <1>19 DEF DataTxEnds, ControlType
    <2>4. QED
        BY <1>0, <1>14, <2>2, <2>3
<1>20. CASE UNCHANGED vars
    BY <1>0, <1>20 DEF vars, ControlType
<1>21. QED
    BY <1>1, <1>2, <1>3, <1>5, <1>6, <1>7, <1>9, <1>10, <1>11, <1>12, <1>13, <1>15, <1>16,
       <1>17, <1>18, <1>19, <1>20 DEF Next, SlotEvent, BroadcastEvent, DataEvent

(***************************************************************************)
(* The timers.                                                             *)
(***************************************************************************)
\* Only these steps touch the map of timers and what the simulator holds.
LEMMA TimersTouched ==
    ASSUME [Next]_vars
    PROVE  \/ UNCHANGED <<wakeups, timers>>
           \/ \E tok \in Token : WakeupFires(tok)
           \/ TakeSchedule
<1>1. AnnounceWakeup => WakeupFires("announce")
    BY DEF AnnounceWakeup
<1>2. SlotEvent => WakeupFires("slot")
    BY DEF SlotEvent, SlotZero, SlotWithTx, SlotWithoutTx, SlotWakeup
<1>3. TrafficTimer \/ DataRx \/ (\E m \in Message : DeliverRx(m)) \/ BroadcastEvent
        \/ ReceptionStarts \/ DataEvent
        => UNCHANGED <<wakeups, timers>>
    BY DEF TrafficTimer, DataRx, DeliverRx, Stimulus, BroadcastEvent, BackoffEnds,
           BroadcastTxStarts, BroadcastTxEnds, ReceptionFails, BroadcastRx, BeaconRx,
           BroadcastIn, ReceptionStarts, DataEvent, DataTxStarts, DataTxEnds, Apart
<1>4. Drain => UNCHANGED <<wakeups, timers>> \/ TakeSchedule
    BY DEF Drain, TakeTxBroadcast, TakeTxData, TakeTuneData, TakeDeliver, DrainEnds
<1>5. Start \/ AddTargetPeers \/ UNCHANGED vars => UNCHANGED <<wakeups, timers>>
    BY DEF Start, AddTargetPeers, vars
<1>6. QED
    BY <1>1, <1>2, <1>3, <1>4, <1>5 DEF Next, Token

\* scheduleWakeup cancels the timer it replaces, and a timer that fires leaves the
\* map.
LEMMA OneTimerStep ==
    ASSUME TypeOK, OneTimerPerToken, [Next]_vars
    PROVE  OneTimerPerToken'
<1>1. timers \in [Token -> Nat]
    BY TypeParts DEF ControlType
<1>2. CASE UNCHANGED <<wakeups, timers>>
    BY <1>2 DEF OneTimerPerToken
<1>3. ASSUME NEW tok \in Token, WakeupFires(tok)
      PROVE  OneTimerPerToken'
    <2>1. /\ timers' = [timers EXCEPT ![tok] = @ - 1] /\ wakeups' = wakeups \ {tok}
          /\ timers[tok] > 0
        BY <1>3 DEF WakeupFires
    <2>2. timers[tok] = 1
        BY <2>1 DEF OneTimerPerToken
    <2>3. QED
        BY <1>1, <2>1, <2>2 DEF OneTimerPerToken
<1>4. CASE TakeSchedule
    <2> DEFINE tok == Head(list.actions).token
    <2>1. tok \in Token
        BY <1>4, TakesType, ActionFields DEF TakeSchedule
    <2>2. Cancelled(tok) = 0
        BY <2>1 DEF Cancelled, OneTimerPerToken
    <2>5. timers' = [timers EXCEPT ![tok] = Cancelled(tok) + 1]
          /\ wakeups' = wakeups \cup {tok}
        BY <1>4 DEF TakeSchedule
    <2>6. Cancelled(tok) + 1 = 1
        BY <2>2
    <2>3. timers' = [timers EXCEPT ![tok] = 1] /\ wakeups' = wakeups \cup {tok}
        BY <2>5, <2>6, Zenon
    <2>4. QED
        BY <1>1, <2>1, <2>3 DEF OneTimerPerToken
<1>5. QED
    BY <1>2, <1>3, <1>4, TimersTouched

(***************************************************************************)
(* The list of actions.                                                    *)
(***************************************************************************)
\* The three ways in which a call leaves the list: as it was, with a timer at its
\* end, with what a slot queues; and the way in which the host takes an action.
QueuesNothing ==
    /\ stage \in {"started", "running"} /\ ~draining
    /\ stage' = "running" /\ draining' = TRUE
    /\ UNCHANGED <<list, wakeups>>

QueuesTimer(tok) ==
    /\ Calls
    /\ list' = [list EXCEPT !.actions = Append(@, Schedule(tok))]
    /\ wakeups \ {tok} \subseteq wakeups'

QueuesSlot(b, cell) ==
    /\ Calls
    /\ CellFits(cell)
    /\ list' = [list EXCEPT
                   !.actions = @ \o Drained(b) \o cell \o <<Schedule("slot")>>,
                   !.tx_buf = @ + FrameLen * Cardinality({i \in DOMAIN cell :
                                                            cell[i].tag = "tx_data"})]
    /\ wakeups' = wakeups \ {"slot"}

TakesOne(tag, c) ==
    /\ Takes(tag, c)
    /\ c = 1 => tag = "tx_broadcast"
    /\ tag = "tx_broadcast" => c = 1
    /\ wakeups' = IF tag = "schedule" THEN wakeups \cup {Head(list.actions).token} ELSE wakeups
    /\ tag \notin {"tx_data", "tune_data"} => data' = data
    /\ tag = "tune_data" => data' = [data EXCEPT !.freq = Head(list.actions).channel]

\* A slot fills its cell with what fits (handleSlotWakeup).
LEMMA SlotQueues ==
    ASSUME TypeOK, SlotEvent
    PROVE  \E b \in Nat : \E cell : QueuesSlot(b, cell)
<1>1. /\ node.broadcast_queue \in Nat /\ node.pending_tx \in [Peer -> Nat]
      /\ node.eb_pending \in BOOLEAN /\ node.asn \in Slot /\ list.tx_buf \in Nat
    BY TypeParts DEF NodeType, ListType
<1>2. NextSlot \in Slot
    BY <1>1, NextSlotType
<1>3. ASSUME NEW b \in Nat, NEW cell, CellFits(cell), SlotWakeup(b, cell)
      PROVE  QueuesSlot(b, cell)
    BY <1>3 DEF SlotWakeup, WakeupFires, NextSlotTimer, QueuesSlot
<1>4. CASE SlotZero
    <2> DEFINE b == node.broadcast_queue + IF node.eb_pending THEN 1 ELSE 0
    <2>1. b \in Nat /\ SlotWakeup(b, <<>>)
        BY <1>1, <1>4 DEF SlotZero
    <2>2. CellFits(<<>>)
        BY <1>2, TuneFits
    <2> HIDE DEF b
    <2>3. QED
        BY <1>3, <2>1, <2>2
<1>5. ASSUME NEW p \in Peer, SlotWithTx(p)
      PROVE  \E b \in Nat : \E cell : QueuesSlot(b, cell)
    <2>1. CellFits(Frames(p) \o TuneToOwnRx(NextSlot))
        BY <1>1, <1>2, FramesFit
    <2>2. SlotWakeup(node.broadcast_queue, Frames(p) \o TuneToOwnRx(NextSlot))
        BY <1>5 DEF SlotWithTx
    <2>3. QED
        BY <1>1, <1>3, <2>1, <2>2
<1>6. CASE SlotWithoutTx
    <2> DEFINE cell == IF NextSlot = OwnCell.slot_offset THEN TuneToOwnRx(NextSlot) ELSE <<>>
    <2>1. CellFits(cell)
        BY <1>2, TuneFits
    <2>2. SlotWakeup(node.broadcast_queue, cell)
        BY <1>6 DEF SlotWithoutTx
    <2> HIDE DEF cell
    <2>3. QED
        BY <1>1, <1>3, <2>1, <2>2
<1>7. QED
    BY <1>4, <1>5, <1>6 DEF SlotEvent

LEMMA ListTouched ==
    ASSUME [Next]_vars
    PROVE  \/ Start
           \/ QueuesNothing
           \/ \E tok \in Token : QueuesTimer(tok)
           \/ \E m \in Message : DeliverRx(m)
           \/ SlotEvent
           \/ \E tag : \E c \in {0, 1} : TakesOne(tag, c)
           \/ DrainEnds
           \/ /\ UNCHANGED <<list, stage, draining, wakeups>>
              /\ ~draining \/ UNCHANGED data
<1>1. AddTargetPeers \/ TrafficTimer \/ DataRx \/ BroadcastRx => QueuesNothing
    BY DEF AddTargetPeers, TrafficTimer, DataRx, BroadcastRx, BroadcastIn, Stimulus, Calls,
           QueuesNothing
<1>2. AnnounceWakeup => QueuesTimer("announce")
    BY DEF AnnounceWakeup, WakeupFires, QueuesTimer
<1>3. (\E slot \in Slot : BeaconRx(slot)) => QueuesTimer("slot")
    BY DEF BeaconRx, BroadcastIn, QueuesTimer
<1>4. TakeTxBroadcast => TakesOne("tx_broadcast", 1)
    BY DEF TakeTxBroadcast, TakesOne
<1>5. TakeTxData => TakesOne("tx_data", 0)
    BY DEF TakeTxData, TakesOne
<1>6. TakeTuneData => TakesOne("tune_data", 0)
    BY DEF TakeTuneData, TakesOne
<1>7. TakeSchedule => TakesOne("schedule", 0)
    BY DEF TakeSchedule, TakesOne
<1>8. TakeDeliver => TakesOne("deliver", 0)
    BY DEF TakeDeliver, TakesOne
<1>9. BackoffEnds \/ BroadcastTxStarts \/ BroadcastTxEnds \/ ReceptionFails
        \/ ReceptionStarts \/ DataEvent \/ UNCHANGED vars
        => UNCHANGED <<list, stage, draining, wakeups>> /\ (~draining \/ UNCHANGED data)
    BY DEF BackoffEnds, BroadcastTxStarts, BroadcastTxEnds, ReceptionFails,
           ReceptionStarts, DataEvent, DataTxStarts, DataTxEnds, Apart, vars
<1>10. QED
    BY <1>1, <1>2, <1>3, <1>4, <1>5, <1>6, <1>7, <1>8, <1>9
       DEF Next, Drain, BroadcastEvent, Token

\* Between two events the list is empty and all its room is free; a node that is
\* not there yet is not drained.
Discipline ==
    /\ ~draining => list = [actions |-> <<>>, consumed |-> 0, tx_buf |-> 0]
    /\ stage = "local" => ~draining

LEMMA DisciplineStep ==
    ASSUME TypeOK, Discipline, [Next]_vars
    PROVE  Discipline'
<1>1. CASE Start
    BY <1>1 DEF Start, Discipline
<1>2. CASE QueuesNothing \/ \E tok \in Token : QueuesTimer(tok)
    BY <1>2 DEF QueuesNothing, QueuesTimer, Calls, Discipline
<1>3. ASSUME NEW m \in Message, DeliverRx(m) PROVE Discipline'
    BY <1>3 DEF DeliverRx, Stimulus, Calls, Discipline
<1>4. ASSUME NEW b \in Nat, NEW cell, QueuesSlot(b, cell) PROVE Discipline'
    BY <1>4 DEF QueuesSlot, Calls, Discipline
<1>5. ASSUME NEW tag, NEW c \in {0, 1}, TakesOne(tag, c) PROVE Discipline'
    BY <1>5 DEF TakesOne, Takes, Discipline
<1>6. CASE DrainEnds
    <2>1. list \in ListType /\ list.actions = <<>>
        BY <1>6, TypeParts DEF DrainEnds
    <2>2. list' = [actions |-> <<>>, consumed |-> 0, tx_buf |-> 0]
        BY <1>6, <2>1 DEF DrainEnds, Freed, ListType
    <2>3. draining /\ stage' = stage /\ ~draining'
        BY <1>6 DEF DrainEnds
    <2>4. QED
        BY <2>2, <2>3 DEF Discipline
<1>7. CASE UNCHANGED <<list, stage, draining, wakeups>>
    BY <1>7 DEF Discipline
<1>8. QED
    BY <1>1, <1>2, <1>3, <1>4, <1>5, <1>6, <1>7, ListTouched, SlotQueues

\* From the start on, a token of the node is in the map of timers or an action of
\* the list will put it there.
TimersKept ==
    stage \in {"started", "running"} =>
        \A tok \in Token :
            tok \in wakeups \/ \E i \in DOMAIN list.actions : list.actions[i] = Schedule(tok)

LEMMA TimersKeptStep ==
    ASSUME TypeOK, Discipline, TimersKept, [Next]_vars
    PROVE  TimersKept'
<1>1. list \in ListType /\ list.actions \in Seq(Action)
    BY TypeParts DEF ListType
<1>2. ASSUME ~draining, stage \in {"started", "running"}
      PROVE  wakeups = Token /\ list.actions = <<>>
    <2>1. list.actions = <<>>
        BY <1>2 DEF Discipline
    <2>2. DOMAIN list.actions = {}
        BY <2>1
    <2>3. Token \subseteq wakeups
        BY <1>2, <2>2 DEF TimersKept
    <2>4. wakeups \subseteq Token
        BY TypeParts DEF ControlType
    <2>5. QED
        BY <2>1, <2>3, <2>4
<1>3. CASE Start
    <2>1. list'.actions = <<Schedule("announce"), Schedule("slot")>>
        BY <1>1, <1>3 DEF Start, ListType
    <2>2. /\ DOMAIN list'.actions = {1, 2}
          /\ list'.actions[1] = Schedule("announce") /\ list'.actions[2] = Schedule("slot")
        BY <2>1
    <2>3. QED
        BY <2>2 DEF TimersKept, Token
<1>4. CASE QueuesNothing
    <2>1. wakeups' = Token
        BY <1>2, <1>4 DEF QueuesNothing
    <2>2. QED
        BY <2>1 DEF TimersKept
<1>5. ASSUME NEW tok \in Token, QueuesTimer(tok) PROVE TimersKept'
    <2>1. wakeups = Token /\ list.actions = <<>>
        BY <1>2, <1>5 DEF QueuesTimer, Calls
    <2>2. list'.actions = <<Schedule(tok)>>
        BY <1>1, <1>5, <2>1 DEF QueuesTimer, ListType
    <2>3. DOMAIN list'.actions = {1} /\ list'.actions[1] = Schedule(tok)
        BY <2>2
    <2>4. Token \ {tok} \subseteq wakeups'
        BY <1>5, <2>1 DEF QueuesTimer
    <2>5. QED
        BY <2>3, <2>4 DEF TimersKept
<1>6. ASSUME NEW m \in Message, DeliverRx(m) PROVE TimersKept'
    <2>1. wakeups' = Token
        BY <1>2, <1>6 DEF DeliverRx, Stimulus, Calls
    <2>2. QED
        BY <2>1 DEF TimersKept
<1>7. ASSUME NEW b \in Nat, NEW cell, QueuesSlot(b, cell) PROVE TimersKept'
    <2> DEFINE before == list.actions \o Drained(b) \o cell
    <2>1. Token \ {"slot"} \subseteq wakeups'
        BY <1>2, <1>7 DEF QueuesSlot, Calls
    <2>2. before \in Seq(Action) /\ Schedule("slot") \in Action
        BY <1>1, <1>7, DrainedType, ActionConstructors, ConcatProperties
           DEF QueuesSlot, CellFits, Token
    <2>3. list'.actions = before \o <<Schedule("slot")>>
        BY <1>1, <1>7 DEF QueuesSlot, ListType
    <2> HIDE DEF before
    <2>4. Len(before) + 1 \in DOMAIN list'.actions
          /\ list'.actions[Len(before) + 1] = Schedule("slot")
        BY <2>2, <2>3
    <2>5. QED
        BY <2>1, <2>4 DEF TimersKept
<1>8. ASSUME NEW tag, NEW c \in {0, 1}, TakesOne(tag, c) PROVE TimersKept'
    <2>1. /\ list.actions # <<>> /\ list'.actions = Tail(list.actions)
          /\ Head(list.actions).tag = tag /\ stage' = stage /\ wakeups \subseteq wakeups'
        BY <1>8, TakesType DEF TakesOne, Takes
    <2>2. SUFFICES ASSUME stage' \in {"started", "running"}, NEW tok \in Token,
                          tok \notin wakeups'
                   PROVE  \E i \in DOMAIN list'.actions : list'.actions[i] = Schedule(tok)
        BY DEF TimersKept
    <2>3. PICK i \in DOMAIN list.actions : list.actions[i] = Schedule(tok)
        BY <2>1, <2>2 DEF TimersKept
    <2>4. i # 1
        <3>1. SUFFICES ASSUME i = 1 PROVE FALSE
            OBVIOUS
        <3>2. Head(list.actions) = Schedule(tok)
            BY <1>1, <2>1, <2>3, <3>1
        <3>3. tag = "schedule" /\ Head(list.actions).token = tok
            BY <2>1, <3>2 DEF Schedule
        <3>4. QED
            BY <1>8, <2>2, <3>3 DEF TakesOne
    <2>5. i - 1 \in DOMAIN list'.actions /\ list'.actions[i - 1] = Schedule(tok)
        <3>1. /\ DOMAIN list.actions = 1 .. Len(list.actions)
              /\ DOMAIN list'.actions = 1 .. Len(list.actions) - 1
              /\ Len(list.actions) \in Nat
              /\ \A j \in DOMAIN list'.actions : list'.actions[j] = list.actions[j + 1]
            BY <1>1, <2>1
        <3>2. i - 1 \in DOMAIN list'.actions
            BY <2>4, <3>1
        <3>3. QED
            BY <2>3, <3>1, <3>2
    <2>6. QED
        BY <2>5
<1>9. CASE DrainEnds
    <2>1. list.actions = <<>> /\ stage' = stage /\ wakeups' = wakeups
        BY <1>9 DEF DrainEnds
    <2>2. QED
        BY <2>1 DEF TimersKept
<1>10. CASE UNCHANGED <<list, stage, draining, wakeups>>
    BY <1>10 DEF TimersKept
<1>11. QED
    BY <1>3, <1>4, <1>5, <1>6, <1>7, <1>8, <1>9, <1>10, ListTouched,
       SlotQueues

(***************************************************************************)
(* Capacities.                                                             *)
(***************************************************************************)
LEMMA TimesMonotone ==
    ASSUME NEW a \in Nat, NEW b \in Nat, NEW c \in Nat, a <= b
    PROVE  a * c <= b * c
<1>1. PICK d \in Nat : b = a + d
    <2>1. b - a \in Nat /\ b = a + (b - a)
        OBVIOUS
    <2>2. QED
        BY <2>1
<1>2. b * c = a * c + d * c
    BY <1>1
<1>3. d * c \in Nat /\ a * c \in Nat
    BY <1>1
<1>4. QED
    BY <1>2, <1>3

\* The list stays within its capacity because a slot, the call that queues most,
\* starts with an empty one; the frames still to be consumed are at its head, so
\* that the consumed ones and those never exceed what a slot drains.
Fits(l) ==
    /\ Len(l.actions) <= ActionsCap
    /\ l.consumed <= BroadcastsDrained
    /\ l.tx_buf <= FramesPerTxCell * FrameLen
    /\ \A i \in DOMAIN l.actions :
          /\ l.actions[i].tag = "tx_broadcast" => l.consumed + i <= BroadcastsDrained
          /\ l.actions[i].tag \in {"tx_data", "deliver"} => l.actions[i].end <= l.tx_buf

LEMMA FitsSuffices ==
    ASSUME TypeOK, Fits(list)
    PROVE  WithinCapacity
<1>1. list.consumed \in Nat /\ list.tx_buf \in Nat
    BY TypeParts DEF ListType
<1>2. FramesPerTxCell * FrameLen \in Nat /\ TxBufCap \in Nat /\ BroadcastsDrained \in Nat
      /\ ConsumedCap \in Nat
    BY CapacityAssumption
<1>3. list.tx_buf <= TxBufCap /\ list.consumed <= ConsumedCap
    BY <1>1, <1>2, CapacityAssumption DEF Fits
<1>4. QED
    BY <1>3 DEF Fits, WithinCapacity

\* A slot that finds the list empty does not overfill it.
LEMMA SlotFits ==
    ASSUME TypeOK, NEW b \in Nat, NEW cell, QueuesSlot(b, cell), Discipline
    PROVE  Fits(list')
<1>1. list = [actions |-> <<>>, consumed |-> 0, tx_buf |-> 0]
    BY DEF QueuesSlot, Calls, Discipline
<1>2. PICK k \in 0 .. FramesPerTxCell :
        /\ cell \in Seq(Action)
        /\ Len(cell) \in {k, k + 1}
        /\ \A i \in DOMAIN cell :
              /\ cell[i].tag = IF i <= k THEN "tx_data" ELSE "tune_data"
              /\ i <= k => cell[i].end = i * FrameLen
    <2>1. PICK k \in 0 .. FramesPerTxCell :
            /\ cell \in Seq(Action)
            /\ Len(cell) \in {k, k + 1}
            /\ \A i \in DOMAIN cell :
                  /\ cell[i].tag = IF i <= k THEN "tx_data" ELSE "tune_data"
                  /\ i <= k => cell[i].end = list.tx_buf + i * FrameLen
        BY DEF QueuesSlot, CellFits
    <2>2. list.tx_buf = 0 /\ FrameLen \in Nat
        BY <1>1, CapacityAssumption
    <2>3. \A i \in DOMAIN cell : i \in Nat /\ i * FrameLen \in Nat
        BY <2>1, <2>2
    <2>4. \A i \in DOMAIN cell : list.tx_buf + i * FrameLen = i * FrameLen
        BY <2>2, <2>3
    <2>5. QED
        BY <2>1, <2>4
<1>3. k \in Nat /\ k <= FramesPerTxCell /\ FramesPerTxCell \in Nat /\ FrameLen \in Nat
      /\ BroadcastsDrained \in Nat
    BY CapacityAssumption
<1> DEFINE d == Drained(b)
           a == d \o cell \o <<Schedule("slot")>>
<1>4. /\ d \in Seq(Action) /\ Len(d) <= BroadcastsDrained
      /\ \A i \in DOMAIN d : d[i].tag = "tx_broadcast"
    <2>1. d \in Seq(Action) /\ Len(d) = AtMost(b, BroadcastsDrained)
          /\ \A i \in DOMAIN d : d[i] = [tag |-> "tx_broadcast"]
        BY DrainedType
    <2>2. AtMost(b, BroadcastsDrained) <= BroadcastsDrained
        BY <1>3, AtMostType
    <2> HIDE DEF d
    <2>3. \A i \in DOMAIN d : d[i].tag = "tx_broadcast"
        BY <2>1
    <2>4. QED
        BY <2>1, <2>2, <2>3
<1>5. {i \in DOMAIN cell : cell[i].tag = "tx_data"} = 1 .. k
    <2>1. DOMAIN cell = 1 .. Len(cell)
        BY <1>2
    <2>2. \A i \in DOMAIN cell : cell[i].tag = IF i <= k THEN "tx_data" ELSE "tune_data"
        BY <1>2
    <2>3. Len(cell) \in {k, k + 1}
        BY <1>2
    <2>4. QED
        BY <1>3, <2>1, <2>2, <2>3, FrameIndices
<1>6. Cardinality({i \in DOMAIN cell : cell[i].tag = "tx_data"}) = k
    BY <1>3, <1>5, IntervalCardinality
<1>7. list'.actions = a /\ list'.consumed = 0 /\ list'.tx_buf = FrameLen * k
    <2>1. <<>> \o d = d
        BY <1>4
    <2>2. 0 + FrameLen * k = FrameLen * k
        BY <1>3
    <2>3. QED
        BY <1>1, <1>6, <2>1, <2>2 DEF QueuesSlot
<1>8. Schedule("slot") \in Action /\ Schedule("slot").tag = "schedule"
    BY ActionConstructors DEF Token, Schedule
<1> HIDE DEF d
<1>9. /\ Len(a) = Len(d) + Len(cell) + 1
      /\ DOMAIN a = 1 .. Len(d) + Len(cell) + 1
      /\ \A i \in 1 .. Len(d) : a[i] = d[i]
      /\ \A i \in 1 .. Len(cell) : a[Len(d) + i] = cell[i]
      /\ a[Len(d) + Len(cell) + 1] = Schedule("slot")
    BY <1>2, <1>4, <1>8
<1> HIDE DEF a
<1>10. \A i \in 1 .. k : i * FrameLen <= FrameLen * k
    BY <1>3, TimesMonotone
<1>11. FrameLen * k <= FramesPerTxCell * FrameLen
    BY <1>3, TimesMonotone
<1>12. Len(a) <= ActionsCap
    BY <1>2, <1>3, <1>4, <1>9, CapacityAssumption
<1>13. ASSUME NEW i \in DOMAIN a
       PROVE  /\ a[i].tag = "tx_broadcast" => 0 + i <= BroadcastsDrained
              /\ a[i].tag \in {"tx_data", "deliver"} => a[i].end <= FrameLen * k
    <2>1. CASE i <= Len(d)
        BY <1>3, <1>4, <1>9, <2>1
    <2>2. CASE i > Len(d) /\ i <= Len(d) + Len(cell)
        <3>1. i - Len(d) \in 1 .. Len(cell) /\ a[i] = cell[i - Len(d)]
            BY <1>2, <1>4, <1>9, <2>2
        <3>2. a[i].tag # "tx_broadcast" /\ a[i].tag # "deliver"
            BY <1>2, <3>1
        <3>3. a[i].tag = "tx_data" => i - Len(d) \in 1 .. k
            BY <1>2, <1>3, <3>1
        <3>4. QED
            BY <1>2, <1>10, <3>1, <3>2, <3>3
    <2>3. CASE i = Len(d) + Len(cell) + 1
        BY <1>8, <1>9, <2>3
    <2>4. i \in 1 .. Len(d) + Len(cell) + 1 /\ Len(d) \in Nat /\ Len(cell) \in Nat
        BY <1>2, <1>4, <1>9
    <2>5. \/ i <= Len(d)
          \/ i > Len(d) /\ i <= Len(d) + Len(cell)
          \/ i = Len(d) + Len(cell) + 1
        BY <2>4
    <2>6. QED
        BY <2>1, <2>2, <2>3, <2>5
<1>14. QED
    BY <1>3, <1>7, <1>11, <1>12, <1>13 DEF Fits

LEMMA FitsStep ==
    ASSUME TypeOK, Discipline, Fits(list), [Next]_vars
    PROVE  Fits(list')
<1>1. list \in ListType /\ list.actions \in Seq(Action) /\ list.consumed \in Nat
      /\ list.tx_buf \in Nat
    BY TypeParts DEF ListType
<1>2. /\ FramesPerTxCell \in Nat \ {0} /\ FrameLen \in Nat \ {0}
      /\ BroadcastsDrained \in Nat \ {0} /\ ActionsCap \in Nat /\ ActionsCap >= 4
      /\ FramesPerTxCell * FrameLen \in Nat
    <2>1. /\ FramesPerTxCell \in Nat \ {0} /\ FrameLen \in Nat \ {0}
          /\ BroadcastsDrained \in Nat \ {0} /\ ActionsCap \in Nat
          /\ BroadcastsDrained + FramesPerTxCell + 2 <= ActionsCap
        BY CapacityAssumption
    <2>2. ActionsCap >= 4
        BY <2>1
    <2>3. FramesPerTxCell * FrameLen \in Nat
        BY <2>1
    <2>4. QED
        BY <2>1, <2>2, <2>3
<1>3. FrameLen <= FramesPerTxCell * FrameLen
    <2>1. 1 * FrameLen <= FramesPerTxCell * FrameLen
        BY <1>2, TimesMonotone
    <2>2. QED
        BY <1>2, <2>1
<1>4. ~draining => list = [actions |-> <<>>, consumed |-> 0, tx_buf |-> 0]
    BY DEF Discipline
<1>5. CASE Start
    <2>1. list' = [actions |-> <<Schedule("announce"), Schedule("slot")>>, consumed |-> 0,
                   tx_buf |-> 0]
        BY <1>4, <1>5 DEF Start, Discipline
    <2>2. Schedule("announce").tag = "schedule" /\ Schedule("slot").tag = "schedule"
        BY DEF Schedule
    <2>3. QED
        BY <1>2, <2>1, <2>2 DEF Fits
<1>6. CASE QueuesNothing
    BY <1>6 DEF QueuesNothing
<1>7. ASSUME NEW tok \in Token, QueuesTimer(tok) PROVE Fits(list')
    <2>1. list' = [actions |-> <<Schedule(tok)>>, consumed |-> 0, tx_buf |-> 0]
        BY <1>4, <1>7 DEF QueuesTimer, Calls
    <2>2. Schedule(tok).tag = "schedule"
        BY DEF Schedule
    <2>3. QED
        BY <1>2, <2>1, <2>2 DEF Fits
<1>8. ASSUME NEW m \in Message, DeliverRx(m) PROVE Fits(list')
    <2> DEFINE a == [tag |-> "deliver", message |-> m, end |-> FrameLen]
    <2>3. list = [actions |-> <<>>, consumed |-> 0, tx_buf |-> 0]
        BY <1>4, <1>8 DEF DeliverRx, Stimulus, Calls
    <2>4. list.tx_buf + FrameLen = FrameLen
        BY <1>2, <2>3
    <2>5. list' = [list EXCEPT !.actions = Append(@, a), !.tx_buf = FrameLen]
        BY <1>8, <2>4 DEF DeliverRx
    <2>6. a.tag = "deliver" /\ a.end = FrameLen
        OBVIOUS
    <2> HIDE DEF a
    <2>7. Append(<<>>, a) = <<a>>
        OBVIOUS
    <2>1. list'.actions = <<a>> /\ list'.consumed = 0 /\ list'.tx_buf = FrameLen
        BY <1>1, <2>3, <2>5, <2>7 DEF ListType
    <2>2. QED
        BY <1>2, <1>3, <2>1, <2>6 DEF Fits
<1>9. ASSUME NEW b \in Nat, NEW cell, QueuesSlot(b, cell) PROVE Fits(list')
    BY <1>9, SlotFits
<1>10. ASSUME NEW tag, NEW c \in {0, 1}, TakesOne(tag, c) PROVE Fits(list')
    <2>1. /\ list.actions # <<>> /\ list'.actions = Tail(list.actions)
          /\ list'.consumed = list.consumed + c /\ list'.tx_buf = list.tx_buf
          /\ list.actions[1].tag = tag
        BY <1>1, <1>10, TakesType DEF TakesOne, Takes
    <2>2. /\ Len(list'.actions) = Len(list.actions) - 1
          /\ \A i \in DOMAIN list'.actions : /\ i \in Nat /\ i + 1 \in DOMAIN list.actions
                                             /\ list'.actions[i] = list.actions[i + 1]
        BY <1>1, <2>1
    <2>3. c = 1 => list.consumed + 1 <= BroadcastsDrained
        <3>1. SUFFICES ASSUME c = 1 PROVE list.consumed + 1 <= BroadcastsDrained
            OBVIOUS
        <3>2. list.actions[1].tag = "tx_broadcast" /\ 1 \in DOMAIN list.actions
            BY <1>1, <1>10, <2>1, <3>1 DEF TakesOne
        <3>3. QED
            BY <3>2 DEF Fits
    <2>4. list'.consumed <= BroadcastsDrained
        BY <1>1, <2>1, <2>3 DEF Fits
    <2>5. Len(list'.actions) <= ActionsCap
        BY <1>1, <1>2, <2>2 DEF Fits
    <2>6. ASSUME NEW i \in DOMAIN list'.actions
          PROVE  /\ list'.actions[i].tag = "tx_broadcast"
                        => list'.consumed + i <= BroadcastsDrained
                 /\ list'.actions[i].tag \in {"tx_data", "deliver"}
                        => list'.actions[i].end <= list'.tx_buf
        <3>1. /\ list.actions[i + 1].tag = "tx_broadcast"
                    => list.consumed + (i + 1) <= BroadcastsDrained
              /\ list.actions[i + 1].tag \in {"tx_data", "deliver"}
                    => list.actions[i + 1].end <= list.tx_buf
            BY <2>2 DEF Fits
        <3>2. list.consumed + c + i <= list.consumed + (i + 1)
            BY <1>1, <2>2
        <3>3. list'.consumed + i = list.consumed + c + i /\ i \in Nat
            BY <2>1, <2>2
        <3>4. QED
            BY <1>1, <1>2, <2>1, <2>2, <3>1, <3>2, <3>3
    <2>7. QED
        BY <2>1, <2>4, <2>5, <2>6 DEF Fits
<1>11. CASE DrainEnds
    <2>1. list'.actions = <<>> /\ list'.consumed = 0 /\ list'.tx_buf = 0
        BY <1>1, <1>11 DEF DrainEnds, Freed, ListType
    <2>2. QED
        BY <1>2, <2>1 DEF Fits
<1>12. CASE UNCHANGED <<list, stage, draining, wakeups>>
    BY <1>12
<1>13. QED
    BY <1>5, <1>6, <1>7, <1>8, <1>9, <1>10, <1>11, <1>12, ListTouched,
       SlotQueues

(***************************************************************************)
(* The radios.                                                             *)
(***************************************************************************)
\* What keeps frames apart on the way to a radio: dataTxBusy is set when a frame
\* leaves for the radio and cleared when its transmission ends; the backoff timer
\* waits for an idle broadcast radio.
BcastFree(b) == b.out > 0 => b.out = 1 /\ "transmit" \notin b.radio

OneUnderWay(d) ==
    /\ d.out # <<>> => Len(d.out) = 1 /\ d.radio = None /\ d.busy
    /\ d.radio # None => d.busy

RadiosFree == BcastFree(bcast) /\ OneUnderWay(data)

LEMMA PumpBcastKeeps ==
    ASSUME NEW b \in BcastType
    PROVE  PumpBcast(b).out = b.out /\ PumpBcast(b).radio = b.radio
    BY DEF PumpBcast, BcastType

LEMMA PumpDataKeeps ==
    ASSUME NEW d \in DataType, OneUnderWay(d)
    PROVE  OneUnderWay(PumpData(d)) /\ PumpData(d).freq = d.freq
<1>1. CASE ~DataFree(d)
    BY <1>1 DEF PumpData
<1>2. CASE DataFree(d)
    <2> DEFINE f == [to |-> Head(d.queue), slot |-> node.asn]
    <2>1. ~d.busy /\ d.out = <<>> /\ d.radio = None
        BY <1>2 DEF DataFree, OneUnderWay
    <2>2. PumpData(d) = [d EXCEPT !.busy = TRUE, !.queue = Tail(@), !.out = Append(@, f)]
        BY <1>2 DEF PumpData
    <2>3. /\ PumpData(d).out = <<f>> /\ PumpData(d).radio = None /\ PumpData(d).busy
          /\ PumpData(d).freq = d.freq
        BY <2>1, <2>2 DEF DataType
    <2>4. Len(<<f>>) = 1
        OBVIOUS
    <2>5. QED
        BY <2>3, <2>4 DEF OneUnderWay
<1>3. QED
    BY <1>1, <1>2

LEMMA BcastFreeStep ==
    ASSUME TypeOK, BcastFree(bcast), [Next]_vars
    PROVE  BcastFree(bcast')
<1>1. bcast \in BcastType
    BY TypeParts
<1>2. CASE bcast' = bcast
    BY <1>2
<1>3. CASE TakeTxBroadcast
    <2> DEFINE b == [bcast EXCEPT !.queue = @ + 1]
    <2>1. b \in BcastType /\ b.out = bcast.out /\ b.radio = bcast.radio
        BY <1>1 DEF BcastType
    <2>2. bcast' = PumpBcast(b)
        BY <1>3 DEF TakeTxBroadcast
    <2> HIDE DEF b
    <2>3. QED
        BY <2>1, <2>2, PumpBcastKeeps DEF BcastFree
<1>4. CASE BackoffEnds
    <2>1. AtMost(bcast.queue, 1) \in Nat /\ AtMost(bcast.queue, 1) <= 1
        BY <1>1, AtMostType DEF BcastType
    <2>2. bcast'.out = AtMost(bcast.queue, 1) /\ bcast'.radio = {}
        BY <1>1, <1>4 DEF BackoffEnds, BcastType
    <2>3. QED
        BY <2>1, <2>2 DEF BcastFree
<1>5. CASE BroadcastTxStarts
    <2> DEFINE b == [bcast EXCEPT !.out = @ - 1, !.radio = @ \cup {"transmit"}, !.busy = TRUE]
    <2>1. bcast.out - 1 \in Nat /\ bcast.radio \cup {"transmit"} \subseteq {"transmit", "receive"}
        BY <1>1, <1>5 DEF BroadcastTxStarts, BcastType
    <2>2. b \in BcastType /\ b.out = bcast.out - 1
        BY <1>1, <2>1 DEF BcastType
    <2>3. bcast.out = 1
        BY <1>5 DEF BroadcastTxStarts, BcastFree
    <2>4. bcast' = PumpBcast(b)
        BY <1>5 DEF BroadcastTxStarts
    <2> HIDE DEF b
    <2>5. bcast'.out = 0
        BY <2>2, <2>3, <2>4, PumpBcastKeeps
    <2>6. QED
        BY <2>5 DEF BcastFree
<1>6. CASE BroadcastTxEnds
    <2> DEFINE b == [bcast EXCEPT !.radio = @ \ {"transmit"}, !.busy = FALSE]
    <2>1. b \in BcastType /\ b.out = bcast.out /\ "transmit" \notin b.radio
        BY <1>1 DEF BcastType
    <2>2. bcast' = PumpBcast(b)
        BY <1>6 DEF BroadcastTxEnds
    <2> HIDE DEF b
    <2>3. QED
        BY <2>1, <2>2, PumpBcastKeeps DEF BcastFree
<1>7. CASE ReceptionStarts \/ ReceptionFails \/ BroadcastIn
    <2>1. bcast'.out = bcast.out /\ bcast'.radio \subseteq bcast.radio \cup {"receive"}
        BY <1>1, <1>7 DEF ReceptionStarts, ReceptionFails, BroadcastIn, BcastType
    <2>2. QED
        BY <2>1 DEF BcastFree
<1>8. SlotEvent => bcast' = bcast
    BY DEF SlotEvent, SlotZero, SlotWithTx, SlotWithoutTx, SlotWakeup, WakeupFires
<1>9. Start \/ AddTargetPeers \/ AnnounceWakeup \/ TrafficTimer \/ DataRx
         \/ (\E m \in Message : DeliverRx(m)) \/ DataEvent \/ UNCHANGED vars
         => bcast' = bcast
    BY DEF Start, AddTargetPeers, AnnounceWakeup, WakeupFires, TrafficTimer, DataRx, DeliverRx,
           Stimulus, DataEvent, DataTxStarts, DataTxEnds, vars
<1>10. Drain => bcast' = bcast \/ TakeTxBroadcast
    BY DEF Drain, TakeTxData, TakeTuneData, TakeSchedule, TakeDeliver, DrainEnds
<1>11. BroadcastRx \/ (\E slot \in Slot : BeaconRx(slot)) => BroadcastIn
    BY DEF BroadcastRx, BeaconRx
<1>12. QED
    BY <1>2, <1>3, <1>4, <1>5, <1>6, <1>7, <1>8, <1>9, <1>10, <1>11
       DEF Next, BroadcastEvent

\* Only these steps touch the data queue and its radio.
LEMMA DataTouched ==
    ASSUME [Next]_vars
    PROVE  data' = data \/ TakeTxData \/ TakeTuneData \/ DataTxStarts \/ DataTxEnds
<1>1. SlotEvent => data' = data
    BY DEF SlotEvent, SlotZero, SlotWithTx, SlotWithoutTx, SlotWakeup, WakeupFires, Calls
<1>2. Start \/ AddTargetPeers \/ AnnounceWakeup \/ TrafficTimer \/ DataRx
        \/ (\E m \in Message : DeliverRx(m)) \/ UNCHANGED vars
        => data' = data
    BY DEF Start, AddTargetPeers, AnnounceWakeup, WakeupFires, TrafficTimer, DataRx, DeliverRx,
           Stimulus, Calls, vars
<1>3. BroadcastEvent \/ ReceptionStarts => data' = data
    BY DEF BroadcastEvent, BackoffEnds, BroadcastTxStarts, BroadcastTxEnds, ReceptionFails,
           BroadcastRx, BeaconRx, BroadcastIn, ReceptionStarts, Calls
<1>4. Drain => data' = data \/ TakeTxData \/ TakeTuneData
    BY DEF Drain, TakeTxBroadcast, TakeSchedule, TakeDeliver, DrainEnds
<1>5. QED
    BY <1>1, <1>2, <1>3, <1>4 DEF Next, DataEvent

LEMMA OneUnderWayStep ==
    ASSUME TypeOK, OneUnderWay(data), [Next]_vars
    PROVE  OneUnderWay(data')
<1>1. data \in DataType /\ node \in NodeType
    BY TypeParts
<1>2. CASE data' = data
    BY <1>2
<1>3. CASE TakeTxData
    <2> DEFINE to == Head(list.actions).to
               d == [data EXCEPT !.freq = Channel(PeerCell[to], node.asn),
                                 !.queue = Append(@, to)]
    <2>1. to \in Peer
        BY <1>3, TakesType, ActionFields DEF TakeTxData
    <2>2. Channel(PeerCell[to], node.asn) \in Slot
        BY <1>1, <2>1, CellAssumption, ChannelType DEF NodeType
    <2>3. Append(data.queue, to) \in Seq(Peer)
        BY <1>1, <2>1, AppendProperties DEF DataType
    <2>4. d \in DataType
        BY <1>1, <2>2, <2>3 DEF DataType
    <2>5. d.out = data.out /\ d.radio = data.radio /\ d.busy = data.busy
        BY <1>1 DEF DataType
    <2>6. data' = PumpData(d)
        BY <1>3 DEF TakeTxData
    <2> HIDE DEF d
    <2>7. OneUnderWay(d)
        BY <2>5 DEF OneUnderWay
    <2>8. QED
        BY <2>4, <2>6, <2>7, PumpDataKeeps
<1>4. CASE TakeTuneData
    <2>1. data'.out = data.out /\ data'.radio = data.radio /\ data'.busy = data.busy
        BY <1>1, <1>4 DEF TakeTuneData, DataType
    <2>2. QED
        BY <2>1 DEF OneUnderWay
<1>5. CASE DataTxStarts
    <2>1. data.out \in Seq(Sent) /\ Len(data.out) = 1
        BY <1>1, <1>5 DEF DataTxStarts, OneUnderWay, DataType
    <2>2. Tail(data.out) = <<>>
        <3>1. data.out # <<>>
            BY <1>5 DEF DataTxStarts
        <3>2. Tail(data.out) \in Seq(Sent) /\ Len(Tail(data.out)) = Len(data.out) - 1
            BY <2>1, <3>1, HeadTailProperties
        <3>3. Len(Tail(data.out)) = 0
            BY <2>1, <3>2
        <3>4. QED
            BY <3>2, <3>3, EmptySeq
    <2>3. data'.out = <<>> /\ data'.busy
        BY <1>1, <1>5, <2>2 DEF DataTxStarts, DataType
    <2>4. QED
        BY <2>3 DEF OneUnderWay
<1>6. CASE DataTxEnds
    <2> DEFINE d == [data EXCEPT !.radio = None, !.busy = FALSE]
    <2>1. d \in DataType /\ d.out = <<>> /\ d.radio = None
        BY <1>1, <1>6 DEF DataTxEnds, OneUnderWay, DataType
    <2>2. data' = PumpData(d)
        BY <1>6 DEF DataTxEnds, PumpAfterTx
    <2> HIDE DEF d
    <2>3. OneUnderWay(d)
        BY <2>1 DEF OneUnderWay
    <2>4. QED
        BY <2>1, <2>2, <2>3, PumpDataKeeps
<1>7. QED
    BY <1>2, <1>3, <1>4, <1>5, <1>6, DataTouched

(***************************************************************************)
(* The channel.                                                            *)
(***************************************************************************)
\* In the node's own slot the last action that tunes the data radio tunes it to
\* the channel of the node's cell, or the radio is tuned to it already.
Tunes(a) == a.tag \in {"tx_data", "tune_data"}

Quiet(l, from) == \A j \in DOMAIN l.actions : j > from => ~Tunes(l.actions[j])

EndsOn(ch, l, freq) ==
    \/ freq = ch /\ Quiet(l, 0)
    \/ \E i \in DOMAIN l.actions :
          /\ l.actions[i] = [tag |-> "tune_data", channel |-> ch]
          /\ Quiet(l, i)

OwnTuning ==
    handled = OwnCell.slot_offset => EndsOn(Channel(OwnCell, handled), list, data.freq)

\* The slot the node owns ends on its channel, whether it transmits or not.
LEMMA OwnSlotTunes ==
    ASSUME TypeOK, SlotEvent, NextSlot = OwnCell.slot_offset
    PROVE  EndsOn(Channel(OwnCell, NextSlot), list', data'.freq)
<1>1. /\ node.broadcast_queue \in Nat /\ node.pending_tx \in [Peer -> Nat]
      /\ node.asn \in Slot /\ list.tx_buf \in Nat /\ list.actions \in Seq(Action)
      /\ list \in ListType
    BY TypeParts DEF NodeType, ListType
<1>2. NextSlot \in Slot
    BY <1>1, NextSlotType
<1> DEFINE tune == [tag |-> "tune_data", channel |-> Channel(OwnCell, NextSlot)]
<1>3. tune \in Action
    BY <1>2, ChannelType, CellAssumption, ActionConstructors
<1>4. TuneToOwnRx(NextSlot) = <<tune>>
    BY DEF TuneToOwnRx
<1>5. NextSlot # 0
    BY CellAssumption DEF Cell
<1>6. Schedule("slot") \in Action /\ ~Tunes(Schedule("slot"))
    BY ActionConstructors DEF Token, Schedule, Tunes
<1>7. ASSUME NEW x \in Seq(Action), NEW b \in Nat, SlotWakeup(b, x \o <<tune>>)
      PROVE  EndsOn(Channel(OwnCell, NextSlot), list', data'.freq)
    <2> DEFINE y == list.actions \o Drained(b) \o x
               i == Len(y) + 1
               z == y \o <<tune>> \o <<Schedule("slot")>>
    <2>1. Drained(b) \in Seq(Action)
        BY DrainedType
    <2>2. y \in Seq(Action)
        BY <1>1, <2>1, ConcatProperties
    <2> HIDE DEF tune
    <2>3. list'.actions = list.actions \o Drained(b) \o (x \o <<tune>>) \o <<Schedule("slot")>>
        BY <1>1, <1>7 DEF SlotWakeup, NextSlotTimer, ListType
    <2>4. list.actions \o Drained(b) \o (x \o <<tune>>) = y \o <<tune>>
        <3>1. list.actions \o Drained(b) \in Seq(Action) /\ <<tune>> \in Seq(Action)
            BY <1>1, <1>3, <2>1, ConcatProperties
        <3>2. QED
            <4> DEFINE w == list.actions \o Drained(b)
                       t == <<tune>>
            <4>1. w \in Seq(Action) /\ t \in Seq(Action)
                BY <3>1
            <4> HIDE DEF w, t
            <4>2. (w \o x) \o t = w \o (x \o t)
                BY <4>1, ConcatAssociative
            <4>3. QED
                BY <4>2, Zenon DEF w, t
    <2>5. list'.actions = z
        BY <2>3, <2>4
    <2> HIDE DEF y
    <2>6. /\ DOMAIN z = 1 .. i + 1 /\ z[i] = tune /\ z[i + 1] = Schedule("slot")
          /\ i \in Nat /\ i >= 1
        BY <1>3, <1>6, <2>2
    <2> HIDE DEF z, i
    <2>7. i \in DOMAIN z /\ \A j \in DOMAIN z : j > i => j = i + 1
        BY <2>6
    <2>8. Quiet(list', i)
        BY <1>6, <2>5, <2>6, <2>7 DEF Quiet
    <2>9. QED
        BY <2>5, <2>6, <2>7, <2>8 DEF EndsOn, tune
<1>8. CASE SlotZero
    BY <1>5, <1>8 DEF SlotZero
<1>9. ASSUME NEW p \in Peer, SlotWithTx(p)
      PROVE  EndsOn(Channel(OwnCell, NextSlot), list', data'.freq)
    <2>1. SlotWakeup(node.broadcast_queue, Frames(p) \o <<tune>>)
        BY <1>4, <1>9 DEF SlotWithTx
    <2>2. Frames(p) \in Seq(Action)
        BY <1>1, FramesType
    <2>3. QED
        BY <1>1, <1>7, <2>1, <2>2
<1>10. CASE SlotWithoutTx
    <2>1. SlotWakeup(node.broadcast_queue, <<tune>>)
        BY <1>4, <1>10 DEF SlotWithoutTx
    <2>2. <<tune>> = <<>> \o <<tune>> /\ <<>> \in Seq(Action)
        BY <1>3
    <2>3. QED
        BY <1>1, <1>7, <2>1, <2>2
<1>11. QED
    BY <1>8, <1>9, <1>10 DEF SlotEvent

\* Only a slot makes itself the slot of the latest wakeup.
LEMMA HandledTouched ==
    ASSUME [Next]_vars
    PROVE  \/ SlotEvent /\ handled' = NextSlot
           \/ handled' = None
           \/ handled' = handled
<1>1. SlotEvent => handled' = NextSlot
    BY DEF SlotEvent, SlotZero, SlotWithTx, SlotWithoutTx, SlotWakeup
<1>2. (\E slot \in Slot : BeaconRx(slot)) => handled' = None
    BY DEF BeaconRx
<1>3. Start \/ AddTargetPeers \/ AnnounceWakeup \/ TrafficTimer \/ DataRx
        \/ (\E m \in Message : DeliverRx(m)) \/ ReceptionStarts \/ DataEvent
        \/ UNCHANGED vars
        => handled' = handled
    BY DEF Start, AddTargetPeers, AnnounceWakeup, TrafficTimer, DataRx, DeliverRx, Stimulus,
           ReceptionStarts, DataEvent, DataTxStarts, DataTxEnds, Apart, vars
<1>4. BackoffEnds \/ BroadcastTxStarts \/ BroadcastTxEnds \/ ReceptionFails \/ BroadcastRx
        => handled' = handled
    BY DEF BackoffEnds, BroadcastTxStarts, BroadcastTxEnds, ReceptionFails, BroadcastRx, Apart
<1>5. Drain => handled' = handled
    BY DEF Drain, TakeTxBroadcast, TakeTxData, TakeTuneData, TakeSchedule, TakeDeliver,
           DrainEnds, Takes
<1>6. QED
    BY <1>1, <1>2, <1>3, <1>4, <1>5 DEF Next, BroadcastEvent

\* Only an action of the list changes the channel of the data radio.
LEMMA FreqTouched ==
    ASSUME TypeOK, OneUnderWay(data), [Next]_vars, ~draining
    PROVE  data'.freq = data.freq
<1>1. data \in DataType /\ node \in NodeType
    BY TypeParts
<1>2. ~TakeTxData /\ ~TakeTuneData
    BY DEF TakeTxData, TakeTuneData, Takes
<1>3. CASE data' = data
    BY <1>3
<1>4. CASE DataTxStarts
    BY <1>1, <1>4 DEF DataTxStarts, DataType
<1>5. CASE DataTxEnds
    <2> DEFINE d == [data EXCEPT !.radio = None, !.busy = FALSE]
    <2>1. d \in DataType /\ d.out = <<>> /\ d.radio = None /\ d.freq = data.freq
        BY <1>1, <1>5 DEF DataTxEnds, OneUnderWay, DataType
    <2>2. data' = PumpData(d)
        BY <1>5 DEF DataTxEnds, PumpAfterTx
    <2> HIDE DEF d
    <2>3. OneUnderWay(d)
        BY <2>1 DEF OneUnderWay
    <2>4. QED
        BY <2>1, <2>2, <2>3, PumpDataKeeps
<1>6. QED
    BY <1>2, <1>3, <1>4, <1>5, DataTouched

LEMMA OwnTuningStep ==
    ASSUME TypeOK, Discipline, OneUnderWay(data), OwnTuning, [Next]_vars
    PROVE  OwnTuning'
<1> DEFINE ch == Channel(OwnCell, OwnCell.slot_offset)
<1>1. list \in ListType /\ list.actions \in Seq(Action)
    BY TypeParts DEF ListType
<1>2. CASE SlotEvent /\ handled' = NextSlot
    BY <1>2, OwnSlotTunes DEF OwnTuning
<1>3. CASE handled' = None
    <2>1. OwnCell.slot_offset # None
        BY CellAssumption DEF Cell
    <2>2. QED
        BY <1>3, <2>1 DEF OwnTuning
<1>4. SUFFICES ASSUME handled' = handled, handled = OwnCell.slot_offset, ~SlotEvent
               PROVE  EndsOn(ch, list', data'.freq)
    <2>1. SlotEvent => handled' = NextSlot
        BY DEF SlotEvent, SlotZero, SlotWithTx, SlotWithoutTx, SlotWakeup
    <2>2. QED
        BY <1>2, <1>3, <2>1, HandledTouched DEF OwnTuning
<1>5. EndsOn(ch, list, data.freq)
    BY <1>4 DEF OwnTuning
<1> HIDE DEF ch
<1>6. ASSUME ~draining
      PROVE  list.actions = <<>> /\ data.freq = ch /\ data'.freq = data.freq
    <2>1. list.actions = <<>> /\ DOMAIN list.actions = {}
        BY <1>6 DEF Discipline
    <2>2. data'.freq = data.freq
        BY <1>6, FreqTouched
    <2>3. QED
        BY <1>5, <2>1, <2>2 DEF EndsOn
<1>7. CASE Start
    <2>1. list'.actions = <<Schedule("announce"), Schedule("slot")>>
        BY <1>1, <1>7 DEF Start, ListType
    <2>2. ~Tunes(Schedule("announce")) /\ ~Tunes(Schedule("slot"))
        BY DEF Schedule, Tunes
    <2>3. ~draining
        BY <1>7 DEF Start, Discipline
    <2>4. Quiet(list', 0)
        BY <2>1, <2>2 DEF Quiet
    <2>5. QED
        BY <1>6, <2>3, <2>4 DEF EndsOn
<1>8. ASSUME NEW tok \in Token, QueuesTimer(tok) PROVE EndsOn(ch, list', data'.freq)
    <2>1. ~draining
        BY <1>8 DEF QueuesTimer, Calls
    <2>6. list'.actions = Append(list.actions, Schedule(tok))
        BY <1>1, <1>8 DEF QueuesTimer, ListType
    <2>7. Append(<<>>, Schedule(tok)) = <<Schedule(tok)>>
        OBVIOUS
    <2>2. list'.actions = <<Schedule(tok)>>
        BY <1>6, <2>1, <2>6, <2>7, Zenon
    <2>3. ~Tunes(Schedule(tok))
        BY DEF Schedule, Tunes
    <2>4. Quiet(list', 0)
        BY <2>2, <2>3 DEF Quiet
    <2>5. QED
        BY <1>6, <2>1, <2>4 DEF EndsOn
<1>9. ASSUME NEW m \in Message, DeliverRx(m) PROVE EndsOn(ch, list', data'.freq)
    <2> DEFINE a == [tag |-> "deliver", message |-> m, end |-> list.tx_buf + FrameLen]
    <2>1. ~draining
        BY <1>9 DEF DeliverRx, Stimulus, Calls
    <2>2. ~Tunes(a)
        BY DEF Tunes
    <2>3. list' = [list EXCEPT !.actions = Append(@, a), !.tx_buf = list.tx_buf + FrameLen]
        BY <1>9 DEF DeliverRx
    <2> HIDE DEF a
    <2>4. list'.actions = Append(list.actions, a)
        BY <1>1, <2>3 DEF ListType
    <2>5. list'.actions = <<a>>
        <3>1. Append(<<>>, a) = <<a>>
            OBVIOUS
        <3>2. QED
            BY <1>6, <2>1, <2>4, <3>1, Zenon
    <2>6. Quiet(list', 0)
        BY <2>2, <2>5 DEF Quiet
    <2>7. QED
        BY <1>6, <2>1, <2>6 DEF EndsOn
<1>10. CASE list' = list /\ data'.freq = data.freq
    BY <1>5, <1>10
<1>11. CASE DrainEnds
    <2>1. list.actions = <<>> /\ DOMAIN list.actions = {} /\ data' = data
        BY <1>11 DEF DrainEnds
    <2>2. list'.actions = <<>>
        BY <1>1, <1>11 DEF DrainEnds, Freed, ListType
    <2>3. data.freq = ch
        BY <1>5, <2>1 DEF EndsOn
    <2>4. QED
        BY <2>1, <2>2, <2>3 DEF EndsOn, Quiet
<1>12. ASSUME NEW tag, NEW c \in {0, 1}, TakesOne(tag, c) PROVE EndsOn(ch, list', data'.freq)
    <2>1. /\ list.actions # <<>> /\ list'.actions = Tail(list.actions)
          /\ Head(list.actions) = list.actions[1] /\ list.actions[1].tag = tag
        BY <1>1, <1>12, TakesType DEF TakesOne, Takes
    <2>2. /\ DOMAIN list'.actions = 1 .. Len(list.actions) - 1
          /\ DOMAIN list.actions = 1 .. Len(list.actions)
          /\ Len(list.actions) \in Nat \ {0}
          /\ \A j \in DOMAIN list'.actions : list'.actions[j] = list.actions[j + 1]
        BY <1>1, <2>1
    <2>3. ASSUME NEW i \in Nat, i >= 1, Quiet(list, i) PROVE Quiet(list', i - 1)
        <3>1. SUFFICES ASSUME NEW j \in DOMAIN list'.actions, j > i - 1
                       PROVE  ~Tunes(list'.actions[j])
            BY DEF Quiet
        <3>2. j \in Nat /\ j + 1 > i /\ j + 1 \in DOMAIN list.actions
            BY <2>2, <2>3, <3>1
        <3>3. ~Tunes(list.actions[j + 1])
            BY <2>3, <3>2 DEF Quiet
        <3>4. QED
            BY <2>2, <3>3
    <2>4. CASE data.freq = ch /\ Quiet(list, 0)
        <3>1. ~Tunes(list.actions[1])
            BY <2>2, <2>4 DEF Quiet
        <3>2. data'.freq = ch
            BY <1>12, <2>1, <2>4, <3>1 DEF TakesOne, Tunes
        <3>3. Quiet(list', 0)
            BY <2>2, <2>4 DEF Quiet
        <3>4. QED
            BY <3>2, <3>3 DEF EndsOn
    <2>5. ASSUME NEW i \in DOMAIN list.actions,
                 list.actions[i] = [tag |-> "tune_data", channel |-> ch], Quiet(list, i)
          PROVE  EndsOn(ch, list', data'.freq)
        <3>1. i \in Nat /\ i >= 1 /\ Quiet(list', i - 1)
            BY <2>2, <2>3, <2>5
        <3>2. CASE i = 1
            <4>1. Head(list.actions).tag = "tune_data" /\ Head(list.actions).channel = ch
                BY <2>1, <2>5, <3>2
            <4>2. data'.freq = Head(list.actions).channel
                BY <1>12, <2>1, <4>1, TypeParts DEF TakesOne, DataType
            <4>3. QED
                BY <3>1, <3>2, <4>1, <4>2 DEF EndsOn
        <3>3. CASE i # 1
            <4>1. i - 1 \in DOMAIN list'.actions /\ list'.actions[i - 1] = list.actions[i]
                BY <2>2, <3>1, <3>3
            <4>2. QED
                BY <2>5, <3>1, <4>1 DEF EndsOn
        <3>4. QED
            BY <3>2, <3>3
    <2>6. QED
        BY <1>5, <2>4, <2>5 DEF EndsOn
<1>13. CASE QueuesNothing
    BY <1>6, <1>10, <1>13 DEF QueuesNothing
<1>14. CASE UNCHANGED <<list, stage, draining, wakeups>> /\ (~draining \/ UNCHANGED data)
    BY <1>6, <1>10, <1>14
<1>15. QED
    BY <1>4, <1>7, <1>8, <1>9, <1>11, <1>12, <1>13, <1>14, ListTouched

(***************************************************************************)
(* The theorems.                                                           *)
(***************************************************************************)
\* The inductive invariant.  Its parts support each other: a timer is cancelled by
\* counting it down, which gives a number only because there is one; what a call
\* queues fits only because it finds the list empty.
IInv ==
    /\ TypeOK
    /\ OneTimerPerToken
    /\ Discipline
    /\ TimersKept
    /\ Fits(list)
    /\ RadiosFree
    /\ OwnTuning

LEMMA IInvInit == Init => IInv
<1> SUFFICES ASSUME Init PROVE IInv
    OBVIOUS
<1>1. TypeOK /\ OneTimerPerToken
    BY InitType DEF Init, OneTimerPerToken
<1>2. Discipline /\ TimersKept
    BY DEF Init, Discipline, TimersKept
<1>3. Fits(list)
    <2>1. /\ FramesPerTxCell \in Nat /\ FrameLen \in Nat /\ BroadcastsDrained \in Nat
          /\ ActionsCap \in Nat
        BY CapacityAssumption
    <2>2. FramesPerTxCell * FrameLen \in Nat
        BY <2>1
    <2>3. list.actions = <<>> /\ list.consumed = 0 /\ list.tx_buf = 0
        BY DEF Init
    <2>4. QED
        BY <2>1, <2>2, <2>3 DEF Fits
<1>4. RadiosFree
    BY DEF Init, RadiosFree, BcastFree, OneUnderWay
<1>5. OwnTuning
    <2>1. OwnCell.slot_offset # None
        BY CellAssumption DEF Cell
    <2>2. QED
        BY <2>1 DEF Init, OwnTuning
<1>6. QED
    BY <1>1, <1>2, <1>3, <1>4, <1>5 DEF IInv, Init

LEMMA IInvStep == IInv /\ [Next]_vars => IInv'
<1> SUFFICES ASSUME IInv, [Next]_vars PROVE IInv'
    OBVIOUS
<1>1. TypeOK' /\ OneTimerPerToken'
    BY StepType, OneTimerStep DEF IInv
<1>2. Discipline' /\ TimersKept'
    BY DisciplineStep, TimersKeptStep DEF IInv
<1>3. Fits(list')
    BY FitsStep DEF IInv
<1>4. RadiosFree'
    BY BcastFreeStep, OneUnderWayStep DEF IInv, RadiosFree
<1>5. OwnTuning'
    BY OwnTuningStep DEF IInv, RadiosFree
<1>6. QED
    BY <1>1, <1>2, <1>3, <1>4, <1>5 DEF IInv

THEOREM Inductive == Spec => []IInv
    BY IInvInit, IInvStep, PTL DEF Spec

\* Types: every state of node and host keeps the types of slora.zig and SloraApp.h.
THEOREM TypeCorrect == Spec => []TypeOK
<1>1. IInv => TypeOK
    BY DEF IInv
<1>2. QED
    BY <1>1, Inductive, PTL

\* scheduleWakeup cancels the timer it replaces and handleMessage forgets the one
\* that fires: no token ever has two wakeups.
THEOREM OneTimer == Spec => []OneTimerPerToken
<1>1. IInv => OneTimerPerToken
    BY DEF IInv
<1>2. QED
    BY <1>1, Inductive, PTL

\* Each wakeup sets the next: a running host never loses one of the node's timers.
THEOREM TimersSurvive == Spec => []TimersAlive
<1>1. IInv => TimersAlive
    <2>1. SUFFICES ASSUME IInv, stage = "running", ~draining PROVE wakeups = Token
        BY DEF TimersAlive
    <2>2. DOMAIN list.actions = {}
        BY <2>1 DEF IInv, Discipline
    <2>3. Token \subseteq wakeups
        BY <2>1, <2>2 DEF IInv, TimersKept
    <2>4. wakeups \subseteq Token
        BY <2>1, TypeParts DEF IInv, ControlType
    <2>5. QED
        BY <2>3, <2>4
<1>2. QED
    BY <1>1, Inductive, PTL

\* The node never queues more than Node.init made room for (slora.zig:121-124).
THEOREM CapacitySuffices == Spec => []WithinCapacity
<1>1. IInv => WithinCapacity
    BY FitsSuffices DEF IInv
<1>2. QED
    BY <1>1, Inductive, PTL

\* dataTxBusy and the backoff keep frames apart on the way to the radios.
THEOREM RadiosNeverInterrupted == Spec => []NeverWhileTransmitting
<1>1. IInv => NeverWhileTransmitting
    BY DEF IInv, RadiosFree, BcastFree, OneUnderWay, NeverWhileTransmitting
<1>2. QED
    BY <1>1, Inductive, PTL

\* Whatever waits for the data radio, a node hears its own cell.
THEOREM HearsOwnSlot == Spec => []OwnSlotHeard
<1>1. IInv => OwnSlotHeard
    <2>1. SUFFICES ASSUME IInv, handled = OwnCell.slot_offset, ~draining
                   PROVE  ReceptionPossible(Channel(OwnCell, handled))
        BY DEF OwnSlotHeard
    <2>2. DOMAIN list.actions = {}
        BY <2>1 DEF IInv, Discipline
    <2>3. QED
        BY <2>1, <2>2 DEF IInv, OwnTuning, EndsOn, ReceptionPossible
<1>2. QED
    BY <1>1, Inductive, PTL

(***************************************************************************)
(* The counts of deliveries.                                               *)
(***************************************************************************)
LEMMA LeastElement ==
    ASSUME NEW T \in SUBSET Nat, T # {}
    PROVE  \E x \in T : \A y \in T : x <= y
<1>1. PICK x \in T : \A y \in T : ~ (<<y, x>> \in OpToRel(<, Nat))
    BY WFMin, NatLessThanWellFounded
<1>2. \A y \in T : ~ (y < x)
    BY <1>1 DEF OpToRel
<1>3. QED
    BY <1>2

LEMMA IntervalInduction ==
    ASSUME NEW L \in Nat, NEW T, 0 \in T, \A i \in 1 .. L : i - 1 \in T => i \in T
    PROVE  \A i \in 0 .. L : i \in T
<1> SUFFICES ASSUME {i \in 0 .. L : i \notin T} # {} PROVE FALSE
    OBVIOUS
<1>1. PICK i \in {j \in 0 .. L : j \notin T} : \A j \in {j \in 0 .. L : j \notin T} : i <= j
    <2>1. {j \in 0 .. L : j \notin T} \in SUBSET Nat
        OBVIOUS
    <2>2. QED
        BY <2>1, LeastElement
<1>2. i \in 1 .. L
    BY <1>1
<1>3. i - 1 \in T
    BY <1>1, <1>2
<1>4. QED
    BY <1>1, <1>2, <1>3

Counts == [Message -> Nat]

\* The sum of h over S, as CountedOnce adds up what was handed over.
Total(h, S) ==
    LET total[X \in SUBSET Message] ==
            IF X = {} THEN 0
            ELSE LET m == CHOOSE m \in X : TRUE IN h[m] + total[X \ {m}]
    IN  total[S]

\* The payload that is added first, and those after it.
First(X) == CHOOSE m \in X : TRUE

Rest(X) == X \ {First(X)}

UpTo(k) == {X \in SUBSET Message : Cardinality(X) <= k}

\* f holds the sums over the sets of D.
Sums(f, D, h) == \A X \in D : f[X] = IF X = {} THEN 0 ELSE h[First(X)] + f[Rest(X)]

LEMMA RestProperties ==
    ASSUME NEW X \in SUBSET Message, X # {}
    PROVE  /\ First(X) \in X /\ Rest(X) \in SUBSET Message /\ First(X) \notin Rest(X)
           /\ Cardinality(X) \in Nat /\ Cardinality(Rest(X)) = Cardinality(X) - 1
<1>1. First(X) \in X
    BY DEF First
<1>2. IsFiniteSet(X)
    BY KeyAssumption, FS_Subset
<1>3. Cardinality(Rest(X)) = Cardinality(X) - 1
    BY <1>1, <1>2, FS_RemoveElement DEF Rest
<1>4. QED
    BY <1>1, <1>2, <1>3, FS_CardinalityType DEF Rest

LEMMA UpToProperties ==
    /\ Cardinality(Message) \in Nat
    /\ UpTo(0) = {{}}
    /\ UpTo(Cardinality(Message)) = SUBSET Message
<1>1. \A X \in SUBSET Message : /\ IsFiniteSet(X) /\ Cardinality(X) \in Nat
                                /\ Cardinality(X) <= Cardinality(Message)
                                /\ Cardinality(X) = 0 <=> X = {}
    BY KeyAssumption, FS_Subset, FS_CardinalityType, FS_EmptySet
<1>2. UpTo(0) = {{}}
    <2>1. \A X \in SUBSET Message : X \in UpTo(0) <=> X = {}
        BY <1>1 DEF UpTo
    <2>2. QED
        BY <2>1 DEF UpTo
<1>3. QED
    BY <1>1, <1>2 DEF UpTo

\* What holds of the empty set, and of a set if it holds of all but its first
\* payload, holds of all sets: T is the set of those it holds of.
LEMMA SetInduction ==
    ASSUME NEW T, {} \in T,
           \A X \in SUBSET Message : X # {} /\ Rest(X) \in T => X \in T
    PROVE  \A X \in SUBSET Message : X \in T
<1> DEFINE K == Cardinality(Message)
           U == {k \in 0 .. K : UpTo(k) \subseteq T}
<1>1. K \in Nat /\ UpTo(0) = {{}} /\ UpTo(K) = SUBSET Message
    BY UpToProperties
<1> HIDE DEF K
<1>2. 0 \in U
    <2>1. 0 \in 0 .. K
        BY <1>1
    <2>2. UpTo(0) \subseteq T
        BY <1>1
    <2>3. QED
        BY <2>1, <2>2
<1>3. ASSUME NEW k \in 1 .. K, k - 1 \in U PROVE k \in U
    <2>1. k \in 0 .. K /\ UpTo(k - 1) \subseteq T
        BY <1>1, <1>3
    <2>2. ASSUME NEW X \in UpTo(k) PROVE X \in T
        <3>1. X \in SUBSET Message /\ Cardinality(X) <= k
            BY DEF UpTo
        <3>2. CASE X = {}
            BY <3>2
        <3>3. CASE X # {}
            <4>1. /\ Rest(X) \in SUBSET Message /\ Cardinality(X) \in Nat
                  /\ Cardinality(Rest(X)) = Cardinality(X) - 1
                BY <3>1, <3>3, RestProperties
            <4>2. Cardinality(Rest(X)) <= k - 1
                BY <1>1, <3>1, <4>1
            <4>3. Rest(X) \in UpTo(k - 1)
                BY <4>1, <4>2 DEF UpTo
            <4>4. QED
                BY <2>1, <3>1, <3>3, <4>3
        <3>4. QED
            BY <3>2, <3>3
    <2>3. QED
        BY <2>1, <2>2
<1>4. \A k \in 0 .. K : k \in U
    <2> HIDE DEF U
    <2>1. QED
        BY <1>1, <1>2, <1>3, IntervalInduction
<1>5. K \in U
    BY <1>1, <1>4
<1>6. QED
    BY <1>1, <1>5

LEMMA SumsExist ==
    ASSUME NEW h \in Counts
    PROVE  \E f \in [SUBSET Message -> Nat] : Sums(f, SUBSET Message, h)
<1> DEFINE K == Cardinality(Message)
           T == {k \in 0 .. K : \E f \in [UpTo(k) -> Nat] : Sums(f, UpTo(k), h)}
<1>1. K \in Nat /\ UpTo(0) = {{}} /\ UpTo(K) = SUBSET Message
    BY UpToProperties
<1> HIDE DEF K
<1>2. 0 \in T
    <2>1. PICK f : f = [X \in UpTo(0) |-> 0]
        OBVIOUS
    <2>2. f \in [UpTo(0) -> Nat] /\ Sums(f, UpTo(0), h)
        BY <1>1, <2>1 DEF Sums
    <2>3. QED
        BY <1>1, <2>2
<1>3. ASSUME NEW k \in 1 .. K, k - 1 \in T PROVE k \in T
    <2>1. PICK f \in [UpTo(k - 1) -> Nat] : Sums(f, UpTo(k - 1), h)
        BY <1>3
    <2>2. PICK g : g = [X \in UpTo(k) |-> IF X \in UpTo(k - 1) THEN f[X]
                                          ELSE h[First(X)] + f[Rest(X)]]
        OBVIOUS
    <2>3. UpTo(k - 1) \subseteq UpTo(k) /\ {} \in UpTo(k - 1)
        <3>1. \A X \in SUBSET Message : Cardinality(X) \in Nat
            BY KeyAssumption, FS_Subset, FS_CardinalityType
        <3>2. UpTo(k - 1) \subseteq UpTo(k)
            BY <3>1 DEF UpTo
        <3>3. QED
            BY <3>2, FS_EmptySet DEF UpTo
    <2>4. ASSUME NEW X \in UpTo(k), X # {}
          PROVE  /\ X \in SUBSET Message /\ First(X) \in Message
                 /\ Rest(X) \in UpTo(k - 1) /\ g[Rest(X)] = f[Rest(X)]
        <3>1. X \in SUBSET Message /\ Cardinality(X) <= k
            BY DEF UpTo
        <3>2. /\ First(X) \in X /\ Rest(X) \in SUBSET Message /\ Cardinality(X) \in Nat
              /\ Cardinality(Rest(X)) = Cardinality(X) - 1
            BY <2>4, <3>1, RestProperties
        <3>3. Cardinality(Rest(X)) <= k - 1
            BY <3>1, <3>2
        <3>4. Rest(X) \in UpTo(k - 1)
            BY <3>2, <3>3 DEF UpTo
        <3>5. QED
            BY <2>2, <2>3, <3>1, <3>2, <3>4
    <2>5. ASSUME NEW X \in UpTo(k)
          PROVE  /\ g[X] \in Nat
                 /\ g[X] = IF X = {} THEN 0 ELSE h[First(X)] + g[Rest(X)]
        <3>1. CASE X = {}
            <4>1. g[X] = f[X] /\ f[X] = 0
                BY <2>1, <2>2, <2>3, <3>1 DEF Sums
            <4>2. QED
                BY <3>1, <4>1
        <3>2. CASE X # {}
            <4>1. /\ First(X) \in Message /\ Rest(X) \in UpTo(k - 1)
                  /\ g[Rest(X)] = f[Rest(X)]
                BY <2>4, <3>2
            <4>2. h[First(X)] \in Nat /\ f[Rest(X)] \in Nat
                BY <4>1 DEF Counts
            <4>3. g[X] = h[First(X)] + f[Rest(X)]
                <5>1. CASE X \in UpTo(k - 1)
                    BY <2>1, <2>2, <3>2, <5>1 DEF Sums
                <5>2. CASE X \notin UpTo(k - 1)
                    BY <2>2, <5>2
                <5>3. QED
                    BY <5>1, <5>2
            <4>4. QED
                BY <3>2, <4>1, <4>2, <4>3
        <3>3. QED
            BY <3>1, <3>2
    <2>6. g \in [UpTo(k) -> Nat] /\ Sums(g, UpTo(k), h)
        BY <2>2, <2>5 DEF Sums
    <2>7. QED
        BY <1>1, <2>6
<1>4. \A k \in 0 .. K : k \in T
    <2> HIDE DEF T
    <2>1. QED
        BY <1>1, <1>2, <1>3, IntervalInduction
<1>5. K \in T
    BY <1>1, <1>4
<1>6. \E f \in [UpTo(K) -> Nat] : Sums(f, UpTo(K), h)
    BY <1>5
<1>7. QED
    BY <1>1, <1>6

LEMMA TotalRecursion ==
    ASSUME NEW h \in Counts
    PROVE  /\ Total(h, {}) = 0
           /\ \A X \in SUBSET Message : X # {} => Total(h, X) = h[First(X)] + Total(h, Rest(X))
           /\ \A X \in SUBSET Message : Total(h, X) \in Nat
<1> DEFINE total[X \in SUBSET Message] ==
               IF X = {} THEN 0 ELSE h[First(X)] + total[Rest(X)]
<1>1. \A S : Total(h, S) = total[S]
    BY Zenon DEF Total, First, Rest
<1>2. PICK f \in [SUBSET Message -> Nat] : Sums(f, SUBSET Message, h)
    BY SumsExist
<1>3. f = [X \in SUBSET Message |-> IF X = {} THEN 0 ELSE h[First(X)] + f[Rest(X)]]
    BY <1>2 DEF Sums
<1>4. total = [X \in SUBSET Message |-> IF X = {} THEN 0 ELSE h[First(X)] + total[Rest(X)]]
    BY <1>3
<1> HIDE DEF total
<1>5. \A X \in SUBSET Message : total[X] = IF X = {} THEN 0 ELSE h[First(X)] + total[Rest(X)]
    BY <1>4
<1>6. \A X \in SUBSET Message : total[X] \in Nat
    <2> DEFINE T == {X \in SUBSET Message : total[X] \in Nat}
    <2>1. {} \in T
        BY <1>5
    <2>2. ASSUME NEW X \in SUBSET Message, X # {}, Rest(X) \in T PROVE X \in T
        <3>1. First(X) \in Message
            BY <2>2, RestProperties
        <3>2. h[First(X)] \in Nat /\ total[Rest(X)] \in Nat
            BY <2>2, <3>1 DEF Counts
        <3>3. QED
            BY <1>5, <2>2, <3>2
    <2>3. \A X \in SUBSET Message : X \in T
        <3> HIDE DEF T
        <3>1. QED
            BY <2>1, <2>2, SetInduction
    <2>4. QED
        BY <2>3
<1>7. QED
    BY <1>1, <1>5, <1>6

\* One payload more is one more in the sums it belongs to.
LEMMA TotalAdds ==
    ASSUME NEW h \in Counts, NEW x \in Message, NEW g \in Counts,
           g = [h EXCEPT ![x] = h[x] + 1]
    PROVE  \A S \in SUBSET Message : Total(g, S) = Total(h, S) + (IF x \in S THEN 1 ELSE 0)
<1> DEFINE T == {S \in SUBSET Message :
                    Total(g, S) = Total(h, S) + (IF x \in S THEN 1 ELSE 0)}
<1>1. {} \in T
    BY TotalRecursion
<1>2. ASSUME NEW S \in SUBSET Message, S # {}, Rest(S) \in T PROVE S \in T
    <2>1. /\ First(S) \in S /\ First(S) \notin Rest(S) /\ Rest(S) \in SUBSET Message
          /\ S = Rest(S) \cup {First(S)}
        <3>1. First(S) \in S /\ First(S) \notin Rest(S) /\ Rest(S) \in SUBSET Message
            BY <1>2, RestProperties
        <3>2. S = Rest(S) \cup {First(S)}
            BY <3>1 DEF Rest
        <3>3. QED
            BY <3>1, <3>2
    <2>2. /\ Total(g, S) = g[First(S)] + Total(g, Rest(S))
          /\ Total(h, S) = h[First(S)] + Total(h, Rest(S))
          /\ Total(h, Rest(S)) \in Nat
        BY <1>2, <2>1, TotalRecursion
    <2>3. Total(g, Rest(S)) = Total(h, Rest(S)) + (IF x \in Rest(S) THEN 1 ELSE 0)
        BY <1>2
    <2>4. h[First(S)] \in Nat /\ g[First(S)] = h[First(S)] + (IF x = First(S) THEN 1 ELSE 0)
        BY <2>1 DEF Counts
    <2>5. CASE x = First(S)
        BY <2>1, <2>2, <2>3, <2>4, <2>5
    <2>6. CASE x # First(S)
        <3>1. x \in S <=> x \in Rest(S)
            BY <2>1, <2>6
        <3>2. QED
            BY <2>2, <2>3, <2>4, <2>6, <3>1
    <2>7. QED
        BY <2>5, <2>6
<1>3. \A S \in SUBSET Message : S \in T
    <2> HIDE DEF T
    <2>1. QED
        BY <1>1, <1>2, SetInduction
<1>4. QED
    BY <1>3

LEMMA TotalOfNone ==
    ASSUME NEW h \in Counts, \A m \in Message : h[m] = 0
    PROVE  \A S \in SUBSET Message : Total(h, S) = 0
<1> DEFINE T == {S \in SUBSET Message : Total(h, S) = 0}
<1>1. {} \in T
    BY TotalRecursion
<1>2. ASSUME NEW S \in SUBSET Message, S # {}, Rest(S) \in T PROVE S \in T
    <2>1. First(S) \in Message
        BY <1>2, RestProperties
    <2>2. Total(h, S) = h[First(S)] + Total(h, Rest(S))
        BY <1>2, TotalRecursion
    <2>3. QED
        BY <1>2, <2>1, <2>2
<1>3. \A S \in SUBSET Message : S \in T
    <2> HIDE DEF T
    <2>1. QED
        BY <1>1, <1>2, SetInduction
<1>4. QED
    BY <1>3

\* The stamped payloads handed over so far, whose keys the host remembers.
Seen(h) == {m \in Stamped : h[m] > 0}

CountInv ==
    /\ tally.dedup = {DedupKey[m] : m \in Seen(tally.handed)}
    /\ tally.delivered = Cardinality(Seen(tally.handed)) + Total(tally.handed, Message \ Stamped)
    /\ tally.delivered + tally.duplicate = Total(tally.handed, Message)

LEMMA CountsAgree ==
    ASSUME CountInv
    PROVE  CountedOnce
<1>1. /\ tally.delivered = Cardinality(Seen(tally.handed))
                              + Total(tally.handed, Message \ Stamped)
      /\ tally.delivered + tally.duplicate = Total(tally.handed, Message)
    BY DEF CountInv
<1>2. QED
    BY <1>1, Zenon DEF CountedOnce, Total, Seen

LEMMA TallyTouched ==
    ASSUME [Next]_vars
    PROVE  tally' = tally \/ TakeDeliver
<1>1. SlotEvent => tally' = tally
    BY DEF SlotEvent, SlotZero, SlotWithTx, SlotWithoutTx, SlotWakeup, WakeupFires, Calls
<1>2. Start \/ AddTargetPeers \/ AnnounceWakeup \/ TrafficTimer \/ DataRx
        \/ (\E m \in Message : DeliverRx(m)) \/ UNCHANGED vars
        => tally' = tally
    BY DEF Start, AddTargetPeers, AnnounceWakeup, WakeupFires, TrafficTimer, DataRx, DeliverRx,
           Stimulus, Calls, vars
<1>3. BroadcastEvent \/ ReceptionStarts \/ DataEvent => tally' = tally
    BY DEF BroadcastEvent, BackoffEnds, BroadcastTxStarts, BroadcastTxEnds, ReceptionFails,
           BroadcastRx, BeaconRx, BroadcastIn, ReceptionStarts, DataEvent, DataTxStarts,
           DataTxEnds, Apart, Calls
<1>4. Drain => tally' = tally \/ TakeDeliver
    BY DEF Drain, TakeTxBroadcast, TakeTxData, TakeTuneData, TakeSchedule, DrainEnds
<1>5. QED
    BY <1>1, <1>2, <1>3, <1>4 DEF Next

LEMMA DeliverCounts ==
    ASSUME TypeOK, CountInv, TakeDeliver
    PROVE  CountInv'
<1> DEFINE m == Head(list.actions).message
           h == tally.handed
           g == tally'.handed
<1>1. m \in Message
    <2>1. list.actions \in Seq(Action) /\ list.actions # <<>>
        BY DEF TypeOK, TakeDeliver, Takes
    <2>2. Head(list.actions) \in Action /\ Head(list.actions).tag = "deliver"
        BY <2>1, HeadTailProperties DEF TakeDeliver, Takes
    <2>3. QED
        BY <2>2, ActionFields
<1>2. /\ h \in Counts /\ tally.delivered \in Nat /\ tally.duplicate \in Nat
      /\ tally \in [dedup : SUBSET {DedupKey[k] : k \in Stamped}, delivered : Nat,
                    duplicate : Nat, handed : [Message -> Nat]]
    BY DEF TypeOK, Counts
<1>3. tally' = [tally EXCEPT !.handed[m] = @ + 1,
                             !.dedup = IF m \in Stamped THEN @ \cup {DedupKey[m]} ELSE @,
                             !.delivered = IF Duplicate(m) THEN @ ELSE @ + 1,
                             !.duplicate = IF Duplicate(m) THEN @ + 1 ELSE @]
    BY DEF TakeDeliver
<1> HIDE DEF m
<1>4. /\ g = [h EXCEPT ![m] = h[m] + 1]
      /\ tally'.dedup = IF m \in Stamped THEN tally.dedup \cup {DedupKey[m]} ELSE tally.dedup
      /\ tally'.delivered = IF Duplicate(m) THEN tally.delivered ELSE tally.delivered + 1
      /\ tally'.duplicate = IF Duplicate(m) THEN tally.duplicate + 1 ELSE tally.duplicate
    BY <1>2, <1>3
<1>5. g \in Counts /\ h[m] \in Nat /\ g[m] = h[m] + 1 /\ \A k \in Message \ {m} : g[k] = h[k]
    BY <1>1, <1>2, <1>4 DEF Counts
<1>6. \A S \in SUBSET Message : /\ Total(g, S) = Total(h, S) + (IF m \in S THEN 1 ELSE 0)
                                /\ Total(h, S) \in Nat
    BY <1>1, <1>2, <1>4, <1>5, TotalAdds, TotalRecursion
<1>7. /\ Stamped \subseteq Message /\ Message \ Stamped \in SUBSET Message
      /\ \A j, k \in Stamped : DedupKey[j] = DedupKey[k] => j = k
    BY KeyAssumption
<1>8. /\ tally.dedup = {DedupKey[k] : k \in Seen(h)}
      /\ tally.delivered = Cardinality(Seen(h)) + Total(h, Message \ Stamped)
      /\ tally.delivered + tally.duplicate = Total(h, Message)
    BY DEF CountInv
<1>9. IsFiniteSet(Seen(h)) /\ Cardinality(Seen(h)) \in Nat
    <2>1. Seen(h) \in SUBSET Message
        BY <1>7 DEF Seen
    <2>2. QED
        BY <2>1, KeyAssumption, FS_Subset, FS_CardinalityType
<1> HIDE DEF h, g
<1>10. Duplicate(m) <=> m \in Seen(h)
    BY <1>7, <1>8 DEF Duplicate, Seen
<1>11. Seen(g) = IF m \in Stamped THEN Seen(h) \cup {m} ELSE Seen(h)
    <2>1. \A k \in Stamped : k \in Seen(g) <=> (k \in Seen(h) \/ k = m)
        <3>1. \A k \in Stamped : k # m => g[k] = h[k]
            BY <1>5, <1>7
        <3>2. QED
            BY <1>5, <3>1 DEF Seen
    <2>2. Seen(g) \subseteq Stamped /\ Seen(h) \subseteq Stamped
        BY DEF Seen
    <2>3. QED
        BY <2>1, <2>2
<1>12. tally'.dedup = {DedupKey[k] : k \in Seen(g)}
    BY <1>4, <1>8, <1>11
<1>13. tally'.delivered + tally'.duplicate = Total(g, Message)
    <2>1. Total(g, Message) = Total(h, Message) + 1
        BY <1>1, <1>6
    <2>2. QED
        BY <1>2, <1>4, <1>8, <2>1
<1>14. tally'.delivered = Cardinality(Seen(g)) + Total(g, Message \ Stamped)
    <2>1. /\ Total(g, Message \ Stamped)
               = Total(h, Message \ Stamped) + (IF m \in Stamped THEN 0 ELSE 1)
          /\ Total(h, Message \ Stamped) \in Nat
        BY <1>1, <1>6, <1>7
    <2>2. CASE m \notin Stamped
        <3>1. ~Duplicate(m) /\ Seen(g) = Seen(h)
            BY <1>11, <2>2 DEF Duplicate
        <3>2. QED
            BY <1>2, <1>4, <1>8, <1>9, <2>1, <2>2, <3>1
    <2>3. CASE m \in Stamped /\ m \in Seen(h)
        <3>1. Duplicate(m) /\ Seen(g) = Seen(h)
            BY <1>10, <1>11, <2>3
        <3>2. QED
            BY <1>2, <1>4, <1>8, <1>9, <2>1, <2>3, <3>1
    <2>4. CASE m \in Stamped /\ m \notin Seen(h)
        <3>1. ~Duplicate(m) /\ Seen(g) = Seen(h) \cup {m}
            BY <1>10, <1>11, <2>4
        <3>2. Cardinality(Seen(g)) = Cardinality(Seen(h)) + 1
            BY <1>9, <2>4, <3>1, FS_AddElement
        <3>3. tally'.delivered = tally.delivered + 1
            BY <1>4, <3>1
        <3>4. Total(g, Message \ Stamped) = Total(h, Message \ Stamped)
            BY <2>1, <2>4
        <3>5. PICK s \in Nat, t \in Nat :
                  s = Cardinality(Seen(h)) /\ t = Total(h, Message \ Stamped)
            BY <1>9, <2>1
        <3>6. tally.delivered = s + t /\ Cardinality(Seen(g)) = s + 1
            BY <1>8, <3>2, <3>5
        <3>7. QED
            BY <3>3, <3>4, <3>5, <3>6
    <2>5. QED
        BY <2>2, <2>3, <2>4
<1>15. QED
    BY <1>12, <1>13, <1>14 DEF CountInv, g

LEMMA InitCounts == Init => CountInv
<1> SUFFICES ASSUME Init PROVE CountInv
    OBVIOUS
<1>1. /\ tally.dedup = {} /\ tally.delivered = 0 /\ tally.duplicate = 0
      /\ tally.handed \in Counts /\ \A m \in Message : tally.handed[m] = 0
    BY DEF Init, Counts
<1>2. Seen(tally.handed) = {} /\ Cardinality({}) = 0
    BY <1>1, KeyAssumption, FS_EmptySet DEF Seen
<1>3. Message \ Stamped \in SUBSET Message /\ Message \in SUBSET Message
    OBVIOUS
<1>4. Total(tally.handed, Message \ Stamped) = 0 /\ Total(tally.handed, Message) = 0
    BY <1>1, <1>3, TotalOfNone
<1>5. QED
    BY <1>1, <1>2, <1>4 DEF CountInv

\* Every stamped payload counts once and every other one whenever it comes, and each
\* reception counts as one or the other (drainActions), for any number of payloads.
THEOREM DeliveriesCounted == Spec => []CountedOnce
<1>1. TypeOK /\ CountInv /\ [Next]_vars => CountInv'
    <2> SUFFICES ASSUME TypeOK, CountInv, [Next]_vars PROVE CountInv'
        OBVIOUS
    <2>1. CASE tally' = tally
        BY <2>1 DEF CountInv
    <2>2. QED
        BY <2>1, TallyTouched, DeliverCounts
<1>2. CountInv => CountedOnce
    BY CountsAgree
<1>3. QED
    BY <1>1, <1>2, InitCounts, TypeCorrect, PTL DEF Spec
=============================================================================
