# slora: specifications, model checks and proofs

slora is a mesh protocol for LoRa radios. Its protocol stack is a Zig library
(`src/src/stack/src/*.zig`) without threads, sockets or clocks: a host calls
it with received frames, timer wakeups and packets to send, and drains a list
of actions after every call. The host in the repository is an OMNeT++ module
(`src/src/sim/SloraApp.cc`), one per simulated node. `src/src/flood/` holds
three flooding protocols slora is compared with, all in `FloodApp.cc`.

This directory specifies the stack, the host and the flood baselines in TLA+.
It checks them with TLC on small meshes, and proves with TLAPS, for every mesh
and every value of the parameters, all the safety properties the passing runs
check: among others, that routes and reverse paths never form a loop, that the
data plane implements an abstract datagram service and never uses a nonce twice,
that the clocks of a mesh stay close, that a node and its host keep their timers
and stay within the room the node made, and that a flood without losses gets
everywhere. Liveness is left to TLC.

Paths below are relative to `src/src/stack/src/` unless they name a directory.

## 1. Inventory

Every handler runs to completion, so the interleavings that matter are those
*between nodes* (frames that wait in queues, arrive late, at some receivers
only, or not at all), and between *timers, radio signals and frames* in a host.

| Part | State | Operations | Talks to |
|---|---|---|---|
| `announce.zig` | neighbour table | build an Enhanced Beacon; receive one | tsch (clock), link (target peers) |
| `link.zig` | neighbours' request times, link table | `tryEstablish`, `handleRx` of REQUEST and RESPONSE | route (`flushPendingFor`), broadcast queue |
| `route.zig` | routes, reverse paths, waiting payloads, request times, sequence number | `send`, `initiate`, `handleRreq`, `handleRrep`, `flushPendingFor` | link, broadcast queue, link queues |
| `relay.zig` | frame counter of every link | `seal`, `buildDataFrame`, `handleEncryptedRx`, `forwardToward` | link queues, echo, host |
| `echo.zig` | echo sequence number | `send`, `handleDelivered` | route.send |
| `tsch.zig`, `schedule.zig` | clock offset, time source | `handleSlotWakeup`, `scheduleNextSlot`, `syncTimeFromEb` | all queues, host timer and radios |
| `slora.zig` | the node: all of the above, action list | dispatch of frames and timers, `nextAction` | host |
| `crypto.zig`, `types.zig` | none | signatures, key agreement, sealing, nonces | |
| `c_abi.zig` | none | C interface of the stack | host |
| `sim/SloraApp.cc` | map of timers, traffic timer, broadcast queue, backoff timer, busy flags, data queue, tuned frequency, counts of deliveries | `initialize`, `handleMessage`, `receiveSignal`, `drainActions`, pumps, destructor | stack, radios |
| `sim/Slora{Medium,Radio,Receiver}.cc` | none of their own | frequency matching on top of INET/FLoRa | |
| `flood/FloodApp.cc` | recent cache, pending rebroadcasts, neighbour table, relay set | originate, receive, rebroadcast, hello | radio |
| `study/`, `simulations/` | none | parameters, evaluation | |

What makes each part correct, and what is hard about it:

- **Link setup**: a link held at one end only was at least asked for by the
  other; requests are not sent more often than the retry interval; every
  request is answered when nothing is lost. Hard: lost RESPONSEs, both ends
  asking at once, a retry racing a late answer.
- **Route discovery**: routes never form a loop (no packet carries a hop
  count), although they are updated from overheard, reordered and stale
  frames; replies find their way back along reverse paths that may move while
  the reply travels; every discovery succeeds when nothing is lost.
- **Data plane**: a packet is never duplicated or misdelivered by the queues,
  flushes and relays it passes; it makes progress although routes change while
  it is queued; no nonce is used twice under a key; what is queued leaves.
- **TSCH**: clocks stay close although every beacon is old when it is used;
  one slot timer, always at a boundary of a clock that jumps; the node listens
  in its own slot.
- **Host**: what a call queues fits the room the node made once and for all,
  and nothing it lent the host is freed early; one timer per token, replaced
  and never lost, so that slots go on; two transmit queues, each with a busy
  flag and a radio that must not be handed a frame while it transmits; no frame
  is stuck between queue, backoff timer and busy flag; every stamped payload
  counts once. Hard: a beacon that replaces the slot timer, signals of two
  radios between slots, a data queue that outlives the slot it was filled in.
- **Flood**: a bounded cache of recent packets; suppression of rebroadcasts;
  election of relays that cover all two-hop neighbours.

`PROJECT.json` lists the hazards one by one, at the line where they bite,
with the property that covers each or the reason why none does.

## 2. Modules

| Module | Models | Extends |
|---|---|---|
| `SloraControl` | announce, link, route: the control plane of a whole mesh | |
| `SloraMesh` | waiting payloads, link queues, relay, echo, on top of the control plane | `SloraControl` |
| `Datagram` | the service the data plane offers, abstractly | |
| `SloraTsch` | slots, clocks and beacons of a mesh, each node with its slot timer and broadcast queue | |
| `SloraHost` | one node in its host: the action list and its drain, timers, both transmit queues and radios, counts | |
| `FloodApp` | the three flood baselines | |
| `SloraControlProofs` | type correctness of `SloraControl` | `SloraControl`, TLAPS |
| `SloraLinkProofs` | neighbours, link requests and links | `SloraControlProofs` |
| `SloraRouteProofs` | loop freedom of routes | `SloraControlProofs` |
| `SloraReverseProofs` | the tree of reverse paths, who writes the routes | `SloraRouteProofs` |
| `SloraMeshProofs` | the safety properties of `SloraMesh`, and that it implements `Datagram` | `SloraMesh`, `SloraReverseProofs` |
| `SloraTschProofs` | the safety properties of `SloraTsch` | `SloraTsch`, TLAPS |
| `SloraHostProofs` | the safety properties of `SloraHost` | `SloraHost`, TLAPS |
| `FloodAppProofs` | the safety properties of `FloodApp` | `FloodApp`, TLAPS |
| `MCSloraControl`, `MCSloraMesh`, `MCSloraTsch`, `MCSloraHost`, `MCFloodApp` | instances for TLC | the module they are named after |

### SloraControl

State: `neighbors`, `links`, `routes`, `reverse_paths`, `seq` and
`broadcast_queue` are the fields of `Node` (slora.zig:73-106), one per node.
`link_req` is `last_link_req_ns` and `rreq_recent` is `last_rreq_ns`, reduced
to whether the interval has elapsed: the code only compares them with `now`.
`air` holds receptions that are still to happen, `discovery` is a history.

Each handler is one or several actions, one per way out of it. `RouteSend` is
`route.send` without a usable link, `ForwardToward` what `relay.forwardToward`
does to the control plane; `QueueEb`, `Transmit`, `LinkRetryElapsed` and
`RreqRetryElapsed` are the timers; `HandleAnnounce`, `HandleLinkRequest`,
`HandleLinkResponse`, the `Rreq...` and the `Rrep...` actions are the
receptions. `Transmit` sends the head of a node's queue to the nodes in range;
when `Lossy`, any subset of them hears it. A node takes frames of one sender in
the order they were sent, those of different senders in any order.

A frame whose signature verifies comes from the node it names: keys and
signatures are left out and `from` stands for them. Discovery identifiers,
random 32 bit numbers in the code, are taken as fresh. Costs are bounded by
`MaxCost` and saturate as the code's `+|` does; sequence numbers have no width
(the code compares 32 bit numbers that would take 2^32 discoveries to wrap).

### SloraMesh and Datagram

`SloraMesh` adds `pending_routes`, `pending_tx` (per link), `tx_counter` and
the sealed frames in flight. A handler that changes both planes is one action:
`MeshLinkUp` is `link.handleRx` with `flushPendingFor`, `MeshRrepAtOrigin` is
`handleRrep` at the origin with its flush, `SendWaiting` is `route.send` up to
`initiate`. `TxOnCell` is `maybeTxOnCell` for one link. Slots come in any
order here. A packet is its identity, its form (plain, echo request or
response), source and destination; lengths and first bytes are constants, since
only comparisons with the limits and with the echo category depend on them.

`Datagram` knows packets only: offered, inside, delivered, the last of these at
each node. A packet comes out once and at the node it names; losing it is always
allowed. `Delivers` states that `SloraMesh` implements it, where what is inside
is the union of all queues and of the air.

### SloraTsch

State: the simulation time, every node's `asn_offset` and `time_source`, and
of the host the one slot timer (`wakeups[slot]`), `bcastTxQueue`, the backoff
timer, `bcastTxBusy` and the tuned channel. The actions are the four ways
through `handleSlotWakeup` (`SlotZero`, `TxOnCell`, `ListenOnCell`,
`IdleSlot`), the announce timer, the backoff timer (`BackoffEnds`, where the
host stamps a beacon), the radio's signal (`TransmissionEnds`), the reception
of a beacon (`ReceiveEb`) and `Tick`, which lets time pass only when nothing
is due. Backoffs last arbitrarily long. `slotframe_len` and `num_channels`
are both 16 in the code and one constant here.

### SloraHost

`node` is what the host can see of the stack: the length of its broadcast
queue, the packets on every link, the beacon that is due, the slot of its
clock. `list` is the action list with the two resources an action borrows
(`consumed_frames`, `tx_buf`). `wakeups` is the host's map of timers, `timers`
what the simulator really holds for each token; the two differ if a timer is
forgotten or set twice. `bcast` and `data` are the two transmit queues with
their busy flags, the frames on their way to the radio and what the radio does.

A call into the node (`Calls`) and the drain that follows are one event of the
simulator. The drain is split into its steps (`TakeTxBroadcast`, `TakeTxData`,
`TakeTuneData`, `TakeSchedule`, `TakeDeliver`, `DrainEnds`), and `draining`
keeps every other event out between them, as the host's loop does. The calls
are `AnnounceWakeup`, the three ways through `handleSlotWakeup` (`SlotZero`,
`SlotWithTx`, `SlotWithoutTx`), `TrafficTimer`, and the receptions on each radio
(`DataRx`, `DeliverRx`, `BroadcastRx`, `BeaconRx`). What the protocol does with
a frame is the subject of the other modules: here it queues any number of
broadcasts and packets up to `MaxWork`. The radios' own events (`BackoffEnds`,
`BroadcastTxStarts` ... `DataTxEnds`) call the pumps only. `Start` and
`AddTargetPeers` are `initialize`.

Slots follow one another unless a beacon moves the clock to any slot; there is
no time, so that a frame may stay on the air for as many slots as it likes.
The two places where the length of a delay matters are guards with a comment:
a slot timer, 100 ms, does not fire before a frame handed to the radio has got
there, and neither does a backoff timer.

### FloodApp

Every node's recent cache, pending rebroadcasts, neighbour table and relay set.
The mode, the topology, whether frames get lost (`ReceptionFails`, of
FloodReceiver and FloodRadio) and the traffic are a scenario that is chosen in
the initial state, so that one run covers several. Random delays end in any
order; a frame keeps the channel of its sender and its receivers busy until it
has arrived, and timers only act on an idle channel. A neighbour may time out
whenever the code prunes its table.

## 3. Runs

Bounds are in the `.cfg` files and the `MC` modules. Deadlock is checked where
slots go on for ever, in the runs of the host. In the others timers, sends and time
are bounded, so that every behaviour ends.

| Run | Instance | Shows |
|---|---|---|
| `control_triangle` | triangle, a fourth address nobody hears, lossy, two discoveries, a link request again | `HopsVerified`, `LinkHandshake`, `RouteInv`, `LoopFree`, `ReverseTree`, `RequestThrottled` |
| `control_live` | line of three, nothing lost, costs up to 5, one announce, send and relayed packet, both retries | `TypeOK`, `RouteInv`, `RequestAnswered`, `DiscoveryAnswered` |
| `control_limit` | hub with leaves, limit of one link | `LinksWithinLimit` is **violated** |
| `mesh_triangle` | triangle, an echo and a packet of exactly the frame's limit, queues with room for two packets, lossy data radio, a link set up twice | `MeshTypeOK`, `PacketProgress`, `NonceUnique`, `Delivers`, `QueuedPacketLeaves` |
| `mesh_oversize` | line, a payload of 192 bytes | `QueuedPacketLeaves` is **violated** |
| `host` | a slotframe of three slots, two peers, one in the node's own slot; room for exactly two frames and one broadcast per slot; two receptions or traffic timers, a payload with and one without a stamp | `TypeOK`, `WithinCapacity`, `OneTimerPerToken`, `TimersAlive`, `NeverWhileTransmitting`, `OwnSlotHeard`, `CountedOnce`, `SlotsContinue`, `BroadcastsLeave`, `DataLeaves` |
| `host_batch` | the same with one event | `SentInPeerSlot` is **violated** |
| `tsch` | three nodes, 16 ticks, two per slot, beacons on the air for a slot and a half, shared and separate cells | `TypeOK`, `ClockSkew`, `WakeupOnBoundary`, `ResyncBounded`, `ListensInOwnSlot`, `BroadcastsMove` |
| `tsch_aligned` | the same with beacons of half a slot | `Aligned` is **violated** |
| `flood` | naive and snr floods of two packets with a cache for one, with and without losses; a fork of five nodes that elects relays, sends a packet and loses a neighbour | `TypeOK`, `RecentWindow`, `ForwardedOnce`, `HopBudget`, `NaiveReaches`, `MprCovers` |
| `flood_once` | the naive flood without losses | `RebroadcastOnce` is **violated** |
| `flood_relay` | the fork, then a packet | `ElectedForwards` is **violated** |

Why the bounds are enough to mean something. A routing loop needs two routes
that change in a bad order: the triangle has a direct path and a detour for
every pair, two discoveries (so that sequence numbers differ) and loses frames
at each receiver separately, which is also what leaves a link half open. The line
is where a reply must be relayed, and where the radius of a request runs out;
its largest cost is 5, so that the cost of a path saturates and `RouteInv` is checked
at the limit too; in the triangle costs stay far below it.
The queue limits are two packets (32 and 8 in the code): the instance fills the
queues but does not overrun them, which the theorems of the data plane cover for
every limit and any traffic. Two frames on one link are what a link that is set up
again needs to use a nonce twice; that and an overrun at once is a third packet,
and more states than a run can take. Sixteen ticks are
enough for a node to follow a second beacon of its source, which moves its clock
forward again. The host has the capacities its
assumption asks for and not one more, so that a single action too many, or one
drain missed, shows; two events are enough for a beacon to move the clock while
a packet waits in the host, and for a payload to come twice. The
flood's cache holds one packet while two are around, so that it is overrun; the
code's holds 32. In the fork a neighbour may be known from a packet alone. The fork is the smallest mesh whose centre needs two relays.
The real radius (10) and link limit (8) are larger than these meshes.

Every property of a passing run comes with a mutated definition in its module
(marked "Mutant") under which TLC finds it violated.

### Fairness

`FairSpec` and `FairMeshSpec` assume weak fairness of what the host and its
timers do by themselves: a node's queue is drained at every slot wakeup
(tsch.zig:36-69) and the slot timer is set again by every wakeup
(`scheduleNextSlot` is deferred to the end of the handler); a frame on the air
arrives; a link with packets gets its turn, as every peer owns one slot in
every slotframe and the number of packets is bounded. Each is one weak fairness
condition on the disjunction of these steps, all of which use up something
bounded. Nothing is assumed of applications, announcements or retries. Liveness
of the control plane is only claimed where nothing is lost.

`FairSpec` of `SloraHost` assumes that the simulator runs what it has
scheduled: initialisation and the drain with weak fairness; slots, the events
of the broadcast radio and those of the data radio with strong fairness,
because the drain that comes between any two events disables them again and
again while they stay scheduled. Nothing is assumed of traffic or of
receptions. A frame on the air ends; a busy channel may be busy any
number of times, and each kind of event gets its turn, not each frame.

### What the violated properties mean

- `LinksWithinLimit`: `max_links_per_node` is looked at before a request is
  sent only. Responders and nodes with several requests out exceed it, while
  relay.zig:62-63 relies on it.
- `QueuedPacketLeaves` with 192 bytes: `route.send` admits one byte more than
  `relay.buildDataFrame` carries, and the packet blocks its link for good.
- `Aligned`: a beacon carries the slot it left in, without the time into that
  slot, and is used when it has arrived: the follower's clock is late, and is
  in another slot than the network for a part of every slot. `ClockSkew` shows
  how late at most.
- `SentInPeerSlot`: the node queues up to four data frames in the slot of the
  peer they are for. The host sends one and keeps the others until the radio is
  free, whatever slot it is by then, on the channel of the earlier slot.
- `RebroadcastOnce`: a naive node rebroadcasts a packet again when a late copy
  comes after the cache forgot it, while FloodApp.h:3-4 and FloodApp.ned:19-20
  promise once. The run's cache holds one packet; the 32 of the code take 32 other
  packets. `ForwardedOnce` is what holds: once for every time it is taken in.
- `ElectedForwards`: suppression, described for the snr mode, also happens in
  mpr mode, where it silences a relay that nobody else replaces.

## 4. Proofs

Every theorem holds for any values of the constants that satisfy the named
assumptions of its module, and for any number of steps. The assumptions say what
the code takes for granted: the nodes and the payloads that reach a node are
finitely many, the number of nodes stays below the largest cost (`hopCost`'s
cast would trap), a slot and a beacon's time on the air are not empty,
capacities cover what a slot and the drain before it can queue (the code has 4096
bytes, 256 actions and 256 consumed frames, slora.zig:121-124), the value that stands for "no
entry" is no entry.

An inductive invariant goes with each group of theorems. It is the properties
themselves and what they rest on, mostly a claim about frames: a table is
written from a frame that has waited in a queue and on the air, so the invariant
must say what frames promise *now*, and the proof that a promise once true stays
true.

### Control plane: routes

- `TypeCorrect`: `Spec => []TypeOK`. One lemma per operator that builds a
  frame or updates a table, one step per action.
- `RouteInvariance`: `Spec => []RouteInv`.
- `RoutesOrdered`: along a route, the next hop is the destination or has a
  newer or cheaper route.
- `NoRoutingLoop`: `Spec => []LoopFree`: a set of nodes that route a
  destination's packets among themselves would contain one whose route is best,
  and that node's next hop is better still.

`RouteInv` adds that every RREQ and RREP in flight is backed by its
sender's own table (`SoundInFlight`), that sequence numbers were issued
by their owner (`RouteSeqReached`) and that all reverse paths of a discovery
look for the same destination (`ReverseDest`, which is what makes an RREP's
sender stand behind the right destination). It stays true because no step takes
a route back (`Grow`): a frame that was backed once is backed for ever. A
receiver adds at least one to the cost it was told, so what it installs is worse
than what the sender has. When a cost saturates this strictness is lost;
`LoopFree` excepts exactly that.

### Control plane: links and reverse paths

- `OnlyVerifiedHops`, `HandshakeSound`, `RequestsRemembered`, from `LinkInv`:
  whoever was asked for a link had its key verified before (`RequestsKnown`), a
  RESPONSE in flight stands for a link its sender holds and a REQUEST for one
  its sender remembers (`HandshakeInFlight`). No step takes back a verified key,
  a request time or a link (`TablesGrow`).
- `ReversePathsLeadHome`, from `ReverseInv`: an RREQ in flight promises its
  sender's own reverse entry, no dearer than the cost it carries
  (`FloodInFlight`). Entries only get cheaper, so that a copy that was dear when
  it left is backed all the more when it arrives.

### Data plane

- `MeshTypeCorrect` and `MeshNoRoutingLoop`: `SloraMesh` does to the control
  plane what one of `SloraControl`'s handlers does or part of it
  (`MeshStepIsControlStep`), so that `RouteInv` is an invariant here as well.
- `PacketsProgress`, from `ProgressInv`: a packet queued or in flight was given
  a route by its sender, which the peer's own table backs (`RouteInv`), and
  `Grow` keeps it so; a waiting payload waits under the destination it names, or
  a flush would queue it along another's route.
- `NoncesNeverRepeat`, from `NonceInv`: all nonces used on a link are below its
  frame counter, none has been used before there is a link, and setting a link
  up again keeps the counter. The direction bit separates the two ends.
- `MeshImplementsDatagram`: `MeshSpec => Delivers`, the refinement. `OnceInv`
  says that no packet is at two places: not twice in a queue, not in two
  queues, not in a queue and on the air, and not inside once it was delivered.
  It is what makes one removal from a queue the removal of the packet. Every
  step is treated by what it moves: a send adds one packet, a flush moves
  payloads from the waiting lists of several destinations to one link queue
  (`FlushMoves`) and may lose those beyond the limit, a slot moves a link's head
  into the air, a reception takes it to the host, to the next link or away.

### Clocks, slots and channels

All from `TschInv`: a beacon in flight carries the slot of the moment it was
stamped, which was less than a beacon's time on the air ago (`BeaconStamps`); a
node that follows nobody counts from the host's zero (`FreeRunning`).

- `ClocksStayClose`: a follower's clock is late by the time into the slot and
  the beacon's time on the air, and not more, however long the chain of nodes
  that follow each other: the stamp is the host's own count (SloraApp.cc:174).
- `TimerOnBoundary`, `ListensOnCell`, `BroadcastsNeverStuck`.
- `SlotsResync` needs arithmetic of division: a clock less than w late is at
  most ceil(w / slot) slots late. Slots are bounded *backwards* (a node repeats
  at most `MaxJump` slots). Forwards there is no bound: if beacons of the source
  follow each other in less than a slot, each of them sets the slot timer anew
  before it fires, and the follower handles no slot.

### The host

These theorems are about `Spec` of `SloraHost`, for any peers, cells, hop
sequence, slotframe and capacities that satisfy `CellAssumption` and
`CapacityAssumption` (what a slot can queue fits, as it does in the room that
`Node.init` makes), and any number of events: `TypeCorrect`, `OneTimer`, `TimersSurvive`,
`CapacitySuffices`, `RadiosNeverInterrupted` and `HearsOwnSlot`, all from one inductive invariant, `IInv`, and
`DeliveriesCounted` from another, `CountInv`.

- `Discipline` is what the rest leans on: between two events the list is empty
  and its room free. It is why a slot never finds half of its capacity in use,
  and why a payload's bytes are not overwritten before they are copied.
- Types need `OneTimerPerToken`: `cancelWakeup` counts a timer down, and the
  result is a number only because the map never holds a token without a timer.
- `TimersKept` says where a timer is while no timer is set: its token is in the
  map, or an action further back in the list will put it there.
- `Fits` bounds the frames still to be consumed by their place in the list, so
  that those and the consumed ones together stay within what one slot drains.
- `OneUnderWay` ties the data radio's busy flag to the frame it stands for.
- `OwnTuning` says that in the node's own slot the *last* action that tunes the
  radio tunes it to the node's cell: a data frame ahead of it may tune it
  elsewhere for the moment. Nothing but an action of the list tunes the radio,
  so that frames which leave later do not disturb it.
- `CountInv` says that the deduplication set holds the keys of the stamped
  payloads handed over, and what the two counters add up to. Only the drain's
  delivery touches them (`TallyTouched`). The sums over sets of payloads are
  recursive functions: that they exist, add up (`TotalRecursion`) and grow by
  one with one more reception (`TotalAdds`) is shown by induction over the size
  of the set, with `IntervalInduction` below.

Most lemmas first say which steps touch a variable at all (`TimersTouched`,
`ListTouched`, `DataTouched`, `HandledTouched`) and treat only those.

### Flood baselines

All but the last from `FloodInv`, for any mesh, mode, traffic and capacity.

- `FloodTypeCorrect`.
- `CacheRemembers`: the cache is exactly the end of the history of packets
  taken in (`LastOf`); what is not in it was taken in at least as many packets ago as the cache holds.
- `ForwardsCounted`: what a node rebroadcast and what it still owes is counted
  by what it took in, for every packet and not only those taken in already.
- `HopsBounded`: a copy waits and travels only where its hops allow (`HopInv`),
  one hop fewer being one hop further.
- `RelaysCover`: as long as a round of the election leaves something to cover,
  some neighbour covers a part of it, so that one more is elected; after as many
  rounds as neighbours either nothing is left or all are elected, who cover
  everything. A neighbour noted from a packet reaches nobody yet and takes
  nothing away.

- `FloodReaches`, from `ReachInv`: whoever took a packet in has sent it to
  everyone in range, or will (`PassedOn`), unless it used up its hops on the
  way. The difficulty is a cache that forgets: a node takes the same packet in
  again, with fewer hops, and sends it on again, so that the hops of a copy say
  nothing about the nodes it went through. `SpreadInv` says which copies matter:
  a copy that can still bring the packet to someone new was never a repetition
  (`Early`), because a node's first copy leaves the air before its second
  starts. A first copy without hops left then has been through more nodes than
  the longest way has (`Wide`), and they are all there are. `CarryInv` keeps the
  packets apart by their keys and within what the flood can reach, the least set
  closed under rebroadcasts (`FloodHopsClosed`).

The hops of a packet, the nodes a flood reaches and the rounds of an election
are recursive functions.
What such a function computes is shown by induction over an interval
(`IntervalInduction`, from the least counterexample): a function that iterates a
step exists (`IterationExists`), is the only one (`IterationUnique`), and so is
the one the definition chooses.

### Only model-checked

- All liveness (`RequestAnswered`, `DiscoveryAnswered`, `QueuedPacketLeaves`,
  `SlotsContinue`, `BroadcastsLeave`, `DataLeaves`): fairness and `ENABLED` are
  out of the prover's reach.

## 5. Not modelled

- Cryptography beyond the nonce: standard library code.
- The physical layer: collisions, capture and half-duplex radios appear as
  frames that some receivers lose. That a data frame is heard on its own
  channel only is in `SloraHost`; the tag that says so in the simulation
  (`SloraMedium.cc`) is a matter of the animation and is left out.
- The C interface converts arguments one by one and keeps no state; latencies,
  the scalars both applications record at the end, the study's scripts and
  configurations.
- Generated code: `FloodPacket_m.*`, more than half of the C++ under `flood/`,
  is what the simulator's message compiler makes of `FloodPacket.msg`. The
  fields are in the records of `FloodApp`; accessors, packing and descriptors
  for the inspector have no behaviour of their own.
- `route.send` with a source other than the node itself: no caller does that.
- The first byte of a payload: it decides between the application and the echo
  service (relay.zig:91), and the application chooses it. `FirstForm` says what a
  payload reads as; the instances send none that reads as the wrong one.
- The host's destructor: it runs when the simulation is torn down and nothing
  follows it.
- Running out of memory: allocation failures are ignored by the code in most
  places and are not steps of the models.
- Assertion failures (an empty payload at tsch.zig:87, an unknown echo
  operation) end the program; the step that would fail is not enabled.

## 6. Plan

The composition of clocks with the host's channels: which clocks let a
transmission meet its receiver on the right channel.
