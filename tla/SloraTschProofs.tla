-------------------------- MODULE SloraTschProofs --------------------------
(***************************************************************************)
(* Proofs about SloraTsch, for any schedule, any air time of a beacon and  *)
(* any number of beacons: the clocks of the mesh, the slot timer, the data *)
(* radio in the node's own slot and the queue of the broadcast radio.      *)
(*                                                                         *)
(* The inductive invariant TschInv adds to the properties what they rest   *)
(* on: every beacon on the air carries the slot it was sent in, a node     *)
(* without a source counts from the host's zero, the last slot handled     *)
(* left the data radio on the right channel, and a busy broadcast radio is *)
(* on the air.                                                             *)
(***************************************************************************)
EXTENDS SloraTsch, TLAPS

(***************************************************************************)
(* Division.                                                               *)
(***************************************************************************)
LEMMA Division ==
    ASSUME NEW a \in Int, NEW d \in Nat \ {0}
    PROVE  /\ a \div d \in Int /\ a % d \in Int
           /\ 0 <= a % d /\ a % d < d
           /\ a = (a \div d) * d + (a % d)
<1>1. d \in Int /\ d > 0
  OBVIOUS
<1>2. a \div d \in Int /\ a % d \in Int /\ 0 <= a % d /\ a % d < d
  OBVIOUS
<1>3. PICK q \in Int : q = a \div d
  BY <1>2
<1>4. PICK r \in Int : r = a % d
  BY <1>2
<1>5. a = q*d + r
   BY <1>1, <1>3, <1>4, Z3T(30)
<1>6. a = (a \div d) * d + (a % d)
  BY <1>3, <1>4, <1>5, Zenon
<1>7. QED
  BY <1>2, <1>6, Zenon
LEMMA DivisionUnique ==
    ASSUME NEW a \in Int, NEW d \in Nat \ {0}, NEW q \in Int, q * d <= a, a < q * d + d
    PROVE  a \div d = q
<1>1. PICK p \in Int : p = a \div d /\ p * d <= a /\ a < p * d + d
  BY Division
<1>2. CASE p < q
  <2>1. (p + 1) * d <= q * d
    BY <1>2
  <2>2. QED
    BY <1>1, <2>1
<1>3. CASE q < p
  <2>1. (q + 1) * d <= p * d
    BY <1>3
  <2>2. QED
    BY <1>1, <2>1
<1>4. QED
  BY <1>1, <1>2, <1>3
LEMMA DivisionMonotone ==
    ASSUME NEW a \in Int, NEW b \in Int, NEW d \in Nat \ {0}, a <= b
    PROVE  a \div d <= b \div d
<1>1. PICK p \in Int : p = a \div d /\ p * d <= a /\ a < p * d + d
  BY Division
<1>2. PICK q \in Int : q = b \div d /\ q * d <= b /\ b < q * d + d
  BY Division
<1>3. CASE q < p
  <2>1. (q + 1) * d <= p * d
    BY <1>3
  <2>2. QED
    BY <1>1, <1>2, <2>1
<1>4. QED
  BY <1>1, <1>2, <1>3
LEMMA RemainderOfSum ==
    ASSUME NEW a \in Int, NEW b \in Int, NEW d \in Nat \ {0}
    PROVE  (a + b) % d = ((a % d) + b) % d
<1>1. PICK p \in Int, r \in Int : p = a \div d /\ r = a % d /\ a = p * d + r
  BY Division
<1>2. PICK q \in Int, s \in Int : q = (r + b) \div d /\ s = (r + b) % d /\ r + b = q * d + s /\ 0 <= s /\ s < d
  BY Division
<1>3. a + b = (p + q) * d + s
  <2>1. a + b = p * d + (q * d + s)
    BY <1>1, <1>2
  <2>2. QED
    BY <2>1
<1>4. (p + q) * d <= a + b /\ a + b < (p + q) * d + d
  BY <1>2, <1>3
<1>5. (a + b) \div d = p + q
  BY <1>4, DivisionUnique
<1>6. a + b = (p + q) * d + ((a + b) % d)
  <2>1. a + b \in Int
    OBVIOUS
  <2>2. a + b = ((a + b) \div d) * d + ((a + b) % d)
    BY <2>1, Division
  <2>3. QED
    BY <1>5, <2>2
<1>7. (a + b) % d = s
  BY <1>3, <1>6, Division
<1>8. QED
  BY <1>1, <1>2, <1>7

LEMMA MultipleRemainder ==
    ASSUME NEW k \in Int, NEW d \in Nat \ {0}
    PROVE  (k * d) % d = 0
<1>1. k * d \in Int
  OBVIOUS
<1>2. (k * d) \div d = k
  BY <1>1, DivisionUnique
<1>3. k * d = k * d + ((k * d) % d)
  BY <1>1, <1>2, Division
<1>4. QED
  BY <1>1, <1>3, Division

(***************************************************************************)
(* The invariant.                                                          *)
(***************************************************************************)
\* A beacon carries the number of the slot, by the host's clock, in which it left.
BeaconStamps ==
    \A rx \in air : /\ now <= rx.due
                    /\ rx.asn * SlotDuration <= rx.due - AirTime
                    /\ rx.due - AirTime < rx.asn * SlotDuration + SlotDuration

\* No slot is handled before it begins; before the first beacon a node counts its
\* slots one by one.
FreeRunning ==
    \A n \in Node :
        /\ handled[n] * SlotDuration <= now
        /\ time_source[n] = NoSource =>
              asn_offset[n] = 0 /\ wakeup[n] = (handled[n] + 1) * SlotDuration

\* The last slot handled, when it was the node's own, tuned its radio.
Tuned == \A n \in Node : SlotOffset(handled[n]) = Cell[n].slot_offset => data_channel[n] = OwnChannel(n)

\* bcastTxBusy is the transmission.
BusyOnAir == \A n \in Node : tx_busy[n] <=> on_air[n] > 0

ClockInv == BeaconStamps /\ ClockSkew /\ WakeupOnBoundary /\ FreeRunning

TschInv == TypeOK /\ ClockInv /\ Tuned /\ BusyOnAir /\ BroadcastsMove

LEMMA Durations == SlotDuration \in Nat \ {0} /\ AirTime \in Nat \ {0} /\ SlotframeLen \in Nat \ {0, 1}
    BY ScheduleAssumption

LEMMA Stamps ==
    ASSUME TypeOK, NEW rx \in air
    PROVE  rx.from \in Node /\ rx.to \in Node /\ rx.asn \in Nat /\ rx.due \in Nat /\ rx.from # NoSource
    BY ScheduleAssumption DEF TypeOK

\* The slot a clock is in.
LEMMA InSlot ==
    ASSUME now \in Nat, NEW offset \in Int
    PROVE  /\ CurrentAsn(offset) \in Int
           /\ CurrentAsn(offset) * SlotDuration <= now + offset
           /\ now + offset < CurrentAsn(offset) * SlotDuration + SlotDuration
           /\ now + offset >= 0 => CurrentAsn(offset) \in Nat
<1>1. now + offset \in Int
    OBVIOUS
<1>2. PICK q \in Int : /\ q = (now + offset) \div SlotDuration
                       /\ q * SlotDuration <= now + offset
                       /\ now + offset < q * SlotDuration + SlotDuration
    BY <1>1, Durations, Division
<1>3. ASSUME now + offset >= 0 PROVE q >= 0
    <2> SUFFICES ASSUME q + 1 <= 0 PROVE FALSE
        BY <1>2
    <2>1. (q + 1) * SlotDuration <= 0
        BY Durations
    <2>2. QED
        BY <1>2, <1>3, <2>1, Durations
<1>4. CurrentAsn(offset) = q
    BY <1>2 DEF CurrentAsn
<1>5. QED
    BY <1>2, <1>3, <1>4

\* scheduleNextSlot.
LEMMA NextSlotIsBoundary ==
    ASSUME now \in Nat, NEW offset \in Int
    PROVE  /\ NextSlot(offset) = (CurrentAsn(offset) + 1) * SlotDuration - offset
           /\ NextSlot(offset) \in Nat
           /\ now < NextSlot(offset) /\ NextSlot(offset) <= now + SlotDuration
           /\ (NextSlot(offset) + offset) % SlotDuration = 0
<1>1. PICK q \in Int : /\ q = CurrentAsn(offset)
                       /\ q * SlotDuration <= now + offset
                       /\ now + offset < q * SlotDuration + SlotDuration
    BY InSlot
<1>2. PICK b \in Int : b = (q + 1) * SlotDuration
    BY Durations
<1>3. b = q * SlotDuration + SlotDuration
    BY <1>2, Durations
<1>4. b - offset > now /\ b - offset <= now + SlotDuration /\ b - offset \in Nat
    BY <1>1, <1>3, Durations
<1>5. NextSlot(offset) = b - offset
    BY <1>1, <1>2, <1>4 DEF NextSlot, WallclockAtAsn
<1>6. b % SlotDuration = 0
    BY <1>2, Durations, MultipleRemainder
<1>7. b - offset + offset = b
    OBVIOUS
<1>8. QED
    BY <1>1, <1>2, <1>4, <1>5, <1>6, <1>7

(***************************************************************************)
(* What the steps do to the clocks.                                        *)
(***************************************************************************)
\* A beacon that leaves now.
Stamped(rx) == /\ rx.from \in Node /\ rx.to \in Node
               /\ rx.asn = now \div SlotDuration /\ rx.due = now + AirTime

\* Steps that move no clock.
Quiet == /\ UNCHANGED <<clockVars, handled>>
         /\ \A rx \in air' : rx \in air \/ Stamped(rx)

LEMMA StepKinds ==
    ASSUME [Next]_vars
    PROVE  \/ Quiet
           \/ \E n \in Node, s \in 0 .. SlotframeLen - 1 : Wakes(n, s) /\ UNCHANGED air
           \/ \E rx \in air : ReceiveEb(rx)
           \/ Tick
<1>1. CASE UNCHANGED vars
    BY <1>1 DEF vars, Quiet, clockVars
<1>2. ASSUME NEW n \in Node, SlotZero(n)
      PROVE  \E s \in 0 .. SlotframeLen - 1 : Wakes(n, s) /\ UNCHANGED air
    BY <1>2, Durations DEF SlotZero
<1>3. ASSUME NEW n \in Node, NEW p \in Node, NEW s \in 0 .. SlotframeLen - 1, TxOnCell(n, s, p)
      PROVE  Wakes(n, s) /\ UNCHANGED air
    BY <1>3 DEF TxOnCell, hostVars
<1>4. ASSUME NEW n \in Node, ListenOnCell(n)
      PROVE  \E s \in 0 .. SlotframeLen - 1 : Wakes(n, s) /\ UNCHANGED air
  <2>1. Cell[n].slot_offset \in 0 .. SlotframeLen - 1
    BY ScheduleAssumption
  <2>2. QED
    BY <1>4, <2>1 DEF ListenOnCell, hostVars
<1>5. ASSUME NEW n \in Node, NEW s \in 0 .. SlotframeLen - 1, IdleSlot(n, s)
      PROVE  Wakes(n, s) /\ UNCHANGED air
    BY <1>5 DEF IdleSlot, hostVars
<1>6. ASSUME NEW n \in Node, AnnounceWakeup(n) PROVE Quiet
    BY <1>6 DEF AnnounceWakeup, Quiet, dataVars, hostVars
<1>7. ASSUME NEW n \in Node, NEW p \in Node, QueuePacket(n, p) PROVE Quiet
    BY <1>7 DEF QueuePacket, Quiet, hostVars
<1>8. ASSUME NEW n \in Node, BackoffEnds(n) PROVE Quiet
  <2>1. UNCHANGED <<clockVars, handled>>
    BY <1>8 DEF BackoffEnds, dataVars
  <2>2. CASE UNCHANGED air
    BY <2>1, <2>2 DEF Quiet
  <2>3. CASE \E heard \in SUBSET InRange[n] :
                air' = air \cup {[from |-> n, to |-> m, asn |-> now \div SlotDuration,
                                  due |-> now + AirTime] : m \in heard}
    <3>1. PICK heard \in SUBSET InRange[n] :
              air' = air \cup {[from |-> n, to |-> m, asn |-> now \div SlotDuration,
                                due |-> now + AirTime] : m \in heard}
      BY <2>3
    <3>2. InRange[n] \subseteq Node
      BY ScheduleAssumption
    <3>3. \A rx \in air' : rx \in air \/ Stamped(rx)
      BY <3>1, <3>2 DEF Stamped
    <3>4. QED
      BY <2>1, <3>3 DEF Quiet
  <2>4. QED
    BY <1>8, <2>2, <2>3 DEF BackoffEnds
<1>9. ASSUME NEW n \in Node, TransmissionEnds(n) PROVE Quiet
    BY <1>9 DEF TransmissionEnds, Quiet, dataVars
<1>10. QED
    BY <1>1, <1>2, <1>3, <1>4, <1>5, <1>6, <1>7, <1>8, <1>9 DEF Next

LEMMA QuietClock ==
    ASSUME TypeOK, ClockInv, Quiet
    PROVE  ClockInv'
<1>1. UNCHANGED <<now, asn_offset, time_source, wakeup, handled>>
    BY DEF Quiet, clockVars
<1>2. ASSUME NEW rx \in air', Stamped(rx)
      PROVE  /\ now <= rx.due
             /\ rx.asn * SlotDuration <= rx.due - AirTime
             /\ rx.due - AirTime < rx.asn * SlotDuration + SlotDuration
  <2>1. now \in Int /\ now + AirTime - AirTime = now /\ now <= now + AirTime
    BY Durations DEF TypeOK
  <2>2. PICK q \in Int : /\ q = now \div SlotDuration
                         /\ q * SlotDuration <= now
                         /\ now < q * SlotDuration + SlotDuration
    BY <2>1, Durations, Division
  <2>3. rx.asn = q /\ rx.due = now + AirTime
    BY <1>2, <2>2 DEF Stamped
  <2>4. rx.due - AirTime = now /\ now <= rx.due
    BY <2>1, <2>3, Durations
  <2>5. rx.asn * SlotDuration = q * SlotDuration
    BY <2>3
  <2>6. QED
    BY <2>2, <2>4, <2>5
<1>3. BeaconStamps'
    BY <1>1, <1>2 DEF Quiet, ClockInv, BeaconStamps
<1>4. ClockSkew' /\ WakeupOnBoundary' /\ FreeRunning'
    BY <1>1 DEF ClockInv, ClockSkew, WakeupOnBoundary, FreeRunning
<1>5. QED
    BY <1>3, <1>4 DEF ClockInv

\* A slot wakeup.
LEMMA WakesClock ==
    ASSUME TypeOK, ClockInv, NEW n \in Node, NEW s \in 0 .. SlotframeLen - 1, Wakes(n, s), UNCHANGED air
    PROVE  /\ ClockInv'
           /\ wakeup' \in [Node -> Nat] /\ handled' \in [Node -> Nat]
           /\ SlotOffset(handled'[n]) = s
           /\ handled'[n] = CurrentAsn(asn_offset[n])
           /\ \A m \in Node \ {n} : handled'[m] = handled[m]
<1>1. /\ now = wakeup[n] /\ s = SlotOffset(CurrentAsn(asn_offset[n]))
      /\ handled' = [handled EXCEPT ![n] = CurrentAsn(asn_offset[n])]
      /\ wakeup' = [wakeup EXCEPT ![n] = NextSlot(asn_offset[n])]
      /\ UNCHANGED <<now, asn_offset, time_source>>
    BY DEF Wakes, Reschedule
<1>2. now \in Nat /\ asn_offset[n] \in Int /\ now + asn_offset[n] >= 0 /\ asn_offset[n] <= 0
    BY DEF TypeOK, ClockInv, ClockSkew
<1>3. PICK asn \in Nat : /\ asn = CurrentAsn(asn_offset[n])
                         /\ asn * SlotDuration <= now + asn_offset[n]
    BY <1>2, InSlot
<1>4. PICK next \in Nat : /\ next = NextSlot(asn_offset[n])
                          /\ next = (asn + 1) * SlotDuration - asn_offset[n]
                          /\ now < next /\ next <= now + SlotDuration
                          /\ (next + asn_offset[n]) % SlotDuration = 0
    BY <1>2, <1>3, NextSlotIsBoundary
<1>5. /\ handled'[n] = asn /\ \A m \in Node \ {n} : handled'[m] = handled[m]
      /\ handled' \in [Node -> Nat]
    BY <1>1, <1>3 DEF TypeOK
<1>6. /\ wakeup'[n] = next /\ \A m \in Node \ {n} : wakeup'[m] = wakeup[m]
      /\ wakeup' \in [Node -> Nat]
    BY <1>1, <1>4 DEF TypeOK
<1>7. BeaconStamps' /\ ClockSkew'
    BY <1>1 DEF ClockInv, BeaconStamps, ClockSkew
<1>8. WakeupOnBoundary'
  <2> SUFFICES ASSUME NEW m \in Node
               PROVE  /\ now <= wakeup'[m] /\ wakeup'[m] <= now + SlotDuration
                      /\ (wakeup'[m] + asn_offset[m]) % SlotDuration = 0
    BY <1>1 DEF WakeupOnBoundary
  <2>1. CASE m = n
    BY <1>2, <1>4, <1>6, <2>1
  <2>2. CASE m # n
    BY <1>6, <2>2 DEF ClockInv, WakeupOnBoundary
  <2>3. QED
    BY <2>1, <2>2
<1>9. FreeRunning'
  <2> SUFFICES ASSUME NEW m \in Node
               PROVE  /\ handled'[m] * SlotDuration <= now
                      /\ time_source[m] = NoSource =>
                            asn_offset[m] = 0 /\ wakeup'[m] = (handled'[m] + 1) * SlotDuration
    BY <1>1 DEF FreeRunning
  <2>1. CASE m = n
    <3>1. asn * SlotDuration <= now
      BY <1>2, <1>3, Durations
    <3>2. ASSUME time_source[n] = NoSource
          PROVE  asn_offset[n] = 0 /\ next = (asn + 1) * SlotDuration
      <4>1. asn_offset[n] = 0
        BY <3>2 DEF ClockInv, FreeRunning
      <4>2. (asn + 1) * SlotDuration - 0 = (asn + 1) * SlotDuration
        BY Durations
      <4>3. QED
        BY <1>4, <4>1, <4>2
    <3>3. QED
      BY <1>5, <1>6, <2>1, <3>1, <3>2
  <2>2. CASE m # n
    BY <1>5, <1>6, <2>2 DEF ClockInv, FreeRunning
  <2>3. QED
    BY <2>1, <2>2
<1>10. QED
    BY <1>1, <1>3, <1>5, <1>6, <1>7, <1>8, <1>9 DEF ClockInv

\* A beacon arrives.
LEMMA ReceiveEbClock ==
    ASSUME TypeOK, ClockInv, NEW rx \in air, ReceiveEb(rx)
    PROVE  /\ ClockInv'
           /\ asn_offset' \in [Node -> Int] /\ wakeup' \in [Node -> Nat]
           /\ time_source' \in [Node -> Node \cup {NoSource}]
<1> DEFINE n == rx.to
           offset == WallclockAtAsn(rx.asn) - now
<1>1. rx.from \in Node /\ n \in Node /\ rx.asn \in Nat /\ rx.due \in Nat /\ rx.from # NoSource
    BY Stamps
<1>2. now \in Nat /\ rx.due = now /\ now' = now /\ handled' = handled /\ air' = air \ {rx}
    BY DEF ReceiveEb, dataVars, TypeOK
<1>3. /\ offset \in Int /\ now + offset >= 0 /\ offset <= 0 /\ offset > - (SlotDuration + AirTime)
  <2>1. PICK b \in Nat : b = rx.asn * SlotDuration
    BY <1>1, Durations
  <2>2. b <= now - AirTime /\ now - AirTime < b + SlotDuration
    BY <1>2, <2>1 DEF ClockInv, BeaconStamps
  <2>3. offset = b - now
    BY <2>1 DEF WallclockAtAsn
  <2> HIDE DEF offset
  <2>4. QED
    BY <1>2, <2>2, <2>3, Durations
<1>4. BeaconStamps'
    BY <1>2 DEF ClockInv, BeaconStamps
<1>5. CASE time_source[n] \notin {NoSource, rx.from}
  <2>1. UNCHANGED <<time_source, asn_offset, wakeup>>
    BY <1>5 DEF ReceiveEb
  <2>2. QED
    BY <1>2, <1>4, <2>1 DEF TypeOK, ClockInv, ClockSkew, WakeupOnBoundary, FreeRunning
<1>6. CASE time_source[n] \in {NoSource, rx.from}
  <2>1. /\ time_source' = [time_source EXCEPT ![n] = rx.from]
        /\ asn_offset' = [asn_offset EXCEPT ![n] = offset]
        /\ RescheduleIfMoved(n, offset)
    BY <1>6 DEF ReceiveEb
  <2> HIDE DEF offset
  <2>2. /\ time_source' \in [Node -> Node \cup {NoSource}] /\ time_source'[n] = rx.from
        /\ \A m \in Node \ {n} : time_source'[m] = time_source[m]
    BY <1>1, <2>1 DEF TypeOK
  <2>3. /\ asn_offset' \in [Node -> Int] /\ asn_offset'[n] = offset
        /\ \A m \in Node \ {n} : asn_offset'[m] = asn_offset[m]
    BY <1>1, <1>3, <2>1 DEF TypeOK
  <2>4. /\ wakeup' \in [Node -> Nat]
        /\ \A m \in Node \ {n} : wakeup'[m] = wakeup[m]
        /\ now <= wakeup'[n] /\ wakeup'[n] <= now + SlotDuration
        /\ (wakeup'[n] + offset) % SlotDuration = 0
    <3>1. CASE offset = asn_offset[n]
      BY <1>1, <2>1, <3>1 DEF RescheduleIfMoved, TypeOK, ClockInv, WakeupOnBoundary
    <3>2. CASE offset # asn_offset[n]
      <4>1. wakeup' = [wakeup EXCEPT ![n] = NextSlot(offset)]
        BY <2>1, <3>2 DEF RescheduleIfMoved, Reschedule
      <4>2. PICK next \in Nat : /\ next = NextSlot(offset)
                                /\ now < next /\ next <= now + SlotDuration
                                /\ (next + offset) % SlotDuration = 0
        BY <1>2, <1>3, NextSlotIsBoundary
      <4>3. /\ wakeup' \in [Node -> Nat] /\ wakeup'[n] = next
            /\ \A m \in Node \ {n} : wakeup'[m] = wakeup[m]
        BY <1>1, <4>1, <4>2 DEF TypeOK
      <4>4. QED
        BY <1>2, <4>2, <4>3
    <3>3. QED
      BY <3>1, <3>2
  <2>5. ClockSkew'
    <3> SUFFICES ASSUME NEW m \in Node
                 PROVE  /\ now + asn_offset'[m] >= 0
                        /\ asn_offset'[m] <= 0
                        /\ asn_offset'[m] > - (SlotDuration + AirTime)
      BY <1>2 DEF ClockSkew
    <3>1. CASE m = n
      BY <1>3, <2>3, <3>1
    <3>2. CASE m # n
      BY <2>3, <3>2 DEF ClockInv, ClockSkew
    <3>3. QED
      BY <3>1, <3>2
  <2>6. WakeupOnBoundary'
    <3> SUFFICES ASSUME NEW m \in Node
                 PROVE  /\ now <= wakeup'[m] /\ wakeup'[m] <= now + SlotDuration
                        /\ (wakeup'[m] + asn_offset'[m]) % SlotDuration = 0
      BY <1>2 DEF WakeupOnBoundary
    <3>1. CASE m = n
      BY <2>3, <2>4, <3>1
    <3>2. CASE m # n
      BY <2>3, <2>4, <3>2 DEF ClockInv, WakeupOnBoundary
    <3>3. QED
      BY <3>1, <3>2
  <2>7. FreeRunning'
    <3> SUFFICES ASSUME NEW m \in Node
                 PROVE  /\ handled[m] * SlotDuration <= now
                        /\ time_source'[m] = NoSource =>
                              asn_offset'[m] = 0 /\ wakeup'[m] = (handled[m] + 1) * SlotDuration
      BY <1>2 DEF FreeRunning
    <3>1. CASE m = n
      BY <1>1, <2>2, <3>1 DEF ClockInv, FreeRunning
    <3>2. CASE m # n
      BY <2>2, <2>3, <2>4, <3>2 DEF ClockInv, FreeRunning
    <3>3. QED
      BY <3>1, <3>2
  <2>8. QED
    BY <1>4, <2>2, <2>3, <2>4, <2>5, <2>6, <2>7 DEF ClockInv
<1>7. QED
    BY <1>5, <1>6

LEMMA TickClock ==
    ASSUME TypeOK, ClockInv, Tick
    PROVE  ClockInv'
<1>1. /\ now' = now + 1 /\ now \in Nat
      /\ \A n \in Node : wakeup[n] > now /\ wakeup[n] \in Nat /\ asn_offset[n] \in Int /\ handled[n] \in Nat
      /\ \A rx \in air : rx.due > now
      /\ UNCHANGED <<asn_offset, time_source, wakeup, handled, air>>
    BY DEF Tick, dataVars, hostVars, TypeOK
<1>2. BeaconStamps'
  <2> SUFFICES ASSUME NEW rx \in air PROVE now + 1 <= rx.due
    BY <1>1 DEF ClockInv, BeaconStamps
  <2>1. QED
    BY <1>1, Stamps
<1>3. ClockSkew'
    BY <1>1 DEF ClockInv, ClockSkew
<1>4. WakeupOnBoundary'
    BY <1>1, Durations DEF ClockInv, WakeupOnBoundary
<1>5. FreeRunning'
  <2> SUFFICES ASSUME NEW n \in Node
               PROVE  handled[n] * SlotDuration <= now + 1
    BY <1>1 DEF ClockInv, FreeRunning
  <2>1. PICK b \in Int : b = handled[n] * SlotDuration /\ b <= now
    BY <1>1, Durations DEF ClockInv, FreeRunning
  <2>2. QED
    BY <1>1, <2>1
<1>6. QED
    BY <1>2, <1>3, <1>4, <1>5 DEF ClockInv

LEMMA StepClock ==
    ASSUME TypeOK, ClockInv, [Next]_vars
    PROVE  ClockInv'
    BY StepKinds, QuietClock, WakesClock, ReceiveEbClock, TickClock

(***************************************************************************)
(* Types.                                                                  *)
(***************************************************************************)
\* A slot wakeup leaves the clock variables typed, and the rest is the action's own.
LEMMA WakesType ==
    ASSUME TypeOK, ClockInv, NEW n \in Node, NEW s \in 0 .. SlotframeLen - 1, Wakes(n, s), UNCHANGED air,
           eb_pending' \in [Node -> BOOLEAN], pending_tx' \in [Node -> [Node -> Nat]],
           data_channel' \in [Node -> Channel \cup {NoChannel}],
           bcast_queue' \in [Node -> Nat], backoff' \in [Node -> BOOLEAN], UNCHANGED <<tx_busy, on_air>>
    PROVE  TypeOK'
<1>1. wakeup' \in [Node -> Nat] /\ handled' \in [Node -> Nat]
    BY WakesClock
<1>2. UNCHANGED <<now, asn_offset, time_source, announced, queued>>
    BY DEF Wakes
<1>3. QED
    BY <1>1, <1>2 DEF TypeOK

LEMMA TunedToType ==
    ASSUME NEW n \in Node, NEW asn \in Nat
    PROVE  TunedTo(n, asn) \in Channel
<1>1. Cell[n].ch_offset \in Nat
    BY ScheduleAssumption, Durations DEF Channel
<1>2. (asn + Cell[n].ch_offset) % SlotframeLen \in Channel
  <2>1. asn + Cell[n].ch_offset \in Int /\ SlotframeLen \in Nat \ {0}
    BY <1>1, Durations
  <2>2. QED
    BY <2>1, Division DEF Channel
<1>3. QED
    BY <1>2, ScheduleAssumption DEF TunedTo, PhysicalChannel

LEMMA WakesAsn ==
    ASSUME TypeOK, ClockInv, NEW n \in Node
    PROVE  CurrentAsn(asn_offset[n]) \in Nat
    BY InSlot DEF TypeOK, ClockInv, ClockSkew

\* What a cell leaves in a link's queue.
LEMMA AfterCellType ==
    ASSUME NEW k \in Nat
    PROVE  AfterCell(k) \in Nat
    BY ScheduleAssumption DEF AfterCell

\* The host's queue after slot 0.
LEMMA OwedBeacon ==
    ASSUME TypeOK, NEW n \in Node, SlotZero(n)
    PROVE  \E queue \in Nat : /\ bcast_queue' = [bcast_queue EXCEPT ![n] = queue]
                              /\ backoff' = [backoff EXCEPT ![n] = Pump(queue, tx_busy[n], backoff[n])]
<1>1. PICK queue : queue = bcast_queue[n] + IF eb_pending[n] THEN 1 ELSE 0
    OBVIOUS
<1>2. queue \in Nat
  <2>1. bcast_queue[n] \in Nat
    BY DEF TypeOK
  <2>2. CASE eb_pending[n]
    BY <1>1, <2>1, <2>2
  <2>3. CASE ~eb_pending[n]
    BY <1>1, <2>1, <2>3
  <2>4. QED
    BY <2>2, <2>3
<1>3. /\ bcast_queue' = [bcast_queue EXCEPT ![n] = queue]
      /\ backoff' = [backoff EXCEPT ![n] = Pump(queue, tx_busy[n], backoff[n])]
    BY <1>1, Zenon DEF SlotZero
<1>4. QED
    BY <1>2, <1>3

LEMMA SlotZeroType ==
    ASSUME TypeOK, ClockInv, NEW n \in Node, SlotZero(n)
    PROVE  TypeOK'
<1>1. PICK queue \in Nat : /\ bcast_queue' = [bcast_queue EXCEPT ![n] = queue]
                           /\ backoff' = [backoff EXCEPT ![n] = Pump(queue, tx_busy[n], backoff[n])]
    BY OwedBeacon
<1>2. Pump(queue, tx_busy[n], backoff[n]) \in BOOLEAN
    BY DEF Pump
<1>3. bcast_queue' \in [Node -> Nat]
    BY <1>1 DEF TypeOK
<1>4. backoff' \in [Node -> BOOLEAN]
    BY <1>1, <1>2, Zenon DEF TypeOK
<1>5. eb_pending' \in [Node -> BOOLEAN]
    BY DEF SlotZero, TypeOK
<1>6. /\ Wakes(n, 0) /\ 0 \in 0 .. SlotframeLen - 1
      /\ UNCHANGED <<pending_tx, data_channel, tx_busy, air, on_air>>
    BY Durations DEF SlotZero
<1>7. QED
    BY <1>3, <1>4, <1>5, <1>6, WakesType DEF TypeOK

LEMMA TxOnCellType ==
    ASSUME TypeOK, ClockInv, NEW n \in Node, NEW p \in Node, NEW s \in 0 .. SlotframeLen - 1,
           TxOnCell(n, s, p)
    PROVE  TypeOK'
<1>1. AfterCell(pending_tx[n][p]) \in Nat
    BY AfterCellType DEF TypeOK
<1>2. pending_tx' \in [Node -> [Node -> Nat]]
  <2>1. [pending_tx[n] EXCEPT ![p] = AfterCell(pending_tx[n][p])] \in [Node -> Nat]
    BY <1>1 DEF TypeOK
  <2>2. pending_tx' = [pending_tx EXCEPT ![n] = [pending_tx[n] EXCEPT ![p] = AfterCell(pending_tx[n][p])]]
    BY DEF TxOnCell, TypeOK
  <2>3. QED
    BY <2>1, <2>2 DEF TypeOK
<1>3. PICK ch \in Channel : data_channel' = [data_channel EXCEPT ![n] = ch]
    BY WakesAsn, TunedToType DEF TxOnCell, TunedAfterTx
<1>4. data_channel' \in [Node -> Channel \cup {NoChannel}]
    BY <1>3 DEF TypeOK
<1>5. Wakes(n, s) /\ UNCHANGED <<eb_pending, hostVars>>
    BY DEF TxOnCell
<1>6. QED
    BY <1>2, <1>4, <1>5, WakesType DEF TypeOK, hostVars

LEMMA ListenOnCellType ==
    ASSUME TypeOK, ClockInv, NEW n \in Node, ListenOnCell(n)
    PROVE  TypeOK'
<1>1. PICK ch \in Channel : data_channel' = [data_channel EXCEPT ![n] = ch]
    BY WakesAsn, TunedToType DEF ListenOnCell
<1>2. data_channel' \in [Node -> Channel \cup {NoChannel}]
    BY <1>1 DEF TypeOK
<1>3. /\ Wakes(n, Cell[n].slot_offset) /\ Cell[n].slot_offset \in 0 .. SlotframeLen - 1
      /\ UNCHANGED <<eb_pending, pending_tx, hostVars>>
    BY ScheduleAssumption DEF ListenOnCell
<1>4. QED
    BY <1>2, <1>3, WakesType DEF TypeOK, hostVars

LEMMA IdleSlotType ==
    ASSUME TypeOK, ClockInv, NEW n \in Node, NEW s \in 0 .. SlotframeLen - 1, IdleSlot(n, s)
    PROVE  TypeOK'
<1>1. Wakes(n, s) /\ UNCHANGED <<eb_pending, pending_tx, data_channel, hostVars>>
    BY DEF IdleSlot
<1>2. QED
    BY <1>1, WakesType DEF TypeOK, hostVars

LEMMA BackoffEndsType ==
    ASSUME TypeOK, NEW n \in Node, BackoffEnds(n)
    PROVE  TypeOK'
<1>1. now \div SlotDuration \in Nat /\ now + AirTime \in Nat
  <2>1. now \in Nat /\ now + 0 = now /\ 0 \in Int
    BY DEF TypeOK
  <2>2. CurrentAsn(0) \in Nat
    BY <2>1, InSlot
  <2>3. QED
    BY <2>1, <2>2, Durations DEF CurrentAsn
<1>2. /\ bcast_queue' \in [Node -> Nat] /\ on_air' \in [Node -> Nat]
      /\ tx_busy' \in [Node -> BOOLEAN] /\ backoff' \in [Node -> BOOLEAN]
  <2>1. CASE bcast_queue[n] > 0
    <3>1. PICK more \in BOOLEAN : backoff' = [backoff EXCEPT ![n] = more]
      <4>1. (bcast_queue[n] > 1) \in BOOLEAN
        OBVIOUS
      <4>2. backoff' = [backoff EXCEPT ![n] = bcast_queue[n] > 1]
        BY <2>1 DEF BackoffEnds
      <4>3. QED
        BY <4>1, <4>2, Zenon
    <3>2. /\ bcast_queue' = [bcast_queue EXCEPT ![n] = @ - 1]
          /\ tx_busy' = [tx_busy EXCEPT ![n] = TRUE]
          /\ on_air' = [on_air EXCEPT ![n] = now + AirTime]
      BY <2>1 DEF BackoffEnds
    <3>3. bcast_queue[n] - 1 \in Nat
      BY <2>1 DEF TypeOK
    <3>4. QED
      BY <1>1, <3>1, <3>2, <3>3 DEF TypeOK
  <2>2. CASE ~(bcast_queue[n] > 0)
    BY <2>2 DEF BackoffEnds, TypeOK
  <2>3. QED
    BY <2>1, <2>2
<1>3. air' \in SUBSET [from : Node, to : Node, asn : Nat, due : Nat]
  <2>1. CASE UNCHANGED air
    BY <2>1 DEF TypeOK
  <2>2. CASE \E heard \in SUBSET InRange[n] :
                air' = air \cup {[from |-> n, to |-> m, asn |-> now \div SlotDuration,
                                  due |-> now + AirTime] : m \in heard}
    <3>1. InRange[n] \subseteq Node
      BY ScheduleAssumption
    <3>2. QED
      BY <1>1, <2>2, <3>1 DEF TypeOK
  <2>3. QED
    BY <2>1, <2>2 DEF BackoffEnds
<1>4. UNCHANGED <<now, asn_offset, time_source, wakeup, eb_pending, pending_tx, data_channel,
                  queued, handled, announced>>
    BY DEF BackoffEnds, clockVars, dataVars
<1>5. QED
    BY <1>2, <1>3, <1>4 DEF TypeOK

LEMMA TransmissionEndsType ==
    ASSUME TypeOK, NEW n \in Node, TransmissionEnds(n)
    PROVE  TypeOK'
<1>1. PICK timer \in BOOLEAN : backoff' = [backoff EXCEPT ![n] = timer]
    BY DEF TransmissionEnds, PumpAfterTx, Pump
<1>2. /\ on_air' \in [Node -> Nat] /\ tx_busy' \in [Node -> BOOLEAN]
      /\ backoff' \in [Node -> BOOLEAN]
    BY <1>1 DEF TransmissionEnds, TypeOK
<1>3. QED
    BY <1>2 DEF TransmissionEnds, clockVars, dataVars, TypeOK

LEMMA QueuePacketType ==
    ASSUME TypeOK, NEW n \in Node, NEW p \in Node, QueuePacket(n, p)
    PROVE  TypeOK'
<1>1. pending_tx' \in [Node -> [Node -> Nat]]
  <2>1. [pending_tx[n] EXCEPT ![p] = @ + 1] \in [Node -> Nat]
    BY DEF TypeOK
  <2>2. pending_tx' = [pending_tx EXCEPT ![n] = [pending_tx[n] EXCEPT ![p] = @ + 1]]
    BY DEF QueuePacket, TypeOK
  <2>3. QED
    BY <2>1, <2>2 DEF TypeOK
<1>2. queued' \in [Node -> Nat]
    BY DEF QueuePacket, TypeOK
<1>3. QED
    BY <1>1, <1>2 DEF QueuePacket, clockVars, hostVars, TypeOK

LEMMA StepType ==
    ASSUME TypeOK, ClockInv, [Next]_vars
    PROVE  TypeOK'
<1>1. CASE UNCHANGED vars
    BY <1>1 DEF vars, TypeOK
<1>2. ASSUME NEW n \in Node, AnnounceWakeup(n) PROVE TypeOK'
    BY <1>2 DEF AnnounceWakeup, clockVars, dataVars, hostVars, TypeOK
<1>3. ASSUME NEW rx \in air, ReceiveEb(rx) PROVE TypeOK'
    BY <1>3, ReceiveEbClock DEF ReceiveEb, dataVars, TypeOK
<1>4. ASSUME Tick PROVE TypeOK'
    BY <1>4 DEF Tick, dataVars, hostVars, TypeOK
<1>5. QED
    BY <1>1, <1>2, <1>3, <1>4, SlotZeroType, TxOnCellType, ListenOnCellType, IdleSlotType,
       BackoffEndsType, TransmissionEndsType, QueuePacketType DEF Next

(***************************************************************************)
(* The data radio and the broadcast radio.                                 *)
(***************************************************************************)
\* A cell has one channel: whatever the slot number, its own slot gives it.
LEMMA CellChannel ==
    ASSUME NEW n \in Node, NEW asn \in Nat, SlotOffset(asn) = Cell[n].slot_offset
    PROVE  TunedTo(n, asn) = OwnChannel(n)
<1>1. Cell[n].ch_offset \in Int /\ SlotframeLen \in Nat \ {0}
    BY ScheduleAssumption, Durations DEF Channel
<1>2. (asn + Cell[n].ch_offset) % SlotframeLen = ((asn % SlotframeLen) + Cell[n].ch_offset) % SlotframeLen
  <2>1. asn \in Int
    OBVIOUS
  <2>2. QED
    BY <1>1, <2>1, RemainderOfSum
<1>3. QED
    BY <1>2 DEF TunedTo, PhysicalChannel, OwnChannel, SlotOffset

\* A wakeup in slot s that tunes to the node's own cell's channel, or happens in
\* another slot.
LEMMA WakesTuned ==
    ASSUME TypeOK, ClockInv, Tuned, NEW n \in Node, NEW s \in 0 .. SlotframeLen - 1,
           Wakes(n, s), UNCHANGED air,
           \/ data_channel' = [data_channel EXCEPT ![n] = TunedTo(n, CurrentAsn(asn_offset[n]))]
           \/ UNCHANGED data_channel /\ s # Cell[n].slot_offset
    PROVE  Tuned'
<1>1. /\ SlotOffset(handled'[n]) = s
      /\ handled'[n] = CurrentAsn(asn_offset[n])
      /\ \A m \in Node \ {n} : handled'[m] = handled[m]
    BY WakesClock
<1>2. \A m \in Node \ {n} : data_channel'[m] = data_channel[m]
    BY DEF TypeOK
<1>3. ASSUME s = Cell[n].slot_offset PROVE data_channel'[n] = OwnChannel(n)
  <2>1. data_channel'[n] = TunedTo(n, CurrentAsn(asn_offset[n]))
    BY <1>3 DEF TypeOK
  <2>2. CurrentAsn(asn_offset[n]) \in Nat /\ SlotOffset(CurrentAsn(asn_offset[n])) = Cell[n].slot_offset
    BY <1>1, <1>3, WakesAsn
  <2>3. QED
    BY <2>1, <2>2, CellChannel
<1>4. ASSUME NEW m \in Node, SlotOffset(handled'[m]) = Cell[m].slot_offset
      PROVE  data_channel'[m] = OwnChannel(m)
  <2>1. CASE m = n
    BY <1>1, <1>3, <1>4, <2>1
  <2>2. CASE m # n
    BY <1>1, <1>2, <1>4, <2>2 DEF Tuned
  <2>3. QED
    BY <2>1, <2>2
<1>5. QED
    BY <1>4 DEF Tuned, SlotOffset, OwnChannel

LEMMA StepTuned ==
    ASSUME TypeOK, ClockInv, Tuned, [Next]_vars
    PROVE  Tuned'
<1>1. CASE UNCHANGED <<handled, data_channel>>
    BY <1>1 DEF Tuned, SlotOffset, OwnChannel
<1>2. ASSUME NEW n \in Node, SlotZero(n) PROVE Tuned'
  <2>1. /\ Wakes(n, 0) /\ UNCHANGED <<air, data_channel>>
        /\ 0 \in 0 .. SlotframeLen - 1 /\ 0 # Cell[n].slot_offset
    BY <1>2, Durations, ScheduleAssumption DEF SlotZero
  <2>2. QED
    BY <2>1, WakesTuned
<1>3. ASSUME NEW n \in Node, NEW p \in Node, NEW s \in 0 .. SlotframeLen - 1, TxOnCell(n, s, p)
      PROVE  Tuned'
  <2>1. /\ Wakes(n, s) /\ UNCHANGED air
        /\ data_channel' = [data_channel EXCEPT ![n] = TunedTo(n, CurrentAsn(asn_offset[n]))]
    BY <1>3 DEF TxOnCell, TunedAfterTx, hostVars
  <2>2. QED
    BY <2>1, WakesTuned
<1>4. ASSUME NEW n \in Node, ListenOnCell(n) PROVE Tuned'
  <2>1. /\ Wakes(n, Cell[n].slot_offset) /\ UNCHANGED air
        /\ Cell[n].slot_offset \in 0 .. SlotframeLen - 1
        /\ data_channel' = [data_channel EXCEPT ![n] = TunedTo(n, CurrentAsn(asn_offset[n]))]
    BY <1>4, ScheduleAssumption DEF ListenOnCell, hostVars
  <2>2. QED
    BY <2>1, WakesTuned
<1>5. ASSUME NEW n \in Node, NEW s \in 0 .. SlotframeLen - 1, IdleSlot(n, s) PROVE Tuned'
  <2>1. Wakes(n, s) /\ UNCHANGED <<air, data_channel>> /\ s # Cell[n].slot_offset
    BY <1>5 DEF IdleSlot, hostVars
  <2>2. QED
    BY <2>1, WakesTuned
<1>6. ASSUME NEW n \in Node, AnnounceWakeup(n) \/ BackoffEnds(n) \/ TransmissionEnds(n)
      PROVE  Tuned'
    BY <1>1, <1>6 DEF AnnounceWakeup, BackoffEnds, TransmissionEnds, dataVars
<1>7. ASSUME NEW n \in Node, NEW p \in Node, QueuePacket(n, p) PROVE Tuned'
    BY <1>1, <1>7 DEF QueuePacket
<1>8. ASSUME NEW rx \in air, ReceiveEb(rx) PROVE Tuned'
    BY <1>1, <1>8 DEF ReceiveEb, dataVars
<1>9. ASSUME Tick PROVE Tuned'
    BY <1>1, <1>9 DEF Tick, dataVars
<1>10. CASE UNCHANGED vars
    BY <1>1, <1>10 DEF vars
<1>11. QED
    BY <1>2, <1>3, <1>4, <1>5, <1>6, <1>7, <1>8, <1>9, <1>10 DEF Next

\* One node's share of BusyOnAir and BroadcastsMove.
Served(n) == /\ tx_busy[n] <=> on_air[n] > 0
             /\ bcast_queue[n] > 0 => backoff[n] \/ (tx_busy[n] /\ on_air[n] > 0)

LEMMA ServedParts == (BusyOnAir /\ BroadcastsMove) <=> \A n \in Node : Served(n)
    BY DEF BusyOnAir, BroadcastsMove, Served

LEMMA StepServed ==
    ASSUME TypeOK, \A n \in Node : Served(n), [Next]_vars
    PROVE  \A n \in Node : Served(n)'
<1>1. CASE UNCHANGED <<bcast_queue, backoff, tx_busy, on_air>>
    BY <1>1 DEF Served
<1>2. ASSUME NEW n \in Node, SlotZero(n), NEW m \in Node PROVE Served(m)'
  <2>1. PICK queue \in Nat : /\ bcast_queue' = [bcast_queue EXCEPT ![n] = queue]
                             /\ backoff' = [backoff EXCEPT ![n] = Pump(queue, tx_busy[n], backoff[n])]
    BY <1>2, OwedBeacon
  <2>2. UNCHANGED <<tx_busy, on_air>>
    BY <1>2 DEF SlotZero
  <2>3. CASE m = n
    <3>1. bcast_queue'[n] = queue /\ backoff'[n] = Pump(queue, tx_busy[n], backoff[n])
      BY <2>1 DEF TypeOK
    <3>2. backoff'[n] <=> backoff[n] \/ (~tx_busy[n] /\ queue > 0)
      BY <3>1 DEF Pump
    <3>3. tx_busy[n] <=> on_air[n] > 0
      BY DEF Served
    <3>4. QED
      BY <2>2, <2>3, <3>1, <3>2, <3>3 DEF Served
  <2>4. CASE m # n
    <3>1. bcast_queue'[m] = bcast_queue[m] /\ backoff'[m] = backoff[m]
      BY <2>1, <2>4 DEF TypeOK
    <3>2. QED
      BY <2>2, <3>1 DEF Served
  <2>5. QED
    BY <2>3, <2>4
<1>3. ASSUME NEW n \in Node, BackoffEnds(n), NEW m \in Node PROVE Served(m)'
  <2>1. CASE bcast_queue[n] > 0
    <3>1. /\ bcast_queue' = [bcast_queue EXCEPT ![n] = @ - 1]
          /\ backoff' = [backoff EXCEPT ![n] = bcast_queue[n] > 1]
          /\ tx_busy' = [tx_busy EXCEPT ![n] = TRUE]
          /\ on_air' = [on_air EXCEPT ![n] = now + AirTime]
      BY <1>3, <2>1 DEF BackoffEnds
    <3>2. CASE m = n
      <4>1. tx_busy'[n] = TRUE /\ on_air'[n] = now + AirTime
        BY <3>1 DEF TypeOK
      <4>2. now + AirTime > 0
        BY Durations DEF TypeOK
      <4>3. QED
        BY <3>2, <4>1, <4>2 DEF Served
    <3>3. CASE m # n
      <4>1. /\ bcast_queue'[m] = bcast_queue[m] /\ backoff'[m] = backoff[m]
            /\ tx_busy'[m] = tx_busy[m] /\ on_air'[m] = on_air[m]
        BY <3>1, <3>3 DEF TypeOK
      <4>2. QED
        BY <4>1 DEF Served
    <3>4. QED
      BY <3>2, <3>3
  <2>2. CASE ~(bcast_queue[n] > 0)
    <3>1. /\ backoff' = [backoff EXCEPT ![n] = FALSE]
          /\ UNCHANGED <<bcast_queue, tx_busy, on_air>>
      BY <1>3, <2>2 DEF BackoffEnds
    <3>2. m # n => backoff'[m] = backoff[m]
      BY <3>1 DEF TypeOK
    <3>3. Served(m)
      OBVIOUS
    <3>4. CASE m = n
      BY <2>2, <3>1, <3>3, <3>4 DEF Served
    <3>5. CASE m # n
      BY <3>1, <3>2, <3>3, <3>5 DEF Served
    <3>6. QED
      BY <3>4, <3>5
  <2>3. QED
    BY <2>1, <2>2
<1>4. ASSUME NEW n \in Node, TransmissionEnds(n), NEW m \in Node PROVE Served(m)'
  <2>1. /\ on_air' = [on_air EXCEPT ![n] = 0]
        /\ tx_busy' = [tx_busy EXCEPT ![n] = FALSE]
        /\ backoff' = [backoff EXCEPT ![n] = Pump(bcast_queue[n], FALSE, backoff[n])]
        /\ UNCHANGED bcast_queue
    BY <1>4 DEF TransmissionEnds, PumpAfterTx
  <2>2. CASE m = n
    <3>1. /\ on_air'[n] = 0 /\ tx_busy'[n] = FALSE
          /\ backoff'[n] = Pump(bcast_queue[n], FALSE, backoff[n])
      BY <2>1 DEF TypeOK
    <3>2. bcast_queue[n] > 0 => backoff'[n]
      BY <3>1 DEF Pump
    <3>3. ~ tx_busy'[n] /\ ~ (on_air'[n] > 0)
      BY <3>1
    <3>4. bcast_queue'[n] > 0 => backoff'[n]
      BY <2>1, <3>2
    <3>5. QED
      BY <2>2, <3>3, <3>4 DEF Served
  <2>3. CASE m # n
    <3>1. /\ on_air'[m] = on_air[m] /\ tx_busy'[m] = tx_busy[m] /\ backoff'[m] = backoff[m]
      BY <2>1, <2>3 DEF TypeOK
    <3>2. QED
      BY <2>1, <3>1 DEF Served
  <2>4. QED
    BY <2>2, <2>3
<1>5. ASSUME NEW n \in Node, NEW p \in Node, NEW s \in 0 .. SlotframeLen - 1,
             TxOnCell(n, s, p) \/ ListenOnCell(n) \/ IdleSlot(n, s) \/ AnnounceWakeup(n) \/ QueuePacket(n, p)
      PROVE  UNCHANGED <<bcast_queue, backoff, tx_busy, on_air>>
    BY <1>5 DEF TxOnCell, ListenOnCell, IdleSlot, AnnounceWakeup, QueuePacket, hostVars
<1>6. ASSUME NEW rx \in air, ReceiveEb(rx) PROVE UNCHANGED <<bcast_queue, backoff, tx_busy, on_air>>
    BY <1>6 DEF ReceiveEb
<1>7. ASSUME Tick \/ UNCHANGED vars PROVE UNCHANGED <<bcast_queue, backoff, tx_busy, on_air>>
    BY <1>7 DEF Tick, hostVars, vars
<1>8. 0 \in 0 .. SlotframeLen - 1
    BY Durations
<1>9. QED
    BY <1>1, <1>2, <1>3, <1>4, <1>5, <1>6, <1>7, <1>8 DEF Next

(***************************************************************************)
(* The theorems.                                                           *)
(***************************************************************************)
LEMMA InitTschInv ==
    ASSUME Init
    PROVE  TschInv
<1>1. TypeOK
    BY Durations DEF Init, TypeOK
<1>2. BeaconStamps /\ ClockSkew
    BY Durations DEF Init, BeaconStamps, ClockSkew
<1>3. WakeupOnBoundary
  <2>1. SlotDuration % SlotDuration = 0
    <3>1. 1 * SlotDuration = SlotDuration
      BY Durations
    <3>2. QED
      BY <3>1, Durations, MultipleRemainder
  <2>2. \A n \in Node : wakeup[n] + asn_offset[n] = SlotDuration /\ wakeup[n] = SlotDuration /\ now = 0
    BY Durations DEF Init
  <2>3. QED
    BY <2>1, <2>2, Durations DEF WakeupOnBoundary
<1>4. FreeRunning
    BY Durations DEF Init, FreeRunning
<1>5. Tuned
  <2>1. SlotOffset(0) = 0
    <3>1. 0 * SlotframeLen = 0 /\ SlotframeLen \in Nat \ {0}
      BY Durations
    <3>2. QED
      BY <3>1, MultipleRemainder DEF SlotOffset
  <2>2. \A n \in Node : Cell[n].slot_offset # 0
    BY ScheduleAssumption
  <2>3. QED
    BY <2>1, <2>2 DEF Init, Tuned
<1>6. BusyOnAir /\ BroadcastsMove
    BY DEF Init, BusyOnAir, BroadcastsMove
<1>7. QED
    BY <1>1, <1>2, <1>3, <1>4, <1>5, <1>6 DEF TschInv, ClockInv

LEMMA TschInvariance == Spec => []TschInv
<1>1. Init => TschInv
    BY InitTschInv
<1>2. TschInv /\ [Next]_vars => TschInv'
  <2> SUFFICES ASSUME TschInv, [Next]_vars PROVE TschInv'
    OBVIOUS
  <2>1. TypeOK /\ ClockInv /\ Tuned /\ \A n \in Node : Served(n)
    BY ServedParts DEF TschInv
  <2>2. TypeOK' /\ ClockInv' /\ Tuned'
    BY <2>1, StepType, StepClock, StepTuned
  <2>3. BusyOnAir' /\ BroadcastsMove'
    <3>1. \A n \in Node : Served(n)'
      BY <2>1, StepServed
    <3>2. QED
      BY <3>1 DEF BusyOnAir, BroadcastsMove, Served
  <2>4. QED
    BY <2>2, <2>3 DEF TschInv
<1>3. QED
    BY <1>1, <1>2, PTL DEF Spec

\* Every reachable state of clocks, timers and radios is type correct.
THEOREM TschTypeCorrect == Spec => []TypeOK
<1>1. TschInv => TypeOK
    BY DEF TschInv
<1>2. QED
    BY <1>1, TschInvariance, PTL

\* The assertion in currentAsn holds and clocks are never ahead of the host's, nor
\* behind by a slot and a beacon's time on the air, whichever beacons arrive
\* (syncTimeFromEb, SloraApp.cc:174).
THEOREM ClocksStayClose == Spec => []ClockSkew
<1>1. TschInv => ClockSkew
    BY DEF TschInv, ClockInv
<1>2. QED
    BY <1>1, TschInvariance, PTL

\* The only slot timer always stands at the next boundary of the node's own clock,
\* also after a beacon moved it (scheduleNextSlot, scheduleWakeup).
THEOREM TimerOnBoundary == Spec => []WakeupOnBoundary
<1>1. TschInv => WakeupOnBoundary
    BY DEF TschInv, ClockInv
<1>2. QED
    BY <1>1, TschInvariance, PTL

\* In its own slot, once it handled it, a node listens on the channel of its cell
\* (handleSlotWakeup, tuneToOwnRx).
THEOREM ListensOnCell == Spec => []ListensInOwnSlot
<1>1. TschInv => ListensInOwnSlot
    BY DEF TschInv, Tuned, ListensInOwnSlot
<1>2. QED
    BY <1>1, TschInvariance, PTL

\* A queued beacon is never left alone (pumpBcastQueue, the backoff timer and
\* receiveSignal).
THEOREM BroadcastsNeverStuck == Spec => []BroadcastsMove
<1>1. TschInv => BroadcastsMove
    BY DEF TschInv
<1>2. QED
    BY <1>1, TschInvariance, PTL

(***************************************************************************)
(* Resynchronisation.                                                      *)
(***************************************************************************)
\* Two times less than a slot and a beacon apart are at most MaxJump slots apart.
LEMMA SlotsApart ==
    ASSUME NEW a \in Int, NEW b \in Int, a - b < SlotDuration + AirTime
    PROVE  (a \div SlotDuration) - (b \div SlotDuration) <= MaxJump
<1>1. PICK p \in Int : p = a \div SlotDuration /\ p * SlotDuration <= a
    BY Durations, Division
<1>2. PICK q \in Int : q = b \div SlotDuration /\ b < q * SlotDuration + SlotDuration
    BY Durations, Division
<1>3. PICK w \in Int : w = SlotDuration + AirTime - 1 + SlotDuration - 1
    BY Durations
<1>4. PICK j \in Int : j = MaxJump /\ w < j * SlotDuration + SlotDuration
    BY <1>3, Durations, Division DEF MaxJump
<1>5. (p - q) * SlotDuration = p * SlotDuration - q * SlotDuration
    BY Durations
<1>6. (p - q) * SlotDuration <= w
  <2>1. PICK x \in Int, y \in Int : x = p * SlotDuration /\ y = q * SlotDuration
    BY Durations
  <2>2. x - y <= w
    BY <1>1, <1>2, <1>3, <2>1, Durations
  <2>3. QED
    BY <1>5, <2>1, <2>2
<1>7. ~ (j + 1 <= p - q)
  <2> SUFFICES ASSUME j + 1 <= p - q PROVE FALSE
    OBVIOUS
  <2>1. (j + 1) * SlotDuration <= (p - q) * SlotDuration
    BY Durations
  <2>2. QED
    BY <1>3, <1>4, <1>6, <2>1, Durations
<1>8. QED
    BY <1>1, <1>2, <1>4, <1>7

\* A node whose clock moved handles slots again or passes over them, but none
\* further back than its clock can be wrong, and without a beacon it handles every
\* slot once (handleSlotWakeup, syncTimeFromEb).
THEOREM SlotsResync == Spec => []ResyncBounded
<1>1. TschInv => ResyncBounded
  <2> SUFFICES ASSUME TschInv, NEW n \in Node
               PROVE  /\ handled[n] - MaxJump <= CurrentAsn(asn_offset[n])
                      /\ time_source[n] = NoSource =>
                            CurrentAsn(asn_offset[n]) =
                                IF now = wakeup[n] THEN handled[n] + 1 ELSE handled[n]
    BY DEF ResyncBounded
  <2>1. /\ now \in Nat /\ asn_offset[n] \in Int /\ handled[n] \in Nat /\ wakeup[n] \in Nat
        /\ asn_offset[n] > - (SlotDuration + AirTime)
        /\ handled[n] * SlotDuration <= now
        /\ now <= wakeup[n] /\ wakeup[n] <= now + SlotDuration
        /\ time_source[n] = NoSource =>
              asn_offset[n] = 0 /\ wakeup[n] = (handled[n] + 1) * SlotDuration
    BY DEF TschInv, TypeOK, ClockInv, ClockSkew, FreeRunning, WakeupOnBoundary
  <2>2. handled[n] - MaxJump <= CurrentAsn(asn_offset[n])
    <3>1. PICK a \in Int : a = now + asn_offset[n] /\ now - a < SlotDuration + AirTime
      BY <2>1, Durations
    <3>9. now \in Int
      BY <2>1
    <3>2. PICK p \in Int : p = now \div SlotDuration
      BY <3>9, Durations, Division
    <3>3. PICK q \in Int : q = a \div SlotDuration
      BY <3>1, Durations, Division
    <3>4. p - q <= MaxJump
      BY <2>1, <3>1, <3>2, <3>3, SlotsApart
    <3>5. MaxJump \in Int
      BY Durations, Division DEF MaxJump
    <3>6. handled[n] <= p
      <4>1. PICK h \in Int : h = handled[n] * SlotDuration /\ h <= now
        BY <2>1, Durations
      <4>2. h \div SlotDuration = handled[n]
        BY <2>1, <4>1, Durations, DivisionUnique
      <4>3. QED
        BY <3>2, <3>9, <4>1, <4>2, Durations, DivisionMonotone
    <3>7. CurrentAsn(asn_offset[n]) = q
      BY <3>1, <3>3 DEF CurrentAsn
    <3>8. QED
      BY <2>1, <3>4, <3>5, <3>6, <3>7
  <2>3. ASSUME time_source[n] = NoSource
        PROVE  CurrentAsn(asn_offset[n]) = IF now = wakeup[n] THEN handled[n] + 1 ELSE handled[n]
    <3>1. PICK h \in Int : h = handled[n] * SlotDuration
      BY <2>1, Durations
    <3>2. (handled[n] + 1) * SlotDuration = h + SlotDuration
      BY <2>1, <3>1, Durations
    <3>3. wakeup[n] = h + SlotDuration /\ CurrentAsn(asn_offset[n]) = now \div SlotDuration
      BY <2>1, <2>3, <3>2 DEF CurrentAsn
    <3>4. CASE now = wakeup[n]
      <4>1. (handled[n] + 1) * SlotDuration <= now /\ now < (handled[n] + 1) * SlotDuration + SlotDuration
        BY <2>1, <3>2, <3>3, <3>4, Durations
      <4>2. handled[n] + 1 \in Int
        BY <2>1
      <4>3. now \div SlotDuration = handled[n] + 1
        BY <2>1, <4>1, <4>2, Durations, DivisionUnique
      <4>4. QED
        BY <3>3, <3>4, <4>3
    <3>5. CASE now # wakeup[n]
      <4>0. h <= now /\ now < h + SlotDuration
        <5>1. h <= now
          BY <2>1, <3>1
        <5>2. /\ now \in Int /\ SlotDuration \in Int /\ wakeup[n] \in Int
              /\ now <= wakeup[n] /\ wakeup[n] = h + SlotDuration
          BY <2>1, <3>3, Durations
        <5>3. QED
          BY <3>5, <5>1, <5>2
      <4>1. handled[n] * SlotDuration <= now /\ now < handled[n] * SlotDuration + SlotDuration
        BY <3>1, <4>0
      <4>2. now \div SlotDuration = handled[n]
        <5>1. handled[n] \in Int /\ now \in Int
          BY <2>1
        <5>2. QED
          BY <4>1, <5>1, Durations, DivisionUnique
      <4>3. QED
        BY <3>3, <3>5, <4>2
    <3>6. QED
      BY <3>4, <3>5
  <2>4. QED
    BY <2>2, <2>3
<1>2. QED
    BY <1>1, TschInvariance, PTL
=============================================================================
