--------------------------- MODULE GovernorProofs ---------------------------
(***************************************************************************)
(* The slot pool of the governor neither leaks nor invents a slot, for     *)
(* any number of jobs, any ceiling and any budget; the ledger is exact,    *)
(* what is committed fits the cap, a parked dispatch has somebody to wake  *)
(* it, and a trip is final, for any cap, share and costs.                  *)
(*                                                                         *)
(* SlotsExact alone is not inductive: the head waiter that release hands   *)
(* its slot to must be a job that is really parked and counted nowhere     *)
(* else, and the steps that refuse or wake the gate's waiters must move    *)
(* only jobs that already hold a slot.  Inv adds the two queues.           *)
(***************************************************************************)
EXTENDS Governor, SumTheorems, FiniteSetTheorems, TLAPS

Holders(ph) == {j \in Jobs : ph[j] \in Holding}

(* A queue whose members are at place p of their dispatch, each once.      *)
Queued(w, ph, p) ==
  /\ w \in Seq(Jobs)
  /\ \A i, k \in 1 .. Len(w) : w[i] = w[k] => i = k
  /\ \A i \in 1 .. Len(w) : ph[w[i]] = p

Inv ==
  /\ phase \in [Jobs -> Phases]
  /\ active \in Nat
  /\ Queued(slotWaiters, phase, "slotWait")
  /\ Queued(reserveWaiters, phase, "parked")
  /\ SlotsExact

(* ph leaves the slot pool alone: the holders and the waiters of phase are *)
(* those of ph.                                                            *)
SameSlots(ph) ==
  /\ ph \in [Jobs -> Phases]
  /\ \A j \in Jobs : ph[j] \in Holding <=> phase[j] \in Holding
  /\ \A j \in Jobs : phase[j] = "slotWait" => ph[j] = "slotWait"

(* ph leaves the reservation gate alone as well. *)
SameGate(ph) ==
  /\ SameSlots(ph)
  /\ \A j \in Jobs : phase[j] = "parked" => ph[j] = "parked"
-----------------------------------------------------------------------------
(* A step that touches neither the pool nor the set of its holders.        *)
LEMMA PoolAlone ==
  ASSUME Inv, SameSlots(phase'), UNCHANGED <<active, slotWaiters>>
  PROVE  SlotsExact' /\ Queued(slotWaiters, phase, "slotWait")'
<1>1. {j \in Jobs : phase'[j] \in Holding} = {j \in Jobs : phase[j] \in Holding}
  BY DEF SameSlots
<1>2. SlotsExact'
  BY <1>1 DEF Inv, SlotsExact
<1>3. ASSUME NEW i \in 1 .. Len(slotWaiters)
      PROVE  slotWaiters[i] \in Jobs /\ phase'[slotWaiters[i]] = "slotWait"
  BY <1>3 DEF Inv, Queued, SameSlots
<1> QED
  BY <1>2, <1>3 DEF Inv, Queued

(* A step that does not trip and leaves both queues alone. *)
LEMMA Quiet ==
  ASSUME Inv, NEW ph, SameGate(ph), phase' = ph,
         UNCHANGED <<active, slotWaiters, reserveWaiters>>
  PROVE  Inv'
<1>1. SlotsExact' /\ Queued(slotWaiters, phase, "slotWait")'
  BY PoolAlone DEF SameGate
<1>2. ASSUME NEW i \in 1 .. Len(reserveWaiters)
      PROVE  reserveWaiters[i] \in Jobs /\ phase'[reserveWaiters[i]] = "parked"
  BY <1>2 DEF Inv, Queued, SameGate
<1> QED
  BY <1>1, <1>2 DEF Inv, Queued, SameGate, SameSlots

(* trip: the gate's waiters are refused, and keep the slot they hold until *)
(* they release it.                                                        *)
LEMMA Trips ==
  ASSUME Inv, NEW kind, NEW ph, SameGate(ph), TripWith(kind, ph),
         UNCHANGED <<active, slotWaiters>>
  PROVE  Inv'
<1>1. ASSUME NEW j \in Jobs, j \in WaitingIn(reserveWaiters) PROVE phase[j] = "parked"
  BY <1>1 DEF WaitingIn, Inv, Queued
<1>2. phase' = [j \in Jobs |-> IF j \in WaitingIn(reserveWaiters) THEN "refused" ELSE ph[j]]
  BY DEF TripWith
<1>3. phase' \in [Jobs -> Phases]
  BY <1>2 DEF SameGate, SameSlots, Phases
<1>4. ASSUME NEW j \in Jobs PROVE phase'[j] \in Holding <=> phase[j] \in Holding
  BY <1>1, <1>2, <1>4 DEF SameGate, SameSlots, Holding
<1>5. ASSUME NEW j \in Jobs, phase[j] = "slotWait" PROVE phase'[j] = "slotWait"
  BY <1>1, <1>2, <1>5 DEF SameGate, SameSlots
<1>6. SlotsExact' /\ Queued(slotWaiters, phase, "slotWait")'
  BY <1>3, <1>4, <1>5, PoolAlone DEF SameSlots
<1>7. Queued(reserveWaiters, phase, "parked")'
  BY DEF TripWith, Queued
<1> QED
  BY <1>3, <1>6, <1>7 DEF Inv

(* drainWaiters: who is woken holds a slot already, and who stays parked   *)
(* is not woken, because nobody stands in the queue twice.                 *)
LEMMA Drains ==
  ASSUME Inv, NEW o, NEW spent, NEW ph, SameGate(ph), Drain(o, spent, ph),
         UNCHANGED <<active, slotWaiters>>
  PROVE  Inv'
<1>1. CASE Tripped \/ Exhausted(o, spent)
  BY <1>1, Trips DEF Drain
<1>2. CASE ~(Tripped \/ Exhausted(o, spent))
  <2>1. PICK n \in 0 .. Len(reserveWaiters) :
          /\ reserveWaiters' = SubSeq(reserveWaiters, n + 1, Len(reserveWaiters))
          /\ phase' = [j \in Jobs |->
                        IF j \in WaitingIn(SubSeq(reserveWaiters, 1, n)) THEN "reserved"
                                                                         ELSE ph[j]]
    BY <1>2 DEF Drain, Wakes
  <2> DEFINE woken == WaitingIn(SubSeq(reserveWaiters, 1, n))
  <2>2. reserveWaiters \in Seq(Jobs) /\ Len(reserveWaiters) \in Nat
    BY DEF Inv, Queued
  <2>3. woken = {reserveWaiters[i] : i \in 1 .. n}
    <3>1. /\ Len(SubSeq(reserveWaiters, 1, n)) = n
          /\ \A i \in 1 .. n : SubSeq(reserveWaiters, 1, n)[i] = reserveWaiters[i]
      BY <2>2
    <3> QED
      BY <3>1, Zenon DEF WaitingIn
  <2>4. ASSUME NEW j \in woken PROVE j \in Jobs /\ phase[j] = "parked"
    BY <2>2, <2>3, <2>4 DEF Inv, Queued
  <2>5. phase' \in [Jobs -> Phases]
    BY <2>1 DEF SameGate, SameSlots, Phases
  <2>6. ASSUME NEW j \in Jobs PROVE phase'[j] \in Holding <=> phase[j] \in Holding
    BY <2>1, <2>4, <2>6 DEF SameGate, SameSlots, Holding
  <2>7. ASSUME NEW j \in Jobs, phase[j] = "slotWait" PROVE phase'[j] = "slotWait"
    BY <2>1, <2>4, <2>7 DEF SameGate, SameSlots
  <2>8. SlotsExact' /\ Queued(slotWaiters, phase, "slotWait")'
    BY <2>5, <2>6, <2>7, PoolAlone DEF SameSlots
  <2>9. /\ reserveWaiters' \in Seq(Jobs)
        /\ Len(reserveWaiters') = Len(reserveWaiters) - n
        /\ \A i \in 1 .. Len(reserveWaiters) - n : reserveWaiters'[i] = reserveWaiters[n + i]
    BY <2>1, <2>2
  <2>10. ASSUME NEW i \in 1 .. Len(reserveWaiters')
         PROVE  phase'[reserveWaiters'[i]] = "parked"
    <3>1. n + i \in 1 .. Len(reserveWaiters) /\ reserveWaiters'[i] = reserveWaiters[n + i]
      BY <2>2, <2>9, <2>10
    <3>2. reserveWaiters[n + i] \notin woken
      BY <2>2, <2>3, <2>10, <3>1 DEF Inv, Queued
    <3>3. reserveWaiters[n + i] \in Jobs /\ phase[reserveWaiters[n + i]] = "parked"
      BY <3>1 DEF Inv, Queued
    <3> QED
      BY <2>1, <3>1, <3>2, <3>3 DEF SameGate
  <2>11. ASSUME NEW i \in 1 .. Len(reserveWaiters'), NEW k \in 1 .. Len(reserveWaiters'),
                reserveWaiters'[i] = reserveWaiters'[k]
         PROVE  i = k
    <3>1. /\ n + i \in 1 .. Len(reserveWaiters)
          /\ n + k \in 1 .. Len(reserveWaiters)
      BY <2>2, <2>9
    <3>2. n + i = n + k
      BY <2>9, <2>11, <3>1 DEF Inv, Queued
    <3> QED
      BY <3>2
  <2>12. Queued(reserveWaiters, phase, "parked")'
    BY <2>9, <2>10, <2>11 DEF Queued
  <2> QED
    BY <2>5, <2>8, <2>12 DEF Inv
<1> QED
  BY <1>1, <1>2
-----------------------------------------------------------------------------
(* One dispatch moves and its place in the slot pool and in the gate stays. *)
LEMMA OneMove ==
  ASSUME Inv, NEW j \in Jobs, NEW p \in Phases,
         phase[j] \notin {"slotWait", "parked"},
         p \in Holding <=> phase[j] \in Holding
  PROVE  SameGate([phase EXCEPT ![j] = p])
BY DEF Inv, SameGate, SameSlots

LEMMA FreshInv ==
  ASSUME phase = [j \in Jobs |-> "idle"], active = 0, slotWaiters = <<>>, reserveWaiters = <<>>
  PROVE  Inv
<1>1. {j \in Jobs : phase[j] \in Holding} = {}
  BY DEF Holding
<1>2. Cardinality({j \in Jobs : phase[j] \in Holding}) = 0
  BY <1>1, FS_EmptySet, Zenon
<1>3. SlotsExact
  BY <1>2, GovernorAssumption DEF SlotsExact
<1> QED
  BY <1>3 DEF Inv, Queued, Phases

(* acquire: a free slot is taken, or the dispatch waits behind a full pool. *)
LEMMA AcquireStep ==
  ASSUME Inv, NEW j \in Jobs, AcquireSlot(j)
  PROVE  Inv'
<1>1. j \notin Holders(phase)
  BY DEF AcquireSlot, Holders, Holding
<1>2. IsFiniteSet(Holders(phase))
  BY FS_Subset, GovernorAssumption DEF Holders
<1>3. active = Cardinality(Holders(phase)) /\ active <= InFlightCeiling
  BY DEF Inv, SlotsExact, Holders
<1>4. ASSUME NEW i \in 1 .. Len(slotWaiters)
      PROVE  slotWaiters[i] \in Jobs /\ slotWaiters[i] # j /\ phase[slotWaiters[i]] = "slotWait"
  BY <1>4 DEF Inv, Queued, AcquireSlot
<1>5. ASSUME NEW i \in 1 .. Len(reserveWaiters)
      PROVE  /\ reserveWaiters[i] \in Jobs /\ reserveWaiters[i] # j
             /\ phase[reserveWaiters[i]] = "parked"
  BY <1>5 DEF Inv, Queued, AcquireSlot
<1>6. CASE active < InFlightCeiling
  <2>1. phase' = [phase EXCEPT ![j] = "slotted"] /\ active' = active + 1
        /\ UNCHANGED <<slotWaiters, reserveWaiters>>
    BY <1>6 DEF AcquireSlot
  <2>2. Holders(phase') = Holders(phase) \union {j}
    BY <2>1 DEF Inv, Holders, Holding
  <2>3. Cardinality(Holders(phase')) = active + 1
    BY <1>1, <1>2, <1>3, <2>2, FS_AddElement
  <2>4. SlotsExact'
    BY <1>3, <1>6, <2>1, <2>3, GovernorAssumption DEF SlotsExact, Inv, Holders
  <2>5. phase' \in [Jobs -> Phases]
    BY <2>1 DEF Inv, Phases
  <2>6. Queued(slotWaiters, phase, "slotWait")'
    BY <1>4, <2>1 DEF Inv, Queued
  <2>7. Queued(reserveWaiters, phase, "parked")'
    BY <1>5, <2>1 DEF Inv, Queued
  <2> QED
    BY <2>1, <2>4, <2>5, <2>6, <2>7 DEF Inv
<1>7. CASE ~(active < InFlightCeiling)
  <2>1. /\ phase' = [phase EXCEPT ![j] = "slotWait"]
        /\ slotWaiters' = Append(slotWaiters, j)
        /\ UNCHANGED <<active, reserveWaiters>>
    BY <1>7 DEF AcquireSlot
  <2>2. Holders(phase') = Holders(phase)
    BY <1>1, <2>1 DEF Inv, Holders, Holding
  <2>3. SlotsExact'
    BY <1>3, <1>7, <2>1, <2>2, GovernorAssumption DEF SlotsExact, Inv, Holders
  <2>4. phase' \in [Jobs -> Phases]
    BY <2>1 DEF Inv, Phases
  <2>5. Queued(slotWaiters, phase, "slotWait")'
    <3>1. /\ slotWaiters' \in Seq(Jobs)
          /\ Len(slotWaiters') = Len(slotWaiters) + 1
          /\ Len(slotWaiters) \in Nat
          /\ \A i \in 1 .. Len(slotWaiters) : slotWaiters'[i] = slotWaiters[i]
          /\ slotWaiters'[Len(slotWaiters) + 1] = j
      BY <2>1 DEF Inv, Queued
    <3>2. ASSUME NEW i \in 1 .. Len(slotWaiters') PROVE phase'[slotWaiters'[i]] = "slotWait"
      BY <1>4, <2>1, <3>1, <3>2 DEF Inv
    <3>3. ASSUME NEW i \in 1 .. Len(slotWaiters'), NEW k \in 1 .. Len(slotWaiters'),
                 slotWaiters'[i] = slotWaiters'[k]
          PROVE  i = k
      BY <1>4, <3>1, <3>3, SMTT(60) DEF Inv, Queued
    <3> QED
      BY <3>1, <3>2, <3>3 DEF Queued
  <2>6. Queued(reserveWaiters, phase, "parked")'
    BY <1>5, <2>1 DEF Inv, Queued
  <2> QED
    BY <2>1, <2>3, <2>4, <2>5, <2>6 DEF Inv
<1> QED
  BY <1>6, <1>7

(* release: the head waiter inherits the slot, so the count stands; with   *)
(* nobody waiting the slot goes back.                                      *)
LEMMA ReleaseStep ==
  ASSUME Inv, NEW j \in Jobs, ReleaseSlot(j)
  PROVE  Inv'
<1>1. phase[j] \in {"settled", "refused"} /\ j \in Holders(phase)
  BY DEF ReleaseSlot, Holders, Holding
<1>2. IsFiniteSet(Holders(phase))
  BY FS_Subset, GovernorAssumption DEF Holders
<1>3. active = Cardinality(Holders(phase)) /\ active <= InFlightCeiling
  BY DEF Inv, SlotsExact, Holders
<1>4. IsFiniteSet(Holders(phase) \ {j}) /\ Cardinality(Holders(phase) \ {j}) = active - 1
  BY <1>1, <1>2, <1>3, FS_RemoveElement
<1>5. active - 1 \in Nat
  BY <1>4, FS_CardinalityType
<1>6. ASSUME NEW i \in 1 .. Len(reserveWaiters)
      PROVE  reserveWaiters[i] \in Jobs /\ phase[reserveWaiters[i]] = "parked"
  BY <1>6 DEF Inv, Queued
<1>7. CASE slotWaiters = <<>>
  <2>1. phase' = [phase EXCEPT ![j] = "finished"] /\ active' = active - 1
        /\ UNCHANGED <<slotWaiters, reserveWaiters>>
    BY <1>7 DEF ReleaseSlot
  <2>2. Holders(phase') = Holders(phase) \ {j}
    BY <2>1 DEF Inv, Holders, Holding
  <2>3. SlotsExact'
    <3>1. active' = Cardinality(Holders(phase'))
      BY <1>4, <2>1, <2>2
    <3>2. active' <= InFlightCeiling /\ slotWaiters' = <<>>
      BY <1>3, <1>7, <2>1, GovernorAssumption DEF Inv
    <3> QED
      BY <3>1, <3>2 DEF SlotsExact, Holders
  <2>4. phase' \in [Jobs -> Phases]
    BY <2>1 DEF Inv, Phases
  <2>5. Queued(slotWaiters, phase, "slotWait")'
    BY <1>7, <2>1 DEF Queued
  <2>6. Queued(reserveWaiters, phase, "parked")'
    BY <1>1, <1>6, <2>1 DEF Inv, Queued
  <2> QED
    BY <1>5, <2>1, <2>3, <2>4, <2>5, <2>6 DEF Inv
<1>8. CASE slotWaiters # <<>>
  <2> DEFINE h == Head(slotWaiters)
  <2>1. /\ phase' = [phase EXCEPT ![j] = "finished", ![h] = "slotted"]
        /\ slotWaiters' = Tail(slotWaiters)
        /\ UNCHANGED <<active, reserveWaiters>>
    BY <1>8 DEF ReleaseSlot
  <2>2. /\ slotWaiters \in Seq(Jobs) /\ Len(slotWaiters) \in Nat \ {0}
        /\ h = slotWaiters[1]
        /\ slotWaiters' \in Seq(Jobs)
        /\ Len(slotWaiters') = Len(slotWaiters) - 1
        /\ \A i \in 1 .. Len(slotWaiters) - 1 : slotWaiters'[i] = slotWaiters[i + 1]
    BY <1>8, <2>1 DEF Inv, Queued
  <2>3. h \in Jobs /\ phase[h] = "slotWait" /\ h # j
    BY <1>1, <2>2 DEF Inv, Queued
  <2>4. \A k \in Jobs : phase'[k] = IF k = h THEN "slotted"
                                    ELSE IF k = j THEN "finished" ELSE phase[k]
    BY <2>1, <2>3 DEF Inv
  <2>5. phase' \in [Jobs -> Phases]
    BY <2>1, <2>3 DEF Inv, Phases
  <2>6. Holders(phase') = (Holders(phase) \ {j}) \union {h}
    BY <2>3, <2>4 DEF Holders, Holding
  <2>7. h \notin Holders(phase) \ {j}
    BY <2>3 DEF Holders, Holding
  <2>8. Cardinality(Holders(phase')) = active
    <3>1. Cardinality(Holders(phase')) = Cardinality(Holders(phase) \ {j}) + 1
      BY <1>4, <2>6, <2>7, FS_AddElement
    <3> QED
      BY <1>4, <3>1 DEF Inv
  <2>9. active = InFlightCeiling
    BY <1>8 DEF Inv, SlotsExact
  <2>10. SlotsExact'
    BY <2>1, <2>8, <2>9, GovernorAssumption DEF SlotsExact, Holders
  <2>11. ASSUME NEW i \in 1 .. Len(slotWaiters')
         PROVE  phase'[slotWaiters'[i]] = "slotWait"
    <3>1. i + 1 \in 1 .. Len(slotWaiters) /\ 1 \in 1 .. Len(slotWaiters) /\ i + 1 # 1
          /\ slotWaiters'[i] = slotWaiters[i + 1]
      BY <2>2, <2>11
    <3>2. slotWaiters[i + 1] \in Jobs /\ slotWaiters[i + 1] # h
          /\ phase[slotWaiters[i + 1]] = "slotWait"
      BY <2>2, <3>1 DEF Inv, Queued
    <3> QED
      BY <1>1, <2>4, <3>1, <3>2
  <2>12. ASSUME NEW i \in 1 .. Len(slotWaiters'), NEW k \in 1 .. Len(slotWaiters'),
                slotWaiters'[i] = slotWaiters'[k]
         PROVE  i = k
    <3>1. i + 1 \in 1 .. Len(slotWaiters) /\ k + 1 \in 1 .. Len(slotWaiters)
      BY <2>2
    <3>2. i + 1 = k + 1
      BY <2>2, <2>12, <3>1 DEF Inv, Queued
    <3> QED
      BY <3>2
  <2>13. Queued(slotWaiters, phase, "slotWait")'
    BY <2>2, <2>11, <2>12 DEF Queued
  <2>14. Queued(reserveWaiters, phase, "parked")'
    BY <1>1, <1>6, <2>1, <2>3, <2>4 DEF Inv, Queued
  <2> QED
    BY <2>1, <2>5, <2>10, <2>13, <2>14 DEF Inv
<1> QED
  BY <1>7, <1>8

(* reserve: granted, refused or parked, the dispatch keeps its slot.       *)
LEMMA ReserveStep ==
  ASSUME Inv, NEW j \in Jobs, Reserve(j)
  PROVE  Inv'
<1>1. phase[j] = "slotted" /\ UNCHANGED <<active, slotWaiters>>
  BY DEF Reserve
<1>2. /\ SameGate([phase EXCEPT ![j] = "refused"])
      /\ SameGate([phase EXCEPT ![j] = "reserved"])
      /\ SameGate([phase EXCEPT ![j] = "parked"])
  BY <1>1, OneMove DEF Phases, Holding
<1>3. CASE NoTrip([phase EXCEPT ![j] = "refused"])
  BY <1>1, <1>2, <1>3, Quiet DEF NoTrip
<1>4. CASE NoTrip([phase EXCEPT ![j] = "reserved"])
  BY <1>1, <1>2, <1>4, Quiet DEF NoTrip
<1>5. CASE TripWith("exhausted", [phase EXCEPT ![j] = "refused"])
  BY <1>1, <1>2, <1>5, Trips
<1>6. CASE /\ reserveWaiters' = Append(reserveWaiters, j)
           /\ phase' = [phase EXCEPT ![j] = "parked"]
  <2>1. SlotsExact' /\ Queued(slotWaiters, phase, "slotWait")' /\ phase' \in [Jobs -> Phases]
    BY <1>1, <1>2, <1>6, PoolAlone DEF SameGate, SameSlots
  <2>2. ASSUME NEW i \in 1 .. Len(reserveWaiters)
        PROVE  /\ reserveWaiters[i] \in Jobs /\ reserveWaiters[i] # j
               /\ phase[reserveWaiters[i]] = "parked"
    BY <1>1, <2>2 DEF Inv, Queued
  <2>3. /\ reserveWaiters' \in Seq(Jobs)
        /\ Len(reserveWaiters') = Len(reserveWaiters) + 1
        /\ Len(reserveWaiters) \in Nat
        /\ \A i \in 1 .. Len(reserveWaiters) : reserveWaiters'[i] = reserveWaiters[i]
        /\ reserveWaiters'[Len(reserveWaiters) + 1] = j
    BY <1>6 DEF Inv, Queued
  <2>4. ASSUME NEW i \in 1 .. Len(reserveWaiters') PROVE phase'[reserveWaiters'[i]] = "parked"
    BY <1>6, <2>2, <2>3, <2>4 DEF Inv
  <2>5. ASSUME NEW i \in 1 .. Len(reserveWaiters'), NEW k \in 1 .. Len(reserveWaiters'),
               reserveWaiters'[i] = reserveWaiters'[k]
        PROVE  i = k
    <3>1. CASE i = Len(reserveWaiters) + 1 \/ k = Len(reserveWaiters) + 1
      BY <2>2, <2>3, <2>5, <3>1
    <3>2. CASE i \in 1 .. Len(reserveWaiters) /\ k \in 1 .. Len(reserveWaiters)
      BY <2>3, <2>5, <3>2 DEF Inv, Queued
    <3> QED
      BY <2>3, <2>5, <3>1, <3>2
  <2> QED
    BY <1>1, <2>1, <2>3, <2>4, <2>5 DEF Inv, Queued
<1> QED
  BY <1>3, <1>4, <1>5, <1>6 DEF Reserve

(* settle: whatever it charges and whoever it wakes, the slot stays until  *)
(* release.                                                                *)
LEMMA SettleStep ==
  ASSUME Inv, NEW j \in Jobs, NEW basis, Settle(j, basis)
  PROVE  Inv'
<1>1. phase[j] \in {"running", "opened"} /\ UNCHANGED <<active, slotWaiters>>
  BY DEF Settle
<1>2. SameGate([phase EXCEPT ![j] = "settled"])
  BY <1>1, OneMove DEF Phases, Holding
<1>3. \/ \E kind : TripWith(kind, [phase EXCEPT ![j] = "settled"])
      \/ \E o, spent : Drain(o, spent, [phase EXCEPT ![j] = "settled"])
  BY DEF Settle, SettleGate
<1> QED
  BY <1>1, <1>2, <1>3, Trips, Drains

(* observeResult: a report may trip the governor, and moves no dispatch.   *)
LEMMA ObserveStep ==
  ASSUME Inv, NEW j \in Jobs, NEW usage, NEW cost, Observe(j, usage, cost)
  PROVE  Inv'
<1>1. SameGate(phase)
  BY DEF Inv, SameGate, SameSlots
<1>2. UNCHANGED <<active, slotWaiters>>
  BY DEF Observe
<1>3. NoTrip(phase) \/ TripWith(TripOf(usage, cost), phase)
  BY DEF Observe
<1> QED
  BY <1>1, <1>2, <1>3, Quiet, Trips DEF NoTrip

LEMMA Inductive == Inv /\ [Next]_govVars => Inv'
<1> SUFFICES ASSUME Inv, [Next]_govVars PROVE Inv'
  OBVIOUS
<1>1. SameGate(phase)
  BY DEF Inv, SameGate, SameSlots
<1>2. CASE UNCHANGED govVars
  BY <1>1, <1>2, Quiet DEF govVars
<1>3. ASSUME NEW j \in Jobs, Admit(j) PROVE Inv'
  <2>1. phase[j] = "idle" /\ UNCHANGED <<active, slotWaiters, reserveWaiters>>
    BY <1>3 DEF Admit
  <2>2. \/ phase' = [phase EXCEPT ![j] = "admitted"]
        \/ phase' = [phase EXCEPT ![j] = "finished"]
    BY <1>3 DEF Admit
  <2>3. SameGate(phase')
    BY <2>1, <2>2, OneMove DEF Phases, Holding
  <2> QED
    BY <2>1, <2>3, Quiet
<1>4. ASSUME NEW j \in Jobs, OpenDurable(j) PROVE Inv'
  <2>1. phase[j] = "reserved" /\ NoTrip([phase EXCEPT ![j] = "opened"])
        /\ UNCHANGED <<active, slotWaiters>>
    BY <1>4 DEF OpenDurable
  <2> QED
    BY <2>1, OneMove, Quiet DEF NoTrip, Phases, Holding
<1>5. ASSUME NEW j \in Jobs, EnterBody(j) PROVE Inv'
  <2>1. phase[j] = "opened" /\ NoTrip([phase EXCEPT ![j] = "running"])
        /\ UNCHANGED <<active, slotWaiters>>
    BY <1>5 DEF EnterBody
  <2> QED
    BY <2>1, OneMove, Quiet DEF NoTrip, Phases, Holding
<1>6. ASSUME NEW j \in Jobs, AbandonReservation(j) PROVE Inv'
  <2>1. phase[j] \in {"reserved", "opened"} /\ UNCHANGED <<active, slotWaiters>>
        /\ Drain([open EXCEPT ![j] = NoReservation], usdSpent, [phase EXCEPT ![j] = "refused"])
    BY <1>6 DEF AbandonReservation
  <2>2. SameGate([phase EXCEPT ![j] = "refused"])
    BY <2>1, OneMove DEF Phases, Holding
  <2> QED
    BY <2>1, <2>2, Drains
<1>7. CASE TripSignal
  BY <1>1, <1>7, Trips DEF TripSignal
<1> QED
  BY <1>2, <1>3, <1>4, <1>5, <1>6, <1>7, AcquireStep, ReleaseStep, ReserveStep, SettleStep,
     ObserveStep DEF Next, Step

(* SlotPool: the count is exactly the dispatches that hold a slot, it never *)
(* exceeds the in-flight ceiling and nobody waits beside a free slot,       *)
(* however many jobs, trips, wake-ups and refusals came before.             *)
THEOREM SlotPool == Spec => []SlotsExact
<1>1. Init => Inv
  BY FreshInv DEF Init
<1>2. Inv /\ [Next]_govVars => Inv'
  BY Inductive
<1>3. Inv => SlotsExact
  BY DEF Inv
<1> QED
  BY <1>1, <1>2, <1>3, PTL DEF Spec
-----------------------------------------------------------------------------
(* The money. *)

OpenType == [Jobs -> Reservation \union {NoReservation}]

LEMMA OpenFinite == \A o : IsFiniteSet(Open(o)) /\ Open(o) \subseteq Jobs
BY FS_Subset, GovernorAssumption DEF Open

LEMMA ReservationFields ==
  ASSUME NEW o \in OpenType, NEW j \in Open(o)
  PROVE  /\ o[j] \in Reservation /\ o[j].usd \in Nat \ {0} /\ o[j].foldedUsd \in Nat
         /\ BeyondFolds(o[j]) \in Nat
         /\ o[j].usd <= BeyondFolds(o[j]) + o[j].foldedUsd
BY DEF OpenType, Open, Reservation, BeyondFolds

(* A reservation is never the absence of one. *)
LEMMA ReservationIsOne ==
  ASSUME NEW g \in Nat, NEW c \in Nat
  PROVE  [usd |-> g, foldedUsd |-> c] # NoReservation
BY GovernorAssumption

LEMMA SumTypes ==
  ASSUME NEW o \in OpenType
  PROVE  FoldedUsd(o) \in Nat /\ ReservedUsd(o) \in Nat /\ HeldBeyondFoldsUsd(o) \in Nat
<1>1. IsFiniteSet(Open(o))
  BY OpenFinite
<1>2. FoldedUsd(o) \in Nat
  BY <1>1, ReservationFields, SumNat DEF FoldedUsd
<1>3. ReservedUsd(o) \in Nat
  BY <1>1, ReservationFields, SumNat DEF ReservedUsd
<1>4. HeldBeyondFoldsUsd(o) \in Nat
  BY <1>1, ReservationFields, SumNat DEF HeldBeyondFoldsUsd
<1> QED
  BY <1>2, <1>3, <1>4

(* What is reserved is covered by what is still held and what was folded. *)
LEMMA HeldCovers ==
  ASSUME NEW o \in OpenType
  PROVE  ReservedUsd(o) <= HeldBeyondFoldsUsd(o) + FoldedUsd(o)
<1>1. IsFiniteSet(Open(o))
  BY OpenFinite
<1> DEFINE r == [j \in Open(o) |-> o[j].usd]
           h == [j \in Open(o) |-> BeyondFolds(o[j])]
           f == [j \in Open(o) |-> o[j].foldedUsd]
<1>2. \A j \in Open(o) : r[j] \in Nat /\ h[j] \in Nat /\ f[j] \in Nat /\ r[j] <= h[j] + f[j]
  BY ReservationFields
<1> HIDE DEF r, h, f
<1>3. SumOf(r, Open(o)) <= SumOf(h, Open(o)) + SumOf(f, Open(o))
  BY <1>1, <1>2, SumBelow
<1> QED
  BY <1>3 DEF ReservedUsd, HeldBeyondFoldsUsd, FoldedUsd, r, h, f
-----------------------------------------------------------------------------
(* A reservation of g is opened for every job of W.                        *)
LEMMA Grant ==
  ASSUME NEW o \in OpenType, NEW W \in SUBSET Jobs, \A j \in W : o[j] = NoReservation,
         NEW g \in Nat \ {0}, NEW o2 \in OpenType,
         \A j \in W : o2[j] = [usd |-> g, foldedUsd |-> 0],
         \A j \in Jobs \ W : o2[j] = o[j]
  PROVE  /\ Open(o2) = Open(o) \union W
         /\ FoldedUsd(o2) = FoldedUsd(o)
         /\ ReservedUsd(o2) = ReservedUsd(o) + Cardinality(W) * g
         /\ HeldBeyondFoldsUsd(o2) = HeldBeyondFoldsUsd(o) + Cardinality(W) * g
<1>1. o2 \in OpenType
  OBVIOUS
<1>2. Open(o2) = Open(o) \union W /\ Open(o) \cap W = {}
  BY ReservationIsOne DEF Open
<1>3. IsFiniteSet(Open(o)) /\ IsFiniteSet(W) /\ IsFiniteSet(Open(o2))
  BY OpenFinite, FS_Subset, GovernorAssumption
<1>4. \A j \in W : o2[j] = [usd |-> g, foldedUsd |-> 0]
  OBVIOUS
<1>5. \A j \in Open(o) : o2[j] = o[j]
  BY <1>2 DEF Open
<1>6. FoldedUsd(o2) = FoldedUsd(o)
  <2> DEFINE f2 == [j \in Open(o2) |-> o2[j].foldedUsd]
             f  == [j \in Open(o) |-> o[j].foldedUsd]
  <2>1. \A j \in Open(o) \union W : f2[j] \in Nat
    BY <1>1, <1>2, ReservationFields
  <2>2. (\A j \in Open(o) : f2[j] = f[j]) /\ (\A j \in W : f2[j] = 0)
    BY <1>2, <1>4, <1>5
  <2> HIDE DEF f2, f
  <2>3. SumOf(f2, Open(o) \union W) = SumOf(f2, Open(o)) + SumOf(f2, W)
    BY <1>2, <1>3, <2>1, SumUnion
  <2>4. SumOf(f2, Open(o)) = SumOf(f, Open(o)) /\ SumOf(f2, W) = Cardinality(W) * 0
    BY <1>3, <2>2, SumSame, SumConstant
  <2>5. Cardinality(W) \in Nat /\ SumOf(f, Open(o)) \in Nat
    BY <1>3, FS_CardinalityType, SumTypes DEF FoldedUsd, f
  <2>6. SumOf(f2, Open(o) \union W) = SumOf(f, Open(o))
    BY <2>3, <2>4, <2>5
  <2> QED
    BY <1>2, <2>6 DEF FoldedUsd, f2, f
<1>7. ReservedUsd(o2) = ReservedUsd(o) + Cardinality(W) * g
  <2> DEFINE f2 == [j \in Open(o2) |-> o2[j].usd]
             f  == [j \in Open(o) |-> o[j].usd]
  <2>1. \A j \in Open(o) \union W : f2[j] \in Nat
    BY <1>1, <1>2, ReservationFields
  <2>2. (\A j \in Open(o) : f2[j] = f[j]) /\ (\A j \in W : f2[j] = g)
    BY <1>2, <1>4, <1>5
  <2> HIDE DEF f2, f
  <2>3. SumOf(f2, Open(o) \union W) = SumOf(f2, Open(o)) + SumOf(f2, W)
    BY <1>2, <1>3, <2>1, SumUnion
  <2>4. SumOf(f2, Open(o)) = SumOf(f, Open(o)) /\ SumOf(f2, W) = Cardinality(W) * g
    BY <1>3, <2>2, SumSame, SumConstant
  <2> QED
    BY <1>2, <2>3, <2>4 DEF ReservedUsd, f2, f
<1>8. HeldBeyondFoldsUsd(o2) = HeldBeyondFoldsUsd(o) + Cardinality(W) * g
  <2> DEFINE f2 == [j \in Open(o2) |-> BeyondFolds(o2[j])]
             f  == [j \in Open(o) |-> BeyondFolds(o[j])]
  <2>1. \A j \in Open(o) \union W : f2[j] \in Nat
    BY <1>1, <1>2, ReservationFields
  <2>2. (\A j \in Open(o) : f2[j] = f[j]) /\ (\A j \in W : f2[j] = g)
    BY <1>2, <1>4, <1>5 DEF BeyondFolds
  <2> HIDE DEF f2, f
  <2>3. SumOf(f2, Open(o) \union W) = SumOf(f2, Open(o)) + SumOf(f2, W)
    BY <1>2, <1>3, <2>1, SumUnion
  <2>4. SumOf(f2, Open(o)) = SumOf(f, Open(o)) /\ SumOf(f2, W) = Cardinality(W) * g
    BY <1>3, <2>2, SumSame, SumConstant
  <2> QED
    BY <1>2, <2>3, <2>4 DEF HeldBeyondFoldsUsd, f2, f
<1> QED
  BY <1>1, <1>2, <1>6, <1>7, <1>8

(* The reservation of j is closed.                                         *)
LEMMA Close ==
  ASSUME NEW o \in OpenType, NEW j \in Open(o), NEW o2,
         o2 = [o EXCEPT ![j] = NoReservation]
  PROVE  /\ o2 \in OpenType
         /\ Open(o2) = Open(o) \ {j}
         /\ FoldedUsd(o) = o[j].foldedUsd + FoldedUsd(o2)
         /\ ReservedUsd(o) = o[j].usd + ReservedUsd(o2)
<1>1. o2 \in OpenType /\ j \in Jobs
  BY OpenFinite DEF OpenType
<1>2. Open(o2) = Open(o) \ {j}
  BY <1>1 DEF Open, OpenType
<1>3. IsFiniteSet(Open(o)) /\ IsFiniteSet(Open(o2))
  BY OpenFinite
<1>4. \A k \in Open(o2) : o2[k] = o[k]
  BY <1>1, <1>2 DEF OpenType, Open
<1>5. FoldedUsd(o) = o[j].foldedUsd + FoldedUsd(o2)
  <2> DEFINE f2 == [k \in Open(o2) |-> o2[k].foldedUsd]
             f  == [k \in Open(o) |-> o[k].foldedUsd]
  <2>1. (\A k \in Open(o) : f[k] \in Nat) /\ f[j] = o[j].foldedUsd
    BY ReservationFields
  <2>2. \A k \in Open(o2) : f[k] = f2[k]
    BY <1>2, <1>4
  <2> HIDE DEF f2, f
  <2>3. SumOf(f, Open(o)) = f[j] + SumOf(f, Open(o) \ {j})
    BY <1>3, <2>1, SumRemove
  <2>4. SumOf(f, Open(o2)) = SumOf(f2, Open(o2))
    BY <1>3, <2>2, SumSame
  <2> QED
    BY <1>2, <2>1, <2>3, <2>4 DEF FoldedUsd, f2, f
<1>6. ReservedUsd(o) = o[j].usd + ReservedUsd(o2)
  <2> DEFINE f2 == [k \in Open(o2) |-> o2[k].usd]
             f  == [k \in Open(o) |-> o[k].usd]
  <2>1. (\A k \in Open(o) : f[k] \in Nat) /\ f[j] = o[j].usd
    BY ReservationFields
  <2>2. \A k \in Open(o2) : f[k] = f2[k]
    BY <1>2, <1>4
  <2> HIDE DEF f2, f
  <2>3. SumOf(f, Open(o)) = f[j] + SumOf(f, Open(o) \ {j})
    BY <1>3, <2>1, SumRemove
  <2>4. SumOf(f, Open(o2)) = SumOf(f2, Open(o2))
    BY <1>3, <2>2, SumSame
  <2> QED
    BY <1>2, <2>1, <2>3, <2>4 DEF ReservedUsd, f2, f
<1> QED
  BY <1>1, <1>2, <1>5, <1>6

(* A cost is folded into the open reservation of j: what it no longer      *)
(* holds is at most that cost.                                             *)
LEMMA Fold ==
  ASSUME NEW o \in OpenType, NEW j \in Open(o), NEW cost \in Nat, NEW o2 \in OpenType,
         o2[j] = [usd |-> o[j].usd, foldedUsd |-> o[j].foldedUsd + cost],
         \A k \in Jobs \ {j} : o2[k] = o[k]
  PROVE  /\ Open(o2) = Open(o)
         /\ FoldedUsd(o2) = FoldedUsd(o) + cost
         /\ ReservedUsd(o2) = ReservedUsd(o)
         /\ HeldBeyondFoldsUsd(o) <= HeldBeyondFoldsUsd(o2) + cost
<1>1. j \in Jobs /\ o[j] \in Reservation /\ o[j].usd \in Nat \ {0} /\ o[j].foldedUsd \in Nat
  BY OpenFinite, ReservationFields
<1>4. /\ o2 \in OpenType /\ o2[j] # NoReservation
      /\ o2[j].usd = o[j].usd /\ o2[j].foldedUsd = o[j].foldedUsd + cost
  BY <1>1, ReservationIsOne
<1>5. Open(o2) = Open(o)
  BY <1>1, <1>4 DEF Open
<1>6. IsFiniteSet(Open(o))
  BY OpenFinite
<1>7. \A k \in Open(o) \ {j} : o2[k] = o[k]
  BY DEF Open
<1>8. IsFiniteSet(Open(o) \ {j})
  BY <1>6, FS_RemoveElement
<1>9. FoldedUsd(o2) = FoldedUsd(o) + cost
  <2> DEFINE f2 == [k \in Open(o2) |-> o2[k].foldedUsd]
             f  == [k \in Open(o) |-> o[k].foldedUsd]
             R  == Open(o) \ {j}
  <2>1. \A k \in Open(o) : f[k] \in Nat /\ f2[k] \in Nat
    BY <1>4, <1>5, ReservationFields
  <2>2. f2[j] = f[j] + cost
    BY <1>4, <1>5
  <2>3. \A k \in R : f2[k] = f[k]
    BY <1>5, <1>7
  <2> HIDE DEF f2, f
  <2>4. /\ SumOf(f, Open(o)) = f[j] + SumOf(f, R)
        /\ SumOf(f2, Open(o)) = f2[j] + SumOf(f2, R)
    BY <1>6, <2>1, SumRemove
  <2>5. SumOf(f2, R) = SumOf(f, R)
    BY <1>8, <2>1, <2>3, SumSame
  <2>6. SumOf(f, R) \in Nat /\ f[j] \in Nat
    BY <1>8, <2>1, SumNat
  <2>7. SumOf(f2, Open(o)) = SumOf(f, Open(o)) + cost
    BY <2>2, <2>4, <2>5, <2>6
  <2> QED
    BY <1>5, <2>7 DEF FoldedUsd, f2, f
<1>10. ReservedUsd(o2) = ReservedUsd(o)
  <2> DEFINE f2 == [k \in Open(o2) |-> o2[k].usd]
             f  == [k \in Open(o) |-> o[k].usd]
  <2>1. \A k \in Open(o) : f2[k] = f[k]
    BY <1>4, <1>5, <1>7
  <2> HIDE DEF f2, f
  <2>2. SumOf(f2, Open(o)) = SumOf(f, Open(o))
    BY <1>6, <2>1, SumSame
  <2> QED
    BY <1>5, <2>2 DEF ReservedUsd, f2, f
<1>11. HeldBeyondFoldsUsd(o) <= HeldBeyondFoldsUsd(o2) + cost
  <2> DEFINE f2 == [k \in Open(o2) |-> BeyondFolds(o2[k])]
             f  == [k \in Open(o) |-> BeyondFolds(o[k])]
             R  == Open(o) \ {j}
  <2>1. \A k \in Open(o) : f[k] \in Nat /\ f2[k] \in Nat
    BY <1>4, <1>5, ReservationFields
  <2>2. f[j] <= f2[j] + cost
    BY <1>1, <1>4, <1>5 DEF BeyondFolds
  <2>3. \A k \in R : f2[k] = f[k]
    BY <1>5, <1>7
  <2> HIDE DEF f2, f
  <2>4. /\ SumOf(f, Open(o)) = f[j] + SumOf(f, R)
        /\ SumOf(f2, Open(o)) = f2[j] + SumOf(f2, R)
    BY <1>6, <2>1, SumRemove
  <2>5. SumOf(f2, R) = SumOf(f, R)
    BY <1>8, <2>3, SumSame
  <2>6. SumOf(f, R) \in Nat /\ f[j] \in Nat /\ f2[j] \in Nat
    BY <1>8, <2>1, SumNat
  <2>7. SumOf(f, Open(o)) <= SumOf(f2, Open(o)) + cost
    BY <2>2, <2>4, <2>5, <2>6
  <2> QED
    BY <1>5, <2>7 DEF HeldBeyondFoldsUsd, f2, f
<1> QED
  BY <1>4, <1>5, <1>9, <1>10, <1>11
-----------------------------------------------------------------------------
(* A queue without repetition has as many members as places.               *)
LEMMA QueueCount ==
  ASSUME NEW w \in Seq(Jobs), \A i, k \in 1 .. Len(w) : w[i] = w[k] => i = k,
         NEW n \in 0 .. Len(w)
  PROVE  Cardinality({w[i] : i \in 1 .. n}) = n
<1> DEFINE W == {w[i] : i \in 1 .. n}
           f == [i \in 1 .. n |-> w[i]]
<1>1. f \in Surjection(1 .. n, W) /\ f \in Injection(1 .. n, W)
  BY DEF Surjection, Injection, IsInjective
<1>2. IsFiniteSet(1 .. n) /\ Cardinality(1 .. n) = n
  BY FS_Interval
<1> HIDE DEF f, W
<1>3. Cardinality(W) = n
  BY <1>1, <1>2, FS_Surjection
<1> QED
  BY <1>3 DEF W

OpenPhases == {"reserved", "opened", "running"}

(* Who holds a reservation, and that nothing is folded before the body.    *)
Shape(o, spent, ph) ==
  /\ o \in OpenType /\ spent \in Nat /\ ph \in [Jobs -> Phases]
  /\ \A j \in Jobs : o[j] # NoReservation <=> ph[j] \in OpenPhases
  /\ \A j \in Jobs : ph[j] \in {"reserved", "opened"} => o[j].foldedUsd = 0

Fits(o, spent) == (spent - FoldedUsd(o)) + ReservedUsd(o) <= Cap

TripType == tripKind \in TripKinds \union {"none"}

Gate ==
  /\ Shape(open, usdSpent, phase)
  /\ TripType
  /\ ~Tripped => Fits(open, usdSpent)
  /\ NoLostWakeup

(* What a step of the gate may do to the phases beside ph: its waiters are *)
(* refused or granted.                                                     *)
Moved(ph) ==
  \A j \in Jobs :
    phase'[j] = ph[j] \/ (ph[j] = "parked" /\ phase'[j] \in {"refused", "reserved"})

(* trip leaves nobody to wake. *)
LEMMA TripGate ==
  ASSUME TripType, NEW o, NEW spent, NEW ph, Shape(o, spent, ph),
         Queued(reserveWaiters, ph, "parked"),
         NEW kind \in TripKinds, TripWith(kind, ph), open' = o, usdSpent' = spent
  PROVE  /\ Gate' /\ Moved(ph) /\ Tripped' /\ FoldedUsd(open)' = FoldedUsd(o)
         /\ (Tripped => tripKind' = tripKind) /\ (Tripped' => open' = o)
<1>1. \A j \in WaitingIn(reserveWaiters) : j \in Jobs /\ ph[j] = "parked"
  BY DEF WaitingIn, Queued
<1>2. phase' = [j \in Jobs |-> IF j \in WaitingIn(reserveWaiters) THEN "refused" ELSE ph[j]]
  BY DEF TripWith
<1>3. Moved(ph) /\ phase' \in [Jobs -> Phases]
  <2>1. phase' \in [Jobs -> Phases]
    BY <1>2 DEF Shape, Phases
  <2>2. \A j \in Jobs : phase'[j] = ph[j] \/ (ph[j] = "parked" /\ phase'[j] = "refused")
    BY <1>1, <1>2
  <2> QED
    BY <2>1, <2>2 DEF Moved
<1>4. Shape(open, usdSpent, phase)'
  BY <1>1, <1>2, <1>3 DEF Shape, OpenPhases
<1>5. Tripped' /\ TripType' /\ reserveWaiters' = <<>>
  BY DEF TripWith, TripType, Tripped, TripKinds
<1>6. Tripped => tripKind' = tripKind
  BY DEF TripWith
<1> QED
  BY <1>3, <1>4, <1>5, <1>6 DEF Gate, NoLostWakeup

(* drainWaiters: the grants fit what is left, and the waiter they stop at  *)
(* really does not fit behind something that is still to settle.           *)
LEMMA DrainGate ==
  ASSUME TripType, NEW o, NEW spent, NEW ph, Shape(o, spent, ph),
         Queued(reserveWaiters, ph, "parked"),
         ~Tripped => Fits(o, spent), Drain(o, spent, ph), usdSpent' = spent
  PROVE  /\ Gate' /\ Moved(ph) /\ FoldedUsd(open)' = FoldedUsd(o)
         /\ (Tripped => tripKind' = tripKind) /\ (Tripped' => open' = o)
<1>1. CASE Tripped \/ Exhausted(o, spent)
  <2>1. TripWith("exhausted", ph) /\ open' = o
    BY <1>1 DEF Drain
  <2>2. "exhausted" \in TripKinds
    BY DEF TripKinds
  <2> QED
    BY <2>1, <2>2, TripGate
<1>2. CASE ~Tripped /\ ~Exhausted(o, spent)
  <2>1. PICK n \in 0 .. Len(reserveWaiters) :
          /\ DrainsTo(n, o, spent)
          /\ open' = [j \in Jobs |->
                       IF j \in WaitingIn(SubSeq(reserveWaiters, 1, n))
                         THEN [usd |-> GrantUsd(o, spent), foldedUsd |-> 0] ELSE o[j]]
          /\ reserveWaiters' = SubSeq(reserveWaiters, n + 1, Len(reserveWaiters))
          /\ phase' = [j \in Jobs |->
                        IF j \in WaitingIn(SubSeq(reserveWaiters, 1, n)) THEN "reserved"
                                                                         ELSE ph[j]]
          /\ UNCHANGED tripKind
    BY <1>2 DEF Drain, Wakes
  <2> DEFINE woken == WaitingIn(SubSeq(reserveWaiters, 1, n))
             cap == Capacity(o, spent)
  <2>2. reserveWaiters \in Seq(Jobs) /\ Len(reserveWaiters) \in Nat /\ n \in Nat
    BY DEF Queued
  <2>3. woken = {reserveWaiters[i] : i \in 1 .. n}
    <3>1. /\ Len(SubSeq(reserveWaiters, 1, n)) = n
          /\ \A i \in 1 .. n : SubSeq(reserveWaiters, 1, n)[i] = reserveWaiters[i]
      BY <2>2
    <3> QED
      BY <3>1, Zenon DEF WaitingIn
  <2>4. Cardinality(woken) = n
    BY <2>2, <2>3, QueueCount DEF Queued
  <2>5. woken \in SUBSET Jobs /\ \A j \in woken : ph[j] = "parked"
    BY <2>2, <2>3 DEF Queued
  <2>6. \A j \in woken : o[j] = NoReservation
    BY <2>5 DEF Shape, OpenPhases
  <2>7. cap \in Int /\ spent \in Nat /\ Cap \in Nat /\ FairShare \in Nat \ {0}
        /\ HeldBeyondFoldsUsd(o) \in Nat /\ cap = Cap - spent - HeldBeyondFoldsUsd(o)
    BY SumTypes, GovernorAssumption DEF Shape, Capacity
  <2>8. o \in OpenType /\ ReservedUsd(o) \in Nat /\ FoldedUsd(o) \in Nat
        /\ ReservedUsd(o) <= HeldBeyondFoldsUsd(o) + FoldedUsd(o)
    BY SumTypes, HeldCovers DEF Shape
  <2>9. Moved(ph) /\ phase' \in [Jobs -> Phases]
    <3>1. phase' \in [Jobs -> Phases]
      BY <2>1 DEF Shape, Phases
    <3>2. \A j \in Jobs : phase'[j] = ph[j] \/ (ph[j] = "parked" /\ phase'[j] = "reserved")
      BY <2>1, <2>5
    <3> QED
      BY <3>1, <3>2 DEF Moved
  <2>10. TripType' /\ ~Tripped'
    BY <1>2, <2>1 DEF TripType, Tripped
  <2>11. reserveWaiters' # <<>> => n < Len(reserveWaiters)
    BY <2>1, <2>2
  <2>12. reserveWaiters' # <<>> => ~CanGrant(n + 1, o, spent)
    BY <2>1, <2>2, <2>11 DEF DrainsTo
  <2>13. CASE n = 0
    <3>1. woken = {}
      BY <2>3, <2>13
    <3>2. open' = o /\ phase' = ph
      BY <2>1, <3>1 DEF Shape, OpenType
    <3>3. ASSUME reserveWaiters' # <<>>
          PROVE  Open(o) # {} /\ ~Grantable(o, spent)
      <4>1. ~(FairShare <= cap) /\ ~(Open(o) = {} /\ cap > 0)
        BY <2>7, <2>12, <2>13, <3>3 DEF CanGrant
      <4>2. reserveWaiters # <<>>
        BY <2>2, <2>11, <2>13, <3>3
      <4>3. Open(o) # {} \/ cap > 0
        BY <1>2, <2>7, <4>2 DEF Exhausted
      <4> QED
        BY <4>1, <4>3 DEF Grantable
    <3> QED
      BY <1>2, <2>9, <2>10, <3>2, <3>3 DEF Gate, NoLostWakeup
  <2>14. CASE n # 0
    <3>1. PICK g \in Nat \ {0} :
            /\ GrantUsd(o, spent) = g
            /\ n * g <= cap
            /\ g = FairShare \/ (n = 1 /\ g = cap /\ cap < FairShare)
      <4>1. CASE n * FairShare <= cap
        <5>1. FairShare <= n * FairShare
          BY <2>2, <2>7, <2>14
        <5>2. n * FairShare \in Nat
          BY <2>2, <2>7
        <5>3. FairShare <= cap
          BY <2>7, <4>1, <5>1, <5>2
        <5>4. GrantUsd(o, spent) = FairShare
          BY <5>3 DEF GrantUsd
        <5> QED
          BY <2>7, <4>1, <5>4
      <4>2. CASE n = 1 /\ cap > 0 /\ cap < FairShare
        <5>1. GrantUsd(o, spent) = cap /\ cap \in Nat \ {0} /\ n * cap <= cap
          BY <2>7, <4>2 DEF GrantUsd
        <5> QED
          BY <4>2, <5>1
      <4>3. n * FairShare <= cap \/ (n = 1 /\ cap > 0)
        BY <2>1, <2>14 DEF DrainsTo, CanGrant
      <4>4. n = 1 => n * FairShare = FairShare
        BY <2>7
      <4> QED
        BY <2>7, <4>1, <4>2, <4>3, <4>4
    <3>2. open' = [j \in Jobs |-> IF j \in woken THEN [usd |-> g, foldedUsd |-> 0] ELSE o[j]]
      BY <2>1, <3>1
    <3>3. /\ open' \in OpenType
          /\ Open(open') = Open(o) \union woken
          /\ FoldedUsd(open') = FoldedUsd(o)
          /\ ReservedUsd(open') = ReservedUsd(o) + n * g
          /\ HeldBeyondFoldsUsd(open') = HeldBeyondFoldsUsd(o) + n * g
      <4> HIDE DEF woken, cap
      <4>1. open' \in OpenType
        BY <2>8, <3>1, <3>2 DEF OpenType, Reservation
      <4>2. /\ \A j \in woken : open'[j] = [usd |-> g, foldedUsd |-> 0]
            /\ \A j \in Jobs \ woken : open'[j] = o[j]
        BY <2>5, <3>2
      <4>3. o \in OpenType /\ woken \in SUBSET Jobs /\ g \in Nat \ {0}
        BY <2>5, <2>8, <3>1
      <4>4. PICK o2 : o2 = open'
        OBVIOUS
      <4>5. /\ o2 \in OpenType
            /\ \A j \in woken : o2[j] = [usd |-> g, foldedUsd |-> 0]
            /\ \A j \in Jobs \ woken : o2[j] = o[j]
        BY <4>1, <4>2, <4>4
      <4>6. /\ Open(o2) = Open(o) \union woken
            /\ FoldedUsd(o2) = FoldedUsd(o)
            /\ ReservedUsd(o2) = ReservedUsd(o) + Cardinality(woken) * g
            /\ HeldBeyondFoldsUsd(o2) = HeldBeyondFoldsUsd(o) + Cardinality(woken) * g
        BY <2>6, <4>3, <4>5, Grant
      <4> QED
        BY <2>4, <4>1, <4>4, <4>6
    <3>4. n * g \in Nat
      BY <2>2, <3>1
    <3>5. Fits(open', usdSpent')
      BY <2>7, <2>8, <3>1, <3>3, <3>4 DEF Fits
    <3>6. Capacity(open', usdSpent') = cap - n * g
      BY <2>7, <3>3, <3>4 DEF Capacity
    <3>7. Open(open') # {}
      <4>1. 1 \in 1 .. n
        BY <2>2, <2>14
      <4>2. reserveWaiters[1] \in woken
        BY <2>3, <4>1
      <4> QED
        BY <3>3, <4>2
    <3>8. ASSUME reserveWaiters' # <<>> PROVE ~Grantable(open', usdSpent')
      <4>1. ~((n + 1) * FairShare <= cap)
        BY <2>12, <3>8 DEF CanGrant
      <4>2. (n + 1) * FairShare = n * FairShare + FairShare
        BY <2>2, <2>7
      <4>3. n * FairShare \in Nat
        BY <2>2, <2>7
      <4>4. ~(FairShare <= cap - n * g)
        BY <2>7, <3>1, <3>4, <4>1, <4>2, <4>3
      <4> QED
        BY <3>6, <3>7, <4>4 DEF Grantable
    <3>9. Shape(open, usdSpent, phase)'
      <4>1. \A j \in Jobs : open'[j] # NoReservation <=> phase'[j] \in OpenPhases
        BY <2>1, <3>2, ReservationIsOne, <3>1 DEF Shape, OpenPhases
      <4>2. \A j \in Jobs : phase'[j] \in {"reserved", "opened"} => open'[j].foldedUsd = 0
        BY <2>1, <3>2 DEF Shape
      <4> QED
        BY <2>7, <2>9, <3>3, <4>1, <4>2 DEF Shape
    <3> QED
      BY <1>2, <2>9, <2>10, <3>3, <3>5, <3>7, <3>8, <3>9 DEF Gate, NoLostWakeup
  <2> QED
    BY <2>13, <2>14
<1> QED
  BY <1>1, <1>2
-----------------------------------------------------------------------------
(* Each charge is entered once, and the ledger adds up.                    *)
Ledger ==
  /\ charged \in [Jobs -> Nat] /\ seed \in Nat
  /\ \A j \in Jobs : phase[j] \notin {"settled", "finished"} => charged[j] = 0
  /\ LedgerExact

Counters ==
  /\ dispatchedCount \in Nat /\ attempts \in [Jobs -> Nat] /\ tokens \in Nat
  /\ reports \in [Jobs -> 0 .. MaxReports]

Money == Inv /\ Gate /\ Ledger /\ Counters

(* TripIsFinal of one step. *)
Final ==
  /\ Tripped => tripKind' = tripKind
  /\ Tripped' =>
       \A j \in Jobs :
         /\ open[j] = NoReservation => open'[j] = NoReservation
         /\ phase'[j] = "running" => phase[j] = "running"

LEMMA ChargeOnce ==
  ASSUME NEW f \in [Jobs -> Nat], NEW j \in Jobs, f[j] = 0, NEW c \in Nat, NEW f2,
         f2 = [f EXCEPT ![j] = c]
  PROVE  f2 \in [Jobs -> Nat] /\ SumOf(f2, Jobs) = SumOf(f, Jobs) + c
<1>1. f2 \in [Jobs -> Nat] /\ f2[j] = c /\ \A k \in Jobs \ {j} : f2[k] = f[k]
  OBVIOUS
<1>2. IsFiniteSet(Jobs) /\ IsFiniteSet(Jobs \ {j})
  BY GovernorAssumption, FS_RemoveElement
<1>3. SumOf(f2, Jobs) = f2[j] + SumOf(f2, Jobs \ {j})
  <2>1. \A k \in Jobs : f2[k] \in Nat
    BY <1>1
  <2> QED
    BY <1>2, <2>1, SumRemove
<1>4. SumOf(f, Jobs) = f[j] + SumOf(f, Jobs \ {j})
  BY <1>2, SumRemove
<1>5. SumOf(f2, Jobs \ {j}) = SumOf(f, Jobs \ {j})
  BY <1>1, <1>2, SumSame
<1>6. SumOf(f, Jobs \ {j}) \in Nat
  BY <1>2, SumNat
<1> QED
  BY <1>1, <1>3, <1>4, <1>5, <1>6

(* A step that books nothing: phases move outside the reservation, or      *)
(* along it.                                                               *)
LEMMA GateQuiet ==
  ASSUME Gate, UNCHANGED <<open, usdSpent, tripKind, reserveWaiters>>,
         phase' \in [Jobs -> Phases],
         \A j \in Jobs : phase'[j] \in OpenPhases <=> phase[j] \in OpenPhases,
         \A j \in Jobs : phase'[j] \in {"reserved", "opened"} =>
                        phase[j] \in {"reserved", "opened"}
  PROVE  Gate'
<1>1. Shape(open, usdSpent, phase)'
  BY DEF Gate, Shape
<1>2. TripType' /\ (~Tripped' => Fits(open, usdSpent)')
  BY DEF Gate, TripType, Tripped, Fits
<1>3. NoLostWakeup'
  BY DEF Gate, NoLostWakeup, Tripped
<1> QED
  BY <1>1, <1>2, <1>3 DEF Gate

LEMMA LedgerQuiet ==
  ASSUME Gate, Gate', Ledger, UNCHANGED <<charged, seed>>,
         usdSpent' - FoldedUsd(open)' = usdSpent - FoldedUsd(open),
         \A j \in Jobs : phase'[j] \notin {"settled", "finished"} =>
                        phase[j] \notin {"settled", "finished"}
  PROVE  Ledger'
<1>1. usdSpent \in Nat /\ FoldedUsd(open) \in Nat
  BY SumTypes DEF Gate, Shape
<1>2. usdSpent' \in Nat /\ FoldedUsd(open)' \in Nat
  <2>1. PICK o2 : o2 = open'
    OBVIOUS
  <2>2. o2 \in OpenType /\ usdSpent' \in Nat
    BY <2>1 DEF Gate, Shape
  <2> QED
    BY <2>1, <2>2, SumTypes
<1>3. SumOf(charged, Jobs) \in Nat
  BY SumNat, GovernorAssumption DEF Ledger
<1>4. SumOf(charged, Jobs)' = SumOf(charged, Jobs)
  OBVIOUS
<1>5. LedgerExact'
  BY <1>1, <1>2, <1>3, <1>4 DEF Ledger, LedgerExact
<1> QED
  BY <1>5 DEF Ledger

(* Steps that touch no money at all.                                       *)
LEMMA QuietMoney ==
  ASSUME Money, UNCHANGED <<open, usdSpent, tripKind, reserveWaiters, charged, seed>>,
         phase' \in [Jobs -> Phases],
         \A j \in Jobs : phase'[j] \in OpenPhases <=> phase[j] \in OpenPhases,
         \A j \in Jobs : phase'[j] \in {"reserved", "opened"} =>
                        phase[j] \in {"reserved", "opened"},
         \A j \in Jobs : phase'[j] \notin {"settled", "finished"} =>
                        phase[j] \notin {"settled", "finished"}
  PROVE  Gate' /\ Ledger'
<1>1. Gate'
  BY GateQuiet DEF Money
<1>2. usdSpent' - FoldedUsd(open)' = usdSpent - FoldedUsd(open)
  OBVIOUS
<1> QED
  BY <1>1, <1>2, LedgerQuiet DEF Money

LEMMA AdmitMoney ==
  ASSUME Money, NEW j \in Jobs, Admit(j)
  PROVE  Gate' /\ Ledger' /\ Final
<1>1. /\ phase \in [Jobs -> Phases] /\ phase[j] = "idle"
      /\ UNCHANGED <<open, usdSpent, tripKind, reserveWaiters, charged, seed>>
  BY DEF Money, Inv, Admit
<1>2. phase' = [phase EXCEPT ![j] = "admitted"] \/ phase' = [phase EXCEPT ![j] = "finished"]
  BY DEF Admit
<1>3. \A k \in Jobs : phase'[k] = phase[k]
                      \/ (k = j /\ phase'[k] \in {"admitted", "finished"})
  BY <1>1, <1>2
<1>4. phase' \in [Jobs -> Phases]
  BY <1>1, <1>2 DEF Phases
<1> QED
  BY <1>1, <1>3, <1>4, QuietMoney DEF OpenPhases, Final

LEMMA AcquireMoney ==
  ASSUME Money, NEW j \in Jobs, AcquireSlot(j)
  PROVE  Gate' /\ Ledger' /\ Final
<1>1. /\ phase \in [Jobs -> Phases] /\ phase[j] = "admitted"
      /\ UNCHANGED <<open, usdSpent, tripKind, reserveWaiters, charged, seed>>
  BY DEF Money, Inv, AcquireSlot
<1>2. phase' = [phase EXCEPT ![j] = "slotted"] \/ phase' = [phase EXCEPT ![j] = "slotWait"]
  BY DEF AcquireSlot
<1>3. \A k \in Jobs : phase'[k] = phase[k]
                      \/ (k = j /\ phase'[k] \in {"slotted", "slotWait"})
  BY <1>1, <1>2
<1>4. phase' \in [Jobs -> Phases]
  BY <1>1, <1>2 DEF Phases
<1> QED
  BY <1>1, <1>3, <1>4, QuietMoney DEF OpenPhases, Final

LEMMA ReleaseMoney ==
  ASSUME Money, NEW j \in Jobs, ReleaseSlot(j)
  PROVE  Gate' /\ Ledger' /\ Final
<1>1. /\ phase \in [Jobs -> Phases] /\ phase[j] \in {"settled", "refused"}
      /\ UNCHANGED <<open, usdSpent, tripKind, reserveWaiters, charged, seed>>
  BY DEF Money, Inv, ReleaseSlot
<1>2. CASE slotWaiters = <<>>
  <2>1. phase' = [phase EXCEPT ![j] = "finished"]
    BY <1>2 DEF ReleaseSlot
  <2>2. \A k \in Jobs : phase'[k] = phase[k] \/ (k = j /\ phase'[k] = "finished")
    BY <1>1, <2>1
  <2>3. phase' \in [Jobs -> Phases]
    BY <1>1, <2>1 DEF Phases
  <2> QED
    BY <1>1, <2>2, <2>3, QuietMoney DEF OpenPhases, Final
<1>3. CASE slotWaiters # <<>>
  <2> DEFINE h == Head(slotWaiters)
  <2>1. phase' = [phase EXCEPT ![j] = "finished", ![h] = "slotted"]
    BY <1>3 DEF ReleaseSlot
  <2>2. slotWaiters \in Seq(Jobs) /\ 1 \in 1 .. Len(slotWaiters) /\ h = slotWaiters[1]
    BY <1>3 DEF Money, Inv, Queued
  <2>3. h \in Jobs /\ phase[h] = "slotWait"
    BY <2>2 DEF Money, Inv, Queued
  <2> HIDE DEF h
  <2>4. \A k \in Jobs :
          \/ phase'[k] = phase[k]
          \/ k = j /\ phase'[k] = "finished"
          \/ k = h /\ phase'[k] = "slotted"
    <3>1. ASSUME NEW k \in Jobs, k # j, k # h PROVE phase'[k] = phase[k]
      BY <1>1, <2>1, <2>3, <3>1
    <3>2. h # j /\ phase'[h] = "slotted" /\ phase'[j] = "finished"
      BY <1>1, <2>1, <2>3
    <3> QED
      BY <3>1, <3>2
  <2>5. phase' \in [Jobs -> Phases]
    BY <1>1, <2>1 DEF Phases
  <2> QED
    BY <1>1, <2>3, <2>4, <2>5, QuietMoney DEF OpenPhases, Final
<1> QED
  BY <1>2, <1>3

LEMMA OpenDurableMoney ==
  ASSUME Money, NEW j \in Jobs, OpenDurable(j)
  PROVE  Gate' /\ Ledger' /\ Final
<1>1. /\ phase \in [Jobs -> Phases] /\ phase[j] = "reserved"
      /\ phase' = [phase EXCEPT ![j] = "opened"]
      /\ UNCHANGED <<open, usdSpent, tripKind, reserveWaiters, charged, seed>>
  BY DEF Money, Inv, OpenDurable, NoTrip
<1>2. \A k \in Jobs : phase'[k] = phase[k] \/ (k = j /\ phase'[k] = "opened")
  BY <1>1
<1>3. phase' \in [Jobs -> Phases]
  BY <1>1 DEF Phases
<1> QED
  BY <1>1, <1>2, <1>3, QuietMoney DEF OpenPhases, Final

LEMMA EnterBodyMoney ==
  ASSUME Money, NEW j \in Jobs, EnterBody(j)
  PROVE  Gate' /\ Ledger' /\ Final
<1>1. /\ phase \in [Jobs -> Phases] /\ phase[j] = "opened" /\ ~Tripped
      /\ phase' = [phase EXCEPT ![j] = "running"]
      /\ UNCHANGED <<open, usdSpent, tripKind, reserveWaiters, charged, seed>>
  BY DEF Money, Inv, EnterBody, NoTrip
<1>2. \A k \in Jobs : phase'[k] = phase[k] \/ (k = j /\ phase'[k] = "running")
  BY <1>1
<1>3. phase' \in [Jobs -> Phases]
  BY <1>1 DEF Phases
<1> QED
  BY <1>1, <1>2, <1>3, QuietMoney DEF OpenPhases, Final, Tripped

(* trip and the drain of the gate, from the state a step leaves: nothing   *)
(* but waiters moves, and none of them is in its body or settled.          *)
LEMMA GateStep ==
  ASSUME Money, NEW o, NEW spent, NEW ph, Shape(o, spent, ph), SameGate(ph),
         \A j \in Jobs : ph[j] = "parked" => phase[j] = "parked",
         usdSpent' = spent,
         \/ \E kind \in TripKinds : TripWith(kind, ph) /\ open' = o
         \/ (~Tripped => Fits(o, spent)) /\ Drain(o, spent, ph)
  PROVE  /\ Gate' /\ Moved(ph) /\ FoldedUsd(open)' = FoldedUsd(o)
         /\ (Tripped => tripKind' = tripKind) /\ (Tripped' => open' = o)
<1>1. Queued(reserveWaiters, ph, "parked")
  BY DEF Money, Inv, Queued, SameGate
<1>2. TripType
  BY DEF Money, Gate
<1>3. CASE \E kind \in TripKinds : TripWith(kind, ph) /\ open' = o
  BY <1>1, <1>2, <1>3, TripGate
<1>4. CASE (~Tripped => Fits(o, spent)) /\ Drain(o, spent, ph)
  BY <1>1, <1>2, <1>4, DrainGate
<1> QED
  BY <1>3, <1>4

LEMMA TripSignalMoney ==
  ASSUME Money, TripSignal
  PROVE  Gate' /\ Ledger' /\ Final
<1>1. /\ TripWith("signal", phase) /\ ~Tripped
      /\ UNCHANGED <<open, usdSpent, charged, seed>>
  BY DEF TripSignal
<1>2. Shape(open, usdSpent, phase) /\ SameGate(phase) /\ "signal" \in TripKinds
  BY DEF Money, Inv, Gate, SameGate, SameSlots, TripKinds
<1>3. Gate' /\ Moved(phase)
  BY <1>1, <1>2, GateStep
<1>4. usdSpent' - FoldedUsd(open)' = usdSpent - FoldedUsd(open)
  BY <1>1
<1>5. Ledger'
  BY <1>1, <1>3, <1>4, LedgerQuiet DEF Money, Moved
<1> QED
  BY <1>1, <1>3, <1>5 DEF Final, Moved

(* reserve: a grant fits, a park has something to wait for.                *)
LEMMA ReserveMoney ==
  ASSUME Money, NEW j \in Jobs, Reserve(j)
  PROVE  Gate' /\ Ledger' /\ Final
<1>1. /\ phase \in [Jobs -> Phases] /\ phase[j] = "slotted"
      /\ UNCHANGED <<usdSpent, charged, seed>>
  BY DEF Money, Inv, Reserve
<1>2. Shape(open, usdSpent, phase) /\ open[j] = NoReservation /\ open \in OpenType
  BY <1>1 DEF Money, Gate, Shape, OpenPhases
<1>3. CASE Tripped /\ NoTrip([phase EXCEPT ![j] = "refused"]) /\ UNCHANGED open
  <2>1. \A k \in Jobs : phase'[k] = phase[k] \/ (k = j /\ phase'[k] = "refused")
    BY <1>1, <1>3 DEF NoTrip
  <2>2. phase' \in [Jobs -> Phases] /\ UNCHANGED <<tripKind, reserveWaiters>>
    BY <1>1, <1>3 DEF Phases, NoTrip
  <2> QED
    BY <1>1, <1>3, <2>1, <2>2, QuietMoney DEF OpenPhases, Final
<1>4. CASE /\ ~Tripped /\ reserveWaiters = <<>> /\ Grantable(open, usdSpent)
           /\ open' = Granted(open, usdSpent, j)
           /\ NoTrip([phase EXCEPT ![j] = "reserved"])
  <2> DEFINE cap == Capacity(open, usdSpent)
             g == GrantUsd(open, usdSpent)
             r == [usd |-> g, foldedUsd |-> 0]
  <2>1. /\ cap \in Int /\ usdSpent \in Nat /\ Cap \in Nat /\ FairShare \in Nat \ {0}
        /\ HeldBeyondFoldsUsd(open) \in Nat
        /\ cap = Cap - usdSpent - HeldBeyondFoldsUsd(open)
    BY <1>2, SumTypes, GovernorAssumption DEF Shape, Capacity
  <2>2. g \in Nat \ {0} /\ g <= cap
    BY <1>4, <2>1 DEF Grantable, GrantUsd
  <2>3. open' = [open EXCEPT ![j] = r]
    BY <1>4 DEF Granted
  <2> HIDE DEF g
  <2>4. open' \in OpenType
    BY <1>2, <2>2, <2>3 DEF OpenType, Reservation
  <2>5. open'[j] = r /\ \A k \in Jobs \ {j} : open'[k] = open[k]
    BY <1>2, <2>3 DEF OpenType
  <2>6. FoldedUsd(open') = FoldedUsd(open) /\ ReservedUsd(open') = ReservedUsd(open) + g
    <3>1. PICK o2 : o2 = open'
      OBVIOUS
    <3>2. PICK o1 : o1 = open
      OBVIOUS
    <3>0. PICK g1 : g1 = g
      OBVIOUS
    <3>3. /\ o2 \in OpenType /\ o1 \in OpenType /\ g1 \in Nat \ {0}
          /\ \A k \in {j} : o1[k] = NoReservation
          /\ \A k \in {j} : o2[k] = [usd |-> g1, foldedUsd |-> 0]
          /\ \A k \in Jobs \ {j} : o2[k] = o1[k]
          /\ {j} \in SUBSET Jobs
      BY <1>2, <2>2, <2>4, <2>5, <3>0, <3>1, <3>2
    <3>4. /\ FoldedUsd(o2) = FoldedUsd(o1)
          /\ ReservedUsd(o2) = ReservedUsd(o1) + Cardinality({j}) * g1
      BY <3>3, Grant
    <3>5. Cardinality({j}) = 1
      BY FS_Singleton
    <3>6. ReservedUsd(o2) = ReservedUsd(o1) + g
      BY <2>2, <3>0, <3>4, <3>5
    <3> QED
      BY <3>1, <3>2, <3>4, <3>6
  <2>7. /\ ReservedUsd(open) \in Nat /\ FoldedUsd(open) \in Nat
        /\ ReservedUsd(open) <= HeldBeyondFoldsUsd(open) + FoldedUsd(open)
    BY <1>2, SumTypes, HeldCovers
  <2>8. Fits(open, usdSpent)'
    BY <1>1, <2>1, <2>2, <2>6, <2>7 DEF Fits
  <2>9. phase' = [phase EXCEPT ![j] = "reserved"] /\ UNCHANGED <<tripKind, reserveWaiters>>
    BY <1>4 DEF NoTrip
  <2>10. phase' \in [Jobs -> Phases]
    BY <1>1, <2>9 DEF Phases
  <2>11. \A k \in Jobs : open'[k] # NoReservation <=> phase'[k] \in OpenPhases
    BY <1>1, <1>2, <2>2, <2>5, <2>9, ReservationIsOne DEF Shape, OpenPhases
  <2>12. \A k \in Jobs : phase'[k] \in {"reserved", "opened"} => open'[k].foldedUsd = 0
    BY <1>1, <1>2, <2>5, <2>9 DEF Shape
  <2>13. Shape(open, usdSpent, phase)'
    BY <1>1, <1>2, <2>4, <2>10, <2>11, <2>12 DEF Shape
  <2>14. Gate'
    BY <1>4, <2>8, <2>9, <2>13 DEF Gate, NoLostWakeup, Money, TripType
  <2>15. usdSpent' - FoldedUsd(open)' = usdSpent - FoldedUsd(open)
    BY <1>1, <2>6
  <2>16. \A k \in Jobs : phase'[k] \notin {"settled", "finished"} =>
                         phase[k] \notin {"settled", "finished"}
    BY <1>1, <2>9
  <2>17. Ledger'
    BY <1>1, <2>14, <2>15, <2>16, LedgerQuiet DEF Money
  <2> QED
    BY <1>4, <2>9, <2>14, <2>17 DEF Final, Tripped
<1>5. CASE /\ ~Tripped /\ UNCHANGED open
           /\ TripWith("exhausted", [phase EXCEPT ![j] = "refused"])
  <2> DEFINE ph == [phase EXCEPT ![j] = "refused"]
  <2>1. \A k \in Jobs : ph[k] = phase[k] \/ (k = j /\ ph[k] = "refused")
    BY <1>1
  <2>2. ph \in [Jobs -> Phases]
    BY <1>1 DEF Phases
  <2>3. TripWith("exhausted", ph) /\ open' = open /\ usdSpent' = usdSpent
    BY <1>1, <1>5
  <2> HIDE DEF ph
  <2>4. Shape(open, usdSpent, ph)
    BY <1>1, <1>2, <2>1, <2>2 DEF Shape, OpenPhases
  <2>5. SameGate(ph)
    BY <1>1, <2>1, <2>2 DEF SameGate, SameSlots, Holding
  <2>6. (\A k \in Jobs : ph[k] = "parked" => phase[k] = "parked") /\ "exhausted" \in TripKinds
    BY <2>1 DEF TripKinds
  <2>7. Gate' /\ Moved(ph) /\ FoldedUsd(open)' = FoldedUsd(open)
    BY <2>3, <2>4, <2>5, <2>6, GateStep
  <2>8. usdSpent' - FoldedUsd(open)' = usdSpent - FoldedUsd(open)
    BY <2>3
  <2>9. \A k \in Jobs : phase'[k] \notin {"settled", "finished"} =>
                        phase[k] \notin {"settled", "finished"}
    BY <1>1, <2>1, <2>7 DEF Moved
  <2>10. Ledger'
    BY <1>1, <2>7, <2>8, <2>9, LedgerQuiet DEF Money
  <2> QED
    BY <1>5, <2>1, <2>7, <2>10 DEF Final, Moved
<1>6. CASE /\ ~Tripped
           /\ reserveWaiters # <<>> \/ (~Grantable(open, usdSpent) /\ Open(open) # {})
           /\ reserveWaiters' = Append(reserveWaiters, j)
           /\ phase' = [phase EXCEPT ![j] = "parked"]
           /\ UNCHANGED <<open, tripKind>>
  <2>1. \A k \in Jobs : phase'[k] = phase[k] \/ (k = j /\ phase'[k] = "parked")
    BY <1>1, <1>6
  <2>2. phase' \in [Jobs -> Phases]
    BY <1>1, <1>6 DEF Phases
  <2>3. Shape(open, usdSpent, phase)'
    BY <1>1, <1>2, <1>6, <2>1, <2>2 DEF Shape, OpenPhases
  <2>4. ~Grantable(open, usdSpent) /\ Open(open) # {}
    BY <1>6 DEF Money, Gate, NoLostWakeup
  <2>5. NoLostWakeup'
    BY <1>1, <1>6, <2>4 DEF NoLostWakeup, Tripped
  <2>6. TripType' /\ (~Tripped' => Fits(open, usdSpent)')
    BY <1>1, <1>6 DEF Money, Gate, TripType, Tripped, Fits
  <2>7. Gate'
    BY <2>3, <2>5, <2>6 DEF Gate
  <2>8. usdSpent' - FoldedUsd(open)' = usdSpent - FoldedUsd(open)
    BY <1>1, <1>6
  <2>9. \A k \in Jobs : phase'[k] \notin {"settled", "finished"} =>
                        phase[k] \notin {"settled", "finished"}
    BY <1>1, <2>1
  <2>10. Ledger'
    BY <1>1, <2>7, <2>8, <2>9, LedgerQuiet DEF Money
  <2> QED
    BY <1>6, <2>1, <2>7, <2>10 DEF Final
<1> QED
  BY <1>3, <1>4, <1>5, <1>6 DEF Reserve

(* abandonReservation: nothing was folded, so nothing is charged.          *)
LEMMA AbandonMoney ==
  ASSUME Money, NEW j \in Jobs, AbandonReservation(j)
  PROVE  Gate' /\ Ledger' /\ Final
<1> DEFINE o == [open EXCEPT ![j] = NoReservation]
           ph == [phase EXCEPT ![j] = "refused"]
<1>1. /\ phase \in [Jobs -> Phases] /\ phase[j] \in {"reserved", "opened"}
      /\ UNCHANGED <<usdSpent, charged, seed>> /\ Drain(o, usdSpent, ph)
  BY DEF Money, Inv, AbandonReservation
<1>2. Shape(open, usdSpent, phase) /\ open \in OpenType /\ j \in Open(open)
      /\ open[j].foldedUsd = 0
  BY <1>1 DEF Money, Gate, Shape, OpenPhases, Open
<1>3. /\ o \in OpenType
      /\ FoldedUsd(open) = open[j].foldedUsd + FoldedUsd(o)
      /\ ReservedUsd(open) = open[j].usd + ReservedUsd(o)
  BY <1>2, Close
<1>4. /\ FoldedUsd(o) \in Nat /\ ReservedUsd(o) \in Nat /\ open[j].usd \in Nat
      /\ usdSpent \in Nat /\ Cap \in Nat
  BY <1>2, <1>3, SumTypes, ReservationFields, GovernorAssumption DEF Shape
<1>5. FoldedUsd(o) = FoldedUsd(open)
  BY <1>2, <1>3, <1>4
<1>6. ~Tripped => Fits(o, usdSpent)
  BY <1>3, <1>4, <1>5 DEF Money, Gate, Fits
<1>7. \A k \in Jobs : ph[k] = phase[k] \/ (k = j /\ ph[k] = "refused")
  BY <1>1
<1>8. ph \in [Jobs -> Phases]
  BY <1>1 DEF Phases
<1>9. o[j] = NoReservation /\ ph[j] = "refused" /\ \A k \in Jobs \ {j} : o[k] = open[k]
  BY <1>1, <1>2 DEF OpenType
<1> HIDE DEF o, ph
<1>10. Shape(o, usdSpent, ph)
  BY <1>2, <1>3, <1>7, <1>8, <1>9 DEF Shape, OpenPhases
<1>11. SameGate(ph) /\ \A k \in Jobs : ph[k] = "parked" => phase[k] = "parked"
  BY <1>1, <1>7, <1>8 DEF SameGate, SameSlots, Holding
<1>12. /\ Gate' /\ Moved(ph) /\ FoldedUsd(open)' = FoldedUsd(o)
       /\ (Tripped => tripKind' = tripKind) /\ (Tripped' => open' = o)
  BY <1>1, <1>6, <1>10, <1>11, GateStep
<1>13. usdSpent' - FoldedUsd(open)' = usdSpent - FoldedUsd(open)
  BY <1>1, <1>5, <1>12
<1>14. \A k \in Jobs : phase'[k] \notin {"settled", "finished"} =>
                       phase[k] \notin {"settled", "finished"}
  BY <1>1, <1>7, <1>12 DEF Moved
<1>15. Ledger'
  BY <1>1, <1>12, <1>13, <1>14, LedgerQuiet DEF Money
<1>16. Final
  BY <1>7, <1>9, <1>12 DEF Final, Moved
<1> QED
  BY <1>12, <1>15, <1>16

(* observeResult: what is folded leaves the reservation for the ledger.    *)
LEMMA ObserveMoney ==
  ASSUME Money, NEW j \in Jobs, NEW usage \in {0, 1}, NEW cost \in Costs \union {NoCost},
         Observe(j, usage, cost)
  PROVE  Gate' /\ Ledger' /\ Final
<1>1. /\ phase \in [Jobs -> Phases] /\ phase[j] = "running"
      /\ UNCHANGED <<charged, seed>>
  BY DEF Money, Inv, Observe
<1>2. Shape(open, usdSpent, phase) /\ open \in OpenType /\ j \in Open(open)
  BY <1>1 DEF Money, Gate, Shape, OpenPhases, Open
<1>3. /\ FoldedUsd(open) \in Nat /\ ReservedUsd(open) \in Nat /\ usdSpent \in Nat
      /\ HeldBeyondFoldsUsd(open) \in Nat /\ Cap \in Nat /\ FairShare \in Nat
  BY <1>2, SumTypes, GovernorAssumption DEF Shape
<1>4. SameGate(phase)
  BY <1>1 DEF SameGate, SameSlots
<1>5. PICK c \in Nat :
        /\ usdSpent' = usdSpent + c
        /\ open' \in OpenType /\ Open(open') = Open(open)
        /\ FoldedUsd(open') = FoldedUsd(open) + c
        /\ ReservedUsd(open') = ReservedUsd(open)
        /\ HeldBeyondFoldsUsd(open) <= HeldBeyondFoldsUsd(open') + c
        /\ HeldBeyondFoldsUsd(open') \in Nat
        /\ \A k \in Jobs \ {j} : open'[k] = open[k]
  <2>1. CASE cost = NoCost
    <3>1. UNCHANGED <<usdSpent, open>>
      BY <2>1 DEF Observe
    <3> QED
      BY <1>2, <1>3, <3>1
  <2>2. CASE cost # NoCost
    <3>1. cost \in Nat
      BY <2>2, GovernorAssumption
    <3>2. usdSpent' = usdSpent + cost /\ open' = [open EXCEPT ![j].foldedUsd = @ + cost]
      BY <2>2 DEF Observe
    <3>3. PICK o1 : o1 = open
      OBVIOUS
    <3>4. PICK o2 : o2 = open'
      OBVIOUS
    <3>5. o1 \in OpenType /\ j \in Open(o1) /\ o2 = [o1 EXCEPT ![j].foldedUsd = @ + cost]
      BY <1>2, <3>2, <3>3, <3>4
    <3>9. /\ o1[j] \in Reservation /\ o1[j].usd \in Nat \ {0} /\ o1[j].foldedUsd \in Nat
          /\ j \in Jobs
      BY <3>5, ReservationFields, OpenFinite
    <3>10. /\ o2[j] = [usd |-> o1[j].usd, foldedUsd |-> o1[j].foldedUsd + cost]
           /\ \A k \in Jobs \ {j} : o2[k] = o1[k]
      BY <3>5, <3>9 DEF OpenType, Reservation
    <3>11. o2 \in OpenType
      BY <3>1, <3>5, <3>9, <3>10 DEF OpenType, Reservation
    <3>6. /\ o2 \in OpenType
          /\ Open(o2) = Open(o1)
          /\ FoldedUsd(o2) = FoldedUsd(o1) + cost
          /\ ReservedUsd(o2) = ReservedUsd(o1)
          /\ HeldBeyondFoldsUsd(o1) <= HeldBeyondFoldsUsd(o2) + cost
      <4>1. o1 \in OpenType /\ j \in Open(o1)
        BY <3>5
      <4> QED
        BY <3>1, <3>10, <3>11, <4>1, Fold
    <3>7. HeldBeyondFoldsUsd(o2) \in Nat
      BY <3>6, SumTypes
    <3>8. \A k \in Jobs \ {j} : o2[k] = o1[k]
      BY <3>5 DEF OpenType
    <3> QED
      BY <3>1, <3>2, <3>3, <3>4, <3>6, <3>7, <3>8
  <2> QED
    BY <2>1, <2>2
<1>6. usdSpent' \in Nat
  BY <1>3, <1>5
<1>7. open'[j] # NoReservation
  BY <1>2, <1>5 DEF Open
<1>8. Shape(open', usdSpent', phase)
  BY <1>1, <1>2, <1>5, <1>6, <1>7 DEF Shape, OpenPhases
<1>9. Gate' /\ Moved(phase) /\ (Tripped => tripKind' = tripKind)
  <2>1. CASE NoTrip(phase)
    <3>1. UNCHANGED <<tripKind, reserveWaiters, phase>>
      BY <2>1 DEF NoTrip
    <3>2. ~Tripped => Fits(open', usdSpent')
      BY <1>3, <1>5 DEF Money, Gate, Fits
    <3>3. Capacity(open', usdSpent') <= Capacity(open, usdSpent)
      BY <1>3, <1>5 DEF Capacity
    <3>4. ~Grantable(open, usdSpent) => ~Grantable(open', usdSpent')
      <4>1. Capacity(open', usdSpent') \in Int /\ Capacity(open, usdSpent) \in Int
        BY <1>3, <1>5, <1>6 DEF Capacity
      <4> QED
        BY <1>3, <1>5, <3>3, <4>1 DEF Grantable
    <3>5. NoLostWakeup'
      BY <1>5, <3>1, <3>4 DEF Money, Gate, NoLostWakeup, Tripped
    <3>6. TripType' /\ (~Tripped' => Fits(open, usdSpent)')
      BY <3>1, <3>2 DEF Money, Gate, TripType, Tripped
    <3> QED
      BY <1>8, <3>1, <3>5, <3>6 DEF Gate, Moved
  <2>2. CASE TripOf(usage, cost) # "none" /\ TripWith(TripOf(usage, cost), phase)
    <3>1. TripOf(usage, cost) \in TripKinds
      BY <2>2 DEF TripOf, TripKinds
    <3>2. PICK o2 : o2 = open'
      OBVIOUS
    <3>3. PICK s2 : s2 = usdSpent'
      OBVIOUS
    <3>4. Shape(o2, s2, phase)
      BY <1>8, <3>2, <3>3
    <3>5. /\ Gate' /\ Moved(phase)
          /\ Tripped => tripKind' = tripKind
      BY <1>4, <2>2, <3>1, <3>2, <3>3, <3>4, GateStep
    <3> QED
      BY <3>5
  <2>3. NoTrip(phase) \/ (TripOf(usage, cost) # "none" /\ TripWith(TripOf(usage, cost), phase))
    BY DEF Observe
  <2> QED
    BY <2>1, <2>2, <2>3
<1>10. usdSpent' - FoldedUsd(open)' = usdSpent - FoldedUsd(open)
  BY <1>3, <1>5
<1>11. \A k \in Jobs : phase'[k] \notin {"settled", "finished"} =>
                       phase[k] \notin {"settled", "finished"}
  BY <1>9 DEF Moved
<1>12. Ledger'
  BY <1>1, <1>9, <1>10, <1>11, LedgerQuiet DEF Money
<1>13. Final
  BY <1>2, <1>5, <1>9 DEF Final, Moved, Open
<1> QED
  BY <1>9, <1>12, <1>13

(* settle: the charge is never more than the ledger still held for it      *)
(* without a breach, and what it adds is not in the folds already.         *)
LEMMA SettleMoney ==
  ASSUME Money, NEW j \in Jobs, NEW basis \in {"observed", "full"}, Settle(j, basis)
  PROVE  Gate' /\ Ledger' /\ Final
<1> DEFINE r     == open[j]
           c     == Charge(r, basis)
           spent == usdSpent + Remainder(c, r.foldedUsd)
           o     == [open EXCEPT ![j] = NoReservation]
           ph    == [phase EXCEPT ![j] = "settled"]
<1>1. /\ phase \in [Jobs -> Phases] /\ phase[j] \in {"running", "opened"}
      /\ charged' = [charged EXCEPT ![j] = c] /\ seed' = seed
      /\ usdSpent' = spent
  BY DEF Money, Inv, Settle
<1>2. \/ c > r.usd /\ TripWith("breach", ph) /\ open' = o
      \/ ~(c > r.usd) /\ spent > Cap /\ TripWith("exhausted", ph) /\ open' = o
      \/ ~(c > r.usd) /\ ~(spent > Cap) /\ Drain(o, spent, ph)
  BY DEF Settle, SettleGate
<1>3. /\ Shape(open, usdSpent, phase) /\ open \in OpenType /\ j \in Open(open)
      /\ charged[j] = 0 /\ charged \in [Jobs -> Nat] /\ seed \in Nat
  BY <1>1 DEF Money, Gate, Ledger, Shape, OpenPhases, Open
<1>4. r.usd \in Nat \ {0} /\ r.foldedUsd \in Nat
  BY <1>3, ReservationFields
<1>5. c \in Nat /\ spent = usdSpent + (c - r.foldedUsd) /\ r.foldedUsd <= c
  BY <1>4 DEF Charge, Remainder
<1>6. /\ o \in OpenType
      /\ FoldedUsd(open) = r.foldedUsd + FoldedUsd(o)
      /\ ReservedUsd(open) = r.usd + ReservedUsd(o)
  BY <1>3, Close
<1>7. /\ FoldedUsd(o) \in Nat /\ ReservedUsd(o) \in Nat
      /\ usdSpent \in Nat /\ Cap \in Nat
  BY <1>3, <1>6, SumTypes, GovernorAssumption DEF Shape
<1>8. \A k \in Jobs : ph[k] = phase[k] \/ (k = j /\ ph[k] = "settled")
  BY <1>1
<1>9. ph \in [Jobs -> Phases]
  BY <1>1 DEF Phases
<1>10. o[j] = NoReservation /\ ph[j] = "settled" /\ \A k \in Jobs \ {j} : o[k] = open[k]
  BY <1>1, <1>3 DEF OpenType
<1> HIDE DEF r, c, spent, o, ph
<1>11. spent \in Nat
  BY <1>4, <1>5, <1>7
<1>12. Shape(o, spent, ph)
  BY <1>3, <1>6, <1>8, <1>9, <1>10, <1>11 DEF Shape, OpenPhases
<1>13. SameGate(ph) /\ \A k \in Jobs : ph[k] = "parked" => phase[k] = "parked"
  BY <1>1, <1>8, <1>9 DEF SameGate, SameSlots, Holding
<1>14. ~(c > r.usd) => (~Tripped => Fits(o, spent))
  BY <1>4, <1>5, <1>6, <1>7 DEF Money, Gate, Fits
<1>15. "breach" \in TripKinds /\ "exhausted" \in TripKinds
  BY DEF TripKinds
<1>16. /\ Gate' /\ Moved(ph) /\ FoldedUsd(open)' = FoldedUsd(o)
       /\ (Tripped => tripKind' = tripKind) /\ (Tripped' => open' = o)
  BY <1>1, <1>2, <1>12, <1>13, <1>14, <1>15, GateStep
<1>17. charged' \in [Jobs -> Nat] /\ SumOf(charged, Jobs)' = SumOf(charged, Jobs) + c
  <2>1. PICK f : f = charged
    OBVIOUS
  <2>2. PICK c1 : c1 = c
    OBVIOUS
  <2>3. PICK f2 : f2 = charged'
    OBVIOUS
  <2>4. f \in [Jobs -> Nat] /\ f[j] = 0 /\ c1 \in Nat /\ f2 = [f EXCEPT ![j] = c1]
    BY <1>1, <1>3, <1>5, <2>1, <2>2, <2>3
  <2>5. f2 \in [Jobs -> Nat] /\ SumOf(f2, Jobs) = SumOf(f, Jobs) + c1
    BY <2>4, ChargeOnce
  <2> QED
    BY <2>1, <2>2, <2>3, <2>5
<1>18. SumOf(charged, Jobs) \in Nat
  BY <1>3, SumNat, GovernorAssumption
<1>19. LedgerExact'
  <2>1. usdSpent = seed + SumOf(charged, Jobs) + FoldedUsd(open)
    BY DEF Money, Ledger, LedgerExact
  <2>2. spent = seed + (SumOf(charged, Jobs) + c) + FoldedUsd(o)
    BY <1>3, <1>4, <1>5, <1>6, <1>7, <1>18, <2>1
  <2> QED
    BY <1>1, <1>16, <1>17, <2>2 DEF LedgerExact
<1>20. \A k \in Jobs : phase'[k] \notin {"settled", "finished"} => charged'[k] = 0
  <2>1. ASSUME NEW k \in Jobs, k # j, phase'[k] \notin {"settled", "finished"}
        PROVE  charged'[k] = 0
    <3>1. phase[k] \notin {"settled", "finished"}
      BY <1>8, <1>16, <2>1 DEF Moved
    <3> QED
      BY <1>1, <1>3, <2>1, <3>1 DEF Money, Ledger
  <2>2. phase'[j] = "settled"
    BY <1>10, <1>16 DEF Moved
  <2> QED
    BY <2>1, <2>2
<1>21. Ledger'
  BY <1>1, <1>3, <1>17, <1>19, <1>20 DEF Ledger
<1>22. Final
  BY <1>8, <1>10, <1>16 DEF Final, Moved
<1> QED
  BY <1>16, <1>21, <1>22
-----------------------------------------------------------------------------
LEMMA CountersStep ==
  ASSUME Counters, Next
  PROVE  Counters'
<1>1. ASSUME NEW j \in Jobs, Admit(j) PROVE Counters'
  BY <1>1 DEF Counters, Admit
<1>2. ASSUME NEW j \in Jobs, Step(j) PROVE Counters'
  BY <1>2 DEF Counters, Step, AcquireSlot, ReleaseSlot, Reserve, OpenDurable, EnterBody, Settle
<1>3. ASSUME NEW j \in Jobs, AbandonReservation(j) PROVE Counters'
  BY <1>3 DEF Counters, AbandonReservation
<1>4. ASSUME NEW j \in Jobs, NEW usage \in {0, 1}, NEW cost, Observe(j, usage, cost)
      PROVE  Counters'
  <2>1. reports' = [reports EXCEPT ![j] = @ + 1] /\ reports[j] < MaxReports
        /\ tokens' = tokens + usage /\ UNCHANGED <<dispatchedCount, attempts>>
    BY <1>4 DEF Observe
  <2> QED
    BY <2>1, GovernorAssumption DEF Counters
<1>5. CASE TripSignal
  BY <1>5 DEF Counters, TripSignal
<1> QED
  BY <1>1, <1>2, <1>3, <1>4, <1>5 DEF Next

LEMMA StepMoney ==
  ASSUME Money, Next
  PROVE  Money' /\ Final
<1>1. Inv'
  BY Inductive DEF Money
<1>2. Counters'
  BY CountersStep DEF Money
<1>3. Gate' /\ Ledger' /\ Final
  <2>1. ASSUME NEW j \in Jobs, Step(j) PROVE Gate' /\ Ledger' /\ Final
    BY <2>1, AcquireMoney, ReleaseMoney, ReserveMoney, OpenDurableMoney, EnterBodyMoney,
       SettleMoney DEF Step
  <2> QED
    BY <2>1, AdmitMoney, AbandonMoney, ObserveMoney, TripSignalMoney DEF Next
<1> QED
  BY <1>1, <1>2, <1>3 DEF Money

(* A governor before its first dispatch, however its ledger was seeded.    *)
Fresh ==
  /\ attempts \in [Jobs -> Nat] /\ dispatchedCount = SumOf(attempts, Jobs)
  /\ seed \in Nat /\ usdSpent = seed /\ tokens = 0
  /\ tripKind = IF seed > Cap THEN "exhausted" ELSE "none"
  /\ active = 0 /\ slotWaiters = <<>> /\ reserveWaiters = <<>>
  /\ open = [j \in Jobs |-> NoReservation]
  /\ phase = [j \in Jobs |-> "idle"]
  /\ reports = [j \in Jobs |-> 0] /\ charged = [j \in Jobs |-> 0]

LEMMA FreshMoney == Fresh => Money
<1> SUFFICES ASSUME Fresh PROVE Money
  OBVIOUS
<1>1. /\ attempts \in [Jobs -> Nat] /\ dispatchedCount = SumOf(attempts, Jobs)
      /\ seed \in Nat /\ usdSpent = seed /\ tokens = 0 /\ Cap \in Nat
      /\ tripKind = IF seed > Cap THEN "exhausted" ELSE "none"
      /\ open = [j \in Jobs |-> NoReservation] /\ reserveWaiters = <<>>
      /\ phase = [j \in Jobs |-> "idle"] /\ charged = [j \in Jobs |-> 0]
      /\ reports = [j \in Jobs |-> 0] /\ MaxReports \in Nat
  BY GovernorAssumption DEF Fresh
<1>2. Open(open) = {} /\ IsFiniteSet(Jobs) /\ IsFiniteSet({})
  BY <1>1, GovernorAssumption, FS_EmptySet DEF Open
<1>3. FoldedUsd(open) = 0 /\ ReservedUsd(open) = 0
  <2>1. FoldedUsd(open) = SumOf([j \in {} |-> open[j].foldedUsd], {})
    BY <1>2 DEF FoldedUsd
  <2>2. ReservedUsd(open) = SumOf([j \in {} |-> open[j].usd], {})
    BY <1>2 DEF ReservedUsd
  <2> QED
    BY <2>1, <2>2, SumEmpty
<1>4. SumOf(charged, Jobs) = 0
  <2>1. \A j \in Jobs : charged[j] = 0
    BY <1>1
  <2>2. SumOf(charged, Jobs) = Cardinality(Jobs) * 0
    BY <1>2, <2>1, SumConstant
  <2>3. Cardinality(Jobs) \in Nat
    BY <1>2, FS_CardinalityType
  <2> QED
    BY <2>2, <2>3
<1>5. dispatchedCount \in Nat
  <2>1. \A j \in Jobs : attempts[j] \in Nat
    BY <1>1
  <2> QED
    BY <1>1, <1>2, <2>1, SumNat
<1>6. Inv
  BY FreshInv DEF Fresh
<1>7. Shape(open, usdSpent, phase)
  BY <1>1 DEF Shape, OpenType, Phases, OpenPhases
<1>8. TripType /\ (~Tripped => Fits(open, usdSpent)) /\ NoLostWakeup
  BY <1>1, <1>3 DEF TripType, TripKinds, Tripped, Fits, NoLostWakeup
<1>9. Ledger
  BY <1>1, <1>3, <1>4 DEF Ledger, LedgerExact
<1>10. Counters
  BY <1>1, <1>5 DEF Counters
<1> QED
  BY <1>6, <1>7, <1>8, <1>9, <1>10 DEF Money, Gate

LEMMA KeepsMoney == Money /\ [Next]_govVars => Money'
<1> SUFFICES ASSUME Money, [Next]_govVars PROVE Money'
  OBVIOUS
<1>1. CASE UNCHANGED govVars
  <2>1. Inv'
    BY <1>1, Inductive DEF Money
  <2>2. Gate' /\ Ledger'
    BY <1>1, QuietMoney DEF govVars, Money, Inv
  <2>3. Counters'
    BY <1>1 DEF govVars, Money, Counters
  <2> QED
    BY <2>1, <2>2, <2>3 DEF Money
<1> QED
  BY <1>1, StepMoney

(* The strengthened invariant of the governor: who holds a reservation,    *)
(* that nothing is folded before its body is entered, and that a job is    *)
(* charged once, with the ledger and the gate.                             *)
THEOREM MoneyInvariance == Spec => []Money
<1>1. Init => Money
  BY FreshMoney, GovernorAssumption DEF Init, Fresh
<1> QED
  BY <1>1, KeepsMoney, PTL DEF Spec

(* Every counter, queue, reservation and charge of the governor is what    *)
(* the code holds there.                                                   *)
THEOREM TypeCorrect == Spec => []TypeOK
<1>1. Money => TypeOK
  BY DEF Money, Inv, Gate, Shape, TripType, Ledger, Counters, Queued, OpenType, TypeOK
<1> QED
  BY <1>1, MoneyInvariance, PTL

(* reserve-then-settle: while nothing has tripped, what is definitely      *)
(* spent and every open reservation in full fit the cap, for any number of *)
(* jobs, any shares, costs and folds, and any order of grants and settles. *)
THEOREM WithinCap == Spec => []CommittedWithinCap
<1>1. Money => CommittedWithinCap
  BY DEF Money, Gate, Fits, CommittedWithinCap
<1> QED
  BY <1>1, MoneyInvariance, PTL

(* usdSpent is the seed, the settled charges and the folds of the open     *)
(* reservations: observe and settle book every amount exactly once.        *)
THEOREM ExactLedger == Spec => []LedgerExact
<1>1. Money => LedgerExact
  BY DEF Money, Ledger
<1> QED
  BY <1>1, MoneyInvariance, PTL

(* drainWaiters: whoever is parked on the gate is there behind an open     *)
(* reservation whose settling will look at the queue again.                *)
THEOREM Wakeup == Spec => []NoLostWakeup
<1>1. Money => NoLostWakeup
  BY DEF Money, Gate
<1> QED
  BY <1>1, MoneyInvariance, PTL

(* trip: the first kind stands, and no reservation is granted and no body  *)
(* entered in the step that trips or after it.                             *)
THEOREM FinalTrip == Spec => TripIsFinal
<1>1. Money /\ [Next]_govVars =>
        [/\ Tripped => tripKind' = tripKind
         /\ Tripped' =>
              \A j \in Jobs :
                /\ open[j] = NoReservation => open'[j] = NoReservation
                /\ phase'[j] = "running" => phase[j] = "running"]_govVars
  BY StepMoney DEF Final
<1> QED
  BY <1>1, MoneyInvariance, PTL DEF Spec, TripIsFinal
=============================================================================
