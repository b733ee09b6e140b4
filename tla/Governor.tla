------------------------------ MODULE Governor ------------------------------
(***************************************************************************)
(* The budget governor of one governed, capped run: class BudgetGovernor   *)
(* in src/src/kernel/governor.ts, driven by the calls governedRunOne in    *)
(* src/src/kernel/runner.ts makes for each job.                            *)
(*                                                                         *)
(* Amounts are whole units, so the 1e-9 tolerance of the money verdicts    *)
(* is an exact comparison.  Every reservation proposes the fair share      *)
(* cap / concurrency, the one proposal the runner makes.  Each method of   *)
(* the class runs without an await, so each is one action; what interleaves *)
(* are the jobs' dispatches, parked on the slot pool and on the gate.      *)
(***************************************************************************)
EXTENDS Integers, Sequences, FiniteSets, FiniteSetsExt

CONSTANTS
  Jobs,            \* the jobs of the wave
  Cap,             \* capUsd, the effective cap of the run
  FairShare,       \* Cap / concurrency
  TokenCap,        \* maxTokens
  InFlightCeiling, \* inFlightCeiling
  Quota,           \* runDispatchQuota
  MaxAttempts,     \* maxAttemptsPerJob
  Costs,           \* amounts one evidence report may carry
  MaxReports,      \* bound: evidence reports of one dispatch
  SeedAttempts,    \* bound: attempts of one job in earlier runs
  Seeds,           \* usdSpent the journal of earlier runs may seed
  NoReservation,   \* no open reservation
  NoCost           \* evidence without a price

ASSUME GovernorAssumption ==
  /\ IsFiniteSet(Jobs)
  /\ Cap \in Nat /\ FairShare \in Nat \ {0} /\ TokenCap \in Nat
  /\ InFlightCeiling \in Nat \ {0}
  /\ Quota \in Nat /\ MaxAttempts \in Nat \ {0}
  /\ Costs \subseteq Nat /\ Seeds \subseteq Nat
  /\ MaxReports \in Nat /\ SeedAttempts \in Nat
  /\ NoReservation \notin [usd : Nat, foldedUsd : Nat]
  /\ NoCost \notin Nat

VARIABLES
  dispatchedCount, \* admissions, this run's and the seeded ones
  attempts,        \* attemptsByJob
  active,          \* SlotPool.active
  slotWaiters,     \* SlotPool.waiters, FIFO
  open,            \* openByJob joined with outstanding: the job's reservation
  reserveWaiters,  \* the jobs parked on the reservation gate, FIFO
  usdSpent,        \* settled spend S, mid-flight folds included
  tokens,          \* the token rollup
  tripKind,        \* tripKindN, "none" while untripped
  phase,           \* where each job's governedRunOne is
  reports,         \* evidence reports of each job's dispatch
  charged,         \* the charge settle returned for each job
  seed             \* the spend seeded at the start of the run

govVars == <<dispatchedCount, attempts, active, slotWaiters, open,
             reserveWaiters, usdSpent, tokens, tripKind, phase, reports,
             charged, seed>>

TripKinds == {"exhausted", "breach", "token-cap", "signal"}
Tripped == tripKind # "none"

(* A job's dispatch, as governedRunOne moves through it.                   *)
Phases ==
  {"idle",       \* not submitted yet
   "admitted",   \* admitted, job-started emitted
   "slotWait",   \* parked in SlotPool.acquire
   "slotted",    \* holds an in-flight slot
   "parked",     \* parked in reserve
   "reserved",   \* reservation granted, reservation-opened not yet durable
   "opened",     \* reservation-opened durable, body not yet entered
   "running",    \* in the operation body
   "settled",    \* settle done, its event not yet durable
   "refused",    \* verdict without a dispatch, slot still held
   "finished"}

Holding == {"slotted", "parked", "reserved", "opened", "running", "settled", "refused"}

(* A reservation holds money: tryGrant grants only positive amounts.       *)
Reservation == [usd : Nat \ {0}, foldedUsd : Nat]
Open(o) == {j \in Jobs : o[j] # NoReservation}

(* The code's loops that add an amount per job.                            *)
SumOf(f, S) == MapThenSumSet(LAMBDA x : f[x], S)

(* heldBeyondFoldsUsd: what the open reservations hold and no fold has     *)
(* moved into usdSpent yet.                                                *)
BeyondFolds(r) == IF r.foldedUsd < r.usd THEN r.usd - r.foldedUsd ELSE 0

HeldBeyondFoldsUsd(o) == SumOf([j \in Open(o) |-> BeyondFolds(o[j])], Open(o))

(* Broken variants of a definition stand before it, named after it.  They  *)
(* are not part of the specification: each is a bug some property catches. *)
Capacity_NoHold(o, spent) == Cap - spent

Capacity(o, spent) == Cap - spent - HeldBeyondFoldsUsd(o)

TypeOK ==
  /\ dispatchedCount \in Nat
  /\ attempts \in [Jobs -> Nat]
  /\ active \in Nat
  /\ slotWaiters \in Seq(Jobs)
  /\ open \in [Jobs -> Reservation \union {NoReservation}]
  /\ reserveWaiters \in Seq(Jobs)
  /\ usdSpent \in Nat
  /\ tokens \in Nat
  /\ tripKind \in TripKinds \union {"none"}
  /\ phase \in [Jobs -> Phases]
  /\ reports \in [Jobs -> 0 .. MaxReports]
  /\ charged \in [Jobs -> Nat]
  /\ seed \in Nat

(* A governor seeded from the journal (seedFromJournal): every earlier     *)
(* attempt was an admission, and an overspent history is tripped.          *)
Init ==
  /\ attempts \in [Jobs -> 0 .. SeedAttempts]
  /\ dispatchedCount = SumOf(attempts, Jobs)
  /\ seed \in Seeds
  /\ usdSpent = seed
  /\ tripKind = IF seed > Cap THEN "exhausted" ELSE "none"
  /\ tokens = 0
  /\ active = 0
  /\ slotWaiters = <<>>
  /\ open = [j \in Jobs |-> NoReservation]
  /\ reserveWaiters = <<>>
  /\ phase = [j \in Jobs |-> "idle"]
  /\ reports = [j \in Jobs |-> 0]
  /\ charged = [j \in Jobs |-> 0]
-----------------------------------------------------------------------------
(* admit: the first ceiling that binds refuses.                            *)
Admissible(j) ==
  /\ ~Tripped
  /\ dispatchedCount < Quota
  /\ attempts[j] < MaxAttempts

Admit(j) ==
  /\ phase[j] = "idle"
  /\ IF Admissible(j)
       THEN /\ dispatchedCount' = dispatchedCount + 1
            /\ attempts' = [attempts EXCEPT ![j] = @ + 1]
            /\ phase' = [phase EXCEPT ![j] = "admitted"]
       ELSE /\ phase' = [phase EXCEPT ![j] = "finished"]
            /\ UNCHANGED <<dispatchedCount, attempts>>
  /\ UNCHANGED <<active, slotWaiters, open, reserveWaiters, usdSpent, tokens,
                 tripKind, reports, charged, seed>>

AcquireSlot(j) ==
  /\ phase[j] = "admitted"
  /\ IF active < InFlightCeiling
       THEN /\ active' = active + 1
            /\ phase' = [phase EXCEPT ![j] = "slotted"]
            /\ UNCHANGED slotWaiters
       ELSE /\ slotWaiters' = Append(slotWaiters, j)
            /\ phase' = [phase EXCEPT ![j] = "slotWait"]
            /\ UNCHANGED active
  /\ UNCHANGED <<dispatchedCount, attempts, open, reserveWaiters, usdSpent,
                 tokens, tripKind, reports, charged, seed>>

ReleaseSlot_NoHandoff(j) ==
  /\ phase[j] \in {"settled", "refused"}
  /\ active' = active - 1
  /\ phase' = [phase EXCEPT ![j] = "finished"]
  /\ UNCHANGED <<dispatchedCount, attempts, slotWaiters, open, reserveWaiters,
                 usdSpent, tokens, tripKind, reports, charged, seed>>

(* The slot goes 1:1 to the head waiter, or back to the pool.              *)
ReleaseSlot(j) ==
  /\ phase[j] \in {"settled", "refused"}
  /\ IF slotWaiters # <<>>
       THEN /\ slotWaiters' = Tail(slotWaiters)
            /\ phase' = [phase EXCEPT ![j] = "finished", ![Head(slotWaiters)] = "slotted"]
            /\ UNCHANGED active
       ELSE /\ active' = active - 1
            /\ phase' = [phase EXCEPT ![j] = "finished"]
            /\ UNCHANGED slotWaiters
  /\ UNCHANGED <<dispatchedCount, attempts, open, reserveWaiters, usdSpent,
                 tokens, tripKind, reports, charged, seed>>
-----------------------------------------------------------------------------
(* trip: the first kind stands, and draining a tripped gate refuses every  *)
(* waiter.  ph is the rest of the step's effect on the phases.             *)
WaitingIn(w) == {w[i] : i \in 1 .. Len(w)}

TripWith(kind, ph) ==
  /\ tripKind' = IF Tripped THEN tripKind ELSE kind
  /\ reserveWaiters' = <<>>
  /\ phase' = [j \in Jobs |-> IF j \in WaitingIn(reserveWaiters) THEN "refused" ELSE ph[j]]

NoTrip(ph) == UNCHANGED <<tripKind, reserveWaiters>> /\ phase' = ph

(* tryGrant on the gate state o, spent: a grant needs capacity, and with   *)
(* anything open it needs the whole proposal; with nothing open it shrinks. *)
Grantable(o, spent) ==
  LET capacity == Capacity(o, spent) IN
  /\ capacity > 0
  /\ Open(o) = {} \/ FairShare <= capacity

GrantUsd(o, spent) ==
  LET capacity == Capacity(o, spent) IN
  IF FairShare <= capacity THEN FairShare ELSE capacity

Granted(o, spent, j) ==
  [o EXCEPT ![j] = [usd |-> GrantUsd(o, spent), foldedUsd |-> 0]]

(* drainWaiters, untripped: n waiters are granted in turn from the head    *)
(* until one is not grantable.  A grant takes its share out of the         *)
(* capacity, and only the first can be shrunk, when nothing is open.       *)
CanGrant(n, o, spent) ==
  \/ n = 0
  \/ n * FairShare <= Capacity(o, spent)
  \/ n = 1 /\ Open(o) = {} /\ Capacity(o, spent) > 0

DrainsTo_Nobody(n, o, spent) == n = 0

DrainsTo(n, o, spent) ==
  /\ CanGrant(n, o, spent)
  /\ n = Len(reserveWaiters) \/ ~CanGrant(n + 1, o, spent)

(* Capacity is gone for good: somebody waits, and nothing is left to settle. *)
Exhausted(o, spent) ==
  reserveWaiters # <<>> /\ Open(o) = {} /\ Capacity(o, spent) <= 0

(* The first n waiters are granted and leave the queue.                    *)
Wakes(n, o, spent, ph) ==
  LET woken == WaitingIn(SubSeq(reserveWaiters, 1, n)) IN
  /\ open' = [j \in Jobs |->
               IF j \in woken THEN [usd |-> GrantUsd(o, spent), foldedUsd |-> 0]
                              ELSE o[j]]
  /\ reserveWaiters' = SubSeq(reserveWaiters, n + 1, Len(reserveWaiters))
  /\ phase' = [j \in Jobs |-> IF j \in woken THEN "reserved" ELSE ph[j]]

(* The gate after a settle or an abandon that leaves o, spent and ph.      *)
Drain(o, spent, ph) ==
  IF Tripped \/ Exhausted(o, spent)
    THEN TripWith("exhausted", ph) /\ open' = o
    ELSE /\ \E n \in 0 .. Len(reserveWaiters) :
              DrainsTo(n, o, spent) /\ Wakes(n, o, spent, ph)
         /\ UNCHANGED tripKind

(* A slot holder asks for its reservation; a tripped governor refuses it,  *)
(* as does the runner's own check just before.                             *)
Reserve(j) ==
  /\ phase[j] = "slotted"
  /\ \/ /\ Tripped
        /\ NoTrip([phase EXCEPT ![j] = "refused"])
        /\ UNCHANGED open
     \/ /\ ~Tripped /\ reserveWaiters = <<>> /\ Grantable(open, usdSpent)
        /\ open' = Granted(open, usdSpent, j)
        /\ NoTrip([phase EXCEPT ![j] = "reserved"])
     \/ /\ ~Tripped /\ reserveWaiters = <<>> /\ ~Grantable(open, usdSpent)
        /\ Open(open) = {}
        /\ TripWith("exhausted", [phase EXCEPT ![j] = "refused"])
        /\ UNCHANGED open
     \/ /\ ~Tripped
        /\ reserveWaiters # <<>> \/ (~Grantable(open, usdSpent) /\ Open(open) # {})
        /\ reserveWaiters' = Append(reserveWaiters, j)
        /\ phase' = [phase EXCEPT ![j] = "parked"]
        /\ UNCHANGED <<open, tripKind>>
  /\ UNCHANGED <<dispatchedCount, attempts, active, slotWaiters, usdSpent,
                 tokens, reports, charged, seed>>

(* The write-ahead reservation-opened event is durable and fenced.         *)
OpenDurable(j) ==
  /\ phase[j] = "reserved"
  /\ NoTrip([phase EXCEPT ![j] = "opened"])
  /\ UNCHANGED <<dispatchedCount, attempts, active, slotWaiters, open, usdSpent,
                 tokens, reports, charged, seed>>

(* abandonReservation: that write or the fence behind it failed.  No charge. *)
AbandonReservation(j) ==
  /\ phase[j] \in {"reserved", "opened"}
  /\ Drain([open EXCEPT ![j] = NoReservation], usdSpent, [phase EXCEPT ![j] = "refused"])
  /\ UNCHANGED <<dispatchedCount, attempts, active, slotWaiters, usdSpent,
                 tokens, reports, charged, seed>>

(* The invocation guard lets the body run only while nothing has tripped.  *)
EnterBody(j) ==
  /\ phase[j] = "opened" /\ ~Tripped
  /\ NoTrip([phase EXCEPT ![j] = "running"])
  /\ UNCHANGED <<dispatchedCount, attempts, active, slotWaiters, open, usdSpent,
                 tokens, reports, charged, seed>>
-----------------------------------------------------------------------------
(* observeResult with its two folds: usage into the token rollup, cost     *)
(* into usdSpent and into the open reservation.  Unpriced usage trips.     *)
TripOf(usage, cost) ==
  CASE tokens + usage > TokenCap /\ usage > 0 -> "token-cap"
    [] cost # NoCost /\ usdSpent + cost > Cap -> "exhausted"
    [] cost = NoCost /\ usage > 0 -> "exhausted"
    [] OTHER -> "none"

Observe(j, usage, cost) ==
  /\ phase[j] = "running"
  /\ reports[j] < MaxReports
  /\ reports' = [reports EXCEPT ![j] = @ + 1]
  /\ tokens' = tokens + usage
  /\ IF cost = NoCost
       THEN UNCHANGED <<usdSpent, open>>
       ELSE /\ usdSpent' = usdSpent + cost
            /\ open' = [open EXCEPT ![j].foldedUsd = @ + cost]
  /\ IF TripOf(usage, cost) = "none"
       THEN NoTrip(phase)
       ELSE TripWith(TripOf(usage, cost), phase)
  /\ UNCHANGED <<dispatchedCount, attempts, active, slotWaiters, charged, seed>>

(* settle: a definitive verdict charges what was folded; an unknown ending *)
(* (killed, indeterminate, threw) at least the whole reservation.          *)
Charge(r, basis) ==
  IF basis = "full" /\ r.foldedUsd < r.usd THEN r.usd ELSE r.foldedUsd

Remainder_Whole(c, folded) == c

(* What the charge adds to a ledger that already holds the folds. *)
Remainder(c, folded) == c - folded

SettleGate_DrainsFirst(o, spent, ph, breach) ==
  IF breach /\ ~Tripped
    THEN /\ \E n \in 0 .. Len(reserveWaiters) :
              DrainsTo(n, o, spent) /\ Wakes(n, o, spent, ph)
         /\ tripKind' = "breach"
    ELSE IF spent > Cap
           THEN TripWith("exhausted", ph) /\ open' = o
           ELSE Drain(o, spent, ph)

(* The trips of a settle come before the drain, which then only refuses.   *)
SettleGate(o, spent, ph, breach) ==
  IF breach \/ spent > Cap
    THEN TripWith(IF breach THEN "breach" ELSE "exhausted", ph) /\ open' = o
    ELSE Drain(o, spent, ph)

(* The dispatch ends in its body, or before: its preparation failed or was *)
(* refused, or the ladder killed it.                                       *)
Settle(j, basis) ==
  /\ phase[j] \in {"opened", "running"}
  /\ LET r     == open[j]
         c     == Charge(r, basis)
         spent == usdSpent + Remainder(c, r.foldedUsd)
         o     == [open EXCEPT ![j] = NoReservation]
         ph    == [phase EXCEPT ![j] = "settled"]
     IN /\ charged' = [charged EXCEPT ![j] = c]
        /\ usdSpent' = spent
        /\ SettleGate(o, spent, ph, c > r.usd)
  /\ UNCHANGED <<dispatchedCount, attempts, active, slotWaiters, tokens, reports, seed>>

(* tripSignal: the bound run signal aborts. *)
TripSignal ==
  /\ ~Tripped
  /\ TripWith("signal", phase)
  /\ UNCHANGED <<dispatchedCount, attempts, active, slotWaiters, open, usdSpent,
                 tokens, reports, charged, seed>>

Step(j) ==
  \/ AcquireSlot(j) \/ ReleaseSlot(j)
  \/ Reserve(j) \/ OpenDurable(j) \/ EnterBody(j)
  \/ \E basis \in {"observed", "full"} : Settle(j, basis)

Next ==
  \/ \E j \in Jobs :
       \/ Admit(j) \/ Step(j) \/ AbandonReservation(j)
       \/ \E usage \in {0, 1}, cost \in Costs \union {NoCost} : Observe(j, usage, cost)
  \/ TripSignal

Spec == Init /\ [][Next]_govVars
-----------------------------------------------------------------------------
(* The slot pool's count is exactly the dispatches that hold a slot, never *)
(* over the ceiling, and nobody waits while a slot is free: the 1:1 handoff *)
(* of SlotPool.release neither leaks nor invents a slot.                   *)
SlotsExact ==
  /\ active = Cardinality({j \in Jobs : phase[j] \in Holding})
  /\ active <= InFlightCeiling
  /\ slotWaiters # <<>> => active = InFlightCeiling

(* What the open reservations have folded, and what they hold.             *)
FoldedUsd(o) == SumOf([j \in Open(o) |-> o[j].foldedUsd], Open(o))
ReservedUsd(o) == SumOf([j \in Open(o) |-> o[j].usd], Open(o))

(* While untripped, spend already definite plus every open reservation in  *)
(* full fits the cap: what reserve-then-settle can promise whatever an     *)
(* operation reports in flight.                                            *)
CommittedWithinCap ==
  ~Tripped => (usdSpent - FoldedUsd(open)) + ReservedUsd(open) <= Cap

(* usdSpent is the seed plus every settled charge plus the folds of the    *)
(* open reservations: no report or settle is counted twice or dropped.     *)
LedgerExact == usdSpent = seed + SumOf(charged, Jobs) + FoldedUsd(open)

(* A parked dispatch always has somebody to wake it: the gate is untripped, *)
(* something open is still to settle, and the head really does not fit.    *)
NoLostWakeup ==
  reserveWaiters # <<>> =>
    /\ ~Tripped
    /\ Open(open) # {}
    /\ ~Grantable(open, usdSpent)

(* From the step that trips on nothing more is reserved and no body is     *)
(* entered, also not for a waiter that this very settle freed capacity     *)
(* for, and the first kind stands: what is in flight only drains.          *)
TripIsFinal ==
  [][/\ Tripped => tripKind' = tripKind
     /\ Tripped' =>
          \A j \in Jobs :
            /\ open[j] = NoReservation => open'[j] = NoReservation
            /\ phase'[j] = "running" => phase[j] = "running"]_govVars
=============================================================================
