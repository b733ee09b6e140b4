---------------------------- MODULE GovernedRun ----------------------------
(***************************************************************************)
(* Governed runs of one plan over one journal directory: runPlanUnderLease *)
(* of src/src/kernel/runner.ts with the governor of Governor.tla, the run  *)
(* log of src/src/kernel/journal.ts and the fold that resumes a budget     *)
(* (seedFromJournal).  Runs follow one another, as the plan lock imposes    *)
(* (PlanLock.tla); any of them can die at any step and lose what it had     *)
(* not made durable.                                                       *)
(*                                                                         *)
(* Evidence is priced and carries no token usage here, the cap is the same *)
(* in every run, and the lane admits every dispatch (attended).  Of the    *)
(* journal, only the events the fold reads are kept.                       *)
(***************************************************************************)
EXTENDS Governor, SequencesExt

CONSTANTS
  DependsOn,      \* the jobs each job depends on
  Concurrency,    \* opts.concurrency
  StopOnError,    \* opts.stopOnError
  MaxRuns,        \* bound: runs of the plan
  MaxFailures     \* bound: journal appends that fail

ASSUME RunAssumption ==
  /\ DependsOn \in [Jobs -> SUBSET Jobs]
  /\ Concurrency \in Nat \ {0}
  /\ StopOnError \in BOOLEAN
  /\ MaxRuns \in Nat /\ MaxFailures \in Nat

VARIABLES
  journal,        \* each job's events in all runs, in fold order
  unsynced,       \* whose events the current file ends with, not yet synced
  run,            \* the current or last run
  up,             \* a run is in progress
  resume,         \* opts.resume of that run
  stage,          \* the wave loop's promise for each job
  row,            \* the job's entry in the run's outcome table
  verdict,        \* how the dispatch ended: "none" so far, "ok", "notOk", or
                  \* "rejected" by an infrastructure failure
  stop,           \* stop.requested
  runFailed,      \* runFailure is set
  failures,       \* appends that failed so far
  spentEver,      \* history: everything operations reported, in all runs
  lost            \* history: reported beyond its reservation when a run died

runVars == <<journal, unsynced, run, up, resume, stage, row, verdict, stop,
             runFailed, failures, spentEver, lost>>
vars == <<govVars, runVars>>

Stages == {"none", "submitted", "dispatching", "returned"}
Rows == {"none", "done", "notOk", "blocked", "quarantined"}
EventTypes == {"started", "opened", "settled", "finished", "released"}
Event == [type : EventTypes, run : Nat, usd : Nat, ok : BOOLEAN]
-----------------------------------------------------------------------------
(* What a new run reads in the events J of one job in the runs before it.  *)
(* Everything the fold looks for is about one job, so only the events that *)
(* a crash can take back need an order among jobs.                         *)

Entries(J, type) == {i \in 1 .. Len(J) : J[i].type = type}

Unresolved(J) ==
  {i \in Entries(J, "opened") :
     ~\E k \in Entries(J, "settled") : k > i /\ J[k].run = J[i].run}

(* Broken variants of a definition stand before it, named after it.  They  *)
(* are not part of the specification: each is a bug some property catches. *)
SeedUsdOf_SettledOnly(J) ==
  SumOf([i \in 1 .. Len(J) |-> J[i].usd], Entries(J, "settled"))

(* seedFromJournal: settled charges, and unresolved reservations in full.  *)
SeedUsdOf(J) ==
  SumOf([i \in 1 .. Len(J) |-> J[i].usd], Entries(J, "settled") \union Unresolved(J))

StartsOf(J) == Cardinality(Entries(J, "started"))

Quarantined_ReleasedOnce(J) == Unresolved(J) # {} /\ Entries(J, "released") = {}

(* Behind an unresolved reservation that no later release has lifted.      *)
Quarantined(J) ==
  \E i \in Unresolved(J) : ~\E k \in Entries(J, "released") : k > i

(* What the fold at the start of a run saw of J, its own releases included. *)
Past(J) == {i \in 1 .. Len(J) : J[i].run < run \/ J[i].type = "released"}
PastEntries(J, type) == Entries(J, type) \intersect Past(J)

Replayable_IgnoresRelease(J) ==
  \E i \in PastEntries(J, "finished") :
    J[i].ok /\ ~\E k \in PastEntries(J, "finished") : k > i
Replayable_FirstFinish(J) ==
  \E i \in PastEntries(J, "finished") :
    J[i].ok /\ ~\E k \in PastEntries(J, "finished") : k < i

(* The replay map: the last finish, unless a release follows it, is ok.    *)
Replayable(J) ==
  \E i \in PastEntries(J, "finished") :
    /\ J[i].ok
    /\ ~\E k \in PastEntries(J, "finished") \union PastEntries(J, "released") : k > i

(* seedFromJournal throws: a settle without its open, or a finish while    *)
(* the same run's reservation is still open.                               *)
Corrupt(J) ==
  \/ \E k \in Entries(J, "settled") :
       ~\E i \in Entries(J, "opened") : i < k /\ J[i].run = J[k].run
  \/ \E k \in Entries(J, "finished") : \E i \in Entries(J, "opened") :
       /\ i < k /\ J[i].run = J[k].run
       /\ ~\E m \in Entries(J, "settled") : i < m /\ m < k /\ J[m].run = J[i].run

(* topoOrder: Placed[n] is the jobs of the first n waves.                  *)
Placed[n \in 0 .. Cardinality(Jobs)] ==
  IF n = 0 THEN {} ELSE {j \in Jobs : DependsOn[j] \subseteq Placed[n - 1]}

Earlier ==
  [j \in Jobs |-> UNION {Placed[n] : n \in {m \in DOMAIN Placed : j \notin Placed[m]}}]
SameWave == [j \in Jobs |-> {k \in Jobs : Earlier[k] = Earlier[j]}]

ASSUME AcyclicAssumption == Placed[Cardinality(Jobs)] = Jobs
-----------------------------------------------------------------------------
(* emit appends a line to the file; emitDurable syncs everything up to it. *)
Appended(j, type, usd, ok) ==
  journal' = [journal EXCEPT ![j] =
    Append(@, [type |-> type, run |-> run, usd |-> usd, ok |-> ok])]

Emit(j, type, ok) == Appended(j, type, 0, ok) /\ unsynced' = Append(unsynced, j)
EmitDurable_Unsynced(j, type, usd) ==
  Appended(j, type, usd, FALSE) /\ unsynced' = Append(unsynced, j)
EmitDurable(j, type, usd) == Appended(j, type, usd, FALSE) /\ unsynced' = <<>>

(* The governor of a new process, seeded from the events J of every job.   *)
SeedGovernor(J) ==
  LET spent == SumOf([j \in Jobs |-> SeedUsdOf(J[j])], Jobs) IN
  /\ attempts' = [j \in Jobs |-> StartsOf(J[j])]
  /\ dispatchedCount' = SumOf(attempts', Jobs)
  /\ usdSpent' = spent /\ seed' = spent
  /\ tripKind' = IF spent > Cap THEN "exhausted" ELSE "none"
  /\ tokens' = 0 /\ active' = 0
  /\ slotWaiters' = <<>> /\ reserveWaiters' = <<>>
  /\ open' = [j \in Jobs |-> NoReservation]
  /\ phase' = [j \in Jobs |-> "idle"]
  /\ reports' = [j \in Jobs |-> 0]
  /\ charged' = [j \in Jobs |-> 0]

(* Between runs nothing of a run's memory is left.                         *)
Forget ==
  /\ up' = FALSE /\ resume' = FALSE
  /\ SeedGovernor([j \in Jobs |-> <<>>])
  /\ stage' = [j \in Jobs |-> "none"]
  /\ row' = [j \in Jobs |-> "none"]
  /\ verdict' = [j \in Jobs |-> "none"]
  /\ stop' = FALSE /\ runFailed' = FALSE
  /\ unsynced' = <<>>

RunInit ==
  /\ Init
  /\ journal = [j \in Jobs |-> <<>>] /\ unsynced = <<>>
  /\ run = 0 /\ up = FALSE /\ resume = FALSE
  /\ stage = [j \in Jobs |-> "none"]
  /\ row = [j \in Jobs |-> "none"]
  /\ verdict = [j \in Jobs |-> "none"]
  /\ stop = FALSE /\ runFailed = FALSE /\ failures = 0
  /\ spentEver = 0 /\ lost = 0

(* A run starts: fold, seed, and quarantine the jobs it does not release.  *)
(* What earlier runs left in their files has reached the disk by then.     *)
StartRun(resumes, releases) ==
  LET held == {j \in Jobs : Quarantined(journal[j])} \ releases IN
  /\ ~up /\ run < MaxRuns
  /\ \A j \in Jobs : ~Corrupt(journal[j])
  /\ \A j \in releases : Quarantined(journal[j])
  /\ up' = TRUE /\ run' = run + 1 /\ resume' = resumes
  /\ SeedGovernor(journal)
  /\ journal' = [j \in Jobs |-> journal[j] \o
       IF j \in releases
         THEN <<[type |-> "released", run |-> run', usd |-> 0, ok |-> FALSE]>> ELSE <<>>]
  /\ unsynced' = SetToSeq(releases)
  /\ row' = [j \in Jobs |-> IF j \in held THEN "quarantined" ELSE "none"]
  /\ stage' = [j \in Jobs |-> IF j \in held THEN "returned" ELSE "none"]
  /\ verdict' = [j \in Jobs |-> "none"]
  /\ stop' = FALSE /\ runFailed' = FALSE
  /\ UNCHANGED <<failures, spentEver, lost>>
-----------------------------------------------------------------------------
(* The wave loop.                                                          *)

CancelledRun == tripKind = "signal"
Return(j) == stage' = [stage EXCEPT ![j] = "returned"]
Classify(j, as) == row' = [row EXCEPT ![j] = as]

(* A wave starts when the one before it has drained, and not after a stop. *)
CanSubmit(j) ==
  /\ stage[j] = "none" /\ ~runFailed
  /\ \A k \in Earlier[j] : stage[k] = "returned"
  /\ ~stop \/ \E k \in SameWave[j] : stage[k] # "none" /\ row[k] # "quarantined"

Replays(j) == resume /\ Replayable(journal[j])

(* Not ready: blocked, or left to the stop sweep of a cancelled run.  A     *)
(* replay is re-attested by a finish of its own.                           *)
Submit(j) ==
  LET ready == \A d \in DependsOn[j] : row[d] = "done" IN
  /\ up /\ CanSubmit(j)
  /\ \/ /\ ~ready /\ Return(j)
        /\ IF CancelledRun THEN UNCHANGED row ELSE Classify(j, "blocked")
        /\ UNCHANGED <<journal, unsynced>>
     \/ /\ ready /\ Replays(j)
        /\ Emit(j, "finished", TRUE)
        /\ Return(j) /\ Classify(j, "done")
     \/ /\ ready /\ ~Replays(j)
        /\ IF Tripped THEN Return(j) ELSE stage' = [stage EXCEPT ![j] = "submitted"]
        /\ UNCHANGED <<journal, unsynced, row>>
  /\ UNCHANGED <<govVars, run, up, resume, verdict, stop, runFailed, failures,
                 spentEver, lost>>

PoolFree_CountsQueued ==
  Cardinality({j \in Jobs : stage[j] \in {"submitted", "dispatching"}}) < Concurrency

(* A submitted job gets its place in the pool, and meets the stop flag.    *)
PoolFree == Cardinality({j \in Jobs : stage[j] = "dispatching"}) < Concurrency

Withdraw(j) ==
  /\ up /\ stage[j] = "submitted" /\ (stop \/ runFailed)
  /\ Return(j)
  /\ UNCHANGED <<govVars, journal, unsynced, run, up, resume, row, verdict, stop,
                 runFailed, failures, spentEver, lost>>

(* admit, and job-started; a refusal is a finish without a start, except   *)
(* under a cancel, which classifies nothing.                               *)
Dispatch(j) ==
  /\ up /\ stage[j] = "submitted" /\ ~stop /\ ~runFailed /\ PoolFree
  /\ Admit(j)
  /\ \/ /\ Admissible(j)
        /\ Emit(j, "started", FALSE)
        /\ stage' = [stage EXCEPT ![j] = "dispatching"]
        /\ UNCHANGED <<row, stop>>
     \/ /\ ~Admissible(j) /\ CancelledRun
        /\ Return(j)
        /\ UNCHANGED <<journal, unsynced, row, stop>>
     \/ /\ ~Admissible(j) /\ ~CancelledRun
        /\ Emit(j, "finished", FALSE)
        /\ Return(j) /\ Classify(j, "notOk")
        /\ stop' = (stop \/ StopOnError)
  /\ UNCHANGED <<run, up, resume, verdict, runFailed, failures, spentEver, lost>>
-----------------------------------------------------------------------------
(* One governed dispatch.                                                  *)

OnlyGovernor == UNCHANGED runVars

TakeSlot(j) == up /\ AcquireSlot(j) /\ OnlyGovernor

AskReservation(j) == up /\ Reserve(j) /\ OnlyGovernor

(* The write-ahead fact is durable. *)
WriteOpened(j) ==
  /\ up /\ OpenDurable(j)
  /\ EmitDurable(j, "opened", open[j].usd)
  /\ UNCHANGED <<run, up, resume, stage, row, verdict, stop, runFailed,
                 failures, spentEver, lost>>

(* failRun: an append fails.  The run is stopped and its governor tripped. *)
FailRun ==
  /\ up /\ ~runFailed /\ failures < MaxFailures
  /\ runFailed' = TRUE /\ failures' = failures + 1
  /\ IF Tripped THEN UNCHANGED govVars ELSE TripSignal
  /\ UNCHANGED <<journal, unsynced, run, up, resume, stage, row, verdict, stop,
                 spentEver, lost>>

(* Behind a failed append or fence the reservation is abandoned; an opened *)
(* fact that is already durable stays unresolved.                          *)
Abandon(j) ==
  /\ up /\ runFailed
  /\ AbandonReservation(j)
  /\ verdict' = [verdict EXCEPT ![j] = "rejected"]
  /\ UNCHANGED <<journal, unsynced, run, up, resume, stage, row, stop, runFailed,
                 failures, spentEver, lost>>

(* The fence and the invocation guard, with no await before the body.      *)
Invoke(j) == up /\ ~runFailed /\ EnterBody(j) /\ OnlyGovernor

Report(j, cost) ==
  /\ up /\ Observe(j, 0, cost)
  /\ spentEver' = spentEver + cost
  /\ UNCHANGED <<journal, unsynced, run, up, resume, stage, row, verdict, stop,
                 runFailed, failures, lost>>

(* The dispatch ends: only a definitive verdict of a body can be ok.       *)
End(j, basis, v) ==
  /\ up
  /\ basis = "full" \/ phase[j] = "opened" => v = "notOk"
  /\ Settle(j, basis)
  /\ verdict' = [verdict EXCEPT ![j] = v]
  /\ UNCHANGED <<journal, unsynced, run, up, resume, stage, row, stop, runFailed,
                 failures, spentEver, lost>>

(* What the ledger had counted of j beyond its reservation, and forgets    *)
(* when the reservation stays unresolved.                                  *)
Overshoot(j) ==
  LET opened == CHOOSE i \in Unresolved(journal[j]) : journal[j][i].run = run
      known == IF phase[j] = "settled" THEN charged[j] ELSE open[j].foldedUsd
      held == IF phase[j] = "settled" THEN journal[j][opened].usd ELSE open[j].usd
  IN IF known > held THEN known - held ELSE 0

(* reservation-settled is durable, then the slot is released.  When that   *)
(* append fails the slot is released all the same.                         *)
WriteSettled(j) ==
  /\ up /\ phase[j] = "settled"
  /\ ReleaseSlot(j)
  /\ \/ /\ EmitDurable(j, "settled", charged[j])
        /\ UNCHANGED <<verdict, lost>>
     \/ /\ runFailed
        /\ verdict' = [verdict EXCEPT ![j] = "rejected"]
        /\ lost' = lost + Overshoot(j)
        /\ UNCHANGED <<journal, unsynced>>
  /\ UNCHANGED <<run, up, resume, stage, row, stop, runFailed, failures, spentEver>>

LeaveRefused_AlwaysVerdict(j) ==
  /\ up /\ phase[j] = "refused"
  /\ ReleaseSlot(j)
  /\ verdict' = [verdict EXCEPT ![j] = "notOk"]
  /\ UNCHANGED <<journal, unsynced, run, up, resume, stage, row, stop, runFailed,
                 failures, spentEver, lost>>

(* A dispatch refused while it waited, or abandoned, gives its slot back.  *)
(* Only the refusal is a verdict.                                          *)
LeaveRefused(j) ==
  /\ up /\ phase[j] = "refused"
  /\ ReleaseSlot(j)
  /\ verdict' = [verdict EXCEPT ![j] = IF @ = "rejected" THEN @ ELSE "notOk"]
  /\ UNCHANGED <<journal, unsynced, run, up, resume, stage, row, stop, runFailed,
                 failures, spentEver, lost>>

(* job-finished, strictly after the settle; a dispatch the infrastructure  *)
(* ended, or whose append fails, rejects without one.                      *)
Finish(j) ==
  /\ up /\ stage[j] = "dispatching" /\ phase[j] = "finished"
  /\ Return(j)
  /\ \/ /\ verdict[j] = "rejected" \/ runFailed
        /\ UNCHANGED <<journal, unsynced, row, stop>>
     \/ /\ verdict[j] # "rejected"
        /\ Emit(j, "finished", verdict[j] = "ok")
        /\ Classify(j, IF verdict[j] = "ok" THEN "done" ELSE "notOk")
        /\ stop' = (stop \/ (StopOnError /\ verdict[j] # "ok"))
  /\ UNCHANGED <<govVars, run, up, resume, verdict, runFailed, failures,
                 spentEver, lost>>

Cancel ==
  /\ up /\ TripSignal /\ OnlyGovernor

(* Nothing in flight and nothing more to submit: the run ends.             *)
EndRun ==
  /\ up
  /\ \A j \in Jobs : stage[j] \in {"none", "returned"} /\ ~CanSubmit(j)
  /\ Forget
  /\ UNCHANGED <<journal, run, failures, spentEver, lost>>

(* The process dies, or the machine does: memory is gone, and of the file  *)
(* some prefix survives that includes everything synced.                   *)
Crash ==
  /\ up
  /\ \E n \in 0 .. Len(unsynced) :
       LET cut(j) == Cardinality({i \in n + 1 .. Len(unsynced) : unsynced[i] = j})
       IN journal' = [j \in Jobs |-> SubSeq(journal[j], 1, Len(journal[j]) - cut(j))]
  /\ lost' = lost + SumOf([j \in Jobs |->
       IF open[j] # NoReservation \/ phase[j] = "settled" THEN Overshoot(j) ELSE 0], Jobs)
  /\ Forget
  /\ UNCHANGED <<run, failures, spentEver>>

JobStep(j) ==
  \/ Submit(j) \/ Withdraw(j) \/ Dispatch(j) \/ TakeSlot(j)
  \/ AskReservation(j) \/ WriteOpened(j) \/ Abandon(j) \/ Invoke(j)
  \/ \E basis \in {"observed", "full"}, v \in {"ok", "notOk"} : End(j, basis, v)
  \/ WriteSettled(j) \/ LeaveRefused(j) \/ Finish(j)

RunNext ==
  \/ \E resumes \in BOOLEAN, releases \in SUBSET Jobs : StartRun(resumes, releases)
  \/ \E j \in Jobs : JobStep(j) \/ \E cost \in Costs : Report(j, cost)
  \/ FailRun \/ Cancel \/ EndRun \/ Crash

RunSpec == RunInit /\ [][RunNext]_vars

(* As for the governor: awaits come back and bodies end.  Starting a run,  *)
(* crashing, cancelling and failing are nobody's duty.                     *)
RunFairness ==
  /\ \A j \in Jobs : WF_vars(JobStep(j))
  /\ WF_vars(EndRun)

FairRunSpec == RunSpec /\ RunFairness
-----------------------------------------------------------------------------
(* The fold of whatever a dead run left never finds a settle without its   *)
(* open, nor a finish over an open reservation: the order of the durable   *)
(* and the plain appends survives the loss of any unsynced suffix.         *)
NeverCorrupt == \A j \in Jobs : ~Corrupt(journal[j])

(* Write-ahead (A12b): a body runs only behind a reservation-opened event  *)
(* that no crash can take back, of the amount reserved.                    *)
InBody(j) == up /\ phase[j] = "running"

BodyBehindOpened ==
  \A j \in Jobs : InBody(j) =>
    /\ j \notin Range(unsynced)
    /\ \E i \in Unresolved(journal[j]) :
         journal[j][i].run = run /\ journal[j][i].usd = open[j].usd

(* A job whose dispatch died in an earlier run is not run again until it   *)
(* is released: its body is never entered behind an unreleased, unresolved *)
(* reservation.                                                            *)
QuarantineHolds ==
  \A j \in Jobs : InBody(j) =>
    \A i \in Unresolved(journal[j]) :
      journal[j][i].run < run => \E k \in Entries(journal[j], "released") : k > i

(* A resumed run never invokes again a job that an earlier run finished    *)
(* ok, unless a later finish or a release took that verdict back.          *)
NoSecondInvocation ==
  \A j \in Jobs : InBody(j) /\ resume =>
    \A k \in Entries(journal[j], "finished") : journal[j][k].ok =>
      \E i \in Entries(journal[j], "finished") \union Entries(journal[j], "released") : i > k

(* A job reported done was settled after everything that ever quarantined  *)
(* or released it: a release re-runs, and an ok from before it is stale.   *)
DoneIsFresh ==
  \A j \in Jobs : row[j] = "done" =>
    \E k \in Entries(journal[j], "settled") :
      \A i \in Unresolved(journal[j]) \union Entries(journal[j], "released") : k > i

(* The ledger carries everything operations ever reported, across crashes  *)
(* and resumes, except what a dying dispatch had reported beyond its own   *)
(* reservation.                                                            *)
LedgerCoversSpend == up => usdSpent + lost >= spentEver

(* What operations have reported and what open reservations may still let  *)
(* them spend stays within the cap while nothing trips, over all runs, but *)
(* for the spend a crash made the ledger forget.                           *)
SpendWithinCap ==
  up /\ ~Tripped =>
    spentEver + (ReservedUsd(open) - FoldedUsd(open)) <= Cap + lost

(* A run that nothing stops from outside comes to its end.                 *)
RunEnds == up ~> ~up
=============================================================================
