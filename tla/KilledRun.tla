----------------------------- MODULE KilledRun ------------------------------
(***************************************************************************)
(* The runs of one plan over its journal directory, each in a process of   *)
(* its own: the plan lease, the fold, the claim, the lines a governed run  *)
(* writes, and the escalation ladder under which its operations run        *)
(* (runPlan, executeOp and governedRunOne of src/src/kernel/runner.ts,     *)
(* runLadder of src/src/kernel/governor.ts).  The ladder ends a dispatch   *)
(* whether or not the operation does: what it kills runs on, detached.     *)
(*                                                                         *)
(* Capped runs under a ladder with a wall clock; all jobs independent and  *)
(* in one wave, no release of a quarantine, no resume.  What the wave      *)
(* leaves out is blocked or replayed.  Budgets are in GovernedRun.tla and  *)
(* the lease in PlanLock.tla.                                              *)
(***************************************************************************)
EXTENDS RunLog

CONSTANTS
  Reserved,       \* the amount every dispatch reserves
  Cost,           \* what one report of a body adds
  MaxReports,     \* bound: reports of bodies
  MaxFailures,    \* bound: appends that fail
  MaxWork         \* bound: a run counts 3, its wave of n jobs n * (n + 1)
                  \* and a report of a body 1

ASSUME KilledRunAssumption ==
  /\ Reserved \in Nat /\ Cost \in Nat /\ MaxReports \in Nat
  /\ MaxFailures \in Nat /\ MaxWork \in Nat

VARIABLES
  run,            \* the latest run, and its process
  phase,          \* where runPlan is
  holder,         \* the run whose record the plan lock names, 0 for none
  dead,           \* the runs whose process is gone
  seq,            \* the ordinal the run claimed
  count,          \* journalledCount
  runFailed,      \* runFailure is set
  detached,       \* lease.detached
  at,             \* where each job's dispatch is; "starting", "opening",
                  \* "settling" and "finishing" wait for their append
  ledger,         \* what the governor counts for the job in this run
  charged,        \* the charge of its settle, on its way to the journal
  task,           \* the ladder's task of each job in each run
  reports,        \* how often bodies reported
  failures,       \* appends that failed so far
  work,           \* what happened so far, counted towards MaxWork
  facts,          \* history: durable lines that were acknowledged
  entered         \* history: dispatches whose body began behind an open
                  \* reservation

runVars == <<run, phase, holder, dead, seq, count, runFailed, detached, at,
             ledger, charged, task, reports, failures, work, facts, entered>>
vars == <<logVars, runVars>>

Pending == {"starting", "opening", "settling", "finishing"}

Init ==
  /\ LogInit
  /\ run = 0 /\ phase = "ended" /\ holder = 0 /\ dead = {}
  /\ seq = 0 /\ count = 0 /\ runFailed = FALSE /\ detached = FALSE
  /\ at = [j \in Jobs |-> "done"]
  /\ ledger = [j \in Jobs |-> 0] /\ charged = [j \in Jobs |-> 0]
  /\ task = [r \in Runs |-> [j \in Jobs |-> "none"]]
  /\ reports = 0
  /\ failures = 0 /\ work = 0 /\ facts = {} /\ entered = {}
-----------------------------------------------------------------------------
(* The run.                                                                *)

(* acquirePlanLock, the fold, the quarantine.  A refusal changes nothing.  *)
StartRun ==
  /\ phase = "ended" /\ run < MaxRuns
  /\ holder = 0 \/ holder \in dead
  /\ Accepted
  /\ run' = run + 1 /\ holder' = run' /\ phase' = "claiming"
  /\ count' = 0 /\ runFailed' = FALSE /\ detached' = FALSE
  /\ \E wave \in SUBSET {j \in Jobs : \A r \in Folded : ~Unresolved(r, j)} :
       /\ work' = work + 3 + Cardinality(wave) * (Cardinality(wave) + 1)
       /\ at' = [j \in Jobs |-> IF j \in wave THEN "waiting" ELSE "done"]
  /\ work' <= MaxWork
  /\ ledger' = [j \in Jobs |-> 0] /\ charged' = [j \in Jobs |-> 0]
  /\ UNCHANGED <<logVars, dead, seq, task, reports, failures, facts, entered>>

ClaimSeq ==
  /\ phase = "claiming"
  /\ Claims(NextSeq)
  /\ seq' = NextSeq /\ phase' = "starting" /\ count' = 1
  /\ UNCHANGED <<run, holder, dead, runFailed, detached, at, ledger, charged,
                 task, reports, failures, work, facts, entered>>

Release_Always == holder' = 0

(* runPlan's end: a lease over a detached body is not released.            *)
Release == holder' = IF detached THEN holder ELSE 0

(* An append of the run itself comes back.                                 *)
RunLine == IF phase = "starting" THEN Line("run-started", NoJob, seq)
                                 ELSE Line("run-finished", NoJob, count)

WriteRunLine ==
  /\ phase \in {"starting", "finishing"}
  /\ \/ /\ Appends(run, RunLine, FALSE)
        /\ phase' = IF phase = "starting" THEN "running" ELSE "ended"
        /\ IF phase = "starting" THEN UNCHANGED holder ELSE Release
        /\ UNCHANGED <<runFailed, failures>>
     \/ /\ failures < MaxFailures
        /\ AppendFails(run, RunLine)
        /\ runFailed' = TRUE /\ failures' = failures + 1
        /\ phase' = "ended" /\ Release
  /\ UNCHANGED <<run, dead, seq, count, detached, at, ledger, charged, task,
                 reports, work, facts, entered>>

(* The wave has drained: a failed run throws, the others write their end.  *)
Drained == \A j \in Jobs : at[j] = "done" \/ (at[j] = "waiting" /\ runFailed)

EndWave_LastUncounted ==
  /\ phase = "running" /\ Drained
  /\ IF runFailed THEN phase' = "ended" /\ Release /\ UNCHANGED count
                  ELSE phase' = "finishing" /\ UNCHANGED <<count, holder>>
  /\ UNCHANGED <<logVars, run, dead, seq, runFailed, detached, at, ledger,
                 charged, task, reports, failures, work, facts, entered>>

EndWave ==
  /\ phase = "running" /\ Drained
  /\ IF runFailed THEN phase' = "ended" /\ Release /\ UNCHANGED count
                  ELSE /\ phase' = "finishing" /\ count' = count + 1
                       /\ UNCHANGED holder
  /\ UNCHANGED <<logVars, run, dead, seq, runFailed, detached, at, ledger,
                 charged, task, reports, failures, work, facts, entered>>
-----------------------------------------------------------------------------
(* A dispatch.                                                             *)

Move(j, place) == at' = [at EXCEPT ![j] = place]
Emits(j, place) == Move(j, place) /\ count' = count + 1

Dispatch(j) ==
  /\ phase = "running" /\ at[j] = "waiting" /\ ~runFailed
  /\ Emits(j, "starting")
  /\ UNCHANGED <<logVars, run, phase, holder, dead, seq, runFailed, detached,
                 ledger, charged, task, reports, failures, work, facts,
                 entered>>

TypeAt == [starting |-> "job-started", opening |-> "opened",
           settling |-> "settled", finishing |-> "job-finished"]
Durably(j) == at[j] \in {"opening", "settling"}
JobLine(j) ==
  Line(TypeAt[at[j]], j, IF at[j] = "settling" THEN charged[j] ELSE 0)

(* Behind each line the next emit or, behind the opened fact and its       *)
(* fence, the ladder.  A run that failed refuses what has not reserved and *)
(* leaves what has unresolved.                                             *)
Proceed(j) ==
  \/ /\ at[j] = "starting"
     /\ Emits(j, IF runFailed THEN "finishing" ELSE "opening")
     /\ UNCHANGED task
  \/ /\ at[j] = "opening" /\ ~runFailed
     /\ Move(j, "inside")
     /\ task' = [task EXCEPT ![run][j] = "preparing"]
     /\ UNCHANGED count
  \/ /\ at[j] = "opening" /\ runFailed
     /\ Move(j, "done") /\ UNCHANGED <<count, task>>
  \/ /\ at[j] = "settling"
     /\ Emits(j, "finishing") /\ UNCHANGED task
  \/ /\ at[j] = "finishing"
     /\ Move(j, "done") /\ UNCHANGED <<count, task>>

(* An append of a dispatch comes back.                                     *)
WriteLine(j) ==
  /\ phase = "running" /\ at[j] \in Pending
  /\ \/ /\ Appends(run, JobLine(j), Durably(j))
        /\ facts' = facts \union
                      IF Durably(j) THEN {<<run, j, TypeAt[at[j]]>>} ELSE {}
        /\ Proceed(j)
        /\ UNCHANGED <<runFailed, failures>>
     \/ /\ failures < MaxFailures
        /\ AppendFails(run, JobLine(j))
        /\ runFailed' = TRUE /\ failures' = failures + 1
        /\ Move(j, "done")
        /\ UNCHANGED <<facts, count, task>>
  /\ UNCHANGED <<run, phase, holder, dead, seq, detached, ledger, charged,
                 reports, work, entered>>

(* The dispatch's evidence window and its permission to invoke: until the  *)
(* ladder settles (dispatchClosed).                                        *)
Closed_Never(r, j) == r # run
Closed(r, j) == r # run \/ at[j] # "inside"

(* What a settle of unknown status charges.                                *)
FullCharge(j) == IF ledger[j] > Reserved THEN ledger[j] ELSE Reserved

(* settle: the ladder is over.                                             *)
Settles(j, charge) ==
  /\ Emits(j, "settling")
  /\ ledger' = [ledger EXCEPT ![j] = charge]
  /\ charged' = [charged EXCEPT ![j] = charge]

Quit(r, j) == task' = [task EXCEPT ![r][j] = "none"]

(* Validation, import and the last check, with no await before the body.   *)
Enter(r, j) ==
  /\ r \notin dead /\ task[r][j] = "preparing"
  /\ ~Closed(r, j) /\ ~runFailed
  /\ task' = [task EXCEPT ![r][j] = "body"]
  /\ entered' = IF <<r, j, "opened">> \in facts /\ at[j] = "inside"
                  THEN entered \union {<<r, j>>} ELSE entered
  /\ UNCHANGED <<logVars, run, phase, holder, dead, seq, count, runFailed,
                 detached, at, ledger, charged, reports, failures, work,
                 facts>>

(* The preparation ends without a body: the operation is unknown or its    *)
(* input invalid; the run failed, and the opened fact stays unresolved; or *)
(* the dispatch is closed.                                                 *)
PreparationEnds(r, j) ==
  /\ r \notin dead /\ task[r][j] = "preparing" /\ Quit(r, j)
  /\ \/ /\ ~Closed(r, j)
        /\ Settles(j, ledger[j])
     \/ /\ ~Closed(r, j) /\ runFailed
        /\ Move(j, "done") /\ UNCHANGED <<count, ledger, charged>>
     \/ /\ Closed(r, j)
        /\ UNCHANGED <<at, count, ledger, charged>>
  /\ UNCHANGED <<logVars, run, phase, holder, dead, seq, runFailed, detached,
                 reports, failures, work, facts, entered>>

(* The body ends with a definitive verdict, or in unknown status; behind   *)
(* the ladder's end nobody listens.                                        *)
BodyEnds(r, j) ==
  /\ r \notin dead /\ task[r][j] = "body" /\ Quit(r, j)
  /\ IF Closed(r, j) THEN UNCHANGED <<at, count, ledger, charged>>
     ELSE Settles(j, ledger[j]) \/ Settles(j, FullCharge(j))
  /\ UNCHANGED <<logVars, run, phase, holder, dead, seq, runFailed, detached,
                 reports, failures, work, facts, entered>>

(* reportResult: late evidence of a closed dispatch is dropped.            *)
Report(r, j) ==
  /\ r \notin dead /\ task[r][j] = "body"
  /\ reports < MaxReports /\ work < MaxWork
  /\ reports' = reports + 1 /\ work' = work + 1
  /\ ledger' = IF Closed(r, j) THEN ledger ELSE [ledger EXCEPT ![j] = @ + Cost]
  /\ UNCHANGED <<logVars, run, phase, holder, dead, seq, count, runFailed,
                 detached, at, charged, task, failures, facts, entered>>

Kill_NoSettle(j) == detached' = TRUE /\ UNCHANGED <<at, count, ledger, charged>>

(* The last rung abandons the task: the dispatch is charged in full.       *)
Kill(j) == detached' = TRUE /\ Settles(j, FullCharge(j))

(* The ladder's timers.  Its first rungs only ask the task to end, as it    *)
(* may at any time; only the last one is a step.                           *)
LastRung(j) ==
  /\ phase = "running" /\ at[j] = "inside"
  /\ Kill(j)
  /\ UNCHANGED <<logVars, run, phase, holder, dead, seq, runFailed, task,
                 reports, failures, work, facts, entered>>
-----------------------------------------------------------------------------
(* Faults and the operator.                                                *)

(* The process ends with everything it had in memory.                      *)
Dies ==
  /\ run > 0 /\ run \notin dead
  /\ dead' = dead \union {run}
  /\ phase' = "ended" /\ at' = [j \in Jobs |-> "done"]
  /\ seq' = 0 /\ count' = 0 /\ runFailed' = FALSE /\ detached' = FALSE
  /\ ledger' = [j \in Jobs |-> 0] /\ charged' = [j \in Jobs |-> 0]
  /\ task' = [task EXCEPT ![run] = [j \in Jobs |-> "none"]]
  /\ UNCHANGED <<run, holder, reports, failures, work, facts, entered>>

(* The process exits or is killed, perhaps in the middle of an append.     *)
Crash ==
  /\ Dies
  /\ \/ UNCHANGED logVars
     \/ phase \in {"starting", "finishing"} /\ AppendFails(run, RunLine)
     \/ \E j \in Jobs : /\ phase = "running" /\ at[j] \in Pending
                       /\ AppendFails(run, JobLine(j))

MachineCrash == Dies /\ LosesUnsynced

(* A gap refuses every run until the operator deletes the tombstone that   *)
(* the refusal names.                                                      *)
DeleteTombstone ==
  /\ phase = "ended" /\ (holder = 0 \/ holder \in dead)
  /\ ~Corrupt /\ SeqGap
  /\ LET top == CHOOSE n \in claimed : \A k \in claimed : k <= n IN
       claimed' = claimed \ {top} /\ kept' = kept \ {top}
  /\ UNCHANGED <<file, synced, named, runVars>>

JobStep(j) == Dispatch(j) \/ WriteLine(j) \/ LastRung(j)
RunStep == ClaimSeq \/ WriteRunLine \/ EndWave
TaskStep(r, j) ==
  Enter(r, j) \/ PreparationEnds(r, j) \/ BodyEnds(r, j) \/ Report(r, j)

Next ==
  \/ StartRun \/ RunStep
  \/ \E j \in Jobs : JobStep(j) \/ \E r \in Runs : TaskStep(r, j)
  \/ Crash \/ MachineCrash \/ DeleteTombstone

Spec == Init /\ [][Next]_vars

(* Appends come back and timers fire.  Nobody obliges an operation to end. *)
Fairness == WF_vars(RunStep) /\ \A j \in Jobs : WF_vars(JobStep(j))
FairSpec == Spec /\ Fairness
-----------------------------------------------------------------------------
(* A fold that is not refused has every durable fact that was ever         *)
(* acknowledged, and orders the runs as they ran.                          *)
FoldComplete ==
  Accepted =>
    /\ \A f \in facts : f[1] \in Folded /\ Has(file[f[1]], f[3], f[2])
    /\ \A r, s \in Folded : r < s => Ordinal(r) < Ordinal(s)

(* Deleting the tombstone that a refusal names forgets no dispatch.        *)
OrphanSafe ==
  phase = "ended" /\ SeqGap /\ ~Corrupt => \A e \in entered : e[1] \in Folded

(* No crash alone, of a process or of the machine, leaves a journal that   *)
(* every later run refuses as corrupt.                                     *)
CorruptOnlyByFailure == failures = 0 => ~Corrupt

(* An operation that runs, detached or not, began behind its reservation,  *)
(* and the lease of its run keeps every other run out.                     *)
BodyFenced ==
  \A r \in Runs, j \in Jobs : task[r][j] = "body" =>
    holder = r /\ <<r, j>> \in entered

(* The ledger and the journal agree on what a dispatch was charged, even   *)
(* while what the ladder killed keeps reporting.                           *)
LedgerMatchesJournal ==
  \A j \in Jobs : phase = "running" /\ <<run, j, "settled">> \in facts =>
    \A i \in 1 .. Len(file[run]) :
      LET l == file[run][i] IN
      l.type = "settled" /\ l.job = j /\ l.form = "whole" => l.num = ledger[j]

(* A run comes to its end whether or not its operations do.                *)
RunReturns == phase # "ended" ~> phase = "ended"
=============================================================================
