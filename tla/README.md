# A verification development for cq-toolkit

cq-toolkit runs *plans* of *jobs*: deterministic operations and model-driven
workers that review, fix, merge and sweep code. Its core is a kernel
(`src/src/kernel`) that executes a plan as waves of jobs, keeps a journal that a
later run resumes from, and bounds what the jobs may spend. This directory holds
TLA+ modules translated from that code, TLC configurations that model-check them,
and TLAPS proofs. `PROJECT.json` maps every definition to the lines it stands for
and lists the runs, the hazards and the theorems.

## 1. Inventory

### Kernel

| Component | State | Operations | Talks to |
|---|---|---|---|
| **Plan lock** (`kernel/journal.ts` 77-775) | the canonical record `<plan>.lock.json`, one claim file per predecessor, the publication guard, a liveness socket | acquire, judge a predecessor, claim its succession, rename, verify, release or roll back | the file system, other processes of the host; `runPlan` runs under it |
| **Budget governor** (`kernel/governor.ts`) | admissions, attempts, the slot pool, open reservations, the parked waiters, the spend ledger, the token rollup, the trip | admit, acquire and release a slot, reserve, observe, settle, abandon, trip, seed from the journal | called by the runner, fed by operation bodies |
| **Runner** (`kernel/runner.ts`) | the outcome table, the wave loop's promises, the stop flag, the infrastructure failure | start (fold, seed, quarantine), submit a wave, dispatch, emit, stop, report | governor, journal, operations |
| **Run log** (`kernel/journal.ts` 777-1352) | one append-only JSONL file per run, the `<plan>.seq.<n>` claim tombstones | append, durable append, parse, fold in sequence order | runner, `seedFromJournal` |
| **Kill ladder** (`governor.ts` 362-556) | rung reached, whether the task settled | timers, abort, cancel port, detach | the runner's dispatches, operation bodies |
| **Run report** (`runner.ts` 1864-2022) | the rows of the run | stop sweep, budget-caused re-marking, honest-stop claim | caller, metrics |
| **Manifest and schemas** | none | `topoOrder`, `validateManifest`, hashing | runner |

### Around the kernel

| Component | State | What is hard |
|---|---|---|
| **Approval nonce ledger** (`adapters/store/nonceLedger.ts`) | an append-only file of spent nonces | a short write or a crash in the middle of an append must never make a spent nonce usable |
| **Novel-error ledger store** (`adapters/store/ledgerStore.ts`) | a file rewritten under a timed lock | a slow holder loses its lock and its write races the thief's |
| **Git mutex** (`shared/gitMutex.ts`) | the same kind of lock | retries, stale theft, cancellation while waiting |
| **Address ownership** (`ops/review/internal/addressOwnership.ts`) | a store directory with an append-only chain of records, an anchor hard-linked as the guard, retired generations, a lock directory | one owner at a time; a crash between any two of some thirty file-system calls; an owner that stalls past its lock |
| **Merge settle state** (`policy/queue/settle-state.ts`, `selfhost/state-branch.ts`) | per pull request the observations of one (head, base, force-push epoch), in a file on a branch | concurrent writers, lost updates, code that changes between observations |
| **Merge train** (`selfhost/merge-recheck.ts`, `self-merge-prs.ts`, `observe-prs.ts`, `ops/merge/executeMerges.ts`) | none of its own: the forge's and the ledger's | the forge moves between any two calls and its review data lag |
| **Review loop** (`selfhost/self-review-loop.ts`, `plans/review-loop.ts`) | rounds, verdicts | round budgets, terminal verdicts |
| **Operations, drivers, harness, adapters, sandbox, registry, CLI** | mostly none | subprocesses and parsing; a driver is, to the kernel, a body that reports evidence and ends |
| **crq** (`src/apps/crq-python`) | a queue of review requests on the forge | a separate program |

Interaction in one paragraph: `runPlan` acquires the plan lock, so runs of one plan
follow one another; it folds the earlier runs' logs, seeds a governor and quarantines
the jobs whose last dispatch died unresolved; it submits the waves; each governed
dispatch is admitted, takes a slot, reserves its share of the budget, writes
`reservation-opened` durably, runs its body, settles, writes `reservation-settled`
durably, gives back the slot and writes `job-finished`. Everything in a process
happens on one event loop, so a method without an `await` is atomic; between
processes only the file system's operations are.

What makes each component correct:

- *Plan lock*: at most one live holder; a live holder's record is never displaced;
  the dead never block; another host's record is never judged dead.
- *Governor*: committed money fits the cap; the ledger counts each report once; no slot
  leaks; no parked dispatch is forgotten; nothing starts after a trip.
- *Runner and run log*: write-ahead before every body; a crash loses memory and an
  unsynced suffix, and what is left always folds; what may have run is not run again
  unless a human releases it; what finished is not run again; the resumed ledger is no
  lower than the spend; every run ends.
- *Journal directory and kill ladder*: no acknowledged fact is folded away, whatever a
  failing call or a crash leaves of a line or a claim; only a failing call can make a
  journal that every later run refuses; the operation that the ladder abandons changes no
  number any more and keeps other runs out while it lives.
- *Nonce ledger*: a nonce is granted once, across processes, deaths and machine crashes;
  what was granted is on the disk; a file that cannot be read whole grants nothing; every
  consume comes back.
- *Address ownership*: once an epoch is open nobody else is admitted before its own
  quiescence record; whatever a crash leaves of a rotation or a bootstrap, the next owner
  can finish; an undisturbed owner never quarantines itself.
- *Merge train*: what is granted is approved, unobjected and settled on the forge itself;
  the ledger never overstates how long code has stood; no writer loses another's record;
  an approved pull request is merged in the end.
- *The planned components*: see section 9.

## 2. Modules

| Module | Models | Composed of |
|---|---|---|
| `Lease` | what `acquirePlanLock` promises: an exclusive lease | |
| `PlanLock` | the lock protocol over the file system | instantiates `Lease` for the refinement |
| `MCPlanLock` | instances of it | extends `PlanLock` |
| `PlanLockProofs` | the inductive invariant and the theorems | extends `PlanLock` |
| `Governor` | `BudgetGovernor` and the calls of one governed dispatch | |
| `MCGovernor` | instances of it | extends `Governor` |
| `SumTheorems` | the algebra of the sums over jobs in which the governor counts money | extends `Governor` |
| `GovernorProofs` | that the slot pool neither leaks nor invents a slot; the gate's inductive invariant: cap, ledger, wakeups, the trip | extends `Governor`, `SumTheorems` |
| `GovernedRun` | `runPlanUnderLease`, the run log, crashes, and the resume fold | extends `Governor`; its actions are the governor's conjoined with the runner's state |
| `MCGovernedRun` | instances of it | extends `GovernedRun` |
| `GovernedRunProofs` | the runs' inductive invariants: journals and money over crashes and resumes | extends `GovernedRun`, `GovernorProofs` |
| `RunLog` | the journal directory: lines, syncs, seq claims, what the fold accepts | |
| `KilledRun` | runs over it whose dispatches the kill ladder may abandon | extends `RunLog` |
| `MCKilledRun` | instances of it | extends `KilledRun` |
| `KilledRunProofs` | its inductive invariant (files, lease, tasks) and the theorems | extends `KilledRun` |
| `NonceLedger` | the durable ledger of spent approval nonces | |
| `MCNonceLedger` | instances of it | extends `NonceLedger` |
| `NonceLedgerProofs` | its inductive invariant and the theorems | extends `NonceLedger` |
| `MergeTrain` | the settle ledger, the state branch, the observation pass, the recheck and the merge loop | |
| `MCMergeTrain` | instances of it | extends `MergeTrain` |
| `MergeTrainProofs` | that no update of the ledger is lost; what a record and a verdict are worth | extends `MergeTrain` |
| `AddressOwnership` | the owner of the address stage's common directory, over the Git mutex | |
| `MCAddressOwnership` | instances of it | extends `AddressOwnership` |
| `AddressOwnershipProofs` | its inductive invariant and the theorems | extends `AddressOwnership` |

Operators named `Definition_Something` that stand just before a definition are broken
variants of it. Nothing in the specifications uses them; each is a plausible bug that
one of the properties catches (`mutants` in `PROJECT.json`).

### PlanLock

An attempt is one call of `acquirePlanLock` with its fresh nonce; the nonce and the
attempt are identified. `pc` is the await the attempt is at:

    idle -> publish -> open -> setup -> held -> retire -> tombstone -> released
              |         ^
              v         |  (rename took effect)
            judge -> claim -> rename -> recheck -> abandon -> failed
                      ^  v
                     pass <- probe

`canonical` is the record at the lock's name, `claims[p]` the attempt named in the
claim file of predecessor `p`, `abandoned` the claims marked released. `seen` and
`current` are the local variables that survive an `await` (the predecessor under
judgement, and the canonical record that `assertPassable` read before it read the claim
and probed the owner). `handle` is the inode kept open, which stands for `ino` and `dev`
in `markReleased`: since a record file is never rewritten in place, the inode is the
record.

Faults (`MaxFaults` bounds their number): a link whose reply is lost, a rename that
fails with or without effect, a read that fails, an append of the abandonment that
fails, a fence that refuses. Crashes are not bounded. The publication guard, a 30-second
lease around the acquisition, gives *no* exclusion in the model: an attempt may be
refused because another is busy, and that is all. This is stricter than the code, whose
comments say that safety must not rest on the guard.

Left out: pids reused by the operating system, lock records written by hand or
damaged, two temporaries of one name, the socket's own errors (a process is reachable
exactly while it lives).

### Governor

One action per method: `Admit`, `AcquireSlot`, `ReleaseSlot`, `Reserve` (with
`tryGrant`), `OpenDurable` and `EnterBody` (the runner's side between grant and body),
`Observe` (`observeResult` with both folds), `Settle`, `AbandonReservation`,
`TripSignal`. `trip` and `drainWaiters` are parts of the actions that call them, as in
the code; `SettleGate` is the order in which a settle calls them. A dispatch settles from its
body or before it, when its preparation failed (observed) or the ladder killed it (full). Money is in whole units, which makes the code's `USD_EPSILON` an exact
comparison; every proposal is the fair share `Cap / concurrency`, the one the runner
makes. Initial states are those `seedFromJournal` can produce, an already overspent one
included.

Left out: uncapped runs, cap inheritance, the diagnostic event list, validation of
malformed numbers, the clock.

### GovernedRun

`journal[j]` is the list of events of job `j` that the fold reads, in fold order, with
the run they belong to; `unsynced` says whose events the current file ends with and
no sync has covered. `Crash` forgets every variable of the process and removes some
suffix of `unsynced` from the journals. `StartRun` is the resume: it refuses a corrupt
history, seeds the governor by `SeedUsdOf`, `StartsOf` and quarantines by `Quarantined`.
`Submit`, `Withdraw`, `Dispatch` ... `Finish` follow `governedRunOne` and the wave loop;
`FailRun` is an append that fails (`failRun`), `Cancel` the caller's abort signal.
`spentEver` and `lost` are history variables: what bodies really reported, and what a
dying dispatch had reported beyond its reservation.

Left out: ungoverned runs, the advisory lane's refusal, the opt-in refusals, the stop
sweep and the report, token usage (it is in `Governor`), torn lines (they are in `RunLog`).

### RunLog

`GovernedRun` takes a journal to be a list of facts of which a crash drops a suffix. `RunLog`
looks at the files. A line has the form `whole`, `open` (it parses but its newline is
missing), `torn` (an unterminated fragment) or `bad` (complete, and does not parse). `Written`
is what an append adds to a file: behind an open or torn line the two fuse. `Appends` is one
turn of `append`'s chain with its `datasync` and, for the run's first line, the directory's
sync; `AppendFails` one of whose calls failed behind none, a part or all of the line.
`synced`, `named` and `kept` say what is on the disk of lines, file entries and tombstones;
`LosesUnsynced` is a crash of the machine. `Corrupt` gathers what `readEvents`,
`foldOrderRuns` and `seedFromJournal` refuse, `SeqGap` is `assertNoSeqGap`.

Left out: version 1 and 3 journals, other plans' runs in the directory, `statusOf`.

### KilledRun

A run goes `claiming -> starting -> running -> finishing -> ended`, its process lives until
it dies. `at[j]` is where the dispatch of a job is:

    waiting -> starting -> opening -> inside -> settling -> finishing -> done

Four of these wait for an append; `inside` is the ladder. `task[r][j]` is the task the ladder
runs: it prepares (validation, import), enters the body, and ends when it likes. `Kill` ends
the dispatch without it: `at` moves on and `task` stays, in the same process, perhaps beyond
the run's end. `Closed` is `dispatchClosed`, on which the evidence window and the permission
to enter the body depend; `Release` is `runPlan`'s, which keeps the lease over a detached
body. `DeleteTombstone` is the repair that the refusal of a gap asks the operator for.
`facts` and `entered` are history variables.

Left out: the timing and the markers of the rungs, the cancel port and the external signal,
uncapped and ungoverned runs, resumes and releases, the lines that re-attest a quarantine or a
replay, a claim that fails, and the lease protocol, which is `PlanLock`'s.

### NonceLedger

A process holds one ledger instance and runs one `consume` at a time:

    idle -> lock -> absorb -> open -> write -> sync [-> syncDir] -> release -> idle

The section between `mkdir` and `rmdir` of the lock directory is synchronous code, but
its steps are separate actions because the process or the machine can die between any
two system calls. Of the file the model tells apart `lines` (nonces with a whole line),
`synced` (those on the disk), `torn` (nonces whose line is incomplete or fused with
another's) and `exists` against `entry` (whether the directory entry is on the disk).
`known` and `dirSynced` are the instance's own variables; `grants` is a history variable.
`Die` leaves the lock behind. `MachineDies` may lose any unsynced line, leave it torn, or
lose the whole file when its entry was never synced. `OperatorUnlocks` is the manual
repair the code prescribes, once every user is stopped. `SyncKeepsEntry` says whether
`fdatasync` of a newly created file also makes its directory entry durable, which the
usual local file systems do and POSIX does not promise.

Left out: resolution of symlinks in the path (one ledger has one identity), repairs of a
torn file by hand, and the in-memory ledger.

### MergeTrain

A worker is one job of the repository: an observer runs `observeRepository`, a merger
`runSelfMergePrs`. Its `pc`:

    idle -> snapshot* -> stamp -> read -> anchor -> idle            (the observation)
                                                 -> next            (a merger goes on)
    next -> fetch -> stamp -> read -> cross -> judge -> persist -> merge -> next
    cross, judge -> anchor -> next                       (a refusal's new anchor)

Each place is one call to the forge, so other people, the other jobs and time come
between any two. `pr` and `tip` are the forge's truth, `shown` its GraphQL view of the
reviews, which lags until `CatchUp`; `ledger` is the file at the tip of the state branch.
A job keeps the snapshots it took (`snap`), its one clock reading (`stamp`), the ledger it
read (`read`) and whether that commit is still the tip (`atTip`): a push that is not a
fast-forward is refused. `Push` may be forced and may go back to an earlier head, which
is what the force-push epoch is for; `Retarget` and `TrunkMoves` change the base.

Times are ages, counted up to `Settle + Slow`, the oldest the program can tell apart; all
jobs' clocks agree. `Slow` bounds how long a job lives on one clock reading. Every failing
call and every act of other people counts against `MaxEvents`; reviews lag and lost races
do not. `since` and `quiet` are history variables.

Left out: which pull requests are candidates, stacks and the retargets of a plan, drafts,
review threads, who is trusted, acceptance by a plain comment. A truncated snapshot is a
failed fetch. The retry budget of `mergeWithRetry` is a retry or a failure, either of
which the forge may cause.

### AddressOwnership

An owner is one `AddressOwnership` object. The generation it creates (store directory and
anchor) is named after it, which makes inodes and UUIDs names of owners. Places of `pc`:

    new [-> doubt] -> lock -> rotation [-> unguard] -> debris [-> clear] -> view -> artifact
    artifact -> [adopt -> sweep -> retire -> retireGuard ->] mkdir -> anchor -> link -> boot
    boot -> check -> prepare -> recheck -> publish -> after -> work
    work -> check ... after -> work (a claim), -> release (a failure)
    work -> check -> prepare -> recheck -> release -> confirm -> free -> stat -> seal
         -> verify1 -> verify2 -> verify3

Each file-system call is an action that resolves its path when it runs: a rename moves
whatever is there by then, a link fails on what exists. A `readSnapshot` is one action, for
it rereads identities and refuses what changed under it. `Sound` says what it accepts,
`IdentityNow` what the fences before and after a staged record compare, `Places` the three
paths `identityAfter` tries. `Die` stops an owner at any place; its lock directory stays
and is taken over (`Steal`). A live holder is robbed at most `MaxThefts` times: this is an
owner that was suspended for longer than the stale window.

Left out: children, participants and terminal processes (whether their drain is complete
is decided before `Finish`), cancellation (an abort behind the staged certificate makes the
quarantine record meet that file and the ownership is lost), the byte bounds, the resources a
claim records, and power loss.

## 3. Runs

The runs set `CHECK_DEADLOCK FALSE`, except the nonce ledger's: an attempt ends, an owner
ends, a run of the plan ends, a merge job waits for a pull request to be opened, and nothing
obliges anybody to start another, so the system really may stop.

| Run | Instance | Shows |
|---|---|---|
| `lock_fleet` | 4 attempts: two of one process, one of a rival on its host, one of another host; any crashes | exclusion, no displaced owner, one chain of claims, foreign records only after their owner said so |
| `lock_live` | 3 attempts of 3 processes of one host, 1 fault, fairness | started acquisitions end, the dead never block, the protocol implements `Lease` |
| `governor_gate` | 3 jobs, cap 6, share 2, costs 1 and 3, two reports each, seeds 0, 3, 7 | committed money within the cap, exact ledger, no lost wakeup, a trip is final from its own step on |
| `run_crashes` | 1 job, 4 runs, cap for three dispatches, any crash, one failing append, releases | the fold accepts what is left, bodies are behind durable facts, the ledger covers the spend; quarantine, replay and freshness whatever the history |
| `run_killed` | 2 jobs, 2 runs (two jobs at once in one run, or one beside a run that finds nothing to do), 1 failing append, process and machine crashes, fairness | no acknowledged fact is folded away, orphan tombstones hide no dispatch, only a failing append makes a journal unreadable, detached bodies stay behind their lease and outside the ledger, every run returns |
| `run_live` | 1 run of 3 jobs and one that depends on them, 1 slot, a pool of 2, cap 4, a cancel, one failing append, fairness | slots exact, every run ends, also one that fails |
| `nonce_crashes` | 2 processes, 2 nonces, any deaths, crashes, failures and short writes, fairness | one grant per nonce, durable before granted, no grant over a torn file, every consume comes back |
| `nonce_posix` (violation) | the same, `SyncKeepsEntry = FALSE` | finding 1 |
| `merge_race` | 2 pull requests, a merger and an observer, one outside event, no slow job | no record of another writer lost |
| `merge_live` | 1 pull request, a merger and an observer, one outside event, a slow job, fairness | no anchor older than its code, a grant is right and settled, an approved pull request is merged |
| `ownership_crashes` | 3 owners, on an empty directory or after a completed generation, 2 deaths, 1 robbed lock, chains of 3 records | no open epoch is succeeded, a crash leaves what the next can finish, owners do not disturb themselves, a completion is unconfirmed only when its generation was swept |
| `ownership_stall` (violation) | the same without deaths | finding 2 |

### Why the bounds are enough

*Three attempts* are the smallest number with a dead owner, a claimant that has not
published and a walker past both; the fourth, on another host, brings a foreign record into
the same chain. Injected I/O faults, lost replies and fences are left to `lock_live`, one per
behaviour. The theorems of section 6 remove both bounds for the safety properties.
*Three jobs* give the gate one open reservation and a queue of two, the smallest case
in which a drain grants one waiter and leaves the next, and in which two reservations
overlap a fold; the theorems of section 6 remove that bound. Costs 1 and 3 against a share of 2 are a report under and one over the
reservation; the seeds are empty, mid-way and over the cap.
*Four runs* of a job allow die, resume, release and die again,
after which the journal's shape repeats; the theorems of section 6 hold for any number of jobs
and runs. `MaxFailures = 1` suffices because the first
failing append already stops the run. `MaxReports`, `Quota` and `MaxAttempts` bound
counters of the code.
*Two runs and two jobs* of the journal directory give an orphaned claim and its successor, a
crash behind a crash, and two dispatches of which one writes on behind the other's failed line
or is killed while the other runs. `MaxWork = 9` leaves out two concurrent dispatches with another run before or behind
them or with a report, and a dispatch in each of two runs: a run counts 3, its wave of n jobs
n * (n + 1) and a report 1. The theorems of section 6 hold for all of these. `MaxReports` counts the reports of all bodies. A report of 2
against a reservation of 1 tells a full charge, an observed one and a late one apart.
*Two processes and two nonces* of the ledger give a rival for the lock, a rival for the
nonce and a second line to fuse with; nothing else is bounded, and `grants` stays small
by the property itself.
*A merger and an observer* are the two kinds of writer of the state branch; a second pull
request gives a merge that moves another's base, and a record to lose. One outside event is
a push, a forced push, a retarget, a moved trunk, a review or a failed call between any two
steps; sequences of events, a force push away and back among them, are left to the theorems
of section 6, which bound neither events nor delays. A settle window of 1, one tick
more for a slow job and two observations per record are the smallest values with a record
that is too young, one that is settled, and one that is compacted.
*Three owners* are a predecessor, its successor and the successor that sweeps the
predecessor's generation away; two deaths leave a half-done recovery of a half-done
rotation. Chains of three records hold an opening, one claim and the end. The theorems of
section 6 remove these bounds for all four properties; the run adds a robbed holder to
`UnconfirmedOnlyIfSwept`.

### Fairness

*PlanLock*: weak fairness of an acquisition and of a retirement, per attempt. Both are
chains of awaits on the local event loop of a live process, and their steps are
continuously enabled. Starting, releasing, crashing and failing are not fair.
*Governor*: weak fairness of a dispatch's steps; a body ends because the wall-clock
ladder ends it. Evidence, abandonment and signals are not fair.
*GovernedRun*: weak fairness of each job's steps and of the end of the run; starting,
failing, cancelling and crashing are not fair.
*KilledRun*: weak fairness of the run's own steps and of each dispatch's, the last rung's timer
among them: an append comes back or fails, and a ladder with a wall clock fires. The bodies
are not fair: that a run returns although they do not is what `RunReturns` says.
*NonceLedger*: weak fairness of a process's next step. The section is synchronous code
and the wait for the lock is bounded by ten attempts, so the refusal is always enabled
while waiting. Calls, short writes, deaths and the operator are not fair. A short write
changes nothing when repeated, so it cannot starve the write that completes the line.
*MergeTrain*: weak fairness of each job's next step (the jobs are scheduled again and
again, and a call returns or fails), of the GraphQL view's catching up and of time. Nobody
has to push, review or move a branch, and failures are bounded. A lost race for the state
branch costs a job its attempt and may repeat; it does not starve the merger because a
write is only attempted for a new anchor.
*AddressOwnership* states no fairness: admission is refusal by design, and a dead owner's
open epoch waits for a human.

## 4. Findings

1. `nonce_posix`, `GrantDurable`. `nonceLedger.ts:64-66` promises that the directory entry
   is durable before `consume` resolves. An instance decides at its creation, by
   `existsSync` (`nonceLedger.ts:122`), that an existing file needs no directory sync; the
   process that created the file may have died, or its directory sync may have failed,
   before the entry was on the disk. TLC: one process opens the file and dies, another
   starts, appends, syncs and grants with no entry on the disk. Where `fdatasync` of a new
   file keeps its entry (`SyncKeepsEntry`), the promise holds and is proved.
2. `ownership_stall`, `GuardKept`. The class comment of `AddressOwnership`
   (`addressOwnership.ts:279-281`) says that active guard files are never reclaimed using
   time or process liveness. `finishRotation` validates a half rotation and then renames the
   guard by path (`addressOwnership.ts:535`); what is there may have changed since, because
   the lock under which it works is taken by time. TLC: an owner stalls past the stale
   window before it looks at its lock directory, a second one takes the lock; the first
   resumes, takes the second's lock directory for its own (line 1247), and renames the store;
   the second sees the half rotation and decides to finish it; the first finishes it,
   bootstraps, links its ACTIVE record and is at work; the second's rename carries the ACTIVE
   guard off. The first notices at its next identity check. Without a robbed live holder
   `NeverReclaimed` and the comment's own promise (`GuardHeld`) hold and are proved.

## 5. Model-checked only

Liveness (`AcquisitionEnds`, `DeadNeverBlock`, `RunEnds`, `RunReturns`, `ConsumeEnds`,
`EventuallyMerged`) is beyond the proof system, which has no rules for ENABLED.
The topological placement of jobs in waves (`Placed`) is a recursive function; the proofs use
nothing of it, so `AcyclicAssumption` is only evaluated.

Every safety invariant and action property of the passing runs is stated by a theorem of
section 6. One theorem states less than its run: `UnconfirmedOnlyIfSwept` is proved while no live
holder is robbed, and model-checked with one robbed holder. With two it fails (TLC finds it with
`MaxThefts = 2`, in a behaviour of 46 states): one robbed owner resumes at a rename of the guard
and carries a completing generation's guard off, another resumes at the link of a guard and links
it back, and the completion's three readings fall around the two. No comment of the code promises
more than that.

Some facts are proved and no longer model-checked: `TypeOK` of `PlanLock`, `Governor`,
`AddressOwnership` and `NonceLedger`, `SectionExclusive` and `TombstoneOverOwn`.

## 6. Proved

`PlanLockProofs`, for every set of attempts, processes and hosts, every assignment of
attempts to processes and every number of faults. Assumptions: `Owner` is a function
from attempts to processes, `NoRecord` is neither an attempt nor a record, and
`MaxFaults` is a natural number.

| Theorem | States |
|---|---|
| `Invariance` | `IInv` always holds |
| `TypeCorrect` | `TypeOK` |
| `Exclusion` | `MutualExclusion` |
| `NoLoss` | `NeverLost` |
| `Succession` | `OneTail` and `ClaimsOnInert` |
| `ForeignRecords` | `ForeignNeedsRelease` |
| `OwnTombstone` | `TombstoneOverOwn` |
| `PermanentClaims` | `ClaimsPermanent` |
| `Refinement` | the specification implements `Lease` |

The argument. Mutual exclusion is not inductive: nothing in it says why a claimant may
rename over a record. `IInv` says what the files mean.

- `OneTail`: the attempts that are claimants or canonical form a chain whose only
  unclaimed member is its end. `Known` adds that whatever an attempt has read is on the
  chain or already claimed.
- `ClaimsOnInert` with `Judged`: only attempts that can do nothing more are claimed,
  because an attempt at `claim` has judged its predecessor inert. `Tombs` carries the
  evidence: a released record is of an attempt that ended. This is where stale reads are
  harmless: being inert, claimed or released is permanent (`FilesAlone`).
- `Owns`: a live attempt between publication and tombstone finds its own record. When
  `a` renames (`RenameStep`), `a` is a claimant and not inert, so it is the one end of
  the chain; a live owner `b` would be canonical and not inert, hence an unclaimed member
  too, and `OneTail` makes `b` equal to `a`. When `a` claims (`ClaimStep`), the old end is
  the inert predecessor and `a` is the new end.
- `Entitled`, `Walks`, `Unlocked`, `Handles` tie places to files.

`TypeStep` and one lemma per step that changes a file give `Inductive`; steps that only
move an attempt on go through the lemma `Moves`. `Exclusion` follows from `Owns`, because
two holders would both find their own record at one name. `Refinement` maps the end of
owner setup to the lease's `Acquire`, and release or death to its `End`.

`GovernorProofs`, for every finite set of jobs, every cap, fair share,
concurrency, quota and token cap, every set of costs and seeds. Assumptions: the numbers are
natural numbers, and share, ceiling and attempts are positive.

| Theorem | States |
|---|---|
| `SlotPool` | `SlotsExact` |
| `MoneyInvariance` | `Money` always holds |
| `TypeCorrect` | `TypeOK` |
| `WithinCap` | `CommittedWithinCap` |
| `ExactLedger` | `LedgerExact` |
| `Wakeup` | `NoLostWakeup` |
| `FinalTrip` | `TripIsFinal` |

The argument. `SlotsExact` needs the queues: the waiter that gets a slot from hand to hand
must be a job that is parked there once and counted nowhere else (`Queued`), and the steps
that wake or refuse the gate's waiters move only jobs that hold a slot already
(`SameSlots`). `Money` adds what the gate's numbers mean. `Shape`: who holds a reservation,
and that nothing is folded before the body runs. `Gate`: untripped, spend that is definite
plus every reservation in full fits the cap, and a parked head does not fit beside what is
open. `Ledger`: a charge is made at the settle and not before. The heart is `DrainGate`:
the drain hands out as many shares as fit the capacity left, so the cap still holds, and
stops either with nobody waiting or at a waiter that does not fit; then something is
open, because with nothing open whatever capacity is left is granted, and with none left the
run trips. `HeldCovers`
relates the two countings of a reservation, in full (the cap) and beyond its folds (the
gate). `Fold` says why a report wakes nobody: it moves money
from a reservation into the spend, and the gate's capacity does not grow.

All of this moves terms in and out of sums over the open reservations. `SumTheorems` proves
what is needed of such sums (a sum exists and is unique, removing a member, equal and
constant terms, disjoint unions) by well-foundedness of the strict subset order: a
set for which a statement fails would contain a minimal one, and the step from a set to the
set without one member refutes that.

`GovernedRunProofs`, for every finite set of jobs, every dependency relation, every number of
runs, crashes, releases, failed appends and reports. Assumptions: those of the governor, and
that the bounds are natural numbers.

| Theorem | States |
|---|---|
| `RunInvariance` | `RunInv` always holds |
| `FoldNeverThrows` | `NeverCorrupt` |
| `WriteAhead` | `BodyBehindOpened` |
| `Quarantine` | `QuarantineHolds` |
| `InvokedOnce` | `NoSecondInvocation` |
| `Freshness` | `DoneIsFresh` |
| `GovernedWithinCap` | `CommittedWithinCap`, `NoLostWakeup` and `SlotsExact` of every run, resumed or not |
| `LedgerCovers` | `LedgerCoversSpend` |
| `CapHolds` | `SpendWithinCap` |

The argument has three layers.

- *The governor.* `Fresh` (of `GovernorProofs`) describes the state a new process is in, with
  whatever ledger the fold seeds; `FreshMoney` shows it satisfies `Money`, and each action of
  the runs is an action of the governor or leaves it alone. So `Money` holds throughout.
- *The journal.* `Log` is what holds of one job's events alone and survives the loss of any
  suffix (`LogPrefix`): that no reader finds it corrupt, and that an ok finish stands behind a
  settle that is behind every release and every reservation unresolved by then. `Track` ties
  the events to the job's place in the run in progress: nothing but a start while the job
  waits, exactly one opened reservation of the reserved amount while its body runs, every
  reservation settled once it finishes. One step moves one job's events; the others only move
  as the governor moves them (woken, refused), which `TrackDrift` shows to be harmless.
  `Synced` adds that no suffix that a crash can remove reaches an opened reservation.
- *The money.* `Cover` is what the ledger of a later run would find of a job, were this run to
  die now: the seed of its events, except that a dispatch in flight is counted at what it has
  reported, and a settled one at its charge. `CoverInv` says that what was ever spent is at
  most the sum of the covers and `lost`, and at most the ledger and `lost`. `Quietly` says the
  unsynced suffix holds no opened or settled event. A crash then leaves each job a seed of no
  less than its cover less the overshoot that `lost` records (`OvershootCovers`); of the other
  steps only a report adds to the spend, and it adds as much to its job's cover.

What the fold computes is a sum over the *set* of the positions of its counted events, not a
recursion over the sequence. That keeps it within reach of the prover: `SumTheorems` serves
both the sums over jobs and the sums over one job's events.

`NonceLedgerProofs`, for every set of processes and nonces; `SingleUse` and `DurableGrants`
also assume `SyncKeepsEntry`, without which finding 1 refutes the second.

| Theorem | States |
|---|---|
| `Exclusion` | `TypeOK` and `SectionExclusive` |
| `SingleUse` | `GrantedOnce` |
| `DurableGrants` | `GrantDurable` |
| `NeverOverTorn` | `FailClosed` |

The argument. That a nonce is granted at most once is not inductive: it must be known at
the grant that nobody was granted it since the section read the file. `Progress` says, for
each place of the section, what the process there may rely on: from the read on, its nonce
has no grant, and only its own line can be incomplete; from the write on, the line is in
the file, and from the sync on, it is on the disk. `SectionExclusive` keeps the others from
disturbing it, and `GrantDurable` is what makes the read tell the truth: a granted nonce has
a line that no machine crash can remove, hence is among the lines read. `NeverOverTorn` needs
no assumption about the file system: `Clean` says that between the read and the release only
the writer's own nonce can be torn, which its full write has repaired by the grant.

`KilledRunProofs`, for every finite set of jobs, every number of runs, reports, failing
appends, amounts and crashes, of the process and of the machine. Assumptions: the bounds and
amounts are natural numbers, and `NoJob` is not a job.

| Theorem | States |
|---|---|
| `Invariance` | `IInv` always holds |
| `FoldCompleteness` | `FoldComplete` |
| `OrphanSafety` | `OrphanSafe` |
| `CrashSafety` | `CorruptOnlyByFailure` |
| `BodyFencing` | `BodyFenced` |
| `LedgerAgreement` | `LedgerMatchesJournal` |

The argument. None of the five is inductive. `Shape` is what every file looks like whatever cut
it: only the last line is incomplete, the first and no other opens the run, and nothing
follows a first line that is not whole. It survives an append at any length (`Grows`) and a
crash of the machine (`Cut`), which is all that ever happens to a file. `Clean` is what holds of
a file while no append has failed: no unreadable line, a finish that counts its own file, a
settle behind its open; with `Live`, that the count of the live run is its lines and the
appends on their way. `CorruptOnlyByFailure` is read off from these. `FactsKept` says that
an acknowledged line is among the synced ones or was fused into an unreadable line, which
makes the reader refuse the file; `Ordered`, that the ordinals follow the order of the runs, so
that no gap hides the file of an acknowledged fact: `FoldComplete`. Of memory, `Leased`
says that a live task's process holds the lease, `TaskFenced` that every task the ladder left
makes the run `detached`, and `EnteredOpened` that a body began behind its durable
reservation; `BodyFenced` and `OrphanSafe` follow.

`MergeTrainProofs`, for every set of pull requests, jobs, heads and reviewers, every number of
outside events and every delay. Assumptions: heads and bounds are natural numbers, the settle
window is positive, a record keeps at least two observations, and `None` is none of the values
that a variable may hold beside it.

| Theorem | States |
|---|---|
| `ReadingsFresh` | a job whose commit can still land holds the branch's ledger |
| `NoLostUpdate` | `WritesOwn` |
| `TrainInvariance` | `TrainInv` always holds |
| `TrainTypes` | `TypeOK` |
| `AnchorsHonest` | `AnchorHonest` |
| `VerdictSound` | `MergeSound` |
| `GrantsSettled` | `GrantSettled` |

The argument. `NoLostUpdate` is the compare-and-swap: `Publish` makes every other commit on the
way stale, nothing else changes the ledger but time, and time ages the branch and every copy
alike. So what a writer writes differs from the branch only where the writer observed.

What a record is worth is in `Honest`: the tuple it names is one the pull request was at
(`Past`), and while the pull request still is at it, the record's ages are at most the
time since it came there. Both survive other people's acts (`Drift`), because no tuple
comes back: a branch moves to a new commit, a push goes to a later head and a forced one
begins a new epoch. The same is said of the ledger a job read and of what its snapshot names
(`ReadHonest`, `Placed`), with `Timely` for a job whose one clock reading is older than what it
reads. `Undisturbed` ties what a job has checked to `quiet`, the history variable that is reset
by any act on the pull request or on its base: while it is set, the checks passed are true of
the forge. `MergeSound` and `GrantSettled` then follow at the step that grants.

`AddressOwnershipProofs`, for every set of owners, every length of the chain and any number
of deaths and thefts. Assumptions: the names of owners, of the past generation and of
nothing are distinct, no store, snapshot or staged record is nothing, the bounds are natural
numbers, and a store has room for two records (`MAX_RECORDS` is 64).

| Theorem | States |
|---|---|
| `TypeCorrect` | `TypeOK` |
| `Invariance` | the inductive invariant `Inv` |
| `Admission` | `NeverReclaimed` |
| `Tidiness` | the inductive invariant `Tidy`, while no live holder was robbed |
| `Undisturbance` | `Undisturbed` |
| `Recovery` | `Recoverable` |
| `Confirmation` | `UnconfirmedOnlyIfSwept`, while no live holder was robbed |
| `GuardHeld` | `GuardEnds`, the step of `GuardKept`, while no live holder was robbed |

The argument. That at most one epoch is open is not inductive: it must be known that
nobody between admission and his ACTIVE record can still write it once another epoch is
open. While no live holder was robbed, the mutex is exclusive from admission to release,
also over deaths. `Fenced` says what the comparisons before a link leave: the live chain is
the one the owner last saw, and what is staged at the next slot is his own record. `History`
says that an engaged owner has an open epoch. `Barrier` says that an open epoch is the end
of the live, guarded chain, and that everyone else is at a place that turns him away: not
yet in the mutex, or in it before the reading that refuses an ACTIVE end, or past a
release. A completion's link comes after the release, and is safe because the tail is
still ACTIVE: no successor can rotate the generation away before it.

`Tidy` says what the files look like between any two calls. `FileShape` has three cases: a
store without a guard is a bootstrap that was broken off, a guard without a store is half a
rotation whose other half is retired, and with both the generation is in order but for a staged
record. `Grave` says that a retired generation is whole, ended, and under its own name, which
nothing live bears any more; `Unborn`, that an owner's name is on nothing before its `mkdir`. With
these, `Held` says of every place under the mutex, and of a completion up to its link, that the
snapshot is what the files still are; so every reading an owner makes before it may be
disturbed finds what it expects (`Identity`, `FoundAfter`), and `lose` is out of reach. A step
that changes the files is made by the only owner who watches them (`Alone`, `LoudStep`); the
others leave them alone (`CalmStep`). `Recoverable` is read off from the shapes. `Vouched` is the
race of `identityAfter` with a rotation: a generation goes from the live path to the retired store
and its guard to the retired guard (`Fate`), which is the order in which the three places are
read, so the certificate never slips behind a reading.

## 7. Running it

    tlasany PlanLock.tla
    tlc -workers 2 -config PlanLock_fleet.cfg MCPlanLock
    tlapm PlanLockProofs.tla
    tlapm GovernorProofs.tla
    tlapm GovernedRunProofs.tla
    tlapm KilledRunProofs.tla
    tlapm MergeTrainProofs.tla
    tlc -workers 2 -config KilledRun_crashes.cfg MCKilledRun
    tlc -workers 2 -config MergeTrain_live.cfg MCMergeTrain
    tlc -workers 2 -config AddressOwnership_crashes.cfg MCAddressOwnership
    tlapm AddressOwnershipProofs.tla

## 8. Not modelled, and why

- *Drivers, harness, adapters, sandbox, registry, configuration, CLI*: input and output
  around subprocesses; what the kernel needs of them (a body reports evidence and ends) is
  in `Governor`.
- *Operations*: mostly sequential functions over git and the forge. `executeMerges` is in
  `MergeTrain`, and the ownership of the address stage is `AddressOwnership`.
- *Novel-error ledger store*, and the rest of *Git mutex*: what happens to a holder that is
  slower than its lock is decided by proper-lockfile, which is not in this repository.
  `AddressOwnership` models the mutex from its caller's side: one attempt, takeover of a
  stale lock, a release that fails or removes the thief's directory.
- *Run report*: a sequential pass over the finished outcome table.
- *crq*: a separate program.

## 9. Plan

1. Participants, children and terminal processes of the address stage: which of them the
   completion waits for.
2. The review loop's rounds, the sweep's task loop and the process kill sequence, as far as
   the code's own logic goes.
