----------------------------- MODULE MergeTrain -----------------------------
(***************************************************************************)
(* The self-host merge train: the settle ledger on the state branch        *)
(* (policy/queue/settle-state.ts, selfhost/state-branch.ts), the           *)
(* observation pass and the merge-time recheck (selfhost/merge-recheck.ts) *)
(* and the merge loop they gate (ops/merge/executeMerges.ts).              *)
(*                                                                         *)
(* Several jobs run at once: an observer only anchors the code of the open *)
(* pull requests, a merger anchors it and then tries to merge each.  The   *)
(* forge is external: its pull requests move under them at any time, its   *)
(* GraphQL view of the reviews lags, and calls fail.                       *)
(*                                                                         *)
(* Time is kept as ages: a time stamp is how long ago it was taken, up to  *)
(* the longest age the program can tell apart; the jobs' clocks agree.     *)
(*                                                                         *)
(* Left out: the classification of candidates (a merger tries every open   *)
(* pull request), stacks, drafts, review threads, which actors are trusted *)
(* (Reviewers are those who are) and acceptance by a plain comment.  A     *)
(* truncated snapshot is a failed fetch.                                   *)
(***************************************************************************)
EXTENDS Naturals, Sequences, FiniteSetsExt, Functions

CONSTANTS
  PRs,          \* pull requests
  Workers,      \* running jobs
  Mergers,      \* those that merge after they observed
  Reviewers,    \* the trusted reviewers
  Heads,        \* commits of a pull request; a larger one descends from a smaller
  Trunk,        \* the branch the train merges into
  Elsewhere,    \* another branch, first cut at the trunk's tip
  Settle,       \* settleMs: how long the code must stand still
  Slow,         \* bound on the time between a clock reading and its use
  MaxObs,       \* MAX_OBSERVATIONS_PER_PR
  MaxEvents,    \* bound on what other people do and on calls that fail
  None

ASSUME TrainAssumption ==
  /\ Mergers \subseteq Workers
  /\ Heads \subseteq Nat /\ {Settle, Slow, MaxObs, MaxEvents} \subseteq Nat
  /\ Settle > 0 /\ MaxObs > 1
  /\ Trunk # Elsewhere

VARIABLES
  pr,           \* the pull requests, as the forge has them
  tip,          \* the commit each branch points to
  shown,        \* the reviews as the forge's GraphQL side shows them
  ledger,       \* the settle ledger at the tip of the state branch
  since,        \* history: how long ago the head of a PR or the trunk last moved
  pc,           \* where each job is
  plan,         \* the heads a job listed at its start, None for an unlisted PR
  todo,         \* the listed pull requests the current phase still has before it
  cur,          \* the pull request under recheck, None during the observation
  snap,         \* the snapshots a job holds
  stamp,        \* the age of its clock reading
  read,         \* the ledger it read
  atTip,        \* the commit it read is still the tip of the state branch
  quiet,        \* history: nobody touched the PR since its base was pinned
  events        \* how much of MaxEvents has happened

forgeVars == <<pr, tip, since>>
jobVars == <<pc, plan, todo, cur, snap, stamp, read, atTip>>
vars == <<forgeVars, shown, ledger, jobVars, quiet, events>>

MaxAge == Settle + Slow
Ages == 0 .. MaxAge
Branches == {Trunk, Elsewhere}
Opinion == [state : {"approved", "changes"}, at : Heads] \union {None}
PullRequest == [open : BOOLEAN, head : Heads, epoch : Nat, onto : Branches,
                review : [Reviewers -> Opinion], clear : BOOLEAN]
Tuple == [head : Heads, base : Nat, epoch : Nat]
SettleRecord ==
  [tuple : Tuple, obs : UNION {[1 .. n -> Ages] : n \in 1 .. MaxObs}]
Ledger == [PRs -> SettleRecord \union {None}]
Snapshot == [open : BOOLEAN, tuple : Tuple, onto : Branches,
             review : [Reviewers -> Opinion], clear : BOOLEAN]

ASSUME NoneAssumption ==
  /\ None \notin PRs /\ None \notin Heads /\ None \notin Snapshot
  /\ None \notin [state : {"approved", "changes"}, at : Heads]

PC == {"idle", "snapshot", "next", "fetch", "stamp", "read", "cross", "judge",
       "anchor", "persist", "merge"}

TypeOK ==
  /\ pr \in [PRs -> PullRequest] /\ tip \in [Branches -> Nat]
  /\ shown \in [PRs -> [Reviewers -> Opinion]]
  /\ ledger \in Ledger /\ since \in [PRs -> Ages]
  /\ pc \in [Workers -> PC]
  /\ plan \in [Workers -> [PRs -> Heads \union {None}]]
  /\ todo \in [Workers -> SUBSET PRs] /\ cur \in [Workers -> PRs \union {None}]
  /\ snap \in [Workers -> [PRs -> Snapshot \union {None}]]
  /\ stamp \in [Workers -> Ages] /\ read \in [Workers -> Ledger]
  /\ atTip \in [Workers -> BOOLEAN] /\ quiet \in [Workers -> BOOLEAN]
  /\ events \in 0 .. MaxEvents

Unread == [p \in PRs |-> None]

Init ==
  /\ \E h \in Heads, given \in [PRs -> [Reviewers -> Opinion]] :
       /\ \A q \in Heads : h <= q
       /\ pr = [p \in PRs |-> [open |-> TRUE, head |-> h, epoch |-> 0, onto |-> Trunk,
                               review |-> given[p], clear |-> FALSE]]
       /\ \A p \in PRs, r \in Reviewers :
            given[p][r] \in {None, [state |-> "approved", at |-> h]}
       /\ shown = given
  /\ tip = [b \in Branches |-> 0]
  /\ ledger = Unread
  /\ since = [p \in PRs |-> 0]
  /\ pc = [w \in Workers |-> "idle"]
  /\ plan = [w \in Workers |-> Unread]
  /\ todo = [w \in Workers |-> {}]
  /\ cur = [w \in Workers |-> None]
  /\ snap = [w \in Workers |-> Unread]
  /\ stamp = [w \in Workers |-> 0]
  /\ read = [w \in Workers |-> Unread]
  /\ atTip = [w \in Workers |-> FALSE]
  /\ quiet = [w \in Workers |-> FALSE]
  /\ events = 0
-----------------------------------------------------------------------------
(* The settle ledger's rules (settle-state.ts).                            *)

SameTuple(a, b) == a = b

Compact_Never(obs) == obs

(* Over the cap, the anchor and the newest observations are kept. *)
Compact(obs) ==
  IF Len(obs) > MaxObs
    THEN <<obs[1]>> \o SubSeq(obs, Len(obs) - MaxObs + 2, Len(obs))
    ELSE obs

(* observeWithChange: the same tuple gains an observation, any other       *)
(* replaces the record.                                                    *)
Appends(record, tuple) == record # None /\ SameTuple(record.tuple, tuple)

Observe_Merging(record, tuple, at) ==
  [tuple |-> tuple,
   obs |-> Compact(IF record # None THEN Append(record.obs, at) ELSE <<at>>)]

Observe_Afresh(record, tuple, at) == [tuple |-> tuple, obs |-> <<at>>]

Observe(record, tuple, at) ==
  [tuple |-> tuple,
   obs |-> Compact(IF Appends(record, tuple) THEN Append(record.obs, at) ELSE <<at>>)]

(* settleStatus, of a record that holds the recheck's own observation. *)
Future(record, at) == \E i \in DOMAIN record.obs : record.obs[i] < at

Settled_UntilNow(record, at) == Len(record.obs) > 1 /\ record.obs[1] >= Settle

Settled(record, at) ==
  /\ ~Future(record, at)
  /\ Len(record.obs) > 1
  /\ record.obs[1] - record.obs[Len(record.obs)] >= Settle
-----------------------------------------------------------------------------
(* The judgment of a snapshot (merge-recheck.ts).  An opinion is a         *)
(* reviewer's latest approval or objection that was not dismissed.         *)

(* judgeAtHead: no trusted objection at any commit, and an approval of     *)
(* exactly this one.                                                       *)
Accepted(review, head) ==
  /\ \A r \in Reviewers : review[r] # None => review[r].state # "changes"
  /\ \E r \in Reviewers : review[r] = [state |-> "approved", at |-> head]

(* hasAllClear: a trusted statement that is newer than the newest review   *)
(* and stands beside an approval of the head replaces the wait.            *)
AllClear(s) == s.clear /\ Accepted(s.review, s.tuple.head)

TupleOf(p) == [head |-> pr[p].head, base |-> tip[pr[p].onto], epoch |-> pr[p].epoch]

Snapped(p) == [open |-> pr[p].open, tuple |-> TupleOf(p), onto |-> pr[p].onto,
               review |-> shown[p], clear |-> pr[p].clear]
-----------------------------------------------------------------------------
(* Other people at the forge.                                              *)

Event == events < MaxEvents /\ events' = events + 1
NoEvent == UNCHANGED events
ForgeStill == UNCHANGED <<forgeVars, shown>>

Touched(ps) == quiet' = [w \in Workers |-> quiet[w] /\ cur[w] \notin ps]
OnlyForge == UNCHANGED <<shown, ledger, jobVars>>

(* A push moves on to a descendant; a force push goes anywhere, also back  *)
(* to an earlier head.                                                     *)
Push(p, h) ==
  /\ Event /\ pr[p].open /\ h # pr[p].head
  /\ \E forced \in BOOLEAN :
       /\ forced \/ h > pr[p].head
       /\ pr' = [pr EXCEPT ![p].head = h, ![p].epoch = @ + (IF forced THEN 1 ELSE 0)]
  /\ since' = [since EXCEPT ![p] = 0]
  /\ Touched({p}) /\ UNCHANGED tip /\ OnlyForge

Review(p, r, opinion) ==
  /\ Event /\ pr[p].open /\ opinion # pr[p].review[r]
  /\ opinion # None => opinion.at = pr[p].head
  /\ pr' = [pr EXCEPT ![p].review[r] = opinion, ![p].clear = FALSE]
  /\ Touched({p}) /\ UNCHANGED <<tip, since>> /\ OnlyForge

GiveAllClear(p) ==
  /\ Event /\ pr[p].open /\ ~pr[p].clear
  /\ pr' = [pr EXCEPT ![p].clear = TRUE]
  /\ Touched({p}) /\ UNCHANGED <<tip, since>> /\ OnlyForge

Retarget(p, b) ==
  /\ Event /\ pr[p].open /\ b # pr[p].onto
  /\ pr' = [pr EXCEPT ![p].onto = b]
  /\ Touched({p}) /\ UNCHANGED <<tip, since>> /\ OnlyForge

(* A branch moves to a new commit, and with it the base of every pull      *)
(* request onto it.                                                        *)
Onto(b) == {p \in PRs : pr[p].onto = b}
Advance(b) ==
  /\ tip' = [tip EXCEPT ![b] = 1 + Max({tip[c] : c \in Branches})]
  /\ since' = IF b = Trunk THEN [p \in PRs |-> 0] ELSE since

TrunkMoves ==
  /\ Event /\ Advance(Trunk)
  /\ Touched(Onto(Trunk)) /\ UNCHANGED pr /\ OnlyForge

(* The GraphQL side catches up. *)
CatchUp(p) ==
  /\ shown[p] # pr[p].review
  /\ shown' = [shown EXCEPT ![p] = pr[p].review]
  /\ UNCHANGED <<forgeVars, ledger, jobVars, quiet, events>>

(* Time passes.  A recheck uses its clock reading within Slow.             *)
Older(a) == IF a < MaxAge THEN a + 1 ELSE MaxAge
OlderLedger(l) ==
  [p \in PRs |-> IF l[p] = None THEN None
                 ELSE [l[p] EXCEPT !.obs = [i \in DOMAIN l[p].obs |-> Older(l[p].obs[i])]]]
Stamped == {"read", "cross", "judge", "anchor", "persist"}
Timed(w) == pc[w] \in {"read", "cross", "judge"}

Tick ==
  /\ \A w \in Workers : Timed(w) => stamp[w] < Slow
  /\ since' = [p \in PRs |-> Older(since[p])]
  /\ ledger' = OlderLedger(ledger)
  /\ read' = [w \in Workers |-> OlderLedger(read[w])]
  /\ stamp' = [w \in Workers |-> IF pc[w] \in Stamped THEN Older(stamp[w]) ELSE 0]
  /\ UNCHANGED <<pr, tip, shown, pc, plan, todo, cur, snap, atTip, quiet, events>>
-----------------------------------------------------------------------------
(* A job's pass: list, snapshot every listed PR, anchor.                   *)

At(w, at) == pc[w] = at
Goto(w, to) == pc' = [pc EXCEPT ![w] = to]
Listed(w) == {p \in PRs : plan[w][p] # None}

(* The observer lists the pull requests onto the trunk, the merger all.    *)
Open(w) == {p \in PRs : pr[p].open /\ (w \in Mergers \/ pr[p].onto = Trunk)}

StartPass(w) ==
  /\ At(w, "idle") /\ Open(w) # {}
  /\ plan' = [plan EXCEPT ![w] = [p \in PRs |-> IF p \in Open(w) THEN pr[p].head ELSE None]]
  /\ todo' = [todo EXCEPT ![w] = Open(w)]
  /\ Goto(w, "snapshot")
  /\ ForgeStill /\ NoEvent /\ UNCHANGED <<ledger, cur, snap, stamp, read, atTip, quiet>>

(* One pull request's snapshot; closed, truncated and failed ones are      *)
(* skipped.                                                                *)
TakeSnapshot(w) ==
  /\ At(w, "snapshot")
  /\ \E p \in todo[w] :
       /\ \/ /\ snap' = [snap EXCEPT ![w][p] = IF pr[p].open THEN Snapped(p) ELSE None]
             /\ NoEvent
          \/ UNCHANGED snap /\ Event
       /\ todo' = [todo EXCEPT ![w] = @ \ {p}]
       /\ Goto(w, IF todo[w] = {p} THEN "stamp" ELSE "snapshot")
  /\ ForgeStill /\ UNCHANGED <<ledger, plan, cur, stamp, read, atTip, quiet>>

(* Where a job goes after its observation: the merger to its merges.       *)
Merging(w, still) ==
  IF w \in Mergers /\ still # {}
    THEN Goto(w, "next") /\ UNCHANGED plan
    ELSE Goto(w, "idle") /\ plan' = [plan EXCEPT ![w] = Unread]

(* Leave what the job was doing, with the pull requests it still has to do. *)
Abandon(w, still) ==
  /\ Merging(w, still)
  /\ todo' = [todo EXCEPT ![w] = IF w \in Mergers THEN still ELSE {}]
  /\ cur' = [cur EXCEPT ![w] = None]
  /\ snap' = [snap EXCEPT ![w] = Unread]
  /\ stamp' = [stamp EXCEPT ![w] = 0]
  /\ read' = [read EXCEPT ![w] = Unread]

Leave(w, still) == Abandon(w, still) /\ quiet' = [quiet EXCEPT ![w] = FALSE]

EndObservation(w) == Leave(w, Listed(w))
EndRecheck(w) == Leave(w, todo[w] \ {cur[w]})

(* The clock is read once, after the fetch; of a recheck's snapshot the    *)
(* structural gates are then decided.                                      *)
Passes(w) ==
  LET s == snap[w][cur[w]]
  IN s.open /\ s.tuple.head = plan[w][cur[w]] /\ s.onto = Trunk

ReadClock(w) ==
  /\ At(w, "stamp")
  /\ IF cur[w] # None /\ ~Passes(w)
       THEN EndRecheck(w)
       ELSE /\ stamp' = [stamp EXCEPT ![w] = 0]
            /\ Goto(w, "read")
            /\ UNCHANGED <<plan, todo, cur, snap, read, quiet>>
  /\ ForgeStill /\ NoEvent /\ UNCHANGED <<ledger, atTip>>

(* What an observation of the held snapshots makes of the ledger: the      *)
(* unlisted are pruned, an unchanged tuple gains nothing.                  *)
Anchored(w, l) ==
  [p \in PRs |->
     IF p \notin Listed(w) THEN None
     ELSE IF snap[w][p] = None \/ Appends(l[p], snap[w][p].tuple) THEN l[p]
     ELSE Observe(l[p], snap[w][p].tuple, stamp[w])]

(* What a recheck makes of it. *)
Rechecked(w, l) ==
  [l EXCEPT ![cur[w]] = Observe(@, snap[w][cur[w]].tuple, stamp[w])]

(* readSettleState: the tip, then the file at that commit.  The observation *)
(* then writes only what is material.                                       *)
ReadLedger(w) ==
  /\ At(w, "read")
  /\ \/ /\ cur[w] # None \/ Anchored(w, ledger) # ledger
        /\ read' = [read EXCEPT ![w] = ledger]
        /\ atTip' = [atTip EXCEPT ![w] = TRUE]
        /\ Goto(w, IF cur[w] = None THEN "anchor" ELSE "cross")
        /\ NoEvent /\ UNCHANGED <<plan, todo, cur, snap, stamp, quiet>>
     \/ /\ cur[w] = None /\ Anchored(w, ledger) = ledger
        /\ EndObservation(w) /\ NoEvent /\ UNCHANGED atTip
     \/ /\ IF cur[w] = None THEN EndObservation(w) ELSE EndRecheck(w)
        /\ Event /\ UNCHANGED atTip
  /\ ForgeStill /\ UNCHANGED ledger
-----------------------------------------------------------------------------
(* One pull request of a merger's pass (executeMerges, recheckBeforeMerge). *)

(* runAction: the head is still the planned one and the base still the      *)
(* trunk, whose name is pinned; otherwise the pull request is stale.        *)
Pin(w) ==
  /\ At(w, "next")
  /\ \E p \in todo[w] :
       IF pr[p].head = plan[w][p] /\ pr[p].onto = Trunk
         THEN /\ cur' = [cur EXCEPT ![w] = p]
              /\ quiet' = [quiet EXCEPT ![w] = TRUE]
              /\ Goto(w, "fetch")
              /\ UNCHANGED <<plan, todo, snap, stamp, read>>
         ELSE Leave(w, todo[w] \ {p})
  /\ ForgeStill /\ NoEvent /\ UNCHANGED <<ledger, atTip>>

(* The immediate re-fetch. *)
Fetch(w) ==
  /\ At(w, "fetch")
  /\ \/ /\ snap' = [snap EXCEPT ![w][cur[w]] = Snapped(cur[w])]
        /\ Goto(w, "stamp")
        /\ NoEvent /\ UNCHANGED <<plan, todo, cur, stamp, read, quiet>>
     \/ EndRecheck(w) /\ Event
  /\ ForgeStill /\ UNCHANGED <<ledger, atTip>>

(* A refusal after the observation writes only a new anchor. *)
Refuse(w) ==
  IF Appends(read[w][cur[w]], snap[w][cur[w]].tuple)
    THEN EndRecheck(w) /\ atTip' = [atTip EXCEPT ![w] = FALSE]
    ELSE Goto(w, "anchor") /\ UNCHANGED <<plan, todo, cur, snap, stamp, read, atTip, quiet>>

Agrees_Always(p, s) == TRUE

(* checkReviewDataLag: every review the REST side has is in the snapshot,  *)
(* in the same state and at the same commit.                               *)
Agrees(p, s) == s.review = pr[p].review

CrossCheck(w) ==
  /\ At(w, "cross")
  /\ \/ /\ Agrees(cur[w], snap[w][cur[w]])
        /\ Goto(w, "judge")
        /\ NoEvent /\ UNCHANGED <<plan, todo, cur, snap, stamp, read, atTip, quiet>>
     \/ ~Agrees(cur[w], snap[w][cur[w]]) /\ Refuse(w) /\ NoEvent
     \/ Refuse(w) /\ Event
  /\ ForgeStill /\ UNCHANGED ledger

(* Head-bound acceptance, and settled on the observed ledger: an all-clear *)
(* replaces only the wait, never a record from the future.                 *)
Grants(w) ==
  LET s == snap[w][cur[w]]
      record == Rechecked(w, read[w])[cur[w]]
  IN /\ Accepted(s.review, s.tuple.head)
     /\ Settled(record, stamp[w]) \/ (AllClear(s) /\ ~Future(record, stamp[w]))

Judge(w) ==
  /\ At(w, "judge")
  /\ IF Grants(w)
       THEN Goto(w, "persist") /\ UNCHANGED <<plan, todo, cur, snap, stamp, read, atTip, quiet>>
       ELSE Refuse(w)
  /\ ForgeStill /\ NoEvent /\ UNCHANGED ledger
-----------------------------------------------------------------------------
(* writeSettleState: a commit on top of the one that was read, to which the *)
(* branch moves only if it can fast-forward.                               *)

Lands_Forced(w) == TRUE
Lands(w) == atTip[w]

Publish(w) ==
  /\ Lands(w)
  /\ ledger' = IF cur[w] = None THEN Anchored(w, read[w]) ELSE Rechecked(w, read[w])
  /\ atTip' = [v \in Workers |-> FALSE]

(* Nothing is published: another writer was faster, or a call failed. *)
Loses(w) == UNCHANGED ledger /\ atTip' = [atTip EXCEPT ![w] = FALSE]

SaveAnchor(w) ==
  /\ At(w, "anchor")
  /\ \/ Publish(w) /\ NoEvent
     \/ Loses(w) /\ (IF Lands(w) THEN Event ELSE NoEvent)
  /\ IF cur[w] = None THEN EndObservation(w) ELSE EndRecheck(w)
  /\ ForgeStill

(* The verdict ok is answered only once its observation is durable; the    *)
(* reply of a write that took effect may be lost.                          *)
SaveVerdict(w) ==
  /\ At(w, "persist")
  /\ \/ /\ Publish(w) /\ NoEvent /\ Goto(w, "merge")
        /\ snap' = [snap EXCEPT ![w] = Unread] /\ read' = [read EXCEPT ![w] = Unread]
        /\ stamp' = [stamp EXCEPT ![w] = 0]
        /\ UNCHANGED <<plan, todo, cur, quiet>>
     \/ Publish(w) /\ Event /\ EndRecheck(w)
     \/ Loses(w) /\ (IF Lands(w) THEN Event ELSE NoEvent) /\ EndRecheck(w)
  /\ ForgeStill

(* The forge merges an open pull request whose head is the pinned one, into *)
(* whatever its base is by then.                                            *)
ForgeTakes(w) == pr[cur[w]].open /\ pr[cur[w]].head = plan[w][cur[w]]

(* mergePr.  Any failure but "base branch was modified" is final for this  *)
(* pass; that one sends the pull request back to its revalidation.         *)
Merge(w) ==
  /\ At(w, "merge")
  /\ LET p == cur[w]
         b == pr[p].onto
     IN \/ /\ ForgeTakes(w)
           /\ pr' = [pr EXCEPT ![p].open = FALSE]
           /\ Advance(b)
           /\ NoEvent /\ Abandon(w, todo[w] \ {p})
           /\ quiet' = [v \in Workers |-> v # w /\ quiet[v] /\ cur[v] \notin Onto(b)]
        \/ /\ IF ForgeTakes(w) THEN Event ELSE NoEvent
           /\ UNCHANGED forgeVars
           /\ EndRecheck(w) \/ (ForgeTakes(w) /\ Leave(w, todo[w]))
  /\ UNCHANGED <<shown, ledger, atTip>>
-----------------------------------------------------------------------------
Step(w) ==
  \/ StartPass(w) \/ TakeSnapshot(w) \/ ReadClock(w) \/ ReadLedger(w)
  \/ Pin(w) \/ Fetch(w) \/ CrossCheck(w) \/ Judge(w)
  \/ SaveAnchor(w) \/ SaveVerdict(w) \/ Merge(w)

Others ==
  \/ \E p \in PRs :
       \/ \E h \in Heads : Push(p, h)
       \/ \E r \in Reviewers, o \in Opinion : Review(p, r, o)
       \/ GiveAllClear(p)
       \/ \E b \in Branches : Retarget(p, b)
  \/ TrunkMoves

Next ==
  \/ \E w \in Workers : Step(w)
  \/ Others
  \/ \E p \in PRs : CatchUp(p)
  \/ Tick

Spec == Init /\ [][Next]_vars

(* The jobs are scheduled again and again and their calls return, the      *)
(* forge's two sides converge, time passes.  Nobody has to push or review. *)
Fairness ==
  /\ \A w \in Workers : WF_vars(Step(w))
  /\ \A p \in PRs : WF_vars(CatchUp(p))
  /\ WF_vars(Tick)

FairSpec == Spec /\ Fairness
-----------------------------------------------------------------------------
(* A verdict that nobody disturbed since the base was pinned is right about *)
(* the forge itself, not only about a snapshot: open, at the planned head,  *)
(* onto the trunk, approved at exactly that head and without an objection,  *)
(* however far the GraphQL side lags.                                       *)
MergeSound ==
  \A w \in Workers : pc[w] = "merge" /\ quiet[w] =>
    LET p == cur[w]
    IN /\ pr[p].open /\ pr[p].head = plan[w][p] /\ pr[p].onto = Trunk
       /\ [state |-> "approved", at |-> pr[p].head] \in Range(pr[p].review)
       /\ ~\E r \in Reviewers, h \in Heads :
             pr[p].review[r] = [state |-> "changes", at |-> h]

(* Without an all-clear, code is granted only when head and base had stood *)
(* still for the settle window when the clock was read, also across a      *)
(* force push away and back and a lost race for the state branch.          *)
GrantSettled ==
  [][\A w \in Workers : pc[w] = "judge" /\ pc'[w] = "persist" /\ quiet[w] =>
       \/ since[cur[w]] - stamp[w] >= Settle
       \/ AllClear(snap[w][cur[w]])]_vars

(* The ledger never says a pull request's present code has stood longer    *)
(* than it has, whoever wrote last and however late.                       *)
AnchorHonest ==
  \A p \in PRs :
    ledger[p] # None /\ ledger[p].tuple = TupleOf(p) /\ pr[p].onto = Trunk =>
      ledger[p].obs[1] <= since[p]

(* No update is lost: a write leaves the records alone that its writer did *)
(* not observe, whatever others wrote since the writer read the branch.    *)
WritesOwn ==
  [][\A w \in Workers : pc[w] \in {"anchor", "persist"} /\ pc'[w] # pc[w] =>
       \A p \in PRs :
         \/ ledger'[p] = ledger[p]
         \/ IF cur[w] = None THEN snap[w][p] # None \/ p \notin Listed(w)
                             ELSE p = cur[w]]_vars

(* A pull request does not stay approved at its head for ever without being *)
(* merged, though jobs race for the state branch and each merge moves the   *)
(* base of the others.  (While some open pull request is not onto the       *)
(* trunk, the observer prunes what the merger anchors, and they may race.)  *)
Mergeable(p) ==
  /\ pr[p].open /\ Accepted(pr[p].review, pr[p].head)
  /\ \A q \in PRs : pr[q].open => pr[q].onto = Trunk

EventuallyMerged == \A p \in PRs : []<>~Mergeable(p)
=============================================================================
