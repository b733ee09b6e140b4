--------------------------- MODULE AddressOwnership ---------------------------
(***************************************************************************)
(* The common-directory owner of the address stage                         *)
(* (src/ops/review/internal/addressOwnership.ts, AddressOwnership.withLock *)
(* over gitMutex.withLock): an append-only authority chain in a store      *)
(* directory, authenticated by a hard-linked anchor at the guard path,     *)
(* which admits one owner at a time and, once an epoch is ACTIVE, nobody   *)
(* until that epoch's own quiescence record is linked.                     *)
(*                                                                         *)
(* An owner is one AddressOwnership object: one lifetime, one epoch, at    *)
(* most one generation (store directory and anchor), named after it.       *)
(* Every file-system call is a step of its own and resolves its path when  *)
(* it runs; a readSnapshot is one step (it compares what it read with what *)
(* the paths name afterwards).  An owner may stop for good at any step,    *)
(* leaving its lock directory; the lock of a dead holder goes stale and is *)
(* taken over, and up to MaxThefts times so is that of a live holder that  *)
(* only stalled past the stale window.                                     *)
(*                                                                         *)
(* Left out: power loss (every fsync), children, participants and terminal *)
(* processes (their drain is the step from work to completion), the byte   *)
(* bounds, cancellation, and I/O errors other than the existence errors    *)
(* the code relies on.  The claimed resources of a record are left out;    *)
(* that a claim appended a record is not.                                  *)
(***************************************************************************)
EXTENDS Naturals, Sequences, FiniteSets

CONSTANTS
    Owners,      \* the AddressOwnership objects of the run
    Past,        \* the owner of the generation found at the start
    None,        \* no owner, anchor, store or record
    MaxRecords,  \* MAX_RECORDS, the records one store may hold
    MaxThefts,   \* bound: locks taken from a holder that is alive
    MaxDeaths    \* bound: owners that stop for good

States == {"active", "quiescent", "quarantined"}

ASSUME OwnersAssumption ==
    /\ Past \notin Owners /\ None \notin Owners \cup {Past} \cup States
    /\ MaxRecords \in Nat /\ MaxRecords > 1 /\ MaxThefts \in Nat /\ MaxDeaths \in Nat

VARIABLES
    lock,     \* the owner whose directory is at <common>/...ownership.lock
    live,     \* the directory at the store path
    guard,    \* the anchor linked at the guard path
    retired,  \* [anchor -> the directory at the store's retired path]
    rguard,   \* [anchor -> the anchor linked at the guard's retired path]
    pc,       \* [owner -> the step it is at]
    art,      \* [owner -> this.artifact, the lock directory it remembers]
    snap,     \* [owner -> this.snapshot]
    what,     \* [owner -> the record it is writing]
    thefts,   \* how many live holders have been robbed
    opened,   \* history: the epochs whose ACTIVE record was linked
    closed    \* history: the epochs whose quiescence record was linked

files == <<live, guard, retired, rguard>>
vars == <<lock, live, guard, retired, rguard, pc, art, snap, what, thefts,
          opened, closed>>

Ids == Owners \cup {Past}

-------------------------------------------------------------------------------
(* The authority store. *)

Records == [anchor : Ids, epoch : Ids, state : States]

\* `staged` is the pending-<n>.json that is not linked yet; `junk` stands for
\* any entry outside the grammar (a quarantine marker, a second staging file).
Stores == [id : Ids, anchor : Ids \cup {None}, recs : Seq(Records),
           staged : [at : Nat, rec : Records] \cup {None}, junk : BOOLEAN]

\* What a snapshot keeps of the store it read: its anchor, its inode, and the
\* digest of the last record, which fixes the whole chain.
Snapshots == [anchor : Ids, id : Ids, recs : Seq(Records)]

ASSUME StoresAssumption ==
    None \notin Stores \cup Snapshots \cup [at : Nat, rec : Records]

NewStore(p) ==
    [id |-> p, anchor |-> None, recs |-> <<>>, staged |-> None, junk |-> FALSE]

\* The order readSnapshot accepts between a record and the one before it.
Follows(next, prev) ==
    \/ prev.state = "quiescent" /\ next.state = "active" /\ next.epoch # prev.epoch
    \/ prev.state = "active" /\ next.epoch = prev.epoch

Chain(s) ==
    /\ \A i \in DOMAIN s.recs : s.recs[i].anchor = s.anchor
    /\ Len(s.recs) > 0 => s.recs[1].state = "active"
    /\ \A i \in DOMAIN s.recs : i > 1 => Follows(s.recs[i], s.recs[i - 1])

\* readSnapshot succeeds: `s` is the directory it opened, `g` the anchor at the
\* guard path it was given.  `pend` is this.pending of the reader (0 for none),
\* the one uncommitted staging file it tolerates.
Sound(s, g, pend, allowEmpty) ==
    /\ s # None /\ g # None
    /\ s.anchor = g
    /\ ~s.junk
    /\ s.staged # None => s.staged.at = Len(s.recs) + 1 /\ s.staged.at = pend
    /\ Len(s.recs) <= MaxRecords
    /\ Chain(s)
    /\ s.recs = <<>> => allowEmpty

Last(s) == s.recs[Len(s.recs)]
Quiescent(s) == s.recs # <<>> /\ Last(s).state = "quiescent"

SnapOf(s) == [anchor |-> s.anchor, id |-> s.id, recs |-> s.recs]

-------------------------------------------------------------------------------
(* What an owner holds. *)

Writing == {"recheck", "publish", "after", "release", "confirm", "free", "stat", "seal",
            "verify1", "verify2", "verify3"}

NextSlot(p) == Len(snap[p].recs) + 1

\* this.pending: set before the staging file is created, cleared at the end of
\* the transition (or of the completion).
Pending(p) ==
    IF \/ pc[p] \in {"recheck", "publish", "after"}
       \/ pc[p] \in Writing /\ what[p] = "quiescent"
    THEN NextSlot(p) ELSE 0

\* identityNow(): the live store, guard and chain are the ones this owner last
\* saw, and the lock directory is the one it was admitted under.
IdentityNow(p) ==
    /\ Sound(live, guard, Pending(p), snap[p].recs = <<>>)
    /\ SnapOf(live) = snap[p]
    /\ lock # None /\ lock = art[p]

\* The record this owner is writing.
Record(p) ==
    [anchor |-> snap[p].anchor, epoch |-> p, state |-> what[p]]

\* identityAfter()'s test of one place the generation may be: it is this
\* owner's store and holds `n` records of the expected chain.
Holds(p, s, g, chain) ==
    /\ Sound(s, g, Pending(p), FALSE)
    /\ s.id = snap[p].id /\ s.anchor = snap[p].anchor
    /\ Len(s.recs) >= Len(chain) /\ SubSeq(s.recs, 1, Len(chain)) = chain

\* The three places, in the order the code tries them.
Places(p) ==
    LET a == snap[p].anchor
    IN  << [store |-> live,       guard |-> guard],
           [store |-> retired[a], guard |-> guard],
           [store |-> retired[a], guard |-> rguard[a]] >>

Installed(p) == Append(snap[p].recs, Record(p))

-------------------------------------------------------------------------------
(* The initial states: a directory the stage has never used, and one whose  *)
(* last owner completed.                                                    *)

PastChain == << [anchor |-> Past, epoch |-> Past, state |-> "active"],
                [anchor |-> Past, epoch |-> Past, state |-> "quiescent"] >>
PastStore == [id |-> Past, anchor |-> Past, recs |-> PastChain, staged |-> None, junk |-> FALSE]

Init ==
    /\ lock = None
    /\ \/ live = None /\ guard = None
       \/ live = PastStore /\ guard = Past
    /\ retired = [a \in Ids |-> None]
    /\ rguard = [a \in Ids |-> None]
    /\ pc = [p \in Owners |-> "new"]
    /\ art = [p \in Owners |-> None]
    /\ snap = [p \in Owners |-> None]
    /\ what = [p \in Owners |-> None]
    /\ thefts = 0
    /\ opened = {} /\ closed = {}

-------------------------------------------------------------------------------
(* Moves between steps. *)

Goto(p, step) == pc' = [pc EXCEPT ![p] = step]
Keep == UNCHANGED <<lock, art, snap, what, thefts, opened, closed>>

\* An exception under the mutex before the first record: the lock is released
\* and the caller gets an error.
Reject(p) == Goto(p, "release") /\ UNCHANGED files

\* lose(): the owner is compromised and will leave a marker in the store.
Lose(p) == Goto(p, "mark") /\ UNCHANGED files

-------------------------------------------------------------------------------
(* Admission. *)

\* The advisory read before the mutex: a live store that is active,
\* quarantined or damaged is looked at once more.
Ask(p) ==
    /\ pc[p] = "new"
    /\ Goto(p, IF \/ live = None
                  \/ /\ Sound(live, guard, 0, TRUE)
                     /\ live.recs # <<>> => Quiescent(live)
               THEN "lock" ELSE "doubt")
    /\ UNCHANGED files /\ Keep

\* A rotation may have raced the read: only a store and a guard that are both
\* still there refuse without the mutex.
Doubt(p) ==
    /\ pc[p] = "doubt"
    /\ Goto(p, IF live # None /\ guard # None THEN "gone" ELSE "lock")
    /\ UNCHANGED files /\ Keep

\* gitMutex.withLock with failFast: one attempt.
Acquire(p) ==
    /\ pc[p] = "lock"
    /\ lock = None
    /\ lock' = p
    /\ Goto(p, "rotation")
    /\ UNCHANGED <<files, art, snap, what, thefts, opened, closed>>

Busy(p) ==
    /\ pc[p] = "lock"
    /\ lock # None
    /\ Goto(p, "gone")
    /\ UNCHANGED files /\ Keep

\* The lock directory was not refreshed for the stale window and is replaced.
Steal(p) ==
    /\ pc[p] = "lock"
    /\ lock # None
    /\ IF pc[lock] = "dead" THEN thefts' = thefts
                            ELSE thefts < MaxThefts /\ thefts' = thefts + 1
    /\ lock' = p
    /\ Goto(p, "rotation")
    /\ UNCHANGED <<files, art, snap, what, opened, closed>>

\* finishRotation(): the store was renamed and the guard was not.
FinishRotation(p) ==
    /\ pc[p] = "rotation"
    /\ IF live # None \/ guard = None
       THEN Goto(p, "debris") /\ UNCHANGED <<files, snap>>
       ELSE IF Sound(retired[guard], guard, 0, FALSE) /\ Quiescent(retired[guard])
       THEN /\ snap' = [snap EXCEPT ![p] = SnapOf(retired[guard])]
            /\ Goto(p, "unguard")
            /\ UNCHANGED files
       ELSE Reject(p) /\ UNCHANGED snap
    /\ UNCHANGED <<lock, art, what, thefts, opened, closed>>

\* rename(guardPath, retired.guard), by path: whatever anchor is there now.
MoveGuard(p, next) ==
    LET a == snap[p].anchor
    IN  IF guard = None THEN Reject(p)
        ELSE /\ rguard' = [rguard EXCEPT ![a] = guard]
             /\ guard' = None
             /\ Goto(p, next)
             /\ UNCHANGED <<live, retired>>

Unguard(p) ==
    /\ pc[p] = "unguard"
    /\ MoveGuard(p, "debris")
    /\ Keep

\* finishBootstrap(): without a guard nobody was admitted, and a store that
\* holds at most an anchor with no other link is moved out of the way.
Bare(s) ==
    /\ s.recs = <<>> /\ s.staged = None /\ ~s.junk
    /\ s.anchor # None => \A a \in Ids : rguard[a] # s.anchor

FinishBootstrap(p) ==
    /\ pc[p] = "debris"
    /\ IF guard # None \/ live = None THEN Goto(p, "view") /\ UNCHANGED files
       ELSE IF Bare(live) THEN Goto(p, "clear") /\ UNCHANGED files
       ELSE Reject(p)
    /\ Keep

\* The rename to a fresh bootstrap-incomplete name, which nothing reads again.
Clear(p) ==
    /\ pc[p] = "clear"
    /\ IF live = None THEN Reject(p)
       ELSE live' = None /\ Goto(p, "view") /\ UNCHANGED <<guard, retired, rguard>>
    /\ Keep

\* Admission that only refuses an ACTIVE tail.
Admits_Quarantined(s) == s.recs = <<>> \/ Last(s).state # "active"

\* The admission decision, readSnapshot(true) under the mutex.
Admits(s) == s.recs = <<>> \/ Quiescent(s)

View(p) ==
    /\ pc[p] = "view"
    /\ IF live = None /\ guard = None
       THEN Goto(p, "artifact") /\ snap' = [snap EXCEPT ![p] = None] /\ UNCHANGED files
       ELSE IF Sound(live, guard, 0, TRUE) /\ Admits(live)
       THEN Goto(p, "artifact") /\ snap' = [snap EXCEPT ![p] = SnapOf(live)] /\ UNCHANGED files
       ELSE Reject(p) /\ UNCHANGED snap
    /\ UNCHANGED <<lock, art, what, thefts, opened, closed>>

\* this.artifact := lstat of the lock directory, whoever's it is.
Artifact(p) ==
    /\ pc[p] = "artifact"
    /\ IF lock = None THEN Reject(p) /\ UNCHANGED art
       ELSE /\ art' = [art EXCEPT ![p] = lock]
            /\ Goto(p, IF snap[p] = None THEN "mkdir"
                       ELSE IF snap[p].recs = <<>> THEN "check" ELSE "adopt")
            /\ UNCHANGED files
    /\ what' = [what EXCEPT ![p] = "active"]
    /\ UNCHANGED <<lock, snap, thefts, opened, closed>>

-------------------------------------------------------------------------------
(* Rotation of a quiescent generation, and bootstrap of the next. *)

\* adoptQuiescence(), ending in identityNow().
Adopt(p) ==
    /\ pc[p] = "adopt"
    /\ IF IdentityNow(p) THEN Goto(p, "sweep") /\ UNCHANGED files ELSE Reject(p)
    /\ Keep

\* The generations retired earlier are removed, but not this one's own names.
Sweep(p) ==
    LET keep == snap[p].anchor
    IN  /\ pc[p] = "sweep"
        /\ retired' = [a \in Ids |-> IF a = keep THEN retired[a] ELSE None]
        /\ rguard' = [a \in Ids |-> IF a = keep THEN rguard[a] ELSE None]
        /\ Goto(p, "retire")
        /\ UNCHANGED <<live, guard>> /\ Keep

\* Retired under the rotating owner's name, where finishRotation cannot find it.
RetiredName_Epoch(p) == p

\* retiredPaths(): a retired generation is named after its anchor.
RetiredName(p) == snap[p].anchor

\* rename(storePath, retired.store), by path; it fails on an existing target.
Retire(p) ==
    LET a == RetiredName(p)
    IN  /\ pc[p] = "retire"
        /\ IF live = None \/ retired[a] # None THEN Reject(p)
           ELSE /\ retired' = [retired EXCEPT ![a] = live]
                /\ live' = None
                /\ Goto(p, "retireGuard")
                /\ UNCHANGED <<guard, rguard>>
        /\ Keep

RetireGuard(p) ==
    /\ pc[p] = "retireGuard"
    /\ MoveGuard(p, "mkdir")
    /\ Keep

Mkdir(p) ==
    /\ pc[p] = "mkdir"
    /\ IF live # None THEN Reject(p)
       ELSE live' = NewStore(p) /\ Goto(p, "anchor") /\ UNCHANGED <<guard, retired, rguard>>
    /\ Keep

Anchor(p) ==
    /\ pc[p] = "anchor"
    /\ IF live = None \/ live.anchor # None THEN Reject(p)
       ELSE /\ live' = [live EXCEPT !.anchor = p]
            /\ Goto(p, "link")
            /\ UNCHANGED <<guard, retired, rguard>>
    /\ Keep

\* link(anchor.json, guardPath): atomic, and never a replacement.
Link(p) ==
    /\ pc[p] = "link"
    /\ IF guard # None \/ live = None \/ live.anchor = None THEN Reject(p)
       ELSE guard' = live.anchor /\ Goto(p, "boot") /\ UNCHANGED <<live, retired, rguard>>
    /\ Keep

Boot(p) ==
    /\ pc[p] = "boot"
    /\ IF Sound(live, guard, 0, TRUE)
       THEN Goto(p, "check") /\ snap' = [snap EXCEPT ![p] = SnapOf(live)] /\ UNCHANGED files
       ELSE Reject(p) /\ UNCHANGED snap
    /\ UNCHANGED <<lock, art, what, thefts, opened, closed>>

-------------------------------------------------------------------------------
(* writeTransition(): one record, staged, fenced again, linked, re-read.    *)
(* prepareCompletion() takes the first three steps for the certificate.     *)

Check(p) ==
    /\ pc[p] = "check"
    /\ IF /\ IdentityNow(p)
          /\ live.recs # <<>> /\ Last(live).state # "quiescent" => Last(live).epoch = p
          /\ NextSlot(p) <= MaxRecords
       THEN Goto(p, "prepare") /\ UNCHANGED files
       ELSE Lose(p)
    /\ Keep

\* O_CREAT | O_EXCL at the staging path.
Prepare(p) ==
    /\ pc[p] = "prepare"
    /\ IF live = None THEN Lose(p)
       ELSE IF NextSlot(p) <= Len(live.recs) \/ (live.staged # None /\ live.staged.at = NextSlot(p))
       THEN Lose(p)
       ELSE /\ live' = IF live.staged # None THEN [live EXCEPT !.junk = TRUE]
                       ELSE [live EXCEPT !.staged = [at |-> NextSlot(p), rec |-> Record(p)]]
            /\ Goto(p, "recheck")
            /\ UNCHANGED <<guard, retired, rguard>>
    /\ Keep

Recheck(p) ==
    /\ pc[p] = "recheck"
    /\ IF IdentityNow(p)
       THEN Goto(p, IF what[p] = "quiescent" THEN "release" ELSE "publish") /\ UNCHANGED files
       ELSE Lose(p)
    /\ Keep

\* The staging file is a record of the chain now.
Linked(s, rec) ==
    [id |-> s.id, anchor |-> s.anchor, recs |-> Append(s.recs, rec),
     staged |-> None, junk |-> s.junk]

\* link(staging, slot), both by path: what is linked is what is staged there.
LinkRecord(p, next, lost) ==
    IF \/ live = None
       \/ live.staged = None
       \/ live.staged.at # NextSlot(p)
       \/ Len(live.recs) >= NextSlot(p)
    THEN Goto(p, lost) /\ UNCHANGED <<files, opened, closed>>
    ELSE LET rec == live.staged.rec
         IN  /\ live' = IF Len(live.recs) + 1 = NextSlot(p)
                        THEN Linked(live, rec)
                        ELSE [live EXCEPT !.junk = TRUE]
             /\ opened' = IF rec.state = "active" THEN opened \cup {rec.epoch} ELSE opened
             /\ closed' = IF rec.state = "quiescent" THEN closed \cup {rec.epoch} ELSE closed
             /\ Goto(p, next)
             /\ UNCHANGED <<guard, retired, rguard>>

Publish(p) ==
    /\ pc[p] = "publish"
    /\ LinkRecord(p, "after", "mark")
    /\ UNCHANGED <<lock, art, snap, what, thefts>>

\* identityAfter() and the lock once more; then the caller's work goes on (or
\* begins: ACTIVE is durable before it does).
After(p) ==
    /\ pc[p] = "after"
    /\ LET found == {i \in 1..3 : Holds(p, Places(p)[i].store, Places(p)[i].guard, Installed(p))}
       IN  IF /\ found # {} /\ lock # None /\ lock = art[p]
              /\ \A i \in found : Len(Places(p)[i].store.recs) = Len(Installed(p))
           THEN /\ snap' = [snap EXCEPT ![p].recs = Installed(p)]
                /\ Goto(p, IF what[p] = "active" THEN "work" ELSE "release")
                /\ UNCHANGED files
           ELSE Lose(p) /\ UNCHANGED snap
    /\ UNCHANGED <<lock, art, what, thefts, opened, closed>>

-------------------------------------------------------------------------------
(* The owner at work. *)

\* An identity read that does not join the write queue.
Settled_Unqueued(p) == pc[p] \in {"work", "after"}

\* Nothing of this owner's is in its write queue.
Settled(p) == pc[p] = "work"

\* assertIdentity(), from a child or from the 250 ms timer.
AssertIdentity(p) ==
    /\ Settled(p)
    /\ ~(IdentityNow(p) /\ Last(live).epoch = p /\ Last(live).state = "active")
    /\ Lose(p)
    /\ Keep

\* claim(): resources nobody recorded yet need another ACTIVE record, which
\* must leave room for the terminal one.
Room(p) == NextSlot(p) < MaxRecords

Claim(p) ==
    /\ pc[p] = "work"
    /\ Room(p)
    /\ IF IdentityNow(p) THEN Goto(p, "check") /\ UNCHANGED files ELSE Lose(p)
    /\ Keep

\* The caller's function ended and nothing it started runs: prepareCompletion().
Finish(p) ==
    /\ pc[p] = "work"
    /\ what' = [what EXCEPT ![p] = "quiescent"]
    /\ Goto(p, "check")
    /\ UNCHANGED <<files, lock, art, snap, thefts, opened, closed>>

\* It threw, or left work behind: persist('quarantined').
Fail(p) ==
    /\ pc[p] = "work"
    /\ what' = [what EXCEPT ![p] = "quarantined"]
    /\ Goto(p, "check")
    /\ UNCHANGED <<files, lock, art, snap, thefts, opened, closed>>

\* The marker of lose(), in whatever store the path names.
Mark(p) ==
    /\ pc[p] = "mark"
    /\ live' = IF live = None THEN None ELSE [live EXCEPT !.junk = TRUE]
    /\ what' = [what EXCEPT ![p] = "quarantined"]
    /\ Goto(p, "release")
    /\ UNCHANGED <<guard, retired, rguard, lock, art, snap, thefts, opened, closed>>

\* The mutex's release.  A robbed holder either has noticed (its release
\* fails) or removes the directory of whoever has the lock now.
Release(p) ==
    /\ pc[p] = "release"
    /\ \/ /\ lock' = None
          /\ Goto(p, IF what[p] = "quiescent" THEN "confirm" ELSE "gone")
       \/ /\ lock # p
          /\ Goto(p, "gone")
          /\ UNCHANGED lock
    /\ UNCHANGED <<files, art, snap, what, thefts, opened, closed>>

-------------------------------------------------------------------------------
(* publishCompletion(), after the mutex. *)

Confirm(p) ==
    /\ pc[p] = "confirm"
    /\ LET found == {i \in 1..3 : Holds(p, Places(p)[i].store, Places(p)[i].guard, snap[p].recs)}
       IN  Goto(p, IF /\ \E i \in found : Places(p)[i].store.recs = snap[p].recs
                      /\ live # None
                      /\ live.staged = [at |-> NextSlot(p), rec |-> Record(p)]
                   THEN "free" ELSE "gone")
    /\ UNCHANGED files /\ Keep

\* No other owner's lock directory ...
Free(p) ==
    /\ pc[p] = "free"
    /\ Goto(p, IF lock = None THEN "stat" ELSE "gone")
    /\ UNCHANGED files /\ Keep

\* ... and the store is still the directory the certificate was prepared in.
Stat(p) ==
    /\ pc[p] = "stat"
    /\ Goto(p, IF live # None /\ live.id = snap[p].id THEN "seal" ELSE "gone")
    /\ UNCHANGED files /\ Keep

Seal(p) ==
    /\ pc[p] = "seal"
    /\ LinkRecord(p, "verify1", "gone")
    /\ UNCHANGED <<lock, art, snap, what, thefts>>

\* The retired guard's path read before the live one.
Order_GuardFirst == <<1, 3, 2>>

\* identityAfter() of the certificate, one place after the other while a
\* successor may be rotating this generation away.
Order == <<1, 2, 3>>

Verify(p, i, this, after) ==
    /\ pc[p] = this
    /\ LET place == Places(p)[Order[i]]
       IN  Goto(p, IF Holds(p, place.store, place.guard, Installed(p)) THEN "done" ELSE after)
    /\ UNCHANGED files /\ Keep

Verify1(p) == Verify(p, 1, "verify1", "verify2")
Verify2(p) == Verify(p, 2, "verify2", "verify3")
Verify3(p) == Verify(p, 3, "verify3", "unsure")

-------------------------------------------------------------------------------

Ended == {"gone", "done", "unsure", "dead"}

Die(p) ==
    /\ pc[p] \notin Ended
    /\ Cardinality({q \in Owners : pc[q] = "dead"}) < MaxDeaths
    /\ Goto(p, "dead")
    /\ UNCHANGED files /\ Keep

Step(p) ==
    \/ Ask(p) \/ Doubt(p) \/ Acquire(p) \/ Busy(p) \/ Steal(p)
    \/ FinishRotation(p) \/ Unguard(p) \/ FinishBootstrap(p) \/ Clear(p)
    \/ View(p) \/ Artifact(p)
    \/ Adopt(p) \/ Sweep(p) \/ Retire(p) \/ RetireGuard(p)
    \/ Mkdir(p) \/ Anchor(p) \/ Link(p) \/ Boot(p)
    \/ Check(p) \/ Prepare(p) \/ Recheck(p) \/ Publish(p) \/ After(p)
    \/ AssertIdentity(p) \/ Claim(p) \/ Finish(p) \/ Fail(p) \/ Mark(p) \/ Release(p)
    \/ Confirm(p) \/ Free(p) \/ Stat(p) \/ Seal(p) \/ Verify1(p) \/ Verify2(p) \/ Verify3(p)
    \/ Die(p)

Next == \E p \in Owners : Step(p)

Spec == Init /\ [][Next]_vars

-------------------------------------------------------------------------------
(* Properties. *)

Steps == {"new", "doubt", "lock", "rotation", "unguard", "debris", "clear", "view",
          "artifact", "adopt", "sweep", "retire", "retireGuard", "mkdir", "anchor",
          "link", "boot", "check", "prepare", "work", "mark"} \cup Writing \cup Ended

\* Types: in particular a snapshot always names an authenticated generation.
TypeOK ==
    /\ lock \in Owners \cup {None}
    /\ live \in Stores \cup {None}
    /\ guard \in Ids \cup {None}
    /\ retired \in [Ids -> Stores \cup {None}]
    /\ rguard \in [Ids -> Ids \cup {None}]
    /\ pc \in [Owners -> Steps]
    /\ art \in [Owners -> Owners \cup {None}]
    /\ snap \in [Owners -> Snapshots \cup {None}]
    /\ what \in [Owners -> States \cup {None}]
    /\ thefts \in 0..MaxThefts
    /\ opened \subseteq Ids /\ closed \subseteq Ids

\* Once an epoch's ACTIVE record is linked, no other epoch is opened until the
\* epoch's own quiescence record is: the lock's going stale under a dead owner,
\* a failed callback, and a completion that stops half-way all keep everyone
\* else out (the class comment of AddressOwnership).  It takes a mutex that is
\* only taken from the dead.
NeverReclaimed == thefts = 0 => Cardinality(opened \ closed) <= 1

\* What the next owner's finishRotation, finishBootstrap and readSnapshot accept.
Admissible ==
    \/ live = None /\ guard = None
    \/ live # None /\ guard = None /\ Bare(live)
    \/ /\ live = None /\ guard # None
       /\ Sound(retired[guard], guard, 0, FALSE) /\ Quiescent(retired[guard])
    \/ Sound(live, guard, 0, TRUE) /\ Admits(live)

\* A crash between any two calls of a rotation or of a bootstrap leaves a
\* directory the next owner can finish: unless an epoch is open, or the crash
\* left a staged record, the stage never needs attended recovery.
Recoverable ==
    /\ thefts = 0
    /\ \A p \in Owners : pc[p] \in Ended \cup {"new", "doubt", "lock"}
    /\ opened \subseteq closed
    /\ live # None => live.staged = None
    => Admissible

\* An owner nobody robs never takes its own writes, or a successor's, for the
\* loss of its ownership (why assertIdentity() queues its read).
Undisturbed == thefts = 0 => \A p \in Owners : pc[p] # "mark"

\* A completed owner reports its completion unconfirmed only when the
\* generation is really gone: a rotation under way, or one that has finished,
\* never hides the certificate from identityAfter()'s three reads.
UnconfirmedOnlyIfSwept ==
    \A p \in Owners : pc[p] = "unsure" =>
        \A i \in DOMAIN Places(p) : ~Holds(p, Places(p)[i].store, Places(p)[i].guard, Installed(p))

\* The guard leaves its path only when its generation's chain has no open epoch.
GuardEnds ==
    guard # None /\ guard' # guard =>
        \A s \in {live} \cup {retired[a] : a \in Ids} :
            s # None => (s.anchor = guard /\ s.recs # <<>> => Quiescent(s))

\* "Active guard files are NEVER reclaimed using time or process liveness" (the
\* class comment of AddressOwnership), robbed holders or not.
GuardKept == [][GuardEnds]_vars

===============================================================================
