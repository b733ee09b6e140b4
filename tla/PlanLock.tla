------------------------------ MODULE PlanLock ------------------------------
(***************************************************************************)
(* The per-plan lock of the run journal: acquirePlanLock and its helpers   *)
(* in src/src/kernel/journal.ts.                                           *)
(*                                                                         *)
(* The lock is one file, the canonical record, that names its owner's      *)
(* nonce, pid and host.  It is created by an exclusive link(2), so it is   *)
(* never empty afterwards.  It is replaced only by rename: by its owner's  *)
(* tombstone, or by an attempt that exclusively created the claim file of  *)
(* a predecessor proved released, aborted or dead.  Every attempt has a    *)
(* fresh nonce, so an attempt and its nonce are identified here.           *)
(*                                                                         *)
(* The publication guard (a 30 s lease around the acquisition) is modelled *)
(* as giving no exclusion at all: a stalled attempt can lose it, and the   *)
(* code says safety does not rest on it.  What remains of it is that an    *)
(* attempt may find it busy, and that a fence may refuse at its points.    *)
(***************************************************************************)
EXTENDS Naturals

CONSTANTS
  Attempts,     \* acquisition attempts (nonces)
  Procs,        \* operating-system processes, one pid each
  Owner,        \* the process that makes an attempt
  Host,         \* the host a process runs on
  NoRecord,     \* absence of a record (ENOENT)
  MaxFaults     \* bound on injected I/O failures, lost replies, fences

ASSUME OwnerAssumption == Owner \in [Attempts -> Procs]
ASSUME NoRecordAssumption ==
  NoRecord \notin Attempts \union [nonce : Attempts, released : BOOLEAN]
ASSUME MaxFaultsAssumption == MaxFaults \in Nat

VARIABLES
  alive,        \* the processes that have not died
  canonical,    \* the record at <plan>.lock.json, or NoRecord
  claims,       \* claims[p]: the attempt named by <lock>.<p>.claim
  abandoned,    \* the attempts that marked their own claim released
  pc,           \* where each attempt is
  seen,         \* the record an attempt last read: the predecessor it judges
  current,      \* the canonical record an attempt read in assertPassable
  handle,       \* the record whose inode an attempt holds open
  faults        \* injected faults so far

vars == <<alive, canonical, claims, abandoned, pc, seen, current, handle, faults>>

Record == [nonce : Attempts, released : BOOLEAN]
(* An inode is identified by its record: the published record and the     *)
(* tombstone are different files, and neither is ever rewritten in place. *)
Published(a) == [nonce |-> a, released |-> FALSE]
Released(a) == [nonce |-> a, released |-> TRUE]

Claimants == {c \in Attempts : \E p \in Attempts : claims[p] = c}
Live(a) == Owner[a] \in alive
SameHost(a, b) == Host[Owner[a]] = Host[Owner[b]]

Ended == {"refused", "failed", "released"}
Owning == {"open", "setup", "held"}
PC == {"idle", "publish", "judge", "claim", "probe", "pass", "rename",
       "recheck", "abandon", "retire", "tombstone"} \union Owning \union Ended

TypeOK ==
  /\ alive \subseteq Procs
  /\ canonical \in Record \union {NoRecord}
  /\ claims \in [Attempts -> Attempts \union {NoRecord}]
  /\ abandoned \subseteq Attempts
  /\ pc \in [Attempts -> PC]
  /\ seen \in [Attempts -> Record \union {NoRecord}]
  /\ current \in [Attempts -> Record \union {NoRecord}]
  /\ handle \in [Attempts -> Record \union {NoRecord}]
  /\ faults \in Nat

Init ==
  /\ alive = Procs
  /\ canonical = NoRecord
  /\ claims = [p \in Attempts |-> NoRecord]
  /\ abandoned = {}
  /\ pc = [a \in Attempts |-> "idle"]
  /\ seen = [a \in Attempts |-> NoRecord]
  /\ current = [a \in Attempts |-> NoRecord]
  /\ handle = [a \in Attempts |-> NoRecord]
  /\ faults = 0

At(a, at) == Live(a) /\ pc[a] = at
Goto(a, to) == pc' = [pc EXCEPT ![a] = to]
NoFault == UNCHANGED faults
Fault == faults < MaxFaults /\ faults' = faults + 1
-----------------------------------------------------------------------------
(* Entry: fresh nonce, synced temporary, publication guard.               *)

Begin(a) ==
  /\ At(a, "idle") /\ Goto(a, "publish") /\ NoFault
  /\ UNCHANGED <<alive, canonical, claims, abandoned, seen, current, handle>>

(* The guard is taken by another acquisition in progress or interrupted.  *)
GuardBusy(a) ==
  /\ At(a, "idle") /\ Goto(a, "refused") /\ NoFault
  /\ \E b \in Attempts \ {a} : pc[b] \notin Ended \union {"idle", "held"}
  /\ UNCHANGED <<alive, canonical, claims, abandoned, seen, current, handle>>

(* publishRecord: the exclusive link.  When it took effect but its reply   *)
(* was lost and the retry reports EEXIST, the attempt goes on to read.     *)
LinkRecord(a) ==
  /\ At(a, "publish")
  /\ canonical = NoRecord
  /\ canonical' = Published(a)
  /\ \/ Goto(a, "open") /\ NoFault
     \/ UNCHANGED pc /\ Fault
  /\ UNCHANGED <<alive, claims, abandoned, seen, current, handle>>

(* publishRecord: EEXIST, so the attempt reads the record that is there.   *)
ReadPrevious(a) ==
  /\ At(a, "publish")
  /\ canonical # NoRecord
  /\ IF canonical.nonce = a
       THEN Goto(a, "open") /\ UNCHANGED seen
       ELSE Goto(a, "judge") /\ seen' = [seen EXCEPT ![a] = canonical]
  /\ NoFault
  /\ UNCHANGED <<alive, canonical, claims, abandoned, current, handle>>

(* Broken variants of a definition stand before it, named after it.  They  *)
(* are not part of the specification: each is a bug some property catches. *)
Reclaimable_AnyOwner(a, r) == r.released \/ SameHost(a, r.nonce)
Reclaimable_AnyHost(a, r) == r.released \/ ~(SameHost(a, r.nonce) /\ Live(r.nonce))

(* assertReclaimable: r is released, or its owner is provably dead here.   *)
Reclaimable(a, r) ==
  \/ r.released
  \/ SameHost(a, r.nonce) /\ ~Live(r.nonce)

Judge(a) ==
  /\ At(a, "judge")
  /\ Goto(a, IF Reclaimable(a, seen[a]) THEN "claim" ELSE "refused")
  /\ NoFault
  /\ UNCHANGED <<alive, canonical, claims, abandoned, seen, current, handle>>
-----------------------------------------------------------------------------
(* claimSuccession: the walk along the claims.                             *)

LinkClaim_Overwrite(a) ==
  /\ At(a, "claim")
  /\ claims' = [claims EXCEPT ![seen[a].nonce] = a]
  /\ Goto(a, "rename") /\ NoFault
  /\ UNCHANGED <<alive, canonical, abandoned, seen, current, handle>>

(* The exclusive link of the predecessor's claim, its reply possibly lost. *)
LinkClaim(a) ==
  /\ At(a, "claim")
  /\ claims[seen[a].nonce] = NoRecord
  /\ claims' = [claims EXCEPT ![seen[a].nonce] = a]
  /\ \/ Goto(a, "rename") /\ NoFault
     \/ UNCHANGED pc /\ Fault
  /\ UNCHANGED <<alive, canonical, abandoned, seen, current, handle>>

ReadClaim_SamePredecessor(a) ==
  /\ At(a, "claim")
  /\ claims[seen[a].nonce] # NoRecord
  /\ Goto(a, IF claims[seen[a].nonce] = a THEN "rename" ELSE "probe")
  /\ NoFault
  /\ UNCHANGED <<alive, canonical, claims, abandoned, seen, current, handle>>

(* EEXIST: read the claim.  Our own nonce in it makes the claim ours.      *)
ReadClaim(a) ==
  LET c == claims[seen[a].nonce] IN
  /\ At(a, "claim")
  /\ c # NoRecord
  /\ IF c = a
       THEN Goto(a, "rename") /\ UNCHANGED seen
       ELSE /\ Goto(a, "probe")
            /\ seen' = [seen EXCEPT ![a] = [nonce |-> c, released |-> c \in abandoned]]
  /\ NoFault
  /\ UNCHANGED <<alive, canonical, claims, abandoned, current, handle>>

(* assertPassable, first await: the canonical record. *)
ReadCurrent(a) ==
  /\ At(a, "probe")
  /\ current' = [current EXCEPT ![a] = canonical]
  /\ Goto(a, "pass") /\ NoFault
  /\ UNCHANGED <<alive, canonical, claims, abandoned, seen, handle>>

Passable_Unpublished(a) == current[a].nonce # seen[a].nonce \/ Reclaimable(a, seen[a])
Passable_NoProbe(a) ==
  claims[seen[a].nonce] # NoRecord \/ current[a] = Released(seen[a].nonce)

(* assertPassable: superseded, aborted, released, or reclaimable.          *)
Passable(a) ==
  \/ claims[seen[a].nonce] # NoRecord
  \/ current[a] = Released(seen[a].nonce)
  \/ Reclaimable(a, seen[a])

Pass(a) ==
  /\ At(a, "pass")
  /\ Goto(a, IF Passable(a) THEN "claim" ELSE "refused")
  /\ NoFault
  /\ UNCHANGED <<alive, canonical, claims, abandoned, seen, current, handle>>

(* The claimant's rename over the canonical record.  An error sends it to  *)
(* read the record back, whether or not the rename took effect.            *)
Rename(a) ==
  /\ At(a, "rename")
  /\ \/ canonical' = Published(a) /\ Goto(a, "open") /\ NoFault
     \/ canonical' = Published(a) /\ Goto(a, "recheck") /\ Fault
     \/ UNCHANGED canonical /\ Goto(a, "recheck") /\ Fault
  /\ UNCHANGED <<alive, claims, abandoned, seen, current, handle>>

(* After a failed rename: published after all, or give the claim up.  The  *)
(* read itself can fail, which counts as not published.                    *)
Recheck(a) ==
  /\ At(a, "recheck")
  /\ \/ /\ NoFault
        /\ IF canonical = NoRecord \/ canonical.nonce # a
             THEN Goto(a, "abandon") ELSE Goto(a, "open")
     \/ Goto(a, "abandon") /\ Fault
  /\ UNCHANGED <<alive, canonical, claims, abandoned, seen, current, handle>>

(* abandonClaim, whose own failure is swallowed. *)
Abandon(a) ==
  /\ At(a, "abandon")
  /\ Goto(a, "failed")
  /\ \/ abandoned' = abandoned \union {a} /\ NoFault
     \/ UNCHANGED abandoned /\ Fault
  /\ UNCHANGED <<alive, canonical, claims, seen, current, handle>>
-----------------------------------------------------------------------------
(* Owner setup, the lease, and its end.                                    *)

(* open and verify the inode; a foreign nonce rolls back.  An open that    *)
(* fails rolls back without a handle.                                      *)
OpenRecord(a) ==
  /\ At(a, "open")
  /\ \/ /\ handle' = [handle EXCEPT ![a] = canonical]
        /\ Goto(a, IF canonical # NoRecord /\ canonical.nonce = a
                     THEN "setup" ELSE "retire")
        /\ NoFault
     \/ UNCHANGED handle /\ Goto(a, "retire") /\ Fault
  /\ UNCHANGED <<alive, canonical, claims, abandoned, seen, current>>

(* assertHeld: the canonical record is ours and not released. *)
Holds(a) == canonical = Published(a)

(* listen, assertHeld and the fences; any failure rolls back.              *)
Setup(a) ==
  /\ At(a, "setup")
  /\ \/ Goto(a, IF Holds(a) THEN "held" ELSE "retire") /\ NoFault
     \/ Goto(a, "retire") /\ Fault
  /\ UNCHANGED <<alive, canonical, claims, abandoned, seen, current, handle>>

(* The caller releases the lease (runPlan's finally). *)
Release(a) ==
  /\ At(a, "held") /\ Goto(a, "retire") /\ NoFault
  /\ UNCHANGED <<alive, canonical, claims, abandoned, seen, current, handle>>

(* markReleased: is the record at the canonical name our own?  By inode    *)
(* when a handle is open, by nonce before that.                            *)
OwnRecord(a) ==
  /\ canonical # NoRecord
  /\ IF handle[a] = NoRecord THEN canonical.nonce = a ELSE canonical = handle[a]

CheckOwn(a) ==
  /\ At(a, "retire")
  /\ \/ Goto(a, IF OwnRecord(a) THEN "tombstone" ELSE "released") /\ NoFault
     \/ Goto(a, "failed") /\ Fault
  /\ UNCHANGED <<alive, canonical, claims, abandoned, seen, current, handle>>

(* markReleased: the tombstone's rename, blind to what is there now.  A    *)
(* release that fails before it leaves the record to the process's death;  *)
(* a retry after it finds another inode and changes nothing.               *)
Tombstone(a) ==
  /\ At(a, "tombstone")
  /\ \/ canonical' = Released(a) /\ Goto(a, "released") /\ NoFault
     \/ UNCHANGED canonical /\ Goto(a, "failed") /\ Fault
  /\ UNCHANGED <<alive, claims, abandoned, seen, current, handle>>

(* A fence refuses (guard compromised), or a link or a read fails: the     *)
(* attempt gives up and leaves behind whatever it has linked by then.      *)
GiveUp(a) ==
  /\ Live(a)
  /\ pc[a] \in {"publish", "claim", "probe"}
  /\ Goto(a, "failed") /\ Fault
  /\ UNCHANGED <<alive, canonical, claims, abandoned, seen, current, handle>>

(* A process dies; its files stay.  pids are not reused within the model.  *)
Crash(p) ==
  /\ p \in alive
  /\ alive' = alive \ {p}
  /\ UNCHANGED <<canonical, claims, abandoned, pc, seen, current, handle, faults>>

Acquire(a) ==
  \/ LinkRecord(a) \/ ReadPrevious(a) \/ Judge(a)
  \/ LinkClaim(a) \/ ReadClaim(a) \/ ReadCurrent(a) \/ Pass(a)
  \/ Rename(a) \/ Recheck(a) \/ Abandon(a)
  \/ OpenRecord(a) \/ Setup(a)

Retire(a) == CheckOwn(a) \/ Tombstone(a)

Next ==
  \/ \E a \in Attempts :
       \/ Begin(a) \/ GuardBusy(a) \/ Acquire(a)
       \/ Release(a) \/ Retire(a) \/ GiveUp(a)
  \/ \E p \in Procs : Crash(p)

Spec == Init /\ [][Next]_vars

(* A live process runs an acquisition or a release it has started to its   *)
(* end: each is a chain of awaits on the local event loop.  Nothing obliges *)
(* it to start one, to release, to suffer a fault or to die.               *)
Fairness == \A a \in Attempts : WF_vars(Acquire(a)) /\ WF_vars(Retire(a))

FairSpec == Spec /\ Fairness
-----------------------------------------------------------------------------
(* At most one attempt of a live process holds the lease: the exclusion    *)
(* acquirePlanLock promises, with a stale or stolen publication guard.     *)
MutualExclusion ==
  \A a, b \in Attempts :
    At(a, "held") /\ At(b, "held") => a = b

(* The holder's assertHeld never reports lock-lost: neither a rival's      *)
(* rename, nor a rival's rollback, displaces a live owner's record.        *)
NeverLost ==
  \A a \in Attempts : At(a, "held") => Holds(a)

(* The claims form one chain: among the records that have been canonical   *)
(* or are claimants, at most one is still unclaimed.                       *)
Chain == Claimants \union (IF canonical = NoRecord THEN {} ELSE {canonical.nonce})

OneTail ==
  \A x, y \in Chain : claims[x] = NoRecord /\ claims[y] = NoRecord => x = y

(* markReleased replaces its own published record and no other: the inode  *)
(* check and the rename are two awaits, and no rival publishes in between. *)
TombstoneOverOwn ==
  [][\A a \in Attempts :
       Tombstone(a) /\ canonical' # canonical => Holds(a)]_vars

(* A record no one can claim twice: once a claim names an attempt it names *)
(* it for ever, and it was created only for a predecessor that can write   *)
(* nothing any more.                                                       *)
Inert(a) == ~Live(a) \/ pc[a] \in Ended

ClaimsOnInert ==
  \A p \in Attempts : claims[p] # NoRecord => Inert(p)

ClaimsPermanent ==
  [][\A p \in Attempts : claims[p] # NoRecord => claims'[p] = claims[p]]_vars

(* A foreign host's process is never judged: its record is succeeded from  *)
(* another host only once its owner released it or abandoned its claim.    *)
ForeignNeedsRelease ==
  \A p, c \in Attempts :
    claims[p] = c /\ ~SameHost(p, c) => pc[p] = "released" \/ p \in abandoned
-----------------------------------------------------------------------------
(* Every started acquisition of a live process comes to an answer.         *)
AcquisitionEnds ==
  \A a \in Attempts :
    pc[a] = "publish" ~> pc[a] \in Ended \union {"held"} \/ ~Live(a)

(* An acquirer alone on its host after every other process there died is   *)
(* never refused: it walks past whatever the dead left behind, at any      *)
(* point of their own acquisitions, and gets the lease.                    *)
Alone(a) == alive = {Owner[a]} /\ \A b \in Attempts : SameHost(a, b)

DeadNeverBlock ==
  \A a \in Attempts :
    (pc[a] = "publish" /\ Alone(a) /\ faults = MaxFaults
       /\ \A b \in Attempts \ {a} : Owner[b] # Owner[a])
      ~> pc[a] = "held" \/ ~Live(a)
-----------------------------------------------------------------------------
(* PlanLock implements the lease.                                          *)
L == INSTANCE Lease WITH holders <- {a \in Attempts : At(a, "held")}

LeaseSpec == L!Spec
=============================================================================
