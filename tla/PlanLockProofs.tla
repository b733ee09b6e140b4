--------------------------- MODULE PlanLockProofs ---------------------------
(***************************************************************************)
(* Proofs about PlanLock for every set of attempts, processes and hosts.   *)
(*                                                                         *)
(* The safety properties of the lock are not inductive.  IInv adds what    *)
(* the claims mean: a claim is taken only on an attempt that can do        *)
(* nothing more (Judged), claimants and the canonical record form a chain  *)
(* with one unclaimed end (OneTail), and so an owner that is alive still    *)
(* finds its own record at the canonical name (Owns).                      *)
(***************************************************************************)
EXTENDS PlanLock, TLAPS

(* Nothing was claimed or read before the first record was linked.         *)
Unlocked ==
  canonical = NoRecord =>
    \A a \in Attempts : claims[a] = NoRecord /\ seen[a] = NoRecord

(* A walking attempt has a predecessor under judgement.                    *)
Walks ==
  \A a \in Attempts : pc[a] \in {"judge", "claim", "probe", "pass"} => seen[a] # NoRecord

(* Whoever is to publish by rename owns a claim.                           *)
Entitled ==
  \A a \in Attempts : pc[a] \in {"rename", "recheck", "abandon"} => a \in Claimants

(* What an attempt has read was on the chain, and if it has left the chain *)
(* it left it claimed.                                                     *)
Known ==
  \A a \in Attempts : seen[a] # NoRecord =>
    seen[a].nonce \in Chain \/ claims[seen[a].nonce] # NoRecord

(* Only an inert attempt is judged fit to be claimed, and one of another   *)
(* host only after it released or abandoned, unless it is claimed already. *)
Retired(x) == pc[x] = "released" \/ x \in abandoned

Judged ==
  \A a \in Attempts : pc[a] = "claim" =>
    LET x == seen[a].nonce IN
    /\ Inert(x)
    /\ claims[x] = NoRecord => SameHost(a, x) \/ Retired(x)

(* A released record is somebody's who ended.                              *)
Tombs ==
  /\ canonical # NoRecord /\ canonical.released => pc[canonical.nonce] = "released"
  /\ \A a \in Attempts :
       /\ seen[a] # NoRecord /\ seen[a].released => Retired(seen[a].nonce)
       /\ current[a] # NoRecord /\ current[a].released => pc[current[a].nonce] = "released"
  /\ \A a \in abandoned : pc[a] = "failed"

(* A live owner finds its own record, from publication to tombstone.       *)
Owns ==
  \A a \in Attempts :
    Live(a) /\ pc[a] \in Owning \union {"retire", "tombstone"} => Holds(a)

(* The inode an attempt holds open is its own.                             *)
Handles == \A a \in Attempts : handle[a] \in {NoRecord, Published(a)}

IInv ==
  /\ TypeOK /\ ClaimsOnInert /\ OneTail /\ Unlocked /\ Walks /\ Entitled
  /\ Known /\ Judged /\ Tombs /\ Owns /\ Handles /\ ForeignNeedsRelease
-----------------------------------------------------------------------------
USE OwnerAssumption, NoRecordAssumption, MaxFaultsAssumption
USE DEF At, Goto, Fault, NoFault, Live, Inert, Ended, Owning, PC,
        Record, Published, Released, Holds

(* The record an attempt publishes and its tombstone.                      *)
LEMMA Records ==
  ASSUME NEW a \in Attempts
  PROVE  /\ Published(a) \in Record /\ Published(a).nonce = a /\ Published(a).released = FALSE
         /\ Released(a) \in Record /\ Released(a).nonce = a /\ Released(a).released = TRUE
         /\ Published(a) # NoRecord /\ Released(a) # NoRecord
         /\ \A r \in Record : r.nonce = a => r \in {Published(a), Released(a)}
<1>1. Published(a) \in Record /\ Released(a) \in Record
  OBVIOUS
<1>2. NoRecord \notin Record
  OBVIOUS
<1>3. Published(a) # NoRecord /\ Released(a) # NoRecord
  <2> HIDE DEF Record, Published, Released
  <2> QED
    BY <1>1, <1>2
<1>4. \A r \in Record : r.nonce = a => r \in {Published(a), Released(a)}
  <2> SUFFICES ASSUME NEW r \in Record, r.nonce = a PROVE r \in {Published(a), Released(a)}
    OBVIOUS
  <2>1. r = [nonce |-> r.nonce, released |-> r.released] /\ r.released \in BOOLEAN
    OBVIOUS
  <2> QED
    BY <2>1
<1> QED
  BY <1>1, <1>3, <1>4

(* Every step keeps the types: the files name attempts, and a program      *)
(* counter is a place of acquirePlanLock or of release.                    *)
LEMMA TypeStep == TypeOK /\ Walks /\ [Next]_vars => TypeOK'
<1> SUFFICES ASSUME TypeOK, Walks, [Next]_vars PROVE TypeOK'
  OBVIOUS
<1> USE DEF TypeOK
<1>0. \A a \in Attempts : Published(a) \in Record /\ Released(a) \in Record
  OBVIOUS
<1>1. ASSUME NEW a \in Attempts,
             Begin(a) \/ GuardBusy(a) \/ Judge(a) \/ Pass(a) \/ Recheck(a)
               \/ Setup(a) \/ Release(a) \/ CheckOwn(a) \/ GiveUp(a)
      PROVE  TypeOK'
  BY <1>1 DEF PC, Ended, Owning, Begin, GuardBusy, Judge, Pass, Recheck, Setup, Release, CheckOwn, GiveUp
<1>2. ASSUME NEW a \in Attempts, LinkRecord(a) \/ Rename(a) \/ Tombstone(a)
      PROVE  TypeOK'
  <2> HIDE DEF Record, Published, Released
  <2> QED
    BY <1>0, <1>2 DEF LinkRecord, Rename, Tombstone
<1>3. ASSUME NEW a \in Attempts, ReadPrevious(a) \/ ReadCurrent(a) \/ OpenRecord(a)
      PROVE  TypeOK'
  BY <1>3 DEF ReadPrevious, ReadCurrent, OpenRecord
<1>4. ASSUME NEW a \in Attempts, LinkClaim(a)
      PROVE  TypeOK'
  <2> HIDE DEF Record, Published, Released
  <2>1. pc' \in [Attempts -> PC] /\ faults' \in Nat
    BY <1>4 DEF LinkClaim, PC
  <2>2. claims' \in [Attempts -> Attempts \union {NoRecord}]
    BY <1>4 DEF LinkClaim
  <2> QED
    BY <1>4, <2>1, <2>2 DEF LinkClaim
<1>5. ASSUME NEW a \in Attempts, ReadClaim(a)
      PROVE  TypeOK'
  <2> DEFINE c == claims[seen[a].nonce]
  <2>1. c \in Attempts
    BY <1>5 DEF ReadClaim, Walks
  <2>2. [nonce |-> c, released |-> c \in abandoned] \in Record
    BY <2>1
  <2> HIDE DEF c, Record, Published, Released
  <2>3. seen' \in [Attempts -> Record \union {NoRecord}]
    BY <1>5, <2>2 DEF ReadClaim, c
  <2>4. pc' \in [Attempts -> PC] /\ faults' \in Nat
    BY <1>5 DEF ReadClaim, PC
  <2> QED
    BY <1>5, <2>3, <2>4 DEF ReadClaim
<1>6. ASSUME NEW a \in Attempts, Abandon(a)
      PROVE  TypeOK'
  BY <1>6 DEF Abandon
<1>7. ASSUME NEW p \in Procs, Crash(p)
      PROVE  TypeOK'
  BY <1>7 DEF Crash
<1>8. CASE UNCHANGED vars
  BY <1>8 DEF vars
<1> QED
  BY <1>1, <1>2, <1>3, <1>4, <1>5, <1>6, <1>7, <1>8 DEF Next, Acquire, Retire

(* The initial state has no record, no claim and no attempt under way.     *)
LEMMA InitIInv == Init => IInv
<1> SUFFICES ASSUME Init PROVE IInv
  OBVIOUS
<1>1. TypeOK
  BY DEF Init, TypeOK
<1>2. Claimants = {} /\ Chain = {}
  BY DEF Init, Claimants, Chain
<1>3. ClaimsOnInert /\ OneTail /\ ForeignNeedsRelease
  BY <1>2 DEF Init, ClaimsOnInert, OneTail, ForeignNeedsRelease
<1>4. Unlocked /\ Walks /\ Entitled /\ Known /\ Judged
  BY DEF Init, Unlocked, Walks, Entitled, Known, Judged
<1>5. Tombs /\ Owns /\ Handles
  BY DEF Init, Tombs, Owns, Handles
<1> QED
  BY <1>1, <1>3, <1>4, <1>5 DEF IInv

(* What a step of one attempt does when it changes none of the shared      *)
(* files: nothing that was inert revives, and the claims keep their shape. *)
LEMMA FilesAlone ==
  ASSUME IInv, NEW a \in Attempts, NEW to \in PC,
         Live(a), pc[a] \notin Ended, Goto(a, to),
         UNCHANGED <<alive, canonical, claims, abandoned>>
  PROVE  /\ \A x \in Attempts : (Inert(x) => Inert(x)') /\ (Retired(x) => Retired(x)')
         /\ Chain' = Chain /\ Claimants' = Claimants
         /\ ClaimsOnInert' /\ OneTail' /\ ForeignNeedsRelease'
<1>1. \A x \in Attempts : (Inert(x) => Inert(x)') /\ (Retired(x) => Retired(x)')
  BY DEF IInv, TypeOK, Retired
<1>2. Chain' = Chain /\ Claimants' = Claimants
  BY DEF Chain, Claimants
<1>3. ClaimsOnInert'
  BY <1>1 DEF IInv, ClaimsOnInert
<1>4. OneTail'
  BY <1>2 DEF IInv, OneTail
<1>5. ForeignNeedsRelease'
  BY <1>1 DEF IInv, ForeignNeedsRelease, SameHost, Retired
<1> QED
  BY <1>1, <1>2, <1>3, <1>4, <1>5

(* Steps that move an attempt on and change no file: what its new place    *)
(* requires is what the step has just found out.                           *)
LEMMA Moves ==
  ASSUME IInv, NEW a \in Attempts, NEW to \in PC,
         Live(a), pc[a] \notin Ended, Goto(a, to),
         UNCHANGED <<alive, canonical, claims, abandoned, seen>>,
         TypeOK',
         current' = current \/ current' = [current EXCEPT ![a] = canonical],
         handle' = handle \/ (handle' = [handle EXCEPT ![a] = Published(a)]),
         to \in {"judge", "claim", "probe", "pass"} => seen[a] # NoRecord,
         to \in {"rename", "recheck", "abandon"} => a \in Claimants,
         to = "claim" => /\ Inert(seen[a].nonce)
                         /\ \/ claims[seen[a].nonce] # NoRecord
                            \/ SameHost(a, seen[a].nonce)
                            \/ Retired(seen[a].nonce),
         to \in Owning \union {"retire", "tombstone"} => Holds(a)
  PROVE  IInv'
<1>1. /\ \A x \in Attempts : (Inert(x) => Inert(x)') /\ (Retired(x) => Retired(x)')
      /\ Chain' = Chain /\ Claimants' = Claimants
      /\ ClaimsOnInert' /\ OneTail' /\ ForeignNeedsRelease'
  BY FilesAlone
<1>3. Unlocked' /\ Walks'
  BY DEF IInv, TypeOK, Unlocked, Walks
<1>4. Entitled' /\ Known'
  BY <1>1 DEF IInv, TypeOK, Entitled, Known
<1>5. Judged'
  BY <1>1 DEF IInv, TypeOK, Walks, Judged, SameHost
<1>6. Tombs'
  BY <1>1 DEF IInv, TypeOK, Tombs, Retired
<1>7. Owns' /\ Handles'
  BY DEF IInv, TypeOK, Owns, Handles
<1> QED
  BY <1>1, <1>3, <1>4, <1>5, <1>6, <1>7 DEF IInv
-----------------------------------------------------------------------------
(* The steps that change a file or what an attempt has read, one lemma     *)
(* each.  The first record: before it nothing was claimed or read.         *)
LEMMA PublishStep ==
  ASSUME IInv, TypeOK', NEW a \in Attempts, LinkRecord(a)
  PROVE  IInv'
<1> USE DEF LinkRecord
<1>0. Published(a) # NoRecord /\ Published(a).nonce = a /\ ~Published(a).released
  BY Records
<1>1. \A x \in Attempts : claims[x] = NoRecord /\ seen[x] = NoRecord
  BY DEF IInv, Unlocked
<1>2. Claimants' = {} /\ Chain' = {a}
  BY <1>0, <1>1 DEF Claimants, Chain
<1>3. OneTail' /\ ClaimsOnInert' /\ ForeignNeedsRelease' /\ Unlocked' /\ Known'
  BY <1>0, <1>1, <1>2 DEF OneTail, ClaimsOnInert, ForeignNeedsRelease, Unlocked, Known
<1>4. Walks' /\ Entitled' /\ Judged'
  BY <1>1 DEF IInv, TypeOK, Walks, Entitled, Judged, Claimants
<1>5. Tombs'
  BY <1>0 DEF IInv, TypeOK, Tombs, Retired
<1>6. Owns'
  <2>1. \A b \in Attempts : ~(Live(b) /\ pc[b] \in Owning \union {"retire", "tombstone"})
    <3> HIDE DEF Published
    <3> QED
      BY Records DEF IInv, Owns
  <2>2. Holds(a)'
    OBVIOUS
  <2> QED
    BY <2>1, <2>2 DEF IInv, TypeOK, Owns
<1>7. Handles'
  BY DEF IInv, Handles
<1> QED
  BY <1>3, <1>4, <1>5, <1>6, <1>7 DEF IInv

(* Reading the record that is there puts its owner under judgement.        *)
LEMMA ReadPreviousStep ==
  ASSUME IInv, TypeOK', NEW a \in Attempts, ReadPrevious(a)
  PROVE  IInv'
<1> USE DEF ReadPrevious
<1>1. CASE canonical.nonce = a
  <2>1. Holds(a)
    BY <1>1 DEF IInv, TypeOK, Tombs
  <2>2. Goto(a, "open") /\ UNCHANGED <<alive, canonical, claims, abandoned, seen, current, handle>>
    BY <1>1
  <2> QED
    BY <2>1, <2>2, Moves DEF PC
<1>2. CASE canonical.nonce # a
  <2>1. Goto(a, "judge") /\ seen' = [seen EXCEPT ![a] = canonical]
    BY <1>2
  <2>2. /\ \A x \in Attempts : (Inert(x) => Inert(x)') /\ (Retired(x) => Retired(x)')
        /\ Chain' = Chain /\ Claimants' = Claimants
        /\ ClaimsOnInert' /\ OneTail' /\ ForeignNeedsRelease'
    BY <2>1, FilesAlone DEF PC
  <2>3. canonical.nonce \in Chain
    BY DEF Chain
  <2>4. Unlocked' /\ Walks' /\ Entitled'
    BY <2>1, <2>2 DEF IInv, TypeOK, Unlocked, Walks, Entitled
  <2>5. Known'
    BY <2>1, <2>2, <2>3 DEF IInv, TypeOK, Known
  <2>6. Judged'
    BY <2>1, <2>2 DEF IInv, TypeOK, Walks, Judged, SameHost
  <2>7. Tombs'
    BY <2>1, <2>2 DEF IInv, TypeOK, Tombs, Retired
  <2>8. Owns' /\ Handles'
    BY <2>1 DEF IInv, TypeOK, Owns, Handles
  <2> QED
    BY <2>2, <2>4, <2>5, <2>6, <2>7, <2>8 DEF IInv
<1> QED
  BY <1>1, <1>2

(* Reading a claim puts the claimant under judgement.                      *)
LEMMA ReadClaimStep ==
  ASSUME IInv, TypeOK', NEW a \in Attempts, ReadClaim(a)
  PROVE  IInv'
<1> DEFINE c == claims[seen[a].nonce]
<1> USE DEF ReadClaim
<1>0. c \in Claimants
  BY DEF IInv, TypeOK, Walks, Claimants
<1>1. CASE c = a
  <2>1. Goto(a, "rename") /\ UNCHANGED <<alive, canonical, claims, abandoned, seen, current, handle>>
    BY <1>1
  <2> QED
    BY <1>0, <1>1, <2>1, Moves DEF PC
<1>2. CASE c # a
  <2> DEFINE r == [nonce |-> c, released |-> c \in abandoned]
  <2>1. Goto(a, "probe") /\ seen' = [seen EXCEPT ![a] = r]
    BY <1>2
  <2>2. /\ \A x \in Attempts : (Inert(x) => Inert(x)') /\ (Retired(x) => Retired(x)')
        /\ Chain' = Chain /\ Claimants' = Claimants
        /\ ClaimsOnInert' /\ OneTail' /\ ForeignNeedsRelease'
    BY <2>1, FilesAlone DEF PC
  <2>3. r.nonce = c /\ c \in Chain /\ c \in Attempts /\ (r.released => Retired(c))
    BY <1>0 DEF Chain, Retired, Claimants
  <2>4. r # NoRecord
    <3>1. r \in Record
      BY <2>3
    <3>2. NoRecord \notin Record
      OBVIOUS
    <3> HIDE DEF r, Record
    <3> QED
      BY <3>1, <3>2
  <2> HIDE DEF r, c
  <2>9. Unlocked' /\ Walks' /\ Entitled'
    BY <2>1, <2>2, <2>4 DEF IInv, TypeOK, Unlocked, Walks, Entitled
  <2>5. Known'
    BY <2>1, <2>2, <2>3 DEF IInv, TypeOK, Known
  <2>6. Judged'
    BY <2>1, <2>2 DEF IInv, TypeOK, Walks, Judged, SameHost
  <2>7. Tombs'
    BY <2>1, <2>2, <2>3 DEF IInv, TypeOK, Tombs, Retired
  <2>8. Owns' /\ Handles'
    BY <2>1 DEF IInv, TypeOK, Owns, Handles
  <2> QED
    BY <2>2, <2>5, <2>6, <2>7, <2>8, <2>9 DEF IInv
<1> QED
  BY <1>1, <1>2

(* The exclusive link of a claim: the old end of the chain, which can do   *)
(* nothing more, is claimed, and the claimant is the new end.              *)
LEMMA ClaimStep ==
  ASSUME IInv, TypeOK', NEW a \in Attempts, LinkClaim(a)
  PROVE  IInv'
<1> DEFINE x == seen[a].nonce
<1> HIDE DEF Record, Published, Released
<1>1. /\ x \in Attempts /\ Inert(x) /\ claims[x] = NoRecord
      /\ SameHost(a, x) \/ Retired(x)
      /\ claims' = [claims EXCEPT ![x] = a]
      /\ canonical # NoRecord
  <2>1. seen[a] \in Record
    BY DEF LinkClaim, IInv, TypeOK, Walks
  <2>2. x \in Attempts
    BY <2>1 DEF Record
  <2> QED
    BY <2>1, <2>2 DEF LinkClaim, IInv, Judged, Unlocked, Walks, TypeOK
<1> HIDE DEF x
<1>2. x # a /\ claims[a] = NoRecord
  BY <1>1 DEF LinkClaim, IInv, ClaimsOnInert, TypeOK
<1>3. x \in Chain
  BY <1>1 DEF LinkClaim, IInv, Known, Walks, x
<1>4. Claimants' = Claimants \union {a} /\ Chain' = Chain \union {a}
  <2>1. Claimants' = Claimants \union {a}
    BY <1>1 DEF Claimants, IInv, TypeOK
  <2> QED
    BY <2>1 DEF Chain, LinkClaim
<1>5. OneTail'
  BY <1>1, <1>2, <1>3, <1>4 DEF IInv, TypeOK, OneTail, Chain, Claimants
<1>6. \A y \in Attempts : (Inert(y) => Inert(y)') /\ (Retired(y) => Retired(y)')
  BY DEF LinkClaim, Retired, IInv, TypeOK
<1>7. ClaimsOnInert'
  BY <1>1, <1>6 DEF IInv, TypeOK, ClaimsOnInert
<1>8. ForeignNeedsRelease'
  BY <1>1, <1>6 DEF IInv, TypeOK, ForeignNeedsRelease, SameHost, Retired
<1>9. Unlocked' /\ Walks' /\ Entitled'
  BY <1>1, <1>4 DEF LinkClaim, IInv, TypeOK, Unlocked, Walks, Entitled
<1>10. Known'
  BY <1>1, <1>4 DEF LinkClaim, IInv, TypeOK, Known, Record
<1>11. Judged'
  BY <1>1, <1>6 DEF LinkClaim, IInv, TypeOK, Walks, Judged, SameHost, Record
<1>12. Tombs'
  <2>1. \A r \in Record : r.nonce \in Attempts
    BY DEF Record
  <2> QED
    BY <1>6, <2>1 DEF LinkClaim, IInv, TypeOK, Tombs, Retired
<1>13. Owns' /\ Handles'
  BY DEF LinkClaim, IInv, TypeOK, Owns, Handles
<1> QED
  BY <1>5, <1>7, <1>8, <1>9, <1>10, <1>11, <1>12, <1>13 DEF IInv

(* The claimant's rename.  It is the only unclaimed end of the chain, so   *)
(* the record it displaces is no live owner's.                             *)
LEMMA RenameStep ==
  ASSUME IInv, TypeOK', NEW a \in Attempts, Rename(a)
  PROVE  IInv'
<1> HIDE DEF Record, Published, Released
<1>0. /\ \A r \in Record : r.nonce \in Attempts
      /\ Published(a).nonce = a /\ Published(a) # NoRecord /\ Published(a).released = FALSE
  BY Records DEF Record
<1>1. a \in Claimants /\ a \in Chain /\ claims[a] = NoRecord
  BY DEF Rename, IInv, Entitled, Chain, ClaimsOnInert
<1>2. \A y \in Chain : claims[y] = NoRecord => y = a
  BY <1>1 DEF IInv, OneTail
<1>3. \A b \in Attempts \ {a} : ~(Live(b) /\ pc[b] \in Owning \union {"retire", "tombstone"})
  <2> SUFFICES ASSUME NEW b \in Attempts \ {a}, Live(b), pc[b] \in Owning \union {"retire", "tombstone"}
               PROVE  FALSE
    OBVIOUS
  <2>1. b \in Chain
    BY Records DEF IInv, Owns, Chain
  <2>2. claims[b] = NoRecord
    BY DEF IInv, ClaimsOnInert
  <2> QED
    BY <1>2, <2>1, <2>2
<1>4. canonical' \in {canonical, Published(a)}
  BY DEF Rename
<1>5. Claimants' = Claimants
  BY DEF Rename, Claimants
<1>6. \A y \in Chain : y \in Chain' \/ claims[y] # NoRecord
  BY <1>1, <1>2, <1>5 DEF Chain
<1>7. Chain' \subseteq Chain
  BY <1>0, <1>1, <1>4, <1>5 DEF Chain, Claimants
<1>8. OneTail'
  BY <1>7 DEF Rename, IInv, OneTail
<1>9. \A y \in Attempts : (Inert(y) => Inert(y)') /\ (Retired(y) <=> Retired(y)')
  BY DEF Rename, Retired, IInv, TypeOK
<1>10. ClaimsOnInert' /\ ForeignNeedsRelease'
  BY <1>9 DEF Rename, IInv, ClaimsOnInert, ForeignNeedsRelease, SameHost, Retired
<1>11. Unlocked'
  BY <1>0, <1>1, <1>4 DEF Rename, IInv, Unlocked
<1>12. Walks' /\ Entitled'
  BY <1>1, <1>5 DEF Rename, IInv, TypeOK, Walks, Entitled
<1>13. Known'
  BY <1>6 DEF Rename, IInv, Known
<1>14. Judged'
  BY <1>0, <1>9 DEF Rename, IInv, TypeOK, Walks, Judged, SameHost
<1>15. Tombs'
  BY <1>0, <1>4, <1>9 DEF Rename, IInv, TypeOK, Tombs, Retired
<1>16. Owns'
  BY <1>3 DEF Rename, IInv, TypeOK, Owns
<1>17. Handles'
  BY DEF Rename, IInv, Handles
<1> QED
  BY <1>8, <1>10, <1>11, <1>12, <1>13, <1>14, <1>15, <1>16, <1>17 DEF IInv

(* abandonClaim marks the attempt's own claim: its author ends with it.    *)
LEMMA AbandonStep ==
  ASSUME IInv, TypeOK', NEW a \in Attempts, Abandon(a)
  PROVE  IInv'
<1> HIDE DEF Record, Published, Released
<1> USE DEF Abandon
<1>0. \A r \in Record : r.nonce \in Attempts
  BY DEF Record
<1>1. \A y \in Attempts : (Inert(y) => Inert(y)') /\ (Retired(y) => Retired(y)')
  BY DEF IInv, TypeOK, Retired
<1>2. Chain' = Chain /\ Claimants' = Claimants
  BY DEF Chain, Claimants
<1>3. ClaimsOnInert' /\ OneTail'
  BY <1>1, <1>2 DEF IInv, ClaimsOnInert, OneTail
<1>4. ForeignNeedsRelease'
  BY <1>1 DEF IInv, ForeignNeedsRelease, SameHost, Retired
<1>5. Unlocked' /\ Walks' /\ Entitled' /\ Known'
  BY <1>2 DEF IInv, TypeOK, Unlocked, Walks, Entitled, Known
<1>6. Judged'
  BY <1>0, <1>1 DEF IInv, TypeOK, Walks, Judged, SameHost
<1>7. Tombs'
  BY <1>0, <1>1 DEF IInv, TypeOK, Tombs, Retired
<1>8. Owns' /\ Handles'
  BY DEF IInv, TypeOK, Owns, Handles
<1> QED
  BY <1>3, <1>4, <1>5, <1>6, <1>7, <1>8 DEF IInv

(* The tombstone replaces the attempt's own published record, whoever has  *)
(* read what in the meantime.                                              *)
LEMMA TombstoneStep ==
  ASSUME IInv, TypeOK', NEW a \in Attempts, Tombstone(a)
  PROVE  IInv'
<1> HIDE DEF Record, Published, Released
<1>0. /\ \A r \in Record : r.nonce \in Attempts
      /\ Published(a).nonce = a /\ Published(a) # NoRecord
      /\ Released(a).nonce = a /\ Released(a) # NoRecord
  BY Records DEF Record
<1>1. Holds(a)
  BY DEF Tombstone, IInv, Owns
<1>2. canonical' \in {canonical, Released(a)} /\ canonical.nonce = a /\ canonical # NoRecord
  BY <1>0, <1>1 DEF Tombstone
<1>3. Claimants' = Claimants /\ Chain' = Chain
  BY <1>0, <1>2 DEF Tombstone, Claimants, Chain
<1>4. \A y \in Attempts : (Inert(y) => Inert(y)') /\ (Retired(y) => Retired(y)')
  BY DEF Tombstone, Retired, IInv, TypeOK
<1>5. ClaimsOnInert' /\ OneTail' /\ ForeignNeedsRelease'
  BY <1>3, <1>4 DEF Tombstone, IInv, ClaimsOnInert, OneTail, ForeignNeedsRelease, SameHost, Retired
<1>6. Unlocked' /\ Walks' /\ Entitled'
  BY <1>0, <1>2, <1>3 DEF Tombstone, IInv, TypeOK, Unlocked, Walks, Entitled
<1>7. Known'
  BY <1>3 DEF Tombstone, IInv, Known
<1>8. Judged'
  BY <1>0, <1>4 DEF Tombstone, IInv, TypeOK, Walks, Judged, SameHost
<1>9. Tombs'
  <2>1. canonical' # NoRecord /\ canonical'.released => pc'[canonical'.nonce] = "released"
    <3>1. CASE canonical' = Released(a) /\ Goto(a, "released")
      BY <1>0, <3>1 DEF IInv, TypeOK
    <3>2. CASE canonical' = canonical
      <4>1. canonical.released = FALSE
        BY <1>1, Records
      <4> QED
        BY <3>2, <4>1
    <3> QED
      BY <3>1, <3>2 DEF Tombstone
  <2> QED
    BY <1>0, <1>4, <2>1 DEF Tombstone, IInv, TypeOK, Tombs, Retired
<1>10. Owns'
  <2>1. \A b \in Attempts \ {a} : ~Holds(b)
    BY <1>0, <1>1, Records
  <2> QED
    BY <2>1 DEF Tombstone, IInv, TypeOK, Owns
<1>11. Handles'
  BY DEF Tombstone, IInv, Handles
<1> QED
  BY <1>5, <1>6, <1>7, <1>8, <1>9, <1>10, <1>11 DEF IInv

(* A death only makes attempts inert.                                      *)
LEMMA CrashStep ==
  ASSUME IInv, TypeOK', NEW p \in Procs, Crash(p)
  PROVE  IInv'
<1> HIDE DEF Record, Published, Released
<1> USE DEF Crash
<1>1. \A y \in Attempts : (Inert(y) => Inert(y)') /\ (Retired(y) <=> Retired(y)')
  BY DEF Retired
<1>2. Claimants' = Claimants /\ Chain' = Chain
  BY DEF Claimants, Chain
<1>3. ClaimsOnInert' /\ OneTail' /\ ForeignNeedsRelease'
  BY <1>1, <1>2 DEF IInv, ClaimsOnInert, OneTail, ForeignNeedsRelease, SameHost, Retired
<1>4. Unlocked' /\ Walks' /\ Entitled' /\ Known'
  BY <1>2 DEF IInv, Unlocked, Walks, Entitled, Known
<1>5. Judged'
  BY <1>1 DEF IInv, Judged, SameHost, Retired
<1>6. Tombs' /\ Owns' /\ Handles'
  BY <1>1 DEF IInv, Tombs, Owns, Handles, Retired
<1> QED
  BY <1>3, <1>4, <1>5, <1>6 DEF IInv
-----------------------------------------------------------------------------
(* IInv is inductive.                                                      *)
LEMMA Inductive == IInv /\ [Next]_vars => IInv'
<1> SUFFICES ASSUME IInv, [Next]_vars PROVE IInv'
  OBVIOUS
<1>0. TypeOK'
  BY TypeStep DEF IInv
<1>1. ASSUME NEW a \in Attempts, Begin(a) PROVE IInv'
  BY <1>0, <1>1, Moves DEF Begin, PC
<1>2. ASSUME NEW a \in Attempts, GuardBusy(a) PROVE IInv'
  BY <1>0, <1>2, Moves DEF GuardBusy, PC
<1>3. ASSUME NEW a \in Attempts, LinkRecord(a) PROVE IInv'
  BY <1>0, <1>3, PublishStep
<1>4. ASSUME NEW a \in Attempts, ReadPrevious(a) PROVE IInv'
  BY <1>0, <1>4, ReadPreviousStep
<1>5. ASSUME NEW a \in Attempts, Judge(a) PROVE IInv'
  <2> DEFINE to == IF Reclaimable(a, seen[a]) THEN "claim" ELSE "refused"
  <2>1. to \in PC /\ Goto(a, to)
    BY <1>5 DEF Judge, PC
  <2>2. seen[a] # NoRecord
    BY <1>5 DEF Judge, IInv, Walks
  <2>3. Reclaimable(a, seen[a]) =>
          /\ Inert(seen[a].nonce)
          /\ SameHost(a, seen[a].nonce) \/ Retired(seen[a].nonce)
    BY <2>2 DEF Reclaimable, IInv, Tombs, Retired
  <2> QED
    BY <1>0, <1>5, <2>1, <2>2, <2>3, Moves DEF Judge
<1>6. ASSUME NEW a \in Attempts, LinkClaim(a) PROVE IInv'
  BY <1>0, <1>6, ClaimStep
<1>7. ASSUME NEW a \in Attempts, ReadClaim(a) PROVE IInv'
  BY <1>0, <1>7, ReadClaimStep
<1>8. ASSUME NEW a \in Attempts, ReadCurrent(a) PROVE IInv'
  <2>1. seen[a] # NoRecord
    BY <1>8 DEF ReadCurrent, IInv, Walks
  <2> QED
    BY <1>0, <1>8, <2>1, Moves DEF ReadCurrent, PC
<1>9. ASSUME NEW a \in Attempts, Pass(a) PROVE IInv'
  <2> DEFINE x == seen[a].nonce
             to == IF Passable(a) THEN "claim" ELSE "refused"
  <2>1. to \in PC /\ Goto(a, to)
    BY <1>9 DEF Pass, PC
  <2>2. seen[a] # NoRecord /\ x \in Attempts
    BY <1>9 DEF Pass, IInv, TypeOK, Walks
  <2>3. Passable(a) => Inert(x) /\ (claims[x] # NoRecord \/ SameHost(a, x) \/ Retired(x))
    <3>1. CASE claims[x] # NoRecord
      BY <2>2, <3>1 DEF IInv, ClaimsOnInert
    <3>2. CASE current[a] = Released(x)
      <4>1. pc[x] = "released"
        <5>1. current[a].nonce = x /\ current[a].released /\ current[a] # NoRecord
          <6>1. Released(x).nonce = x /\ Released(x).released = TRUE /\ Released(x) # NoRecord
            BY <2>2, Records
          <6> HIDE DEF Released
          <6> QED
            BY <3>2, <6>1
        <5> QED
          BY <5>1 DEF IInv, Tombs
      <4> QED
        BY <4>1 DEF Retired
    <3>3. CASE Reclaimable(a, seen[a])
      BY <2>2, <3>3 DEF Reclaimable, IInv, Tombs, Retired
    <3> QED
      BY <3>1, <3>2, <3>3 DEF Passable
  <2> QED
    BY <1>0, <1>9, <2>1, <2>2, <2>3, Moves DEF Pass
<1>10. ASSUME NEW a \in Attempts, Rename(a) PROVE IInv'
  BY <1>0, <1>10, RenameStep
<1>11. ASSUME NEW a \in Attempts, Recheck(a) PROVE IInv'
  <2>1. a \in Claimants
    BY <1>11 DEF Recheck, IInv, Entitled
  <2>2. canonical # NoRecord /\ canonical.nonce = a => Holds(a)
    BY <1>11, Records DEF Recheck, IInv, TypeOK, Tombs
  <2>3. PICK to \in {"abandon", "open"} : Goto(a, to) /\ (to = "open" => Holds(a))
    BY <1>11, <2>2 DEF Recheck
  <2> QED
    BY <1>0, <1>11, <2>1, <2>3, Moves DEF Recheck, PC
<1>12. ASSUME NEW a \in Attempts, Abandon(a) PROVE IInv'
  BY <1>0, <1>12, AbandonStep
<1>13. ASSUME NEW a \in Attempts, OpenRecord(a) PROVE IInv'
  <2>1. Holds(a)
    BY <1>13 DEF OpenRecord, IInv, Owns
  <2>2. PICK to \in {"setup", "retire"} : Goto(a, to)
    BY <1>13 DEF OpenRecord
  <2>3. handle' = handle \/ handle' = [handle EXCEPT ![a] = Published(a)]
    BY <1>13, <2>1 DEF OpenRecord
  <2> QED
    BY <1>0, <1>13, <2>1, <2>2, <2>3, Moves DEF OpenRecord, PC
<1>14. ASSUME NEW a \in Attempts, Setup(a) PROVE IInv'
  <2>1. Holds(a)
    BY <1>14 DEF Setup, IInv, Owns
  <2>2. PICK to \in {"held", "retire"} : Goto(a, to)
    BY <1>14 DEF Setup
  <2> QED
    BY <1>0, <1>14, <2>1, <2>2, Moves DEF Setup, PC
<1>15. ASSUME NEW a \in Attempts, Release(a) PROVE IInv'
  <2>1. Holds(a)
    BY <1>15 DEF Release, IInv, Owns
  <2> QED
    BY <1>0, <1>15, <2>1, Moves DEF Release, PC
<1>16. ASSUME NEW a \in Attempts, CheckOwn(a) PROVE IInv'
  <2>1. Holds(a)
    BY <1>16 DEF CheckOwn, IInv, Owns
  <2>2. PICK to \in {"tombstone", "released", "failed"} : Goto(a, to)
    BY <1>16 DEF CheckOwn
  <2> QED
    BY <1>0, <1>16, <2>1, <2>2, Moves DEF CheckOwn, PC
<1>17. ASSUME NEW a \in Attempts, Tombstone(a) PROVE IInv'
  BY <1>0, <1>17, TombstoneStep
<1>18. ASSUME NEW a \in Attempts, GiveUp(a) PROVE IInv'
  BY <1>0, <1>18, Moves DEF GiveUp, PC
<1>19. ASSUME NEW p \in Procs, Crash(p) PROVE IInv'
  BY <1>0, <1>19, CrashStep
<1>20. CASE UNCHANGED vars
  BY <1>20 DEF vars, IInv, TypeOK, ClaimsOnInert, OneTail, Chain, Claimants, Unlocked,
     Walks, Entitled, Known, Judged, SameHost, Retired, Tombs, Owns, Handles, ForeignNeedsRelease
<1> QED
  BY <1>1, <1>2, <1>3, <1>4, <1>5, <1>6, <1>7, <1>8, <1>9, <1>10, <1>11, <1>12,
     <1>13, <1>14, <1>15, <1>16, <1>17, <1>18, <1>19, <1>20 DEF Next, Acquire, Retire
-----------------------------------------------------------------------------
(* Every reachable state satisfies the strengthened invariant.             *)
THEOREM Invariance == Spec => []IInv
<1>1. Init => IInv
  BY InitIInv
<1>2. IInv /\ [Next]_vars => IInv'
  BY Inductive
<1> QED
  BY <1>1, <1>2, PTL DEF Spec

(* The lock's files and the attempts' places are what their readers parse. *)
THEOREM TypeCorrect == Spec => []TypeOK
<1>1. IInv => TypeOK
  BY DEF IInv
<1> QED
  BY <1>1, Invariance, PTL

(* Whoever is not inert and owns the lease finds its record in place, so   *)
(* two holders would be the same attempt.                                  *)
LEMMA HoldersAgree == IInv => NeverLost /\ MutualExclusion
<1> SUFFICES ASSUME IInv PROVE NeverLost /\ MutualExclusion
  OBVIOUS
<1> HIDE DEF Published
<1>1. NeverLost
  BY DEF IInv, Owns, NeverLost
<1>2. MutualExclusion
  <2> SUFFICES ASSUME NEW a \in Attempts, NEW b \in Attempts, At(a, "held"), At(b, "held")
               PROVE  a = b
    BY DEF MutualExclusion
  <2>1. Published(a) = Published(b)
    BY <1>1 DEF NeverLost
  <2>2. Published(a).nonce = a /\ Published(b).nonce = b
    BY Records
  <2> QED
    BY <2>1, <2>2
<1> QED
  BY <1>1, <1>2

(* acquirePlanLock: at most one live attempt holds the lease of a plan,    *)
(* with a publication guard that excludes nothing.                         *)
THEOREM Exclusion == Spec => []MutualExclusion
<1>1. IInv => MutualExclusion
  BY HoldersAgree
<1> QED
  BY <1>1, Invariance, PTL

(* assertHeld: a live holder's record is never displaced.                  *)
THEOREM NoLoss == Spec => []NeverLost
<1>1. IInv => NeverLost
  BY HoldersAgree
<1> QED
  BY <1>1, Invariance, PTL

(* claimSuccession: the claims form one chain with one unclaimed end, and  *)
(* only attempts that can write nothing more are claimed.                  *)
THEOREM Succession == Spec => [](OneTail /\ ClaimsOnInert)
<1>1. IInv => OneTail /\ ClaimsOnInert
  BY DEF IInv
<1> QED
  BY <1>1, Invariance, PTL

(* assertPassable: a foreign host's record is succeeded only after its     *)
(* owner said itself that it is done.                                      *)
THEOREM ForeignRecords == Spec => []ForeignNeedsRelease
<1>1. IInv => ForeignNeedsRelease
  BY DEF IInv
<1> QED
  BY <1>1, Invariance, PTL

(* markReleased: the check and the rename are two steps, and the rename    *)
(* still replaces the attempt's own published record and nothing else.     *)
THEOREM OwnTombstone == Spec => TombstoneOverOwn
<1>1. IInv /\ [Next]_vars =>
        [\A a \in Attempts : Tombstone(a) /\ canonical' # canonical => Holds(a)]_vars
  BY DEF IInv, Owns, Tombstone
<1> QED
  BY <1>1, Invariance, PTL DEF Spec, TombstoneOverOwn

(* claimSuccession: no step rewrites a claim.                              *)
THEOREM PermanentClaims == Spec => ClaimsPermanent
<1>1. IInv /\ [Next]_vars =>
        [\A p \in Attempts : claims[p] # NoRecord => claims'[p] = claims[p]]_vars
  <2> SUFFICES ASSUME IInv, Next, NEW p \in Attempts, claims[p] # NoRecord
               PROVE  claims'[p] = claims[p]
    BY DEF vars
  <2>1. ASSUME NEW a \in Attempts, LinkClaim(a) PROVE claims'[p] = claims[p]
    BY <2>1 DEF LinkClaim, IInv, TypeOK
  <2> QED
    BY <2>1 DEF Next, Acquire, Retire, Begin, GuardBusy, LinkRecord, ReadPrevious, Judge,
       ReadClaim, ReadCurrent, Pass, Rename, Recheck, Abandon, OpenRecord, Setup, Release,
       CheckOwn, Tombstone, GiveUp, Crash
<1> QED
  BY <1>1, Invariance, PTL DEF Spec, ClaimsPermanent
-----------------------------------------------------------------------------
(* The lock implements the lease: the end of owner setup is the lease's    *)
(* Acquire, a release or the death of the holder is its End, and every     *)
(* other step leaves the holders alone.                                    *)
holders == {a \in Attempts : At(a, "held")}

(* At most one attempt is ever in holders.                                 *)
LEMMA OneHolder ==
  ASSUME IInv, NEW a \in holders
  PROVE  holders = {a}
BY HoldersAgree DEF MutualExclusion, holders

(* Every step of the lock is a step of the lease or leaves it alone.       *)
LEMMA StepImplements ==
  ASSUME IInv, MutualExclusion', [Next]_vars
  PROVE  [L!Next]_holders
<1>1. ASSUME NEW a \in Attempts, Setup(a) PROVE L!Acquire(a) \/ UNCHANGED holders
  <2>1. CASE pc'[a] = "held"
    <3>1. a \in holders' /\ holders' = {a}
      BY <1>1, <2>1 DEF Setup, holders, MutualExclusion, IInv, TypeOK
    <3>2. holders = {}
      BY <1>1, <3>1 DEF Setup, holders, IInv, TypeOK
    <3> QED
      BY <3>1, <3>2 DEF L!Acquire, holders
  <2>2. CASE pc'[a] # "held"
    BY <1>1, <2>2 DEF Setup, holders, IInv, TypeOK
  <2> QED
    BY <2>1, <2>2
<1>2. ASSUME NEW a \in Attempts, Release(a) PROVE L!End(a)
  BY <1>2 DEF Release, holders, L!End, IInv, TypeOK
<1>3. ASSUME NEW p \in Procs, Crash(p) PROVE (\E a \in Attempts : L!End(a)) \/ UNCHANGED holders
  <2>1. CASE \E a \in holders : Owner[a] = p
    <3> PICK a \in holders : Owner[a] = p
      BY <2>1
    <3>1. holders = {a}
      BY OneHolder
    <3> QED
      BY <1>3, <3>1 DEF Crash, holders, L!End
  <2>2. CASE ~\E a \in holders : Owner[a] = p
    BY <1>3, <2>2 DEF Crash, holders
  <2> QED
    BY <2>1, <2>2
<1>4. ASSUME NEW a \in Attempts,
             \/ Begin(a) \/ GuardBusy(a) \/ LinkRecord(a) \/ ReadPrevious(a)
             \/ Judge(a) \/ LinkClaim(a) \/ ReadClaim(a) \/ ReadCurrent(a) \/ Pass(a)
             \/ Rename(a) \/ Recheck(a) \/ Abandon(a) \/ OpenRecord(a)
             \/ CheckOwn(a) \/ Tombstone(a) \/ GiveUp(a)
      PROVE  UNCHANGED holders
  BY <1>4 DEF Begin, GuardBusy, LinkRecord, ReadPrevious, Judge, LinkClaim, ReadClaim,
     ReadCurrent, Pass, Rename, Recheck, Abandon, OpenRecord, CheckOwn, Tombstone, GiveUp,
     holders, IInv, TypeOK
<1>5. CASE UNCHANGED vars
  BY <1>5 DEF vars, holders
<1> QED
  BY <1>1, <1>2, <1>3, <1>4, <1>5 DEF Next, Acquire, Retire, L!Next

(* acquirePlanLock keeps the promise of an exclusive lease.                *)
THEOREM Refinement == Spec => LeaseSpec
<1>1. Init => L!Init
  BY DEF Init, L!Init
<1>2. IInv /\ MutualExclusion' /\ [Next]_vars => [L!Next]_holders
  BY StepImplements
<1> QED
  BY <1>1, <1>2, Invariance, Exclusion, PTL DEF Spec, LeaseSpec, L!Spec, holders
=============================================================================
