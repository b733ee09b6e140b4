------------------------- MODULE AddressOwnershipProofs -------------------------
(***************************************************************************)
(* Proofs about AddressOwnership, for every set of owners and every bound: *)
(* type correctness, and, while no live holder was robbed of the mutex,    *)
(* that an epoch once opened shuts everybody out until its own quiescence  *)
(* record is linked (NeverReclaimed), that an owner never compromises      *)
(* itself (Undisturbed), that no crash of a rotation or a bootstrap shuts  *)
(* the next owner out (Recoverable), that a certificate is found wherever  *)
(* a rotation took it (UnconfirmedOnlyIfSwept), and that the guard stays   *)
(* with an open chain (GuardEnds).                                         *)
(*                                                                         *)
(* While no live holder was robbed (Inv): the mutex is exclusive (Mutex);  *)
(* the two fences of a transition leave in the store exactly what their    *)
(* owner staged on the chain it last saw (Fenced); an owner between its    *)
(* ACTIVE record and its last one has an open epoch (History); and an open *)
(* epoch is the tail of the live chain, its anchor the guard, and everyone *)
(* else is at a step from which that sight turns him away (Barrier).  The  *)
(* certificate is linked outside the mutex: Barrier is what fences it.     *)
(*                                                                         *)
(* The other four need more (Tidy): the files have one of three shapes     *)
(* (FileShape); what was retired is whole and ended (Grave); a generation  *)
(* is named after an owner that has made its directory (Unborn); under the *)
(* mutex an owner's snapshot is what the files still are (Held); and a     *)
(* completed generation is where its owner has not looked yet, or gone     *)
(* (Vouched).                                                              *)
(***************************************************************************)
EXTENDS AddressOwnership, FiniteSetTheorems, SequenceTheorems, TLAPS

-------------------------------------------------------------------------------
(* Types. *)

\* The steps before this.used is set, and those of a rotation and a bootstrap:
\* no record is being written yet, or the first ACTIVE one.
Early == {"new", "doubt", "lock", "rotation", "unguard", "debris", "clear", "view",
          "artifact", "adopt", "sweep", "retire", "retireGuard", "mkdir", "anchor",
          "link", "boot"}

\* The steps that use the snapshot.
WithSnap == {"unguard", "adopt", "sweep", "retire", "retireGuard", "check", "prepare",
             "recheck", "publish", "after", "work", "confirm", "free", "stat", "seal",
             "verify1", "verify2", "verify3"}

\* The steps at which the record to write is chosen.
WithRecord == {"adopt", "sweep", "retire", "retireGuard", "mkdir", "anchor", "link",
               "boot", "check", "prepare", "recheck", "publish", "after", "work",
               "confirm", "free", "stat", "seal", "verify1", "verify2", "verify3"}

TypeInv ==
    /\ TypeOK
    /\ \A p \in Owners :
        /\ pc[p] \in WithSnap \/ what[p] = "quiescent" => snap[p] \in Snapshots
        /\ pc[p] \in WithRecord => what[p] \in States
        /\ pc[p] \in Early => what[p] # "quiescent"

\* What a step of one owner leaves alone in the others.
Own(p) ==
    /\ pc' = [pc EXCEPT ![p] = pc'[p]]
    /\ art' = [art EXCEPT ![p] = art'[p]]
    /\ snap' = [snap EXCEPT ![p] = snap'[p]]
    /\ what' = [what EXCEPT ![p] = what'[p]]

LEMMA StoreFields ==
    ASSUME NEW s \in Stores
    PROVE  /\ s.id \in Ids /\ s.anchor \in Ids \cup {None} /\ s.recs \in Seq(Records)
           /\ s.staged \in [at : Nat, rec : Records] \cup {None} /\ s.junk \in BOOLEAN
           /\ s.anchor # None => SnapOf(s) \in Snapshots
  BY DEF Stores, SnapOf, Snapshots

LEMMA Touched ==
    ASSUME NEW s \in Stores, NEW st \in [at : Nat, rec : Records]
    PROVE  /\ [s EXCEPT !.junk = TRUE] \in Stores /\ [s EXCEPT !.staged = st] \in Stores
           /\ [s EXCEPT !.junk = TRUE].junk /\ [s EXCEPT !.staged = st].staged = st
           /\ [s EXCEPT !.junk = TRUE].anchor = s.anchor /\ [s EXCEPT !.junk = TRUE].recs = s.recs
           /\ [s EXCEPT !.staged = st].anchor = s.anchor /\ [s EXCEPT !.staged = st].recs = s.recs
  BY DEF Stores

LEMMA RecordType ==
    ASSUME TypeInv, NEW p \in Owners, snap[p] \in Snapshots, what[p] \in States
    PROVE  Record(p) \in Records /\ NextSlot(p) \in Nat
  <1>1. p \in Ids
    BY DEF Ids
  <1> QED BY <1>1 DEF Snapshots, Record, Records, NextSlot

\* Only the stores of the live path and of the retired ones are touched.
LEMMA LinkRecordType ==
    ASSUME TypeInv, NEW p \in Owners, NEW next, NEW lost, LinkRecord(p, next, lost)
    PROVE  /\ live' \in Stores \cup {None}
           /\ opened' \subseteq Ids /\ closed' \subseteq Ids
           /\ pc' = [pc EXCEPT ![p] = next] \/ pc' = [pc EXCEPT ![p] = lost]
           /\ UNCHANGED <<guard, retired, rguard>>
  <1>0. opened \subseteq Ids /\ closed \subseteq Ids /\ live \in Stores \cup {None}
    BY DEF TypeInv, TypeOK
  <1>1. CASE live = None \/ live.staged = None \/ live.staged.at # NextSlot(p)
             \/ Len(live.recs) >= NextSlot(p)
    BY <1>0, <1>1 DEF LinkRecord, Goto, files
  <1>2. CASE ~(live = None \/ live.staged = None \/ live.staged.at # NextSlot(p)
               \/ Len(live.recs) >= NextSlot(p))
    <2>1. live \in Stores /\ live.staged \in [at : Nat, rec : Records]
      BY <1>0, <1>2, StoreFields
    <2>2. live.staged.rec \in Records /\ live.staged.rec.epoch \in Ids
      BY <2>1 DEF Records
    <2>3. Append(live.recs, live.staged.rec) \in Seq(Records)
      BY <2>1, <2>2, StoreFields
    <2>4. live' \in Stores
      <3>1. live' = Linked(live, live.staged.rec) \/ live' = [live EXCEPT !.junk = TRUE]
        BY <1>2 DEF LinkRecord
      <3>2. Linked(live, live.staged.rec) \in Stores
        BY <2>1, <2>3, StoreFields DEF Linked, Stores
      <3>3. [live EXCEPT !.junk = TRUE] \in Stores
        BY <2>1 DEF Stores
      <3> QED BY <3>1, <3>2, <3>3
    <2>5. opened' \subseteq Ids /\ closed' \subseteq Ids
      BY <1>0, <1>2, <2>2 DEF LinkRecord
    <2> QED BY <1>2, <2>4, <2>5 DEF LinkRecord, Goto
  <1> QED BY <1>1, <1>2

\* A guard is moved to the retired name of the snapshot's generation.
LEMMA MoveGuardType ==
    ASSUME TypeInv, NEW p \in Owners, NEW next \in {"debris", "mkdir"}, MoveGuard(p, next), Keep,
           pc[p] \in {"unguard", "retireGuard"}, next = "mkdir" => pc[p] \in WithRecord
    PROVE  TypeInv'
  <1>1. snap[p] \in Snapshots /\ snap[p].anchor \in Ids
    BY DEF TypeInv, WithSnap, Snapshots
  <1>2. guard' \in Ids \cup {None} /\ rguard' \in [Ids -> Ids \cup {None}]
    BY <1>1 DEF MoveGuard, Reject, files, TypeInv, TypeOK
  <1>3. /\ pc' = [pc EXCEPT ![p] = next] \/ pc' = [pc EXCEPT ![p] = "release"]
        /\ UNCHANGED <<live, retired, lock, art, snap, what, thefts, opened, closed>>
    BY DEF MoveGuard, Reject, Goto, files, Keep
  <1>4. TypeOK'
    BY <1>2, <1>3 DEF TypeInv, TypeOK, Steps, Writing
  <1> QED BY <1>3, <1>4 DEF TypeInv, TypeOK, WithSnap, WithRecord, Early

\* A reading that is kept is the snapshot of an authenticated store.
LEMMA ViewType ==
    ASSUME TypeInv, NEW p \in Owners, View(p)
    PROVE  TypeInv'
  <1>1. pc \in [Owners -> Steps] /\ snap \in [Owners -> Snapshots \cup {None}]
    BY DEF TypeInv, TypeOK
  <1>2. /\ pc[p] = "view" /\ \E s \in {"artifact", "release"} : pc' = [pc EXCEPT ![p] = s]
        /\ UNCHANGED <<live, guard, retired, rguard, lock, art, what, thefts, opened, closed>>
    BY DEF View, Reject, Goto, files
  <1>3. \E s \in Snapshots \cup {None} : snap' = [snap EXCEPT ![p] = s]
    <2>1. CASE live = None /\ guard = None
      BY <2>1 DEF View
    <2>2. CASE ~(live = None /\ guard = None) /\ Sound(live, guard, 0, TRUE) /\ Admits(live)
      <3>1. live \in Stores /\ live.anchor # None
        BY <2>2 DEF Sound, TypeInv, TypeOK
      <3>2. SnapOf(live) \in Snapshots
        BY <3>1, StoreFields
      <3> QED BY <2>2, <3>2 DEF View
    <2>3. CASE ~(live = None /\ guard = None) /\ ~(Sound(live, guard, 0, TRUE) /\ Admits(live))
      <3>1. snap' = snap /\ snap[p] \in Snapshots \cup {None}
        BY <1>1, <2>3 DEF View, Reject
      <3> QED BY <1>1, <3>1
    <2> QED BY <2>1, <2>2, <2>3
  <1>4. /\ pc' \in [Owners -> Steps] /\ snap' \in [Owners -> Snapshots \cup {None}]
        /\ pc'[p] \in {"artifact", "release"}
        /\ \A q \in Owners \ {p} : pc'[q] = pc[q] /\ snap'[q] = snap[q]
    BY <1>1, <1>2, <1>3 DEF Steps, Writing
  <1>5. TypeOK'
    BY <1>2, <1>4 DEF TypeInv, TypeOK
  <1>6. ASSUME NEW q \in Owners
        PROVE  /\ pc'[q] \in WithSnap \/ what'[q] = "quiescent" => snap'[q] \in Snapshots
               /\ pc'[q] \in WithRecord => what'[q] \in States
               /\ pc'[q] \in Early => what'[q] # "quiescent"
    <2>1. CASE q = p
      <3>1. what[p] # "quiescent"
        BY <1>2 DEF TypeInv, Early
      <3> QED BY <1>2, <1>4, <2>1, <3>1 DEF WithSnap, WithRecord
    <2>2. CASE q # p
      BY <1>2, <1>4, <2>2 DEF TypeInv
    <2> QED BY <2>1, <2>2
  <1> QED BY <1>5, <1>6 DEF TypeInv

LEMMA InitType == Init => TypeInv
  <1> SUFFICES ASSUME Init PROVE TypeInv OBVIOUS
  <1>1. PastChain \in Seq(Records)
    BY DEF PastChain, Records, Ids, States
  <1>2. PastStore \in Stores
    BY <1>1 DEF PastStore, NewStore, Stores, Ids
  <1> QED BY <1>2, OwnersAssumption DEF Init, TypeInv, TypeOK, Ids, Steps, States, WithSnap,
             WithRecord, Early

\* Every step keeps the types.
LEMMA StepType ==
    ASSUME TypeInv, NEW p \in Owners, Step(p)
    PROVE  TypeInv'
  <1> USE OwnersAssumption DEF TypeInv, TypeOK, Steps, Writing, Ended, WithSnap, WithRecord,
     Early, Goto, Keep, files
  <1>1. CASE Ask(p)
    BY <1>1 DEF Ask
  <1>2. CASE Doubt(p)
    BY <1>2 DEF Doubt
  <1>3. CASE Acquire(p)
    BY <1>3 DEF Acquire
  <1>4. CASE Busy(p)
    BY <1>4 DEF Busy
  <1>5. CASE Steal(p)
    BY <1>5 DEF Steal
  <1>6. CASE FinishRotation(p)
    <2>1. CASE live = None /\ guard # None /\ Sound(retired[guard], guard, 0, FALSE)
      <3>1. SnapOf(retired[guard]) \in Snapshots
        BY <2>1, StoreFields DEF Sound
      <3> QED BY <1>6, <2>1, <3>1 DEF FinishRotation, Reject
    <2>2. CASE live = None /\ guard # None /\ ~Sound(retired[guard], guard, 0, FALSE)
      BY <1>6, <2>2 DEF FinishRotation, Reject
    <2>3. CASE live # None \/ guard = None
      <3>1. /\ pc[p] = "rotation" /\ pc' = [pc EXCEPT ![p] = "debris"]
            /\ UNCHANGED <<lock, live, guard, retired, rguard, art, snap, what,
                           thefts, opened, closed>>
        BY <1>6, <2>3 DEF FinishRotation
      <3>2. \A q \in Owners : \/ pc'[q] = pc[q]
                             \/ (pc[q] = "rotation" /\ pc'[q] = "debris")
        <4>1. pc \in [Owners -> Steps]
          OBVIOUS
        <4> QED BY ONLY <3>1, <4>1, p \in Owners
      <3>3. TypeOK'
        BY <3>1
      <3>4. \A q \in Owners : pc'[q] \in WithSnap => pc[q] \in WithSnap
        BY <3>2
      <3>5. \A q \in Owners : pc'[q] \in WithRecord => pc[q] \in WithRecord
        BY <3>2
      <3>6. \A q \in Owners : pc'[q] \in Early => pc[q] \in Early
        BY <3>2
      <3> QED BY ONLY <3>1, <3>3, <3>4, <3>5, <3>6, TypeInv DEF TypeInv
    <2> QED BY <2>1, <2>2, <2>3
  <1>7. CASE Unguard(p)
    BY <1>7, MoveGuardType DEF Unguard
  <1>8. CASE FinishBootstrap(p)
    BY <1>8 DEF FinishBootstrap, Reject
  <1>9. CASE Clear(p)
    BY <1>9 DEF Clear, Reject, Stores, Ids
  <1>10. CASE View(p)
    BY <1>10, ViewType
  <1>11. CASE Artifact(p)
    BY <1>11 DEF Artifact, Reject, States
  <1>12. CASE Adopt(p)
    BY <1>12 DEF Adopt, Reject
  <1>13. CASE Sweep(p)
    BY <1>13 DEF Sweep, Ids, Snapshots
  <1>14. CASE Retire(p)
    <2>1. RetiredName(p) \in Ids
      BY <1>14 DEF Retire, RetiredName, Snapshots
    <2> QED BY <1>14, <2>1 DEF Retire, Reject
  <1>15. CASE RetireGuard(p)
    BY <1>15, MoveGuardType DEF RetireGuard
  <1>16. CASE Mkdir(p)
    <2>1. NewStore(p) \in Stores
      BY DEF NewStore, Stores, Ids
    <2> QED BY <1>16, <2>1 DEF Mkdir, Reject
  <1>17. CASE Anchor(p)
    <2>1. live \in Stores => [live EXCEPT !.anchor = p] \in Stores
      BY DEF Stores, Ids
    <2> QED BY <1>17, <2>1 DEF Anchor, Reject
  <1>18. CASE Link(p)
    <2>1. live # None => live.anchor \in Ids \cup {None}
      BY StoreFields
    <2> QED BY <1>18, <2>1 DEF Link, Reject
  <1>19. CASE Boot(p)
    <2>1. CASE Sound(live, guard, 0, TRUE)
      <3>1. SnapOf(live) \in Snapshots
        BY <2>1, StoreFields DEF Sound
      <3> QED BY <1>19, <2>1, <3>1 DEF Boot
    <2>2. CASE ~Sound(live, guard, 0, TRUE)
      <3>1. pc' = [pc EXCEPT ![p] = "release"] /\ UNCHANGED <<files, lock, art, snap, what, thefts, opened, closed>>
        BY <1>19, <2>2 DEF Boot, Reject
      <3> QED BY <3>1
    <2> QED BY <2>1, <2>2
  <1>20. CASE Check(p)
    BY <1>20 DEF Check, Lose
  <1>21. CASE Prepare(p)
    <2>1. live \in Stores => [live EXCEPT !.junk = TRUE] \in Stores
      BY DEF Stores
    <2>2. live \in Stores => [live EXCEPT !.staged = [at |-> NextSlot(p), rec |-> Record(p)]] \in Stores
      BY <1>21, RecordType DEF Prepare, Stores
    <2>3. live' \in Stores \cup {None} /\ UNCHANGED <<guard, retired, rguard>>
      BY <1>21, <2>1, <2>2 DEF Prepare, Lose
    <2>4. pc' = [pc EXCEPT ![p] = "recheck"] \/ pc' = [pc EXCEPT ![p] = "mark"]
      BY <1>21 DEF Prepare, Lose
    <2> QED BY <1>21, <2>3, <2>4 DEF Prepare
  <1>22. CASE Recheck(p)
    BY <1>22 DEF Recheck, Lose
  <1>23. CASE Publish(p)
    BY <1>23, LinkRecordType DEF Publish
  <1>24. CASE After(p)
    <2>1. snap[p] \in Snapshots /\ Installed(p) \in Seq(Records)
      BY <1>24, RecordType DEF After, Installed, Snapshots
    <2>2. [snap[p] EXCEPT !.recs = Installed(p)] \in Snapshots
      BY <2>1 DEF Snapshots
    <2>3. CASE snap' = [snap EXCEPT ![p].recs = Installed(p)]
      BY <1>24, <2>2, <2>3 DEF After, Lose
    <2> QED BY <1>24, <2>3 DEF After, Lose
  <1>25. CASE AssertIdentity(p)
    BY <1>25 DEF AssertIdentity, Lose, Settled
  <1>26. CASE Claim(p)
    BY <1>26 DEF Claim, Lose
  <1>27. CASE Finish(p)
    BY <1>27 DEF Finish, States
  <1>28. CASE Fail(p)
    BY <1>28 DEF Fail, States
  <1>29. CASE Mark(p)
    <2>1. live \in Stores => [live EXCEPT !.junk = TRUE] \in Stores
      BY DEF Stores
    <2>2. live' \in Stores \cup {None} /\ pc' = [pc EXCEPT ![p] = "release"]
          /\ what' = [what EXCEPT ![p] = "quarantined"]
          /\ UNCHANGED <<guard, retired, rguard, lock, art, snap, thefts, opened, closed>>
      BY <1>29, <2>1 DEF Mark
    <2> QED BY <2>2 DEF States
  <1>30. CASE Release(p)
    BY <1>30 DEF Release, States
  <1>31. CASE Confirm(p)
    BY <1>31 DEF Confirm
  <1>32. CASE Free(p)
    BY <1>32 DEF Free
  <1>33. CASE Stat(p)
    BY <1>33 DEF Stat
  <1>34. CASE Seal(p)
    BY <1>34, LinkRecordType DEF Seal
  <1>35. CASE Verify1(p)
    BY <1>35 DEF Verify1, Verify
  <1>36. CASE Verify2(p)
    BY <1>36 DEF Verify2, Verify
  <1>37. CASE Verify3(p)
    BY <1>37 DEF Verify3, Verify
  <1>38. CASE Die(p)
    BY <1>38 DEF Die, Ended
  <1> QED BY <1>1, <1>2, <1>3, <1>4, <1>5, <1>6, <1>7, <1>8, <1>9, <1>10, <1>11, <1>12,
             <1>13, <1>14, <1>15, <1>16, <1>17, <1>18, <1>19, <1>20, <1>21, <1>22, <1>23,
             <1>24, <1>25, <1>26, <1>27, <1>28, <1>29, <1>30, <1>31, <1>32, <1>33, <1>34,
             <1>35, <1>36, <1>37, <1>38 DEF Step

\* The files hold what readSnapshot can parse, and an owner uses a snapshot and
\* a record only at the steps that have one.
THEOREM TypeCorrect == Spec => []TypeOK
  <1>1. TypeInv /\ [Next]_vars => TypeInv'
    <2> SUFFICES ASSUME TypeInv, [Next]_vars PROVE TypeInv'
      OBVIOUS
    <2>1. CASE Next
      BY <2>1, StepType DEF Next
    <2>2. CASE UNCHANGED vars
      BY <2>2 DEF vars, TypeInv, TypeOK
    <2> QED BY <2>1, <2>2
  <1>2. TypeInv => TypeOK
    BY DEF TypeInv
  <1> QED BY <1>1, <1>2, InitType, PTL DEF Spec

-------------------------------------------------------------------------------
(* The barrier of an open epoch. *)

\* The steps at which an owner has the mutex.
Locked == {"rotation", "unguard", "debris", "clear", "view", "artifact", "adopt",
           "sweep", "retire", "retireGuard", "mkdir", "anchor", "link", "boot",
           "check", "prepare", "recheck", "publish", "after", "work", "mark",
           "release"}

\* The steps of a completion after its predecessor was confirmed.
Sealing == {"free", "stat", "seal"}

\* The rotation of the last generation and the bootstrap of the next.
Bootstrap == {"adopt", "sweep", "retire", "retireGuard", "mkdir", "anchor", "link", "boot"}

\* Where an owner can be while somebody else's epoch is open: none of these
\* steps, and no step they lead to, touches the store or the guard then.
Outside == {"new", "doubt", "lock", "rotation", "debris", "view", "release", "gone",
            "dead", "done", "unsure", "verify1", "verify2", "verify3"}

\* Where the owner of an open epoch can be.
Inside == {"check", "prepare", "recheck", "publish", "after", "work", "mark",
           "release", "confirm", "free", "stat", "seal", "gone", "dead"}

\* Where the owner of a closed epoch can be.
Over == {"verify1", "verify2", "verify3", "done", "unsure", "gone", "dead"}

OpenEpochs == opened \ closed

Staging(p) == [at |-> NextSlot(p), rec |-> Record(p)]

\* The owner has written its ACTIVE record and not its last one.
Engaged(p) ==
    \/ pc[p] \in {"after", "work", "confirm"} \cup Sealing
    \/ pc[p] \in {"check", "prepare", "recheck", "publish"} /\ what[p] # "active"
    \/ pc[p] = "release" /\ what[p] = "quiescent"

Mutex(p) == pc[p] \in Locked => lock = p

\* The fences of writeTransition and of publishCompletion hold the store still.
Fenced(p) ==
    /\ pc[p] \in Bootstrap => what[p] = "active"
    /\ pc[p] = "recheck" => live # None /\ (live.junk \/ live.staged = Staging(p))
    /\ pc[p] = "publish" =>
          /\ live # None /\ guard # None /\ guard = live.anchor
          /\ live.recs = snap[p].recs /\ live.staged = Staging(p)
          /\ what[p] # "quiescent"
    /\ pc[p] \in Sealing => live # None /\ live.staged = Staging(p)
    /\ pc[p] \in {"confirm"} \cup Sealing => what[p] = "quiescent"

History(p) ==
    /\ Engaged(p) => p \in OpenEpochs
    /\ p \in closed => pc[p] \in Over

Barrier(e) ==
    /\ e \in Owners /\ pc[e] \in Inside
    /\ live # None /\ guard # None /\ guard = live.anchor
    /\ live.recs # <<>> /\ Last(live).epoch = e /\ Last(live).state # "quiescent"
    /\ \A p \in Owners \ {e} : pc[p] \in Outside

Safe ==
    /\ \A p \in Owners : Mutex(p) /\ Fenced(p) /\ History(p)
    /\ \A e \in OpenEpochs : Barrier(e)

Inv == thefts = 0 => Safe

LEMMA OneOpen ==
    ASSUME Safe, NEW e \in OpenEpochs, NEW f \in OpenEpochs
    PROVE  e = f
  BY DEF Safe, Barrier

\* A step that leaves the files and the history alone keeps the invariant if
\* it keeps what the invariant says of its own owner and of the others' lock.
LEMMA QuietStep ==
    ASSUME TypeInv, TypeInv', Safe, NEW p \in Owners,
           UNCHANGED <<live, guard, opened, closed>>,
           \A q \in Owners \ {p} : /\ pc'[q] = pc[q] /\ snap'[q] = snap[q] /\ what'[q] = what[q]
                                   /\ pc[q] \in Locked => lock' = lock,
           Mutex(p)', Fenced(p)', History(p)',
           p \in OpenEpochs => pc'[p] \in Inside,
           (\E e \in OpenEpochs : e # p) => pc'[p] \in Outside
    PROVE  Safe'
  <1>1. ASSUME NEW q \in Owners PROVE Mutex(q)' /\ Fenced(q)' /\ History(q)'
    <2>1. CASE q = p
      BY <2>1
    <2>2. CASE q # p
      <3>1. Mutex(q)'
        BY <2>2 DEF Safe, Mutex
      <3>2. Fenced(q)'
        BY <2>2 DEF Safe, Fenced, Staging, NextSlot, Record
      <3>3. History(q)'
        BY <2>2 DEF Safe, History, Engaged, OpenEpochs
      <3> QED BY <3>1, <3>2, <3>3
    <2> QED BY <2>1, <2>2
  <1>2. ASSUME NEW e \in OpenEpochs' PROVE Barrier(e)'
    <2>1. e \in OpenEpochs /\ Barrier(e)
      BY DEF OpenEpochs, Safe
    <2>2. pc'[e] \in Inside
      BY <2>1 DEF Barrier
    <2>3. \A q \in Owners \ {e} : pc'[q] \in Outside
      BY <2>1 DEF Barrier
    <2> QED BY <2>1, <2>2, <2>3 DEF Barrier, Last
  <1> QED BY <1>1, <1>2 DEF Safe

\* A step under the mutex by an owner who could not be there while somebody
\* else's epoch is open: the others have no store to watch.
LEMMA InsideStep ==
    ASSUME TypeInv, TypeInv', Safe, NEW p \in Owners, pc[p] \in Locked \ Outside,
           UNCHANGED <<lock, opened, closed>>,
           \A q \in Owners \ {p} : pc'[q] = pc[q] /\ snap'[q] = snap[q] /\ what'[q] = what[q],
           Mutex(p)', Fenced(p)', History(p)',
           p \in OpenEpochs => /\ pc'[p] \in Inside
                              /\ live' # None /\ guard' = guard
                              /\ live'.anchor = live.anchor /\ live'.recs = live.recs
    PROVE  Safe'
  <1>1. \A e \in OpenEpochs : e = p
    BY DEF Safe, Barrier
  <1>2. \A q \in Owners \ {p} : pc[q] \notin Locked
    BY DEF Safe, Mutex
  <1>3. \A q \in Owners \ {p} : ~Engaged(q)
    BY <1>1 DEF Safe, History
  <1>4. ASSUME NEW q \in Owners PROVE Mutex(q)' /\ Fenced(q)' /\ History(q)'
    <2>1. CASE q = p
      BY <2>1
    <2>2. CASE q # p
      <3>1. Mutex(q)'
        BY <2>2, <1>2 DEF Mutex
      <3>2. Fenced(q)'
        BY <2>2, <1>2, <1>3 DEF Fenced, Locked, Engaged, Bootstrap
      <3>3. History(q)'
        BY <2>2 DEF Safe, History, Engaged, OpenEpochs
      <3> QED BY <3>1, <3>2, <3>3
    <2> QED BY <2>1, <2>2
  <1>5. ASSUME NEW e \in OpenEpochs' PROVE Barrier(e)'
    <2>1. e \in OpenEpochs /\ e = p /\ Barrier(p)
      BY <1>1 DEF OpenEpochs, Safe
    <2> QED BY <2>1 DEF Barrier, Last
  <1> QED BY <1>4, <1>5 DEF Safe

\* A step is its owner's.
LEMMA StepOthers ==
    ASSUME TypeInv, NEW p \in Owners, Step(p)
    PROVE  \A q \in Owners \ {p} : /\ pc'[q] = pc[q] /\ snap'[q] = snap[q]
                                    /\ what'[q] = what[q] /\ art'[q] = art[q]
  <1> USE DEF TypeInv, TypeOK, Goto, Keep, Reject, Lose
  <1>1. CASE \/ Ask(p) \/ Doubt(p) \/ Acquire(p) \/ Busy(p) \/ Steal(p)
             \/ FinishRotation(p) \/ Unguard(p) \/ FinishBootstrap(p) \/ Clear(p)
    BY <1>1 DEF Ask, Doubt, Acquire, Busy, Steal, FinishRotation, Unguard, MoveGuard,
                FinishBootstrap, Clear
  <1>2. CASE \/ View(p) \/ Artifact(p) \/ Adopt(p) \/ Sweep(p) \/ Retire(p) \/ RetireGuard(p)
             \/ Mkdir(p) \/ Anchor(p) \/ Link(p) \/ Boot(p)
    BY <1>2 DEF View, Artifact, Adopt, Sweep, Retire, RetireGuard, MoveGuard, Mkdir, Anchor,
                Link, Boot
  <1>3. CASE \/ Check(p) \/ Prepare(p) \/ Recheck(p) \/ Publish(p) \/ After(p)
             \/ AssertIdentity(p) \/ Claim(p) \/ Finish(p) \/ Fail(p) \/ Mark(p)
    BY <1>3 DEF Check, Prepare, Recheck, Publish, LinkRecord, After, AssertIdentity, Claim,
                Finish, Fail, Mark
  <1>4. CASE \/ Release(p) \/ Confirm(p) \/ Free(p) \/ Stat(p) \/ Seal(p)
             \/ Verify1(p) \/ Verify2(p) \/ Verify3(p) \/ Die(p)
    BY <1>4 DEF Release, Confirm, Free, Stat, Seal, LinkRecord, Verify1, Verify2, Verify3,
                Verify, Die
  <1> QED BY <1>1, <1>2, <1>3, <1>4 DEF Step

\* Nothing but the links of records changes the histories.
LEMMA StepSafe ==
    ASSUME TypeInv, TypeInv', Safe, thefts = 0, thefts' = 0, NEW p \in Owners, Step(p)
    PROVE  Safe'
  <1> DEFINE Others == \A q \in Owners \ {p} :
                          pc'[q] = pc[q] /\ snap'[q] = snap[q] /\ what'[q] = what[q]
             Mine == Mutex(p)' /\ Fenced(p)' /\ History(p)'
             Quiet == /\ UNCHANGED <<live, guard, opened, closed>>
                      /\ \A q \in Owners \ {p} : pc[q] \in Locked => lock' = lock
                      /\ p \in OpenEpochs => pc'[p] \in Inside
                      /\ (\E e \in OpenEpochs : e # p) => pc'[p] \in Outside
             Inner == /\ pc[p] \in Locked \ Outside
                      /\ UNCHANGED <<lock, opened, closed>>
                      /\ p \in OpenEpochs => /\ pc'[p] \in Inside
                                            /\ live' # None /\ guard' = guard
                                            /\ live'.anchor = live.anchor /\ live'.recs = live.recs
  <1>q. Others /\ Mine /\ Quiet => Safe'
    BY QuietStep
  <1>i. Others /\ Mine /\ Inner => Safe'
    BY InsideStep
  <1>o. Others
    BY StepOthers
  <1>m. Mutex(p) /\ Fenced(p) /\ History(p)
    BY DEF Safe
  <1>x. \A q \in Owners : Mutex(q)
    BY DEF Safe
  <1>b. \A e \in OpenEpochs : Barrier(e)
    BY DEF Safe
  <1>1. CASE Ask(p)
    <2>1. Mutex(p)'
      BY <1>1, <1>m DEF Ask, TypeInv, TypeOK, Goto, Keep, files, Mutex, Locked
    <2>2. Fenced(p)'
      BY <1>1, <1>m DEF Ask, TypeInv, TypeOK, Goto, Keep, files, Fenced, Bootstrap, Sealing,
         Staging, NextSlot, Record
    <2>3. History(p)'
      BY <1>1, <1>m DEF Ask, TypeInv, TypeOK, Goto, Keep, files, History, Engaged, Over,
         OpenEpochs, Sealing, Early
    <2>4. Quiet
      BY <1>1, <1>m, <1>b DEF Ask, TypeInv, TypeOK, Goto, Keep, files, Locked, Inside,
         Outside, Barrier, Mutex, Sealing
    <2> QED BY <2>1, <2>2, <2>3, <2>4, <1>q, <1>o
  <1>2. CASE Doubt(p)
    <2>1. Mutex(p)'
      BY <1>2, <1>m DEF Doubt, TypeInv, TypeOK, Goto, Keep, files, Mutex, Locked
    <2>2. Fenced(p)'
      BY <1>2, <1>m DEF Doubt, TypeInv, TypeOK, Goto, Keep, files, Fenced, Bootstrap,
         Sealing, Staging, NextSlot, Record
    <2>3. History(p)'
      BY <1>2, <1>m DEF Doubt, TypeInv, TypeOK, Goto, Keep, files, History, Engaged, Over,
         OpenEpochs, Sealing, Early
    <2>4. Quiet
      BY <1>2, <1>m, <1>b DEF Doubt, TypeInv, TypeOK, Goto, Keep, files, Locked, Inside,
         Outside, Barrier, Mutex, Sealing
    <2> QED BY <2>1, <2>2, <2>3, <2>4, <1>q, <1>o
  <1>3. CASE Acquire(p)
    <2>1. Mutex(p)'
      BY <1>3, <1>m DEF Acquire, TypeInv, TypeOK, Goto, Keep, files, Mutex, Locked
    <2>2. Fenced(p)'
      BY <1>3, <1>m DEF Acquire, TypeInv, TypeOK, Goto, Keep, files, Fenced, Bootstrap,
         Sealing, Staging, NextSlot, Record
    <2>3. History(p)'
      BY <1>3, <1>m DEF Acquire, TypeInv, TypeOK, Goto, Keep, files, History, Engaged, Over,
         OpenEpochs, Sealing, Early
    <2>4. Quiet
      BY <1>3, <1>m, <1>x, <1>b, OneOpen, OwnersAssumption
      DEF Acquire, TypeInv, TypeOK, Goto, Keep, files, Locked, Inside, Outside, Barrier,
         Mutex, History, Engaged
    <2> QED BY <2>1, <2>2, <2>3, <2>4, <1>q, <1>o
  <1>4. CASE Busy(p)
    <2>1. Mutex(p)'
      BY <1>4, <1>m DEF Busy, TypeInv, TypeOK, Goto, Keep, files, Mutex, Locked
    <2>2. Fenced(p)'
      BY <1>4, <1>m DEF Busy, TypeInv, TypeOK, Goto, Keep, files, Fenced, Bootstrap,
         Sealing, Staging, NextSlot, Record
    <2>3. History(p)'
      BY <1>4, <1>m DEF Busy, TypeInv, TypeOK, Goto, Keep, files, History, Engaged, Over,
         OpenEpochs, Sealing, Early
    <2>4. Quiet
      BY <1>4, <1>m, <1>b DEF Busy, TypeInv, TypeOK, Goto, Keep, files, Locked, Inside,
         Outside, Barrier, Mutex, Sealing
    <2> QED BY <2>1, <2>2, <2>3, <2>4, <1>q, <1>o
  <1>5. CASE Steal(p)
    <2>1. Mutex(p)'
      BY <1>5, <1>m DEF Steal, TypeInv, TypeOK, Goto, Keep, files, Mutex, Locked
    <2>2. Fenced(p)'
      BY <1>5, <1>m DEF Steal, TypeInv, TypeOK, Goto, Keep, files, Fenced, Bootstrap,
         Sealing, Staging, NextSlot, Record
    <2>3. History(p)'
      BY <1>5, <1>m DEF Steal, TypeInv, TypeOK, Goto, Keep, files, History, Engaged, Over,
         OpenEpochs, Sealing, Early
    <2>4. Quiet
      BY <1>5, <1>m, <1>x, <1>b, OneOpen, OwnersAssumption
      DEF Steal, TypeInv, TypeOK, Goto, Keep, files, Locked, Inside, Outside, Barrier,
         Mutex, History, Engaged
    <2> QED BY <2>1, <2>2, <2>3, <2>4, <1>q, <1>o
  <1>6. CASE FinishRotation(p)
    <2>0. /\ pc[p] = "rotation" /\ pc'[p] \in {"debris", "unguard", "release"}
          /\ UNCHANGED <<lock, what, opened, closed>>
      BY <1>6 DEF FinishRotation, Reject, TypeInv, TypeOK, Goto
    <2>a. what[p] # "quiescent"
      BY <2>0 DEF TypeInv, Early
    <2>1. Mutex(p)'
      BY <2>0, <1>m DEF Mutex, Locked
    <2>2. Fenced(p)'
      BY <2>0, <1>m DEF Fenced, Bootstrap, Sealing
    <2>3. History(p)'
      BY <2>0, <2>a, <1>m DEF History, Engaged, Over, OpenEpochs, Sealing
    <2>4. Quiet
      BY <1>6, <1>m, <1>b DEF FinishRotation, Reject, TypeInv, TypeOK, Goto, Keep, files,
         Locked, Inside, Outside, Barrier, Mutex, Sealing
    <2> QED BY <2>1, <2>2, <2>3, <2>4, <1>q, <1>o
  <1>7. CASE Unguard(p)
    <2>1. Mutex(p)'
      BY <1>7, <1>m DEF Unguard, MoveGuard, Reject, TypeInv, TypeOK, Goto, Keep, files,
         Mutex, Locked
    <2>2. Fenced(p)'
      BY <1>7, <1>m DEF Unguard, MoveGuard, Reject, TypeInv, TypeOK, Goto, Keep, files,
         Fenced, Bootstrap, Sealing, Staging, NextSlot, Record
    <2>3. History(p)'
      BY <1>7, <1>m DEF Unguard, MoveGuard, Reject, TypeInv, TypeOK, Goto, Keep, files,
         History, Engaged, Over, OpenEpochs, Sealing, Early
    <2>4. Inner
      BY <1>7, <1>m, <1>b DEF Unguard, MoveGuard, Reject, TypeInv, TypeOK, Goto, Keep,
         files, Locked, Inside, Outside, Barrier, Mutex, Sealing
    <2> QED BY <2>1, <2>2, <2>3, <2>4, <1>i, <1>o
  <1>8. CASE FinishBootstrap(p)
    <2>1. Mutex(p)'
      BY <1>8, <1>m DEF FinishBootstrap, Reject, TypeInv, TypeOK, Goto, Keep, files, Mutex,
         Locked
    <2>2. Fenced(p)'
      BY <1>8, <1>m DEF FinishBootstrap, Reject, TypeInv, TypeOK, Goto, Keep, files, Fenced,
         Bootstrap, Sealing, Staging, NextSlot, Record
    <2>3. History(p)'
      BY <1>8, <1>m DEF FinishBootstrap, Reject, TypeInv, TypeOK, Goto, Keep, files,
         History, Engaged, Over, OpenEpochs, Sealing, Early
    <2>4. Quiet
      BY <1>8, <1>m, <1>b DEF FinishBootstrap, Reject, TypeInv, TypeOK, Goto, Keep, files,
         Locked, Inside, Outside, Barrier, Mutex, Sealing
    <2> QED BY <2>1, <2>2, <2>3, <2>4, <1>q, <1>o
  <1>9. CASE Clear(p)
    <2>1. Mutex(p)'
      BY <1>9, <1>m DEF Clear, Reject, TypeInv, TypeOK, Goto, Keep, files, Mutex, Locked
    <2>2. Fenced(p)'
      BY <1>9, <1>m DEF Clear, Reject, TypeInv, TypeOK, Goto, Keep, files, Fenced,
         Bootstrap, Sealing, Staging, NextSlot, Record
    <2>3. History(p)'
      BY <1>9, <1>m DEF Clear, Reject, TypeInv, TypeOK, Goto, Keep, files, History, Engaged,
         Over, OpenEpochs, Sealing, Early
    <2>4. Inner
      BY <1>9, <1>m, <1>b DEF Clear, Reject, TypeInv, TypeOK, Goto, Keep, files, Locked,
         Inside, Outside, Barrier, Mutex, Sealing
    <2> QED BY <2>1, <2>2, <2>3, <2>4, <1>i, <1>o
  <1>10. CASE View(p)
    <2>0. /\ pc[p] = "view" /\ pc'[p] \in {"artifact", "release"}
          /\ UNCHANGED <<lock, what, opened, closed>>
      BY <1>10 DEF View, Reject, TypeInv, TypeOK, Goto
    <2>a. what[p] # "quiescent"
      BY <2>0 DEF TypeInv, Early
    <2>1. Mutex(p)'
      BY <2>0, <1>m DEF Mutex, Locked
    <2>2. Fenced(p)'
      BY <2>0, <1>m DEF Fenced, Bootstrap, Sealing
    <2>3. History(p)'
      BY <2>0, <2>a, <1>m DEF History, Engaged, Over, OpenEpochs, Sealing
    <2>4. Quiet
      BY <1>10, <1>b DEF View, Reject, TypeInv, TypeOK, Goto, files, Locked, Inside,
         Outside, Barrier, Admits, Quiescent
    <2> QED BY <2>1, <2>2, <2>3, <2>4, <1>q, <1>o
  <1>11. CASE Artifact(p)
    <2>1. Mutex(p)'
      BY <1>11, <1>m DEF Artifact, Reject, TypeInv, TypeOK, Goto, Keep, files, Mutex, Locked
    <2>2. Fenced(p)'
      BY <1>11, <1>m DEF Artifact, Reject, TypeInv, TypeOK, Goto, Keep, files, Fenced,
         Bootstrap, Sealing, Staging, NextSlot, Record
    <2>3. History(p)'
      BY <1>11, <1>m DEF Artifact, Reject, TypeInv, TypeOK, Goto, Keep, files, History,
         Engaged, Over, OpenEpochs, Sealing, Early
    <2>4. Inner
      BY <1>11, <1>m, <1>b DEF Artifact, Reject, TypeInv, TypeOK, Goto, Keep, files, Locked,
         Inside, Outside, Barrier, Mutex, Sealing
    <2> QED BY <2>1, <2>2, <2>3, <2>4, <1>i, <1>o
  <1>12. CASE Adopt(p)
    <2>1. Mutex(p)'
      BY <1>12, <1>m DEF Adopt, Reject, TypeInv, TypeOK, Goto, Keep, files, Mutex, Locked
    <2>2. Fenced(p)'
      BY <1>12, <1>m DEF Adopt, Reject, TypeInv, TypeOK, Goto, Keep, files, Fenced,
         Bootstrap, Sealing, Staging, NextSlot, Record
    <2>3. History(p)'
      BY <1>12, <1>m DEF Adopt, Reject, TypeInv, TypeOK, Goto, Keep, files, History,
         Engaged, Over, OpenEpochs, Sealing, Early
    <2>4. Inner
      BY <1>12, <1>m, <1>b DEF Adopt, Reject, TypeInv, TypeOK, Goto, Keep, files, Locked,
         Inside, Outside, Barrier, Mutex, Sealing
    <2> QED BY <2>1, <2>2, <2>3, <2>4, <1>i, <1>o
  <1>13. CASE Sweep(p)
    <2>1. Mutex(p)'
      BY <1>13, <1>m DEF Sweep, TypeInv, TypeOK, Goto, Keep, files, Mutex, Locked
    <2>2. Fenced(p)'
      BY <1>13, <1>m DEF Sweep, TypeInv, TypeOK, Goto, Keep, files, Fenced, Bootstrap,
         Sealing, Staging, NextSlot, Record
    <2>3. History(p)'
      BY <1>13, <1>m DEF Sweep, TypeInv, TypeOK, Goto, Keep, files, History, Engaged, Over,
         OpenEpochs, Sealing, Early
    <2>4. Inner
      BY <1>13, <1>m, <1>b DEF Sweep, TypeInv, TypeOK, Goto, Keep, files, Locked, Inside,
         Outside, Barrier, Mutex, Sealing
    <2> QED BY <2>1, <2>2, <2>3, <2>4, <1>i, <1>o
  <1>14. CASE Retire(p)
    <2>1. Mutex(p)'
      BY <1>14, <1>m DEF Retire, Reject, RetiredName, TypeInv, TypeOK, Goto, Keep, files,
         Mutex, Locked
    <2>2. Fenced(p)'
      BY <1>14, <1>m DEF Retire, Reject, RetiredName, TypeInv, TypeOK, Goto, Keep, files,
         Fenced, Bootstrap, Sealing, Staging, NextSlot, Record
    <2>3. History(p)'
      BY <1>14, <1>m DEF Retire, Reject, RetiredName, TypeInv, TypeOK, Goto, Keep, files,
         History, Engaged, Over, OpenEpochs, Sealing, Early
    <2>4. Inner
      BY <1>14, <1>m, <1>b DEF Retire, Reject, RetiredName, TypeInv, TypeOK, Goto, Keep,
         files, Locked, Inside, Outside, Barrier, Mutex, Sealing
    <2> QED BY <2>1, <2>2, <2>3, <2>4, <1>i, <1>o
  <1>15. CASE RetireGuard(p)
    <2>1. Mutex(p)'
      BY <1>15, <1>m DEF RetireGuard, MoveGuard, Reject, TypeInv, TypeOK, Goto, Keep, files,
         Mutex, Locked
    <2>2. Fenced(p)'
      BY <1>15, <1>m DEF RetireGuard, MoveGuard, Reject, TypeInv, TypeOK, Goto, Keep, files,
         Fenced, Bootstrap, Sealing, Staging, NextSlot, Record
    <2>3. History(p)'
      BY <1>15, <1>m DEF RetireGuard, MoveGuard, Reject, TypeInv, TypeOK, Goto, Keep, files,
         History, Engaged, Over, OpenEpochs, Sealing, Early
    <2>4. Inner
      BY <1>15, <1>m, <1>b DEF RetireGuard, MoveGuard, Reject, TypeInv, TypeOK, Goto, Keep,
         files, Locked, Inside, Outside, Barrier, Mutex, Sealing
    <2> QED BY <2>1, <2>2, <2>3, <2>4, <1>i, <1>o
  <1>16. CASE Mkdir(p)
    <2>1. Mutex(p)'
      BY <1>16, <1>m DEF Mkdir, Reject, TypeInv, TypeOK, Goto, Keep, files, Mutex, Locked
    <2>2. Fenced(p)'
      BY <1>16, <1>m DEF Mkdir, Reject, TypeInv, TypeOK, Goto, Keep, files, Fenced,
         Bootstrap, Sealing, Staging, NextSlot, Record
    <2>3. History(p)'
      BY <1>16, <1>m DEF Mkdir, Reject, TypeInv, TypeOK, Goto, Keep, files, History,
         Engaged, Over, OpenEpochs, Sealing, Early
    <2>4. Inner
      BY <1>16, <1>m, <1>b DEF Mkdir, Reject, TypeInv, TypeOK, Goto, Keep, files, Locked,
         Inside, Outside, Barrier, Mutex, Sealing
    <2> QED BY <2>1, <2>2, <2>3, <2>4, <1>i, <1>o
  <1>17. CASE Anchor(p)
    <2>1. Mutex(p)'
      BY <1>17, <1>m DEF Anchor, Reject, TypeInv, TypeOK, Goto, Keep, files, Mutex, Locked
    <2>2. Fenced(p)'
      BY <1>17, <1>m DEF Anchor, Reject, TypeInv, TypeOK, Goto, Keep, files, Fenced,
         Bootstrap, Sealing, Staging, NextSlot, Record
    <2>3. History(p)'
      BY <1>17, <1>m DEF Anchor, Reject, TypeInv, TypeOK, Goto, Keep, files, History,
         Engaged, Over, OpenEpochs, Sealing, Early
    <2>4. Inner
      BY <1>17, <1>m, <1>b DEF Anchor, Reject, TypeInv, TypeOK, Goto, Keep, files, Locked,
         Inside, Outside, Barrier, Mutex, Sealing
    <2> QED BY <2>1, <2>2, <2>3, <2>4, <1>i, <1>o
  <1>18. CASE Link(p)
    <2>1. Mutex(p)'
      BY <1>18, <1>m DEF Link, Reject, TypeInv, TypeOK, Goto, Keep, files, Mutex, Locked
    <2>2. Fenced(p)'
      BY <1>18, <1>m DEF Link, Reject, TypeInv, TypeOK, Goto, Keep, files, Fenced,
         Bootstrap, Sealing, Staging, NextSlot, Record
    <2>3. History(p)'
      BY <1>18, <1>m DEF Link, Reject, TypeInv, TypeOK, Goto, Keep, files, History, Engaged,
         Over, OpenEpochs, Sealing, Early
    <2>4. Inner
      BY <1>18, <1>m, <1>b DEF Link, Reject, TypeInv, TypeOK, Goto, Keep, files, Locked,
         Inside, Outside, Barrier, Mutex, Sealing
    <2> QED BY <2>1, <2>2, <2>3, <2>4, <1>i, <1>o
  <1>19. CASE Boot(p)
    <2>0. /\ pc[p] = "boot" /\ pc'[p] \in {"check", "release"}
          /\ UNCHANGED <<lock, what, opened, closed>>
      BY <1>19 DEF Boot, Reject, TypeInv, TypeOK, Goto
    <2>a. what[p] = "active"
      BY <2>0, <1>m DEF Fenced, Bootstrap
    <2>1. Mutex(p)'
      BY <2>0, <1>m DEF Mutex, Locked
    <2>2. Fenced(p)'
      BY <2>0, <1>m DEF Fenced, Bootstrap, Sealing
    <2>3. History(p)'
      BY <2>0, <2>a, <1>m DEF History, Engaged, Over, OpenEpochs, Sealing
    <2>4. Inner
      BY <1>19, <1>m, <1>b DEF Boot, Reject, TypeInv, TypeOK, Goto, Keep, files, Locked,
         Inside, Outside, Barrier, Mutex, Sealing
    <2> QED BY <2>1, <2>2, <2>3, <2>4, <1>i, <1>o
  <1>20. CASE Check(p)
    <2>1. Mutex(p)'
      BY <1>20, <1>m DEF Check, Lose, TypeInv, TypeOK, Goto, Keep, files, Mutex, Locked
    <2>2. Fenced(p)'
      BY <1>20, <1>m DEF Check, Lose, TypeInv, TypeOK, Goto, Keep, files, Fenced, Bootstrap,
         Sealing, Staging, NextSlot, Record
    <2>3. History(p)'
      BY <1>20, <1>m DEF Check, Lose, TypeInv, TypeOK, Goto, Keep, files, History, Engaged,
         Over, OpenEpochs, Sealing, Early
    <2>4. Inner
      BY <1>20, <1>m, <1>b DEF Check, Lose, TypeInv, TypeOK, Goto, Keep, files, Locked,
         Inside, Outside, Barrier, Mutex, Sealing
    <2> QED BY <2>1, <2>2, <2>3, <2>4, <1>i, <1>o
  <1>21. CASE Prepare(p)
    <2>1. Mutex(p)'
      BY <1>21, <1>m DEF Prepare, Lose, TypeInv, TypeOK, Goto, Keep, files, Mutex, Locked
    <2>a. UNCHANGED <<guard, snap, what, lock, opened, closed>> /\ pc[p] = "prepare"
      BY <1>21 DEF Prepare, Lose, Keep, files
    <2>b. \/ pc' = [pc EXCEPT ![p] = "mark"] /\ live' = live
          \/ /\ pc' = [pc EXCEPT ![p] = "recheck"] /\ live # None
             /\ live' = [live EXCEPT !.junk = TRUE] \/ live' = [live EXCEPT !.staged = Staging(p)]
      BY <1>21 DEF Prepare, Lose, Goto, files, Staging
    <2>c. \/ pc'[p] = "mark" /\ live' = live
          \/ /\ pc'[p] = "recheck" /\ live' # None
             /\ live'.anchor = live.anchor /\ live'.recs = live.recs
             /\ live'.junk \/ live'.staged = Staging(p)
      <3>1. Staging(p) \in [at : Nat, rec : Records]
        BY <2>a, RecordType DEF TypeInv, TypeOK, WithSnap, WithRecord, Staging
      <3>2. pc' = [pc EXCEPT ![p] = "recheck"] => live \in Stores
        BY <2>b DEF TypeInv, TypeOK
      <3>3. CASE pc' = [pc EXCEPT ![p] = "mark"] /\ live' = live
        BY <3>3 DEF TypeInv, TypeOK
      <3>4. CASE pc' = [pc EXCEPT ![p] = "recheck"] /\ live' = [live EXCEPT !.junk = TRUE]
        <4>1. pc'[p] = "recheck" /\ live \in Stores
          BY <3>2, <3>4 DEF TypeInv, TypeOK
        <4>2. live' \in Stores /\ live'.anchor = live.anchor /\ live'.recs = live.recs
          BY <3>1, <3>4, <4>1, Touched
        <4>3. live'.junk \/ live'.staged = Staging(p)
          BY <3>1, <3>4, <4>1, Touched
        <4> QED BY <4>1, <4>2, <4>3, StoresAssumption
      <3>5. CASE pc' = [pc EXCEPT ![p] = "recheck"] /\ live' = [live EXCEPT !.staged = Staging(p)]
        <4>1. pc'[p] = "recheck" /\ live \in Stores
          BY <3>2, <3>5 DEF TypeInv, TypeOK
        <4>2. live' \in Stores /\ live'.anchor = live.anchor /\ live'.recs = live.recs
          BY <3>1, <3>5, <4>1, Touched
        <4>3. live'.junk \/ live'.staged = Staging(p)
          BY <3>1, <3>5, <4>1, Touched
        <4> QED BY <4>1, <4>2, <4>3, StoresAssumption
      <3> QED BY <2>b, <3>3, <3>4, <3>5
    <2>2. Fenced(p)'
      BY <2>a, <2>c DEF Fenced, Bootstrap, Sealing, Staging, NextSlot, Record
    <2>3. History(p)'
      BY <1>21, <1>m DEF Prepare, Lose, TypeInv, TypeOK, Goto, Keep, files, History,
         Engaged, Over, OpenEpochs, Sealing, Early
    <2>4. Inner
      BY <2>a, <2>c, <1>b DEF Locked, Inside, Outside, Barrier
    <2> QED BY <2>1, <2>2, <2>3, <2>4, <1>i, <1>o
  <1>22. CASE Recheck(p)
    <2>1. Mutex(p)'
      BY <1>22, <1>m DEF Recheck, Lose, TypeInv, TypeOK, Goto, Keep, files, Mutex, Locked
    <2>2. Fenced(p)'
      <3>1. CASE pc' = [pc EXCEPT ![p] = "publish"]
        <4>1. IdentityNow(p) /\ what[p] # "quiescent" /\ pc[p] = "recheck"
          BY <1>22, <3>1 DEF Recheck, Lose, TypeInv, TypeOK, Goto, Keep, files
        <4>2. live.recs = snap[p].recs /\ live # None /\ guard # None /\ live.anchor = guard /\ ~live.junk
          BY <4>1 DEF IdentityNow, Sound, SnapOf
        <4>3. live.staged = Staging(p)
          BY <4>1, <4>2, <1>m DEF Fenced
        <4>4. pc'[p] = "publish" /\ UNCHANGED <<live, guard, snap, what>>
          BY <1>22, <3>1 DEF Recheck, TypeInv, TypeOK, Goto, Keep, files, Lose
        <4> QED BY <4>1, <4>2, <4>3, <4>4 DEF Fenced, Bootstrap, Sealing, Staging, NextSlot,
                   Record
      <3>2. CASE pc' # [pc EXCEPT ![p] = "publish"]
        BY <1>22, <3>2 DEF Recheck, Lose, TypeInv, TypeOK, Goto, Keep, files, Fenced,
           Bootstrap, Sealing
      <3> QED BY <3>1, <3>2
    <2>3. History(p)'
      BY <1>22, <1>m DEF Recheck, Lose, TypeInv, TypeOK, Goto, Keep, files, History,
         Engaged, Over, OpenEpochs, Sealing, Early
    <2>4. Inner
      BY <1>22, <1>m, <1>b DEF Recheck, Lose, TypeInv, TypeOK, Goto, Keep, files, Locked,
         Inside, Outside, Barrier, Mutex, Sealing
    <2> QED BY <2>1, <2>2, <2>3, <2>4, <1>i, <1>o
  <1>23. CASE Publish(p)
    <2>1. /\ pc[p] = "publish" /\ LinkRecord(p, "after", "mark")
          /\ UNCHANGED <<lock, snap, what>>
      BY <1>23 DEF Publish
    <2>2. /\ live # None /\ guard # None /\ guard = live.anchor /\ live.recs = snap[p].recs
          /\ live.staged = Staging(p) /\ what[p] # "quiescent"
      BY <2>1, <1>m DEF Fenced
    <2>3. OpenEpochs \subseteq {p}
      BY <2>1, <1>b DEF Barrier, Outside
    <2>4. CASE live.staged = None \/ live.staged.at # NextSlot(p) \/ Len(live.recs) >= NextSlot(p)
      <3>1. UNCHANGED <<live, guard, opened, closed>> /\ pc' = [pc EXCEPT ![p] = "mark"]
        BY <2>1, <2>4 DEF LinkRecord, Goto, files
      <3>2. pc'[p] = "mark"
        BY <3>1 DEF TypeInv, TypeOK
      <3>3. Mutex(p)' /\ Fenced(p)' /\ History(p)'
        BY <2>1, <3>1, <3>2, <1>m DEF Mutex, Locked, Fenced, Bootstrap, Sealing, History,
           Engaged, Over
      <3>4. Inner
        BY <2>1, <2>2, <3>1, <3>2 DEF Locked, Outside, Inside
      <3> QED BY <3>3, <3>4, <1>i, <1>o
    <2>5. CASE ~(live.staged = None \/ live.staged.at # NextSlot(p) \/ Len(live.recs) >= NextSlot(p))
      <3>1. live \in Stores /\ snap[p] \in Snapshots /\ Record(p) \in Records /\ what[p] \in States
        BY <2>1, <2>2, RecordType DEF TypeInv, TypeOK, WithSnap, WithRecord
      <3>2. live.staged.rec = Record(p) /\ Len(live.recs) + 1 = NextSlot(p)
        BY <2>2, <3>1 DEF Staging, NextSlot, Snapshots
      <3>3. /\ live' = Linked(live, Record(p))
            /\ opened' = IF what[p] = "active" THEN opened \cup {p} ELSE opened
            /\ closed' = closed /\ guard' = guard /\ pc' = [pc EXCEPT ![p] = "after"]
        BY <2>1, <2>2, <2>5, <3>2 DEF LinkRecord, Record, Goto
      <3>4. p \notin closed /\ (what[p] # "active" => p \in OpenEpochs)
        BY <2>1, <1>m DEF History, Over, Engaged
      <3>5. OpenEpochs' = {p}
        BY <2>3, <3>3, <3>4 DEF OpenEpochs
      <3>6. pc'[p] = "after"
        BY <3>3 DEF TypeInv, TypeOK
      <3>7. \A q \in Owners \ {p} : pc[q] \notin Locked /\ pc[q] \notin {"confirm"} \cup Sealing /\ ~Engaged(q)
        <4> SUFFICES ASSUME NEW q \in Owners \ {p}
                     PROVE  pc[q] \notin Locked /\ pc[q] \notin {"confirm"} \cup Sealing /\ ~Engaged(q)
          OBVIOUS
        <4>1. pc[q] \notin Locked
          BY <2>1, <1>x, <1>m DEF Mutex, Locked
        <4>2. ~Engaged(q)
          BY <2>3 DEF Safe, History
        <4> QED BY <4>1, <4>2 DEF Engaged
      <3>8. Mutex(p)' /\ Fenced(p)' /\ History(p)'
        BY <2>1, <3>3, <3>4, <3>5, <3>6, <1>m DEF Mutex, Locked, Fenced, Bootstrap, Sealing,
           History
      <3>9. ASSUME NEW q \in Owners \ {p} PROVE Mutex(q)' /\ Fenced(q)' /\ History(q)'
        <4>1. pc'[q] = pc[q] /\ what'[q] = what[q]
          BY <1>o
        <4>2. Mutex(q)' /\ Fenced(q)'
          BY <3>7, <4>1 DEF Mutex, Fenced, Locked, Bootstrap
        <4>3. ~Engaged(q)'
          BY <3>7, <4>1 DEF Engaged
        <4> QED BY <3>3, <4>1, <4>2, <4>3 DEF History, Safe
      <3>10. Barrier(p)'
        <4>1. live'.recs = Append(live.recs, Record(p)) /\ live'.anchor = live.anchor
          BY <3>3 DEF Linked
        <4>2. live' # None /\ live' \in Stores
          <5>1. Append(live.recs, Record(p)) \in Seq(Records)
            BY <3>1, StoreFields
          <5>2. Linked(live, Record(p)) \in Stores
            BY <3>1, <5>1, StoreFields DEF Linked, Stores
          <5> QED BY <3>3, <5>2, StoresAssumption
        <4>3. live'.recs # <<>> /\ Last(live)' = Record(p)
          <5>1. live.recs \in Seq(Records)
            BY <3>1, StoreFields
          <5> QED BY <3>1, <4>1, <5>1 DEF Last
        <4>4. \A q \in Owners \ {p} : pc'[q] \in Outside
          <5> SUFFICES ASSUME NEW q \in Owners \ {p} PROVE pc'[q] \in Outside
            OBVIOUS
          <5>1. pc'[q] = pc[q] /\ pc[q] \in Steps
            BY <1>o DEF TypeInv, TypeOK
          <5> QED BY <3>7, <5>1 DEF Steps, Writing, Ended, Locked, Sealing, Outside
        <4> QED BY <2>2, <3>3, <3>6, <4>1, <4>2, <4>3, <4>4 DEF Barrier, Inside, Record
      <3> QED BY <3>5, <3>8, <3>9, <3>10 DEF Safe
    <2> QED BY <2>2, <2>4, <2>5
  <1>24. CASE After(p)
    <2>1. Mutex(p)'
      BY <1>24, <1>m DEF After, Lose, TypeInv, TypeOK, Goto, Keep, files, Mutex, Locked
    <2>2. Fenced(p)'
      BY <1>24, <1>m DEF After, Lose, TypeInv, TypeOK, Goto, Keep, files, Fenced, Bootstrap,
         Sealing, Staging, NextSlot, Record
    <2>3. History(p)'
      BY <1>24, <1>m DEF After, Lose, TypeInv, TypeOK, Goto, Keep, files, History, Engaged,
         Over, OpenEpochs, Sealing, Early
    <2>4. Inner
      BY <1>24, <1>m, <1>b DEF After, Lose, TypeInv, TypeOK, Goto, Keep, files, Locked,
         Inside, Outside, Barrier, Mutex, Sealing
    <2> QED BY <2>1, <2>2, <2>3, <2>4, <1>i, <1>o
  <1>25. CASE AssertIdentity(p)
    <2>1. Mutex(p)'
      BY <1>25, <1>m DEF AssertIdentity, Lose, Settled, TypeInv, TypeOK, Goto, Keep, files,
         Mutex, Locked
    <2>2. Fenced(p)'
      BY <1>25, <1>m DEF AssertIdentity, Lose, Settled, TypeInv, TypeOK, Goto, Keep, files,
         Fenced, Bootstrap, Sealing, Staging, NextSlot, Record
    <2>3. History(p)'
      BY <1>25, <1>m DEF AssertIdentity, Lose, Settled, TypeInv, TypeOK, Goto, Keep, files,
         History, Engaged, Over, OpenEpochs, Sealing, Early
    <2>4. Inner
      BY <1>25, <1>m, <1>b DEF AssertIdentity, Lose, Settled, TypeInv, TypeOK, Goto, Keep,
         files, Locked, Inside, Outside, Barrier, Mutex, Sealing
    <2> QED BY <2>1, <2>2, <2>3, <2>4, <1>i, <1>o
  <1>26. CASE Claim(p)
    <2>1. Mutex(p)'
      BY <1>26, <1>m DEF Claim, Lose, TypeInv, TypeOK, Goto, Keep, files, Mutex, Locked
    <2>2. Fenced(p)'
      BY <1>26, <1>m DEF Claim, Lose, TypeInv, TypeOK, Goto, Keep, files, Fenced, Bootstrap,
         Sealing, Staging, NextSlot, Record
    <2>3. History(p)'
      BY <1>26, <1>m DEF Claim, Lose, TypeInv, TypeOK, Goto, Keep, files, History, Engaged,
         Over, OpenEpochs, Sealing, Early
    <2>4. Inner
      BY <1>26, <1>m, <1>b DEF Claim, Lose, TypeInv, TypeOK, Goto, Keep, files, Locked,
         Inside, Outside, Barrier, Mutex, Sealing
    <2> QED BY <2>1, <2>2, <2>3, <2>4, <1>i, <1>o
  <1>27. CASE Finish(p)
    <2>1. Mutex(p)'
      BY <1>27, <1>m DEF Finish, TypeInv, TypeOK, Goto, Keep, files, Mutex, Locked
    <2>2. Fenced(p)'
      BY <1>27, <1>m DEF Finish, TypeInv, TypeOK, Goto, Keep, files, Fenced, Bootstrap,
         Sealing, Staging, NextSlot, Record
    <2>3. History(p)'
      BY <1>27, <1>m DEF Finish, TypeInv, TypeOK, Goto, Keep, files, History, Engaged, Over,
         OpenEpochs, Sealing, Early
    <2>4. Inner
      BY <1>27, <1>m, <1>b DEF Finish, TypeInv, TypeOK, Goto, Keep, files, Locked, Inside,
         Outside, Barrier, Mutex, Sealing
    <2> QED BY <2>1, <2>2, <2>3, <2>4, <1>i, <1>o
  <1>28. CASE Fail(p)
    <2>1. Mutex(p)'
      BY <1>28, <1>m DEF Fail, TypeInv, TypeOK, Goto, Keep, files, Mutex, Locked
    <2>2. Fenced(p)'
      BY <1>28, <1>m DEF Fail, TypeInv, TypeOK, Goto, Keep, files, Fenced, Bootstrap,
         Sealing, Staging, NextSlot, Record
    <2>3. History(p)'
      BY <1>28, <1>m DEF Fail, TypeInv, TypeOK, Goto, Keep, files, History, Engaged, Over,
         OpenEpochs, Sealing, Early
    <2>4. Inner
      BY <1>28, <1>m, <1>b DEF Fail, TypeInv, TypeOK, Goto, Keep, files, Locked, Inside,
         Outside, Barrier, Mutex, Sealing
    <2> QED BY <2>1, <2>2, <2>3, <2>4, <1>i, <1>o
  <1>29. CASE Mark(p)
    <2>1. Mutex(p)'
      BY <1>29, <1>m DEF Mark, TypeInv, TypeOK, Goto, Keep, files, Mutex, Locked
    <2>2. Fenced(p)'
      BY <1>29, <1>m DEF Mark, TypeInv, TypeOK, Goto, Keep, files, Fenced, Bootstrap,
         Sealing, Staging, NextSlot, Record
    <2>3. History(p)'
      BY <1>29, <1>m DEF Mark, TypeInv, TypeOK, Goto, Keep, files, History, Engaged, Over,
         OpenEpochs, Sealing, Early
    <2>4. Inner
      <3>1. p \in OpenEpochs => /\ live' # None /\ live'.anchor = live.anchor /\ live'.recs = live.recs
        <4>1. SUFFICES ASSUME p \in OpenEpochs
                       PROVE  live' # None /\ live'.anchor = live.anchor /\ live'.recs = live.recs
          OBVIOUS
        <4>2. live \in Stores /\ live' = [live EXCEPT !.junk = TRUE]
          BY <1>29, <1>b, <4>1 DEF Barrier, Mark, TypeInv, TypeOK
        <4>3. live' \in Stores
          BY <4>2 DEF Stores
        <4> QED BY <4>2, <4>3, StoresAssumption DEF Stores
      <3> QED BY <1>29, <3>1 DEF Mark, TypeInv, TypeOK, Goto, Keep, files, Locked, Inside,
                 Outside
    <2> QED BY <2>1, <2>2, <2>3, <2>4, <1>i, <1>o
  <1>30. CASE Release(p)
    <2>1. Mutex(p)'
      BY <1>30, <1>m DEF Release, TypeInv, TypeOK, Goto, Keep, files, Mutex, Locked
    <2>2. Fenced(p)'
      BY <1>30, <1>m DEF Release, TypeInv, TypeOK, Goto, Keep, files, Fenced, Bootstrap,
         Sealing, Staging, NextSlot, Record
    <2>3. History(p)'
      BY <1>30, <1>m DEF Release, TypeInv, TypeOK, Goto, Keep, files, History, Engaged,
         Over, OpenEpochs, Sealing, Early
    <2>4. Quiet
      BY <1>30, <1>m, <1>x, <1>b, OneOpen, OwnersAssumption
      DEF Release, TypeInv, TypeOK, Goto, Keep, files, Locked, Inside, Outside, Barrier,
         Mutex, History, Engaged
    <2> QED BY <2>1, <2>2, <2>3, <2>4, <1>q, <1>o
  <1>31. CASE Confirm(p)
    <2>1. Mutex(p)'
      BY <1>31, <1>m DEF Confirm, TypeInv, TypeOK, Goto, Keep, files, Mutex, Locked
    <2>2. Fenced(p)'
      BY <1>31, <1>m DEF Confirm, TypeInv, TypeOK, Goto, Keep, files, Fenced, Bootstrap,
         Sealing, Staging, NextSlot, Record
    <2>3. History(p)'
      BY <1>31, <1>m DEF Confirm, TypeInv, TypeOK, Goto, Keep, files, History, Engaged,
         Over, OpenEpochs, Sealing, Early
    <2>4. Quiet
      BY <1>31, <1>m, <1>b DEF Confirm, TypeInv, TypeOK, Goto, Keep, files, Locked, Inside,
         Outside, Barrier, Mutex, Sealing
    <2> QED BY <2>1, <2>2, <2>3, <2>4, <1>q, <1>o
  <1>32. CASE Free(p)
    <2>1. Mutex(p)'
      BY <1>32, <1>m DEF Free, TypeInv, TypeOK, Goto, Keep, files, Mutex, Locked
    <2>2. Fenced(p)'
      BY <1>32, <1>m DEF Free, TypeInv, TypeOK, Goto, Keep, files, Fenced, Bootstrap,
         Sealing, Staging, NextSlot, Record
    <2>3. History(p)'
      BY <1>32, <1>m DEF Free, TypeInv, TypeOK, Goto, Keep, files, History, Engaged, Over,
         OpenEpochs, Sealing, Early
    <2>4. Quiet
      BY <1>32, <1>m, <1>b DEF Free, TypeInv, TypeOK, Goto, Keep, files, Locked, Inside,
         Outside, Barrier, Mutex, Sealing
    <2> QED BY <2>1, <2>2, <2>3, <2>4, <1>q, <1>o
  <1>33. CASE Stat(p)
    <2>1. Mutex(p)'
      BY <1>33, <1>m DEF Stat, TypeInv, TypeOK, Goto, Keep, files, Mutex, Locked
    <2>2. Fenced(p)'
      BY <1>33, <1>m DEF Stat, TypeInv, TypeOK, Goto, Keep, files, Fenced, Bootstrap,
         Sealing, Staging, NextSlot, Record
    <2>3. History(p)'
      BY <1>33, <1>m DEF Stat, TypeInv, TypeOK, Goto, Keep, files, History, Engaged, Over,
         OpenEpochs, Sealing, Early
    <2>4. Quiet
      BY <1>33, <1>m, <1>b DEF Stat, TypeInv, TypeOK, Goto, Keep, files, Locked, Inside,
         Outside, Barrier, Mutex, Sealing
    <2> QED BY <2>1, <2>2, <2>3, <2>4, <1>q, <1>o
  <1>34. CASE Seal(p)
    <2>1. /\ pc[p] = "seal" /\ LinkRecord(p, "verify1", "gone")
          /\ UNCHANGED <<lock, snap, what>>
      BY <1>34 DEF Seal
    <2>2. live # None /\ live.staged = Staging(p) /\ what[p] = "quiescent" /\ p \in OpenEpochs
      BY <2>1, <1>m DEF Fenced, Sealing, History, Engaged
    <2>3. OpenEpochs = {p}
      BY <2>2, OneOpen
    <2>4. CASE live.staged = None \/ live.staged.at # NextSlot(p) \/ Len(live.recs) >= NextSlot(p)
      <3>1. UNCHANGED <<live, guard, opened, closed>> /\ pc' = [pc EXCEPT ![p] = "gone"]
        BY <2>1, <2>4 DEF LinkRecord, Goto, files
      <3>2. pc'[p] = "gone"
        BY <3>1 DEF TypeInv, TypeOK
      <3>3. Mutex(p)' /\ Fenced(p)' /\ History(p)'
        BY <3>2 DEF Mutex, Locked, Fenced, Bootstrap, Sealing, History, Engaged, Over
      <3>4. Quiet
        BY <2>1, <3>1, <3>2 DEF Inside, Outside
      <3> QED BY <3>3, <3>4, <1>q, <1>o
    <2>5. CASE ~(live.staged = None \/ live.staged.at # NextSlot(p) \/ Len(live.recs) >= NextSlot(p))
      <3>1. live.staged.rec = Record(p)
        BY <2>2 DEF Staging
      <3>2. opened' = opened /\ closed' = closed \cup {p} /\ pc' = [pc EXCEPT ![p] = "verify1"]
        BY <2>1, <2>2, <2>5, <3>1 DEF LinkRecord, Record, Goto
      <3>3. OpenEpochs' = {} /\ pc'[p] = "verify1"
        BY <2>3, <3>2 DEF OpenEpochs, TypeInv, TypeOK
      <3>4. Mutex(p)' /\ Fenced(p)' /\ History(p)'
        BY <3>3 DEF Mutex, Locked, Fenced, Bootstrap, Sealing, History, Engaged, Over
      <3>5. ASSUME NEW q \in Owners \ {p} PROVE Mutex(q)' /\ Fenced(q)' /\ History(q)'
        <4>1. pc'[q] = pc[q] /\ what'[q] = what[q] /\ pc[q] \in Outside
          BY <1>o, <1>b, <2>2 DEF Barrier
        <4>2. ~Engaged(q)
          BY <2>3 DEF Safe, History
        <4>3. Fenced(q)' /\ ~Engaged(q)'
          BY <4>1, <4>2 DEF Outside, Fenced, Bootstrap, Sealing, Engaged
        <4>4. Mutex(q)'
          BY <2>1, <4>1, <1>x DEF Mutex
        <4> QED BY <3>2, <4>1, <4>3, <4>4 DEF History, Safe
      <3> QED BY <3>3, <3>4, <3>5 DEF Safe
    <2> QED BY <2>2, <2>4, <2>5
  <1>35. CASE Verify1(p)
    <2>1. Mutex(p)'
      BY <1>35, <1>m DEF Verify1, Verify, TypeInv, TypeOK, Goto, Keep, files, Mutex, Locked
    <2>2. Fenced(p)'
      BY <1>35, <1>m DEF Verify1, Verify, TypeInv, TypeOK, Goto, Keep, files, Fenced,
         Bootstrap, Sealing, Staging, NextSlot, Record
    <2>3. History(p)'
      BY <1>35, <1>m DEF Verify1, Verify, TypeInv, TypeOK, Goto, Keep, files, History,
         Engaged, Over, OpenEpochs, Sealing, Early
    <2>4. Quiet
      BY <1>35, <1>m, <1>b DEF Verify1, Verify, TypeInv, TypeOK, Goto, Keep, files, Locked,
         Inside, Outside, Barrier, Mutex, Sealing
    <2> QED BY <2>1, <2>2, <2>3, <2>4, <1>q, <1>o
  <1>36. CASE Verify2(p)
    <2>1. Mutex(p)'
      BY <1>36, <1>m DEF Verify2, Verify, TypeInv, TypeOK, Goto, Keep, files, Mutex, Locked
    <2>2. Fenced(p)'
      BY <1>36, <1>m DEF Verify2, Verify, TypeInv, TypeOK, Goto, Keep, files, Fenced,
         Bootstrap, Sealing, Staging, NextSlot, Record
    <2>3. History(p)'
      BY <1>36, <1>m DEF Verify2, Verify, TypeInv, TypeOK, Goto, Keep, files, History,
         Engaged, Over, OpenEpochs, Sealing, Early
    <2>4. Quiet
      BY <1>36, <1>m, <1>b DEF Verify2, Verify, TypeInv, TypeOK, Goto, Keep, files, Locked,
         Inside, Outside, Barrier, Mutex, Sealing
    <2> QED BY <2>1, <2>2, <2>3, <2>4, <1>q, <1>o
  <1>37. CASE Verify3(p)
    <2>1. Mutex(p)'
      BY <1>37, <1>m DEF Verify3, Verify, TypeInv, TypeOK, Goto, Keep, files, Mutex, Locked
    <2>2. Fenced(p)'
      BY <1>37, <1>m DEF Verify3, Verify, TypeInv, TypeOK, Goto, Keep, files, Fenced,
         Bootstrap, Sealing, Staging, NextSlot, Record
    <2>3. History(p)'
      BY <1>37, <1>m DEF Verify3, Verify, TypeInv, TypeOK, Goto, Keep, files, History,
         Engaged, Over, OpenEpochs, Sealing, Early
    <2>4. Quiet
      BY <1>37, <1>m, <1>b DEF Verify3, Verify, TypeInv, TypeOK, Goto, Keep, files, Locked,
         Inside, Outside, Barrier, Mutex, Sealing
    <2> QED BY <2>1, <2>2, <2>3, <2>4, <1>q, <1>o
  <1>38. CASE Die(p)
    <2>1. Mutex(p)'
      BY <1>38, <1>m DEF Die, Ended, TypeInv, TypeOK, Goto, Keep, files, Mutex, Locked
    <2>2. Fenced(p)'
      BY <1>38, <1>m DEF Die, Ended, TypeInv, TypeOK, Goto, Keep, files, Fenced, Bootstrap,
         Sealing, Staging, NextSlot, Record
    <2>3. History(p)'
      BY <1>38, <1>m DEF Die, Ended, TypeInv, TypeOK, Goto, Keep, files, History, Engaged,
         Over, OpenEpochs, Sealing, Early
    <2>4. Quiet
      BY <1>38, <1>m, <1>b DEF Die, Ended, TypeInv, TypeOK, Goto, Keep, files, Locked,
         Inside, Outside, Barrier, Mutex, Sealing
    <2> QED BY <2>1, <2>2, <2>3, <2>4, <1>q, <1>o
  <1> QED BY <1>1, <1>2, <1>3, <1>4, <1>5, <1>6, <1>7, <1>8, <1>9, <1>10, <1>11, <1>12,
             <1>13, <1>14, <1>15, <1>16, <1>17, <1>18, <1>19, <1>20, <1>21, <1>22, <1>23,
             <1>24, <1>25, <1>26, <1>27, <1>28, <1>29, <1>30, <1>31, <1>32, <1>33, <1>34,
             <1>35, <1>36, <1>37, <1>38 DEF Step

LEMMA InitSafe == Init => Safe
  <1> SUFFICES ASSUME Init PROVE Safe
    OBVIOUS
  <1>1. OpenEpochs = {} /\ closed = {} /\ \A p \in Owners : pc[p] = "new"
    BY DEF Init, OpenEpochs
  <1> QED BY <1>1 DEF Safe, Mutex, Locked, Fenced, Bootstrap, Sealing, History, Engaged

\* A theft is never undone.
LEMMA TheftsGrow ==
    ASSUME TypeInv, NEW p \in Owners, Step(p), thefts' = 0
    PROVE  thefts = 0
  <1>1. thefts \in Nat
    BY OwnersAssumption DEF TypeInv, TypeOK
  <1>2. CASE Steal(p)
    BY <1>1, <1>2 DEF Steal
  <1>3. CASE ~Steal(p)
    BY <1>3 DEF Step, Keep, Ask, Doubt, Acquire, Busy, FinishRotation, Unguard,
       FinishBootstrap, Clear, View, Artifact, Adopt, Sweep, Retire, RetireGuard, Mkdir,
       Anchor, Link, Boot, Check, Prepare, Recheck, Publish, After, AssertIdentity, Claim,
       Finish, Fail, Mark, Release, Confirm, Free, Stat, Seal, Verify1, Verify2, Verify3,
       Verify, Die
  <1> QED BY <1>2, <1>3

\* The invariant of withLock that the module's head describes.
THEOREM Invariance == Spec => [](TypeInv /\ Inv)
  <1>1. Init => TypeInv /\ Inv
    BY InitType, InitSafe DEF Inv
  <1>2. TypeInv /\ Inv /\ [Next]_vars => (TypeInv /\ Inv)'
    <2> SUFFICES ASSUME TypeInv, Inv, [Next]_vars PROVE TypeInv' /\ Inv'
      OBVIOUS
    <2>1. CASE Next
      <3>1. PICK p \in Owners : Step(p)
        BY <2>1 DEF Next
      <3>2. TypeInv'
        BY <3>1, StepType
      <3>3. thefts' = 0 => thefts = 0
        BY <3>1, TheftsGrow
      <3>4. thefts' = 0 => Safe'
        BY <3>1, <3>2, <3>3, StepSafe DEF Inv
      <3> QED BY <3>2, <3>4 DEF Inv
    <2>2. CASE UNCHANGED vars
      BY <2>2 DEF vars, TypeInv, TypeOK, Inv, Safe, Mutex, Fenced, History, Engaged, OpenEpochs,
                  Barrier, Staging, NextSlot, Record, Last
    <2> QED BY <2>1, <2>2
  <1> QED BY <1>1, <1>2, PTL DEF Spec

\* "Active guard files are never reclaimed": until its quiescence record is
\* linked, an opened epoch is the only one, unless a live holder was robbed.
THEOREM Admission == Spec => []NeverReclaimed
  <1>1. TypeInv /\ Inv => NeverReclaimed
    <2> SUFFICES ASSUME Inv, thefts = 0 PROVE Cardinality(opened \ closed) <= 1
      BY DEF NeverReclaimed
    <2>1. CASE OpenEpochs = {}
      BY <2>1, FS_EmptySet DEF OpenEpochs
    <2>2. CASE OpenEpochs # {}
      <3>1. PICK e \in OpenEpochs : TRUE
        BY <2>2
      <3>2. opened \ closed = {e}
        BY <3>1, OneOpen DEF Inv, OpenEpochs
      <3>3. Cardinality({e}) = 1
        BY FS_Singleton
      <3> QED BY <3>2, <3>3
    <2> QED BY <2>1, <2>2
  <1> QED BY <1>1, Invariance, PTL

-------------------------------------------------------------------------------
(* The files, and what an owner knows of them. *)

(* A store without a guard is a bootstrap somebody broke off ... *)
Unbuilt ==
    live # None => /\ live.recs = <<>> /\ live.staged = None /\ ~live.junk
                   /\ live.anchor \in {None, live.id}

(* ... a guard without a store is half a rotation ... *)
Rotating == live = None /\ retired[guard] # None

(* ... and with both, the generation is in order but for a staged record. *)
Standing ==
    /\ live # None /\ live.id = guard /\ live.anchor = guard /\ ~live.junk
    /\ Chain(live) /\ Len(live.recs) <= MaxRecords
    /\ live.staged # None => live.staged.at = Len(live.recs) + 1
    /\ live.recs # <<>> /\ Last(live).state # "quiescent" => Last(live).epoch \in OpenEpochs

FileShape ==
    /\ guard = None => Unbuilt
    /\ guard # None => Rotating \/ Standing

(* What was retired is whole, ended, and under its own name, which is not in *)
(* use any more.                                                             *)
Grave(a) ==
    /\ retired[a] # None =>
          /\ retired[a].id = a /\ retired[a].anchor = a
          /\ retired[a].staged = None /\ ~retired[a].junk
          /\ Chain(retired[a]) /\ Len(retired[a].recs) <= MaxRecords /\ Quiescent(retired[a])
          /\ live # None => live.id # a
    /\ rguard[a] # None => rguard[a] = a /\ guard # a /\ (live # None => live.id # a)

(* A generation is named after an owner that has made its directory. *)
Before == {"new", "doubt", "lock", "rotation", "unguard", "debris", "clear", "view",
           "artifact", "adopt", "sweep", "retire", "retireGuard", "mkdir"}

Named(i) ==
    \/ live # None /\ live.id = i
    \/ guard = i \/ retired[i] # None \/ rguard[i] # None
    \/ \E q \in Owners : snap[q] # None /\ snap[q].id = i

Unborn(p) == pc[p] \in Before => ~Named(p)

(* The snapshot is what the store and the guard still are. *)
Sees(p) == live # None /\ guard # None /\ snap[p] = SnapOf(live)

(* Under the mutex, until the owner is admitted ... *)
Entering(p) ==
    /\ pc[p] = "unguard" => live = None /\ guard # None /\ snap[p] = SnapOf(retired[guard])
    /\ pc[p] = "clear" => guard = None
    /\ pc[p] = "artifact" /\ snap[p] = None => live = None /\ guard = None
    /\ pc[p] = "artifact" /\ snap[p] # None => Sees(p) /\ live.staged = None /\ Admits(live)

(* ... while it replaces the last generation by its own ... *)
Replacing(p) ==
    /\ pc[p] \in Bootstrap => art[p] = p
    /\ pc[p] \in {"adopt", "sweep", "retire"} =>
          Sees(p) /\ live.staged = None /\ Quiescent(live)
    /\ pc[p] = "retireGuard" => live = None /\ guard # None /\ guard = snap[p].anchor
    /\ pc[p] = "mkdir" => live = None /\ guard = None
    /\ pc[p] = "anchor" => live = NewStore(p) /\ guard = None
    /\ pc[p] \in {"link", "boot"} =>
          /\ live # None /\ live.id = p /\ live.anchor = p
          /\ live.recs = <<>> /\ live.staged = None
          /\ guard = IF pc[p] = "link" THEN None ELSE p

(* ... while it works and writes: the record that ends the chain is its own  *)
(* ACTIVE one, and there is room for the terminal one ...                    *)
OwnTail(p) == live.recs # <<>> /\ Last(live).epoch = p /\ Last(live).state = "active"

Spare(p) ==
    /\ NextSlot(p) <= MaxRecords
    /\ what[p] = "active" => NextSlot(p) < MaxRecords

Working(p) ==
    /\ pc[p] \in {"check", "prepare", "recheck", "publish", "after", "work"} => art[p] = p
    /\ pc[p] \in {"check", "prepare", "recheck", "publish"} =>
          Sees(p) /\ Spare(p) /\ (OwnTail(p) \/ (live.recs = <<>> /\ what[p] = "active"))
    /\ pc[p] = "work" => Sees(p) /\ OwnTail(p) /\ NextSlot(p) <= MaxRecords /\ what[p] = "active"
    /\ pc[p] \in {"check", "prepare", "work"} => live.staged = None
    /\ pc[p] \in {"recheck", "publish"} => live.staged = Staging(p)
    /\ pc[p] = "after" =>
          /\ live # None /\ guard # None
          /\ live.anchor = snap[p].anchor /\ live.id = snap[p].id
          /\ live.recs = Installed(p) /\ live.staged = None
          /\ what[p] # "quiescent" /\ Spare(p)

(* ... and from its release on, until its certificate is linked. *)
Certifying(p) == pc[p] \in {"confirm"} \cup Sealing \/ (pc[p] = "release" /\ what[p] = "quiescent")

Ending(p) ==
    Certifying(p) => Sees(p) /\ OwnTail(p) /\ NextSlot(p) <= MaxRecords /\ live.staged = Staging(p)

Held(p) ==
    /\ Entering(p) /\ Replacing(p) /\ Working(p) /\ Ending(p)
    /\ pc[p] # "mark"

(* The generation of a completed owner goes from the live paths to the       *)
(* retired ones, and is where it was not yet looked for, or gone.            *)
Looking == {"verify1", "verify2", "verify3", "unsure"}

Vouched(p) ==
    LET a == snap[p].anchor IN
    pc[p] \in Looking =>
        /\ what[p] = "quiescent" /\ snap[p].id = a
        /\ live # None /\ live.id = a =>
             live.recs = Installed(p) /\ live.staged = None /\ guard = a
        /\ retired[a] # None => retired[a].recs = Installed(p)
        /\ pc[p] # "verify1" /\ live # None => live.id # a
        /\ pc[p] \in {"verify3", "unsure"} /\ retired[a] # None => guard # a
        /\ pc[p] = "unsure" /\ retired[a] # None => rguard[a] # a

Tidy ==
    /\ FileShape
    /\ \A a \in Ids : Grave(a)
    /\ \A p \in Owners : Unborn(p) /\ Held(p) /\ Vouched(p)

-------------------------------------------------------------------------------
(* What the readings find. *)

(* The fences pass. *)
LEMMA StandingSound ==
    ASSUME TypeInv, FileShape, live # None, guard # None, NEW pend, NEW allow,
           live.staged # None => live.staged.at = pend, live.recs = <<>> => allow
    PROVE  Standing /\ Sound(live, guard, pend, allow)
  BY DEF FileShape, Rotating, Standing, Sound

LEMMA GraveSound ==
    ASSUME NEW a \in Ids, Grave(a), retired[a] # None, NEW pend
    PROVE  Sound(retired[a], a, pend, FALSE) /\ Quiescent(retired[a])
  <1>1. a # None
    BY OwnersAssumption DEF Ids
  <1> QED BY <1>1 DEF Grave, Sound, Quiescent

LEMMA Identity ==
    ASSUME TypeInv, FileShape, NEW p \in Owners, Mutex(p), Replacing(p), Working(p),
           pc[p] \in {"check", "recheck", "work"}
    PROVE  IdentityNow(p)
  <1>1. Sees(p) /\ art[p] = p /\ lock = p /\ p # None
    BY OwnersAssumption DEF Working, Mutex, Locked
  <1>2. live.staged # None => live.staged.at = Pending(p)
    BY DEF Working, Pending, Staging
  <1>3. snap[p].recs = live.recs
    BY <1>1 DEF Sees, SnapOf
  <1>4. Sound(live, guard, Pending(p), snap[p].recs = <<>>)
    BY <1>1, <1>2, <1>3, StandingSound DEF Sees
  <1> QED BY <1>1, <1>4 DEF IdentityNow, Sees

(* A chain may be one record longer. *)
LEMMA ChainGrows ==
    ASSUME NEW s \in Stores, NEW rec \in Records, Chain(s), rec.anchor = s.anchor,
           s.recs = <<>> => rec.state = "active",
           s.recs # <<>> => Follows(rec, Last(s))
    PROVE  /\ Chain(Linked(s, rec)) /\ Last(Linked(s, rec)) = rec
           /\ Linked(s, rec).recs = Append(s.recs, rec) /\ Linked(s, rec).recs # <<>>
           /\ Len(Linked(s, rec).recs) = Len(s.recs) + 1
           /\ Linked(s, rec).id = s.id /\ Linked(s, rec).anchor = s.anchor
           /\ Linked(s, rec).staged = None /\ Linked(s, rec).junk = s.junk
  <1> DEFINE t == Linked(s, rec)
  <1>1. s.recs \in Seq(Records)
    BY StoreFields
  <1>2. /\ t.recs = Append(s.recs, rec) /\ t.id = s.id /\ t.anchor = s.anchor
        /\ t.staged = None /\ t.junk = s.junk
    BY DEF Linked
  <1>3. /\ t.recs \in Seq(Records) /\ Len(t.recs) = Len(s.recs) + 1 /\ Len(s.recs) \in Nat
        /\ t.recs[Len(t.recs)] = rec
        /\ \A i \in 1 .. Len(s.recs) : t.recs[i] = s.recs[i]
        /\ s.recs = <<>> <=> Len(s.recs) = 0
    BY <1>1, <1>2
  <1> HIDE DEF t
  <1>4. \A i \in 1 .. Len(t.recs) : i = Len(s.recs) + 1 \/ i \in 1 .. Len(s.recs)
    BY <1>3
  <1>5. \A i \in DOMAIN t.recs : t.recs[i].anchor = t.anchor
    BY <1>1, <1>2, <1>3, <1>4 DEF Chain
  <1>6. t.recs[1].state = "active"
    <2>1. CASE s.recs = <<>>
      BY <2>1, <1>3
    <2>2. CASE s.recs # <<>>
      BY <2>2, <1>3 DEF Chain
    <2> QED BY <2>1, <2>2
  <1>7. \A i \in DOMAIN t.recs : i > 1 => Follows(t.recs[i], t.recs[i - 1])
    <2> SUFFICES ASSUME NEW i \in 1 .. Len(t.recs), i > 1
                 PROVE  Follows(t.recs[i], t.recs[i - 1])
      BY <1>3, LenProperties
    <2>1. CASE i = Len(s.recs) + 1
      <3>1. s.recs # <<>> /\ i - 1 = Len(s.recs) /\ i - 1 \in 1 .. Len(s.recs)
        BY <2>1, <1>3
      <3> QED BY <3>1, <2>1, <1>3 DEF Last
    <2>2. CASE i \in 1 .. Len(s.recs)
      <3>1. i - 1 \in 1 .. Len(s.recs) /\ i \in DOMAIN s.recs
        BY <2>2, <1>1
      <3> QED BY <3>1, <2>2, <1>3 DEF Chain
    <2> QED BY <2>1, <2>2, <1>4
  <1>8. Chain(t) /\ Last(t) = rec /\ t.recs # <<>>
    BY <1>3, <1>5, <1>6, <1>7 DEF Chain, Last
  <1> QED BY <1>2, <1>3, <1>8 DEF t

\* The record that a fence has let through is the one that is linked.
LEMMA LinkExact ==
    ASSUME TypeInv, NEW p \in Owners, snap[p] \in Snapshots, what[p] \in States,
           NEW next, NEW lost,
           Sees(p), live.staged = Staging(p), LinkRecord(p, next, lost)
    PROVE  /\ live' = Linked(live, Record(p)) /\ pc' = [pc EXCEPT ![p] = next]
           /\ UNCHANGED <<guard, retired, rguard>>
           /\ opened' = IF what[p] = "active" THEN opened \cup {p} ELSE opened
           /\ closed' = IF what[p] = "quiescent" THEN closed \cup {p} ELSE closed
  <1>1. live \in Stores /\ Len(live.recs) \in Nat
    BY StoreFields, LenProperties DEF TypeInv, TypeOK, Sees
  <1>2. live.staged = [at |-> NextSlot(p), rec |-> Record(p)]
    BY DEF Staging
  <1>3. live.staged.at = NextSlot(p) /\ live.staged.rec = Record(p)
    BY <1>2
  <1>4. live.staged # None
    BY <1>2, StoresAssumption, RecordType
  <1>5. NextSlot(p) = Len(live.recs) + 1
    BY DEF Sees, SnapOf, NextSlot
  <1>6. Record(p).state = what[p] /\ Record(p).epoch = p
    BY DEF Record
  <1>7. ~(\/ live = None \/ live.staged = None \/ live.staged.at # NextSlot(p)
          \/ Len(live.recs) >= NextSlot(p))
    BY <1>1, <1>3, <1>4, <1>5 DEF Sees
  <1>8. /\ live' = Linked(live, Record(p)) /\ pc' = [pc EXCEPT ![p] = next]
        /\ UNCHANGED <<guard, retired, rguard>>
        /\ opened' = IF Record(p).state = "active" THEN opened \cup {Record(p).epoch} ELSE opened
        /\ closed' = IF Record(p).state = "quiescent" THEN closed \cup {Record(p).epoch} ELSE closed
    BY <1>1, <1>3, <1>5, <1>7 DEF LinkRecord, Goto
  <1> QED BY <1>6, <1>8

\* identityAfter() finds the generation where it was, and nowhere else.
LEMMA FoundAfter ==
    ASSUME TypeInv, FileShape, \A a \in Ids : Grave(a), NEW p \in Owners,
           Mutex(p), Working(p), pc[p] = "after"
    PROVE  /\ lock # None /\ lock = art[p]
           /\ {i \in 1..3 : Holds(p, Places(p)[i].store, Places(p)[i].guard, Installed(p))} = {1}
           /\ Len(live.recs) = Len(Installed(p))
  <1> DEFINE a == snap[p].anchor
             c == Installed(p)
  <1>1. /\ live # None /\ guard # None /\ live.anchor = a /\ live.id = snap[p].id
        /\ live.recs = c /\ live.staged = None
    BY DEF Working
  <1>2. Standing /\ Sound(live, guard, Pending(p), FALSE)
    <2>1. c # <<>>
      <3>1. Record(p) \in Records /\ snap[p].recs \in Seq(Records)
        BY RecordType DEF TypeInv, WithSnap, WithRecord, Snapshots
      <3> QED BY <3>1 DEF Installed
    <2> QED BY <1>1, <2>1, StandingSound
  <1>3. a \in Ids /\ live.id = a /\ retired[a] = None
    <2>1. a \in Ids
      BY DEF TypeInv, WithSnap, Snapshots
    <2> QED BY <1>1, <1>2, <2>1 DEF Standing, Grave
  <1>4. c \in Seq(Records) /\ Len(c) \in Nat
    BY <1>1, StoreFields, LenProperties DEF TypeInv, TypeOK
  <1>5. SubSeq(live.recs, 1, Len(c)) = c /\ Len(live.recs) >= Len(c)
    BY <1>1, <1>4
  <1>6. Places(p)[1].store = live /\ Places(p)[1].guard = guard
        /\ Places(p)[2].store = retired[a] /\ Places(p)[3].store = retired[a]
    BY DEF Places
  <1> HIDE DEF a, c
  <1>7. Holds(p, live, guard, c)
    BY <1>1, <1>2, <1>5 DEF Holds, a
  <1>8. \A g : ~Holds(p, retired[a], g, c)
    BY <1>3 DEF Holds, Sound
  <1>9. {i \in 1..3 : Holds(p, Places(p)[i].store, Places(p)[i].guard, c)} = {1}
    BY <1>6, <1>7, <1>8
  <1>10. lock = p /\ art[p] = p /\ p # None
    BY OwnersAssumption DEF Mutex, Locked, Working
  <1> QED BY <1>1, <1>9, <1>10 DEF c

-------------------------------------------------------------------------------
(* What one owner's step leaves of the rest. *)

\* The steps at which the invariant says something of the files.
Watching(p) ==
    \/ pc[p] \in {"unguard", "clear", "artifact"} \cup Bootstrap
    \/ pc[p] \in {"check", "prepare", "recheck", "publish", "after", "work"}
    \/ Certifying(p)

\* The steps that change the files.
Loud == {"unguard", "clear", "sweep", "retire", "retireGuard", "mkdir", "anchor", "link",
         "prepare", "publish", "seal"}

\* Nobody else is where the files matter to him.
LEMMA Alone ==
    ASSUME Safe, NEW p \in Owners, NEW q \in Owners, q # p, pc[p] \in Loud
    PROVE  ~Watching(q)
  <1> SUFFICES ASSUME Watching(q) PROVE FALSE
    OBVIOUS
  <1>1. CASE Certifying(q)
    <2>1. Engaged(q)
      BY <1>1 DEF Certifying, Engaged
    <2>2. Barrier(q)
      BY <2>1 DEF Safe, History
    <2> QED BY <2>2 DEF Barrier, Outside, Loud
  <1>2. CASE ~Certifying(q)
    <2>1. pc[q] \in Locked \ Outside
      BY <1>2 DEF Watching, Locked, Outside, Bootstrap
    <2>2. CASE pc[p] = "seal"
      <3>1. Barrier(p)
        BY <2>2 DEF Safe, History, Engaged, Sealing
      <3> QED BY <3>1, <2>1 DEF Barrier
    <2>3. CASE pc[p] # "seal"
      BY <2>1, <2>3 DEF Loud, Locked, Safe, Mutex
    <2> QED BY <2>2, <2>3
  <1> QED BY <1>1, <1>2

\* A step that leaves the files alone.
LEMMA CalmStep ==
    ASSUME Safe, Tidy, NEW p \in Owners, Step(p), TypeInv,
           UNCHANGED <<live, guard, retired, rguard, opened, closed>>,
           pc'[p] \in Before => pc[p] \in Before,
           snap'[p] # None => Named(snap'[p].id),
           Held(p)', Vouched(p)'
    PROVE  Tidy'
  <1>1. \A q \in Owners \ {p} : /\ pc'[q] = pc[q] /\ snap'[q] = snap[q]
                                /\ what'[q] = what[q] /\ art'[q] = art[q]
    BY StepOthers
  <1>2. FileShape'
    BY DEF Tidy, FileShape, Unbuilt, Rotating, Standing, OpenEpochs, Chain, Last
  <1>3. \A a \in Ids : Grave(a)'
    BY DEF Tidy, Grave, Chain, Quiescent, Last
  <1>4. \A i : Named(i)' => Named(i)
    <2> SUFFICES ASSUME NEW i, Named(i)' PROVE Named(i)
      OBVIOUS
    <2>1. CASE \E q \in Owners : snap'[q] # None /\ snap'[q].id = i
      <3>1. PICK q \in Owners : snap'[q] # None /\ snap'[q].id = i
        BY <2>1
      <3> QED BY <1>1, <3>1 DEF Named
    <2> QED BY <2>1 DEF Named
  <1>5. ASSUME NEW q \in Owners PROVE Unborn(q)'
    <2>1. pc'[q] \in Before => pc[q] \in Before
      BY <1>1
    <2> QED BY <1>4, <2>1 DEF Tidy, Unborn
  <1>6. ASSUME NEW q \in Owners PROVE Held(q)' /\ Vouched(q)'
    <2>1. CASE q = p
      BY <2>1
    <2>2. CASE q # p
      <3>1. /\ pc'[q] = pc[q] /\ snap'[q] = snap[q] /\ what'[q] = what[q] /\ art'[q] = art[q]
        BY <1>1, <2>2
      <3>2. Held(q) /\ Vouched(q)
        BY DEF Tidy
      <3>3. NextSlot(q)' = NextSlot(q) /\ Record(q)' = Record(q)
        BY <3>1 DEF NextSlot, Record
      <3>4. Staging(q)' = Staging(q) /\ Installed(q)' = Installed(q)
        BY <3>1, <3>3 DEF Staging, Installed
      <3>5. /\ Sees(q)' <=> Sees(q)
            /\ OwnTail(q)' <=> OwnTail(q)
            /\ Spare(q)' <=> Spare(q)
            /\ Certifying(q)' <=> Certifying(q)
        BY <3>1, <3>3 DEF Sees, SnapOf, OwnTail, Last, Spare, Certifying
      <3>6. Entering(q)'
        BY <3>1, <3>2, <3>5 DEF Held, Entering, SnapOf, Admits, Quiescent, Last
      <3>7. Replacing(q)'
        BY <3>1, <3>2, <3>5 DEF Held, Replacing, Quiescent, Last, NewStore
      <3>8. Working(q)'
        BY <3>1, <3>2, <3>3, <3>4, <3>5 DEF Held, Working
      <3>9. Ending(q)'
        BY <3>2, <3>3, <3>4, <3>5 DEF Held, Ending
      <3>10. Vouched(q)'
        BY <3>1, <3>2, <3>4 DEF Vouched
      <3> QED BY <3>1, <3>2, <3>6, <3>7, <3>8, <3>9, <3>10 DEF Held
    <2> QED BY <2>1, <2>2
  <1> QED BY <1>2, <1>3, <1>5, <1>6 DEF Tidy

\* The generation of an owner that looks for it has an ended chain.
LEMMA LookedFor ==
    ASSUME TypeInv, NEW q \in Owners, Vouched(q), pc[q] \in Looking,
           live # None, live.id = snap[q].anchor
    PROVE  live.recs # <<>> /\ Last(live).state = "quiescent"
  <1>1. live.recs = Installed(q) /\ what[q] = "quiescent"
    BY DEF Vouched
  <1>2. snap[q] \in Snapshots
    BY <1>1 DEF TypeInv
  <1>3. snap[q].recs \in Seq(Records) /\ Record(q) \in Records
    BY <1>1, <1>2, RecordType DEF Snapshots, States
  <1>4. Record(q).state = "quiescent"
    BY <1>1 DEF Record
  <1> QED BY <1>1, <1>3, <1>4 DEF Installed, Last

\* A generation stays as it is, or goes on to the next place.
Fate(a) ==
    /\ live' # None /\ live'.id = a =>
          /\ live # None /\ live.id = a /\ guard' = guard
          /\ live'.recs = live.recs /\ live'.staged = live.staged
    /\ retired'[a] # None =>
          \/ retired'[a] = retired[a]
          \/ live # None /\ live.id = a /\ retired'[a].recs = live.recs
    /\ retired'[a] # None /\ guard' = a =>
          (retired[a] # None /\ guard = a) \/ (live # None /\ live.id = a)
    /\ retired'[a] # None /\ rguard'[a] = a =>
          \/ retired[a] # None /\ (rguard[a] = a \/ guard = a)
          \/ live # None /\ live.id = a

\* A step that changes the files: nobody else watches them, and what was
\* completed is moved as a whole.
LEMMA LoudStep ==
    ASSUME TypeInv, Safe, Tidy, NEW p \in Owners, Step(p), pc[p] \in Loud, snap' = snap,
           FileShape', \A a \in Ids : Grave(a)',
           \A q \in Owners : pc[q] \in Looking => Fate(snap[q].anchor),
           pc'[p] \in Before => pc[p] \in Before,
           \A i \in Ids : \/ live' # None /\ live'.id = i
                          \/ guard' = i \/ retired'[i] # None \/ rguard'[i] # None
                          => Named(i) \/ (i = p /\ pc'[p] \notin Before),
           Held(p)', Vouched(p)'
    PROVE  Tidy'
  <1>1. \A q \in Owners \ {p} : pc'[q] = pc[q] /\ what'[q] = what[q] /\ art'[q] = art[q]
    BY StepOthers
  <1>2. ASSUME NEW q \in Owners PROVE Unborn(q)'
    <2> SUFFICES ASSUME pc'[q] \in Before, Named(q)' PROVE FALSE
      BY DEF Unborn
    <2>1. pc[q] \in Before /\ (q = p => pc'[p] \in Before)
      BY <1>1
    <2>2. Named(q)
      <3>1. q \in Ids
        BY DEF Ids
      <3> QED BY <2>1, <3>1 DEF Named
    <2> QED BY <2>1, <2>2 DEF Tidy, Unborn
  <1>3. ASSUME NEW q \in Owners, q # p PROVE Held(q)'
    <2>1. ~Watching(q)
      BY <1>3, Alone
    <2>2. ~Watching(q)' /\ pc'[q] # "mark"
      BY <1>1, <1>3, <2>1 DEF Watching, Certifying, Tidy, Held
    <2> QED BY <2>2 DEF Watching, Held, Entering, Replacing, Working, Ending, Bootstrap
  <1>4. ASSUME NEW q \in Owners, q # p PROVE Vouched(q)'
    <2> SUFFICES ASSUME pc[q] \in Looking PROVE Vouched(q)'
      BY <1>1, <1>4 DEF Vouched
    <2> DEFINE a == snap[q].anchor
    <2>1. /\ pc'[q] = pc[q] /\ what'[q] = what[q] /\ snap'[q] = snap[q]
          /\ Vouched(q) /\ Fate(a)
      BY <1>1, <1>4 DEF Tidy
    <2>2. Installed(q)' = Installed(q)
      BY <2>1 DEF Installed, Record
    <2> HIDE DEF a
    <2>3. /\ what[q] = "quiescent" /\ snap[q].id = a
          /\ live # None /\ live.id = a =>
               live.recs = Installed(q) /\ live.staged = None /\ guard = a
          /\ retired[a] # None => retired[a].recs = Installed(q)
          /\ pc[q] # "verify1" /\ live # None => live.id # a
          /\ pc[q] \in {"verify3", "unsure"} /\ retired[a] # None => guard # a
          /\ pc[q] = "unsure" /\ retired[a] # None => rguard[a] # a
      BY <2>1 DEF Vouched, a
    <2>4. /\ live' # None /\ live'.id = a =>
               live'.recs = Installed(q) /\ live'.staged = None /\ guard' = a
          /\ retired'[a] # None => retired'[a].recs = Installed(q)
      BY <2>1, <2>3 DEF Fate
    <2>5. /\ pc[q] # "verify1" /\ live' # None => live'.id # a
          /\ pc[q] \in {"verify3", "unsure"} /\ retired'[a] # None => guard' # a
          /\ pc[q] = "unsure" /\ retired'[a] # None => rguard'[a] # a
      BY <2>1, <2>3 DEF Fate
    <2>6. snap[q].anchor = a
      BY DEF a
    <2> QED BY <2>1, <2>2, <2>3, <2>4, <2>5, <2>6 DEF Vouched
  <1> QED BY <1>2, <1>3, <1>4 DEF Tidy

\* A step to a place where the invariant asks nothing.
LEMMA PlainStep ==
    ASSUME TypeInv, Safe, Tidy, NEW p \in Owners, Step(p),
           UNCHANGED <<live, guard, retired, rguard, opened, closed>>,
           pc'[p] \in {"new", "doubt", "lock", "rotation", "debris", "view", "release",
                       "gone", "done", "dead"},
           pc'[p] \in Before => pc[p] \in Before,
           pc'[p] = "release" => what'[p] # "quiescent",
           snap'[p] # None => snap'[p] = snap[p]
    PROVE  Tidy'
  <1>1. ~Watching(p)' /\ pc'[p] # "mark"
    BY DEF Watching, Certifying, Bootstrap, Sealing
  <1>2. Held(p)'
    BY <1>1 DEF Watching, Held, Entering, Replacing, Working, Ending, Bootstrap
  <1>3. Vouched(p)'
    BY DEF Vouched, Looking
  <1>4. snap'[p] # None => Named(snap'[p].id)
    BY DEF Named
  <1> QED BY <1>2, <1>3, <1>4, CalmStep

\* Admission: nothing is touched before the mutex and the readings.
LEMMA AdmissionTidy ==
    ASSUME TypeInv, Safe, Tidy, NEW p \in Owners, Step(p),
           \/ Ask(p) \/ Doubt(p) \/ Acquire(p) \/ Busy(p) \/ Steal(p) \/ Die(p)
    PROVE  Tidy'
  <1> USE DEF TypeInv, TypeOK, Goto, Keep, files
  <1>1. CASE Ask(p) \/ Doubt(p)
    BY <1>1, PlainStep DEF Ask, Doubt, Before
  <1>2. CASE Acquire(p) \/ Busy(p)
    BY <1>2, PlainStep DEF Acquire, Busy, Before
  <1>3. CASE Steal(p)
    BY <1>3, PlainStep DEF Steal, Before
  <1>4. CASE Die(p)
    BY <1>4, PlainStep DEF Die, Before
  <1> QED BY <1>1, <1>2, <1>3, <1>4

\* A refusal under the mutex.
LEMMA RejectStep ==
    ASSUME TypeInv, Safe, Tidy, NEW p \in Owners, Step(p), pc[p] \in Early,
           Reject(p), what' = what, snap' = snap, UNCHANGED <<opened, closed>>
    PROVE  Tidy'
  <1>1. pc'[p] = "release" /\ what'[p] # "quiescent"
    BY DEF Reject, Goto, TypeInv, TypeOK
  <1>2. UNCHANGED <<live, guard, retired, rguard, opened, closed>>
    BY DEF Reject, files
  <1> QED BY <1>1, <1>2, PlainStep DEF Before

\* finishRotation() finds what its guard names, and finishBootstrap() only
\* takes a store that no guard names.
LEMMA RecoveryTidy ==
    ASSUME TypeInv, Safe, Tidy, NEW p \in Owners, Step(p),
           FinishRotation(p) \/ FinishBootstrap(p)
    PROVE  Tidy'
  <1> USE DEF Goto
  <1>0. pc \in [Owners -> Steps] /\ snap = [q \in Owners |-> snap[q]]
    BY DEF TypeInv, TypeOK
  <1>1. CASE FinishRotation(p)
    <2>1. /\ pc[p] = "rotation"
          /\ UNCHANGED <<lock, art, what, thefts, opened, closed>>
      BY <1>1 DEF FinishRotation
    <2>2. CASE live # None \/ guard = None
      BY <1>0, <1>1, <2>1, <2>2, PlainStep DEF FinishRotation, files, Before
    <2>3. CASE ~(live # None \/ guard = None)
      <3>1. CASE Sound(retired[guard], guard, 0, FALSE) /\ Quiescent(retired[guard])
        <4>1. /\ snap' = [snap EXCEPT ![p] = SnapOf(retired[guard])]
              /\ pc' = [pc EXCEPT ![p] = "unguard"] /\ UNCHANGED files
          BY <1>1, <2>3, <3>1 DEF FinishRotation
        <4>2. pc'[p] = "unguard" /\ snap'[p] = SnapOf(retired[guard])
          BY <1>0, <4>1
        <4>3. guard \in Ids /\ retired[guard] # None /\ retired[guard].id = guard
          BY <2>3, <3>1 DEF Sound, Tidy, Grave, TypeInv, TypeOK
        <4>4. snap'[p] # None => Named(snap'[p].id)
          BY <4>2, <4>3 DEF SnapOf, Named
        <4>5. UNCHANGED <<live, guard, retired, rguard, opened, closed>>
          BY <2>1, <4>1 DEF files
        <4>6. Held(p)'
          BY <2>3, <4>2, <4>5 DEF Held, Entering, Replacing, Working, Ending, Certifying, Bootstrap,
                                  Sealing, SnapOf
        <4>7. Vouched(p)'
          BY <4>2 DEF Vouched, Looking
        <4> QED BY <2>1, <4>2, <4>4, <4>5, <4>6, <4>7, CalmStep DEF Before
      <3>2. CASE ~(Sound(retired[guard], guard, 0, FALSE) /\ Quiescent(retired[guard]))
        BY <1>1, <2>1, <2>3, <3>2, RejectStep DEF FinishRotation, Early
      <3> QED BY <3>1, <3>2
    <2> QED BY <2>2, <2>3
  <1>2. CASE FinishBootstrap(p)
    <2>1. /\ pc[p] = "debris"
          /\ UNCHANGED <<lock, art, snap, what, thefts, opened, closed>>
      BY <1>2 DEF FinishBootstrap, Keep
    <2>2. CASE guard # None \/ live = None
      BY <1>0, <1>2, <2>1, <2>2, PlainStep DEF FinishBootstrap, files, Before
    <2>3. CASE ~(guard # None \/ live = None) /\ Bare(live)
      <3>1. pc'[p] = "clear" /\ UNCHANGED files
        BY <1>0, <1>2, <2>3 DEF FinishBootstrap
      <3>2. UNCHANGED <<live, guard, retired, rguard, opened, closed>>
        BY <2>1, <3>1 DEF files
      <3>3. Held(p)'
        BY <2>3, <3>1, <3>2 DEF Held, Entering, Replacing, Working, Ending, Certifying, Bootstrap,
                                Sealing
      <3>4. Vouched(p)'
        BY <3>1 DEF Vouched, Looking
      <3>5. snap'[p] # None => Named(snap'[p].id)
        BY <2>1 DEF Named
      <3> QED BY <2>1, <3>1, <3>2, <3>3, <3>4, <3>5, CalmStep DEF Before
    <2>4. CASE ~(guard # None \/ live = None) /\ ~Bare(live)
      BY <1>2, <2>1, <2>4, RejectStep DEF FinishBootstrap, Early
    <2> QED BY <2>2, <2>3, <2>4
  <1> QED BY <1>1, <1>2

\* The readings of an admission, and the lock directory remembered.
LEMMA ViewTidy ==
    ASSUME TypeInv, Safe, Tidy, NEW p \in Owners, Step(p), View(p)
    PROVE  Tidy'
  <1>0. pc \in [Owners -> Steps] /\ snap = [q \in Owners |-> snap[q]]
    BY DEF TypeInv, TypeOK
  <1>1. pc[p] = "view" /\ UNCHANGED <<lock, art, what, thefts, opened, closed>>
    BY DEF View
  <1>2. CASE live = None /\ guard = None
    <2>1. pc'[p] = "artifact" /\ snap'[p] = None
          /\ UNCHANGED <<live, guard, retired, rguard, opened, closed>>
      BY <1>0, <1>1, <1>2 DEF View, Goto, files
    <2>2. Held(p)'
      BY <1>2, <2>1 DEF Held, Entering, Replacing, Working, Ending, Certifying, Bootstrap,
                        Sealing
    <2>3. Vouched(p)'
      BY <2>1 DEF Vouched, Looking
    <2> QED BY <1>1, <2>1, <2>2, <2>3, CalmStep DEF Before
  <1>3. CASE ~(live = None /\ guard = None) /\ Sound(live, guard, 0, TRUE) /\ Admits(live)
    <2>1. pc'[p] = "artifact" /\ snap'[p] = SnapOf(live)
          /\ UNCHANGED <<live, guard, retired, rguard, opened, closed>>
      BY <1>0, <1>1, <1>3 DEF View, Goto, files
    <2>2. live \in Stores /\ live # None /\ guard # None /\ live.staged = None
      <3>1. live \in Stores /\ live # None /\ guard # None
        BY <1>3 DEF Sound, TypeInv, TypeOK
      <3>2. Len(live.recs) \in Nat
        BY <3>1, StoreFields, LenProperties
      <3> QED BY <3>1, <3>2, <1>3 DEF Sound
    <2>3. SnapOf(live) \in Snapshots /\ SnapOf(live) # None
      BY <2>2, <1>3, StoreFields, StoresAssumption DEF Sound
    <2>4. Sees(p)' /\ snap'[p] # None /\ live'.staged = None /\ Admits(live')
      BY <1>3, <2>1, <2>2, <2>3 DEF Sees, SnapOf
    <2>5. Held(p)'
      BY <2>1, <2>4 DEF Held, Entering, Replacing, Working, Ending, Certifying, Bootstrap,
                        Sealing, Admits
    <2>6. Vouched(p)'
      BY <2>1 DEF Vouched, Looking
    <2>7. Named(snap'[p].id)
      BY <2>1, <2>2 DEF SnapOf, Named
    <2> QED BY <1>1, <2>1, <2>5, <2>6, <2>7, CalmStep DEF Before
  <1>4. CASE ~(live = None /\ guard = None) /\ ~(Sound(live, guard, 0, TRUE) /\ Admits(live))
    BY <1>1, <1>4, RejectStep DEF View, Early
  <1> QED BY <1>2, <1>3, <1>4

\* The lock directory remembered is this owner's own.
LEMMA ArtifactTidy ==
    ASSUME TypeInv, Safe, Tidy, NEW p \in Owners, Step(p), Artifact(p)
    PROVE  Tidy'
  <1>0. /\ pc \in [Owners -> Steps] /\ art = [q \in Owners |-> art[q]]
        /\ what = [q \in Owners |-> what[q]]
    BY DEF TypeInv, TypeOK
  <1>1. /\ pc[p] = "artifact" /\ UNCHANGED <<lock, snap, thefts, opened, closed>>
        /\ what' = [what EXCEPT ![p] = "active"]
    BY DEF Artifact
  <1>2. lock = p /\ lock # None
    BY <1>1, OwnersAssumption DEF Safe, Mutex, Locked
  <1>3. /\ art'[p] = p /\ what'[p] = "active" /\ UNCHANGED <<live, guard, retired, rguard>>
        /\ pc'[p] = IF snap[p] = None THEN "mkdir"
                    ELSE IF snap[p].recs = <<>> THEN "check" ELSE "adopt"
    BY <1>0, <1>1, <1>2 DEF Artifact, Goto, files
  <1>4. Held(p)
    BY DEF Tidy
  <1>5. Held(p)'
    <2>1. CASE snap[p] = None
      BY <1>1, <1>3, <1>4, <2>1 DEF Held, Entering, Replacing, Working, Ending, Certifying,
                                    Bootstrap, Sealing
    <2>2. CASE snap[p] # None
      <3>1. Sees(p) /\ live.staged = None /\ Admits(live) /\ snap[p].recs = live.recs
        BY <1>1, <1>4, <2>2 DEF Held, Entering, Sees, SnapOf
      <3>2. Sees(p)'
        BY <1>1, <1>3, <3>1 DEF Sees, SnapOf
      <3>3. CASE snap[p].recs = <<>>
        <4>1. NextSlot(p)' = 1
          BY <1>1, <3>3 DEF NextSlot
        <4>2. Spare(p)'
          BY <4>1, OwnersAssumption DEF Spare
        <4> QED BY <1>1, <1>3, <2>2, <3>1, <3>2, <3>3, <4>2
                DEF Held, Entering, Replacing, Working, Ending, Certifying, Bootstrap, Sealing
      <3>4. CASE snap[p].recs # <<>>
        <4>1. Quiescent(live)'
          BY <1>3, <3>1, <3>4 DEF Admits, Quiescent, Last
        <4> QED BY <1>1, <1>3, <2>2, <3>1, <3>2, <3>4, <4>1
                DEF Held, Entering, Replacing, Working, Ending, Certifying, Bootstrap, Sealing
      <3> QED BY <3>3, <3>4
    <2> QED BY <2>1, <2>2
  <1>6. Vouched(p)'
    BY <1>3 DEF Vouched, Looking
  <1>7. snap'[p] # None => Named(snap'[p].id)
    BY <1>1 DEF Named
  <1> QED BY <1>1, <1>3, <1>5, <1>6, <1>7, CalmStep DEF Before

\* What a rotation and a bootstrap read before they go on.
LEMMA ReadingTidy ==
    ASSUME TypeInv, Safe, Tidy, NEW p \in Owners, Step(p), Adopt(p) \/ Boot(p)
    PROVE  Tidy'
  <1>0. pc \in [Owners -> Steps] /\ snap = [q \in Owners |-> snap[q]]
    BY DEF TypeInv, TypeOK
  <1>h. Held(p) /\ Fenced(p)
    BY DEF Tidy, Safe
  <1>1. CASE Adopt(p)
    <2>1. pc[p] = "adopt" /\ UNCHANGED <<lock, art, snap, what, thefts, opened, closed>>
      BY <1>1 DEF Adopt, Keep
    <2>2. CASE IdentityNow(p)
      <3>1. pc'[p] = "sweep" /\ UNCHANGED <<live, guard, retired, rguard>>
        BY <1>0, <1>1, <2>2 DEF Adopt, Goto, files
      <3>2. Sees(p)' /\ live'.staged = None /\ Quiescent(live')
        BY <1>h, <2>1, <3>1 DEF Held, Replacing, Sees, SnapOf
      <3>3. Held(p)'
        BY <1>h, <2>1, <3>1, <3>2 DEF Held, Entering, Replacing, Working, Ending, Certifying,
                                      Bootstrap, Sealing, Quiescent, Last
      <3>4. Vouched(p)'
        BY <3>1 DEF Vouched, Looking
      <3>5. snap'[p] # None => Named(snap'[p].id)
        BY <2>1 DEF Named
      <3> QED BY <2>1, <3>1, <3>3, <3>4, <3>5, CalmStep DEF Before
    <2>3. CASE ~IdentityNow(p)
      BY <1>1, <2>1, <2>3, RejectStep DEF Adopt, Early
    <2> QED BY <2>2, <2>3
  <1>2. CASE Boot(p)
    <2>1. pc[p] = "boot" /\ UNCHANGED <<lock, art, what, thefts, opened, closed>>
      BY <1>2 DEF Boot
    <2>2. CASE Sound(live, guard, 0, TRUE)
      <3>1. /\ pc'[p] = "check" /\ snap'[p] = SnapOf(live)
            /\ UNCHANGED <<live, guard, retired, rguard>>
        BY <1>0, <1>2, <2>2 DEF Boot, Goto, files
      <3>2. /\ live # None /\ guard # None /\ live.recs = <<>> /\ live.staged = None
            /\ art[p] = p /\ what[p] = "active"
        BY <1>h, <2>1, <2>2 DEF Held, Replacing, Fenced, Bootstrap, Sound
      <3>3. Sees(p)' /\ NextSlot(p)' = 1
        BY <3>1, <3>2 DEF Sees, SnapOf, NextSlot
      <3>4. Spare(p)'
        BY <3>3, OwnersAssumption DEF Spare
      <3>5. Held(p)'
        BY <2>1, <3>1, <3>2, <3>3, <3>4 DEF Held, Entering, Replacing, Working, Ending,
                                            Certifying, Bootstrap, Sealing
      <3>6. Vouched(p)'
        BY <3>1 DEF Vouched, Looking
      <3>7. Named(snap'[p].id)
        BY <3>1, <3>2 DEF SnapOf, Named
      <3> QED BY <2>1, <3>1, <3>5, <3>6, <3>7, CalmStep DEF Before
    <2>3. CASE ~Sound(live, guard, 0, TRUE)
      BY <1>2, <2>1, <2>3, RejectStep DEF Boot, Early
    <2> QED BY <2>2, <2>3
  <1> QED BY <1>1, <1>2

\* The fences of a transition let it through.
LEMMA FenceTidy ==
    ASSUME TypeInv, Safe, Tidy, NEW p \in Owners, Step(p), Check(p) \/ Recheck(p)
    PROVE  Tidy'
  <1>0. pc \in [Owners -> Steps]
    BY DEF TypeInv, TypeOK
  <1>h. Held(p) /\ Mutex(p) /\ FileShape
    BY DEF Tidy, Safe
  <1>1. pc[p] \in {"check", "recheck"} /\ UNCHANGED <<lock, art, snap, what, thefts, opened, closed>>
    BY DEF Check, Recheck, Keep
  <1>2. IdentityNow(p)
    BY <1>h, <1>1, Identity DEF Held
  <1>3. /\ art[p] = p /\ Sees(p) /\ Spare(p)
        /\ OwnTail(p) \/ (live.recs = <<>> /\ what[p] = "active")
    BY <1>h, <1>1 DEF Held, Working
  <1>4. /\ UNCHANGED <<live, guard, retired, rguard>>
        /\ pc'[p] = IF pc[p] = "check" THEN "prepare"
                    ELSE IF what[p] = "quiescent" THEN "release" ELSE "publish"
    <2>1. CASE Check(p)
      BY <1>0, <1>2, <1>3, <2>1 DEF Check, OwnTail, Spare, Goto, files
    <2>2. CASE Recheck(p)
      BY <1>0, <1>2, <2>2 DEF Recheck, Goto, files
    <2> QED BY <2>1, <2>2
  <1>5. /\ Sees(p)' /\ Spare(p)' /\ Staging(p)' = Staging(p)
        /\ NextSlot(p)' = NextSlot(p) /\ (OwnTail(p)' <=> OwnTail(p))
    BY <1>1, <1>3, <1>4 DEF Sees, SnapOf, Spare, Staging, NextSlot, Record, OwnTail, Last
  <1>6. Held(p)'
    BY <1>h, <1>1, <1>3, <1>4, <1>5 DEF Held, Entering, Replacing, Working, Ending, Certifying,
                                        Bootstrap, Sealing, Spare
  <1>7. Vouched(p)'
    BY <1>1, <1>4 DEF Vouched, Looking
  <1>8. snap'[p] # None => Named(snap'[p].id)
    BY <1>1 DEF Named
  <1> QED BY <1>1, <1>4, <1>6, <1>7, <1>8, CalmStep DEF Before

\* The record that was linked is found, and ends the chain.
LEMMA AfterTidy ==
    ASSUME TypeInv, Safe, Tidy, NEW p \in Owners, Step(p), After(p)
    PROVE  Tidy'
  <1>0. pc \in [Owners -> Steps] /\ snap = [q \in Owners |-> snap[q]]
    BY DEF TypeInv, TypeOK
  <1>h. Held(p) /\ Mutex(p) /\ FileShape /\ \A a \in Ids : Grave(a)
    BY DEF Tidy, Safe
  <1>1. pc[p] = "after" /\ UNCHANGED <<lock, art, what, thefts, opened, closed>>
    BY DEF After
  <1>2. snap[p] \in Snapshots /\ what[p] \in States
    BY <1>1 DEF TypeInv, WithSnap, WithRecord
  <1>3. /\ live # None /\ guard # None
        /\ live.anchor = snap[p].anchor /\ live.id = snap[p].id
        /\ live.recs = Installed(p) /\ live.staged = None
        /\ what[p] # "quiescent" /\ Spare(p) /\ art[p] = p
    BY <1>h, <1>1 DEF Held, Working
  <1>4. /\ snap' = [snap EXCEPT ![p].recs = Installed(p)]
        /\ pc' = [pc EXCEPT ![p] = IF what[p] = "active" THEN "work" ELSE "release"]
        /\ UNCHANGED files
    <2>1. Working(p)
      BY <1>h DEF Held
    <2>2. /\ lock # None /\ lock = art[p]
          /\ {i \in 1..3 : Holds(p, Places(p)[i].store, Places(p)[i].guard, Installed(p))} = {1}
          /\ Len(live.recs) = Len(Installed(p))
      BY <1>h, <1>1, <2>1, FoundAfter
    <2>3. Places(p)[1].store = live
      BY DEF Places
    <2> QED BY <2>2, <2>3 DEF After, Goto
  <1>5. /\ snap'[p] = SnapOf(live)
        /\ pc'[p] = IF what[p] = "active" THEN "work" ELSE "release"
        /\ UNCHANGED <<live, guard, retired, rguard>>
    <2>1. snap'[p] = [snap[p] EXCEPT !.recs = Installed(p)]
      BY <1>0, <1>4
    <2>2. [snap[p] EXCEPT !.recs = Installed(p)] =
             [anchor |-> snap[p].anchor, id |-> snap[p].id, recs |-> Installed(p)]
      BY <1>2 DEF Snapshots
    <2>3. snap'[p] = SnapOf(live)
      BY <2>1, <2>2, <1>3 DEF SnapOf
    <2> QED BY <1>0, <1>4, <2>3 DEF files
  <1>6. /\ Record(p) \in Records /\ snap[p].recs \in Seq(Records)
        /\ Record(p).epoch = p /\ Record(p).state = what[p]
    BY <1>2, RecordType DEF Snapshots, Record
  <1>7. live.recs # <<>> /\ Last(live) = Record(p) /\ Len(live.recs) = Len(snap[p].recs) + 1
    BY <1>3, <1>6 DEF Installed, Last
  <1>8. Held(p)'
    <2>1. CASE what[p] = "active"
      <3>1. pc'[p] = "work" /\ what'[p] = "active" /\ art'[p] = p /\ live'.staged = None
        BY <1>1, <1>3, <1>5, <2>1
      <3>2. Sees(p)' /\ OwnTail(p)'
        BY <1>3, <1>5, <1>6, <1>7, <2>1 DEF Sees, SnapOf, OwnTail, Last
      <3>3. NextSlot(p)' <= MaxRecords
        <4>1. NextSlot(p)' = NextSlot(p) + 1
          BY <1>5, <1>7 DEF NextSlot, SnapOf
        <4>2. NextSlot(p) \in Nat /\ NextSlot(p) < MaxRecords /\ MaxRecords \in Nat
          BY <1>2, <1>3, <2>1, RecordType, OwnersAssumption DEF Spare
        <4> QED BY <4>1, <4>2
      <3> QED BY <3>1, <3>2, <3>3 DEF Held, Entering, Replacing, Working, Ending, Certifying,
                                      Bootstrap, Sealing
    <2>2. CASE what[p] # "active"
      <3>1. pc'[p] = "release" /\ what'[p] # "quiescent"
        BY <1>1, <1>3, <1>5, <2>2
      <3> QED BY <3>1 DEF Held, Entering, Replacing, Working, Ending, Certifying, Bootstrap, Sealing
    <2> QED BY <2>1, <2>2
  <1>9. Vouched(p)'
    BY <1>5 DEF Vouched, Looking
  <1>10. Named(snap'[p].id)
    BY <1>3, <1>5 DEF SnapOf, Named
  <1> QED BY <1>1, <1>5, <1>8, <1>9, <1>10, CalmStep DEF Before

\* An owner at work finds itself there, and writes again or ends.
LEMMA WorkTidy ==
    ASSUME TypeInv, Safe, Tidy, NEW p \in Owners, Step(p),
           AssertIdentity(p) \/ Claim(p) \/ Finish(p) \/ Fail(p)
    PROVE  Tidy'
  <1>0. pc \in [Owners -> Steps] /\ what = [q \in Owners |-> what[q]]
    BY DEF TypeInv, TypeOK
  <1>h. Held(p) /\ Mutex(p) /\ FileShape
    BY DEF Tidy, Safe
  <1>1. pc[p] = "work" /\ UNCHANGED <<lock, art, snap, thefts, opened, closed>>
    BY DEF AssertIdentity, Settled, Claim, Finish, Fail, Keep
  <1>2. IdentityNow(p)
    BY <1>h, <1>1, Identity DEF Held
  <1>3. /\ Sees(p) /\ OwnTail(p) /\ NextSlot(p) <= MaxRecords /\ what[p] = "active"
        /\ live.staged = None /\ art[p] = p
    BY <1>h, <1>1 DEF Held, Working
  <1>4. ~AssertIdentity(p)
    BY <1>2, <1>3 DEF AssertIdentity, OwnTail
  <1>5. /\ pc'[p] = "check" /\ UNCHANGED <<live, guard, retired, rguard>>
        /\ \/ what'[p] = "active" /\ NextSlot(p) < MaxRecords
           \/ what'[p] \in {"quiescent", "quarantined"}
    <2>1. CASE Claim(p)
      BY <1>0, <1>2, <1>3, <2>1 DEF Claim, Room, Goto, Keep, files
    <2>2. CASE Finish(p)
      BY <1>0, <2>2 DEF Finish, Goto, files
    <2>3. CASE Fail(p)
      BY <1>0, <2>3 DEF Fail, Goto, files
    <2> QED BY <1>4, <2>1, <2>2, <2>3
  <1>6. Sees(p)' /\ OwnTail(p)' /\ NextSlot(p)' = NextSlot(p) /\ Spare(p)'
    BY <1>1, <1>3, <1>5 DEF Sees, SnapOf, OwnTail, Last, NextSlot, Spare
  <1>7. Held(p)'
    BY <1>1, <1>3, <1>5, <1>6 DEF Held, Entering, Replacing, Working, Ending, Certifying,
                                  Bootstrap, Sealing
  <1>8. Vouched(p)'
    BY <1>5 DEF Vouched, Looking
  <1>9. snap'[p] # None => Named(snap'[p].id)
    BY <1>1 DEF Named
  <1> QED BY <1>1, <1>5, <1>7, <1>8, <1>9, CalmStep DEF Before

\* A completion that goes on finds its certificate where it left it.
LEMMA CompletionTidy ==
    ASSUME TypeInv, Safe, Tidy, NEW p \in Owners, Step(p),
           Release(p) \/ Confirm(p) \/ Free(p) \/ Stat(p)
    PROVE  Tidy'
  <1>0. pc \in [Owners -> Steps]
    BY DEF TypeInv, TypeOK
  <1>1. /\ pc[p] \in {"release", "confirm", "free", "stat"}
        /\ UNCHANGED <<live, guard, retired, rguard, art, snap, what, thefts, opened, closed>>
    BY DEF Release, Confirm, Free, Stat, Keep, files
  <1>2. \/ pc'[p] = "gone"
        \/ pc'[p] \in {"confirm", "free", "stat", "seal"} /\ Certifying(p)
    BY <1>0 DEF Release, Confirm, Free, Stat, Goto, Certifying, Sealing
  <1>3. CASE pc'[p] = "gone"
    BY <1>1, <1>3, PlainStep DEF Before
  <1>4. CASE pc'[p] \in {"confirm", "free", "stat", "seal"} /\ Certifying(p)
    <2>1. Sees(p) /\ OwnTail(p) /\ NextSlot(p) <= MaxRecords /\ live.staged = Staging(p)
      BY <1>4 DEF Tidy, Held, Ending
    <2>2. Sees(p)' /\ OwnTail(p)' /\ NextSlot(p)' <= MaxRecords /\ live'.staged = Staging(p)'
      BY <1>1, <2>1 DEF Sees, SnapOf, OwnTail, Last, NextSlot, Staging, Record
    <2>3. Held(p)'
      BY <1>4, <2>2 DEF Held, Entering, Replacing, Working, Ending, Bootstrap
    <2>4. Vouched(p)'
      BY <1>4 DEF Vouched, Looking
    <2>5. snap'[p] # None => Named(snap'[p].id)
      BY <1>1 DEF Named
    <2> QED BY <1>1, <1>4, <2>3, <2>4, <2>5, CalmStep DEF Before
  <1> QED BY <1>2, <1>3, <1>4

\* A generation that is at a place is found there.
LEMMA VerifyTidy ==
    ASSUME TypeInv, Safe, Tidy, NEW p \in Owners, Step(p),
           Verify1(p) \/ Verify2(p) \/ Verify3(p)
    PROVE  Tidy'
  <1> DEFINE a == snap[p].anchor
             c == Installed(p)
  <1>0. pc \in [Owners -> Steps]
    BY DEF TypeInv, TypeOK
  <1>1. /\ pc[p] \in {"verify1", "verify2", "verify3"}
        /\ UNCHANGED <<live, guard, retired, rguard, lock, art, snap, what, thefts, opened, closed>>
    BY DEF Verify1, Verify2, Verify3, Verify, Keep, files
  <1>2. CASE pc'[p] = "done"
    BY <1>1, <1>2, PlainStep DEF Before
  <1>3. CASE pc'[p] # "done"
    <2>1. /\ what[p] = "quiescent" /\ snap[p].id = a
          /\ live # None /\ live.id = a =>
               live.recs = c /\ live.staged = None /\ guard = a
          /\ retired[a] # None => retired[a].recs = c
          /\ pc[p] # "verify1" /\ live # None => live.id # a
          /\ pc[p] = "verify3" /\ retired[a] # None => guard # a
      BY <1>1 DEF Tidy, Vouched, Looking
    <2>2. snap[p] \in Snapshots /\ a \in Ids /\ a # None
      BY <2>1, OwnersAssumption DEF TypeInv, Snapshots, Ids
    <2>3. c \in Seq(Records) /\ c # <<>> /\ SubSeq(c, 1, Len(c)) = c /\ Len(c) \in Nat
      <3>1. Record(p) \in Records /\ snap[p].recs \in Seq(Records)
        BY <2>1, <2>2, RecordType DEF Snapshots, States
      <3>2. c \in Seq(Records) /\ c # <<>>
        BY <3>1 DEF Installed
      <3> HIDE DEF c
      <3> QED BY <3>2, LenProperties
    <2>4. Installed(p)' = c
      BY <1>1 DEF Installed, Record
    <2>5. /\ Places(p)[Order[1]].store = live /\ Places(p)[Order[1]].guard = guard
          /\ Places(p)[Order[2]].store = retired[a] /\ Places(p)[Order[2]].guard = guard
          /\ Places(p)[Order[3]].store = retired[a] /\ Places(p)[Order[3]].guard = rguard[a]
      BY DEF Places, Order
    <2>6. snap'[p].anchor = a
      BY <1>1
    <2> HIDE DEF a, c
    <2>7. live # None /\ live.id = a => Holds(p, live, guard, c)
      <3> SUFFICES ASSUME live # None, live.id = a PROVE Holds(p, live, guard, c)
        OBVIOUS
      <3>1. live.recs = c /\ live.staged = None /\ guard = a /\ guard # None
        BY <2>1, <2>2
      <3>2. Standing /\ Sound(live, guard, Pending(p), FALSE)
        BY <3>1, <2>3, StandingSound DEF Tidy
      <3>3. live.id = snap[p].id /\ live.anchor = snap[p].anchor
        BY <2>1, <3>1, <3>2 DEF a, Standing
      <3>4. Len(live.recs) >= Len(c) /\ SubSeq(live.recs, 1, Len(c)) = c
        BY <2>3, <3>1
      <3> QED BY <3>2, <3>3, <3>4 DEF Holds
    <2>8. \A g : retired[a] # None /\ g = a => Holds(p, retired[a], g, c)
      <3> SUFFICES ASSUME retired[a] # None PROVE Holds(p, retired[a], a, c)
        OBVIOUS
      <3>1. Grave(a) /\ Sound(retired[a], a, Pending(p), FALSE)
        BY <2>2, GraveSound DEF Tidy
      <3>2. retired[a].id = snap[p].id /\ retired[a].anchor = snap[p].anchor
        BY <2>1, <3>1 DEF a, Grave
      <3>3. Len(retired[a].recs) >= Len(c) /\ SubSeq(retired[a].recs, 1, Len(c)) = c
        BY <2>1, <2>3
      <3> QED BY <3>1, <3>2, <3>3 DEF Holds
    <2>9. /\ pc[p] = "verify1" => pc'[p] = "verify2" /\ ~Holds(p, live, guard, c)
          /\ pc[p] = "verify2" => pc'[p] = "verify3" /\ ~Holds(p, retired[a], guard, c)
          /\ pc[p] = "verify3" => pc'[p] = "unsure" /\ ~Holds(p, retired[a], rguard[a], c)
      <3>1. CASE Verify1(p)
        BY <1>0, <1>3, <2>5, <3>1 DEF Verify1, Verify, Goto, c
      <3>2. CASE Verify2(p)
        BY <1>0, <1>3, <2>5, <3>2 DEF Verify2, Verify, Goto, c
      <3>3. CASE Verify3(p)
        BY <1>0, <1>3, <2>5, <3>3 DEF Verify3, Verify, Goto, c
      <3> QED BY <3>1, <3>2, <3>3
    <2>10. /\ live # None => live.id # a
           /\ pc'[p] \in {"verify3", "unsure"} /\ retired[a] # None => guard # a
           /\ pc'[p] = "unsure" /\ retired[a] # None => rguard[a] # a
      BY <1>1, <2>1, <2>7, <2>8, <2>9
    <2>11. Vouched(p)'
      BY <1>1, <2>1, <2>4, <2>6, <2>10 DEF Vouched
    <2>12. Held(p)'
      BY <1>1, <2>9 DEF Held, Entering, Replacing, Working, Ending, Certifying, Bootstrap, Sealing
    <2>13. snap'[p] # None => Named(snap'[p].id)
      BY <1>1 DEF Named
    <2> QED BY <1>1, <2>9, <2>11, <2>12, <2>13, CalmStep DEF Before
  <1> QED BY <1>2, <1>3

\* Nobody looks for a generation that has not ended.
LEMMA NotLookedFor ==
    ASSUME TypeInv, Tidy, NEW q \in Owners, pc[q] \in Looking
    PROVE  /\ snap[q].anchor \in Ids /\ snap[q].anchor # None
           /\ snap[q] # None /\ snap[q].id = snap[q].anchor
           /\ live # None /\ (live.recs = <<>> \/ Last(live).state = "active")
                 => live.id # snap[q].anchor
  <1>1. Vouched(q) /\ what[q] = "quiescent" /\ snap[q].id = snap[q].anchor
    BY DEF Tidy, Vouched
  <1>2. snap[q] \in Snapshots
    BY <1>1 DEF TypeInv
  <1>3. snap[q].anchor \in Ids /\ snap[q] # None
    BY <1>2, StoresAssumption DEF Snapshots
  <1> QED BY <1>1, <1>3, LookedFor, OwnersAssumption DEF Ids

\* The guard of a retired store follows it.
LEMMA GuardMoved ==
    ASSUME TypeInv, Safe, Tidy, NEW p \in Owners, Step(p), pc[p] \in {"unguard", "retireGuard"},
           MoveGuard(p, "debris") \/ MoveGuard(p, "mkdir"),
           MoveGuard(p, "mkdir") => pc[p] = "retireGuard", Keep
    PROVE  Tidy'
  <1> DEFINE a == snap[p].anchor
  <1>0. pc \in [Owners -> Steps] /\ rguard \in [Ids -> Ids \cup {None}] /\ guard \in Ids \cup {None}
    BY DEF TypeInv, TypeOK
  <1>1. live = None /\ guard # None /\ guard = a /\ (pc[p] = "retireGuard" => art[p] = p)
    <2>1. CASE pc[p] = "unguard"
      <3>1. live = None /\ guard # None /\ snap[p] = SnapOf(retired[guard])
        BY <2>1 DEF Tidy, Held, Entering
      <3>2. retired[guard] # None
        BY <3>1 DEF Tidy, FileShape, Rotating, Standing
      <3>3. retired[guard].anchor = guard
        BY <1>0, <3>1, <3>2 DEF Tidy, Grave
      <3> QED BY <2>1, <3>1, <3>3 DEF SnapOf
    <2>2. CASE pc[p] = "retireGuard"
      BY <2>2 DEF Tidy, Held, Replacing, Bootstrap
    <2> QED BY <2>1, <2>2
  <1>2. retired[a] # None
    BY <1>1 DEF Tidy, FileShape, Rotating, Standing
  <1>3. /\ rguard' = [rguard EXCEPT ![a] = a] /\ guard' = None
        /\ pc'[p] \in {"debris", "mkdir"} /\ (pc'[p] = "mkdir" => pc[p] = "retireGuard")
        /\ UNCHANGED <<live, retired, lock, art, snap, what, thefts, opened, closed>>
    BY <1>0, <1>1 DEF MoveGuard, Goto, Keep
  <1> HIDE DEF a
  <1>4. FileShape'
    BY <1>1, <1>3 DEF FileShape, Unbuilt
  <1>5. ASSUME NEW b \in Ids PROVE Grave(b)' /\ (rguard'[b] = rguard[b] \/ b = a)
    <2>1. Grave(b) /\ b # None
      BY OwnersAssumption DEF Tidy, Ids
    <2>2. rguard'[b] = IF b = a THEN a ELSE rguard[b]
      BY <1>0, <1>3
    <2> QED BY <1>1, <1>3, <2>1, <2>2 DEF Grave, Chain, Quiescent, Last
  <1>6. ASSUME NEW q \in Owners, pc[q] \in Looking PROVE Fate(snap[q].anchor)
    <2>1. snap[q].anchor \in Ids /\ snap[q].anchor # None
      BY <1>6, NotLookedFor
    <2> QED BY <1>1, <1>2, <1>3, <1>5, <2>1 DEF Fate
  <1>7. ASSUME NEW i \in Ids,
               \/ live' # None /\ live'.id = i
               \/ guard' = i \/ retired'[i] # None \/ rguard'[i] # None
        PROVE  Named(i)
    <2>1. i # None
      BY OwnersAssumption DEF Ids
    <2> QED BY <1>1, <1>3, <1>5, <1>7, <2>1 DEF Named
  <1>8. Held(p)'
    BY <1>1, <1>3 DEF Held, Entering, Replacing, Working, Ending, Certifying, Bootstrap, Sealing
  <1>9. Vouched(p)'
    BY <1>3 DEF Vouched, Looking
  <1> QED BY <1>3, <1>4, <1>5, <1>6, <1>7, <1>8, <1>9, LoudStep DEF Loud, Before

LEMMA MoveTidy ==
    ASSUME TypeInv, Safe, Tidy, NEW p \in Owners, Step(p), Unguard(p) \/ RetireGuard(p)
    PROVE  Tidy'
  <1>1. /\ pc[p] \in {"unguard", "retireGuard"} /\ Keep
        /\ MoveGuard(p, "debris") \/ MoveGuard(p, "mkdir")
        /\ MoveGuard(p, "mkdir") => pc[p] = "retireGuard" \/ guard = None
    <2>1. CASE Unguard(p)
      <3>1. pc[p] = "unguard" /\ Keep /\ MoveGuard(p, "debris")
        BY <2>1 DEF Unguard
      <3>2. MoveGuard(p, "mkdir") => guard = None
        <4>1. SUFFICES ASSUME MoveGuard(p, "mkdir"), guard # None PROVE FALSE
          OBVIOUS
        <4>2. pc' = [pc EXCEPT ![p] = "debris"] /\ pc' = [pc EXCEPT ![p] = "mkdir"]
          BY <3>1, <4>1 DEF MoveGuard, Goto
        <4>3. pc'[p] = "debris" /\ pc'[p] = "mkdir"
          BY <4>2 DEF TypeInv, TypeOK
        <4> QED BY <4>3
      <3> QED BY <3>1, <3>2
    <2>2. CASE RetireGuard(p)
      BY <2>2 DEF RetireGuard
    <2> QED BY <2>1, <2>2
  <1>2. CASE guard = None
    BY <1>1, <1>2, RejectStep DEF MoveGuard, Keep, Early
  <1>3. CASE guard # None
    BY <1>1, <1>3, GuardMoved
  <1> QED BY <1>2, <1>3

\* A bootstrap that was broken off is out of the way.
LEMMA ClearTidy ==
    ASSUME TypeInv, Safe, Tidy, NEW p \in Owners, Step(p), Clear(p)
    PROVE  Tidy'
  <1>0. pc \in [Owners -> Steps]
    BY DEF TypeInv, TypeOK
  <1>1. pc[p] = "clear" /\ UNCHANGED <<lock, art, snap, what, thefts, opened, closed>>
    BY DEF Clear, Keep
  <1>2. CASE live = None
    BY <1>1, <1>2, RejectStep DEF Clear, Early
  <1>3. CASE live # None
    <2>1. live' = None /\ pc'[p] = "view" /\ UNCHANGED <<guard, retired, rguard>>
      BY <1>0, <1>3 DEF Clear, Goto
    <2>2. guard = None
      BY <1>1 DEF Tidy, Held, Entering
    <2>3. FileShape'
      BY <2>1, <2>2 DEF FileShape, Unbuilt
    <2>4. \A a \in Ids : Grave(a)'
      BY <2>1 DEF Tidy, Grave, Chain, Quiescent, Last
    <2>5. ASSUME NEW q \in Owners PROVE Fate(snap[q].anchor)
      BY <2>1 DEF Fate
    <2>6. Held(p)' /\ Vouched(p)'
      BY <2>1 DEF Held, Entering, Replacing, Working, Ending, Certifying, Bootstrap, Sealing,
                  Vouched, Looking
    <2>7. \A i \in Ids : \/ live' # None /\ live'.id = i
                         \/ guard' = i \/ retired'[i] # None \/ rguard'[i] # None
                         => Named(i)
      BY <2>1 DEF Named
    <2> QED BY <1>1, <2>1, <2>3, <2>4, <2>5, <2>6, <2>7, LoudStep DEF Loud, Before
  <1> QED BY <1>2, <1>3

\* What was retired earlier goes, and this generation's own names stay.
LEMMA SweepTidy ==
    ASSUME TypeInv, Safe, Tidy, NEW p \in Owners, Step(p), Sweep(p)
    PROVE  Tidy'
  <1>0. pc \in [Owners -> Steps]
    BY DEF TypeInv, TypeOK
  <1>1. /\ pc[p] = "sweep" /\ pc'[p] = "retire"
        /\ UNCHANGED <<live, guard, lock, art, snap, what, thefts, opened, closed>>
    BY <1>0 DEF Sweep, Goto, Keep
  <1>2. \A a \in Ids : /\ retired'[a] \in {retired[a], None}
                       /\ rguard'[a] \in {rguard[a], None}
    BY DEF Sweep
  <1>3. Sees(p) /\ live.staged = None /\ Quiescent(live) /\ art[p] = p
    BY <1>1 DEF Tidy, Held, Replacing, Bootstrap
  <1>4. FileShape'
    BY <1>1, <1>3 DEF Sees, Tidy, FileShape, Rotating, Standing, OpenEpochs, Chain, Last
  <1>5. ASSUME NEW a \in Ids PROVE Grave(a)'
    <2>1. Grave(a)
      BY DEF Tidy
    <2> QED BY <1>1, <1>2, <2>1 DEF Grave, Chain, Quiescent, Last
  <1>6. ASSUME NEW q \in Owners, pc[q] \in Looking PROVE Fate(snap[q].anchor)
    <2>1. snap[q].anchor \in Ids /\ snap[q].anchor # None
      BY <1>6, NotLookedFor
    <2> QED BY <1>1, <1>2, <2>1 DEF Fate
  <1>7. \A i \in Ids : \/ live' # None /\ live'.id = i
                       \/ guard' = i \/ retired'[i] # None \/ rguard'[i] # None
                       => Named(i)
    BY <1>1, <1>2 DEF Named
  <1>8. Sees(p)' /\ Quiescent(live)' /\ live'.staged = None
    BY <1>1, <1>3 DEF Sees, SnapOf, Quiescent, Last
  <1>9. Replacing(p)'
    BY <1>1, <1>3, <1>8 DEF Replacing
  <1>10. Held(p)'
    BY <1>1, <1>9 DEF Held, Entering, Working, Ending, Certifying, Sealing
  <1>11. Vouched(p)'
    BY <1>1 DEF Vouched, Looking
  <1>12. pc[p] \in Loud /\ snap' = snap /\ pc[p] \in Before
    BY <1>1 DEF Loud, Before
  <1> QED BY <1>4, <1>5, <1>6, <1>7, <1>10, <1>11, <1>12, LoudStep

\* The ended generation moves to its retired name as it is.
LEMMA RetireTidy ==
    ASSUME TypeInv, Safe, Tidy, NEW p \in Owners, Step(p), Retire(p)
    PROVE  Tidy'
  <1> DEFINE a == snap[p].anchor
  <1>0. pc \in [Owners -> Steps] /\ retired = [b \in Ids |-> retired[b]]
    BY DEF TypeInv, TypeOK
  <1>1. pc[p] = "retire" /\ UNCHANGED <<lock, art, snap, what, thefts, opened, closed>>
    BY DEF Retire, Keep
  <1>2. CASE live = None \/ retired[a] # None
    BY <1>1, <1>2, RejectStep DEF Retire, RetiredName, Early
  <1>3. CASE ~(live = None \/ retired[a] # None)
    <2>1. /\ retired' = [retired EXCEPT ![a] = live] /\ live' = None
          /\ pc'[p] = "retireGuard" /\ UNCHANGED <<guard, rguard>>
      BY <1>0, <1>3 DEF Retire, RetiredName, Goto
    <2>2. Sees(p) /\ live.staged = None /\ Quiescent(live) /\ art[p] = p
      BY <1>1 DEF Tidy, Held, Replacing, Bootstrap
    <2>3. Standing /\ live # None /\ guard # None /\ guard = a /\ live.id = a
      BY <2>2 DEF Sees, SnapOf, Tidy, FileShape, Rotating, Standing
    <2>4. a \in Ids
      BY <2>3 DEF TypeInv, TypeOK
    <2> HIDE DEF a
    <2>5. \A b \in Ids : retired'[b] = IF b = a THEN live ELSE retired[b]
      BY <1>0, <2>1
    <2>6. FileShape'
      <3>1. retired'[a] # None
        BY <2>3, <2>4, <2>5
      <3> QED BY <2>1, <2>3, <3>1 DEF FileShape, Rotating
    <2>7. ASSUME NEW b \in Ids PROVE Grave(b)'
      <3>1. Grave(b)
        BY DEF Tidy
      <3>2. CASE b = a
        <4>1. /\ retired'[b] = live /\ live.id = b /\ live.anchor = b /\ live.staged = None
              /\ ~live.junk /\ Chain(live) /\ Len(live.recs) <= MaxRecords /\ Quiescent(live)
              /\ rguard[b] = None
          BY <2>2, <2>3, <2>5, <3>1, <3>2 DEF Standing, Grave
        <4> QED BY <2>1, <4>1 DEF Grave, Chain, Quiescent, Last
      <3>3. CASE b # a
        <4>1. retired'[b] = retired[b]
          BY <2>5, <3>3
        <4> QED BY <2>1, <3>1, <4>1 DEF Grave, Chain, Quiescent, Last
      <3> QED BY <3>2, <3>3
    <2>8. ASSUME NEW q \in Owners, pc[q] \in Looking PROVE Fate(snap[q].anchor)
      <3>1. snap[q].anchor \in Ids
        BY <2>8, NotLookedFor
      <3> QED BY <2>1, <2>3, <2>5, <3>1 DEF Fate
    <2>9. \A i \in Ids : \/ live' # None /\ live'.id = i
                         \/ guard' = i \/ retired'[i] # None \/ rguard'[i] # None
                         => Named(i)
      BY <2>1, <2>3, <2>5 DEF Named
    <2>10. guard' = snap'[p].anchor /\ guard' # None
      BY <1>1, <2>1, <2>3 DEF a
    <2>11. Held(p)' /\ Vouched(p)'
      BY <1>1, <2>1, <2>2, <2>10 DEF Held, Entering, Replacing, Working, Ending, Certifying,
                                     Bootstrap, Sealing, Vouched, Looking
    <2> QED BY <1>1, <2>1, <2>6, <2>7, <2>8, <2>9, <2>11, LoudStep DEF Loud, Before
  <1> QED BY <1>2, <1>3

\* The next generation gets a directory, its anchor, and its guard.
LEMMA MkdirTidy ==
    ASSUME TypeInv, Safe, Tidy, NEW p \in Owners, Step(p), Mkdir(p)
    PROVE  Tidy'
  <1>0. pc \in [Owners -> Steps] /\ p \in Ids
    BY DEF TypeInv, TypeOK, Ids
  <1>1. pc[p] = "mkdir" /\ UNCHANGED <<lock, art, snap, what, thefts, opened, closed>>
    BY DEF Mkdir, Keep
  <1>2. live = None /\ guard = None /\ art[p] = p
    BY <1>1 DEF Tidy, Held, Replacing, Bootstrap
  <1>3. /\ live' = NewStore(p) /\ pc'[p] = "anchor"
        /\ UNCHANGED <<guard, retired, rguard>>
    BY <1>0, <1>2 DEF Mkdir, Goto
  <1>4. ~Named(p)
    BY <1>1 DEF Tidy, Unborn, Before
  <1>5. /\ live'.id = p /\ live'.anchor = None /\ live'.recs = <<>>
        /\ live'.staged = None /\ ~live'.junk
    BY <1>3 DEF NewStore
  <1>6. FileShape'
    BY <1>2, <1>3, <1>5 DEF FileShape, Unbuilt
  <1>7. ASSUME NEW a \in Ids PROVE Grave(a)'
    <2>1. Grave(a) /\ ((retired[a] # None \/ rguard[a] # None) => a # p)
      BY <1>4 DEF Tidy, Named
    <2> QED BY <1>3, <1>5, <2>1 DEF Grave, Chain, Quiescent, Last
  <1>8. ASSUME NEW q \in Owners, pc[q] \in Looking PROVE Fate(snap[q].anchor)
    <2>1. snap[q] # None /\ snap[q].id = snap[q].anchor
      BY <1>8, NotLookedFor
    <2>2. snap[q].anchor # p
      BY <1>4, <2>1 DEF Named
    <2>3. \A a : a # p => Fate(a)
      BY <1>3, <1>5 DEF Fate
    <2> QED BY <2>2, <2>3
  <1>9. \A i \in Ids : \/ live' # None /\ live'.id = i
                       \/ guard' = i \/ retired'[i] # None \/ rguard'[i] # None
                       => Named(i) \/ (i = p /\ pc'[p] \notin Before)
    BY <1>3, <1>5 DEF Named, Before
  <1>10. Held(p)'
    BY <1>1, <1>2, <1>3 DEF Held, Entering, Replacing, Working, Ending, Certifying, Bootstrap,
                            Sealing, NewStore
  <1>11. Vouched(p)'
    BY <1>3 DEF Vouched, Looking
  <1>12. pc[p] \in Loud /\ snap' = snap /\ pc[p] \in Before
    BY <1>1 DEF Loud, Before
  <1> QED BY <1>6, <1>7, <1>8, <1>9, <1>10, <1>11, <1>12, LoudStep

LEMMA AnchorTidy ==
    ASSUME TypeInv, Safe, Tidy, NEW p \in Owners, Step(p), Anchor(p)
    PROVE  Tidy'
  <1>0. pc \in [Owners -> Steps]
    BY DEF TypeInv, TypeOK
  <1>1. pc[p] = "anchor" /\ UNCHANGED <<lock, art, snap, what, thefts, opened, closed>>
    BY DEF Anchor, Keep
  <1>2. live = NewStore(p) /\ guard = None /\ art[p] = p
    BY <1>1 DEF Tidy, Held, Replacing, Bootstrap
  <1>3. live # None /\ live.anchor = None /\ live.id = p /\ live.recs = <<>>
    <2>1. NewStore(p) \in Stores
      BY DEF NewStore, Stores, Ids
    <2> QED BY <1>2, <2>1, StoresAssumption DEF NewStore
  <1>4. /\ live' = [NewStore(p) EXCEPT !.anchor = p] /\ pc'[p] = "link"
        /\ UNCHANGED <<guard, retired, rguard>>
    BY <1>0, <1>2, <1>3 DEF Anchor, Goto
  <1>5. live' = [id |-> p, anchor |-> p, recs |-> <<>>, staged |-> None, junk |-> FALSE]
    BY <1>4 DEF NewStore
  <1>6. /\ live'.id = p /\ live'.anchor = p /\ live'.recs = <<>>
        /\ live'.staged = None /\ ~live'.junk
    BY <1>5
  <1>7. live' # None
    <2>1. live' \in Stores
      BY <1>5 DEF Stores, Ids
    <2> QED BY <2>1, StoresAssumption
  <1>8. FileShape'
    BY <1>2, <1>4, <1>6 DEF FileShape, Unbuilt
  <1>9. ASSUME NEW a \in Ids PROVE Grave(a)'
    <2>1. Grave(a)
      BY DEF Tidy
    <2> QED BY <1>3, <1>4, <1>6, <2>1 DEF Grave, Chain, Quiescent, Last
  <1>10. ASSUME NEW q \in Owners, pc[q] \in Looking PROVE Fate(snap[q].anchor)
    <2>1. p # snap[q].anchor
      BY <1>3, <1>10, NotLookedFor
    <2>2. \A a : a # p => Fate(a)
      BY <1>4, <1>6 DEF Fate
    <2> QED BY <2>1, <2>2
  <1>11. \A i \in Ids : \/ live' # None /\ live'.id = i
                        \/ guard' = i \/ retired'[i] # None \/ rguard'[i] # None
                        => Named(i)
    BY <1>3, <1>4, <1>6 DEF Named
  <1>12. Held(p)'
    BY <1>1, <1>2, <1>4, <1>6, <1>7 DEF Held, Entering, Replacing, Working, Ending, Certifying,
                                        Bootstrap, Sealing
  <1>13. Vouched(p)'
    BY <1>4 DEF Vouched, Looking
  <1>14. pc[p] \in Loud /\ snap' = snap /\ pc'[p] \notin Before
    BY <1>1, <1>4 DEF Loud, Before
  <1> QED BY <1>8, <1>9, <1>10, <1>11, <1>12, <1>13, <1>14, LoudStep

LEMMA LinkTidy ==
    ASSUME TypeInv, Safe, Tidy, NEW p \in Owners, Step(p), Link(p)
    PROVE  Tidy'
  <1>0. pc \in [Owners -> Steps] /\ p \in Ids /\ p # None
    BY OwnersAssumption DEF TypeInv, TypeOK, Ids
  <1>1. pc[p] = "link" /\ UNCHANGED <<lock, art, snap, what, thefts, opened, closed>>
    BY DEF Link, Keep
  <1>2. /\ live # None /\ live.id = p /\ live.anchor = p /\ live.recs = <<>>
        /\ live.staged = None /\ guard = None /\ art[p] = p
    BY <1>1 DEF Tidy, Held, Replacing, Bootstrap
  <1>3. ~live.junk
    BY <1>2 DEF Tidy, FileShape, Unbuilt
  <1>4. /\ guard' = p /\ pc'[p] = "boot" /\ UNCHANGED <<live, retired, rguard>>
    BY <1>0, <1>2 DEF Link, Goto
  <1>5. FileShape'
    <2>1. live'.recs = <<>> /\ Chain(live') /\ Len(live'.recs) = 0
      BY <1>2, <1>4 DEF Chain
    <2>2. Standing'
      BY <1>2, <1>3, <1>4, <2>1, OwnersAssumption DEF Standing
    <2> QED BY <1>0, <1>4, <2>2 DEF FileShape
  <1>6. ASSUME NEW a \in Ids PROVE Grave(a)'
    <2>1. Grave(a)
      BY DEF Tidy
    <2> QED BY <1>2, <1>4, <2>1 DEF Grave, Chain, Quiescent, Last
  <1>7. ASSUME NEW q \in Owners, pc[q] \in Looking PROVE Fate(snap[q].anchor)
    <2>1. p # snap[q].anchor
      BY <1>2, <1>7, NotLookedFor
    <2>2. \A a : a # p => Fate(a)
      BY <1>2, <1>4 DEF Fate
    <2> QED BY <2>1, <2>2
  <1>8. \A i \in Ids : \/ live' # None /\ live'.id = i
                       \/ guard' = i \/ retired'[i] # None \/ rguard'[i] # None
                       => Named(i)
    BY <1>2, <1>4 DEF Named
  <1>9. Held(p)'
    BY <1>1, <1>2, <1>4 DEF Held, Entering, Replacing, Working, Ending, Certifying, Bootstrap,
                            Sealing
  <1>10. Vouched(p)'
    BY <1>4 DEF Vouched, Looking
  <1>11. pc[p] \in Loud /\ snap' = snap /\ pc'[p] \notin Before
    BY <1>1, <1>4 DEF Loud, Before
  <1> QED BY <1>5, <1>6, <1>7, <1>8, <1>9, <1>10, <1>11, LoudStep

\* A record is staged where the chain ends.
LEMMA PrepareTidy ==
    ASSUME TypeInv, Safe, Tidy, NEW p \in Owners, Step(p), Prepare(p)
    PROVE  Tidy'
  <1>0. pc \in [Owners -> Steps]
    BY DEF TypeInv, TypeOK
  <1>1. pc[p] = "prepare" /\ UNCHANGED <<lock, art, snap, what, thefts, opened, closed>>
    BY DEF Prepare, Keep
  <1>2. /\ Sees(p) /\ Spare(p) /\ live.staged = None /\ art[p] = p
        /\ OwnTail(p) \/ (live.recs = <<>> /\ what[p] = "active")
    BY <1>1 DEF Tidy, Held, Working
  <1>3. /\ live \in Stores /\ Len(live.recs) \in Nat /\ NextSlot(p) = Len(live.recs) + 1
        /\ Staging(p) \in [at : Nat, rec : Records] /\ Staging(p).at = NextSlot(p)
    <2>1. live \in Stores
      BY <1>2 DEF Sees, TypeInv, TypeOK
    <2>2. Len(live.recs) \in Nat
      BY <2>1, StoreFields, LenProperties
    <2>3. snap[p] \in Snapshots /\ what[p] \in States
      BY <1>1 DEF TypeInv, WithSnap, WithRecord
    <2>4. Record(p) \in Records /\ NextSlot(p) \in Nat
      BY <2>3, RecordType
    <2> QED BY <1>2, <2>1, <2>2, <2>4 DEF Sees, SnapOf, NextSlot, Staging
  <1>4. ~(NextSlot(p) <= Len(live.recs)) /\ live # None
    BY <1>2, <1>3 DEF Sees
  <1>5. /\ live' = [live EXCEPT !.staged = Staging(p)]
        /\ pc'[p] = "recheck" /\ UNCHANGED <<guard, retired, rguard>>
    BY <1>0, <1>2, <1>4 DEF Prepare, Goto, Staging
  <1>6. /\ live'.id = live.id /\ live'.anchor = live.anchor /\ live'.recs = live.recs
        /\ live'.staged = Staging(p) /\ live'.junk = live.junk
    BY <1>3, <1>5 DEF Stores
  <1>7. live' # None
    <2>1. live' \in Stores
      BY <1>3, <1>5, Touched
    <2> QED BY <2>1, StoresAssumption
  <1>8. FileShape'
    <2>1. Standing
      BY <1>2 DEF Sees, Tidy, FileShape, Rotating
    <2>2. Chain(live)' /\ Last(live)' = Last(live)
      BY <1>6, <2>1 DEF Standing, Chain, Last
    <2>3. Standing'
      BY <1>1, <1>3, <1>5, <1>6, <1>7, <2>1, <2>2 DEF Standing, OpenEpochs
    <2> QED BY <1>2, <1>5, <2>3 DEF Sees, FileShape
  <1>9. ASSUME NEW a \in Ids PROVE Grave(a)'
    <2>1. Grave(a)
      BY DEF Tidy
    <2> QED BY <1>4, <1>5, <1>6, <2>1 DEF Grave, Chain, Quiescent, Last
  <1>10. ASSUME NEW q \in Owners, pc[q] \in Looking PROVE Fate(snap[q].anchor)
    <2>1. live.id # snap[q].anchor
      BY <1>2, <1>4, <1>10, NotLookedFor DEF OwnTail
    <2>2. \A a : a # live.id => Fate(a)
      BY <1>5, <1>6 DEF Fate
    <2> QED BY <2>1, <2>2
  <1>11. \A i \in Ids : \/ live' # None /\ live'.id = i
                        \/ guard' = i \/ retired'[i] # None \/ rguard'[i] # None
                        => Named(i)
    BY <1>4, <1>5, <1>6 DEF Named
  <1>12. /\ Sees(p)' /\ NextSlot(p)' = NextSlot(p) /\ Staging(p)' = Staging(p)
         /\ OwnTail(p)' <=> OwnTail(p)
    BY <1>1, <1>2, <1>5, <1>6, <1>7
    DEF Sees, SnapOf, NextSlot, Staging, Record, OwnTail, Last
  <1>13. Held(p)'
    BY <1>1, <1>2, <1>5, <1>6, <1>12 DEF Held, Entering, Replacing, Working, Ending, Certifying,
                                         Bootstrap, Sealing, Spare
  <1>14. Vouched(p)'
    BY <1>5 DEF Vouched, Looking
  <1>15. pc[p] \in Loud /\ snap' = snap /\ pc'[p] \notin Before
    BY <1>1, <1>5 DEF Loud, Before
  <1> QED BY <1>8, <1>9, <1>10, <1>11, <1>13, <1>14, <1>15, LoudStep

\* The chain is one record longer, and still in order.
LEMMA RecordLinked ==
    ASSUME TypeInv, Safe, Tidy, NEW p \in Owners, Step(p),
           pc[p] \in {"publish", "seal"}, snap[p] \in Snapshots, what[p] \in States,
           snap' = snap, what' = what, pc'[p] \notin Before,
           Sees(p), OwnTail(p) \/ (live.recs = <<>> /\ what[p] = "active"),
           NextSlot(p) <= MaxRecords,
           live' = Linked(live, Record(p)), UNCHANGED <<guard, retired, rguard>>,
           what[p] # "quiescent" => p \in OpenEpochs',
           Held(p)', Vouched(p)'
    PROVE  Tidy'
  <1>1. live \in Stores /\ live # None /\ guard # None /\ Standing
    BY DEF Sees, Tidy, FileShape, Rotating, TypeInv, TypeOK
  <1>2. /\ Record(p) \in Records /\ Record(p).anchor = live.anchor
        /\ Record(p).state = what[p] /\ Record(p).epoch = p
    BY RecordType DEF Record, Sees, SnapOf
  <1>3. live.recs = <<>> => Record(p).state = "active"
    BY <1>2 DEF OwnTail
  <1>4. live.recs # <<>> => Follows(Record(p), Last(live))
    BY <1>2 DEF OwnTail, Follows
  <1>5. /\ Chain(live') /\ Last(live') = Record(p) /\ live'.recs # <<>>
        /\ Len(live'.recs) = Len(live.recs) + 1
        /\ live'.id = live.id /\ live'.anchor = live.anchor
        /\ live'.staged = None /\ live'.junk = live.junk
    BY <1>1, <1>2, <1>3, <1>4, ChainGrows DEF Standing
  <1>6. live' # None
    <2>1. Append(live.recs, Record(p)) \in Seq(Records)
      BY <1>1, <1>2, StoreFields
    <2>2. live' \in Stores
      BY <1>1, <2>1, StoreFields DEF Linked, Stores
    <2> QED BY <2>2, StoresAssumption
  <1>7. FileShape'
    <2>1. Len(live'.recs) <= MaxRecords
      BY <1>5 DEF Sees, SnapOf, NextSlot
    <2>2. Last(live').state # "quiescent" => Last(live').epoch \in OpenEpochs'
      BY <1>2, <1>5
    <2>3. Standing'
      <3>1. live'.id = guard' /\ live'.anchor = guard' /\ ~live'.junk
        BY <1>1, <1>5 DEF Standing
      <3>2. Chain(live)' /\ Last(live)' = Last(live')
        BY <1>5 DEF Chain, Last
      <3> QED BY <1>5, <1>6, <2>1, <2>2, <3>1, <3>2 DEF Standing
    <2> QED BY <1>1, <2>3 DEF FileShape
  <1>8. ASSUME NEW a \in Ids PROVE Grave(a)'
    <2>1. Grave(a)
      BY DEF Tidy
    <2> QED BY <1>1, <1>5, <2>1 DEF Grave, Chain, Quiescent, Last
  <1>9. ASSUME NEW q \in Owners, pc[q] \in Looking PROVE Fate(snap[q].anchor)
    <2>1. live.id # snap[q].anchor
      BY <1>1, <1>9, NotLookedFor DEF OwnTail
    <2>2. \A a : a # live.id => Fate(a)
      BY <1>5 DEF Fate
    <2> QED BY <2>1, <2>2
  <1>10. \A i \in Ids : \/ live' # None /\ live'.id = i
                        \/ guard' = i \/ retired'[i] # None \/ rguard'[i] # None
                        => Named(i)
    BY <1>1, <1>5 DEF Named
  <1>11. pc[p] \in Loud
    BY DEF Loud
  <1> QED BY <1>7, <1>8, <1>9, <1>10, <1>11, LoudStep

\* A record that its fence let through is linked.
LEMMA PublishTidy ==
    ASSUME TypeInv, Safe, Tidy, NEW p \in Owners, Step(p), Publish(p)
    PROVE  Tidy'
  <1>0. pc \in [Owners -> Steps]
    BY DEF TypeInv, TypeOK
  <1>1. /\ pc[p] = "publish" /\ UNCHANGED <<lock, art, snap, what, thefts>>
        /\ LinkRecord(p, "after", "mark")
    BY DEF Publish
  <1>2. /\ Sees(p) /\ Spare(p) /\ live.staged = Staging(p) /\ art[p] = p
        /\ OwnTail(p) \/ (live.recs = <<>> /\ what[p] = "active")
    BY <1>1 DEF Tidy, Held, Working
  <1>3. snap[p] \in Snapshots /\ what[p] \in States /\ what[p] # "quiescent"
    BY <1>1 DEF TypeInv, WithSnap, WithRecord, Safe, Fenced
  <1>4. /\ live' = Linked(live, Record(p)) /\ pc' = [pc EXCEPT ![p] = "after"]
        /\ UNCHANGED <<guard, retired, rguard>>
        /\ opened' = IF what[p] = "active" THEN opened \cup {p} ELSE opened
        /\ closed' = IF what[p] = "quiescent" THEN closed \cup {p} ELSE closed
    BY <1>1, <1>2, <1>3, LinkExact
  <1>5. pc'[p] = "after"
    BY <1>0, <1>4
  <1>6. p \in OpenEpochs'
    <2>1. p \notin closed /\ (what[p] # "active" => p \in opened)
      BY <1>1 DEF Safe, History, Over, Engaged, OpenEpochs
    <2> QED BY <1>3, <1>4, <2>1 DEF OpenEpochs
  <1>7. /\ live'.id = live.id /\ live'.anchor = live.anchor
        /\ live'.recs = Installed(p) /\ live'.staged = None
    BY <1>2, <1>4 DEF Linked, Installed, Sees, SnapOf
  <1>8. live' # None
    <2>1. live' \in Stores \cup {None}
      BY <1>1, LinkRecordType
    <2>2. live \in Stores /\ Record(p) \in Records
      BY <1>2, <1>3, RecordType DEF Sees, TypeInv, TypeOK
    <2>3. live' \in Stores
      BY <1>4, <2>2, StoreFields DEF Linked, Stores
    <2> QED BY <2>3, StoresAssumption
  <1>9. /\ Installed(p)' = Installed(p) /\ NextSlot(p)' = NextSlot(p)
    BY <1>1 DEF Installed, Record, NextSlot
  <1>10. Held(p)'
    <2>1. /\ live' # None /\ guard' # None
          /\ live'.anchor = snap'[p].anchor /\ live'.id = snap'[p].id
          /\ live'.recs = Installed(p)' /\ live'.staged = None
          /\ what'[p] # "quiescent" /\ Spare(p)' /\ art'[p] = p
      BY <1>1, <1>2, <1>3, <1>4, <1>7, <1>8, <1>9 DEF Sees, SnapOf, Spare
    <2> QED BY <1>5, <2>1 DEF Held, Entering, Replacing, Working, Ending, Certifying, Bootstrap,
                              Sealing
  <1>11. Vouched(p)'
    BY <1>5 DEF Vouched, Looking
  <1>12. pc'[p] \notin Before /\ NextSlot(p) <= MaxRecords
    BY <1>2, <1>5 DEF Before, Spare
  <1> QED BY <1>1, <1>2, <1>3, <1>4, <1>6, <1>10, <1>11, <1>12, RecordLinked

\* The certificate is linked, and is there to be found.
LEMMA SealTidy ==
    ASSUME TypeInv, Safe, Tidy, NEW p \in Owners, Step(p), Seal(p)
    PROVE  Tidy'
  <1>0. pc \in [Owners -> Steps]
    BY DEF TypeInv, TypeOK
  <1>1. /\ pc[p] = "seal" /\ UNCHANGED <<lock, art, snap, what, thefts>>
        /\ LinkRecord(p, "verify1", "gone")
    BY DEF Seal
  <1>2. Sees(p) /\ OwnTail(p) /\ NextSlot(p) <= MaxRecords /\ live.staged = Staging(p)
    BY <1>1 DEF Tidy, Held, Ending, Certifying, Sealing
  <1>3. snap[p] \in Snapshots /\ what[p] = "quiescent" /\ what[p] \in States
    BY <1>1 DEF TypeInv, WithSnap, WithRecord, Safe, Fenced, Sealing
  <1>4. /\ live' = Linked(live, Record(p)) /\ pc' = [pc EXCEPT ![p] = "verify1"]
        /\ UNCHANGED <<guard, retired, rguard>>
    BY <1>1, <1>2, <1>3, LinkExact
  <1>5. pc'[p] = "verify1"
    BY <1>0, <1>4
  <1>6. /\ live'.id = live.id /\ live'.recs = Installed(p) /\ live'.staged = None
    BY <1>2, <1>4 DEF Linked, Installed, Sees, SnapOf
  <1>7. Installed(p)' = Installed(p)
    BY <1>1 DEF Installed, Record
  <1>8. live # None /\ guard # None /\ live.id = guard /\ snap[p].anchor = guard /\ snap[p].id = guard
    BY <1>2 DEF Sees, SnapOf, Tidy, FileShape, Rotating, Standing
  <1>9. retired[guard] = None
    <2>1. guard \in Ids
      BY <1>8 DEF TypeInv, TypeOK
    <2> QED BY <1>8, <2>1 DEF Tidy, Grave
  <1>10. Vouched(p)'
    BY <1>1, <1>3, <1>4, <1>5, <1>6, <1>7, <1>8, <1>9 DEF Vouched
  <1>11. Held(p)'
    BY <1>5 DEF Held, Entering, Replacing, Working, Ending, Certifying, Bootstrap, Sealing
  <1>12. pc'[p] \notin Before
    BY <1>5 DEF Before
  <1> QED BY <1>1, <1>2, <1>3, <1>4, <1>10, <1>11, <1>12, RecordLinked

\* lose() and its marker are out of reach, and every other step keeps the files.
LEMMA StepTidy ==
    ASSUME TypeInv, Safe, Tidy, NEW p \in Owners, Step(p)
    PROVE  Tidy'
  <1>1. ~Mark(p)
    BY DEF Mark, Tidy, Held
  <1>2. CASE \/ Ask(p) \/ Doubt(p) \/ Acquire(p) \/ Busy(p) \/ Steal(p) \/ Die(p)
    BY <1>2, AdmissionTidy
  <1>3. CASE FinishRotation(p) \/ FinishBootstrap(p)
    BY <1>3, RecoveryTidy
  <1>4. CASE View(p) \/ Artifact(p)
    BY <1>4, ViewTidy, ArtifactTidy
  <1>5. CASE Adopt(p) \/ Boot(p)
    BY <1>5, ReadingTidy
  <1>6. CASE Unguard(p) \/ RetireGuard(p)
    BY <1>6, MoveTidy
  <1>7. CASE Clear(p) \/ Sweep(p) \/ Retire(p)
    BY <1>7, ClearTidy, SweepTidy, RetireTidy
  <1>8. CASE Mkdir(p) \/ Anchor(p) \/ Link(p)
    BY <1>8, MkdirTidy, AnchorTidy, LinkTidy
  <1>9. CASE Check(p) \/ Recheck(p)
    BY <1>9, FenceTidy
  <1>10. CASE Prepare(p) \/ Publish(p) \/ After(p)
    BY <1>10, PrepareTidy, PublishTidy, AfterTidy
  <1>11. CASE AssertIdentity(p) \/ Claim(p) \/ Finish(p) \/ Fail(p)
    BY <1>11, WorkTidy
  <1>12. CASE Release(p) \/ Confirm(p) \/ Free(p) \/ Stat(p)
    BY <1>12, CompletionTidy
  <1>13. CASE Seal(p)
    BY <1>13, SealTidy
  <1>14. CASE Verify1(p) \/ Verify2(p) \/ Verify3(p)
    BY <1>14, VerifyTidy
  <1> QED BY <1>1, <1>2, <1>3, <1>4, <1>5, <1>6, <1>7, <1>8, <1>9, <1>10, <1>11, <1>12, <1>13,
             <1>14 DEF Step

LEMMA InitTidy == Init => Tidy
  <1> SUFFICES ASSUME Init PROVE Tidy
    OBVIOUS
  <1>1. /\ \A a \in Ids : retired[a] = None /\ rguard[a] = None
        /\ \A p \in Owners : pc[p] = "new" /\ snap[p] = None
        /\ \/ live = None /\ guard = None
           \/ live = PastStore /\ guard = Past
    BY DEF Init
  <1>2. Past \notin Owners /\ Past # None
    BY OwnersAssumption
  <1>3. FileShape
    <2>1. CASE live = None /\ guard = None
      BY <2>1 DEF FileShape, Unbuilt
    <2>2. CASE live = PastStore /\ guard = Past
      <3>1. /\ live.id = Past /\ live.anchor = Past /\ live.recs = PastChain
            /\ live.staged = None /\ ~live.junk
        BY <2>2 DEF PastStore
      <3>2. /\ PastChain[1] = [anchor |-> Past, epoch |-> Past, state |-> "active"]
            /\ PastChain[2] = [anchor |-> Past, epoch |-> Past, state |-> "quiescent"]
            /\ DOMAIN PastChain = 1 .. 2 /\ Len(PastChain) = 2
        BY DEF PastChain
      <3>3. Follows(PastChain[2], PastChain[1])
        BY <3>2 DEF Follows
      <3>4. \A i \in 1 .. 2 : i = 1 \/ (i = 2 /\ i - 1 = 1)
        OBVIOUS
      <3>5. Chain(live)
        BY <3>1, <3>2, <3>3, <3>4 DEF Chain
      <3>6. Last(live).state = "quiescent" /\ Len(live.recs) <= MaxRecords
        BY <3>1, <3>2, OwnersAssumption DEF Last
      <3>7. live # None
        <4>1. PastChain \in Seq(Records)
          BY DEF PastChain, Records, Ids, States
        <4>2. PastStore \in Stores
          BY <4>1 DEF PastStore, Stores, Ids
        <4> QED BY <2>2, <4>2, StoresAssumption
      <3> QED BY <1>2, <2>2, <3>1, <3>5, <3>6, <3>7 DEF FileShape, Standing
    <2> QED BY <1>1, <2>1, <2>2
  <1>4. \A a \in Ids : Grave(a)
    BY <1>1 DEF Grave
  <1>5. ASSUME NEW p \in Owners PROVE Unborn(p) /\ Held(p) /\ Vouched(p)
    <2>1. ~Named(p)
      <3>1. p \in Ids /\ p # None /\ p # Past
        BY OwnersAssumption DEF Ids
      <3> QED BY <1>1, <3>1 DEF Named, PastStore
    <2> QED BY <1>1, <2>1 DEF Unborn, Held, Entering, Replacing, Working, Ending, Certifying,
                              Bootstrap, Sealing, Vouched, Looking
  <1> QED BY <1>3, <1>4, <1>5 DEF Tidy

\* While nobody is robbed, the files have one of three shapes (a bootstrap or a
\* rotation broken off, or a generation in order), what is retired is whole, and
\* each owner's knowledge of them is up to date.
THEOREM Tidiness == Spec => [](TypeInv /\ Inv /\ (thefts = 0 => Tidy))
  <1> DEFINE TidyInv == thefts = 0 => Tidy
  <1>1. Init => TidyInv
    BY InitTidy
  <1>2. TypeInv /\ Inv /\ TidyInv /\ [Next]_vars => TidyInv'
    <2> SUFFICES ASSUME TypeInv, Inv, TidyInv, [Next]_vars, thefts' = 0 PROVE Tidy'
      OBVIOUS
    <2>1. CASE Next
      <3>1. PICK p \in Owners : Step(p)
        BY <2>1 DEF Next
      <3>2. thefts = 0
        BY <3>1, TheftsGrow
      <3> QED BY <3>1, <3>2, StepTidy DEF Inv
    <2>2. CASE UNCHANGED vars
      <3>1. Tidy
        BY <2>2 DEF vars
      <3>2. \A p \in Owners : NextSlot(p)' = NextSlot(p) /\ Record(p)' = Record(p)
        BY <2>2 DEF vars, NextSlot, Record
      <3>3. \A p \in Owners : Staging(p)' = Staging(p) /\ Installed(p)' = Installed(p)
        BY <2>2, <3>2 DEF vars, Staging, Installed
      <3>4. FileShape' /\ \A a \in Ids : Grave(a)'
        BY <2>2, <3>1 DEF vars, Tidy, FileShape, Unbuilt, Rotating, Standing, OpenEpochs, Grave,
                          Chain, Quiescent, Last
      <3>5. \A p \in Owners : Unborn(p)' /\ Vouched(p)'
        BY <2>2, <3>1, <3>3 DEF vars, Tidy, Unborn, Named, Vouched
      <3>6. ASSUME NEW p \in Owners PROVE Held(p)'
        <4>1. Held(p) /\ (Sees(p)' <=> Sees(p)) /\ (OwnTail(p)' <=> OwnTail(p))
              /\ (Spare(p)' <=> Spare(p)) /\ (Certifying(p)' <=> Certifying(p))
          BY <2>2, <3>1, <3>2 DEF vars, Tidy, Sees, SnapOf, OwnTail, Last, Spare, Certifying
        <4>2. Entering(p)' /\ Replacing(p)'
          BY <2>2, <4>1 DEF vars, Held, Entering, Replacing, SnapOf, Admits, Quiescent, Last, NewStore
        <4>3. Working(p)' /\ Ending(p)'
          BY <2>2, <4>1, <3>2, <3>3 DEF vars, Held, Working, Ending
        <4> QED BY <2>2, <4>1, <4>2, <4>3 DEF vars, Held
      <3> QED BY <3>4, <3>5, <3>6 DEF Tidy
    <2> QED BY <2>1, <2>2
  <1> HIDE DEF TidyInv
  <1>3. Spec => []TidyInv
    BY <1>1, <1>2, Invariance, PTL DEF Spec
  <1>4. TidyInv => (thefts = 0 => Tidy)
    BY DEF TidyInv
  <1> QED BY <1>3, <1>4, Invariance, PTL

\* An owner nobody robs never compromises itself: every identity read of its own
\* finds what it wrote last (why assertIdentity() waits for the write queue).
THEOREM Undisturbance == Spec => []Undisturbed
  <1>1. (thefts = 0 => Tidy) => Undisturbed
    BY DEF Undisturbed, Tidy, Held
  <1> QED BY <1>1, Tidiness, PTL

\* Whatever call of a rotation or of a bootstrap was the last, finishRotation(),
\* finishBootstrap() and readSnapshot() of the next owner accept the directory.
THEOREM Recovery == Spec => []Recoverable
  <1>1. TypeInv /\ (thefts = 0 => Tidy) => Recoverable
    <2> SUFFICES ASSUME TypeInv, Tidy, OpenEpochs = {}, live # None => live.staged = None
                 PROVE  Admissible
      BY DEF Recoverable, OpenEpochs
    <2>1. CASE guard = None /\ live # None
      <3>1. ASSUME NEW a \in Ids, live.anchor # None PROVE rguard[a] # live.anchor
        BY <2>1, <3>1 DEF Tidy, Grave, FileShape, Unbuilt
      <3> QED BY <2>1, <3>1 DEF Tidy, FileShape, Unbuilt, Bare, Admissible
    <2>2. CASE guard # None /\ live = None
      <3>1. retired[guard] # None /\ guard \in Ids
        BY <2>2 DEF Tidy, FileShape, Rotating, Standing, TypeInv, TypeOK
      <3> QED BY <2>2, <3>1, GraveSound DEF Tidy, Admissible
    <2>3. CASE guard # None /\ live # None
      <3>1. Standing /\ Sound(live, guard, 0, TRUE)
        BY <2>3, StandingSound DEF Tidy
      <3>2. Admits(live)
        BY <3>1 DEF Standing, Admits, Quiescent
      <3> QED BY <3>1, <3>2 DEF Admissible
    <2> QED BY <2>1, <2>2, <2>3 DEF Admissible
  <1> QED BY <1>1, Tidiness, PTL

\* A completion is reported unconfirmed only when its generation is gone: no
\* rotation moves it past identityAfter()'s three reads.
THEOREM Confirmation == Spec => [](thefts = 0 => UnconfirmedOnlyIfSwept)
  <1>1. ASSUME TypeInv, Tidy, NEW p \in Owners, pc[p] = "unsure", NEW i \in DOMAIN Places(p)
        PROVE  ~Holds(p, Places(p)[i].store, Places(p)[i].guard, Installed(p))
    <2> DEFINE a == snap[p].anchor
    <2>1. /\ snap[p].id = a /\ a \in Ids
          /\ live # None => live.id # a
          /\ retired[a] # None => guard # a /\ rguard[a] # a
      BY <1>1, NotLookedFor DEF Tidy, Vouched, Looking
    <2>2. retired[a] # None => retired[a].anchor = a
      BY <1>1, <2>1 DEF Tidy, Grave
    <2>3. \/ Places(p)[i].store = live
          \/ Places(p)[i].store = retired[a] /\ Places(p)[i].guard \in {guard, rguard[a]}
      BY <1>1 DEF Places
    <2> HIDE DEF a
    <2> QED BY <2>1, <2>2, <2>3 DEF Holds, Sound
  <1>2. TypeInv /\ (thefts = 0 => Tidy) => (thefts = 0 => UnconfirmedOnlyIfSwept)
    BY <1>1 DEF UnconfirmedOnlyIfSwept
  <1> QED BY <1>2, Tidiness, PTL

\* Only half a rotation takes the guard from its path.
LEMMA GuardSteps ==
    ASSUME TypeInv, NEW p \in Owners, Step(p), guard # None, guard' # guard
    PROVE  Unguard(p) \/ RetireGuard(p)
  <1> USE DEF Goto, Keep, Reject, Lose, files
  <1>1. ~(\/ Ask(p) \/ Doubt(p) \/ Acquire(p) \/ Busy(p) \/ Steal(p)
          \/ FinishRotation(p) \/ FinishBootstrap(p) \/ Clear(p) \/ View(p) \/ Artifact(p))
    BY DEF Ask, Doubt, Acquire, Busy, Steal, FinishRotation, FinishBootstrap, Clear, View, Artifact
  <1>2. ~(\/ Adopt(p) \/ Sweep(p) \/ Retire(p) \/ Mkdir(p) \/ Anchor(p) \/ Link(p) \/ Boot(p))
    BY DEF Adopt, Sweep, Retire, Mkdir, Anchor, Link, Boot
  <1>3. ~(\/ Check(p) \/ Prepare(p) \/ Recheck(p) \/ Publish(p) \/ After(p)
          \/ AssertIdentity(p) \/ Claim(p) \/ Finish(p) \/ Fail(p) \/ Mark(p))
    BY DEF Check, Prepare, Recheck, Publish, LinkRecord, After, AssertIdentity, Claim,
           Finish, Fail, Mark
  <1>4. ~(\/ Release(p) \/ Confirm(p) \/ Free(p) \/ Stat(p) \/ Seal(p)
          \/ Verify1(p) \/ Verify2(p) \/ Verify3(p) \/ Die(p))
    BY DEF Release, Confirm, Free, Stat, Seal, LinkRecord, Verify1, Verify2, Verify3, Verify, Die
  <1> QED BY <1>1, <1>2, <1>3, <1>4 DEF Step

\* "Active guard files are NEVER reclaimed using time or process liveness": as
\* long as no live holder was robbed, the guard leaves its path only under a
\* store whose chain has ended.
THEOREM GuardHeld == Spec => [][thefts = 0 => GuardEnds]_vars
  <1>1. TypeInv /\ (thefts = 0 => Tidy) /\ [Next]_vars => [thefts = 0 => GuardEnds]_vars
    <2> SUFFICES ASSUME TypeInv, Tidy, Next, guard # None, guard' # guard,
                        NEW s \in {live} \cup {retired[a] : a \in Ids},
                        s # None, s.anchor = guard
                 PROVE  Quiescent(s)
      BY DEF GuardEnds
    <2>1. PICK p \in Owners : Unguard(p) \/ RetireGuard(p)
      BY GuardSteps DEF Next
    <2>2. live = None
      BY <2>1 DEF Unguard, RetireGuard, Tidy, Held, Entering, Replacing
    <2>3. PICK a \in Ids : s = retired[a]
      BY <2>2
    <2> QED BY <2>3 DEF Tidy, Grave
  <1> QED BY <1>1, Tidiness, PTL DEF Spec

===============================================================================
