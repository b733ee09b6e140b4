--------------------------- MODULE MergeTrainProofs ---------------------------
(***************************************************************************)
(* Proofs about MergeTrain, for every set of pull requests, jobs, heads    *)
(* and reviewers and every bound.                                          *)
(*                                                                         *)
(* First (Inv): no write to the state branch loses another job's record    *)
(* (WritesOwn).  The compare-and-swap of the push is behind it: a job      *)
(* whose commit can still fast-forward the branch holds the branch's       *)
(* ledger, however much time went by since it read it.                     *)
(*                                                                         *)
(* Then (TrainInv): what the records promise and what a verdict is worth.  *)
(* A tuple a pull request ever was at is Past, and once its age is reset   *)
(* the pull request can never be at it again (Drift): branches move to new *)
(* commits, pushes descend, force pushes begin an epoch.  So a record, a   *)
(* reading of it and a snapshot stay honest about the present code through *)
(* every delay, and a check that was passed stays true of the forge while  *)
(* nobody touches the pull request or its branch (Undisturbed).            *)
(***************************************************************************)
EXTENDS MergeTrain, SequenceTheorems, TLAPS

\* The functions the argument updates: their domains, and where a job is.
Shape ==
  /\ pc \in [Workers -> PC]
  /\ atTip \in [Workers -> BOOLEAN]
  /\ read = [w \in Workers |-> read[w]]
  /\ ledger = [p \in PRs |-> ledger[p]]

\* From the reading of the ledger to its writing.
Writers == {"cross", "judge", "anchor", "persist"}

Fresh(w) == pc[w] \in Writers /\ atTip[w] => read[w] = ledger

Inv == Shape /\ \A w \in Workers : Fresh(w)

\* Whatever a job leaves, it goes to its next pull request or to its end, and
\* no other job's place or reading changes.
LEMMA LeaveAlone ==
  ASSUME Shape, NEW w \in Workers, NEW still, Leave(w, still) \/ Abandon(w, still)
  PROVE  /\ pc' \in [Workers -> PC] /\ pc'[w] \notin Writers
         /\ \A v \in Workers \ {w} : pc'[v] = pc[v] /\ read'[v] = read[v]
         /\ read' = [v \in Workers |-> read'[v]]
  <1>1. pc' = [pc EXCEPT ![w] = "next"] \/ pc' = [pc EXCEPT ![w] = "idle"]
    BY DEF Leave, Abandon, Merging, Goto
  <1>2. read' = [read EXCEPT ![w] = Unread]
    BY DEF Leave, Abandon
  <1> QED BY <1>1, <1>2 DEF Shape, PC, Writers

\* A refusal ends the recheck or goes on to write its anchor.
LEMMA RefuseAlone ==
  ASSUME Shape, NEW w \in Workers, Refuse(w)
  PROVE  /\ pc' \in [Workers -> PC]
         /\ \A v \in Workers \ {w} : pc'[v] = pc[v] /\ read'[v] = read[v] /\ atTip'[v] = atTip[v]
         /\ read' = [v \in Workers |-> read'[v]] /\ atTip' \in [Workers -> BOOLEAN]
         /\ pc'[w] \in Writers => read'[w] = read[w] /\ atTip'[w] = atTip[w]
  <1>1. CASE EndRecheck(w) /\ atTip' = [atTip EXCEPT ![w] = FALSE]
    BY <1>1, LeaveAlone DEF EndRecheck, Shape
  <1>2. CASE Goto(w, "anchor") /\ UNCHANGED <<plan, todo, cur, snap, stamp, read, atTip, quiet>>
    BY <1>2 DEF Goto, Shape, PC
  <1> QED BY <1>1, <1>2 DEF Refuse

\* A step that reads nothing new keeps every other job's reading fresh.
LEMMA KeepsFresh ==
  ASSUME Inv, NEW w \in Workers, ledger' = ledger,
         pc' \in [Workers -> PC], atTip' \in [Workers -> BOOLEAN],
         read' = [v \in Workers |-> read'[v]],
         \A v \in Workers \ {w} : pc'[v] = pc[v] /\ read'[v] = read[v] /\ atTip'[v] = atTip[v],
         Fresh(w)'
  PROVE  Inv'
  BY DEF Inv, Shape, Fresh

\* What is written has a record of every pull request.
LEMMA Published ==
  ASSUME Inv, NEW w \in Workers, pc[w] \in Writers, Publish(w)
  PROVE  /\ atTip' = [v \in Workers |-> FALSE]
         /\ ledger' = [p \in PRs |-> ledger'[p]]
         /\ \A p \in PRs :
              \/ ledger'[p] = ledger[p]
              \/ IF cur[w] = None THEN snap[w][p] # None \/ p \notin Listed(w) ELSE p = cur[w]
  <1>1. read[w] = ledger /\ atTip' = [v \in Workers |-> FALSE]
    BY DEF Inv, Fresh, Publish, Lands
  <1>2. CASE cur[w] = None
    <2>1. ledger' = Anchored(w, ledger)
      BY <1>1, <1>2 DEF Publish
    <2> QED BY <1>1, <1>2, <2>1 DEF Anchored
  <1>3. CASE cur[w] # None
    <2>1. ledger' = Rechecked(w, ledger)
      BY <1>1, <1>3 DEF Publish
    <2>2. ledger = [p \in PRs |-> ledger[p]]
      BY DEF Inv, Shape
    <2>3. PICK new : ledger' = [ledger EXCEPT ![cur[w]] = new]
      BY <2>1 DEF Rechecked
    <2> QED BY <1>1, <1>3, <2>2, <2>3
  <1> QED BY <1>2, <1>3
-----------------------------------------------------------------------------
LEMMA InitInv == Init => Inv
  BY DEF Init, Inv, Shape, Fresh, PC, Unread, Writers

\* A step of a job that does not write the ledger: only ReadLedger changes
\* what the job has read, and to what is there.
LEMMA ReadingInv ==
  ASSUME Inv, NEW w \in Workers,
         \/ StartPass(w) \/ TakeSnapshot(w) \/ ReadClock(w) \/ ReadLedger(w) \/ Pin(w)
         \/ Fetch(w) \/ CrossCheck(w) \/ Judge(w) \/ Merge(w)
  PROVE  Inv' /\ ledger' = ledger
  <1> USE DEF At, Goto, EndRecheck, EndObservation
  <1>0. Shape /\ ledger' = ledger
    BY DEF Inv, StartPass, TakeSnapshot, ReadClock, ReadLedger, Pin, Fetch, CrossCheck, Judge, Merge
  <1>1. CASE StartPass(w)
    <2>1. pc' = [pc EXCEPT ![w] = "snapshot"] /\ UNCHANGED <<ledger, read, atTip>>
      BY <1>1 DEF StartPass
    <2> QED BY <1>0, <2>1, KeepsFresh DEF Shape, Fresh, PC, Writers
  <1>2. CASE TakeSnapshot(w)
    <2>1. /\ pc' = [pc EXCEPT ![w] = "stamp"] \/ pc' = [pc EXCEPT ![w] = "snapshot"]
          /\ UNCHANGED <<ledger, read, atTip>>
      BY <1>2 DEF TakeSnapshot
    <2> QED BY <1>0, <2>1, KeepsFresh DEF Shape, Fresh, PC, Writers
  <1>3. CASE ReadClock(w)
    <2>1. UNCHANGED <<ledger, atTip>>
      BY <1>3 DEF ReadClock
    <2>2. CASE Leave(w, todo[w] \ {cur[w]})
      BY <1>0, <2>1, <2>2, LeaveAlone, KeepsFresh DEF Shape, Fresh
    <2>3. CASE pc' = [pc EXCEPT ![w] = "read"] /\ UNCHANGED read
      BY <1>0, <2>1, <2>3, KeepsFresh DEF Shape, Fresh, PC, Writers
    <2> QED BY <1>3, <2>2, <2>3 DEF ReadClock
  <1>4. CASE ReadLedger(w)
    <2>1. UNCHANGED ledger
      BY <1>4 DEF ReadLedger
    <2>2. CASE /\ read' = [read EXCEPT ![w] = ledger]
               /\ atTip' = [atTip EXCEPT ![w] = TRUE]
               /\ pc' = [pc EXCEPT ![w] = "anchor"] \/ pc' = [pc EXCEPT ![w] = "cross"]
      BY <1>0, <2>1, <2>2, KeepsFresh DEF Shape, Fresh, PC
    <2>3. CASE UNCHANGED atTip /\ \E still : Leave(w, still)
      BY <1>0, <2>1, <2>3, LeaveAlone, KeepsFresh DEF Shape, Fresh
    <2> QED BY <1>4, <2>2, <2>3 DEF ReadLedger
  <1>5. CASE Pin(w)
    <2>1. UNCHANGED <<ledger, atTip>>
      BY <1>5 DEF Pin
    <2>2. CASE pc' = [pc EXCEPT ![w] = "fetch"] /\ UNCHANGED read
      BY <1>0, <2>1, <2>2, KeepsFresh DEF Shape, Fresh, PC, Writers
    <2>3. CASE \E still : Leave(w, still)
      BY <1>0, <2>1, <2>3, LeaveAlone, KeepsFresh DEF Shape, Fresh
    <2> QED BY <1>5, <2>2, <2>3 DEF Pin
  <1>6. CASE Fetch(w)
    <2>1. UNCHANGED <<ledger, atTip>>
      BY <1>6 DEF Fetch
    <2>2. CASE pc' = [pc EXCEPT ![w] = "stamp"] /\ UNCHANGED read
      BY <1>0, <2>1, <2>2, KeepsFresh DEF Shape, Fresh, PC, Writers
    <2>3. CASE \E still : Leave(w, still)
      BY <1>0, <2>1, <2>3, LeaveAlone, KeepsFresh DEF Shape, Fresh
    <2> QED BY <1>6, <2>2, <2>3 DEF Fetch
  <1>7. CASE CrossCheck(w)
    <2>1. UNCHANGED ledger /\ pc[w] \in Writers
      BY <1>7 DEF CrossCheck, Writers
    <2>2. CASE pc' = [pc EXCEPT ![w] = "judge"] /\ UNCHANGED <<read, atTip>>
      BY <1>0, <2>1, <2>2, KeepsFresh DEF Inv, Shape, Fresh, PC
    <2>3. CASE Refuse(w)
      BY <1>0, <2>1, <2>3, RefuseAlone, KeepsFresh DEF Inv, Fresh
    <2> QED BY <1>7, <2>2, <2>3 DEF CrossCheck
  <1>8. CASE Judge(w)
    <2>1. UNCHANGED ledger /\ pc[w] \in Writers
      BY <1>8 DEF Judge, Writers
    <2>2. CASE pc' = [pc EXCEPT ![w] = "persist"] /\ UNCHANGED <<read, atTip>>
      BY <1>0, <2>1, <2>2, KeepsFresh DEF Inv, Shape, Fresh, PC
    <2>3. CASE Refuse(w)
      BY <1>0, <2>1, <2>3, RefuseAlone, KeepsFresh DEF Inv, Fresh
    <2> QED BY <1>8, <2>2, <2>3 DEF Judge
  <1>9. CASE Merge(w)
    <2>1. UNCHANGED <<ledger, atTip>> /\ \E still : Leave(w, still) \/ Abandon(w, still)
      BY <1>9 DEF Merge
    <2> QED BY <1>0, <2>1, LeaveAlone, KeepsFresh DEF Shape, Fresh
  <1> QED BY <1>1, <1>2, <1>3, <1>4, <1>5, <1>6, <1>7, <1>8, <1>9, <1>0

\* A step that publishes makes every other commit on the way stale; one that
\* loses leaves the branch as it is.
LEMMA WritingInv ==
  ASSUME Inv, NEW w \in Workers, SaveAnchor(w) \/ SaveVerdict(w)
  PROVE  /\ Inv' /\ \A v \in Workers \ {w} : pc'[v] = pc[v]
         /\ \A p \in PRs :
              \/ ledger'[p] = ledger[p]
              \/ IF cur[w] = None THEN snap[w][p] # None \/ p \notin Listed(w) ELSE p = cur[w]
  <1>1. Shape /\ pc[w] \in Writers
    BY DEF Inv, SaveAnchor, SaveVerdict, At, Writers
  <1>2. /\ pc' \in [Workers -> PC] /\ read' = [v \in Workers |-> read'[v]]
        /\ pc'[w] \notin Writers
        /\ \A v \in Workers \ {w} : pc'[v] = pc[v] /\ read'[v] = read[v]
    <2>1. CASE \E still : Leave(w, still)
      BY <1>1, <2>1, LeaveAlone
    <2>2. CASE Goto(w, "merge") /\ read' = [read EXCEPT ![w] = Unread]
      BY <1>1, <2>2 DEF Shape, Goto, PC, Writers
    <2> QED BY <2>1, <2>2 DEF SaveAnchor, SaveVerdict, EndObservation, EndRecheck
  <1>3. CASE Publish(w)
    BY <1>1, <1>2, <1>3, Published DEF Inv, Shape, Fresh
  <1>4. CASE Loses(w)
    BY <1>1, <1>2, <1>4, KeepsFresh DEF Loses, Shape, Fresh
  <1> QED BY <1>2, <1>3, <1>4 DEF SaveAnchor, SaveVerdict

\* The forge never touches a job; time ages the branch and every copy alike.
LEMMA OutsideInv ==
  ASSUME Inv, Others \/ (\E p \in PRs : CatchUp(p)) \/ Tick \/ UNCHANGED vars
  PROVE  Inv' /\ UNCHANGED pc
  <1>1. CASE UNCHANGED <<ledger, jobVars>>
    BY <1>1 DEF Inv, Shape, Fresh, jobVars
  <1>2. CASE Tick
    <2>1. /\ ledger' = OlderLedger(ledger) /\ UNCHANGED <<pc, atTip>>
          /\ read' = [w \in Workers |-> OlderLedger(read[w])]
      BY <1>2 DEF Tick
    <2>2. ledger' = [p \in PRs |-> ledger'[p]]
      BY <2>1 DEF OlderLedger
    <2> QED BY <2>1, <2>2 DEF Inv, Shape, Fresh
  <1>3. Others \/ (\E p \in PRs : CatchUp(p)) \/ UNCHANGED vars => UNCHANGED <<ledger, jobVars>>
    BY DEF Others, Push, Review, GiveAllClear, Retarget, TrunkMoves, CatchUp, OnlyForge, vars
  <1> QED BY <1>1, <1>2, <1>3 DEF jobVars

\* The reading of the state branch, at every commit that can still land.
THEOREM ReadingsFresh == Spec => []Inv
  <1>1. Inv /\ [Next]_vars => Inv'
    BY ReadingInv, WritingInv, OutsideInv DEF Next, Step
  <1> QED BY InitInv, <1>1, PTL DEF Spec

-----------------------------------------------------------------------------
\* No update is lost on the state branch (writeSettleState's commit on top of
\* the one that was read): a write leaves every record alone that its writer
\* did not observe.
THEOREM NoLostUpdate == Spec => WritesOwn
  <1> DEFINE Own(w, p) ==
               \/ ledger'[p] = ledger[p]
               \/ IF cur[w] = None THEN snap[w][p] # None \/ p \notin Listed(w) ELSE p = cur[w]
             Owns == \A w \in Workers : pc[w] \in {"anchor", "persist"} /\ pc'[w] # pc[w] =>
                       \A p \in PRs : Own(w, p)
  <1>1. ASSUME Inv, [Next]_vars PROVE Owns
    <2>1. CASE Others \/ (\E p \in PRs : CatchUp(p)) \/ Tick \/ UNCHANGED vars
      BY <1>1, <2>1, OutsideInv
    <2>2. ASSUME NEW v \in Workers, Step(v) PROVE Owns
      <3>1. CASE SaveAnchor(v) \/ SaveVerdict(v)
        <4>1. \A w \in Workers \ {v} : pc'[w] = pc[w]
          BY <1>1, <3>1, WritingInv
        <4> QED BY <1>1, <3>1, <4>1, WritingInv
      <3>2. CASE ~(SaveAnchor(v) \/ SaveVerdict(v))
        BY <1>1, <2>2, <3>2, ReadingInv DEF Step
      <3> QED BY <3>1, <3>2
    <2> QED BY <1>1, <2>1, <2>2 DEF Next
  <1>2. Inv /\ [Next]_vars => [Owns]_vars
    BY <1>1
  <1> QED BY <1>2, ReadingsFresh, PTL DEF Spec, WritesOwn
-----------------------------------------------------------------------------
\* The records of the settle ledger, whose observations are ages.
Obs == UNION {[1 .. n -> Ages] : n \in 1 .. MaxObs}

LEMMA AgeType == MaxAge \in Nat \ {0} /\ Ages \subseteq Nat /\ 0 \in Ages /\ MaxObs \in Nat
  BY TrainAssumption DEF MaxAge, Ages

LEMMA ObsAreSeqs ==
  ASSUME NEW s
  PROVE  s \in Obs <=> s \in Seq(Ages) /\ Len(s) \in 1 .. MaxObs
  <1>1. ASSUME s \in Obs PROVE s \in Seq(Ages) /\ Len(s) \in 1 .. MaxObs
    <2>1. PICK n \in 1 .. MaxObs : s \in [1 .. n -> Ages]
      BY <1>1 DEF Obs
    <2>2. n \in Nat
      BY AgeType
    <2> QED BY <2>1, <2>2
  <1>2. ASSUME s \in Seq(Ages), Len(s) \in 1 .. MaxObs PROVE s \in Obs
    <2>1. s \in [1 .. Len(s) -> Ages]
      BY <1>2, LenProperties
    <2> QED BY <1>2, <2>1 DEF Obs
  <1> QED BY <1>1, <1>2

\* Compacting keeps the anchor, the newest observation and the cap.
LEMMA CompactKeeps ==
  ASSUME NEW s \in Seq(Ages), Len(s) \in 1 .. MaxObs + 1
  PROVE  Compact(s) \in Obs /\ Compact(s)[1] = s[1] /\ Compact(s)[Len(Compact(s))] = s[Len(s)]
  <1>1. Len(s) \in Nat /\ MaxObs \in Nat /\ MaxObs > 1
    BY LenProperties, TrainAssumption
  <1>2. CASE Len(s) <= MaxObs
    BY <1>1, <1>2, ObsAreSeqs DEF Compact
  <1>3. CASE Len(s) > MaxObs
    <2> DEFINE t == SubSeq(s, Len(s) - MaxObs + 2, Len(s))
               c == <<s[1]>> \o t
    <2>1. Len(s) = MaxObs + 1 /\ Len(s) - MaxObs + 2 = 3 /\ 3 \in Int
      BY <1>1, <1>3
    <2>2. s[1] \in Ages /\ \A i \in 3 .. Len(s) : s[i] \in Ages
      BY <1>1, ElementOfSeq
    <2>3. /\ t \in Seq(Ages) /\ Len(t) = MaxObs - 1
          /\ \A i \in 1 .. MaxObs - 1 : t[i] = s[i + 2]
      BY <1>1, <2>1, <2>2, SubSeqProperties
    <2>4. <<s[1]>> \in Seq(Ages) /\ Len(<<s[1]>>) = 1 /\ <<s[1]>>[1] = s[1]
      BY <2>2
    <2> HIDE DEF t
    <2>5. /\ c \in Seq(Ages) /\ Len(c) = MaxObs
          /\ \A i \in 1 .. MaxObs : c[i] = IF i <= 1 THEN <<s[1]>>[i] ELSE t[i - 1]
      BY <1>1, <2>3, <2>4, ConcatProperties
    <2>6. c[1] = s[1] /\ c[MaxObs] = s[MaxObs + 1]
      BY <1>1, <2>3, <2>4, <2>5
    <2>7. Compact(s) = c
      BY <1>3 DEF Compact, t
    <2> HIDE DEF c
    <2> QED BY <1>1, <2>1, <2>5, <2>6, <2>7, ObsAreSeqs
  <1> QED BY <1>1, <1>2, <1>3

\* What an observation makes of a record: a new one begins at the clock
\* reading, a continued one keeps its anchor and ends with the reading.
LEMMA ObserveType ==
  ASSUME NEW record \in SettleRecord \union {None}, NEW tuple \in Tuple, NEW now \in Ages
  PROVE  LET new == Observe(record, tuple, now) IN
         /\ new \in SettleRecord /\ new.tuple = tuple
         /\ Appends(record, tuple) => /\ record \in SettleRecord /\ record.tuple = tuple
                                      /\ new.obs[1] = record.obs[1]
                                      /\ new.obs[Len(new.obs)] = now
         /\ ~Appends(record, tuple) => new.obs[1] = now /\ Len(new.obs) = 1
  <1> DEFINE new == Observe(record, tuple, now)
  <1>1. MaxObs \in Nat /\ MaxObs > 1
    BY TrainAssumption
  <1>2. CASE Appends(record, tuple)
    <2>1. record \in SettleRecord /\ record.tuple = tuple /\ record.obs \in Obs
      BY <1>2 DEF Appends, SameTuple, SettleRecord, Obs
    <2> DEFINE old == record.obs
               s == Append(old, now)
    <2>2. old \in Seq(Ages) /\ Len(old) \in 1 .. MaxObs /\ Len(old) \in Nat
      BY <2>1, ObsAreSeqs
    <2> HIDE DEF old
    <2>3. /\ s \in Seq(Ages) /\ Len(s) = Len(old) + 1 /\ s[Len(s)] = now
          /\ s[1] = old[1]
      BY <2>2, AppendProperties
    <2>4. new = [tuple |-> tuple, obs |-> Compact(s)]
      BY <1>2 DEF Observe, old
    <2> HIDE DEF s
    <2>5. Compact(s) \in Obs /\ Compact(s)[1] = old[1] /\ Compact(s)[Len(Compact(s))] = now
      BY <1>1, <2>2, <2>3, CompactKeeps
    <2>6. new \in SettleRecord /\ new.tuple = tuple /\ new.obs = Compact(s)
      BY <2>4, <2>5 DEF SettleRecord, Obs
    <2> QED BY <1>2, <2>1, <2>5, <2>6 DEF old
  <1>3. CASE ~Appends(record, tuple)
    <2>1. new = [tuple |-> tuple, obs |-> Compact(<<now>>)]
      BY <1>3 DEF Observe
    <2>2. Compact(<<now>>) = <<now>>
      BY <1>1 DEF Compact
    <2> DEFINE s == <<now>>
    <2>3. s \in Seq(Ages) /\ Len(s) = 1 /\ s[1] = now /\ Len(s) \in 1 .. MaxObs
      BY <1>1
    <2> HIDE DEF s
    <2>4. s \in Obs
      BY <2>3, ObsAreSeqs
    <2>5. new = [tuple |-> tuple, obs |-> s]
      BY <2>1, <2>2 DEF s
    <2>6. new \in SettleRecord /\ new.tuple = tuple /\ new.obs = s
      BY <2>4, <2>5 DEF SettleRecord, Obs
    <2> QED BY <1>3, <2>3, <2>6 DEF s
  <1> QED BY <1>2, <1>3

\* Time ages every observation alike.
LEMMA OlderType == \A a \in Ages : Older(a) \in Ages /\ a <= Older(a)
  BY AgeType DEF Older, Ages

LEMMA OlderMonotone == \A a, b \in Ages : a <= b => Older(a) <= Older(b)
  BY AgeType DEF Older, Ages

LEMMA OlderRecord ==
  ASSUME NEW l \in Ledger, NEW p \in PRs
  PROVE  /\ OlderLedger(l) \in Ledger
         /\ l[p] = None => OlderLedger(l)[p] = None
         /\ l[p] # None => /\ OlderLedger(l)[p].tuple = l[p].tuple
                           /\ OlderLedger(l)[p].obs[1] = Older(l[p].obs[1])
                           /\ l[p].obs[1] \in Ages
  <1> DEFINE older(r) == [r EXCEPT !.obs = [i \in DOMAIN r.obs |-> Older(r.obs[i])]]
  <1>1. ASSUME NEW r \in SettleRecord
        PROVE  /\ older(r) \in SettleRecord /\ older(r).tuple = r.tuple
               /\ older(r).obs[1] = Older(r.obs[1]) /\ r.obs[1] \in Ages
    <2>1. PICK n \in 1 .. MaxObs : r.obs \in [1 .. n -> Ages]
      BY DEF SettleRecord
    <2> DEFINE aged == [i \in DOMAIN r.obs |-> Older(r.obs[i])]
    <2>2. aged \in [1 .. n -> Ages] /\ aged[1] = Older(r.obs[1]) /\ r.obs[1] \in Ages
      <3>1. 1 \in 1 .. n
        BY AgeType
      <3> QED BY <2>1, <3>1, OlderType
    <2>3. older(r) = [r EXCEPT !.obs = aged]
      OBVIOUS
    <2> HIDE DEF aged
    <2>4. older(r).tuple = r.tuple /\ older(r).obs = aged /\ older(r) \in [tuple : Tuple, obs : {aged}]
      BY <2>3 DEF SettleRecord
    <2>5. older(r) \in SettleRecord
      BY <2>2, <2>4 DEF SettleRecord
    <2> QED BY <2>2, <2>4, <2>5
  <1>2. \A q \in PRs : l[q] \in SettleRecord \union {None}
    BY DEF Ledger
  <1>3. \A q \in PRs : OlderLedger(l)[q] = IF l[q] = None THEN None ELSE older(l[q])
    BY DEF OlderLedger
  <1> HIDE DEF older
  <1>5. OlderLedger(l) \in Ledger
    BY <1>1, <1>2, <1>3 DEF OlderLedger, Ledger
  <1> QED BY <1>1, <1>2, <1>3, <1>5
-----------------------------------------------------------------------------
\* What the jobs, the branch and the forge are to one another.

\* A tuple that pull request p has been at: commits of a branch are new when
\* it moves, a push descends, and a force push begins a new epoch.
Past(p, t) ==
  /\ \E b \in Branches : t.base <= tip[b]
  /\ t.epoch <= pr[p].epoch
  /\ t.epoch = pr[p].epoch => t.head <= pr[p].head

\* The tuple that p is at now, as long as it is onto the trunk.
Current(p, t) == t.head = pr[p].head /\ t.epoch = pr[p].epoch /\ t.base = tip[Trunk]

Honest(p, record) ==
  record # None => /\ Past(p, record.tuple)
                   /\ Current(p, record.tuple) => record.obs[1] <= since[p]

Fetched == {"stamp", "read", "cross", "judge", "anchor", "persist"}

\* A recheck has its pull request, and behind its fetch the snapshot of it.
Placed(w) ==
  /\ pc[w] \in {"fetch", "cross", "judge", "persist", "merge"} => cur[w] # None
  /\ pc[w] \in {"idle", "snapshot", "next"} => cur[w] = None
  /\ pc[w] \in Fetched /\ cur[w] # None => snap[w][cur[w]] \in Snapshot

\* What is still as it was in a snapshot has stood still since the clock was
\* read, for the clock is read after the fetch.
Timely(w) ==
  \A p \in PRs : snap[w][p] # None =>
    /\ Past(p, snap[w][p].tuple)
    /\ pc[w] \in Stamped /\ Current(p, snap[w][p].tuple) => stamp[w] <= since[p]

\* Every check that was passed is true of the forge while nobody touches it.
Undisturbed(w) ==
  quiet[w] /\ cur[w] # None =>
    LET p == cur[w]
        s == snap[w][p]
    IN /\ pc[w] \in Fetched =>
            s.open = pr[p].open /\ s.tuple = TupleOf(p) /\ s.onto = pr[p].onto
       /\ pc[w] \in Fetched \ {"stamp"} => Passes(w)
       /\ pc[w] \in {"judge", "persist"} => s.review = pr[p].review
       /\ pc[w] = "persist" => Accepted(s.review, s.tuple.head)
       /\ pc[w] = "merge" => /\ pr[p].open /\ pr[p].head = plan[w][p] /\ pr[p].onto = Trunk
                             /\ Accepted(pr[p].review, pr[p].head)

ReadHonest(w) == \A p \in PRs : Honest(p, read[w][p])
LedgerHonest == \A p \in PRs : Honest(p, ledger[p])

Local(w) == Placed(w) /\ Timely(w) /\ Undisturbed(w) /\ ReadHonest(w)

JobType ==
  /\ pc \in [Workers -> PC]
  /\ plan \in [Workers -> [PRs -> Heads \union {None}]]
  /\ todo \in [Workers -> SUBSET PRs] /\ cur \in [Workers -> PRs \union {None}]
  /\ snap \in [Workers -> [PRs -> Snapshot \union {None}]]
  /\ stamp \in [Workers -> Ages] /\ read \in [Workers -> Ledger]
  /\ atTip \in [Workers -> BOOLEAN] /\ quiet \in [Workers -> BOOLEAN]

ForgeType ==
  /\ pr \in [PRs -> PullRequest] /\ tip \in [Branches -> Nat]
  /\ shown \in [PRs -> [Reviewers -> Opinion]] /\ since \in [PRs -> Ages]

TrainInv ==
  /\ TypeOK
  /\ LedgerHonest
  /\ \A w \in Workers : Local(w)

LEMMA TypeParts ==
  TypeOK <=> JobType /\ ForgeType /\ ledger \in Ledger /\ events \in 0 .. MaxEvents
  BY DEF TypeOK, JobType, ForgeType

LEMMA EventType ==
  ASSUME events \in 0 .. MaxEvents, Event \/ NoEvent PROVE events' \in 0 .. MaxEvents
  BY TrainAssumption DEF Event, NoEvent

LEMMA UnreadType == Unread \in Ledger /\ Unread \in [PRs -> Snapshot \union {None}]
                    /\ Unread \in [PRs -> Heads \union {None}]
                    /\ \A p \in PRs : Unread[p] = None
  BY DEF Unread, Ledger

\* What of the other jobs a job's step leaves alone.
Frame(w) ==
  \A v \in Workers \ {w} :
    /\ pc'[v] = pc[v] /\ plan'[v] = plan[v] /\ cur'[v] = cur[v] /\ snap'[v] = snap[v]
    /\ stamp'[v] = stamp[v] /\ read'[v] = read[v]

\* A job that leaves what it was doing holds nothing any more.
LEMMA LeftJob ==
  ASSUME JobType, NEW w \in Workers, NEW still \in SUBSET PRs, Abandon(w, still),
         atTip' \in [Workers -> BOOLEAN], quiet' \in [Workers -> BOOLEAN]
  PROVE  JobType' /\ Local(w)' /\ Frame(w)
  <1>1. /\ todo' = [todo EXCEPT ![w] = IF w \in Mergers THEN still ELSE {}]
        /\ cur' = [cur EXCEPT ![w] = None] /\ snap' = [snap EXCEPT ![w] = Unread]
        /\ stamp' = [stamp EXCEPT ![w] = 0] /\ read' = [read EXCEPT ![w] = Unread]
    BY DEF Abandon
  <1>2. PICK place \in {"next", "idle"} : pc' = [pc EXCEPT ![w] = place]
    BY DEF Abandon, Merging, Goto
  <1>3. plan' = plan \/ plan' = [plan EXCEPT ![w] = Unread]
    BY DEF Abandon, Merging
  <1>4. JobType'
    <2>1. pc' \in [Workers -> PC]
      BY <1>2 DEF JobType, PC
    <2>2. plan' \in [Workers -> [PRs -> Heads \union {None}]]
      BY <1>3, UnreadType DEF JobType
    <2>3. todo' \in [Workers -> SUBSET PRs] /\ cur' \in [Workers -> PRs \union {None}]
      BY <1>1 DEF JobType
    <2>4. snap' \in [Workers -> [PRs -> Snapshot \union {None}]] /\ read' \in [Workers -> Ledger]
      BY <1>1, UnreadType DEF JobType
    <2>5. stamp' \in [Workers -> Ages]
      BY <1>1, AgeType DEF JobType
    <2> QED BY <2>1, <2>2, <2>3, <2>4, <2>5 DEF JobType
  <1>5. pc'[w] = place /\ cur'[w] = None /\ snap'[w] = Unread /\ read'[w] = Unread
    BY <1>1, <1>2 DEF JobType
  <1>6. Frame(w)
    BY <1>1, <1>2, <1>3 DEF JobType, Frame
  <1>7. Local(w)'
    <2>1. Placed(w)'
      BY <1>5 DEF Placed, Fetched
    <2>2. Timely(w)' /\ ReadHonest(w)'
      BY <1>5, UnreadType DEF Timely, ReadHonest, Honest
    <2>3. Undisturbed(w)'
      BY <1>5 DEF Undisturbed
    <2> QED BY <2>1, <2>2, <2>3 DEF Local
  <1> QED BY <1>4, <1>6, <1>7

\* The other jobs stand as they stood while the forge does.
LEMMA OthersLocal ==
  ASSUME NEW w \in Workers, Frame(w), ForgeStill,
         NEW v \in Workers \ {w}, quiet'[v] = quiet[v], Local(v)
  PROVE  Local(v)'
  <1>1. /\ pc'[v] = pc[v] /\ plan'[v] = plan[v] /\ cur'[v] = cur[v] /\ snap'[v] = snap[v]
        /\ stamp'[v] = stamp[v] /\ read'[v] = read[v]
        /\ pr' = pr /\ tip' = tip /\ since' = since
    BY DEF Frame, ForgeStill, forgeVars
  <1>2. Placed(v)'
    BY <1>1 DEF Local, Placed
  <1>3. Timely(v)'
    BY <1>1 DEF Local, Timely, Past, Current
  <1>4. ReadHonest(v)'
    BY <1>1 DEF Local, ReadHonest, Honest, Past, Current
  <1>5. Undisturbed(v)'
    BY <1>1 DEF Local, Undisturbed, Passes, TupleOf
  <1> QED BY <1>2, <1>3, <1>4, <1>5 DEF Local

\* What the branch gets to hold is as honest as what it held.
Kept == ledger' \in Ledger /\ \A p \in PRs : Honest(p, ledger'[p])

LEMMA SameKept ==
  ASSUME TrainInv, ledger' = ledger PROVE Kept
  BY TypeParts DEF TrainInv, LedgerHonest, Kept

\* A job's step while the forge stands still.
LEMMA JobStepInv ==
  ASSUME TrainInv, NEW w \in Workers, ForgeStill, Kept, Event \/ NoEvent,
         JobType', Local(w)', Frame(w), \A v \in Workers \ {w} : quiet'[v] = quiet[v]
  PROVE  TrainInv'
  <1>1. ForgeType /\ ledger \in Ledger /\ events \in 0 .. MaxEvents
    BY TypeParts DEF TrainInv
  <1>2. TypeOK'
    <2>1. ForgeType' /\ ledger' \in Ledger
      BY <1>1 DEF ForgeStill, forgeVars, ForgeType, Kept
    <2>2. events' \in 0 .. MaxEvents
      BY <1>1, EventType
    <2> QED BY <2>1, <2>2, TypeParts DEF TypeOK, JobType, ForgeType
  <1>3. LedgerHonest'
    BY DEF Kept, LedgerHonest, Honest, Past, Current, ForgeStill, forgeVars
  <1>4. \A v \in Workers : Local(v)'
    BY OthersLocal DEF TrainInv
  <1> QED BY <1>2, <1>3, <1>4 DEF TrainInv

LEMMA LeaveInv ==
  ASSUME TrainInv, NEW w \in Workers, NEW still \in SUBSET PRs, Leave(w, still),
         ForgeStill, Kept, Event \/ NoEvent, atTip' \in [Workers -> BOOLEAN]
  PROVE  TrainInv'
  <1>1. JobType /\ quiet' = [quiet EXCEPT ![w] = FALSE] /\ Abandon(w, still)
    BY TypeParts DEF TrainInv, Leave
  <1>2. quiet' \in [Workers -> BOOLEAN] /\ \A v \in Workers \ {w} : quiet'[v] = quiet[v]
    BY <1>1 DEF JobType
  <1> QED BY <1>1, <1>2, LeftJob, JobStepInv
-----------------------------------------------------------------------------
LEMMA SnappedType ==
  ASSUME ForgeType, NEW p \in PRs
  PROVE  /\ TupleOf(p) \in Tuple /\ Snapped(p) \in Snapshot /\ Past(p, TupleOf(p))
         /\ Snapped(p).open = pr[p].open /\ Snapped(p).tuple = TupleOf(p)
         /\ Snapped(p).onto = pr[p].onto
  <1>1. /\ pr[p] \in PullRequest /\ pr[p].onto \in Branches /\ tip[pr[p].onto] \in Nat
        /\ shown[p] \in [Reviewers -> Opinion]
    BY DEF ForgeType, PullRequest
  <1>2. TupleOf(p) \in Tuple
    BY <1>1 DEF TupleOf, Tuple, PullRequest
  <1>3. Past(p, TupleOf(p))
    <2>1. /\ TupleOf(p).base = tip[pr[p].onto] /\ TupleOf(p).epoch = pr[p].epoch
          /\ TupleOf(p).head = pr[p].head
      BY DEF TupleOf
    <2>2. pr[p].epoch \in Nat /\ pr[p].head \in Nat
      BY <1>1, TrainAssumption DEF PullRequest
    <2> QED BY <1>1, <2>1, <2>2 DEF Past
  <1>4. Snapped(p) \in Snapshot
    BY <1>1, <1>2 DEF Snapped, Snapshot, PullRequest
  <1> QED BY <1>2, <1>3, <1>4 DEF Snapped

LEMMA StartPassInv ==
  ASSUME TrainInv, NEW w \in Workers, StartPass(w) PROVE TrainInv'
  <1> DEFINE listed == [p \in PRs |-> IF p \in Open(w) THEN pr[p].head ELSE None]
  <1>1. JobType /\ ForgeType /\ Kept
    BY TypeParts, SameKept DEF TrainInv, StartPass
  <1>2. /\ pc' = [pc EXCEPT ![w] = "snapshot"] /\ plan' = [plan EXCEPT ![w] = listed]
        /\ todo' = [todo EXCEPT ![w] = Open(w)]
        /\ UNCHANGED <<cur, snap, stamp, read, atTip, quiet>> /\ ForgeStill /\ NoEvent
        /\ pc[w] = "idle"
    BY DEF StartPass, Goto, At
  <1>3. listed \in [PRs -> Heads \union {None}] /\ Open(w) \in SUBSET PRs
    BY <1>1 DEF ForgeType, PullRequest, Open
  <1> HIDE DEF listed
  <1>4. JobType' /\ Frame(w) /\ pc'[w] = "snapshot"
    BY <1>1, <1>2, <1>3 DEF JobType, PC, Frame
  <1>5. Local(w)'
    <2>1. Local(w) /\ pr' = pr /\ tip' = tip /\ since' = since
      BY <1>2 DEF TrainInv, ForgeStill, forgeVars
    <2>2. Placed(w)' /\ Undisturbed(w)'
      BY <1>2, <1>4, <2>1 DEF Local, Placed, Fetched, Undisturbed
    <2>3. Timely(w)' /\ ReadHonest(w)'
      BY <1>2, <1>4, <2>1 DEF Local, Timely, Stamped, ReadHonest, Honest, Past, Current
    <2> QED BY <2>2, <2>3 DEF Local
  <1> QED BY <1>1, <1>2, <1>4, <1>5, JobStepInv

LEMMA TakeSnapshotInv ==
  ASSUME TrainInv, NEW w \in Workers, TakeSnapshot(w) PROVE TrainInv'
  <1>1. JobType /\ ForgeType /\ Kept /\ ForgeStill /\ pc[w] = "snapshot"
    BY TypeParts, SameKept DEF TrainInv, TakeSnapshot, At
  <1>2. PICK p \in todo[w] :
          /\ \/ snap' = [snap EXCEPT ![w][p] = IF pr[p].open THEN Snapped(p) ELSE None]
             \/ UNCHANGED snap
          /\ todo' = [todo EXCEPT ![w] = @ \ {p}]
          /\ pc' = [pc EXCEPT ![w] = IF todo[w] = {p} THEN "stamp" ELSE "snapshot"]
    BY DEF TakeSnapshot, Goto
  <1>3. UNCHANGED <<plan, cur, stamp, read, atTip, quiet>> /\ (Event \/ NoEvent)
    BY DEF TakeSnapshot
  <1>4. p \in PRs
    BY <1>1 DEF JobType
  <1>5. Snapped(p) \in Snapshot /\ Snapped(p).tuple = TupleOf(p) /\ Past(p, TupleOf(p))
    BY <1>1, <1>4, SnappedType
  <1>6. JobType'
    <2>0. snap' = snap \/ \E new \in Snapshot \union {None} : snap' = [snap EXCEPT ![w][p] = new]
      BY <1>2, <1>5
    <2>1. snap' \in [Workers -> [PRs -> Snapshot \union {None}]]
      <3>1. ASSUME NEW new \in Snapshot \union {None}, snap' = [snap EXCEPT ![w][p] = new]
            PROVE  snap' \in [Workers -> [PRs -> Snapshot \union {None}]]
        BY <1>1, <1>4, <3>1 DEF JobType
      <3> QED BY <1>1, <2>0, <3>1 DEF JobType
    <2>2. pc' \in [Workers -> PC] /\ todo' \in [Workers -> SUBSET PRs]
      BY <1>1, <1>2 DEF JobType, PC
    <2> QED BY <1>1, <1>3, <2>1, <2>2 DEF JobType
  <1>7. Frame(w)
    BY <1>1, <1>2, <1>3 DEF JobType, Frame
  <1>8. pc'[w] \in {"stamp", "snapshot"}
    BY <1>1, <1>2 DEF JobType
  <1>9. \A q \in PRs : snap'[w][q] # None => Past(q, snap'[w][q].tuple)
    <2> TAKE q \in PRs
    <2>1. \/ snap'[w][q] = snap[w][q]
          \/ snap'[w][q] = None
          \/ snap'[w][q] = Snapped(q) /\ q = p
      BY <1>1, <1>2, <1>4 DEF JobType
    <2> QED BY <1>5, <2>1 DEF TrainInv, Local, Timely
  <1>10. Local(w)'
    <2>1. Local(w) /\ pr' = pr /\ tip' = tip /\ since' = since
      BY <1>1 DEF TrainInv, ForgeStill, forgeVars
    <2>2. cur'[w] = None
      BY <1>1, <1>3, <2>1 DEF Local, Placed
    <2>3. Placed(w)' /\ Undisturbed(w)'
      BY <1>8, <2>2 DEF Placed, Fetched, Undisturbed
    <2>4. Timely(w)'
      BY <1>8, <1>9, <2>1 DEF Timely, Stamped, Past
    <2>5. ReadHonest(w)'
      BY <1>3, <2>1 DEF Local, ReadHonest, Honest, Past, Current
    <2> QED BY <2>3, <2>4, <2>5 DEF Local
  <1> QED BY <1>1, <1>3, <1>6, <1>7, <1>10, JobStepInv

\* A step that only moves a recheck on, behind one more check that it passed.
LEMMA MovesOn ==
  ASSUME TrainInv, NEW w \in Workers, NEW place \in PC, pc' = [pc EXCEPT ![w] = place],
         UNCHANGED <<plan, todo, cur, snap, stamp, read, atTip, quiet, ledger>>,
         ForgeStill, NoEvent \/ Event, Undisturbed(w)',
         pc[w] \in Stamped, place \in Stamped, cur[w] # None
  PROVE  TrainInv'
  <1>1. JobType /\ Kept
    BY TypeParts, SameKept DEF TrainInv
  <1>2. JobType' /\ Frame(w) /\ pc'[w] = place
    BY <1>1 DEF JobType, Frame
  <1>3. Local(w) /\ pr' = pr /\ tip' = tip /\ since' = since
    BY DEF TrainInv, ForgeStill, forgeVars
  <1>4. Placed(w)'
    BY <1>2, <1>3 DEF Local, Placed, Fetched, Stamped
  <1>5. Timely(w)' /\ ReadHonest(w)'
    BY <1>2, <1>3 DEF Local, Timely, ReadHonest, Honest, Past, Current
  <1> QED BY <1>1, <1>2, <1>4, <1>5, JobStepInv DEF Local

LEMMA StillType ==
  ASSUME JobType, NEW w \in Workers
  PROVE  Listed(w) \in SUBSET PRs /\ todo[w] \in SUBSET PRs
         /\ \A p : todo[w] \ {p} \in SUBSET PRs
  BY DEF JobType, Listed

LEMMA ReadClockInv ==
  ASSUME TrainInv, NEW w \in Workers, ReadClock(w) PROVE TrainInv'
  <1>1. JobType /\ ForgeType /\ Kept /\ ForgeStill /\ NoEvent /\ pc[w] = "stamp" /\ Local(w)
        /\ atTip' = atTip
    BY TypeParts, SameKept DEF TrainInv, ReadClock, At
  <1>2. CASE EndRecheck(w)
    <2>1. atTip' \in [Workers -> BOOLEAN] /\ todo[w] \ {cur[w]} \in SUBSET PRs
      BY <1>1, StillType DEF JobType
    <2> QED BY <1>1, <1>2, <2>1, LeaveInv DEF EndRecheck
  <1>3. CASE /\ cur[w] # None => Passes(w)
             /\ stamp' = [stamp EXCEPT ![w] = 0] /\ pc' = [pc EXCEPT ![w] = "read"]
             /\ UNCHANGED <<plan, todo, cur, snap, read, quiet>>
    <2>1. JobType' /\ Frame(w) /\ pc'[w] = "read" /\ stamp'[w] = 0
      BY <1>1, <1>3, AgeType DEF JobType, PC, Frame
    <2>2. pr' = pr /\ tip' = tip /\ since' = since
      BY <1>1 DEF ForgeStill, forgeVars
    <2>3. Placed(w)'
      BY <1>1, <1>3, <2>1 DEF Local, Placed, Fetched
    <2>4. Timely(w)'
      <3>1. SUFFICES ASSUME NEW p \in PRs, snap[w][p] # None
                     PROVE  Past(p, snap[w][p].tuple) /\ 0 <= since[p]
        BY <1>3, <2>1, <2>2 DEF Timely, Past
      <3>2. since[p] \in Nat
        BY <1>1, AgeType DEF ForgeType
      <3> QED BY <1>1, <3>1, <3>2 DEF Local, Timely
    <2>5. ReadHonest(w)'
      BY <1>1, <1>3, <2>2 DEF Local, ReadHonest, Honest, Past, Current
    <2>6. Undisturbed(w)'
      BY <1>1, <1>3, <2>1, <2>2 DEF Local, Undisturbed, Fetched, Passes, TupleOf
    <2>7. Local(w)' /\ \A v \in Workers \ {w} : quiet'[v] = quiet[v]
      BY <1>3, <2>3, <2>4, <2>5, <2>6 DEF Local
    <2> QED BY <1>1, <2>1, <2>7, JobStepInv
  <1> QED BY <1>2, <1>3 DEF ReadClock, Goto

LEMMA ReadLedgerInv ==
  ASSUME TrainInv, NEW w \in Workers, ReadLedger(w) PROVE TrainInv'
  <1>1. JobType /\ ForgeType /\ Kept /\ ForgeStill /\ pc[w] = "read" /\ Local(w)
        /\ (Event \/ NoEvent) /\ ledger \in Ledger /\ LedgerHonest
    BY TypeParts, SameKept DEF TrainInv, ReadLedger, At
  <1>2. CASE \E still \in SUBSET PRs : Leave(w, still) /\ UNCHANGED atTip
    BY <1>1, <1>2, LeaveInv DEF JobType
  <1>3. CASE /\ read' = [read EXCEPT ![w] = ledger] /\ atTip' = [atTip EXCEPT ![w] = TRUE]
             /\ pc' = [pc EXCEPT ![w] = IF cur[w] = None THEN "anchor" ELSE "cross"]
             /\ UNCHANGED <<plan, todo, cur, snap, stamp, quiet>>
    <2>1. JobType' /\ Frame(w) /\ read'[w] = ledger
          /\ pc'[w] = IF cur[w] = None THEN "anchor" ELSE "cross"
      BY <1>1, <1>3 DEF JobType, PC, Frame
    <2>2. pr' = pr /\ tip' = tip /\ since' = since
      BY <1>1 DEF ForgeStill, forgeVars
    <2>3. Placed(w)'
      BY <1>1, <1>3, <2>1 DEF Local, Placed, Fetched
    <2>4. Timely(w)'
      BY <1>1, <1>3, <2>1, <2>2 DEF Local, Timely, Stamped, Past, Current
    <2>5. ReadHonest(w)'
      BY <1>1, <2>1, <2>2 DEF LedgerHonest, ReadHonest, Honest, Past, Current
    <2>6. Undisturbed(w)'
      BY <1>1, <1>3, <2>1, <2>2 DEF Local, Undisturbed, Fetched, Passes, TupleOf
    <2>7. Local(w)' /\ \A v \in Workers \ {w} : quiet'[v] = quiet[v]
      BY <1>3, <2>3, <2>4, <2>5, <2>6 DEF Local
    <2> QED BY <1>1, <2>1, <2>7, JobStepInv
  <1>4. Listed(w) \in SUBSET PRs /\ todo[w] \ {cur[w]} \in SUBSET PRs
    BY <1>1, StillType
  <1> QED BY <1>2, <1>3, <1>4 DEF ReadLedger, Goto, EndObservation, EndRecheck

LEMMA PinInv ==
  ASSUME TrainInv, NEW w \in Workers, Pin(w) PROVE TrainInv'
  <1>1. JobType /\ ForgeType /\ Kept /\ ForgeStill /\ NoEvent /\ pc[w] = "next" /\ Local(w)
        /\ atTip' = atTip
    BY TypeParts, SameKept DEF TrainInv, Pin, At
  <1>2. CASE \E p : Leave(w, todo[w] \ {p})
    BY <1>1, <1>2, StillType, LeaveInv DEF JobType
  <1>3. ASSUME NEW p \in todo[w], cur' = [cur EXCEPT ![w] = p],
               quiet' = [quiet EXCEPT ![w] = TRUE], pc' = [pc EXCEPT ![w] = "fetch"],
               UNCHANGED <<plan, todo, snap, stamp, read>>
        PROVE  TrainInv'
    <2>1. p \in PRs /\ p # None
      BY <1>1, NoneAssumption DEF JobType
    <2>2. JobType' /\ Frame(w) /\ pc'[w] = "fetch" /\ cur'[w] = p
          /\ \A v \in Workers \ {w} : quiet'[v] = quiet[v]
      BY <1>1, <1>3, <2>1 DEF JobType, PC, Frame
    <2>3. pr' = pr /\ tip' = tip /\ since' = since
      BY <1>1 DEF ForgeStill, forgeVars
    <2>4. Placed(w)' /\ Undisturbed(w)'
      BY <2>1, <2>2 DEF Placed, Undisturbed, Fetched
    <2>5. Timely(w)' /\ ReadHonest(w)'
      BY <1>1, <1>3, <2>2, <2>3 DEF Local, Timely, Stamped, ReadHonest, Honest, Past, Current
    <2> QED BY <1>1, <2>2, <2>4, <2>5, JobStepInv DEF Local
  <1> QED BY <1>2, <1>3 DEF Pin, Goto

LEMMA FetchInv ==
  ASSUME TrainInv, NEW w \in Workers, Fetch(w) PROVE TrainInv'
  <1>1. JobType /\ ForgeType /\ Kept /\ ForgeStill /\ (Event \/ NoEvent) /\ pc[w] = "fetch"
        /\ Local(w) /\ atTip' = atTip
    BY TypeParts, SameKept DEF TrainInv, Fetch, At
  <1> DEFINE p == cur[w]
             new == Snapped(p)
  <1>2. p \in PRs /\ p # None
    BY <1>1 DEF Local, Placed, JobType
  <1>3. CASE EndRecheck(w)
    <2>1. atTip' \in [Workers -> BOOLEAN] /\ todo[w] \ {cur[w]} \in SUBSET PRs
      BY <1>1, StillType DEF JobType
    <2> QED BY <1>1, <1>3, <2>1, LeaveInv DEF EndRecheck
  <1>4. CASE /\ snap' = [snap EXCEPT ![w][p] = new] /\ pc' = [pc EXCEPT ![w] = "stamp"]
             /\ UNCHANGED <<plan, todo, cur, stamp, read, quiet>>
    <2>1. /\ new \in Snapshot /\ Past(p, TupleOf(p)) /\ new.open = pr[p].open
          /\ new.tuple = TupleOf(p) /\ new.onto = pr[p].onto
      BY <1>1, <1>2, SnappedType
    <2> HIDE DEF new, p
    <2>2. JobType'
      <3>1. snap' \in [Workers -> [PRs -> Snapshot \union {None}]]
        BY <1>1, <1>2, <1>4, <2>1 DEF JobType
      <3> QED BY <1>1, <1>4, <3>1 DEF JobType, PC
    <2>3. Frame(w) /\ pc'[w] = "stamp" /\ snap'[w][p] = new
          /\ \A q \in PRs : q # p => snap'[w][q] = snap[w][q]
      BY <1>1, <1>2, <1>4 DEF JobType, Frame
    <2>4. pr' = pr /\ tip' = tip /\ since' = since
      BY <1>1 DEF ForgeStill, forgeVars
    <2>5. cur'[w] = p /\ quiet' = quiet
      BY <1>4 DEF p
    <2>6. Placed(w)'
      BY <1>2, <2>1, <2>3, <2>5 DEF Placed, Fetched
    <2>7. Timely(w)'
      BY <1>1, <2>1, <2>3, <2>4 DEF Local, Timely, Stamped, Past
    <2>8. ReadHonest(w)'
      BY <1>1, <1>4, <2>4 DEF Local, ReadHonest, Honest, Past, Current
    <2>9. Undisturbed(w)'
      BY <2>1, <2>3, <2>4, <2>5 DEF Undisturbed, TupleOf
    <2> QED BY <1>1, <2>2, <2>3, <2>5, <2>6, <2>7, <2>8, <2>9, JobStepInv DEF Local
  <1> QED BY <1>3, <1>4 DEF Fetch, Goto

LEMMA RefuseInv ==
  ASSUME TrainInv, NEW w \in Workers, Refuse(w), ForgeStill, ledger' = ledger,
         Event \/ NoEvent, pc[w] \in {"cross", "judge"}
  PROVE  TrainInv'
  <1>1. JobType /\ Kept /\ Local(w) /\ cur[w] # None
    BY TypeParts, SameKept DEF TrainInv, Local, Placed
  <1>2. CASE EndRecheck(w) /\ atTip' = [atTip EXCEPT ![w] = FALSE]
    <2>1. atTip' \in [Workers -> BOOLEAN] /\ todo[w] \ {cur[w]} \in SUBSET PRs
      BY <1>1, <1>2, StillType DEF JobType
    <2> QED BY <1>1, <1>2, <2>1, LeaveInv DEF EndRecheck
  <1>3. CASE pc' = [pc EXCEPT ![w] = "anchor"]
             /\ UNCHANGED <<plan, todo, cur, snap, stamp, read, atTip, quiet>>
    <2>1. pc'[w] = "anchor" /\ pr' = pr /\ tip' = tip
      BY <1>1, <1>3 DEF JobType, ForgeStill, forgeVars
    <2>2. Undisturbed(w)'
      BY <1>1, <1>3, <2>1 DEF Local, Undisturbed, Fetched, Passes, TupleOf
    <2>3. pc[w] \in Stamped /\ "anchor" \in Stamped /\ "anchor" \in PC
      BY DEF Stamped, PC
    <2>4. UNCHANGED <<plan, todo, cur, snap, stamp, read, atTip, quiet, ledger>>
      BY <1>3
    <2> QED BY <1>1, <1>3, <2>2, <2>3, <2>4, MovesOn
  <1> QED BY <1>2, <1>3 DEF Refuse, Goto

LEMMA CrossCheckInv ==
  ASSUME TrainInv, NEW w \in Workers, CrossCheck(w) PROVE TrainInv'
  <1>1. JobType /\ ForgeStill /\ (Event \/ NoEvent) /\ pc[w] = "cross" /\ Local(w)
        /\ ledger' = ledger /\ cur[w] # None
    BY TypeParts DEF TrainInv, CrossCheck, At, Local, Placed
  <1>2. CASE Refuse(w)
    BY <1>1, <1>2, RefuseInv
  <1>3. CASE /\ Agrees(cur[w], snap[w][cur[w]]) /\ pc' = [pc EXCEPT ![w] = "judge"]
             /\ UNCHANGED <<plan, todo, cur, snap, stamp, read, atTip, quiet>>
    <2>1. pc'[w] = "judge" /\ pr' = pr /\ tip' = tip
      BY <1>1, <1>3 DEF JobType, ForgeStill, forgeVars
    <2>2. Undisturbed(w)'
      BY <1>1, <1>3, <2>1 DEF Local, Undisturbed, Fetched, Passes, TupleOf, Agrees
    <2>3. pc[w] \in Stamped /\ "judge" \in Stamped /\ "judge" \in PC
      BY <1>1 DEF Stamped, PC
    <2>4. UNCHANGED <<plan, todo, cur, snap, stamp, read, atTip, quiet, ledger>>
      BY <1>1, <1>3
    <2> QED BY <1>1, <1>3, <2>2, <2>3, <2>4, MovesOn
  <1> QED BY <1>2, <1>3 DEF CrossCheck, Goto

LEMMA JudgeInv ==
  ASSUME TrainInv, NEW w \in Workers, Judge(w) PROVE TrainInv'
  <1>1. JobType /\ ForgeStill /\ NoEvent /\ pc[w] = "judge" /\ Local(w)
        /\ ledger' = ledger /\ cur[w] # None
    BY TypeParts DEF TrainInv, Judge, At, Local, Placed
  <1>2. CASE Refuse(w)
    BY <1>1, <1>2, RefuseInv
  <1>3. CASE /\ Grants(w) /\ pc' = [pc EXCEPT ![w] = "persist"]
             /\ UNCHANGED <<plan, todo, cur, snap, stamp, read, atTip, quiet>>
    <2>1. pc'[w] = "persist" /\ pr' = pr /\ tip' = tip
          /\ Accepted(snap[w][cur[w]].review, snap[w][cur[w]].tuple.head)
      BY <1>1, <1>3 DEF JobType, ForgeStill, forgeVars, Grants
    <2>2. Undisturbed(w)'
      BY <1>1, <1>3, <2>1 DEF Local, Undisturbed, Fetched, Passes, TupleOf
    <2>3. pc[w] \in Stamped /\ "persist" \in Stamped /\ "persist" \in PC
      BY <1>1 DEF Stamped, PC
    <2>4. UNCHANGED <<plan, todo, cur, snap, stamp, read, atTip, quiet, ledger>>
      BY <1>1, <1>3
    <2> QED BY <1>1, <1>3, <2>2, <2>3, <2>4, MovesOn
  <1> QED BY <1>2, <1>3 DEF Judge, Goto
-----------------------------------------------------------------------------
\* What an observation makes of an honest record is honest: it keeps the
\* record's anchor, or begins at a clock reading taken after the fetch.
LEMMA ObservedHonest ==
  ASSUME TrainInv, NEW w \in Workers, pc[w] \in Stamped, NEW p \in PRs, snap[w][p] # None,
         NEW record \in SettleRecord \union {None}, Honest(p, record)
  PROVE  LET new == Observe(record, snap[w][p].tuple, stamp[w])
         IN new \in SettleRecord /\ Honest(p, new)
  <1> DEFINE t == snap[w][p].tuple
             new == Observe(record, t, stamp[w])
  <1>1. JobType /\ Timely(w)
    BY TypeParts DEF TrainInv, Local
  <1>2. t \in Tuple /\ stamp[w] \in Ages
    BY <1>1 DEF JobType, Snapshot
  <1>3. Past(p, t) /\ (Current(p, t) => stamp[w] <= since[p])
    BY <1>1 DEF Timely
  <1> HIDE DEF t
  <1>4. /\ new \in SettleRecord /\ new.tuple = t
        /\ Appends(record, t) => record.tuple = t /\ new.obs[1] = record.obs[1]
        /\ ~Appends(record, t) => new.obs[1] = stamp[w]
    BY <1>2, ObserveType
  <1> HIDE DEF new
  <1>5. Honest(p, new)
    <2>1. CASE Appends(record, t)
      BY <1>3, <1>4, <2>1 DEF Honest, Appends
    <2>2. CASE ~Appends(record, t)
      BY <1>3, <1>4, <2>2 DEF Honest
    <2> QED BY <2>1, <2>2
  <1> QED BY <1>4, <1>5 DEF new, t

LEMMA PublishKept ==
  ASSUME TrainInv, NEW w \in Workers, pc[w] \in {"anchor", "persist"}, Publish(w)
  PROVE  Kept
  <1>1. JobType /\ Local(w) /\ pc[w] \in Stamped /\ pc[w] \in Fetched
    BY TypeParts DEF TrainInv, Stamped, Fetched
  <1>2. \A p \in PRs : read[w][p] \in SettleRecord \union {None} /\ Honest(p, read[w][p])
    BY <1>1 DEF JobType, Ledger, Local, ReadHonest
  <1> DEFINE new(p) == Observe(read[w][p], snap[w][p].tuple, stamp[w])
             Fine(p, record) == record \in SettleRecord \union {None} /\ Honest(p, record)
  <1>3. \A p \in PRs : snap[w][p] # None => Fine(p, new(p))
    BY <1>1, <1>2, ObservedHonest
  <1>4. \A p \in PRs : Fine(p, read[w][p]) /\ Fine(p, None)
    BY <1>2 DEF Honest
  <1> HIDE DEF new
  <1>5. /\ \A p \in PRs : Fine(p, ledger'[p])
        /\ ledger' = [p \in PRs |-> ledger'[p]]
    <2>1. CASE cur[w] = None
      <3>1. ledger' = Anchored(w, read[w])
        BY <2>1 DEF Publish
      <3>2. ledger' = [p \in PRs |->
              IF p \notin Listed(w) THEN None
              ELSE IF snap[w][p] = None \/ Appends(read[w][p], snap[w][p].tuple) THEN read[w][p]
              ELSE new(p)]
        BY <3>1 DEF Anchored, new
      <3> HIDE DEF Fine
      <3>3. \A p \in PRs : ledger'[p] \in {None, read[w][p]}
                           \/ (snap[w][p] # None /\ ledger'[p] = new(p))
        BY <3>2
      <3>4. ledger' = [p \in PRs |-> ledger'[p]]
        BY <3>2
      <3> QED BY <1>3, <1>4, <3>3, <3>4
    <2>2. CASE cur[w] # None
      <3>1. cur[w] \in PRs /\ snap[w][cur[w]] # None
        BY <1>1, <2>2, NoneAssumption DEF JobType, Local, Placed
      <3>2. ledger' = [read[w] EXCEPT ![cur[w]] = new(cur[w])]
        BY <2>2 DEF Publish, Rechecked, new
      <3>3. read[w] \in Ledger
        BY <1>1 DEF JobType
      <3> HIDE DEF Fine
      <3>4. \A p \in PRs : ledger'[p] = read[w][p] \/ (p = cur[w] /\ ledger'[p] = new(p))
        BY <3>1, <3>2, <3>3 DEF Ledger
      <3>5. ledger' = [p \in PRs |-> ledger'[p]]
        BY <3>2, <3>3 DEF Ledger
      <3> QED BY <1>3, <1>4, <3>1, <3>4, <3>5
    <2> QED BY <2>1, <2>2
  <1> QED BY <1>5 DEF Kept, Ledger

LEMMA LosesKept ==
  ASSUME TrainInv, NEW w \in Workers, Loses(w)
  PROVE  Kept /\ atTip' \in [Workers -> BOOLEAN]
  BY SameKept, TypeParts DEF Loses, TrainInv, JobType

LEMMA SaveAnchorInv ==
  ASSUME TrainInv, NEW w \in Workers, SaveAnchor(w) PROVE TrainInv'
  <1>1. JobType /\ ForgeStill /\ (Event \/ NoEvent) /\ pc[w] = "anchor" 
    BY TypeParts DEF TrainInv, SaveAnchor, At
  <1>2. Kept /\ atTip' \in [Workers -> BOOLEAN]
    <2>1. CASE Publish(w)
      BY <1>1, <2>1, PublishKept DEF Publish
    <2>2. CASE Loses(w)
      BY <2>2, LosesKept
    <2> QED BY <2>1, <2>2 DEF SaveAnchor
  <1>3. \E still \in SUBSET PRs : Leave(w, still)
    BY <1>1, StillType DEF SaveAnchor, EndObservation, EndRecheck
  <1> QED BY <1>1, <1>2, <1>3, LeaveInv

LEMMA SaveVerdictInv ==
  ASSUME TrainInv, NEW w \in Workers, SaveVerdict(w) PROVE TrainInv'
  <1>1. JobType /\ ForgeStill /\ (Event \/ NoEvent) /\ pc[w] = "persist" /\ Local(w)
    BY TypeParts DEF TrainInv, SaveVerdict, At
  <1>2. Kept /\ atTip' \in [Workers -> BOOLEAN]
    <2>1. CASE Publish(w)
      BY <1>1, <2>1, PublishKept DEF Publish
    <2>2. CASE Loses(w)
      BY <2>2, LosesKept
    <2> QED BY <2>1, <2>2 DEF SaveVerdict
  <1>3. CASE EndRecheck(w)
    <2>1. todo[w] \ {cur[w]} \in SUBSET PRs
      BY <1>1, StillType
    <2> QED BY <1>1, <1>2, <1>3, <2>1, LeaveInv DEF EndRecheck
  <1>4. CASE /\ pc' = [pc EXCEPT ![w] = "merge"]
             /\ snap' = [snap EXCEPT ![w] = Unread] /\ read' = [read EXCEPT ![w] = Unread]
             /\ stamp' = [stamp EXCEPT ![w] = 0]
             /\ UNCHANGED <<plan, todo, cur, quiet>>
    <2>1. JobType'
      <3>1. pc' \in [Workers -> PC] /\ stamp' \in [Workers -> Ages]
        BY <1>1, <1>4, AgeType DEF JobType, PC
      <3>2. snap' \in [Workers -> [PRs -> Snapshot \union {None}]] /\ read' \in [Workers -> Ledger]
        BY <1>1, <1>4, UnreadType DEF JobType
      <3> QED BY <1>1, <1>2, <1>4, <3>1, <3>2 DEF JobType
    <2>2. Frame(w) /\ pc'[w] = "merge" /\ snap'[w] = Unread /\ read'[w] = Unread
      BY <1>1, <1>4 DEF JobType, Frame
    <2>3. pr' = pr /\ tip' = tip
      BY <1>1 DEF ForgeStill, forgeVars
    <2>4. Placed(w)'
      BY <1>1, <1>4, <2>2 DEF Local, Placed, Fetched
    <2>5. Timely(w)' /\ ReadHonest(w)'
      BY <2>2, UnreadType DEF Timely, ReadHonest, Honest
    <2>6. Undisturbed(w)'
      BY <1>1, <1>4, <2>2, <2>3 DEF Local, Undisturbed, Fetched, Passes, TupleOf
    <2> QED BY <1>1, <1>2, <1>4, <2>1, <2>2, <2>4, <2>5, <2>6, JobStepInv DEF Local
  <1> QED BY <1>3, <1>4 DEF SaveVerdict, Goto
-----------------------------------------------------------------------------
\* The forge only moves on: a branch to a newer commit, a pull request to a
\* descendant or to a new epoch.  Whatever a pull request's age forgets is a
\* tuple that the pull request can never be at again.
Drift ==
  /\ \A b \in Branches : tip[b] <= tip'[b]
  /\ \A p \in PRs :
       /\ pr[p].epoch <= pr'[p].epoch
       /\ pr'[p].epoch = pr[p].epoch => pr[p].head <= pr'[p].head
       /\ \/ /\ since'[p] = since[p] /\ tip'[Trunk] = tip[Trunk]
             /\ pr'[p].head = pr[p].head /\ pr'[p].epoch = pr[p].epoch
          \/ pr'[p].epoch > pr[p].epoch
          \/ pr'[p].head > pr[p].head
          \/ \A b \in Branches : tip'[Trunk] > tip[b]

LEMMA DriftHonest ==
  ASSUME ForgeType, ForgeType', Drift, NEW p \in PRs, NEW t \in Tuple, Past(p, t)
  PROVE  /\ Past(p, t)'
         /\ Current(p, t)' => Current(p, t) /\ since'[p] = since[p]
  <1>1. /\ t.base \in Nat /\ t.epoch \in Nat /\ t.head \in Nat
        /\ pr[p].epoch \in Nat /\ pr'[p].epoch \in Nat
        /\ pr[p].head \in Nat /\ pr'[p].head \in Nat
        /\ \A b \in Branches : tip[b] \in Nat /\ tip'[b] \in Nat
    BY TrainAssumption DEF Tuple, ForgeType, PullRequest
  <1>2. Past(p, t)'
    <2>1. PICK b \in Branches : t.base <= tip[b]
      BY DEF Past
    <2>2. t.base <= tip'[b]
      BY <1>1, <2>1 DEF Drift
    <2>3. t.epoch <= pr'[p].epoch
      BY <1>1 DEF Drift, Past
    <2>4. t.epoch = pr'[p].epoch => t.head <= pr'[p].head
      BY <1>1 DEF Drift, Past
    <2> QED BY <2>2, <2>3, <2>4 DEF Past
  <1>3. ASSUME Current(p, t)' PROVE Current(p, t) /\ since'[p] = since[p]
    <2>1. t.head = pr'[p].head /\ t.epoch = pr'[p].epoch /\ t.base = tip'[Trunk]
      BY <1>3 DEF Current
    <2>2. pr'[p].epoch = pr[p].epoch
      BY <1>1, <2>1 DEF Past, Drift
    <2>3. ~(pr'[p].head > pr[p].head)
      BY <1>1, <2>1, <2>2 DEF Past
    <2>4. ~\A b \in Branches : tip'[Trunk] > tip[b]
      <3>1. PICK b \in Branches : t.base <= tip[b]
        BY DEF Past
      <3>2. Trunk \in Branches
        BY DEF Branches
      <3> QED BY <1>1, <2>1, <3>1, <3>2
    <2>5. ~(pr'[p].epoch > pr[p].epoch)
      BY <1>1, <2>2
    <2>6. /\ since'[p] = since[p] /\ tip'[Trunk] = tip[Trunk]
          /\ pr'[p].head = pr[p].head /\ pr'[p].epoch = pr[p].epoch
      BY <2>3, <2>4, <2>5 DEF Drift
    <2> QED BY <2>1, <2>6 DEF Current
  <1> QED BY <1>2, <1>3

LEMMA DriftRecord ==
  ASSUME ForgeType, ForgeType', Drift, NEW p \in PRs, NEW record \in SettleRecord \union {None},
         Honest(p, record)
  PROVE  Honest(p, record)'
  <1>1. SUFFICES ASSUME record # None
                 PROVE  /\ Past(p, record.tuple)'
                        /\ Current(p, record.tuple)' => record.obs[1] <= since'[p]
    BY DEF Honest
  <1>2. record.tuple \in Tuple /\ Past(p, record.tuple)
        /\ (Current(p, record.tuple) => record.obs[1] <= since[p])
    BY <1>1 DEF SettleRecord, Honest
  <1> QED BY <1>2, DriftHonest

\* A job that the forge's step leaves alone: what it holds stays in time, and
\* if it is still undisturbed, so is its pull request.
LEMMA DriftLocal ==
  ASSUME JobType, ForgeType, ForgeType', Drift, NEW v \in Workers, Local(v),
         pc'[v] = pc[v], plan'[v] = plan[v], cur'[v] = cur[v], snap'[v] = snap[v],
         stamp'[v] = stamp[v], read'[v] = read[v],
         quiet'[v] /\ cur[v] # None =>
           /\ quiet[v] /\ pr'[cur[v]] = pr[cur[v]]
           /\ tip'[pr[cur[v]].onto] = tip[pr[cur[v]].onto]
  PROVE  Local(v)'
  <1>1. Placed(v)'
    BY DEF Local, Placed
  <1>2. Timely(v)'
    <2>1. SUFFICES ASSUME NEW p \in PRs, snap[v][p] # None
                   PROVE  /\ Past(p, snap[v][p].tuple)'
                          /\ pc[v] \in Stamped /\ Current(p, snap[v][p].tuple)' =>
                               stamp[v] <= since'[p]
      BY DEF Timely
    <2>2. PICK t \in Tuple : t = snap[v][p].tuple
      BY <2>1 DEF JobType, Snapshot
    <2>3. Past(p, t) /\ (pc[v] \in Stamped /\ Current(p, t) => stamp[v] <= since[p])
      BY <2>1, <2>2 DEF Local, Timely
    <2>4. Past(p, t)' /\ (Current(p, t)' => Current(p, t) /\ since'[p] = since[p])
      BY <2>3, DriftHonest
    <2>5. snap'[v][p].tuple = t
      BY <2>2
    <2> QED BY <2>3, <2>4, <2>5 DEF Past, Current
  <1>3. ReadHonest(v)'
    <2>1. ASSUME NEW p \in PRs PROVE Honest(p, read[v][p])'
      <3>1. read[v][p] \in SettleRecord \union {None} /\ Honest(p, read[v][p])
        BY DEF JobType, Ledger, Local, ReadHonest
      <3> QED BY <3>1, DriftRecord
    <2> QED BY <2>1 DEF ReadHonest
  <1>4. Undisturbed(v)'
    <2>1. SUFFICES ASSUME quiet'[v], cur[v] # None PROVE Undisturbed(v)'
      BY DEF Undisturbed
    <2>2. /\ quiet[v] /\ pr'[cur[v]] = pr[cur[v]] /\ TupleOf(cur[v])' = TupleOf(cur[v])
          /\ Passes(v)' = Passes(v)
      BY <2>1 DEF TupleOf, Passes
    <2> QED BY <2>1, <2>2 DEF Local, Undisturbed
  <1> QED BY <1>1, <1>2, <1>3, <1>4 DEF Local

LEMMA ForgeMovesInv ==
  ASSUME TrainInv, OnlyForge, Event, ForgeType', Drift, quiet' \in [Workers -> BOOLEAN],
         \A v \in Workers : quiet'[v] /\ cur[v] # None =>
           /\ quiet[v] /\ pr'[cur[v]] = pr[cur[v]]
           /\ tip'[pr[cur[v]].onto] = tip[pr[cur[v]].onto]
  PROVE  TrainInv'
  <1>1. JobType /\ ForgeType /\ ledger \in Ledger /\ events \in 0 .. MaxEvents
    BY TypeParts DEF TrainInv
  <1>2. UNCHANGED <<ledger, pc, plan, todo, cur, snap, stamp, read, atTip>>
    BY DEF OnlyForge, jobVars
  <1>3. TypeOK'
    <2>1. JobType' /\ ledger' \in Ledger
      BY <1>1, <1>2 DEF JobType
    <2>2. events' \in 0 .. MaxEvents
      BY <1>1, EventType
    <2> QED BY <2>1, <2>2, TypeParts DEF TypeOK, JobType, ForgeType
  <1>4. LedgerHonest'
    <2>1. ASSUME NEW p \in PRs PROVE Honest(p, ledger[p])'
      <3>1. ledger[p] \in SettleRecord \union {None} /\ Honest(p, ledger[p])
        BY <1>1 DEF Ledger, TrainInv, LedgerHonest
      <3>2. ledger'[p] = ledger[p]
        BY <1>2
      <3> QED BY <1>1, <3>1, <3>2, DriftRecord
    <2> QED BY <2>1 DEF LedgerHonest
  <1>5. ASSUME NEW v \in Workers PROVE Local(v)'
    BY <1>1, <1>2, DriftLocal DEF TrainInv
  <1> QED BY <1>3, <1>4, <1>5 DEF TrainInv

\* People change one pull request: its head, in its epoch or in a new one, or
\* what does not bear on the ledger.
LEMMA OneMovesInv ==
  ASSUME TrainInv, OnlyForge, Event, NEW p \in PRs, Touched({p}), UNCHANGED tip,
         NEW new \in PullRequest, pr' = [pr EXCEPT ![p] = new],
         \/ /\ since' = since
            /\ new.head = pr[p].head /\ new.epoch = pr[p].epoch
         \/ /\ since' = [since EXCEPT ![p] = 0]
            /\ \/ new.head > pr[p].head /\ new.epoch = pr[p].epoch
               \/ new.epoch = pr[p].epoch + 1
  PROVE  TrainInv'
  <1>1. JobType /\ ForgeType
    BY TypeParts DEF TrainInv
  <1>2. /\ pr'[p] = new /\ \A q \in PRs : q # p => pr'[q] = pr[q] /\ since'[q] = since[q]
        /\ \A q \in PRs : pr[q].head \in Nat /\ pr[q].epoch \in Nat
        /\ new.head \in Nat /\ new.epoch \in Nat
    BY <1>1, TrainAssumption DEF ForgeType, PullRequest
  <1>3. ForgeType'
    <2>1. pr' \in [PRs -> PullRequest] /\ since' \in [PRs -> Ages]
      BY <1>1, AgeType DEF ForgeType
    <2> QED BY <1>1, <2>1 DEF ForgeType, OnlyForge
  <1>4. Drift
    <2>1. \A b \in Branches : tip[b] <= tip'[b]
      BY <1>1 DEF ForgeType
    <2>2. ASSUME NEW q \in PRs
          PROVE  /\ pr[q].epoch <= pr'[q].epoch
                 /\ pr'[q].epoch = pr[q].epoch => pr[q].head <= pr'[q].head
                 /\ \/ /\ since'[q] = since[q] /\ tip'[Trunk] = tip[Trunk]
                       /\ pr'[q].head = pr[q].head /\ pr'[q].epoch = pr[q].epoch
                    \/ pr'[q].epoch > pr[q].epoch
                    \/ pr'[q].head > pr[q].head
      <3>1. CASE q # p
        BY <1>2, <3>1
      <3>2. CASE q = p
        BY <1>2, <3>2
      <3> QED BY <3>1, <3>2
    <2> QED BY <2>1, <2>2 DEF Drift
  <1>5. quiet' \in [Workers -> BOOLEAN]
        /\ \A v \in Workers : quiet'[v] => quiet[v] /\ cur[v] # p
    BY <1>1 DEF Touched, JobType
  <1>6. \A v \in Workers : quiet'[v] /\ cur[v] # None =>
           /\ quiet[v] /\ pr'[cur[v]] = pr[cur[v]]
           /\ tip'[pr[cur[v]].onto] = tip[pr[cur[v]].onto]
    BY <1>1, <1>2, <1>5 DEF JobType
  <1> QED BY <1>3, <1>4, <1>5, <1>6, ForgeMovesInv

LEMMA PeopleInv ==
  ASSUME TrainInv, NEW p \in PRs,
         \/ \E h \in Heads : Push(p, h)
         \/ \E r \in Reviewers, o \in Opinion : Review(p, r, o)
         \/ GiveAllClear(p)
         \/ \E b \in Branches : Retarget(p, b)
  PROVE  TrainInv'
  <1>1. /\ pr \in [PRs -> PullRequest] /\ pr[p] \in PullRequest
        /\ pr[p].epoch \in Nat /\ pr[p].head \in Heads /\ pr[p].review \in [Reviewers -> Opinion]
    BY TypeParts DEF TrainInv, ForgeType, PullRequest
  <1>2. ASSUME NEW h \in Heads, Push(p, h) PROVE TrainInv'
    <2>1. PICK forced \in BOOLEAN :
            /\ forced \/ h > pr[p].head
            /\ pr' = [pr EXCEPT ![p].head = h, ![p].epoch = @ + (IF forced THEN 1 ELSE 0)]
      BY <1>2 DEF Push
    <2> DEFINE up == pr[p].epoch + (IF forced THEN 1 ELSE 0)
               new == [pr[p] EXCEPT !.head = h, !.epoch = up]
    <2>2. pr' = [pr EXCEPT ![p] = new]
      BY <1>1, <2>1
    <2>3. up \in Nat /\ up = pr[p].epoch + (IF forced THEN 1 ELSE 0)
      BY <1>1
    <2> HIDE DEF up
    <2>4. new \in PullRequest /\ new.head = h /\ new.epoch = up
      BY <1>1, <2>3 DEF PullRequest
    <2> HIDE DEF new
    <2>5. (new.head > pr[p].head /\ new.epoch = pr[p].epoch) \/ new.epoch = pr[p].epoch + 1
      BY <1>1, <2>1, <2>3, <2>4
    <2>6. /\ OnlyForge /\ Event /\ Touched({p}) /\ UNCHANGED tip
          /\ since' = [since EXCEPT ![p] = 0]
      BY <1>2 DEF Push
    <2> QED BY <2>2, <2>4, <2>5, <2>6, OneMovesInv
  <1>3. ASSUME NEW r \in Reviewers, NEW o \in Opinion, Review(p, r, o) PROVE TrainInv'
    <2> DEFINE new == [pr[p] EXCEPT !.review[r] = o, !.clear = FALSE]
    <2>1. pr' = [pr EXCEPT ![p] = new]
      BY <1>1, <1>3 DEF Review
    <2>2. new \in PullRequest /\ new.head = pr[p].head /\ new.epoch = pr[p].epoch
      <3>1. new = [pr[p] EXCEPT !.review = [pr[p].review EXCEPT ![r] = o], !.clear = FALSE]
        BY <1>1 DEF PullRequest
      <3>2. [pr[p].review EXCEPT ![r] = o] \in [Reviewers -> Opinion]
        BY <1>1
      <3> QED BY <1>1, <3>1, <3>2 DEF PullRequest
    <2>3. OnlyForge /\ Event /\ Touched({p}) /\ UNCHANGED <<tip, since>>
      BY <1>3 DEF Review
    <2> HIDE DEF new
    <2> QED BY <2>1, <2>2, <2>3, OneMovesInv
  <1>4. CASE GiveAllClear(p)
    <2> DEFINE new == [pr[p] EXCEPT !.clear = TRUE]
    <2>1. pr' = [pr EXCEPT ![p] = new]
      BY <1>1, <1>4 DEF GiveAllClear
    <2>2. new \in PullRequest /\ new.head = pr[p].head /\ new.epoch = pr[p].epoch
      BY <1>1 DEF PullRequest
    <2>3. OnlyForge /\ Event /\ Touched({p}) /\ UNCHANGED <<tip, since>>
      BY <1>4 DEF GiveAllClear
    <2> HIDE DEF new
    <2> QED BY <2>1, <2>2, <2>3, OneMovesInv
  <1>5. ASSUME NEW b \in Branches, Retarget(p, b) PROVE TrainInv'
    <2> DEFINE new == [pr[p] EXCEPT !.onto = b]
    <2>1. pr' = [pr EXCEPT ![p] = new]
      BY <1>1, <1>5 DEF Retarget
    <2>2. new \in PullRequest /\ new.head = pr[p].head /\ new.epoch = pr[p].epoch
      BY <1>1 DEF PullRequest
    <2>3. OnlyForge /\ Event /\ Touched({p}) /\ UNCHANGED <<tip, since>>
      BY <1>5 DEF Retarget
    <2> HIDE DEF new
    <2> QED BY <2>1, <2>2, <2>3, OneMovesInv
  <1> QED BY <1>2, <1>3, <1>4, <1>5

\* The tip of a branch that moves is newer than any commit there was.
LEMMA AdvanceDrift ==
  ASSUME ForgeType, NEW b \in Branches, Advance(b), pr' \in [PRs -> PullRequest],
         \A p \in PRs : pr'[p].head = pr[p].head /\ pr'[p].epoch = pr[p].epoch,
         UNCHANGED shown
  PROVE  ForgeType' /\ Drift /\ \A c \in Branches : c # b => tip'[c] = tip[c]
  <1> DEFINE tips == {tip[c] : c \in Branches}
  <1>1. /\ tips \in SUBSET Nat /\ tip[Trunk] \in tips /\ tip[Elsewhere] \in tips
        /\ \A n \in tips : n = tip[Trunk] \/ n = tip[Elsewhere]
    BY DEF ForgeType, Branches
  <1> HIDE DEF tips
  <1>2. \E m \in tips : \A n \in tips : m >= n
    <2>1. tip[Trunk] \in Nat /\ tip[Elsewhere] \in Nat
      BY <1>1
    <2>2. tip[Trunk] >= tip[Elsewhere] => \A n \in tips : tip[Trunk] >= n
      BY <1>1, <2>1
    <2>3. ~(tip[Trunk] >= tip[Elsewhere]) => \A n \in tips : tip[Elsewhere] >= n
      BY <1>1, <2>1
    <2> QED BY <1>1, <2>2, <2>3
  <1>3. Max(tips) \in tips /\ \A n \in tips : Max(tips) >= n
    BY <1>2 DEF Max
  <1> DEFINE most == Max(tips)
  <1>4. tip' = [tip EXCEPT ![b] = 1 + most] /\ most \in Nat
        /\ \A c \in Branches : tip[c] \in Nat /\ most >= tip[c]
    BY <1>1, <1>3 DEF Advance, ForgeType, tips
  <1> HIDE DEF most
  <1>5. /\ tip' \in [Branches -> Nat] /\ tip'[b] = 1 + most
        /\ \A c \in Branches : c # b => tip'[c] = tip[c]
    BY <1>4 DEF ForgeType
  <1>6. since' \in [PRs -> Ages] /\ (b # Trunk => since' = since)
    BY AgeType DEF Advance, ForgeType
  <1>7. ForgeType'
    BY <1>5, <1>6 DEF ForgeType
  <1>8. Drift
    <2>1. \A c \in Branches : tip[c] <= tip'[c]
      BY <1>4, <1>5
    <2>2. \A p \in PRs : pr[p].epoch \in Nat /\ pr[p].head \in Nat
      BY TrainAssumption DEF ForgeType, PullRequest
    <2>3. CASE b = Trunk
      <3>1. \A c \in Branches : tip'[Trunk] > tip[c]
        BY <1>4, <1>5, <2>3
      <3> QED BY <2>1, <2>2, <3>1 DEF Drift
    <2>4. CASE b # Trunk
      <3>1. tip'[Trunk] = tip[Trunk]
        BY <1>5, <2>4 DEF Branches
      <3> QED BY <1>6, <2>1, <2>2, <2>4, <3>1 DEF Drift
    <2> QED BY <2>3, <2>4
  <1> QED BY <1>5, <1>7, <1>8

LEMMA TrunkMovesInv ==
  ASSUME TrainInv, TrunkMoves PROVE TrainInv'
  <1>1. JobType /\ ForgeType /\ pr' = pr /\ Trunk \in Branches /\ OnlyForge /\ Event
        /\ shown' = shown
    BY TypeParts DEF TrainInv, TrunkMoves, Branches, OnlyForge
  <1>2. ForgeType' /\ Drift /\ \A c \in Branches : c # Trunk => tip'[c] = tip[c]
    BY <1>1, AdvanceDrift DEF TrunkMoves, ForgeType
  <1>3. quiet' \in [Workers -> BOOLEAN]
        /\ \A v \in Workers : quiet'[v] => quiet[v] /\ cur[v] \notin Onto(Trunk)
    BY <1>1 DEF TrunkMoves, Touched, JobType
  <1>4. ASSUME NEW v \in Workers, quiet'[v], cur[v] # None
        PROVE  /\ quiet[v] /\ pr'[cur[v]] = pr[cur[v]]
               /\ tip'[pr[cur[v]].onto] = tip[pr[cur[v]].onto]
    <2>1. cur[v] \in PRs /\ pr[cur[v]].onto \in Branches
      BY <1>1, <1>4 DEF JobType, ForgeType, PullRequest
    <2>2. pr[cur[v]].onto # Trunk
      BY <1>3, <1>4, <2>1 DEF Onto
    <2> QED BY <1>1, <1>2, <1>3, <1>4, <2>1, <2>2
  <1> QED BY <1>1, <1>2, <1>3, <1>4, ForgeMovesInv

LEMMA MergeInv ==
  ASSUME TrainInv, NEW w \in Workers, Merge(w) PROVE TrainInv'
  <1> DEFINE p == cur[w]
             b == pr[p].onto
  <1>1. JobType /\ ForgeType /\ Local(w) /\ pc[w] = "merge" /\ ledger \in Ledger
        /\ events \in 0 .. MaxEvents /\ UNCHANGED <<shown, ledger, atTip>>
    BY TypeParts DEF TrainInv, Merge, At
  <1>2. p \in PRs /\ todo[w] \ {p} \in SUBSET PRs /\ todo[w] \in SUBSET PRs
    BY <1>1, StillType DEF Local, Placed, JobType
  <1>3. CASE UNCHANGED forgeVars /\ (Event \/ NoEvent)
             /\ \E still \in SUBSET PRs : Leave(w, still)
    BY <1>1, <1>3, SameKept, LeaveInv DEF JobType, ForgeStill
  <1>4. CASE /\ pr' = [pr EXCEPT ![p].open = FALSE] /\ Advance(b) /\ NoEvent
             /\ Abandon(w, todo[w] \ {p})
             /\ quiet' = [v \in Workers |-> v # w /\ quiet[v] /\ cur[v] \notin Onto(b)]
    <2>1. b \in Branches /\ p \in Onto(b)
      BY <1>1, <1>2 DEF ForgeType, PullRequest, Onto
    <2>2. /\ pr' \in [PRs -> PullRequest]
          /\ \A q \in PRs : pr'[q].head = pr[q].head /\ pr'[q].epoch = pr[q].epoch
          /\ \A q \in PRs : q # p => pr'[q] = pr[q]
      <3> DEFINE new == [pr[p] EXCEPT !.open = FALSE]
      <3>1. pr' = [pr EXCEPT ![p] = new]
        BY <1>4
      <3>2. new \in PullRequest /\ new.head = pr[p].head /\ new.epoch = pr[p].epoch
        <4>1. pr[p] \in PullRequest
          BY <1>1, <1>2 DEF ForgeType
        <4> HIDE DEF p
        <4> QED BY <4>1 DEF PullRequest
      <3> HIDE DEF new, p
      <3> QED BY <1>1, <1>2, <3>1, <3>2 DEF ForgeType
    <2> HIDE DEF p, b
    <2>3. ForgeType' /\ Drift /\ \A c \in Branches : c # b => tip'[c] = tip[c]
      BY <1>1, <1>4, <2>1, <2>2, AdvanceDrift
    <2>4. quiet' \in [Workers -> BOOLEAN]
          /\ \A v \in Workers : quiet'[v] => v # w /\ quiet[v] /\ cur[v] \notin Onto(b)
      BY <1>1, <1>4 DEF JobType
    <2>5. JobType' /\ Local(w)' /\ Frame(w)
      BY <1>1, <1>2, <1>4, <2>4, LeftJob DEF JobType
    <2>6. ASSUME NEW v \in Workers, v # w PROVE Local(v)'
      <3>1. Local(v) /\ quiet'[v] \in BOOLEAN
        BY <2>4, <2>6 DEF TrainInv
      <3>2. ASSUME quiet'[v], cur[v] # None
            PROVE  /\ quiet[v] /\ pr'[cur[v]] = pr[cur[v]]
                   /\ tip'[pr[cur[v]].onto] = tip[pr[cur[v]].onto]
        <4>1. cur[v] \in PRs /\ pr[cur[v]].onto \in Branches
          BY <1>1, <3>2 DEF JobType, ForgeType, PullRequest
        <4>2. pr[cur[v]].onto # b /\ cur[v] # p
          BY <2>1, <2>4, <3>2, <4>1 DEF Onto
        <4> QED BY <2>2, <2>3, <2>4, <3>2, <4>1, <4>2
      <3> QED BY <1>1, <2>3, <2>5, <2>6, <3>1, <3>2, DriftLocal DEF Frame
    <2>7. LedgerHonest'
      <3>1. ASSUME NEW q \in PRs PROVE Honest(q, ledger[q])'
        <4>1. ledger[q] \in SettleRecord \union {None} /\ Honest(q, ledger[q])
          BY <1>1 DEF Ledger, TrainInv, LedgerHonest
        <4>2. ledger'[q] = ledger[q]
          BY <1>1
        <4> QED BY <1>1, <2>3, <4>1, <4>2, DriftRecord
      <3> QED BY <3>1 DEF LedgerHonest
    <2>8. TypeOK'
      <3>1. ledger' \in Ledger /\ events' \in 0 .. MaxEvents
        BY <1>1, <1>4 DEF NoEvent
      <3> QED BY <2>3, <2>5, <3>1, TypeParts DEF TypeOK, JobType, ForgeType
    <2> QED BY <2>5, <2>6, <2>7, <2>8 DEF TrainInv
  <1> QED BY <1>2, <1>3, <1>4 DEF Merge, EndRecheck

\* The GraphQL side and the clock.
LEMMA CatchUpInv ==
  ASSUME TrainInv, NEW p \in PRs, CatchUp(p) PROVE TrainInv'
  <1>1. /\ UNCHANGED <<pr, tip, since, ledger, pc, plan, todo, cur, snap, stamp, read, atTip,
                      quiet, events>>
        /\ shown' = [shown EXCEPT ![p] = pr[p].review]
    BY DEF CatchUp, forgeVars, jobVars
  <1>2. TypeOK'
    <2>1. shown' \in [PRs -> [Reviewers -> Opinion]]
      BY <1>1, TypeParts DEF TrainInv, ForgeType, PullRequest
    <2> QED BY <1>1, <2>1 DEF TrainInv, TypeOK
  <1>3. LedgerHonest'
    BY <1>1 DEF TrainInv, LedgerHonest, Honest, Past, Current
  <1>4. \A v \in Workers : Local(v)'
    BY <1>1, SMTT(60) DEF TrainInv, Local, Placed, Timely, Undisturbed, Passes, TupleOf, ReadHonest,
                Honest, Past, Current
  <1> QED BY <1>2, <1>3, <1>4 DEF TrainInv

LEMMA TickInv ==
  ASSUME TrainInv, Tick PROVE TrainInv'
  <1>1. JobType /\ ForgeType /\ ledger \in Ledger /\ LedgerHonest /\ \A v \in Workers : Local(v)
    BY TypeParts DEF TrainInv
  <1>2. /\ since' = [p \in PRs |-> Older(since[p])]
        /\ ledger' = OlderLedger(ledger)
        /\ read' = [w \in Workers |-> OlderLedger(read[w])]
        /\ stamp' = [w \in Workers |-> IF pc[w] \in Stamped THEN Older(stamp[w]) ELSE 0]
        /\ UNCHANGED <<pr, tip, shown, pc, plan, todo, cur, snap, atTip, quiet, events>>
    BY DEF Tick
  <1>3. \A v \in Workers : read[v] \in Ledger /\ stamp[v] \in Ages
    BY <1>1 DEF JobType
  <1>4. \A p \in PRs : since[p] \in Ages
    BY <1>1 DEF ForgeType
  <1>5. TypeOK'
    <2>1. since' \in [PRs -> Ages] /\ stamp' \in [Workers -> Ages]
      BY <1>2, <1>3, <1>4, OlderType, AgeType
    <2>2. ledger' \in Ledger /\ \A v \in Workers : OlderLedger(read[v]) \in Ledger
      <3>1. CASE \E p : p \in PRs
        BY <1>1, <1>2, <1>3, <3>1, OlderRecord
      <3>2. CASE ~\E p : p \in PRs
        BY <1>2, <3>2 DEF OlderLedger, Ledger
      <3> QED BY <3>1, <3>2
    <2>3. read' \in [Workers -> Ledger]
      BY <1>2, <2>2
    <2> QED BY <1>2, <2>1, <2>2, <2>3 DEF TypeOK, TrainInv
  <1>6. ASSUME NEW l \in Ledger, NEW p \in PRs, Honest(p, l[p])
        PROVE  Honest(p, OlderLedger(l)[p])'
    <2> DEFINE record == OlderLedger(l)[p]
    <2>1. SUFFICES ASSUME record # None
                   PROVE  /\ Past(p, record.tuple)
                          /\ Current(p, record.tuple) => record.obs[1] <= since'[p]
      BY <1>2 DEF Honest, Past, Current, OlderLedger, Older
    <2>2. /\ l[p] # None /\ record.tuple = l[p].tuple
          /\ record.obs[1] = Older(l[p].obs[1]) /\ l[p].obs[1] \in Ages
      BY <2>1, OlderRecord
    <2> HIDE DEF record
    <2>3. Past(p, l[p].tuple) /\ (Current(p, l[p].tuple) => l[p].obs[1] <= since[p])
      BY <1>6, <2>2 DEF Honest
    <2>4. since'[p] = Older(since[p])
      BY <1>2
    <2> QED BY <1>4, <2>2, <2>3, <2>4, OlderMonotone
  <1>7. LedgerHonest'
    BY <1>1, <1>2, <1>6 DEF LedgerHonest
  <1>8. ASSUME NEW v \in Workers PROVE Local(v)'
    <2>1. Placed(v)' /\ Undisturbed(v)'
      BY <1>1, <1>2 DEF Local, Placed, Undisturbed, Passes, TupleOf
    <2>2. ReadHonest(v)'
      <3>1. read'[v] = OlderLedger(read[v])
        BY <1>2
      <3>2. ASSUME NEW p \in PRs PROVE Honest(p, read[v][p])'
        <4>1. Honest(p, read[v][p])
          BY <1>1 DEF Local, ReadHonest
        <4> QED BY <1>3, <1>6, <3>1, <4>1
      <3> QED BY <3>2 DEF ReadHonest
    <2>3. Timely(v)'
      <3>1. SUFFICES ASSUME NEW p \in PRs, snap[v][p] # None
                     PROVE  /\ Past(p, snap[v][p].tuple)
                            /\ pc[v] \in Stamped /\ Current(p, snap[v][p].tuple) =>
                                 stamp'[v] <= since'[p]
        BY <1>2 DEF Timely, Past, Current
      <3>2. /\ Past(p, snap[v][p].tuple)
            /\ pc[v] \in Stamped /\ Current(p, snap[v][p].tuple) => stamp[v] <= since[p]
        BY <1>1, <3>1 DEF Local, Timely
      <3>3. since'[p] = Older(since[p]) /\ (pc[v] \in Stamped => stamp'[v] = Older(stamp[v]))
        BY <1>2
      <3> QED BY <1>3, <1>4, <3>2, <3>3, OlderMonotone
    <2> QED BY <2>1, <2>2, <2>3 DEF Local
  <1> QED BY <1>5, <1>7, <1>8 DEF TrainInv
-----------------------------------------------------------------------------
LEMMA InitTrainInv == Init => TrainInv
  <1> SUFFICES ASSUME Init PROVE TrainInv
    OBVIOUS
  <1>1. PICK h \in Heads, given \in [PRs -> [Reviewers -> Opinion]] :
          /\ pr = [p \in PRs |-> [open |-> TRUE, head |-> h, epoch |-> 0, onto |-> Trunk,
                                  review |-> given[p], clear |-> FALSE]]
          /\ shown = given
    BY DEF Init
  <1>2. /\ tip = [b \in Branches |-> 0] /\ ledger = Unread /\ since = [p \in PRs |-> 0]
        /\ pc = [w \in Workers |-> "idle"] /\ plan = [w \in Workers |-> Unread]
        /\ todo = [w \in Workers |-> {}] /\ cur = [w \in Workers |-> None]
        /\ snap = [w \in Workers |-> Unread] /\ stamp = [w \in Workers |-> 0]
        /\ read = [w \in Workers |-> Unread] /\ atTip = [w \in Workers |-> FALSE]
        /\ quiet = [w \in Workers |-> FALSE] /\ events = 0
    BY DEF Init
  <1>3. ForgeType
    <2>1. pr \in [PRs -> PullRequest]
      BY <1>1 DEF PullRequest, Branches
    <2> QED BY <1>1, <1>2, <2>1, AgeType DEF ForgeType
  <1>4. JobType /\ ledger \in Ledger
    BY <1>2, UnreadType, AgeType DEF JobType, PC
  <1>5. TypeOK
    BY <1>2, <1>3, <1>4, TypeParts, TrainAssumption
  <1>6. LedgerHonest
    BY <1>2, UnreadType DEF LedgerHonest, Honest
  <1>7. ASSUME NEW w \in Workers PROVE Local(w)
    <2>1. /\ pc[w] = "idle" /\ cur[w] = None /\ snap[w] = Unread /\ read[w] = Unread
          /\ quiet[w] = FALSE
      BY <1>2
    <2> QED BY <2>1, UnreadType DEF Local, Placed, Fetched, Timely, Undisturbed, ReadHonest, Honest
  <1> QED BY <1>5, <1>6, <1>7 DEF TrainInv

LEMMA StepTrainInv ==
  ASSUME TrainInv, [Next]_vars PROVE TrainInv'
  <1>1. ASSUME NEW w \in Workers, Step(w) PROVE TrainInv'
    BY <1>1, StartPassInv, TakeSnapshotInv, ReadClockInv, ReadLedgerInv, PinInv, FetchInv,
       CrossCheckInv, JudgeInv, SaveAnchorInv, SaveVerdictInv, MergeInv DEF Step
  <1>2. CASE Others
    BY <1>2, PeopleInv, TrunkMovesInv DEF Others
  <1>3. CASE UNCHANGED vars
    <2>1. UNCHANGED <<pr, tip, since, shown, ledger, pc, plan, todo, cur, snap, stamp, read,
                      atTip, quiet, events>>
      BY <1>3 DEF vars, forgeVars, jobVars
    <2>2. TypeOK'
      BY <2>1 DEF TrainInv, TypeOK
    <2>3. LedgerHonest'
      BY <2>1 DEF TrainInv, LedgerHonest, Honest, Past, Current
    <2>4. \A v \in Workers : Local(v)'
      BY <2>1 DEF TrainInv, Local, Placed, Timely, Undisturbed, Passes, TupleOf, ReadHonest,
                  Honest, Past, Current
    <2> QED BY <2>2, <2>3, <2>4 DEF TrainInv
  <1> QED BY <1>1, <1>2, <1>3, CatchUpInv, TickInv DEF Next

\* The invariant behind the three theorems that follow: what the branch and
\* every job's copy of it say of the present code is honest, and every check a
\* recheck has passed is true of the forge while nobody touches it.
THEOREM TrainInvariance == Spec => []TrainInv
  <1> QED BY InitTrainInv, StepTrainInv, PTL DEF Spec

\* The ledger and what the jobs hold have their types.
THEOREM TrainTypes == Spec => []TypeOK
  <1>1. TrainInv => TypeOK
    BY DEF TrainInv
  <1> QED BY <1>1, TrainInvariance, PTL

\* A settle record (settle-state.ts observeWithChange) never says that a pull
\* request's present code has stood longer than it has: with any number of
\* jobs that write late, lose the push, or hold a snapshot of an older commit.
THEOREM AnchorsHonest == Spec => []AnchorHonest
  <1>1. ASSUME TrainInv PROVE AnchorHonest
    <2> SUFFICES ASSUME NEW p \in PRs, ledger[p] # None, ledger[p].tuple = TupleOf(p),
                        pr[p].onto = Trunk
                 PROVE  ledger[p].obs[1] <= since[p]
      BY DEF AnchorHonest
    <2>1. Current(p, ledger[p].tuple)
      BY DEF Current, TupleOf
    <2> QED BY <1>1, <2>1 DEF TrainInv, LedgerHonest, Honest
  <1> QED BY <1>1, TrainInvariance, PTL

\* A verdict (merge-recheck.ts recheckBeforeMerge) that nobody disturbed since
\* the base was pinned is true of the forge itself when the merge is called.
THEOREM VerdictSound == Spec => []MergeSound
  <1>1. ASSUME TrainInv PROVE MergeSound
    <2> SUFFICES ASSUME NEW w \in Workers, pc[w] = "merge", quiet[w]
                 PROVE  LET p == cur[w]
                        IN /\ pr[p].open /\ pr[p].head = plan[w][p] /\ pr[p].onto = Trunk
                           /\ [state |-> "approved", at |-> pr[p].head] \in Range(pr[p].review)
                           /\ ~\E r \in Reviewers, h \in Heads :
                                 pr[p].review[r] = [state |-> "changes", at |-> h]
      BY DEF MergeSound
    <2> DEFINE p == cur[w]
    <2>1. JobType /\ ForgeType /\ Local(w)
      BY <1>1, TypeParts DEF TrainInv
    <2>2. p \in PRs /\ p # None
      BY <2>1 DEF JobType, Local, Placed
    <2>3. /\ pr[p].open /\ pr[p].head = plan[w][p] /\ pr[p].onto = Trunk
          /\ Accepted(pr[p].review, pr[p].head)
      BY <2>1, <2>2 DEF Local, Undisturbed
    <2> HIDE DEF p
    <2>4. pr[p].review \in [Reviewers -> Opinion]
      BY <2>1, <2>2 DEF ForgeType, PullRequest
    <2>5. [state |-> "approved", at |-> pr[p].head] \in Range(pr[p].review)
      BY <2>3, <2>4 DEF Accepted, Range
    <2>6. ASSUME NEW r \in Reviewers, NEW h \in Heads,
                 pr[p].review[r] = [state |-> "changes", at |-> h]
          PROVE  FALSE
      <3>1. [state |-> "changes", at |-> h] # None
        BY NoneAssumption
      <3>2. pr[p].review[r].state = "changes"
        BY <2>6
      <3> QED BY <2>3, <2>6, <3>1, <3>2 DEF Accepted
    <2> QED BY <2>3, <2>5, <2>6 DEF p
  <1> QED BY <1>1, TrainInvariance, PTL

\* A job's step moves no other job.
LEMMA StepMovesOne ==
  ASSUME NEW w \in Workers, Step(w) PROVE \E to : pc' = [pc EXCEPT ![w] = to]
  <1> USE DEF Goto
  <1>1. ASSUME NEW still, Leave(w, still) \/ Abandon(w, still)
        PROVE  \E to : pc' = [pc EXCEPT ![w] = to]
    BY <1>1 DEF Leave, Abandon, Merging
  <1> USE DEF EndRecheck, EndObservation
  <1>2. Refuse(w) => \E to : pc' = [pc EXCEPT ![w] = to]
    BY <1>1 DEF Refuse
  <1>3. StartPass(w) \/ TakeSnapshot(w) \/ ReadClock(w) \/ ReadLedger(w) \/ Pin(w) \/ Fetch(w)
          => \E to : pc' = [pc EXCEPT ![w] = to]
    BY <1>1 DEF StartPass, TakeSnapshot, ReadClock, ReadLedger, Pin, Fetch
  <1>4. CrossCheck(w) \/ Judge(w) => \E to : pc' = [pc EXCEPT ![w] = to]
    BY <1>2 DEF CrossCheck, Judge
  <1>5. SaveAnchor(w) \/ SaveVerdict(w) \/ Merge(w) => \E to : pc' = [pc EXCEPT ![w] = to]
    BY <1>1 DEF SaveAnchor, SaveVerdict, Merge
  <1> QED BY <1>3, <1>4, <1>5 DEF Step

\* A grant without an all-clear (settleStatus on the observed ledger) is given
\* only to code that had stood still for the settle window when the clock was
\* read, if nobody touched the pull request during the recheck.
THEOREM GrantsSettled == Spec => GrantSettled
  <1> DEFINE Still(w) == \/ since[cur[w]] - stamp[w] >= Settle
                         \/ AllClear(snap[w][cur[w]])
             Grant == \A w \in Workers : pc[w] = "judge" /\ pc'[w] = "persist" /\ quiet[w] =>
                        Still(w)
  <1>1. ASSUME TrainInv, NEW w \in Workers, Grants(w), pc[w] = "judge", quiet[w]
        PROVE  Still(w)
    <2> DEFINE p == cur[w]
               t == snap[w][p].tuple
               record == Observe(read[w][p], t, stamp[w])
    <2>1. JobType /\ ForgeType /\ Local(w)
      BY <1>1, TypeParts DEF TrainInv
    <2>2. p \in PRs /\ p # None /\ snap[w][p] \in Snapshot
      BY <1>1, <2>1 DEF JobType, Local, Placed, Fetched
    <2>3. t \in Tuple /\ stamp[w] \in Ages /\ since[p] \in Ages
          /\ read[w][p] \in SettleRecord \union {None} /\ Honest(p, read[w][p])
      BY <2>1, <2>2 DEF JobType, ForgeType, Snapshot, Ledger, Local, ReadHonest
    <2>4. Current(p, t)
      <3>1. t = TupleOf(p) /\ pr[p].onto = Trunk
        BY <1>1, <2>1, <2>2 DEF Local, Undisturbed, Fetched, Passes
      <3> HIDE DEF t
      <3> QED BY <3>1 DEF Current, TupleOf
    <2>5. Rechecked(w, read[w])[p] = record
      BY <2>1, <2>2 DEF Rechecked, JobType, Ledger
    <2>6. Settled(record, stamp[w]) \/ AllClear(snap[w][p])
      BY <1>1, <2>5 DEF Grants
    <2>7. ASSUME Settled(record, stamp[w]) PROVE since[p] - stamp[w] >= Settle
      <3>1. Len(record.obs) > 1 /\ record.obs[1] - record.obs[Len(record.obs)] >= Settle
        BY <2>7 DEF Settled
      <3> HIDE DEF t
      <3>2. /\ record \in SettleRecord
            /\ Appends(read[w][p], t) => /\ read[w][p] \in SettleRecord /\ read[w][p].tuple = t
                                         /\ record.obs[1] = read[w][p].obs[1]
                                         /\ record.obs[Len(record.obs)] = stamp[w]
            /\ ~Appends(read[w][p], t) => Len(record.obs) = 1
        BY <2>3, ObserveType
      <3> HIDE DEF record
      <3>3. Appends(read[w][p], t)
        BY <3>1, <3>2
      <3>4. record.obs[1] <= since[p] /\ record.obs[1] \in Nat
        <4>1. record.obs \in Seq(Ages) /\ Len(record.obs) \in 1 .. MaxObs
          BY <3>2, ObsAreSeqs DEF SettleRecord, Obs
        <4>2. record.obs[1] \in Ages
          BY <3>1, <4>1, ElementOfSeq, AgeType
        <4>3. read[w][p] # None /\ record.obs[1] <= since[p]
          BY <2>3, <2>4, <3>2, <3>3 DEF Appends, Honest
        <4> QED BY <4>2, <4>3, AgeType
      <3>5. stamp[w] \in Nat /\ since[p] \in Nat /\ Settle \in Nat
        BY <2>3, AgeType, TrainAssumption
      <3> QED BY <3>1, <3>2, <3>3, <3>4, <3>5
    <2> QED BY <2>6, <2>7
  <1>2. ASSUME TrainInv, [Next]_vars PROVE Grant
    <2> SUFFICES ASSUME NEW w \in Workers, pc[w] = "judge", pc'[w] = "persist", quiet[w]
                 PROVE  Still(w)
      OBVIOUS
    <2>1. pc \in [Workers -> PC]
      BY <1>2, TypeParts DEF TrainInv, JobType
    <2>2. PICK v \in Workers : Step(v)
      BY <1>2 DEF Next, Others, Push, Review, GiveAllClear, Retarget, TrunkMoves, OnlyForge,
                  CatchUp, Tick, jobVars, vars
    <2>3. v = w
      BY <2>1, <2>2, StepMovesOne
    <2>4. Judge(w)
      BY <2>2, <2>3 DEF Step, StartPass, TakeSnapshot, ReadClock, ReadLedger, Pin, Fetch,
                        CrossCheck, SaveAnchor, SaveVerdict, Merge, At
    <2>5. Grants(w)
      <3>1. ~Refuse(w)
        BY <2>1 DEF Refuse, EndRecheck, Leave, Abandon, Merging, Goto
      <3> QED BY <2>4, <3>1 DEF Judge
    <2> QED BY <1>1, <1>2, <2>5
  <1>3. TrainInv /\ [Next]_vars => [Grant]_vars
    BY <1>2
  <1> QED BY <1>3, TrainInvariance, PTL DEF Spec, GrantSettled
===============================================================================
