------------------------- MODULE NonceLedgerProofs -------------------------
(***************************************************************************)
(* Proofs about NonceLedger for every set of processes and nonces.  The    *)
(* exclusion and the refusal of a torn file hold on every file system; that *)
(* a grant is single and durable needs one where syncing a new file keeps  *)
(* its directory entry.                                                    *)
(***************************************************************************)
EXTENDS NonceLedger, TLAPS

(* What the process in the section knows of the file and of its nonce:     *)
(* nobody was granted it, and no line but its own can be incomplete.       *)
Progress ==
  \A p \in Procs :
    /\ pc[p] \in {"open", "write", "sync", "syncDir"} => grants[nonce[p]] = 0
    /\ pc[p] = "open" => torn = {}
    /\ pc[p] = "write" => torn \subseteq {nonce[p]} /\ exists
    /\ pc[p] = "sync" => nonce[p] \in lines /\ exists
    /\ pc[p] = "syncDir" => nonce[p] \in synced /\ exists
    /\ pc[p] = "release" /\ result[p] = "consumed" =>
         nonce[p] \in synced /\ entry /\ grants[nonce[p]] = 0

EntryOfFile == entry => exists

IInv == TypeOK /\ SectionExclusive /\ Progress /\ EntryOfFile /\ GrantedOnce /\ GrantDurable
-----------------------------------------------------------------------------
USE NonceAssumption
USE DEF Goto, Answer, Leave, file, instance, Section, PC, InSection

(* No process, no file and no grant to begin with. *)
LEMMA InitIInv == Init => IInv
<1> SUFFICES ASSUME Init PROVE IInv
  OBVIOUS
<1>1. TypeOK
  BY DEF Init, TypeOK
<1>2. SectionExclusive /\ Progress /\ EntryOfFile
  BY DEF Init, SectionExclusive, Progress, EntryOfFile
<1>3. GrantedOnce /\ GrantDurable
  BY DEF Init, GrantedOnce, GrantDurable
<1> QED
  BY <1>1, <1>2, <1>3 DEF IInv

(* Every step keeps the types. *)
LEMMA TypeStep == TypeOK /\ [Next]_vars => TypeOK'
<1> SUFFICES ASSUME TypeOK, [Next]_vars PROVE TypeOK'
  OBVIOUS
<1> USE DEF TypeOK
<1>1. ASSUME NEW p \in Procs, Start(p) PROVE TypeOK'
  BY <1>1 DEF Start
<1>2. ASSUME NEW p \in Procs, NEW n \in Nonces, Consume(p, n) PROVE TypeOK'
  BY <1>2 DEF Consume
<1>3. ASSUME NEW p \in Procs, TakeLock(p) \/ LockUnavailable(p) PROVE TypeOK'
  BY <1>3 DEF TakeLock, LockUnavailable
<1>4. ASSUME NEW p \in Procs, Absorb(p) \/ Inspect(p) PROVE TypeOK'
  BY <1>4 DEF Absorb, Inspect, ReadFile
<1>5. ASSUME NEW p \in Procs, Open(p) \/ AppendFails(p) \/ SyncDirFails(p) \/ Die(p) PROVE TypeOK'
  BY <1>5 DEF Open, AppendFails, SyncDirFails, Die
<1>6. ASSUME NEW p \in Procs, WritePart(p) PROVE TypeOK'
  BY <1>6 DEF WritePart
<1>7. ASSUME NEW p \in Procs, WriteAll(p) PROVE TypeOK'
  BY <1>7 DEF WriteAll
<1>8. ASSUME NEW p \in Procs, Sync(p) PROVE TypeOK'
  BY <1>8 DEF Sync
<1>9. ASSUME NEW p \in Procs, SyncDir(p) PROVE TypeOK'
  BY <1>9 DEF SyncDir
<1>10. ASSUME NEW p \in Procs, Release(p) PROVE TypeOK'
  <2>1. grants' \in [Nonces -> Nat]
    BY <1>10 DEF Release
  <2>2. result' \in [Procs -> {"none", "consumed", "spent", "failed"}]
    BY <1>10 DEF Release
  <2> QED
    BY <1>10, <2>1, <2>2 DEF Release
<1>11. CASE MachineDies
  BY <1>11 DEF MachineDies
<1>12. CASE OperatorUnlocks
  BY <1>12 DEF OperatorUnlocks
<1>13. CASE UNCHANGED vars
  BY <1>13 DEF vars
<1> QED
  BY <1>1, <1>2, <1>3, <1>4, <1>5, <1>6, <1>7, <1>8, <1>9, <1>10, <1>11, <1>12, <1>13
     DEF Next, Step

(* The lock directory serialises the sections: it is removed only by the   *)
(* process in the section, or when no process runs.                        *)
LEMMA ExclusionStep == TypeOK /\ SectionExclusive /\ [Next]_vars => SectionExclusive'
<1> SUFFICES ASSUME TypeOK, SectionExclusive, [Next]_vars PROVE SectionExclusive'
  OBVIOUS
<1> USE DEF TypeOK, SectionExclusive
<1>1. ASSUME NEW p \in Procs,
             Start(p) \/ LockUnavailable(p) \/ Inspect(p) \/ WritePart(p) \/ Die(p)
               \/ \E n \in Nonces : Consume(p, n)
      PROVE  SectionExclusive'
  BY <1>1 DEF Start, LockUnavailable, Inspect, WritePart, Die, Consume
<1>2. ASSUME NEW p \in Procs, TakeLock(p) PROVE SectionExclusive'
  BY <1>2 DEF TakeLock
<1>3. ASSUME NEW p \in Procs,
             Absorb(p) \/ Open(p) \/ WriteAll(p) \/ AppendFails(p) \/ Sync(p)
               \/ SyncDir(p) \/ SyncDirFails(p)
      PROVE  SectionExclusive'
  BY <1>3 DEF Absorb, Open, WriteAll, AppendFails, Sync, SyncDir, SyncDirFails
<1>4. ASSUME NEW p \in Procs, Release(p) PROVE SectionExclusive'
  BY <1>4 DEF Release
<1>5. CASE MachineDies \/ OperatorUnlocks
  BY <1>5 DEF MachineDies, OperatorUnlocks
<1>6. CASE UNCHANGED vars
  BY <1>6 DEF vars
<1> QED
  BY <1>1, <1>2, <1>3, <1>4, <1>5, <1>6 DEF Next, Step

(* The rest of the invariant is kept: the process in the section is the    *)
(* only one that writes, so what it has read of the file stays true.       *)
LEMMA Inductive ==
  ASSUME SyncKeepsEntry, IInv, [Next]_vars
  PROVE  IInv'
<1>0. TypeOK' /\ SectionExclusive'
  BY TypeStep, ExclusionStep DEF IInv
<1> DEFINE Rest == Progress /\ EntryOfFile /\ GrantedOnce /\ GrantDurable
<1> USE DEF IInv, TypeOK, SectionExclusive, Progress, EntryOfFile, GrantedOnce, GrantDurable
<1>1. ASSUME NEW p \in Procs,
             Start(p) \/ Inspect(p) \/ TakeLock(p) \/ LockUnavailable(p) \/ Die(p)
               \/ \E n \in Nonces : Consume(p, n)
      PROVE  Rest'
  BY <1>1 DEF Start, Inspect, TakeLock, LockUnavailable, Die, Consume
<1>2. ASSUME NEW p \in Procs, Absorb(p) PROVE Rest'
  BY <1>2 DEF Absorb, ReadFile
<1>3. ASSUME NEW p \in Procs, Open(p) PROVE Rest'
  BY <1>3 DEF Open
<1>4. ASSUME NEW p \in Procs, WritePart(p) PROVE Rest'
  BY <1>4 DEF WritePart
<1>5. ASSUME NEW p \in Procs, WriteAll(p) PROVE Rest'
  BY <1>5 DEF WriteAll
<1>6. ASSUME NEW p \in Procs, AppendFails(p) \/ SyncDirFails(p) PROVE Rest'
  BY <1>6 DEF AppendFails, SyncDirFails
<1>7. ASSUME NEW p \in Procs, Sync(p) PROVE Rest'
  BY <1>7 DEF Sync
<1>8. ASSUME NEW p \in Procs, SyncDir(p) PROVE Rest'
  BY <1>8 DEF SyncDir
<1>9. ASSUME NEW p \in Procs, Release(p) PROVE Rest'
  BY <1>9 DEF Release
<1>10. ASSUME MachineDies PROVE Rest'
  BY <1>10 DEF MachineDies
<1>11. ASSUME OperatorUnlocks PROVE Rest'
  BY <1>11 DEF OperatorUnlocks
<1>12. ASSUME UNCHANGED vars PROVE Rest'
  BY <1>12 DEF vars
<1>13. Rest'
  BY <1>1, <1>2, <1>3, <1>4, <1>5, <1>6, <1>7, <1>8, <1>9, <1>10, <1>11, <1>12
     DEF Next, Step
<1> HIDE DEF TypeOK, SectionExclusive, Progress, EntryOfFile, GrantedOnce, GrantDurable
<1> QED
  BY <1>0, <1>13
-----------------------------------------------------------------------------
(* The append lock gives exclusion, whatever the file system keeps.        *)
THEOREM Exclusion == Spec => [](TypeOK /\ SectionExclusive)
<1>1. Init => TypeOK /\ SectionExclusive
  BY InitIInv DEF IInv
<1>2. TypeOK /\ SectionExclusive /\ [Next]_vars => TypeOK' /\ SectionExclusive'
  BY TypeStep, ExclusionStep
<1> QED
  BY <1>1, <1>2, PTL DEF Spec

(* consume: a token is granted at most once, over any number of processes, *)
(* deaths, crashes, short writes and left-behind locks.                    *)
THEOREM SingleUse ==
  ASSUME SyncKeepsEntry
  PROVE  Spec => []GrantedOnce
<1>1. Init => IInv
  BY InitIInv
<1>2. IInv /\ [Next]_vars => IInv'
  BY Inductive
<1>3. IInv => GrantedOnce
  BY DEF IInv
<1> QED
  BY <1>1, <1>2, <1>3, PTL DEF Spec

(* consume: what was granted is on the disk, its line and the file's entry *)
(* both, so a resumed process reads it.                                    *)
THEOREM DurableGrants ==
  ASSUME SyncKeepsEntry
  PROVE  Spec => []GrantDurable
<1>1. Init => IInv
  BY InitIInv
<1>2. IInv /\ [Next]_vars => IInv'
  BY Inductive
<1>3. IInv => GrantDurable
  BY DEF IInv
<1> QED
  BY <1>1, <1>2, <1>3, PTL DEF Spec
-----------------------------------------------------------------------------
(* What the process in the section appends to has nothing torn in it but   *)
(* the beginning of its own line, and nothing at all once that is out.     *)
Clean ==
  \A p \in Procs :
    /\ pc[p] \in {"open", "sync", "syncDir"} => torn = {}
    /\ pc[p] = "write" => torn \subseteq {nonce[p]}
    /\ pc[p] = "release" /\ result[p] = "consumed" => torn = {}

LEMMA CleanStep ==
  ASSUME TypeOK, SectionExclusive, Clean, [Next]_vars PROVE Clean'
<1> USE DEF TypeOK, SectionExclusive, Clean
<1>1. ASSUME NEW p \in Procs,
             Start(p) \/ Inspect(p) \/ TakeLock(p) \/ LockUnavailable(p) \/ Die(p)
               \/ \E n \in Nonces : Consume(p, n)
      PROVE  Clean'
  BY <1>1 DEF Start, Inspect, TakeLock, LockUnavailable, Die, Consume
<1>2. ASSUME NEW p \in Procs, Absorb(p) \/ Open(p) \/ WritePart(p) PROVE Clean'
  BY <1>2 DEF Absorb, Open, WritePart
<1>3. ASSUME NEW p \in Procs, WriteAll(p) PROVE Clean'
  BY <1>3 DEF WriteAll
<1>4. ASSUME NEW p \in Procs,
             AppendFails(p) \/ Sync(p) \/ SyncDir(p) \/ SyncDirFails(p) \/ Release(p)
      PROVE  Clean'
  BY <1>4 DEF AppendFails, Sync, SyncDir, SyncDirFails, Release
<1>5. CASE MachineDies \/ OperatorUnlocks
  BY <1>5 DEF MachineDies, OperatorUnlocks
<1>6. CASE UNCHANGED vars
  BY <1>6 DEF vars
<1> QED
  BY <1>1, <1>2, <1>3, <1>4, <1>5, <1>6 DEF Next, Step

(* absorb's refusal of a torn or fused record: no consume is answered      *)
(* "consumed" over one, on any file system, after any crash.               *)
THEOREM NeverOverTorn == Spec => FailClosed
<1>1. Init => Clean
  BY DEF Init, Clean
<1>2. TypeOK /\ SectionExclusive /\ Clean /\ [Next]_vars => Clean'
  BY CleanStep
<1>3. TypeOK /\ Clean /\ [Next]_vars => [torn # {} => grants' = grants]_vars
  <2> SUFFICES ASSUME TypeOK, Clean, [Next]_vars, torn # {} PROVE grants' = grants
    OBVIOUS
  <2>1. ASSUME NEW p \in Procs, Release(p) PROVE grants' = grants
    BY <2>1 DEF Release, Clean
  <2> QED
    BY <2>1 DEF Next, Step, Start, Inspect, WritePart, Die, Consume, TakeLock, LockUnavailable,
                Absorb, Open, WriteAll, AppendFails, Sync, SyncDir, SyncDirFails, MachineDies,
                OperatorUnlocks, vars
<1> QED
  BY <1>1, <1>2, <1>3, Exclusion, PTL DEF Spec, FailClosed
=============================================================================
