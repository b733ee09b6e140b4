----------------------------- MODULE NonceLedger -----------------------------
(***************************************************************************)
(* The durable ledger of spent approval nonces: makeFileNonceLedger in     *)
(* src/src/adapters/store/nonceLedger.ts.                                  *)
(*                                                                         *)
(* One append-only file, one nonce per line, shared by processes that       *)
(* serialise on a lock directory.  The lock never expires.  What is told    *)
(* apart of the file is which nonces have a whole line, which lines are     *)
(* not whole (torn), and what of it is on the disk.                        *)
(***************************************************************************)
EXTENDS Naturals

CONSTANTS
  Procs,          \* processes, one ledger instance each
  Nonces,         \* approval nonces, all well-formed
  NoNonce,        \* no call under way
  SyncKeepsEntry  \* fdatasync of a new file also keeps its directory entry:
                  \* true of the usual local file systems, not of POSIX

ASSUME NonceAssumption == NoNonce \notin Nonces /\ SyncKeepsEntry \in BOOLEAN

VARIABLES
  pc,         \* where each process is in its consume
  nonce,      \* the nonce it consumes
  known,      \* the instance's set of nonces it has read or spent
  dirSynced,  \* the instance believes the directory entry durable
  result,     \* what its consume will answer once the lock is given back
  locked,     \* the lock directory exists
  exists,     \* the ledger file exists
  entry,      \* its directory entry is on the disk
  lines,      \* nonces with a whole line in the file
  synced,     \* those of them that are on the disk
  torn,       \* nonces whose line is incomplete, or fused with another's
  grants      \* history: how many consumes of a nonce answered "consumed"

vars == <<pc, nonce, known, dirSynced, result, locked, exists, entry, lines,
          synced, torn, grants>>

Section == {"absorb", "open", "write", "sync", "syncDir", "release"}
PC == {"down", "idle", "lock"} \union Section

TypeOK ==
  /\ pc \in [Procs -> PC]
  /\ nonce \in [Procs -> Nonces \union {NoNonce}]
  /\ \A p \in Procs : pc[p] \notin {"down", "idle"} => nonce[p] # NoNonce
  /\ known \in [Procs -> SUBSET Nonces]
  /\ dirSynced \in [Procs -> BOOLEAN]
  /\ result \in [Procs -> {"none", "consumed", "spent", "failed"}]
  /\ locked \in BOOLEAN /\ exists \in BOOLEAN /\ entry \in BOOLEAN
  /\ lines \subseteq Nonces /\ synced \subseteq lines /\ torn \subseteq Nonces
  /\ grants \in [Nonces -> Nat]

Init ==
  /\ pc = [p \in Procs |-> "down"]
  /\ nonce = [p \in Procs |-> NoNonce]
  /\ known = [p \in Procs |-> {}]
  /\ dirSynced = [p \in Procs |-> FALSE]
  /\ result = [p \in Procs |-> "none"]
  /\ locked = FALSE /\ exists = FALSE /\ entry = FALSE
  /\ lines = {} /\ synced = {} /\ torn = {}
  /\ grants = [n \in Nonces |-> 0]

Goto(p, to) == pc' = [pc EXCEPT ![p] = to]
Answer(p, r) == result' = [result EXCEPT ![p] = r]
(* The section is over: give the lock back, then answer r. *)
Leave(p, r) == Goto(p, "release") /\ Answer(p, r)

file == <<exists, entry, lines, synced, torn>>
instance == <<nonce, known, dirSynced>>
-----------------------------------------------------------------------------
(* A process makes its ledger instance. *)
Start(p) ==
  /\ pc[p] = "down" /\ Goto(p, "idle")
  /\ known' = [known EXCEPT ![p] = {}]
  /\ dirSynced' = [dirSynced EXCEPT ![p] = exists]
  /\ UNCHANGED <<nonce, result, locked, file, grants>>

(* A call; a malformed nonce is refused before the ledger is touched.      *)
Consume(p, n) ==
  /\ pc[p] = "idle" /\ Goto(p, "lock")
  /\ nonce' = [nonce EXCEPT ![p] = n]
  /\ Answer(p, "none")
  /\ UNCHANGED <<known, dirSynced, locked, file, grants>>

(* mkdir of the lock directory is exclusive, whatever its age. *)
TakeLock(p) ==
  /\ pc[p] = "lock" /\ ~locked /\ Goto(p, "absorb")
  /\ locked' = TRUE
  /\ UNCHANGED <<instance, result, file, grants>>

(* Broken variants of a definition stand before it, named after it.  They  *)
(* are not part of the specification: each is a bug some property catches. *)
LockUnavailable_Never(p) ==
  /\ FALSE
  /\ UNCHANGED vars

(* Ten attempts found it taken, or mkdir failed otherwise. *)
LockUnavailable(p) ==
  /\ pc[p] = "lock" /\ Goto(p, "idle")
  /\ Answer(p, "failed")
  /\ UNCHANGED <<instance, locked, file, grants>>

Absorb_AcceptsAnything(p) ==
  /\ pc[p] = "absorb"
  /\ known' = [known EXCEPT ![p] = @ \union lines]
  /\ IF nonce[p] \in known'[p] THEN Leave(p, "spent")
                               ELSE Goto(p, "open") /\ UNCHANGED result
  /\ UNCHANGED <<nonce, dirSynced, locked, file, grants>>

Absorb_Cached(p) ==
  /\ pc[p] = "absorb"
  /\ IF torn # {} THEN Leave(p, "failed")
     ELSE IF nonce[p] \in known[p] THEN Leave(p, "spent")
                                   ELSE Goto(p, "open") /\ UNCHANGED result
  /\ UNCHANGED <<instance, locked, file, grants>>

(* Reading the file into the instance's set.  A record that is not a whole *)
(* nonce, or an unterminated tail, makes it throw: what stood before it    *)
(* (a tail that only lacks its newline included) has been added by then.   *)
ReadFile(p) ==
  \E read \in SUBSET (lines \union torn) :
    /\ torn = {} => read = lines
    /\ known' = [known EXCEPT ![p] = @ \union read]

(* spent() and isSpent(): a look at the file that takes no lock.           *)
Inspect(p) ==
  /\ pc[p] \in {"idle", "lock"} /\ ReadFile(p)
  /\ UNCHANGED <<pc, nonce, dirSynced, result, locked, file, grants>>

(* absorb and the spent verdict, on a fresh read. *)
Absorb(p) ==
  /\ pc[p] = "absorb" /\ ReadFile(p)
  /\ \/ torn # {} /\ Leave(p, "failed")
     \/ torn = {} /\ nonce[p] \in known'[p] /\ Leave(p, "spent")
     \/ torn = {} /\ nonce[p] \notin known'[p] /\ Goto(p, "open") /\ UNCHANGED result
  /\ UNCHANGED <<nonce, dirSynced, locked, file, grants>>

(* Opening for append creates a missing file; its entry is not durable.    *)
Open(p) ==
  /\ pc[p] = "open" /\ Goto(p, "write")
  /\ exists' = TRUE
  /\ UNCHANGED <<instance, result, locked, entry, lines, synced, torn, grants>>

(* A short write: part of the line is in the file. *)
WritePart(p) ==
  /\ pc[p] = "write"
  /\ torn' = torn \union {nonce[p]}
  /\ UNCHANGED <<pc, instance, result, locked, exists, entry, lines, synced, grants>>

WriteAll_Short(p) ==
  /\ pc[p] = "write" /\ Goto(p, "sync")
  /\ torn' = torn \union {nonce[p]}
  /\ UNCHANGED <<instance, result, locked, exists, entry, lines, synced, grants>>

(* writeAll loops until the line is out.  Behind the remains of another    *)
(* line it fuses with them and is nobody's record.                         *)
WriteAll(p) ==
  LET n == nonce[p] IN
  /\ pc[p] = "write" /\ Goto(p, "sync")
  /\ IF torn \subseteq {n}
       THEN lines' = lines \union {n} /\ torn' = {}
       ELSE torn' = torn \union {n} /\ UNCHANGED lines
  /\ UNCHANGED <<instance, result, locked, exists, entry, synced, grants>>

(* An open or a write that fails, or a sync: after a write, indeterminate. *)
AppendFails(p) ==
  /\ pc[p] \in {"open", "write", "sync"}
  /\ Leave(p, "failed")
  /\ UNCHANGED <<instance, locked, file, grants>>

(* fdatasync of the completed record.  The instance that believes it       *)
(* created the file goes on to the directory.                              *)
Sync(p) ==
  /\ pc[p] = "sync"
  /\ synced' = lines
  /\ entry' = (entry \/ SyncKeepsEntry)
  /\ IF dirSynced[p]
       THEN /\ known' = [known EXCEPT ![p] = @ \union {nonce[p]}]
            /\ Leave(p, "consumed")
       ELSE Goto(p, "syncDir") /\ UNCHANGED <<known, result>>
  /\ UNCHANGED <<nonce, dirSynced, locked, exists, lines, torn, grants>>

SyncDir(p) ==
  /\ pc[p] = "syncDir"
  /\ entry' = TRUE
  /\ dirSynced' = [dirSynced EXCEPT ![p] = TRUE]
  /\ known' = [known EXCEPT ![p] = @ \union {nonce[p]}]
  /\ Leave(p, "consumed")
  /\ UNCHANGED <<nonce, locked, exists, lines, synced, torn, grants>>

(* A hard failure leaves the flag clear for this instance's next consume.  *)
SyncDirFails(p) ==
  /\ pc[p] = "syncDir"
  /\ Leave(p, "failed")
  /\ UNCHANGED <<instance, locked, file, grants>>

(* rmdir of the lock, then the answer; if rmdir fails there is none and    *)
(* the lock stays.                                                         *)
Release(p) ==
  /\ pc[p] = "release" /\ Goto(p, "idle")
  /\ \/ /\ locked' = FALSE
        /\ grants' = IF result[p] = "consumed"
                       THEN [grants EXCEPT ![nonce[p]] = @ + 1] ELSE grants
        /\ UNCHANGED result
     \/ Answer(p, "failed") /\ UNCHANGED <<locked, grants>>
  /\ UNCHANGED <<instance, file>>
-----------------------------------------------------------------------------
(* A process dies anywhere, in the section with the lock left behind.      *)
Die(p) ==
  /\ pc[p] # "down" /\ Goto(p, "down")
  /\ UNCHANGED <<instance, result, locked, file, grants>>

(* The machine dies: what was not synced may be lost, or survive in part,  *)
(* a file whose entry is not durable may vanish, and so may the lock.      *)
MachineDies ==
  /\ pc' = [p \in Procs |-> "down"]
  /\ locked' \in {FALSE, locked}
  /\ \/ /\ exists /\ ~entry
        /\ exists' = FALSE /\ lines' = {} /\ synced' = {} /\ torn' = {}
        /\ UNCHANGED entry
     \/ /\ \E lost \in SUBSET (lines \ synced) :
             /\ lines' = lines \ lost
             /\ torn' \in SUBSET (torn \union lost)
        /\ synced' = lines' /\ entry' = exists
        /\ UNCHANGED exists
  /\ UNCHANGED <<instance, result, grants>>

(* The operator removes a left-behind lock once every user is stopped.     *)
OperatorUnlocks ==
  /\ locked /\ \A p \in Procs : pc[p] = "down"
  /\ locked' = FALSE
  /\ UNCHANGED <<pc, instance, result, file, grants>>

Step(p) ==
  \/ TakeLock(p) \/ LockUnavailable(p) \/ Absorb(p) \/ Open(p)
  \/ WriteAll(p) \/ AppendFails(p) \/ Sync(p) \/ SyncDir(p) \/ SyncDirFails(p)
  \/ Release(p)

Next ==
  \/ \E p \in Procs :
       \/ Start(p) \/ Step(p) \/ Inspect(p) \/ WritePart(p) \/ Die(p)
       \/ \E n \in Nonces : Consume(p, n)
  \/ MachineDies \/ OperatorUnlocks

Spec == Init /\ [][Next]_vars

(* A consume under way goes on: its section is synchronous code, and the   *)
(* wait for the lock is bounded by ten attempts.                           *)
FairSpec == Spec /\ \A p \in Procs : WF_vars(Step(p))
-----------------------------------------------------------------------------
(* One process at a time reads, checks and appends, also after deaths,     *)
(* because the lock never expires.                                         *)
InSection(p) == pc[p] \in Section

SectionExclusive ==
  /\ \A p, q \in Procs : InSection(p) /\ InSection(q) => p = q
  /\ (\E p \in Procs : InSection(p)) => locked

(* A token is single-use: no two consumes of a nonce ever answer           *)
(* "consumed", in whatever processes and across whatever crashes.          *)
GrantedOnce == \A n \in Nonces : grants[n] <= 1

(* Before consume resolves, its line and the file's entry are on the disk. *)
GrantDurable ==
  \A n \in Nonces : grants[n] > 0 => n \in synced /\ entry

(* A torn or fused record refuses every consume: the ledger never grants   *)
(* over history it cannot read.                                            *)
FailClosed == [][torn # {} => grants' = grants]_vars

(* A consume comes back, or its process dies. *)
ConsumeEnds == \A p \in Procs : pc[p] = "lock" ~> pc[p] \in {"idle", "down"}
=============================================================================
