-------------------------------- MODULE Lease --------------------------------
(***************************************************************************)
(* What the plan lock promises its callers: an exclusive lease.            *)
(*                                                                         *)
(* `acquirePlanLock` (src/src/kernel/journal.ts) hands out a lease on one  *)
(* plan; `runPlan` does all its journal writing under it.  A lease ends by *)
(* release or by the death of the process that holds it.  PlanLock is the  *)
(* protocol that keeps this promise over a file system.                    *)
(***************************************************************************)
CONSTANT Attempts      \* acquisition attempts, one nonce each

VARIABLE holders       \* the attempts that hold the lease, at most one

Init == holders = {}

(* An acquisition succeeds only when nobody holds the lease. *)
Acquire(a) ==
  /\ holders = {}
  /\ holders' = {a}

(* The holder releases, or its process dies. *)
End(a) ==
  /\ a \in holders
  /\ holders' = holders \ {a}

Next == \E a \in Attempts : Acquire(a) \/ End(a)

Spec == Init /\ [][Next]_holders
=============================================================================
