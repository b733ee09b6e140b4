----------------------------- MODULE MCPlanLock -----------------------------
(* Instances of PlanLock for model checking.                               *)
EXTENDS PlanLock, TLC

CONSTANTS a1, a2, a3, a4

(* One process per attempt, all on one host: the processes of one fleet.   *)
Peers == {a1, a2, a3}
PeersOwner == [a \in Peers |-> a]
PeersHost == [p \in Peers |-> "h"]

(* A process that tries twice, a peer on its host, a process on another.   *)
Fleet == {a1, a2, a3, a4}
FleetOwner == (a1 :> "p") @@ (a2 :> "p") @@ (a3 :> "q") @@ (a4 :> "far")
FleetHost == ("p" :> "h") @@ ("q" :> "h") @@ ("far" :> "g")
FleetProcs == DOMAIN FleetHost
=============================================================================
