--------------------------- MODULE ReconcilerClaims ---------------------------
(***************************************************************************)
(* What comments and documents of the repository say of the operator and   *)
(* the code does not do.  Each formula states the sentence it quotes; a    *)
(* configuration of its own shows the behaviour that contradicts it.       *)
(***************************************************************************)
EXTENDS ReconcilerInv

(***************************************************************************)
(* phases.go:483: "Cost = (provisioning + training) x nodes x rate / 3600".*)
(* A cost that was computed is not computed with zero nodes.               *)
(***************************************************************************)
CostCountsTheNodes ==
    \A j \in Jobs :
        cr[j].exists /\ PhaseOf(j) = "Succeeded" => cr[j].status.billed # 0

(***************************************************************************)
(* phases.go:181: "delete the (partially-created) pool before going        *)
(* terminal".  A job whose pool was deleted for a failed creation is not   *)
(* provisioned any further.  IsOperationDone fails also when GKE does not  *)
(* answer: the pool is deleted, the patch to Failed is lost, and the next  *)
(* poll finds the creation done and the nodes not yet gone.                *)
(***************************************************************************)
CleanedUpIsTerminal ==
    [][\A j \in Jobs :
         Live(j) /\ PhaseOf(j) = "Provisioning" /\ cr'[j].status.phase = "Ready" =>
            pool[PoolOf(j)].state = "running"]_vars
===============================================================================
