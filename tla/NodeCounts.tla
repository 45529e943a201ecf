------------------------------ MODULE NodeCounts ------------------------------
(***************************************************************************)
(* The two node counts the controller reads off a job, from the topology   *)
(* in its spec or from what the solver resolved                            *)
(* (status.resolvedTopology.nodes).                                        *)
(***************************************************************************)
EXTENDS Integers

\* Mutant of DesiredNodes: the answer of the solver is forgotten.
DesiredFromSpec(spec, resolved) == IF spec.nodes = 0 THEN 1 ELSE spec.nodes

\* cfg.NodeCount in reconcileProvisioning; resolved is
\* status.resolvedTopology.nodes.
DesiredNodes(spec, resolved) ==
    IF spec.objective THEN resolved
    ELSE IF spec.nodes = 0 THEN 1
    ELSE spec.nodes

\* nodeCountForHistory: without the default of 1.
HistoryNodes(spec, resolved) ==
    IF spec.objective THEN resolved ELSE spec.nodes
===============================================================================
