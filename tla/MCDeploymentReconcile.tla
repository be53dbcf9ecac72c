------------------------ MODULE MCDeploymentReconcile ------------------------
(* Contracts for TLC: an edit drops one unit and adds another, or asks for a  *)
(* strategy Kubernetes lacks.                                                 *)
EXTENDS DeploymentReconcile

CONSTANTS a, b, c

MCSpecs == { [units |-> {a, b}, strategy |-> "Rolling"],
             [units |-> {b, c}, strategy |-> "BlueGreen"],
             [units |-> {a, b}, strategy |-> "Canary"] }
=============================================================================
