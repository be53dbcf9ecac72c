--------------------------- MODULE MCBuildDispatch ---------------------------
(***************************************************************************)
(* One Build CR, whose users change the strategy's kind and break the      *)
(* contract, and one or two commits pushed to one branch.                  *)
(***************************************************************************)
EXTENDS BuildDispatch

Cluster    == [rest |-> "c", kind |-> "ClusterBuildStrategy"]
Namespaced == [rest |-> "c", kind |-> "NamespacedBuildStrategy"]
Unmappable == [rest |-> "bad", kind |-> "ClusterBuildStrategy"]

MCSpecs == {Cluster, Namespaced, Unmappable}
MCInvalid == {Unmappable}
=============================================================================
