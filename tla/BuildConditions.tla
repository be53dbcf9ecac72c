--------------------------- MODULE BuildConditions ---------------------------
(***************************************************************************)
(* The status of a Build and what one status write does to it.             *)
(*                                                                         *)
(* A status is the value of each condition type plus the outcome held in   *)
(* status.contract.  Both writers of a Build status -- BuildService and    *)
(* the buildrun-observer -- hand WriteReplacing one condition per call, so *)
(* a write names one type.  Messages, reasons and times are left out.      *)
(***************************************************************************)

Types == {"BuildReady", "BuildPending", "BuildSuccess", "BuildFailed"}
Values == {"absent", "True", "False"}
Contracts == {"none", "success", "failure"}

Statuses == [conds : [Types -> Values], contract : Contracts]

Writes == [drop : SUBSET Types, type : Types, value : {"True", "False"},
           contract : Contracts]

NoStatus == [conds |-> [t \in Types |-> "absent"], contract |-> "none"]

\* Mutant: merging alone, as Write did before superseded types existed.
MergeOnly(write, status) ==
  [conds |-> [t \in Types |-> IF t = write.type THEN write.value ELSE status.conds[t]],
   contract |-> IF write.contract = "none" THEN status.contract ELSE write.contract]

\* The body of WriteReplacing between its read and its update: superseded
\* types go, the condition is upserted (a type both superseded and written is
\* written), and the caller's contract is persisted only if it has one.
Apply(write, status) ==
  [conds |-> [t \in Types |-> IF t = write.type THEN write.value
                              ELSE IF t \in write.drop THEN "absent"
                              ELSE status.conds[t]],
   contract |-> IF write.contract = "none" THEN status.contract ELSE write.contract]

Condition(type, value) ==
  [drop |-> {}, type |-> type, value |-> value, contract |-> "none"]

\* BuildService.buildConditions, by what Provider.Run came back with.
buildConditions(outcome) ==
  CASE outcome = "error"     -> Condition("BuildFailed", "False")
    [] outcome = "success"   -> Condition("BuildSuccess", "True")
    [] outcome = "triggered" -> Condition("BuildReady", "True")
    [] outcome = "other"     -> Condition("BuildPending", "False")

\* No provider reports success or an empty result: Run returns an error or
\* Triggered.
ReconcileWrites == {buildConditions(outcome) : outcome \in {"error", "triggered"}}

\* The buildrun-observer (external) when a BuildRun ends.
ObserverWrites ==
  {[drop |-> {"BuildFailed"}, type |-> "BuildSuccess", value |-> "True", contract |-> "success"],
   [drop |-> {"BuildSuccess"}, type |-> "BuildFailed", value |-> "True", contract |-> "failure"]}
=============================================================================
