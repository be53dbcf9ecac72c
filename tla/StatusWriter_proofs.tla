------------------------ MODULE StatusWriter_proofs ------------------------
(***************************************************************************)
(* For any number of reconcilers, observers and attempts, concurrent       *)
(* status writes merge atomically and the status tells one outcome.        *)
(***************************************************************************)
EXTENDS StatusWriter, TLAPS

\* A copy the API server would accept an update for is the current status.
CopyCurrent ==
  \A w \in Writers : fresh[w] => pc[w] = "update" /\ latest[w] = status

RequestInv == \A w \in Writers : InCall(w) => write[w] \in WritesOf(w)

IInv == TypeOK /\ CopyCurrent /\ RequestInv /\ OneOutcome

-----------------------------------------------------------------------------
(* The writes.                                                             *)

\* BuildService writes one of two conditions, neither of them an outcome that
\* an observer writes.
LEMMA ReconcileRequests ==
  ReconcileWrites = {Condition("BuildFailed", "False"), Condition("BuildReady", "True")}
<1>1. /\ buildConditions("error") = Condition("BuildFailed", "False")
      /\ buildConditions("triggered") = Condition("BuildReady", "True")
  BY Zenon DEF buildConditions
<1> QED
  BY <1>1 DEF ReconcileWrites

\* Every request is a well-formed write.
LEMMA RequestTypes == \A w \in Writers : WritesOf(w) \subseteq Writes
BY ReconcileRequests DEF WritesOf, ObserverWrites, Condition, Writes, Types, Contracts

\* WriteReplacing turns a status into a status.
LEMMA ApplyType ==
  ASSUME NEW o \in Writes, NEW s \in Statuses
  PROVE  Apply(o, s) \in Statuses
BY DEF Apply, Writes, Statuses, Values, Types

\* The conditions of a changed status, one by one.
LEMMA ApplyConds ==
  ASSUME NEW o, NEW s, NEW t \in Types
  PROVE  Apply(o, s).conds[t] = IF t = o.type THEN o.value
                                ELSE IF t \in o.drop THEN "absent" ELSE s.conds[t]
BY DEF Apply

\* No write of either kind leaves two outcomes on the Build.
LEMMA ApplyOutcome ==
  ASSUME status \in Statuses, OneOutcome, NEW w \in Writers, NEW o \in WritesOf(w),
         status' = Apply(o, status)
  PROVE  OneOutcome'
<1> DEFINE kept(t) == IF t = o.type THEN o.value
                      ELSE IF t \in o.drop THEN "absent" ELSE status.conds[t]
<1>1. \A t \in Types : status'.conds[t] = kept(t)
  BY ApplyConds
<1>2. status'.contract = IF o.contract = "none" THEN status.contract ELSE o.contract
  BY DEF Apply
<1>3. status'.conds["BuildSuccess"] = kept("BuildSuccess")
      /\ status'.conds["BuildFailed"] = kept("BuildFailed")
  BY <1>1 DEF Types
<1>4. CASE o \in ReconcileWrites
  BY <1>2, <1>3, <1>4, ReconcileRequests DEF OneOutcome, Condition
<1>5. CASE o \in ObserverWrites
  BY <1>2, <1>3, <1>5 DEF OneOutcome, ObserverWrites
<1> QED
  BY <1>4, <1>5 DEF WritesOf

\* A reconciler's write touches neither the contract nor BuildSuccess, and one
\* condition at most.
LEMMA ReconcileKeeps ==
  ASSUME NEW s, NEW o \in ReconcileWrites
  PROVE  /\ Apply(o, s).contract = s.contract
         /\ o.type # "BuildSuccess"
         /\ \A t \in Types \ {o.type} : Apply(o, s).conds[t] = s.conds[t]
BY ReconcileRequests, ApplyConds DEF Apply, Condition, Types

-----------------------------------------------------------------------------
(* Preservation.                                                           *)

\* A write that reaches the API server was computed from the current status.
LEMMA PersistCurrent ==
  ASSUME IInv, NEW w \in Writers, pc[w] = "update", fresh[w], Persist(w)
  PROVE  /\ status' = Apply(write[w], status)
         /\ write[w] \in WritesOf(w)
BY DEF IInv, CopyCurrent, RequestInv, InCall, Persist

\* The empty status of a new Build is a status.
LEMMA NoStatusType == NoStatus \in Statuses
BY DEF NoStatus, Statuses, Values, Contracts

\* Leaving WriteReplacing keeps the types of what it resets.
LEMMA ReturnTypes ==
  ASSUME TypeOK, NEW w \in Writers, NEW answer \in {"ok", "error"}, Return(w, answer),
         status' \in Statuses, fresh' \in [Writers -> BOOLEAN]
  PROVE  TypeOK'
<1>1. 1 \in 1 .. Steps
  BY StatusWriterAssumption
<1> QED
  BY <1>1, NoStatusType DEF TypeOK, Return, Goto

\* Every action keeps the types.
LEMMA TypeStep == IInv /\ [Next]_vars => TypeOK'
<1> SUFFICES ASSUME IInv, [Next]_vars PROVE TypeOK'
  OBVIOUS
<1> USE StatusWriterAssumption DEF IInv, TypeOK, Goto
<1>1. ASSUME NEW w \in Writers, NEW o \in WritesOf(w), Call(w, o) PROVE TypeOK'
  BY <1>1, RequestTypes DEF Call
<1>2. ASSUME NEW w \in Writers, Get(w) PROVE TypeOK'
  BY <1>2 DEF Get
<1>3. NoStatus \in Statuses
  BY NoStatusType
<1>4. ASSUME NEW w \in Writers, Update(w) \/ UpdateUnanswered(w) PROVE TypeOK'
  <2>1. status' \in Statuses
    BY <1>4, ApplyType, PersistCurrent DEF Update, UpdateUnanswered
  <2>2. Return(w, "ok") \/ Return(w, "error")
    BY <1>4 DEF Update, UpdateUnanswered
  <2>3. fresh' \in [Writers -> BOOLEAN]
    BY <1>4 DEF Update, UpdateUnanswered, Persist
  <2> QED
    BY <2>1, <2>2, <2>3, ReturnTypes
<1>5. ASSUME NEW w \in Writers, Conflict(w) \/ Fails(w) PROVE TypeOK'
  <2>1. CASE Return(w, "error")
    <3>1. status' = status /\ fresh' \in [Writers -> BOOLEAN]
      BY <1>5 DEF Conflict, Fails
    <3> QED
      BY <2>1, <3>1, ReturnTypes
  <2>2. CASE Conflict(w) /\ attempt[w] < Steps
    <3>1. attempt[w] + 1 \in 1 .. Steps
      BY <2>2
    <3> QED
      BY <1>3, <2>2, <3>1 DEF Conflict, Return
  <2> QED
    BY <1>5, <2>1, <2>2 DEF Conflict, Fails
<1>6. CASE OtherUpdate \/ UNCHANGED vars
  BY <1>6 DEF OtherUpdate, vars
<1> QED
  BY <1>1, <1>2, <1>4, <1>5, <1>6 DEF Next, Step

\* A copy goes stale when anybody's update is accepted, its own included.
LEMMA CopyStep == IInv /\ [Next]_vars => CopyCurrent' /\ RequestInv'
<1> SUFFICES ASSUME IInv, [Next]_vars PROVE CopyCurrent' /\ RequestInv'
  OBVIOUS
<1> USE DEF IInv, TypeOK, CopyCurrent, RequestInv, InCall, Goto
<1>1. ASSUME NEW w \in Writers, NEW o \in WritesOf(w), Call(w, o)
      PROVE  CopyCurrent' /\ RequestInv'
  BY <1>1 DEF Call
<1>2. ASSUME NEW w \in Writers, Get(w) PROVE CopyCurrent' /\ RequestInv'
  BY <1>2 DEF Get
<1>3. ASSUME NEW w \in Writers, Update(w) \/ UpdateUnanswered(w)
      PROVE  CopyCurrent' /\ RequestInv'
  BY <1>3 DEF Update, UpdateUnanswered, Persist, Return
<1>4. ASSUME NEW w \in Writers, Conflict(w) \/ Fails(w) PROVE CopyCurrent' /\ RequestInv'
  BY <1>4 DEF Conflict, Fails, Return
<1>5. CASE OtherUpdate \/ UNCHANGED vars
  BY <1>5 DEF OtherUpdate, vars
<1> QED
  BY <1>1, <1>2, <1>3, <1>4, <1>5 DEF Next, Step

\* The status changes only through an accepted update.
LEMMA OutcomeStep == IInv /\ [Next]_vars => OneOutcome'
<1> SUFFICES ASSUME IInv, [Next]_vars PROVE OneOutcome'
  OBVIOUS
<1>1. ASSUME NEW w \in Writers, Update(w) \/ UpdateUnanswered(w) PROVE OneOutcome'
  BY <1>1, PersistCurrent, ApplyOutcome DEF Update, UpdateUnanswered, IInv, TypeOK
<1>2. CASE UNCHANGED status
  BY <1>2 DEF IInv, OneOutcome
<1> QED
  BY <1>1, <1>2 DEF Next, Step, Call, Get, Conflict, Fails, OtherUpdate, vars

-----------------------------------------------------------------------------
(* The theorems.                                                           *)

\* The strengthening holds in every behaviour.
THEOREM Inductive == Spec => []IInv
<1>1. Init => IInv
  <2> SUFFICES ASSUME Init PROVE IInv
    OBVIOUS
  <2>1. buildConditions("triggered") \in Writes
    BY ReconcileRequests DEF ReconcileWrites, Condition, Writes, Types, Contracts
  <2>2. NoStatus \in Statuses
    BY NoStatusType
  <2>3. TypeOK
    BY <2>1, <2>2, StatusWriterAssumption DEF Init, TypeOK
  <2>4. OneOutcome
    BY DEF Init, OneOutcome, NoStatus, Types
  <2> QED
    BY <2>3, <2>4 DEF Init, IInv, CopyCurrent, RequestInv, InCall
<1>2. IInv /\ [Next]_vars => IInv'
  BY TypeStep, CopyStep, OutcomeStep DEF IInv
<1> QED
  BY <1>1, <1>2, PTL DEF Spec

\* The writer's state keeps its types.
THEOREM TypeCorrect == Spec => []TypeOK
BY Inductive, PTL DEF IInv

\* No interleaving of writers leaves two outcomes on a Build.
THEOREM OneOutcomeCorrect == Spec => []OneOutcome
BY Inductive, PTL DEF IInv

\* An update of a reconciler keeps the contract and BuildSuccess, and every other
\* condition but the one it reports: BuildFailed=True goes only to its own error.
THEOREM WritesOwnTypeOnlyCorrect == Spec => WritesOwnTypeOnly
<1> DEFINE Kept(r) == /\ status'.contract = status.contract
                      /\ \A t \in Types : status'.conds[t] # status.conds[t] =>
                           t = write[r].type /\ t # "BuildSuccess"
           Keeps(r) == pc[r] = "update" /\ pc'[r] # "update" => Kept(r)
<1>1. IInv /\ [Next]_vars => [\A r \in Reconcilers : Keeps(r)]_vars
  <2> SUFFICES ASSUME IInv, Next, NEW r \in Reconcilers,
                      pc[r] = "update", pc'[r] # "update"
               PROVE  Kept(r)
    OBVIOUS
  <2>1. CASE UNCHANGED status
    BY <2>1
  <2>2. ASSUME NEW w \in Writers, Update(w) \/ UpdateUnanswered(w)
        PROVE  Kept(r)
    <3>1. w = r
      BY <2>2 DEF Update, UpdateUnanswered, Return, Goto, IInv, TypeOK, Writers
    <3>2. write[r] \in ReconcileWrites /\ status' = Apply(write[r], status)
      BY <2>2, <3>1, PersistCurrent DEF Update, UpdateUnanswered, WritesOf
    <3> QED
      BY <3>2, ReconcileKeeps
  <2> QED
    BY <2>1, <2>2 DEF Next, Step, Call, Get, Conflict, Fails, OtherUpdate
<1> QED
  BY <1>1, Inductive, PTL DEF Spec, WritesOwnTypeOnly

-----------------------------------------------------------------------------
(* StatusWriter implements StatusMerge.                                    *)

calls == [w \in Writers |-> callOf(w)]

\* A step of one writer changes only its own call.
LEMMA CallMoves ==
  ASSUME TypeOK, NEW w \in Writers, NEW label, Goto(w, label)
  PROVE  /\ calls[w] = callOf(w)
         /\ calls' = [calls EXCEPT ![w] = callOf(w)']
         /\ callOf(w)' = IF label \in {"get", "update"} THEN "open"
                         ELSE IF label = "idle" THEN "none" ELSE label
<1>1. pc'[w] = label /\ \A v \in Writers \ {w} : pc'[v] = pc[v]
  BY DEF Goto, TypeOK
<1> QED
  BY <1>1 DEF calls, callOf, InCall

\* Each action is one step of StatusMerge or changes nothing there.
LEMMA MergeStep == IInv /\ [Next]_vars => [Merge!Next]_(Merge!mergeVars)
<1> SUFFICES ASSUME IInv, [Next]_vars
             PROVE  Merge!Next \/ UNCHANGED <<status, calls, write>>
  BY DEF Merge!mergeVars, calls
<1> USE DEF IInv
<1>1. ASSUME NEW w \in Writers, NEW o \in WritesOf(w), Call(w, o) PROVE Merge!Begin(w, o)
  BY <1>1, CallMoves DEF Call, Merge!Begin, calls, callOf, InCall, TypeOK
<1>2. ASSUME NEW w \in Writers, Get(w) PROVE UNCHANGED <<status, calls, write>>
  BY <1>2, CallMoves DEF Get, calls, callOf, InCall
<1>3. ASSUME NEW w \in Writers, Update(w) \/ UpdateUnanswered(w) PROVE Merge!Commit(w)
  <2>1. status' = Merge!Apply(write[w], status) /\ UNCHANGED write
    BY <1>3, PersistCurrent DEF Update, UpdateUnanswered, Return, Merge!Apply, Apply,
       Merge!Types, Types
  <2>2. PICK answer \in {"ok", "error"} : Goto(w, answer)
    BY <1>3 DEF Update, UpdateUnanswered, Return
  <2>3. calls' = [calls EXCEPT ![w] = answer]
    BY <2>2, CallMoves
  <2>4. calls[w] = "open"
    BY <1>3, CallMoves, <2>2 DEF Update, UpdateUnanswered, callOf, InCall
  <2> QED
    BY <2>1, <2>3, <2>4 DEF Merge!Commit, calls
<1>4. ASSUME NEW w \in Writers, Conflict(w) \/ Fails(w)
      PROVE  Merge!GiveUp(w) \/ UNCHANGED <<status, calls, write>>
  <2>1. UNCHANGED <<status, write>>
    BY <1>4 DEF Conflict, Fails, Return
  <2>2. CASE Return(w, "error")
    <3>1. calls' = [calls EXCEPT ![w] = "error"]
      BY <2>2, CallMoves DEF Return
    <3>2. calls[w] = "open"
      <4>1. InCall(w)
        BY <1>4 DEF Conflict, Fails, InCall
      <4>2. calls[w] = callOf(w)
        BY <2>2, CallMoves DEF Return
      <4> QED
        BY <4>1, <4>2 DEF callOf
    <3> QED
      BY <2>1, <3>1, <3>2 DEF Merge!GiveUp, calls
  <2>3. CASE ~Return(w, "error")
    <3>1. pc[w] = "update" /\ Goto(w, "get")
      BY <1>4, <2>3 DEF Conflict, Fails
    <3>2. callOf(w)' = callOf(w) /\ calls' = [calls EXCEPT ![w] = callOf(w)]
      BY <3>1, CallMoves DEF callOf, InCall
    <3>3. calls[w] = callOf(w)
      BY <3>1, CallMoves
    <3> UNCHANGED calls
      BY <3>2, <3>3 DEF calls
    <3> QED
      BY <2>1
  <2> QED
    BY <2>2, <2>3
<1>5. CASE OtherUpdate \/ UNCHANGED vars
  BY <1>5 DEF OtherUpdate, vars, calls, callOf, InCall
<1>6. \A w \in Writers : WritesOf(w) \subseteq ReconcileWrites \cup ObserverWrites
  BY DEF WritesOf
<1> QED
  BY <1>1, <1>2, <1>3, <1>4, <1>5, <1>6 DEF Next, Step, Merge!Next

\* Whatever interleaves, a status write merges into the current status once.
THEOREM MergeCorrect == Spec => MergesAtomically
<1>1. Init => Merge!Init
  BY DEF Init, Merge!Init, Merge!NoStatus, Merge!Types, NoStatus, Types, callOf, InCall,
     ReconcileWrites
<1>2. IInv /\ [Next]_vars => [Merge!Next]_(Merge!mergeVars)
  BY MergeStep
<1> QED
  BY <1>1, <1>2, Inductive, PTL DEF Spec, MergesAtomically, Merge!Spec
=============================================================================
