---------------------------- MODULE StatusWriter ----------------------------
(***************************************************************************)
(* pkg/apis/build/application/status.go: WriteReplacing under concurrency. *)
(*                                                                         *)
(* Every call is a RetryOnConflict loop of Get, change, Status().Update.   *)
(* The API server accepts an update only if the object has not changed     *)
(* since the Get; the resourceVersion is modelled by what it tells apart:  *)
(* fresh[w] holds while w's copy is the object's current version.          *)
(***************************************************************************)
EXTENDS Naturals, BuildConditions

CONSTANTS
  Reconcilers,  \* goroutines in BuildService.Reconcile
  Observers,    \* goroutines of the buildrun-observer
  Steps         \* attempts of retry.DefaultRetry (5)

Writers == Reconcilers \cup Observers

ASSUME StatusWriterAssumption ==
  /\ Reconcilers \cap Observers = {}
  /\ Steps \in Nat \ {0}

VARIABLES
  status,   \* the Build's status in the API server
  pc,       \* [Writers -> {"idle", "get", "update", "ok", "error"}]
  write,    \* [Writers -> Writes], the arguments of the call
  attempt,  \* [Writers -> 1 .. Steps]
  latest,   \* [Writers -> Statuses], the copy returned by Get
  fresh     \* [Writers -> BOOLEAN]

vars == <<status, pc, write, attempt, latest, fresh>>

WritesOf(w) == IF w \in Reconcilers THEN ReconcileWrites ELSE ObserverWrites

Goto(w, label) == pc' = [pc EXCEPT ![w] = label]

InCall(w) == pc[w] \in {"get", "update"}

-----------------------------------------------------------------------------
Call(w, o) ==
  /\ ~InCall(w)
  /\ Goto(w, "get")
  /\ write' = [write EXCEPT ![w] = o]
  /\ attempt' = [attempt EXCEPT ![w] = 1]
  /\ UNCHANGED <<status, latest, fresh>>

Get(w) ==
  /\ pc[w] = "get"
  /\ latest' = [latest EXCEPT ![w] = status]
  /\ fresh' = [fresh EXCEPT ![w] = TRUE]
  /\ Goto(w, "update")
  /\ UNCHANGED <<status, write, attempt>>

\* The call returns and its local variables are gone.
Return(w, answer) ==
  /\ Goto(w, answer)
  /\ attempt' = [attempt EXCEPT ![w] = 1]
  /\ latest' = [latest EXCEPT ![w] = NoStatus]
  /\ UNCHANGED write

\* Every accepted update outdates every copy.
Persist(w) ==
  /\ status' = Apply(write[w], latest[w])
  /\ fresh' = [v \in Writers |-> FALSE]

\* Mutant: the update carries no resourceVersion, so it never conflicts.
UpdateUnconditionally(w) ==
  /\ pc[w] = "update"
  /\ Persist(w)
  /\ Return(w, "ok")

Update(w) ==
  /\ pc[w] = "update"
  /\ fresh[w]
  /\ Persist(w)
  /\ Return(w, "ok")

\* Mutant: a lost answer is retried as a conflict is.
RetryUnanswered(w) ==
  /\ pc[w] = "update"
  /\ fresh[w]
  /\ Persist(w)
  /\ Goto(w, "get")
  /\ UNCHANGED <<write, attempt, latest>>

\* The update is applied but its answer is lost: not a conflict, no retry.
UpdateUnanswered(w) ==
  /\ pc[w] = "update"
  /\ fresh[w]
  /\ Persist(w)
  /\ Return(w, "error")

\* Mutant: conflicts are retried without counting.
RetryForever(w) ==
  /\ pc[w] = "update"
  /\ ~fresh[w]
  /\ Goto(w, "get")
  /\ UNCHANGED <<status, write, attempt, latest, fresh>>

\* Mutant: one attempt more than Steps.
RetryOnceMore(w) ==
  /\ pc[w] = "update"
  /\ ~fresh[w]
  /\ \/ /\ attempt[w] <= Steps
        /\ Goto(w, "get")
        /\ attempt' = [attempt EXCEPT ![w] = @ + 1]
        /\ latest' = [latest EXCEPT ![w] = NoStatus]
        /\ UNCHANGED write
     \/ attempt[w] > Steps /\ Return(w, "error")
  /\ UNCHANGED <<status, fresh>>

\* RetryOnConflict reads again, or returns the conflict once its attempts are
\* used up.
Conflict(w) ==
  /\ pc[w] = "update"
  /\ ~fresh[w]
  /\ \/ /\ attempt[w] < Steps
        /\ Goto(w, "get")
        /\ attempt' = [attempt EXCEPT ![w] = @ + 1]
        /\ latest' = [latest EXCEPT ![w] = NoStatus]
        /\ UNCHANGED write
     \/ attempt[w] = Steps /\ Return(w, "error")
  /\ UNCHANGED <<status, fresh>>

\* Any other error, of Get or Update, ends the call at once.
Fails(w) ==
  /\ InCall(w)
  /\ Return(w, "error")
  /\ fresh' = [fresh EXCEPT ![w] = FALSE]
  /\ UNCHANGED status

\* Somebody changes the Build outside its status: an annotation, the spec.
OtherUpdate ==
  /\ fresh' = [v \in Writers |-> FALSE]
  /\ UNCHANGED <<status, pc, write, attempt, latest>>

-----------------------------------------------------------------------------
Init ==
  /\ status = NoStatus
  /\ pc = [w \in Writers |-> "idle"]
  /\ write = [w \in Writers |-> buildConditions("triggered")]
  /\ attempt = [w \in Writers |-> 1]
  /\ latest = [w \in Writers |-> NoStatus]
  /\ fresh = [w \in Writers |-> FALSE]

Step(w) == Get(w) \/ Update(w) \/ UpdateUnanswered(w) \/ Conflict(w) \/ Fails(w)

Next ==
  \/ \E w \in Writers : \E o \in WritesOf(w) : Call(w, o)
  \/ \E w \in Writers : Step(w)
  \/ OtherUpdate

Spec == Init /\ [][Next]_vars

\* A call in progress goes on; nobody has to make one.
Fairness == \A w \in Writers : WF_vars(Step(w))

FairSpec == Spec /\ Fairness

-----------------------------------------------------------------------------
TypeOK ==
  /\ status \in Statuses
  /\ pc \in [Writers -> {"idle", "get", "update", "ok", "error"}]
  /\ write \in [Writers -> Writes]
  /\ attempt \in [Writers -> 1 .. Steps]
  /\ latest \in [Writers -> Statuses]
  /\ fresh \in [Writers -> BOOLEAN]

\* The conditions and the contract tell one story: a Build that says its last
\* run succeeded does not say it failed, in its conditions or its contract,
\* whichever writers interleaved to produce the status.
OneOutcome ==
  LET conds == status.conds IN
  /\ conds["BuildSuccess"] = "True" => status.contract = "success"
  /\ conds["BuildFailed"] = "True" => status.contract = "failure"
  /\ status.contract = "success" => conds["BuildSuccess"] = "True"
  /\ status.contract = "failure" => conds["BuildSuccess"] = "absent"

\* A reconciler's update, whatever observers wrote between its read and it, leaves
\* the contract and BuildSuccess as they are and changes the one condition it
\* reports. That may be an outcome: the BuildFailed=False of its own error replaces
\* an observer's BuildFailed=True, and only the contract still tells of that run.
WritesOwnTypeOnly ==
  [][\A r \in Reconcilers :
       pc[r] = "update" /\ pc'[r] # "update" =>
         /\ status'.contract = status.contract
         /\ \A t \in Types : status'.conds[t] # status.conds[t] =>
              t = write[r].type /\ t # "BuildSuccess"]_vars

\* However often other writers get in between, a call returns.
CallsReturn == \A w \in Writers : InCall(w) ~> ~InCall(w)

callOf(w) == IF InCall(w) THEN "open" ELSE IF pc[w] = "idle" THEN "none" ELSE pc[w]

Merge == INSTANCE StatusMerge WITH
  Requests <- ReconcileWrites \cup ObserverWrites,
  call <- [w \in Writers |-> callOf(w)]

\* A write takes effect on the current status in one step, at most once.
MergesAtomically == Merge!Spec
=============================================================================
