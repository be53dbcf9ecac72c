------------------------- MODULE DeploymentReconcile -------------------------
(***************************************************************************)
(* pkg/apis/deployment, imperative mode: one Deployment CR and the         *)
(* Kubernetes Deployment and Service of each ServiceUnit it lists, applied *)
(* by a reconcile, removed by Teardown, reported in the CR's status.       *)
(*                                                                         *)
(* One handler works on the CR, as in the Engine's synchronous mode; each  *)
(* call it makes to the API server is an action.  The objects carry no     *)
(* owner reference: nothing but Teardown removes them.  Units are handled  *)
(* in any order here, in the contract's in the code.  A status write is    *)
(* atomic: its retry loop is the one StatusWriter is about.  GitOps mode   *)
(* and the runtimes that are stubs are left out.                           *)
(***************************************************************************)
EXTENDS Naturals

CONSTANTS
  Units,      \* ServiceUnits
  Specs,      \* contracts: the units they list, the rollout strategy
  Images,
  Rejected,   \* units whose Service the API server refuses to apply
  Held,       \* units whose Deployment the API server refuses to delete
  MaxFaults,  \* bound on failed calls and restarts
  None

Strategies == {"Rolling", "BlueGreen", "Canary"}

ASSUME DeploymentAssumption ==
  /\ Specs \subseteq [units : SUBSET Units, strategy : Strategies]
  /\ \A s \in Specs : s.units # {}      \* ResolveDeployment refuses no units
  /\ MaxFaults \in Nat
  /\ None \notin Units /\ None \notin Images

VARIABLES
  cr,         \* the Deployment CR: exists, deleting, spec
  image,      \* [Units -> the image a ServiceUnit resolves to, None: not built]
  key,        \* the CR's key is in the controller's workqueue
  deploy,     \* [Units -> image of the unit's Kubernetes Deployment, None: absent]
  service,    \* [Units -> the unit's Service exists]
  available,  \* [Units -> the Deployment's ReadyReplicas equal its Replicas]
  status,     \* contract (phase, units) and conditions (ready, reconciling)
  faults,
  pc,
  snap,       \* the resolved Deployment and ServiceUnits of the Command at work
  todo,       \* units the loop has still to come to
  unit,       \* the unit it is at
  results,    \* [Units -> phase], the ServiceUnitResults so far
  failed,     \* Teardown has errors to aggregate
  returned    \* what the last Command returned, none until it does

world   == <<cr, image>>
cluster == <<deploy, service, available>>
locals  == <<pc, snap, todo, unit, results, failed>>
vars    == <<world, key, cluster, status, faults, locals, returned>>

Applying   == {"apply", "service", "ready"}
Deleting   == {"delete", "deleteService", "finalize"}
UnitPhases == {"none", "Failed", "Deploying", "Ready"}
NoResults  == [u \in Units |-> "none"]

Absent(u)  == deploy[u] = None /\ ~service[u]
Applied(u) == deploy[u] # None /\ service[u]

-----------------------------------------------------------------------------
(* The world: users, builds, Kubernetes (external).                        *)

\* The manager's event filter, for a Deployment.
MeaningfulChange(old, new) == old.spec # new.spec

\* With a finalizer in place a deletion, too, is an update of the object.
ChangeCR(c) ==
  /\ cr.exists
  /\ cr' = c
  /\ key' = (key \/ MeaningfulChange(cr, c))
  /\ UNCHANGED <<image, cluster, status, faults, locals, returned>>

EditSpec(s) == s # cr.spec /\ ChangeCR([cr EXCEPT !.spec = s])

DeleteCR == ~cr.deleting /\ ChangeCR([cr EXCEPT !.deleting = TRUE])

\* A Build pushes an image; the Deployment's controller sees none of it.
PushImage(u, i) ==
  /\ image[u] # i
  /\ image' = [image EXCEPT ![u] = i]
  /\ UNCHANGED <<cr, key, cluster, status, faults, locals, returned>>

\* Replicas come up and go down.
Rollout(u) ==
  /\ deploy[u] # None
  /\ available' = [available EXCEPT ![u] = ~@]
  /\ UNCHANGED <<world, key, deploy, service, status, faults, locals, returned>>

-----------------------------------------------------------------------------
(* DeploymentService.Reconcile                                             *)

\* The Command ends; an error it returns requeues the key.
Return(err) ==
  /\ pc' = "idle"
  /\ returned' = IF err THEN "error" ELSE "ok"
  /\ key' = (key \/ err)

Supports(strategy) == strategy \in {"Rolling", "BlueGreen"}

\* Build resolves every unit, and gives up at one without an image.
Builds == \A u \in cr.spec.units : image[u] # None

\* A Command starts on the CR and the ServiceUnits as read now.  With a strategy
\* the runtime does not support there is nothing to apply.
Start ==
  /\ pc = "idle"
  /\ key
  /\ snap' = IF cr.exists THEN [spec |-> cr.spec, image |-> image] ELSE snap
  /\ results' = NoResults
  /\ failed' = FALSE
  /\ unit' = None
  /\ \/ /\ cr.exists /\ ~cr.deleting /\ Builds
        /\ pc' = "apply" /\ key' = FALSE /\ returned' = "none"
        /\ todo' = IF Supports(cr.spec.strategy) THEN cr.spec.units ELSE {}
     \/ /\ cr.exists /\ ~cr.deleting /\ ~Builds
        /\ todo' = {} /\ Return(TRUE)
     \/ /\ cr.exists /\ cr.deleting     \* BuildTeardown needs the names only
        /\ pc' = "delete" /\ key' = FALSE /\ returned' = "none"
        /\ todo' = cr.spec.units
     \/ /\ ~cr.exists
        /\ pc' = "idle" /\ key' = FALSE /\ returned' = "none"
        /\ todo' = {}
  /\ UNCHANGED <<world, cluster, status, faults>>

\* Mutant: the loop reads the contract anew.
UnitDoneReread(u, phase) ==
  /\ results' = [results EXCEPT ![u] = phase]
  /\ todo' = {v \in cr.spec.units : results'[v] = "none"}
  /\ unit' = None
  /\ pc' = "apply"

\* The loop goes on with the next unit.
UnitDone(u, phase) ==
  /\ results' = [results EXCEPT ![u] = phase]
  /\ todo' = todo \ {u}
  /\ unit' = None
  /\ pc' = "apply"

\* Mutant: one unit that fails ends the loop.
UnitFailsAll(u) ==
  /\ results' = [results EXCEPT ![u] = "Failed"]
  /\ todo' = {}
  /\ unit' = None
  /\ pc' = "apply"

UnitFails(u) == UnitDone(u, "Failed")

ApplyDeployment ==
  /\ pc = "apply"
  /\ \E u \in todo :
       /\ deploy' = [deploy EXCEPT ![u] = snap.image[u]]
       /\ unit' = u
  /\ pc' = "service"
  /\ UNCHANGED <<world, key, service, available, status, faults, snap, todo, results, failed,
                 returned>>

ApplyService ==
  /\ pc = "service"
  /\ IF unit \in Rejected
       THEN UnitFails(unit) /\ UNCHANGED service
       ELSE /\ service' = [service EXCEPT ![unit] = TRUE]
            /\ pc' = "ready"
            /\ UNCHANGED <<todo, unit, results>>
  /\ UNCHANGED <<world, key, deploy, available, status, faults, snap, failed, returned>>

\* The replicas counted may still be those of the image before.
IsReady ==
  /\ pc = "ready"
  /\ UnitDone(unit, IF available[unit] THEN "Ready" ELSE "Deploying")
  /\ UNCHANGED <<world, key, cluster, status, faults, snap, failed, returned>>

\* Mutant: the units that are ready speak for all.
AnyReadyPhase(units) ==
  IF \E u \in units : results[u] = "Ready" THEN "Ready"
  ELSE IF \E u \in units : results[u] = "Failed" THEN "Failed"
  ELSE "Deploying"

DerivePhase(units) ==
  IF \E u \in units : results[u] = "Failed" THEN "Failed"
  ELSE IF \A u \in units : results[u] = "Ready" THEN "Ready"
  ELSE "Deploying"

\* Whether Execute returned an error, or a result whose Failure is one.
ExecFails ==
  ~Supports(snap.spec.strategy) \/ DerivePhase(snap.spec.units) = "Failed"

\* Mutant: a condition is written for what is new only.
KeepReady(s, err, phase) == [s EXCEPT !.reconciling = @ \/ phase = "Deploying"]

\* One condition is set, the others stay.
DeriveCondition(s, err, phase) ==
  IF err THEN [s EXCEPT !.ready = "False"]
  ELSE IF phase = "Ready" THEN [s EXCEPT !.ready = "True"]
  ELSE [s EXCEPT !.reconciling = TRUE]

\* Execute returned nil as its result: the contract stays as it was.
WriteStatus ==
  /\ pc = "apply"
  /\ todo = {}
  /\ LET phase == DerivePhase(snap.spec.units)
         contract == IF Supports(snap.spec.strategy)
                       THEN [status EXCEPT !.phase = phase, !.units = results]
                       ELSE status
     IN  status' = DeriveCondition(contract, ExecFails, phase)
  /\ Return(ExecFails)
  /\ UNCHANGED <<world, cluster, faults, snap, todo, unit, results, failed>>

-----------------------------------------------------------------------------
(* DeploymentService.Teardown                                              *)

DeleteDeployment ==
  /\ pc = "delete"
  /\ \E u \in todo :
       /\ unit' = u
       /\ IF u \in Held /\ deploy[u] # None
            THEN failed' = TRUE /\ UNCHANGED <<deploy, available>>
            ELSE /\ deploy' = [deploy EXCEPT ![u] = None]
                 /\ available' = [available EXCEPT ![u] = FALSE]
                 /\ UNCHANGED failed
  /\ pc' = "deleteService"
  /\ UNCHANGED <<world, key, service, status, faults, snap, todo, results, returned>>

DeleteService ==
  /\ pc = "deleteService"
  /\ service' = [service EXCEPT ![unit] = FALSE]
  /\ todo' = todo \ {unit}
  /\ unit' = None
  /\ pc' = "delete"
  /\ UNCHANGED <<world, key, deploy, available, status, faults, snap, results, failed, returned>>

\* Mutant: the errors are logged.
TeardownLogs ==
  /\ pc = "delete"
  /\ todo = {}
  /\ pc' = "finalize"
  /\ UNCHANGED <<world, key, cluster, status, faults, snap, todo, unit, results, failed, returned>>

\* The errors come back as one.
TeardownReturns ==
  /\ pc = "delete"
  /\ todo = {}
  /\ IF failed THEN Return(TRUE) ELSE pc' = "finalize" /\ UNCHANGED <<key, returned>>
  /\ UNCHANGED <<world, cluster, status, faults, snap, todo, unit, results, failed>>

\* Teardown returned nil: the controller (external) removes the finalizer.
Finalize ==
  /\ pc = "finalize"
  /\ cr' = [cr EXCEPT !.exists = FALSE]
  /\ Return(FALSE)
  /\ UNCHANGED <<image, cluster, status, faults, snap, todo, unit, results, failed>>

-----------------------------------------------------------------------------
(* Failure.                                                                *)

\* Applying a unit's objects or reading its Deployment fails.
UnitCallFails ==
  /\ \/ pc = "apply" /\ \E u \in todo : UnitFails(u)
     \/ pc \in {"service", "ready"} /\ UnitFails(unit)
  /\ UNCHANGED <<key, failed, returned>>

\* Teardown goes on to the Service of a unit whose Deployment it cannot delete.
DeploymentStays ==
  /\ pc = "delete"
  /\ \E u \in todo : unit' = u
  /\ failed' = TRUE
  /\ pc' = "deleteService"
  /\ UNCHANGED <<key, todo, results, returned>>

ServiceStays ==
  /\ pc = "deleteService"
  /\ failed' = TRUE
  /\ todo' = todo \ {unit}
  /\ unit' = None
  /\ pc' = "delete"
  /\ UNCHANGED <<key, results, returned>>

\* The status cannot be written, or the finalizer not be removed.
LastCallFails ==
  /\ (pc = "apply" /\ todo = {}) \/ pc = "finalize"
  /\ Return(TRUE)
  /\ UNCHANGED <<todo, unit, results, failed>>

\* The call the handler is about to make fails.
ApiError ==
  /\ faults < MaxFaults
  /\ faults' = faults + 1
  /\ UnitCallFails \/ DeploymentStays \/ ServiceStays \/ LastCallFails
  /\ UNCHANGED <<world, cluster, status, snap>>

\* The process restarts: the Command is gone, every CR is listed anew.
Crash ==
  /\ faults < MaxFaults
  /\ faults' = faults + 1
  /\ pc # "idle" \/ ~key
  /\ pc' = "idle"
  /\ key' = TRUE
  /\ todo' = {}
  /\ unit' = None
  /\ UNCHANGED <<world, cluster, status, snap, results, failed, returned>>

-----------------------------------------------------------------------------
Init ==
  /\ cr \in [exists : {TRUE}, deleting : {FALSE}, spec : Specs]
  /\ image = [u \in Units |-> None]
  /\ key = TRUE
  /\ deploy = [u \in Units |-> None]
  /\ service = [u \in Units |-> FALSE]
  /\ available = [u \in Units |-> FALSE]
  /\ status = [phase |-> "none", units |-> NoResults, ready |-> "none", reconciling |-> FALSE]
  /\ faults = 0
  /\ pc = "idle"
  /\ snap = [spec |-> cr.spec, image |-> image]
  /\ todo = {}
  /\ unit = None
  /\ results = NoResults
  /\ failed = FALSE
  /\ returned = "none"

World ==
  \/ \E s \in Specs : EditSpec(s)
  \/ DeleteCR
  \/ \E u \in Units, i \in Images : PushImage(u, i)
  \/ \E u \in Units : Rollout(u)

Handle ==
  \/ Start
  \/ ApplyDeployment
  \/ ApplyService
  \/ IsReady
  \/ WriteStatus
  \/ DeleteDeployment
  \/ DeleteService
  \/ TeardownReturns
  \/ Finalize

Next == World \/ Handle \/ ApiError \/ Crash

Spec == Init /\ [][Next]_vars

\* The workqueue hands out its keys, requeued ones included, and the handler
\* goes on.  Users, builds and replicas owe nothing.
FairSpec == Spec /\ WF_vars(Handle)

-----------------------------------------------------------------------------
TypeOK ==
  /\ cr \in [exists : BOOLEAN, deleting : BOOLEAN, spec : Specs]
  /\ image \in [Units -> Images \cup {None}]
  /\ key \in BOOLEAN
  /\ deploy \in [Units -> Images \cup {None}]
  /\ service \in [Units -> BOOLEAN]
  /\ available \in [Units -> BOOLEAN]
  /\ status \in [phase : UnitPhases, units : [Units -> UnitPhases],
                 ready : {"none", "True", "False"}, reconciling : BOOLEAN]
  /\ faults \in 0 .. MaxFaults
  /\ pc \in {"idle"} \cup Applying \cup Deleting
  /\ snap \in [spec : Specs, image : [Units -> Images \cup {None}]]
  /\ todo \subseteq snap.spec.units
  /\ unit \in todo \cup {None}
  /\ results \in [Units -> UnitPhases]
  /\ failed \in BOOLEAN
  /\ returned \in {"none", "ok", "error"}

\* A reconcile that returns nil has applied every unit of the contract, with the
\* image it resolved to, although a unit that fails neither stops the loop nor
\* comes back from Execute as an error (service.go: "Returning only the result
\* of the status write would tell the caller a deployment that could not be
\* applied had succeeded").
SuccessIsComplete ==
  [][pc = "apply" /\ pc' = "idle" /\ returned' = "ok" =>
       \A u \in snap.spec.units : deploy[u] = snap.image[u] /\ service[u]]_vars

\* The contract and the conditions of the status do not part: a phase Failed is
\* never beside Ready=True, and what the contract says of a unit that did not
\* fail is in the cluster, also after edits, faults and restarts.
StatusIsTrue ==
  /\ status.phase = "Failed" => status.ready = "False"
  /\ status.phase = "Ready" => \A u \in Units : status.units[u] \in {"none", "Ready"}
  /\ cr.exists /\ ~cr.deleting =>
       \A u \in Units : status.units[u] \in {"Deploying", "Ready"} => Applied(u)

\* The finalizer goes only when every object of the contract torn down is gone:
\* errors do not get lost between the units.
TeardownIsComplete ==
  ~cr.exists => \A u \in snap.spec.units : Absent(u)

Wanted(u) ==
  /\ cr.exists /\ ~cr.deleting
  /\ u \in cr.spec.units \ Rejected
  /\ Supports(cr.spec.strategy) /\ Builds

\* What the CR asks for is applied unless the CR asks for something else first:
\* a unit that can never be applied holds up no other.
DeclaredIsApplied == \A u \in Units : Wanted(u) ~> (Applied(u) \/ ~Wanted(u))

\* service.go: "Teardown removes what Reconcile applied for the Deployment."
TeardownLeavesNothing == ~cr.exists => \A u \in Units : Absent(u)

\* command.go: "CmdDelete is dispatched when an object is being removed.  Domains
\* use this to perform [...] child resource teardown, or finalizer processing."
DeletionIsTornDown == cr.deleting ~> ~cr.exists
=============================================================================
