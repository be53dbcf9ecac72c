---------------------- MODULE DeploymentReconcile_proofs ----------------------
(***************************************************************************)
(* Proofs about DeploymentReconcile, for any ServiceUnits, contracts and   *)
(* images, whichever units the API server refuses and however many calls   *)
(* fail.                                                                   *)
(***************************************************************************)
EXTENDS DeploymentReconcile, TLAPS

\* A handler works on a CR that is there; it deletes only for one that is being
\* deleted, and in between two calls for a unit that unit is still to be done.
HandlerInv ==
  /\ pc # "idle" => cr.exists
  /\ pc \in Deleting => cr.deleting
  /\ pc \in {"service", "ready", "deleteService"} => unit \in todo
  /\ pc # "idle" => returned = "none"

\* What the loop of Reconcile has done so far: each unit of the contract is
\* still to come or has a result, which tells of its objects unless it failed.
ApplyInv ==
  /\ \A u \in Units : results[u] # "none" => u \in snap.spec.units
  /\ pc \in Applying =>
       /\ \A u \in snap.spec.units : snap.image[u] # None
       /\ Supports(snap.spec.strategy) =>
            \A u \in snap.spec.units : u \in todo \/ results[u] # "none"
       /\ \A u \in Units : results[u] \in {"Deploying", "Ready"} =>
            deploy[u] = snap.image[u] /\ service[u]
  /\ pc \in {"service", "ready"} => deploy[unit] = snap.image[unit]
  /\ pc = "ready" => service[unit]

\* What the loop of Teardown has done so far, if nothing failed.
DeleteInv ==
  /\ pc \in {"delete", "deleteService"} /\ ~failed =>
       \A u \in snap.spec.units : u \in todo \/ Absent(u)
  /\ pc = "deleteService" /\ ~failed => deploy[unit] = None
  /\ pc = "finalize" => \A u \in snap.spec.units : Absent(u)

IInv ==
  /\ TypeOK
  /\ HandlerInv
  /\ ApplyInv
  /\ DeleteInv
  /\ StatusIsTrue
  /\ TeardownIsComplete
-----------------------------------------------------------------------------
\* The initial states satisfy every part.
LEMMA InitInv == Init => IInv
<1> SUFFICES ASSUME Init PROVE IInv
  OBVIOUS
<1>1. cr \in [exists : BOOLEAN, deleting : BOOLEAN, spec : Specs] /\ cr.exists
  BY DEF Init
<1> USE DeploymentAssumption DEF Init, NoResults, UnitPhases
<1>2. TypeOK
  <2>1. image \in [Units -> Images \cup {None}] /\ results \in [Units -> UnitPhases]
    OBVIOUS
  <2>2. snap \in [spec : Specs, image : [Units -> Images \cup {None}]]
    BY <1>1, <2>1
  <2>3. status \in [phase : UnitPhases, units : [Units -> UnitPhases],
                    ready : {"none", "True", "False"}, reconciling : BOOLEAN]
    BY <2>1
  <2>4. deploy \in [Units -> Images \cup {None}] /\ available \in [Units -> BOOLEAN]
    OBVIOUS
  <2>5. service \in [Units -> BOOLEAN] /\ faults \in 0 .. MaxFaults
    OBVIOUS
  <2>6. /\ pc = "idle" /\ todo = {} /\ unit = None
        /\ key \in BOOLEAN /\ failed \in BOOLEAN /\ returned = "none"
    OBVIOUS
  <2> HIDE DEF Init
  <2> QED
    BY <1>1, <2>1, <2>2, <2>3, <2>4, <2>5, <2>6 DEF TypeOK
<1>3. HandlerInv /\ ApplyInv /\ DeleteInv
  BY <1>1 DEF HandlerInv, ApplyInv, DeleteInv, Applying, Deleting
<1>4. StatusIsTrue /\ TeardownIsComplete
  BY <1>1 DEF StatusIsTrue, TeardownIsComplete
<1> QED
  BY <1>2, <1>3, <1>4 DEF IInv

\* Types are preserved.
LEMMA TypePreserved == TypeOK /\ HandlerInv /\ [Next]_vars => TypeOK'
<1> SUFFICES ASSUME TypeOK, HandlerInv, [Next]_vars PROVE TypeOK'
  OBVIOUS
<1> USE DeploymentAssumption DEF TypeOK, Applying, Deleting, UnitPhases, world, cluster, locals
<1>1. ASSUME NEW c \in [exists : BOOLEAN, deleting : BOOLEAN, spec : Specs], ChangeCR(c)
      PROVE TypeOK'
  BY <1>1 DEF ChangeCR, MeaningfulChange
<1>2. CASE World
  <2>1. ASSUME NEW s \in Specs, EditSpec(s) PROVE TypeOK'
    BY <1>1, <2>1 DEF EditSpec
  <2>2. CASE DeleteCR
    BY <1>1, <2>2 DEF DeleteCR
  <2>3. ASSUME NEW u \in Units, NEW i \in Images, PushImage(u, i) PROVE TypeOK'
    BY <2>3 DEF PushImage
  <2>4. ASSUME NEW u \in Units, Rollout(u) PROVE TypeOK'
    BY <2>4 DEF Rollout
  <2> QED
    BY <1>2, <2>1, <2>2, <2>3, <2>4 DEF World
<1>3. ASSUME NEW u \in Units, NEW phase \in UnitPhases, UnitDone(u, phase),
             snap' = snap, pc \in Applying
      PROVE /\ results' \in [Units -> UnitPhases]
            /\ todo' \subseteq snap'.spec.units
            /\ unit' \in todo' \cup {None}
            /\ pc' \in {"idle"} \cup Applying \cup Deleting
  BY <1>3 DEF UnitDone
<1>4. CASE Handle
  <2>1. CASE Start
    <3>1. snap' \in [spec : Specs, image : [Units -> Images \cup {None}]]
      BY <2>1 DEF Start
    <3>2. cr.exists => todo' \subseteq snap'.spec.units
      BY <2>1 DEF Start, Return
    <3>3. ~cr.exists => todo' \subseteq snap'.spec.units
      BY <2>1 DEF Start, Return
    <3>4. /\ pc' \in {"idle"} \cup Applying \cup Deleting
          /\ returned' \in {"none", "ok", "error"}
          /\ key' \in BOOLEAN
      BY <2>1 DEF Start, Return
    <3> QED
      BY <2>1, <3>1, <3>2, <3>3, <3>4 DEF Start, NoResults
  <2>2. CASE ApplyDeployment
    <3>1. PICK u \in todo : deploy' = [deploy EXCEPT ![u] = snap.image[u]] /\ unit' = u
      BY <2>2 DEF ApplyDeployment
    <3>2. u \in Units
      BY <3>1
    <3> QED
      BY <2>2, <3>1, <3>2 DEF ApplyDeployment
  <2>3. CASE ApplyService
    <3>1. unit \in Units
      BY <2>3 DEF ApplyService, HandlerInv
    <3> QED
      <4>1. CASE unit \in Rejected
        BY <1>3, <2>3, <3>1, <4>1 DEF ApplyService, UnitFails
      <4>2. CASE unit \notin Rejected
        <5>1. service' \in [Units -> BOOLEAN] /\ pc' = "ready"
          BY <2>3, <4>2 DEF ApplyService
        <5>2. UNCHANGED <<world, key, deploy, available, status, faults, snap, failed,
                          returned, todo, unit, results>>
          BY <2>3, <4>2 DEF ApplyService
        <5> QED
          BY <5>1, <5>2
      <4> QED
        BY <4>1, <4>2
  <2>4. CASE IsReady
    <3>1. unit \in Units
      BY <2>4 DEF IsReady, HandlerInv
    <3> QED
      BY <1>3, <2>4, <3>1 DEF IsReady
  <2>5. CASE WriteStatus
    <3> DEFINE Statuses == [phase : UnitPhases, units : [Units -> UnitPhases],
                            ready : {"none", "True", "False"}, reconciling : BOOLEAN]
    <3>1. DerivePhase(snap.spec.units) \in UnitPhases
      BY DEF DerivePhase
    <3>2. ASSUME NEW s \in Statuses, NEW err, NEW phase
          PROVE DeriveCondition(s, err, phase) \in Statuses
      BY <3>2 DEF DeriveCondition
    <3>3. [status EXCEPT !.phase = DerivePhase(snap.spec.units), !.units = results] \in Statuses
      BY <3>1
    <3>4. status' \in Statuses
      BY <2>5, <3>2, <3>3 DEF WriteStatus
    <3> QED
      BY <2>5, <3>4 DEF WriteStatus, Return
  <2>6. CASE DeleteDeployment
    <3>1. UNCHANGED <<world, key, service, status, faults, snap, todo, results, returned>>
      BY <2>6 DEF DeleteDeployment
    <3>2. pc' \in {"idle"} \cup Applying \cup Deleting
      BY <2>6 DEF DeleteDeployment
    <3>3. PICK u \in todo :
            /\ unit' = u
            /\ \/ failed' = TRUE /\ UNCHANGED <<deploy, available>>
               \/ /\ deploy' = [deploy EXCEPT ![u] = None]
                  /\ available' = [available EXCEPT ![u] = FALSE]
                  /\ UNCHANGED failed
      BY <2>6, Zenon DEF DeleteDeployment
    <3>4. /\ deploy' \in [Units -> Images \cup {None}]
          /\ available' \in [Units -> BOOLEAN]
      BY <3>3
    <3>5. unit' \in todo /\ failed' \in BOOLEAN
      BY <3>3
    <3> QED
      BY <3>1, <3>2, <3>4, <3>5
  <2>7. CASE DeleteService
    BY <2>7 DEF DeleteService, HandlerInv
  <2>8. CASE TeardownReturns
    BY <2>8 DEF TeardownReturns, Return
  <2>9. CASE Finalize
    BY <2>9 DEF Finalize, Return
  <2> QED
    BY <1>4, <2>1, <2>2, <2>3, <2>4, <2>5, <2>6, <2>7, <2>8, <2>9 DEF Handle
<1>5. CASE ApiError
  <2>1. ASSUME NEW u \in todo, pc \in Applying, UnitDone(u, "Failed"),
               UNCHANGED <<key, failed, returned>>
        PROVE  TypeOK'
    BY <1>3, <1>5, <2>1 DEF ApiError
  <2>2. CASE UnitCallFails
    <3>1. PICK u \in todo : UnitDone(u, "Failed")
      BY <2>2 DEF UnitCallFails, UnitFails, HandlerInv
    <3> QED
      BY <2>1, <2>2, <3>1 DEF UnitCallFails
  <2>3. CASE DeploymentStays
    BY <1>5, <2>3 DEF ApiError, DeploymentStays
  <2>4. CASE ServiceStays
    BY <1>5, <2>4 DEF ApiError, ServiceStays
  <2>5. CASE LastCallFails
    BY <1>5, <2>5 DEF ApiError, LastCallFails, Return
  <2> QED
    BY <1>5, <2>2, <2>3, <2>4, <2>5 DEF ApiError
<1>6. CASE Crash
  BY <1>6 DEF Crash
<1>7. CASE UNCHANGED vars
  BY <1>7 DEF vars
<1> QED
  BY <1>2, <1>4, <1>5, <1>6, <1>7 DEF Next

-----------------------------------------------------------------------------
\* What happens outside the handler leaves it, the objects and the status alone.
LEMMA WorldKeeps ==
  ASSUME TypeOK, World
  PROVE  /\ UNCHANGED <<locals, deploy, service, status, returned>>
         /\ cr'.exists = cr.exists
         /\ cr.deleting => cr'.deleting
<1> DEFINE Keeps == /\ UNCHANGED <<locals, deploy, service, status, returned>>
                    /\ cr'.exists = cr.exists
                    /\ cr.deleting => cr'.deleting
<1>1. ASSUME NEW c, ChangeCR(c), c.exists = cr.exists, cr.deleting => c.deleting PROVE Keeps
  BY <1>1 DEF ChangeCR, cluster
<1>2. ASSUME NEW s \in Specs, EditSpec(s) PROVE Keeps
  <2>1. [cr EXCEPT !.spec = s].exists = cr.exists /\ [cr EXCEPT !.spec = s].deleting = cr.deleting
    BY DEF TypeOK
  <2> QED
    BY <1>1, <1>2, <2>1 DEF EditSpec
<1>3. CASE DeleteCR
  <2>1. [cr EXCEPT !.deleting = TRUE].exists = cr.exists /\ [cr EXCEPT !.deleting = TRUE].deleting
    BY DEF TypeOK
  <2> QED
    BY <1>1, <1>3, <2>1 DEF DeleteCR
<1>4. ASSUME NEW u \in Units, Rollout(u) PROVE Keeps
  BY <1>4 DEF Rollout, world
<1>5. ASSUME NEW u \in Units, NEW i \in Images, PushImage(u, i) PROVE Keeps
  BY <1>5 DEF PushImage, cluster
<1>6. CASE \E s \in Specs : EditSpec(s)
  BY <1>2, <1>6
<1>7. CASE \E u \in Units, i \in Images : PushImage(u, i)
  BY <1>5, <1>7
<1>8. CASE \E u \in Units : Rollout(u)
  BY <1>4, <1>8
<1> QED
  BY <1>3, <1>6, <1>7, <1>8 DEF World

\* A failing call ends the unit or the Command and changes no object.
LEMMA ErrorKeeps ==
  ASSUME HandlerInv, ApiError
  PROVE  /\ UNCHANGED <<world, cluster, status, snap>>
         /\ pc # "idle"
         /\ pc' # "idle" => UNCHANGED returned
         /\ \/ /\ pc \in Applying /\ pc' = "apply" /\ UNCHANGED failed
               /\ \E u \in todo : /\ todo' = todo \ {u}
                                 /\ results' = [results EXCEPT ![u] = "Failed"]
            \/ /\ pc = "delete" /\ pc' = "deleteService" /\ failed'
               /\ unit' \in todo /\ UNCHANGED <<todo, results>>
            \/ /\ pc = "deleteService" /\ pc' = "delete" /\ failed'
               /\ UNCHANGED results
            \/ pc' = "idle" /\ UNCHANGED results
<1>1. CASE UnitCallFails
  BY <1>1 DEF ApiError, UnitCallFails, UnitFails, UnitDone, HandlerInv, Applying
<1>2. CASE ~UnitCallFails
  BY <1>2 DEF ApiError, DeploymentStays, ServiceStays, LastCallFails, Return
<1> QED
  BY <1>1, <1>2 DEF ApiError

\* A handler's CR does not go away under it.
LEMMA HandlerPreserved == TypeOK /\ HandlerInv /\ [Next]_vars => HandlerInv'
<1> SUFFICES ASSUME TypeOK, HandlerInv, [Next]_vars PROVE HandlerInv'
  OBVIOUS
<1> USE DEF HandlerInv, Applying, Deleting
<1>1. CASE World
  BY <1>1, WorldKeeps DEF locals
<1>2. CASE Handle
  <2>1. CASE Start
    BY <2>1 DEF Start, Return, world
  <2>2. CASE ApplyDeployment \/ ApplyService \/ IsReady
    BY <2>2 DEF ApplyDeployment, ApplyService, IsReady, UnitFails, UnitDone, world
  <2>3. CASE WriteStatus \/ TeardownReturns \/ Finalize
    BY <2>3 DEF WriteStatus, TeardownReturns, Finalize, Return, world
  <2>4. CASE DeleteDeployment \/ DeleteService
    BY <2>4 DEF DeleteDeployment, DeleteService, world
  <2> QED
    BY <1>2, <2>1, <2>2, <2>3, <2>4 DEF Handle
<1>3. CASE ApiError
  BY <1>3, ErrorKeeps DEF world
<1>4. CASE Crash
  BY <1>4 DEF Crash, world
<1>5. CASE UNCHANGED vars
  BY <1>5 DEF vars, world, locals
<1> QED
  BY <1>1, <1>2, <1>3, <1>4, <1>5 DEF Next

\* Each unit of the contract is still to come or has its result; while the loop
\* runs, only it writes the units' objects.
LEMMA ApplyPreserved == TypeOK /\ HandlerInv /\ ApplyInv /\ [Next]_vars => ApplyInv'
<1> SUFFICES ASSUME TypeOK, HandlerInv, ApplyInv, [Next]_vars PROVE ApplyInv'
  OBVIOUS
<1> USE DeploymentAssumption DEF Applying
<1>0. \A u \in todo : u \in Units /\ u \in snap.spec.units
  BY DEF TypeOK
<1>1. CASE World
  BY <1>1, WorldKeeps DEF ApplyInv, locals
<1>2. CASE Handle
  <2>1. CASE Start
    <3>1. results' = NoResults
      BY <2>1 DEF Start
    <3>2. CASE pc' = "apply"
      <4>1. /\ cr.exists /\ Builds
            /\ snap' = [spec |-> cr.spec, image |-> image]
            /\ todo' = IF Supports(cr.spec.strategy) THEN cr.spec.units ELSE {}
        BY <2>1, <3>2 DEF Start, Return
      <4>2. /\ snap'.spec = cr.spec /\ snap'.image = image
        BY <4>1
      <4> QED
        BY <3>1, <3>2, <4>1, <4>2 DEF ApplyInv, NoResults, Builds
    <3>3. CASE pc' # "apply"
      <4>1. pc' \in {"idle", "delete"}
        BY <2>1, <3>3 DEF Start, Return
      <4> QED
        BY <3>1, <4>1 DEF ApplyInv, NoResults
    <3> QED
      BY <3>2, <3>3
  <2>2. CASE ApplyDeployment
    <3>1. PICK u \in todo : deploy' = [deploy EXCEPT ![u] = snap.image[u]] /\ unit' = u
      BY <2>2 DEF ApplyDeployment
    <3> QED
      BY <1>0, <2>2, <3>1 DEF ApplyDeployment, ApplyInv, TypeOK
  <2>3. CASE ApplyService
    <3>1. unit \in Units /\ unit \in snap.spec.units
      BY <1>0, <2>3 DEF ApplyService, HandlerInv
    <3> QED
      BY <2>3, <3>1 DEF ApplyService, UnitFails, UnitDone, ApplyInv, TypeOK
  <2>4. CASE IsReady
    <3>1. unit \in Units /\ unit \in snap.spec.units
      BY <1>0, <2>4 DEF IsReady, HandlerInv
    <3> QED
      BY <2>4, <3>1 DEF IsReady, UnitDone, ApplyInv, TypeOK, cluster
  <2>5. CASE WriteStatus \/ TeardownReturns \/ Finalize
    BY <2>5 DEF WriteStatus, TeardownReturns, Finalize, Return, ApplyInv
  <2>6. CASE DeleteDeployment \/ DeleteService
    BY <2>6 DEF DeleteDeployment, DeleteService, ApplyInv
  <2> QED
    BY <1>2, <2>1, <2>2, <2>3, <2>4, <2>5, <2>6 DEF Handle
<1>3. CASE ApiError
  <2>1. CASE pc' = "apply"
    <3>1. PICK u \in todo : /\ todo' = todo \ {u}
                            /\ results' = [results EXCEPT ![u] = "Failed"]
      BY <1>3, <2>1, ErrorKeeps
    <3>2. pc \in Applying /\ UNCHANGED <<snap, deploy, service>>
      BY <1>3, <2>1, ErrorKeeps DEF cluster
    <3> QED
      BY <1>0, <2>1, <3>1, <3>2 DEF ApplyInv, TypeOK
  <2>2. CASE pc' # "apply"
    BY <1>3, <2>2, ErrorKeeps DEF ApplyInv
  <2> QED
    BY <2>1, <2>2
<1>4. CASE Crash
  BY <1>4 DEF Crash, ApplyInv
<1>5. CASE UNCHANGED vars
  BY <1>5 DEF vars, locals, cluster, ApplyInv
<1> QED
  BY <1>1, <1>2, <1>3, <1>4, <1>5 DEF Next

\* What the loop of Teardown has passed is gone, unless it has an error to report.
LEMMA DeletePreserved == TypeOK /\ HandlerInv /\ DeleteInv /\ [Next]_vars => DeleteInv'
<1> SUFFICES ASSUME TypeOK, HandlerInv, DeleteInv, [Next]_vars PROVE DeleteInv'
  OBVIOUS
<1> USE DeploymentAssumption DEF Absent
<1>0. \A u \in snap.spec.units : u \in Units
  BY DEF TypeOK
<1>1. CASE World
  BY <1>1, WorldKeeps DEF DeleteInv, locals
<1>2. CASE Handle
  <2>1. CASE Start
    <3>1. CASE pc' = "delete"
      <4>1. snap' = [spec |-> cr.spec, image |-> image] /\ todo' = cr.spec.units
        BY <2>1, <3>1 DEF Start, Return
      <4> QED
        BY <3>1, <4>1 DEF DeleteInv
    <3>2. CASE pc' # "delete"
      <4>1. pc' \in {"idle", "apply"}
        BY <2>1, <3>2 DEF Start, Return
      <4> QED
        BY <4>1 DEF DeleteInv
    <3> QED
      BY <3>1, <3>2
  <2>2. CASE ApplyDeployment \/ ApplyService \/ IsReady \/ WriteStatus
    <3>1. pc' \in {"idle", "apply", "service", "ready"}
      BY <2>2 DEF ApplyDeployment, ApplyService, IsReady, WriteStatus, UnitFails, UnitDone, Return
    <3> QED
      BY <3>1 DEF DeleteInv
  <2>3. CASE DeleteDeployment
    <3>1. PICK u \in todo : /\ unit' = u
                            /\ ~failed' => deploy' = [deploy EXCEPT ![u] = None] /\ ~failed
      BY <2>3 DEF DeleteDeployment
    <3>2. u \in Units
      BY <1>0, <3>1 DEF TypeOK
    <3> QED
      BY <1>0, <2>3, <3>1, <3>2 DEF DeleteDeployment, DeleteInv, TypeOK
  <2>4. CASE DeleteService
    <3>1. unit \in Units
      BY <1>0, <2>4 DEF DeleteService, HandlerInv, TypeOK
    <3> QED
      BY <1>0, <2>4, <3>1 DEF DeleteService, DeleteInv, TypeOK
  <2>5. CASE TeardownReturns
    BY <2>5 DEF TeardownReturns, Return, DeleteInv, cluster
  <2>6. CASE Finalize
    BY <2>6 DEF Finalize, Return, DeleteInv
  <2> QED
    BY <1>2, <2>1, <2>2, <2>3, <2>4, <2>5, <2>6 DEF Handle
<1>3. CASE ApiError
  BY <1>3, ErrorKeeps DEF DeleteInv
<1>4. CASE Crash
  BY <1>4 DEF Crash, DeleteInv
<1>5. CASE UNCHANGED vars
  BY <1>5 DEF vars, locals, cluster, DeleteInv
<1> QED
  BY <1>1, <1>2, <1>3, <1>4, <1>5 DEF Next

\* The status changes only when a reconcile writes it, and then tells what its
\* loop has found; objects go only once the CR is being deleted.
LEMMA StatusPreserved ==
  TypeOK /\ HandlerInv /\ ApplyInv /\ StatusIsTrue /\ [Next]_vars => StatusIsTrue'
<1> SUFFICES ASSUME TypeOK, HandlerInv, ApplyInv, StatusIsTrue, [Next]_vars PROVE StatusIsTrue'
  OBVIOUS
<1> USE DeploymentAssumption DEF Applied
<1>1. CASE World
  BY <1>1, WorldKeeps DEF StatusIsTrue
<1>2. CASE Handle
  <2>1. CASE Start \/ IsReady \/ TeardownReturns
    BY <2>1 DEF Start, IsReady, TeardownReturns, StatusIsTrue, world, cluster
  <2>2. CASE ApplyDeployment
    <3>1. PICK u \in todo : deploy' = [deploy EXCEPT ![u] = snap.image[u]]
      BY <2>2 DEF ApplyDeployment
    <3>2. snap.image[u] # None
      BY <2>2, <3>1 DEF ApplyDeployment, ApplyInv, Applying, TypeOK
    <3> QED
      BY <2>2, <3>1, <3>2 DEF ApplyDeployment, StatusIsTrue, TypeOK, world
  <2>3. CASE ApplyService
    BY <2>3 DEF ApplyService, StatusIsTrue, TypeOK, world
  <2>4. CASE WriteStatus
    <3> DEFINE units == snap.spec.units
               phase == DerivePhase(units)
    <3>1. CASE Supports(snap.spec.strategy)
      <4>1. /\ status'.phase = phase
            /\ status'.units = results
            /\ phase = "Failed" => status'.ready = "False"
        <5> DEFINE contract == [status EXCEPT !.phase = phase, !.units = results]
        <5>1. contract \in [phase : {phase}, units : {results},
                            ready : {"none", "True", "False"}, reconciling : BOOLEAN]
          BY DEF TypeOK
        <5>2. status' = DeriveCondition(contract, phase = "Failed", phase)
          BY <2>4, <3>1 DEF WriteStatus, ExecFails
        <5> HIDE DEF contract, phase
        <5> QED
          BY <5>1, <5>2 DEF DeriveCondition
      <4>2. phase = "Ready" => \A u \in Units : results[u] \in {"none", "Ready"}
        BY DEF DerivePhase, ApplyInv
      <4>3. \A u \in Units : results[u] \in {"Deploying", "Ready"} => Applied(u)
        BY <2>4 DEF WriteStatus, ApplyInv, Applying
      <4> QED
        BY <2>4, <4>1, <4>2, <4>3 DEF WriteStatus, StatusIsTrue, world, cluster
    <3>2. CASE ~Supports(snap.spec.strategy)
      <4>1. status' = [status EXCEPT !.ready = "False"]
        BY <2>4, <3>2 DEF WriteStatus, ExecFails, DeriveCondition
      <4>2. /\ UNCHANGED <<status.phase, status.units>>
            /\ status'.ready = "False"
        BY <4>1 DEF TypeOK
      <4> QED
        BY <2>4, <4>2 DEF WriteStatus, StatusIsTrue, world, cluster
    <3> QED
      BY <3>1, <3>2
  <2>5. CASE DeleteDeployment \/ DeleteService
    <3>1. cr.deleting /\ UNCHANGED <<cr, status>>
      BY <2>5 DEF DeleteDeployment, DeleteService, HandlerInv, Deleting, world
    <3> QED
      BY <3>1 DEF StatusIsTrue
  <2>6. CASE Finalize
    <3>1. ~cr'.exists /\ UNCHANGED status
      BY <2>6 DEF Finalize, TypeOK
    <3> QED
      BY <3>1 DEF StatusIsTrue
  <2> QED
    BY <1>2, <2>1, <2>2, <2>3, <2>4, <2>5, <2>6 DEF Handle
<1>3. CASE ApiError
  BY <1>3, ErrorKeeps DEF StatusIsTrue, world, cluster
<1>4. CASE Crash
  BY <1>4 DEF Crash, StatusIsTrue, world, cluster
<1>5. CASE UNCHANGED vars
  BY <1>5 DEF vars, world, cluster, StatusIsTrue
<1> QED
  BY <1>1, <1>2, <1>3, <1>4, <1>5 DEF Next

\* Once the CR is gone nothing touches the objects.
LEMMA TeardownPreserved ==
  TypeOK /\ HandlerInv /\ DeleteInv /\ TeardownIsComplete /\ [Next]_vars
    => TeardownIsComplete'
<1> SUFFICES ASSUME TypeOK, HandlerInv, DeleteInv, TeardownIsComplete, [Next]_vars,
                    ~cr'.exists
             PROVE  \A u \in snap'.spec.units : Absent(u)'
  BY DEF TeardownIsComplete
<1> USE DEF Absent
<1>1. CASE World
  BY <1>1, WorldKeeps DEF TeardownIsComplete, locals
<1>2. CASE Start
  BY <1>2 DEF Start, TeardownIsComplete, world, cluster
<1>3. CASE Finalize
  BY <1>3 DEF Finalize, DeleteInv, cluster
<1>4. CASE Handle /\ ~Start /\ ~Finalize
  <2>1. pc # "idle" /\ UNCHANGED cr
    BY <1>4 DEF Handle, ApplyDeployment, ApplyService, IsReady, WriteStatus, DeleteDeployment,
                DeleteService, TeardownReturns, world
  <2> QED
    BY <2>1 DEF HandlerInv
<1>5. CASE ApiError
  BY <1>5, ErrorKeeps DEF TeardownIsComplete, world, cluster
<1>6. CASE Crash
  BY <1>6 DEF Crash, TeardownIsComplete, world, cluster
<1>7. CASE UNCHANGED vars
  BY <1>7 DEF vars, world, cluster, locals, TeardownIsComplete
<1> QED
  BY <1>1, <1>2, <1>3, <1>4, <1>5, <1>6, <1>7 DEF Next

-----------------------------------------------------------------------------
\* IInv holds in every reachable state: what the two loops know of the cluster is
\* true whenever the world moves between two calls.
THEOREM Inductive == Spec => []IInv
<1>1. IInv /\ [Next]_vars => IInv'
  BY TypePreserved, HandlerPreserved, ApplyPreserved, DeletePreserved, StatusPreserved,
     TeardownPreserved DEF IInv
<1> QED
  BY <1>1, InitInv, PTL DEF Spec

\* Type correctness.
THEOREM TypeCorrect == Spec => []TypeOK
<1>1. IInv => TypeOK
  BY DEF IInv
<1> QED
  BY <1>1, Inductive, PTL

\* The status never shows a failed phase as ready, nor an object that is not there.
THEOREM StatusCorrect == Spec => []StatusIsTrue
<1>1. IInv => StatusIsTrue
  BY DEF IInv
<1> QED
  BY <1>1, Inductive, PTL

\* The finalizer goes only when everything of the contract torn down is gone.
THEOREM TeardownCorrect == Spec => []TeardownIsComplete
<1>1. IInv => TeardownIsComplete
  BY DEF IInv
<1> QED
  BY <1>1, Inductive, PTL

\* A reconcile that returns nil has applied every unit of its contract.
THEOREM SuccessCorrect == Spec => SuccessIsComplete
<1> DEFINE Complete == \A u \in snap.spec.units : deploy[u] = snap.image[u] /\ service[u]
           Succeeds == pc = "apply" /\ pc' = "idle" /\ returned' = "ok"
<1>1. IInv /\ [Next]_vars => [Succeeds => Complete]_vars
  <2> SUFFICES ASSUME IInv, Next, Succeeds PROVE Complete
    BY DEF vars
  <2> USE DEF IInv
  <2>1. WriteStatus /\ ~ExecFails
    <3>1. ~World
      BY WorldKeeps DEF locals
    <3>2. ~ApiError
      BY DEF ApiError, UnitCallFails, UnitFails, UnitDone, DeploymentStays, ServiceStays,
             LastCallFails, Return
    <3>3. ~Crash
      <4>1. returned # "ok"
        BY DEF HandlerInv
      <4> QED
        BY <4>1 DEF Crash
    <3>4. Handle
      BY <3>1, <3>2, <3>3 DEF Next
    <3> QED
      BY <3>4 DEF Handle, Start, ApplyDeployment, ApplyService, IsReady, WriteStatus,
                  DeleteDeployment, DeleteService, TeardownReturns, Finalize, Return
  <2>2. \A u \in snap.spec.units : u \in Units /\ results[u] \in {"Deploying", "Ready"}
    <3>1. pc = "apply" /\ todo = {} /\ Supports(snap.spec.strategy)
      BY <2>1 DEF WriteStatus, ExecFails
    <3>2. \A u \in snap.spec.units : results[u] # "Failed"
      BY <2>1 DEF ExecFails, DerivePhase
    <3>3. \A u \in snap.spec.units : results[u] # "none"
      BY <3>1 DEF ApplyInv, Applying
    <3>4. /\ \A u \in snap.spec.units : u \in Units
          /\ results \in [Units -> UnitPhases]
      BY DeploymentAssumption DEF TypeOK
    <3> QED
      BY <3>2, <3>3, <3>4 DEF UnitPhases
  <2> QED
    BY <2>1, <2>2 DEF WriteStatus, ApplyInv, Applying
<1> QED
  BY <1>1, Inductive, PTL DEF Spec, SuccessIsComplete
=============================================================================
