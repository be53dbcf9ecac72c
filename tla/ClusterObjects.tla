---------------------------- MODULE ClusterObjects ----------------------------
(***************************************************************************)
(* Custom resources and the objects their reconcilers keep in the cluster, *)
(* over edits, deletions and creations under the same name, with failing   *)
(* calls and restarts, next to the controllers that work on the same       *)
(* objects: the External Secrets Operator, cert-manager and the garbage    *)
(* collector.                                                              *)
(*                                                                         *)
(* The controller that calls the reconcilers is not in this repository. As *)
(* their comments ask, it handles a CR in one worker at a time, calls one  *)
(* reconciler after the other up to the first error, tries again after an  *)
(* error, and lets a deleted CR go when all teardowns have returned nil.   *)
(***************************************************************************)
EXTENDS SequencesExt, Provisioning

CONSTANTS
  Crs,         \* namespaces and names of the CRs
  Changing,    \* those that are edited, deleted and created again
  Setups,      \* which reconcilers the CRs have, and the contracts tried for each
  MaxChanges,  \* bound on edits, deletions and creations
  MaxFaults    \* bound on failing calls and restarts

\* The calls of a list of reconcilers, and of their teardowns, one after the other.
Reconciles(parts, c, s) ==
  FlattenSeq([i \in DOMAIN parts |-> Reconcile(parts[i], c, s)])
Teardowns(parts, c, s) ==
  FlattenSeq([i \in DOMAIN parts |-> Teardown(parts[i], c, s)])

IsAsk(call) == call.op \notin {"delete", "refuse"}

\* CRs live in namespaces of their own, and have contracts that resolve.
ASSUME ClusterObjectsAssumption ==
  /\ Changing \subseteq Crs
  /\ Crs \subseteq [ns : STRING, name : STRING]
  /\ \A c \in Crs : c.ns \notin {"", "argo-events", "crossplane-system"}
  /\ \A x \in Setups :
       /\ x.parts \in Seq(Parts)
       /\ \A c \in Crs : \A s \in x.specs[c] : IsResolved(x.parts, s)
  /\ MaxChanges \in Nat /\ MaxFaults \in Nat

VARIABLES
  setup,
  spec,        \* CR -> its contract
  phase,       \* CR -> live, deleting (held by a finalizer) or gone
  wake,        \* CR -> its key is in the workqueue
  doing,       \* CR -> what its worker does
  todo,        \* CR -> the calls that are left of it
  outcome,     \* CR -> how the last reconcile of its contract ended
  dropped,     \* CR -> objects that an edit no longer asks for
  cluster,     \* object -> its value, its owner, and whether it is ready
  sync,        \* what the External Secrets Operator is writing
  changes, faults

crs == <<spec, phase, dropped>>
worker == <<doing, todo, outcome>>
vars == <<setup, crs, wake, worker, cluster, sync, changes, faults>>

NoOwner == Nowhere
Gone == Object("gone", "", <<>>)   \* an owner that does not exist any more
CrObject(c) == Object("cr", c.ns, <<c.name>>)
NoSync == [of |-> Nowhere, value |-> <<>>, stale |-> FALSE]

Specs(c) == setup.specs[c]
ReconcilePlan(c, s) == Reconciles(setup.parts, c, s)
TeardownPlan(c, s) == Teardowns(setup.parts, c, s)

\* The calls by which a contract asks for objects, and the objects.
Asks(c, s) == {call \in Range(ReconcilePlan(c, s)) : IsAsk(call)}
Wanted(c, s) == {call.object : call \in Asks(c, s)}

\* Nobody else has a say in an object that is not shared by design: no contract of c
\* asks for it twice, and none of another CR has a call about it.
Undisputed(c, o) ==
  /\ \A s \in Specs(c) : \A a, b \in Range(ReconcilePlan(c, s)) :
       a.object = o /\ b.object = o => a = b
  /\ \/ IsShared(o)
     \/ \A d \in Crs \ {c} : \A t \in Specs(d) :
          \A b \in Range(ReconcilePlan(d, t)) \cup Range(TeardownPlan(d, t)) : b.object # o

Init ==
  /\ setup \in Setups
  /\ spec \in {f \in [Crs -> UNION {Specs(c) : c \in Crs}] : \A c \in Crs : f[c] \in Specs(c)}
  /\ phase = [c \in Crs |-> "live"]
  /\ wake = [c \in Crs |-> TRUE]
  /\ doing = [c \in Crs |-> "idle"]
  /\ todo = [c \in Crs |-> <<>>]
  /\ outcome = [c \in Crs |-> "none"]
  /\ dropped = [c \in Crs |-> {}]
  /\ cluster = <<>>
  /\ sync = NoSync
  /\ changes = 0
  /\ faults = 0

----------------------------------------------------------------------------
(* The CRs. A deletion that a finalizer holds is an update with an equal    *)
(* spec, which the event filter drops.                                      *)

Edit(c) ==
  /\ phase[c] = "live" /\ changes < MaxChanges
  /\ \E s \in Specs(c) \ {spec[c]} :
       /\ spec' = [spec EXCEPT ![c] = s]
       /\ dropped' = [dropped EXCEPT ![c] = @ \cup (Wanted(c, spec[c]) \ Wanted(c, s))]
  /\ wake' = [wake EXCEPT ![c] = TRUE]
  /\ doing' = [doing EXCEPT ![c] = IF @ = "reconcile" THEN "outdated" ELSE @]
  /\ outcome' = [outcome EXCEPT ![c] = "none"]
  /\ changes' = changes + 1
  /\ UNCHANGED <<setup, phase, todo, cluster, sync, faults>>

DeleteCr(c) ==
  /\ phase[c] = "live" /\ changes < MaxChanges
  /\ phase' = [phase EXCEPT ![c] = "deleting"]
  /\ changes' = changes + 1
  /\ UNCHANGED <<setup, spec, dropped, wake, worker, cluster, sync, faults>>

Recreate(c) ==
  /\ phase[c] = "gone" /\ changes < MaxChanges
  /\ phase' = [phase EXCEPT ![c] = "live"]
  /\ spec' \in {[spec EXCEPT ![c] = s] : s \in Specs(c)}
  /\ wake' = [wake EXCEPT ![c] = TRUE]
  /\ changes' = changes + 1
  /\ UNCHANGED <<setup, dropped, worker, cluster, sync, faults>>

\* A resync, or an event of another object; one that comes while the CR is
\* worked on may as well come right after.
Wake(c) ==
  /\ phase[c] # "gone" /\ ~wake[c] /\ doing[c] = "idle"
  /\ wake' = [wake EXCEPT ![c] = TRUE]
  /\ UNCHANGED <<setup, crs, worker, cluster, sync, changes, faults>>

----------------------------------------------------------------------------
(* The calls.                                                               *)

\* What depended on an object that is removed has no owner any more.
Without(objects) ==
  [o \in DOMAIN cluster \ objects |->
     IF cluster[o].owner \in objects THEN [cluster[o] EXCEPT !.owner = Gone] ELSE cluster[o]]

\* An object is written.
With(object, state) ==
  [o \in DOMAIN cluster \cup {object} |-> IF o = object THEN state ELSE cluster[o]]

StaleSync(objects) ==
  IF sync.of \in objects THEN [sync EXCEPT !.stale = TRUE] ELSE sync

Created(c, call) ==
  [value |-> call.value, owner |-> IF call.owned THEN CrObject(c) ELSE NoOwner, ready |-> FALSE]

\* An account's pull secret is set and never cleared, nor is an Ingress's TLS.
\* Only "apply" takes an owned object over from another owner.
Updated(c, call, old) ==
  IF call.op = "create" \/ (call.op = "account" /\ call.value = <<"">>) THEN old
  ELSE IF call.op = "ingress" /\ Len(call.value) = 1
         THEN [old EXCEPT !.value = call.value \o Tail(old.value)]
  ELSE [old EXCEPT !.value = call.value,
                   !.owner = IF call.op = "apply" /\ call.owned THEN CrObject(c) ELSE @]

After(c, call) ==
  IF call.op = "delete" THEN Without({call.object})
  ELSE With(call.object, IF call.object \in DOMAIN cluster
                           THEN Updated(c, call, cluster[call.object])
                           ELSE Created(c, call))

Ends(c, result) ==
  /\ doing' = [doing EXCEPT ![c] = "idle"]
  /\ todo' = [todo EXCEPT ![c] = <<>>]
  /\ outcome' = [outcome EXCEPT ![c] = IF doing[c] = "reconcile" THEN result ELSE @]

Current(c) == Head(todo[c])

Start(c) ==
  /\ wake[c] /\ doing[c] = "idle" /\ phase[c] # "gone"
  /\ wake' = [wake EXCEPT ![c] = FALSE]
  /\ \/ /\ phase[c] = "live"
        /\ doing' = [doing EXCEPT ![c] = "reconcile"]
        /\ todo' = [todo EXCEPT ![c] = ReconcilePlan(c, spec[c])]
     \/ /\ phase[c] = "deleting"
        /\ doing' = [doing EXCEPT ![c] = "teardown"]
        /\ todo' = [todo EXCEPT ![c] = TeardownPlan(c, spec[c])]
  /\ UNCHANGED <<setup, crs, outcome, cluster, sync, changes, faults>>

\* The Certificate as CreateOrUpdate returned it is not ready.
Awaits(c) ==
  /\ Current(c).op = "certify"
  /\ ~After(c, Current(c))[Current(c).object].ready

Step(c) ==
  /\ todo[c] # <<>> /\ Current(c).op # "refuse" /\ ~Awaits(c)
  /\ cluster' = After(c, Current(c))
  /\ sync' = IF Current(c).op = "delete" THEN StaleSync({Current(c).object}) ELSE sync
  /\ todo' = [todo EXCEPT ![c] = Tail(@)]
  /\ UNCHANGED <<setup, crs, wake, doing, outcome, changes, faults>>

\* ErrCertProvisioning: conditions are written, and the controller tries again.
AwaitCertificate(c) ==
  /\ todo[c] # <<>> /\ Awaits(c)
  /\ cluster' = After(c, Current(c))
  /\ Ends(c, "provisioning")
  /\ wake' = [wake EXCEPT ![c] = TRUE]
  /\ UNCHANGED <<setup, crs, sync, changes, faults>>

\* Mutant: the error of any reconciler ends in a condition.
SwallowsAny(c) ==
  /\ Ends(c, "failed")
  /\ UNCHANGED wake

\* The services of GitHubEvents, GitRepositories, Domains and Routes make an
\* error a condition and return nil; the others return it, as every teardown does.
EndsInError(c) ==
  /\ Ends(c, "failed")
  /\ wake' = IF Current(c).quiet THEN wake ELSE [wake EXCEPT ![c] = TRUE]

Refused(c) ==
  /\ todo[c] # <<>> /\ Current(c).op = "refuse"
  /\ EndsInError(c)
  /\ UNCHANGED <<setup, crs, cluster, sync, changes, faults>>

\* Mutant: a teardown passes over the error.
PassesOver(c) ==
  /\ doing[c] = "teardown" /\ todo[c] # <<>> /\ faults < MaxFaults
  /\ Current(c).op # "refuse"
  /\ todo' = [todo EXCEPT ![c] = Tail(@)]
  /\ faults' = faults + 1
  /\ UNCHANGED <<setup, crs, wake, doing, outcome, cluster, sync, changes>>

\* A call fails, or its answer is lost after it was carried out.
Fails(c) ==
  /\ todo[c] # <<>> /\ Current(c).op # "refuse" /\ faults < MaxFaults
  /\ \/ UNCHANGED <<cluster, sync>>
     \/ /\ cluster' = After(c, Current(c))
        /\ sync' = IF Current(c).op = "delete" THEN StaleSync({Current(c).object}) ELSE sync
  /\ EndsInError(c)
  /\ faults' = faults + 1
  /\ UNCHANGED <<setup, crs, changes>>

Return(c) ==
  /\ doing[c] \in {"reconcile", "outdated"} /\ todo[c] = <<>>
  /\ Ends(c, "ready")
  /\ UNCHANGED <<setup, crs, wake, cluster, sync, changes, faults>>

\* The conditions of these three are persisted; a GitRepository's are not.
StatusFails(c) ==
  /\ doing[c] \in {"reconcile", "outdated"} /\ todo[c] = <<>>
  /\ Last(setup.parts) \in {"githubevent", "domain", "route"} /\ faults < MaxFaults
  /\ Ends(c, "failed")
  /\ wake' = [wake EXCEPT ![c] = TRUE]
  /\ faults' = faults + 1
  /\ UNCHANGED <<setup, crs, cluster, sync, changes>>

LetGo(c) ==
  /\ doing[c] = "teardown" /\ todo[c] = <<>>
  /\ phase' = [phase EXCEPT ![c] = "gone"]
  /\ cluster' = Without({CrObject(c)})
  /\ doing' = [doing EXCEPT ![c] = "idle"]
  /\ outcome' = [outcome EXCEPT ![c] = "none"]
  /\ wake' = [wake EXCEPT ![c] = FALSE]
  /\ UNCHANGED <<setup, spec, dropped, todo, sync, changes, faults>>

\* The process starts again and lists all CRs.
Restart ==
  /\ faults < MaxFaults
  /\ doing' = [c \in Crs |-> "idle"]
  /\ todo' = [c \in Crs |-> <<>>]
  /\ wake' = [c \in Crs |-> phase[c] # "gone"]
  /\ faults' = faults + 1
  /\ UNCHANGED <<setup, crs, outcome, cluster, sync, changes>>

----------------------------------------------------------------------------
(* The others. The operator creates the Secret of an ExternalSecret and     *)
(* keeps it up to date, but leaves alone a Secret that is another's; the    *)
(* collector removes what had an owner that is gone.                        *)

StartSync(e) ==
  /\ sync = NoSync /\ e.kind = "ExternalSecret"
  /\ LET t == TargetOf(e) IN
       t \in DOMAIN cluster => cluster[t].owner = e /\ cluster[t].value # cluster[e].value
  /\ sync' = [of |-> e, value |-> cluster[e].value, stale |-> FALSE]
  /\ UNCHANGED <<setup, crs, wake, worker, cluster, changes, faults>>

EndSync ==
  /\ sync # NoSync
  /\ LET t == TargetOf(sync.of)
         owner == IF sync.stale THEN Gone ELSE sync.of IN
       IF t \in DOMAIN cluster /\ (sync.stale \/ cluster[t].owner # sync.of)
         THEN UNCHANGED cluster
         ELSE cluster' = With(t, [value |-> sync.value, owner |-> owner, ready |-> FALSE])
  /\ sync' = NoSync
  /\ UNCHANGED <<setup, crs, wake, worker, changes, faults>>

Collect(o) ==
  /\ cluster[o].owner = Gone
  /\ cluster' = Without({o})
  /\ sync' = StaleSync({o})
  /\ UNCHANGED <<setup, crs, wake, worker, changes, faults>>

Issue(o) ==
  /\ o.kind = "Certificate" /\ ~cluster[o].ready
  /\ cluster' = [cluster EXCEPT ![o].ready = TRUE]
  /\ UNCHANGED <<setup, crs, wake, worker, sync, changes, faults>>

----------------------------------------------------------------------------
Work(c) ==
  Start(c) \/ Step(c) \/ AwaitCertificate(c) \/ Refused(c) \/ Return(c) \/ LetGo(c)

Next ==
  \/ \E c \in Crs : Work(c) \/ Fails(c) \/ StatusFails(c) \/ Wake(c)
  \/ \E c \in Changing : Edit(c) \/ DeleteCr(c) \/ Recreate(c)
  \/ Restart
  \/ \E o \in DOMAIN cluster : StartSync(o) \/ Collect(o) \/ Issue(o)
  \/ EndSync

Spec == Init /\ [][Next]_vars

Fairness ==
  /\ \A c \in Crs : WF_vars(Work(c))
  /\ WF_vars(\E o \in DOMAIN cluster : StartSync(o))
  /\ WF_vars(EndSync)
  /\ WF_vars(\E o \in DOMAIN cluster : Collect(o))

FairSpec == Spec /\ Fairness
----------------------------------------------------------------------------
(* An owner is a CR or an ExternalSecret of the same namespace: Kubernetes  *)
(* knows no other owners of a namespaced object and none of a               *)
(* cluster-scoped one. A CR that is gone has no work left.                  *)
TypeOK ==
  /\ setup \in Setups
  /\ phase \in [Crs -> {"live", "deleting", "gone"}]
  /\ wake \in [Crs -> BOOLEAN]
  /\ doing \in [Crs -> {"idle", "reconcile", "outdated", "teardown"}]
  /\ outcome \in [Crs -> {"none", "ready", "provisioning", "failed"}]
  /\ \A c \in Crs :
       /\ spec[c] \in Specs(c)
       /\ doing[c] = "teardown" => phase[c] = "deleting"
       /\ doing[c] = "idle" => todo[c] = <<>>
       /\ phase[c] = "gone" => doing[c] = "idle" /\ ~wake[c]
  /\ \A o \in DOMAIN cluster : cluster[o].owner \notin {NoOwner, Gone} =>
       /\ cluster[o].owner.kind \in {"cr", "ExternalSecret"}
       /\ cluster[o].owner.ns = o.ns
  /\ changes \in 0..MaxChanges /\ faults \in 0..MaxFaults

(* "RBAC and the EventSource land before the Sensor", and the Issuer before *)
(* the Certificates it issues; no teardown, of whichever CR, takes them     *)
(* away: at every moment, whatever failed before.                           *)
Needs(o) ==
  IF o.kind = "Sensor" THEN {EventStack[i] : i \in 1..4} \cup {EventSource}
  ELSE IF o.kind = "Certificate" THEN {Issuer([ns |-> o.ns])}
  ELSE {}

StackFirst == \A o \in DOMAIN cluster : Needs(o) \subseteq DOMAIN cluster

(* What a reconcile reported done is there and stays: all that the live     *)
(* CR's contract asks for is in the cluster, in the version it asks for,    *)
(* and not about to be collected, whatever teardowns of other CRs, of its   *)
(* own predecessor of that name, and the garbage collector do meanwhile.    *)
(* "create" calls keep an older version, and what CRs share holds the last  *)
(* one's. Nothing is said of an object another CR's contract names, too --  *)
(* the code does not keep names apart, and the Sensors of two GitHubEvents  *)
(* of one name in two namespaces are one --, nor of one an earlier edit     *)
(* dropped, which may come to be asked for again before it is collected.    *)
Keeps(c, call) ==
  /\ call.object \in DOMAIN cluster
  /\ cluster[call.object].owner # Gone
  /\ \/ IsShared(call.object) \/ call.op = "create"
     \/ call = [call EXCEPT !.op = "account", !.value = <<"">>]
     \/ call.op = "ingress" /\ IsPrefix(call.value, cluster[call.object].value)
     \/ cluster[call.object].value = call.value

DoneStays ==
  \A c \in Crs : phase[c] = "live" /\ outcome[c] = "ready" =>
    \A call \in Asks(c, spec[c]) :
      call.object \in dropped[c] \/ Keeps(c, call) \/ ~Undisputed(c, call.object)

(* When a CR is let go, nothing that its contract alone asks for is left    *)
(* but what the collector will remove: teardowns that failed half way, or   *)
(* were interrupted, have been made up for.                                 *)
TornDown ==
  [][\A c \in Crs : phase[c] = "deleting" /\ phase'[c] = "gone" =>
       \A o \in Wanted(c, spec[c]) :
         \/ o \notin DOMAIN cluster' \/ cluster'[o].owner = Gone
         \/ IsShared(o) \/ ~Undisputed(c, o)]_vars

(* Secrets arrive: although calls fail, the process restarts, and the CR is *)
(* deleted and created again while the Secret of its predecessor waits for  *)
(* the collector, a CR that stays has in the end every Secret its contract  *)
(* alone asks for, and they stay. This is so only of contracts none of      *)
(* whose reconcilers fails each time: a Build or GitOps Deployment that     *)
(* declares no clone secret, an imperative Deployment and a Package without *)
(* a state repository are stopped there, and later reconcilers -- a         *)
(* Deployment's Flux key -- are never called.                               *)
NeverSucceeds(c) == \E call \in Range(ReconcilePlan(c, spec[c])) : call.op = "refuse"

HasSecret(o) ==
  /\ o.kind = "ExternalSecret" =>
       /\ {o, TargetOf(o)} \subseteq DOMAIN cluster
       /\ cluster[TargetOf(o)].owner = o
  /\ o.kind = "Secret" => o \in DOMAIN cluster

HasSecrets(c) == \A o \in Wanted(c, spec[c]) : HasSecret(o) \/ ~Undisputed(c, o)

SecretsArrive ==
  \A c \in Crs : <>[](phase[c] = "live" /\ ~NeverSucceeds(c) => HasSecrets(c))
=============================================================================
