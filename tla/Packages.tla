------------------------------ MODULE Packages ------------------------------
(***************************************************************************)
(* pkg/apis/packages and pkg/serviceaccounts: Package CRs, and for each a  *)
(* ServiceAccount, a ClusterRoleBinding and a kapp App that is deployed    *)
(* and removed with the rights these two give.                             *)
(*                                                                         *)
(* One handler works on one Package at a time; each call that another      *)
(* process can come between is an action.  The controller that makes the   *)
(* calls is not in this repository: that it reconciles account and binding *)
(* before the App, and deletes them after Teardown has returned nil, is    *)
(* what the comments of service.go and application.go ask of it.  What the *)
(* App fetches, the secrets it fetches with and the labels are left out.   *)
(* A Package is not edited once it is being deleted, nor made again.       *)
(***************************************************************************)
EXTENDS Naturals, Sequences

CONSTANTS
  Packages,   \* identities of Packages, their namespaces and names as the
              \* sequences of their parts between dashes
  Specs,      \* contracts
  Unresolved, \* contracts ResolvePackage refuses
  Roles,      \* names of ClusterRoles the process may be configured with
  MaxFaults,  \* bound on failed calls and restarts
  None

ASSUME IdentityAssumption ==
  Packages \subseteq [namespace : Seq(STRING), name : Seq(STRING)]

ASSUME PackagesAssumption ==
  /\ Unresolved \subseteq Specs
  /\ MaxFaults \in Nat
  /\ None \notin Packages /\ None \notin Specs /\ None \notin Roles

VARIABLES
  cr,         \* [Packages -> the CR: exists, deleting, spec (None: there never is one)]
  key,        \* [Packages -> the CR's key is in the controller's workqueue]
  role,       \* the ClusterRole configured, None: none is
  account,    \* [Packages -> the ServiceAccount exists]
  binding,    \* [BindingNames -> the ClusterRoleBinding of that name]
  app,        \* [Packages -> the kapp App: none, live or deleting]
  report,     \* [Packages -> what the App's conditions say]
  deployed,   \* [Packages -> something the App deployed is in the cluster]
  faults,
  pc,
  at,         \* the Package the handler works on
  outcome     \* the Succeeded condition it has to write; nothing here reads it again

kapp   == <<app, report, deployed>>
rights == <<account, binding>>
locals == <<pc, at, outcome>>
vars   == <<cr, key, role, rights, kapp, faults, locals>>

Tearing    == {"teardown", "gone", "unbind", "unaccount", "finalize"}
Preparing  == {"account", "binding", "replace", "apply", "observe", "status"}
Conditions == {"none", "True", "False", "Unknown"}

\* The parts joined with dashes, without the constant prefix.
DeployerBindingName(p) == p.namespace \o p.name

BindingNames == {DeployerBindingName(p) : p \in Packages}

Unbound == [subject |-> None, role |-> None]

\* What the App of p may do, it may do as this account with this binding.
Rights(p) == account[p] /\ binding[DeployerBindingName(p)].subject = p

\* No other Package's binding has the name of p's.
OwnName(p) == \A q \in Packages \ {p} :
  cr[q].spec # None => DeployerBindingName(q) # DeployerBindingName(p)

-----------------------------------------------------------------------------
(* Users, kapp-controller, the garbage collector (external).               *)

\* The manager's event filter, for a Package.
MeaningfulChange(old, new) == old.spec # new.spec

ChangeCR(p, c) ==
  /\ cr[p].exists /\ ~cr[p].deleting
  /\ cr' = [cr EXCEPT ![p] = c]
  /\ key' = [key EXCEPT ![p] = @ \/ MeaningfulChange(cr[p], c)]
  /\ UNCHANGED <<role, rights, kapp, faults, locals>>

EditSpec(p, s) == s # cr[p].spec /\ ChangeCR(p, [cr[p] EXCEPT !.spec = s])

DeleteCR(p) == ChangeCR(p, [cr[p] EXCEPT !.deleting = TRUE])

\* kapp-controller deploys what the App says; it may fail half way.
KappDeploys(p) ==
  /\ app[p] = "live" /\ Rights(p)
  /\ deployed' = [deployed EXCEPT ![p] = TRUE]
  /\ \E r \in {"Succeeded", "Failed"} : report' = [report EXCEPT ![p] = r]
  /\ UNCHANGED <<cr, key, role, rights, app, faults, locals>>

\* It fails before it deploys anything.
KappFails(p) ==
  /\ app[p] = "live"
  /\ report' = [report EXCEPT ![p] = "Failed"]
  /\ UNCHANGED <<cr, key, role, rights, app, deployed, faults, locals>>

\* It lets go of an App when it has removed what that App deployed.
KappDeletes(p) ==
  /\ app[p] = "deleting"
  /\ deployed[p] => Rights(p)
  /\ app' = [app EXCEPT ![p] = "none"]
  /\ deployed' = [deployed EXCEPT ![p] = FALSE]
  /\ report' = [report EXCEPT ![p] = "none"]
  /\ UNCHANGED <<cr, key, role, rights, faults, locals>>

\* The Package owns its ServiceAccount; it cannot own its binding.
CollectGarbage(p) ==
  /\ ~cr[p].exists /\ account[p]
  /\ account' = [account EXCEPT ![p] = FALSE]
  /\ UNCHANGED <<cr, key, role, binding, kapp, faults, locals>>

-----------------------------------------------------------------------------
(* The reconcile: account, binding, PackageService.Reconcile.              *)

\* The handler is done with the Package; an error requeues its key.
Return(err) ==
  /\ pc' = "idle"
  /\ at' = None
  /\ outcome' = "none"
  /\ key' = [key EXCEPT ![at] = @ \/ err]

Resolves(p) == cr[p].spec \notin Unresolved

\* A contract that does not resolve keeps the key in the queue.  A Package that
\* is being deleted is torn down by its identity.
Start(p) ==
  /\ pc = "idle"
  /\ key[p]
  /\ \/ /\ cr[p].exists /\ ~cr[p].deleting /\ Resolves(p)
        /\ pc' = "account" /\ at' = p
        /\ key' = [key EXCEPT ![p] = FALSE]
     \/ /\ cr[p].exists /\ cr[p].deleting
        /\ pc' = "teardown" /\ at' = p
        /\ key' = [key EXCEPT ![p] = FALSE]
     \/ /\ ~cr[p].exists
        /\ key' = [key EXCEPT ![p] = FALSE]
        /\ UNCHANGED <<pc, at>>
  /\ UNCHANGED <<cr, role, rights, kapp, faults, outcome>>

EnsureAccount ==
  /\ pc = "account"
  /\ account' = [account EXCEPT ![at] = TRUE]
  /\ pc' = "binding"
  /\ UNCHANGED <<cr, key, role, binding, kapp, faults, at, outcome>>

Bind(p) ==
  binding' = [binding EXCEPT ![DeployerBindingName(p)] = [subject |-> p, role |-> role]]

\* A roleRef is immutable: the binding to another role has to go first.
OtherRole(p) ==
  /\ binding[DeployerBindingName(p)] # Unbound
  /\ binding[DeployerBindingName(p)].role # role

\* Mutant: nobody asks whether a role is configured.
EnsureBindingUnconfigured ==
  /\ pc = "binding"
  /\ Bind(at)
  /\ pc' = "apply"
  /\ UNCHANGED <<cr, key, role, account, kapp, faults, at, outcome>>

\* Mutant: the next reconcile is left to create what this one deleted.
EnsureBindingLater ==
  /\ pc = "binding"
  /\ role # None
  /\ IF OtherRole(at)
       THEN binding' = [binding EXCEPT ![DeployerBindingName(at)] = Unbound]
       ELSE Bind(at)
  /\ pc' = "apply"
  /\ UNCHANGED <<cr, key, role, account, kapp, faults, at, outcome>>

EnsureBinding ==
  /\ pc = "binding"
  /\ \/ /\ role = None
        /\ Return(TRUE)
        /\ UNCHANGED binding
     \/ /\ role # None /\ OtherRole(at)
        /\ binding' = [binding EXCEPT ![DeployerBindingName(at)] = Unbound]
        /\ pc' = "replace"
        /\ UNCHANGED <<key, at, outcome>>
     \/ /\ role # None /\ ~OtherRole(at)
        /\ Bind(at)
        /\ pc' = "apply"
        /\ UNCHANGED <<key, at, outcome>>
  /\ UNCHANGED <<cr, role, account, kapp, faults>>

ReplaceBinding ==
  /\ pc = "replace"
  /\ Bind(at)
  /\ pc' = "apply"
  /\ UNCHANGED <<cr, key, role, account, kapp, faults, at, outcome>>

\* Server-side apply creates the App or brings it up to date.
ApplyApplication ==
  /\ pc = "apply"
  /\ app' = [app EXCEPT ![at] = IF @ = "none" THEN "live" ELSE @]
  /\ pc' = "observe"
  /\ UNCHANGED <<cr, key, role, rights, report, deployed, faults, at, outcome>>

\* The conditions the App has at the moment, also those on an earlier contract.
Observed(r) ==
  IF r = "Succeeded" THEN "True" ELSE IF r = "Failed" THEN "False" ELSE "Unknown"

ObserveApplication ==
  /\ pc = "observe"
  /\ outcome' = Observed(report[at])
  /\ pc' = "status"
  /\ UNCHANGED <<cr, key, role, rights, kapp, faults, at>>

\* Reconcile returns what the status write returns.
WriteStatus ==
  /\ pc = "status"
  /\ Return(FALSE)
  /\ UNCHANGED <<cr, role, rights, kapp, faults>>

-----------------------------------------------------------------------------
(* The deletion: PackageService.Teardown, then binding and account.        *)

DeleteApplication ==
  /\ pc = "teardown"
  /\ app' = [app EXCEPT ![at] = IF @ = "none" THEN "none" ELSE "deleting"]
  /\ pc' = "gone"
  /\ UNCHANGED <<cr, key, role, rights, report, deployed, faults, at, outcome>>

\* Mutant: an App deleted is an App gone.
AppGoneUnread ==
  /\ pc = "gone"
  /\ pc' = "unbind"
  /\ UNCHANGED <<cr, key, role, rights, kapp, faults, at, outcome>>

\* Mutant: nobody asks again.
AppGoneOnce ==
  /\ pc = "gone"
  /\ IF app[at] = "none" THEN pc' = "unbind" /\ UNCHANGED <<key, at, outcome>> ELSE Return(FALSE)
  /\ UNCHANGED <<cr, role, rights, kapp, faults>>

\* ErrTeardownInProgress: the caller asks again and keeps account and binding.
AppGone ==
  /\ pc = "gone"
  /\ IF app[at] = "none" THEN pc' = "unbind" /\ UNCHANGED <<key, at, outcome>> ELSE Return(TRUE)
  /\ UNCHANGED <<cr, role, rights, kapp, faults>>

\* Mutant: the binding is left to the garbage collector.
DeleteBindingNot ==
  /\ pc = "unbind"
  /\ pc' = "unaccount"
  /\ UNCHANGED <<cr, key, role, rights, kapp, faults, at, outcome>>

\* Without a resolved contract Delete does nothing and returns nil.
DeleteBinding ==
  /\ pc = "unbind"
  /\ binding' = IF Resolves(at)
                  THEN [binding EXCEPT ![DeployerBindingName(at)] = Unbound]
                  ELSE binding
  /\ pc' = "unaccount"
  /\ UNCHANGED <<cr, key, role, account, kapp, faults, at, outcome>>

DeleteAccount ==
  /\ pc = "unaccount"
  /\ account' = [account EXCEPT ![at] = @ /\ ~Resolves(at)]
  /\ pc' = "finalize"
  /\ UNCHANGED <<cr, key, role, binding, kapp, faults, at, outcome>>

\* The controller (external) removes the finalizer.
Finalize ==
  /\ pc = "finalize"
  /\ cr' = [cr EXCEPT ![at].exists = FALSE]
  /\ Return(FALSE)
  /\ UNCHANGED <<role, rights, kapp, faults>>

-----------------------------------------------------------------------------
(* Failure.                                                                *)

\* A provider that fails is a status to write, not an error to return.
ExecuteFails ==
  /\ pc \in {"apply", "observe"}
  /\ outcome' = "False"
  /\ pc' = "status"
  /\ UNCHANGED <<key, at>>

CallFails ==
  /\ pc \notin {"idle", "apply", "observe"}
  /\ Return(TRUE)

ApiError ==
  /\ faults < MaxFaults
  /\ faults' = faults + 1
  /\ ExecuteFails \/ CallFails
  /\ UNCHANGED <<cr, role, rights, kapp>>

\* A restart, with the same or another ClusterRole: every CR is listed anew.
Restart(r) ==
  /\ faults < MaxFaults
  /\ faults' = faults + 1
  /\ role' = r
  /\ key' = [p \in Packages |-> cr[p].exists]
  /\ pc' = "idle"
  /\ at' = None
  /\ outcome' = "none"
  /\ UNCHANGED <<cr, rights, kapp>>

-----------------------------------------------------------------------------
Init ==
  /\ \E spec \in [Packages -> Specs \cup {None}] :
       /\ cr = [p \in Packages |->
                  [exists |-> spec[p] # None, deleting |-> FALSE, spec |-> spec[p]]]
       /\ key = [p \in Packages |-> spec[p] # None]
  /\ role \in Roles \cup {None}
  /\ account = [p \in Packages |-> FALSE]
  /\ binding = [n \in BindingNames |-> Unbound]
  /\ app = [p \in Packages |-> "none"]
  /\ report = [p \in Packages |-> "none"]
  /\ deployed = [p \in Packages |-> FALSE]
  /\ faults = 0
  /\ pc = "idle"
  /\ at = None
  /\ outcome = "none"

World ==
  \E p \in Packages :
    \/ \E s \in Specs : EditSpec(p, s)
    \/ DeleteCR(p)
    \/ KappDeploys(p)
    \/ KappFails(p)
    \/ KappDeletes(p)
    \/ CollectGarbage(p)

Work ==
  \/ EnsureAccount
  \/ EnsureBinding
  \/ ReplaceBinding
  \/ ApplyApplication
  \/ ObserveApplication
  \/ WriteStatus
  \/ DeleteApplication
  \/ AppGone
  \/ DeleteBinding
  \/ DeleteAccount
  \/ Finalize

Next ==
  \/ World
  \/ \E p \in Packages : Start(p)
  \/ Work
  \/ ApiError
  \/ \E r \in Roles : Restart(r)

Spec == Init /\ [][Next]_vars

\* The handler goes on, no key waits for ever while others come and go, and
\* kapp-controller removes an App it is able to remove.
FairSpec ==
  /\ Spec
  /\ WF_vars(Work)
  /\ \A p \in Packages : SF_vars(Start(p)) /\ WF_vars(KappDeletes(p))

-----------------------------------------------------------------------------
Bindings == [subject : Packages, role : Roles] \cup {Unbound}

TypeOK ==
  /\ cr \in [Packages -> [exists : BOOLEAN, deleting : BOOLEAN, spec : Specs \cup {None}]]
  /\ key \in [Packages -> BOOLEAN]
  /\ role \in Roles \cup {None}
  /\ account \in [Packages -> BOOLEAN]
  /\ binding \in [BindingNames -> Bindings]
  /\ app \in [Packages -> {"none", "live", "deleting"}]
  /\ report \in [Packages -> {"none", "Succeeded", "Failed"}]
  /\ deployed \in [Packages -> BOOLEAN]
  /\ faults \in 0 .. MaxFaults
  /\ pc \in {"idle"} \cup Preparing \cup Tearing
  /\ at \in Packages \cup {None}
  /\ outcome \in Conditions

\* An App keeps the rights it is removed with until it is gone, but for the
\* moment in which its binding is replaced (application.go: "so the caller keeps
\* that service account until a later call finds the App gone").
AppKeepsItsRights ==
  [][\A p \in Packages :
       OwnName(p) /\ app[p] # "none" /\ Rights(p) =>
         Rights(p)' \/ (at = p /\ pc' = "replace")]_vars

\* Nothing but Delete removes a binding, which no Package can own: none outlives
\* the last Package it has the name of, unless that one's contract did not
\* resolve when it was torn down.
NoStrayBinding ==
  \A n \in BindingNames : binding[n] # Unbound =>
    \E p \in Packages :
      /\ DeployerBindingName(p) = n
      /\ cr[p].exists \/ ~Resolves(p)

\* What is about to be written as succeeded has succeeded once and is still in
\* the cluster, whatever kapp-controller does between the reading and the writing.
StatusIsEarned == pc = "status" /\ outcome = "True" => deployed[at]

Wanted(p) ==
  cr[p].exists /\ ~cr[p].deleting /\ Resolves(p) /\ role # None /\ OwnName(p)

\* A binding is replaced by two calls: whatever fails between them, the Package
\* gets its rights back.
RightsComeBack == \A p \in Packages : Wanted(p) ~> (Rights(p) \/ ~Wanted(p))

\* A deletion the controller was woken for completes, over as many reconciles as
\* kapp-controller takes, if the App has its rights when it begins.
DeletionCompletes ==
  \A p \in Packages :
    (/\ OwnName(p) /\ cr[p].exists /\ cr[p].deleting
     /\ key[p] /\ at # p
     /\ app[p] # "none" => Rights(p)) ~> ~cr[p].exists
=============================================================================
