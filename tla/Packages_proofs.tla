--------------------------- MODULE Packages_proofs ---------------------------
(***************************************************************************)
(* Proofs about Packages, for any Packages, also such as have one binding  *)
(* name between them, any contracts and roles, and however many calls      *)
(* fail.                                                                   *)
(***************************************************************************)
EXTENDS Packages, TLAPS

\* A handler works on a Package that is there, tears down only one that is being
\* deleted, and binds to a role that is configured.
HandlerInv ==
  /\ at = None <=> pc = "idle"
  /\ pc # "idle" => cr[at].exists
  /\ pc \in Tearing => cr[at].deleting
  /\ pc = "replace" => role # None

\* What Teardown and the deletions after it have done so far.
TeardownInv ==
  /\ pc \in {"unbind", "unaccount", "finalize"} => app[at] = "none"
  /\ pc \in {"unaccount", "finalize"} /\ Resolves(at) =>
       binding[DeployerBindingName(at)] = Unbound

\* Of each Package: a CR that is there was made, one that is gone left no App, and
\* an App is deleted for a CR that is, never under a handler that prepares it.
PackageInv ==
  \A p \in Packages :
    /\ cr[p].exists => cr[p].spec # None
    /\ ~cr[p].exists => app[p] = "none"
    /\ app[p] = "deleting" => cr[p].deleting /\ ~(at = p /\ pc \in Preparing)

\* What an App reports it has deployed is in the cluster as long as the App is.
ReportInv ==
  /\ \A p \in Packages : report[p] = "Succeeded" => deployed[p]
  /\ \A p \in Packages : deployed[p] => app[p] # "none"
  /\ StatusIsEarned

IInv ==
  /\ TypeOK
  /\ HandlerInv
  /\ TeardownInv
  /\ PackageInv
  /\ ReportInv
  /\ NoStrayBinding
-----------------------------------------------------------------------------
\* The name of a Package's binding is one of the names.
LEMMA NameIsName == \A p \in Packages : DeployerBindingName(p) \in BindingNames
BY DEF BindingNames

\* A handler that is at work is at work on a Package.
LEMMA AtIsPackage == TypeOK /\ HandlerInv /\ pc # "idle" => at \in Packages
BY DEF TypeOK, HandlerInv

\* The initial states satisfy every part.
LEMMA InitInv == Init => IInv
<1> SUFFICES ASSUME Init PROVE IInv
  OBVIOUS
<1> PICK spec \in [Packages -> Specs \cup {None}] :
      cr = [p \in Packages |->
              [exists |-> spec[p] # None, deleting |-> FALSE, spec |-> spec[p]]]
      /\ key = [p \in Packages |-> spec[p] # None]
  BY DEF Init
<1>1. cr \in [Packages -> [exists : BOOLEAN, deleting : BOOLEAN, spec : Specs \cup {None}]]
  OBVIOUS
<1>2. TypeOK
  <2>1. binding \in [BindingNames -> Bindings]
    BY DEF Init, Bindings
  <2>2. /\ key \in [Packages -> BOOLEAN] /\ account \in [Packages -> BOOLEAN]
        /\ deployed \in [Packages -> BOOLEAN]
    BY DEF Init
  <2>3. /\ app \in [Packages -> {"none", "live", "deleting"}]
        /\ report \in [Packages -> {"none", "Succeeded", "Failed"}]
    BY DEF Init
  <2>4. /\ role \in Roles \cup {None} /\ faults \in 0 .. MaxFaults
        /\ pc = "idle" /\ at = None /\ outcome = "none"
    BY PackagesAssumption DEF Init
  <2> QED
    BY <1>1, <2>1, <2>2, <2>3, <2>4 DEF TypeOK, Conditions
<1>3. HandlerInv /\ TeardownInv
  BY DEF Init, HandlerInv, TeardownInv, Tearing
<1>4. PackageInv
  BY DEF Init, PackageInv
<1>5. ReportInv
  BY DEF Init, ReportInv, StatusIsEarned
<1>6. NoStrayBinding
  BY DEF Init, NoStrayBinding
<1> QED
  BY <1>2, <1>3, <1>4, <1>5, <1>6 DEF IInv
-----------------------------------------------------------------------------
\* Types are preserved.
LEMMA TypePreserved == TypeOK /\ HandlerInv /\ [Next]_vars => TypeOK'
<1> SUFFICES ASSUME TypeOK, HandlerInv, [Next]_vars PROVE TypeOK'
  OBVIOUS
<1> USE PackagesAssumption, NameIsName
<1>1. ASSUME NEW p \in Packages, NEW s \in Specs, EditSpec(p, s) PROVE TypeOK'
  <2>0. cr[p] \in [exists : BOOLEAN, deleting : BOOLEAN, spec : Specs \cup {None}]
    BY DEF TypeOK
  <2>1. [cr[p] EXCEPT !.spec = s] \in
          [exists : BOOLEAN, deleting : BOOLEAN, spec : Specs \cup {None}]
    BY <2>0
  <2> QED
    BY <1>1, <2>1 DEF EditSpec, ChangeCR, rights, kapp, locals, TypeOK
<1>2. ASSUME NEW p \in Packages, DeleteCR(p) PROVE TypeOK'
  <2>0. cr[p] \in [exists : BOOLEAN, deleting : BOOLEAN, spec : Specs \cup {None}]
    BY DEF TypeOK
  <2>1. [cr[p] EXCEPT !.deleting = TRUE] \in
          [exists : BOOLEAN, deleting : BOOLEAN, spec : Specs \cup {None}]
    BY <2>0
  <2> QED
    BY <1>2, <2>1 DEF DeleteCR, ChangeCR, rights, kapp, locals, TypeOK
<1>3. ASSUME NEW p \in Packages, KappDeploys(p) \/ KappFails(p) PROVE TypeOK'
  <2>1. UNCHANGED <<cr, key, role, rights, app, faults, locals>>
    BY <1>3 DEF KappDeploys, KappFails
  <2>2. report' \in [Packages -> {"none", "Succeeded", "Failed"}]
    BY <1>3 DEF KappDeploys, KappFails, TypeOK
  <2>3. deployed' \in [Packages -> BOOLEAN]
    BY <1>3 DEF KappDeploys, KappFails, TypeOK
  <2> QED
    BY <2>1, <2>2, <2>3 DEF TypeOK, rights, locals
<1>4. ASSUME NEW p \in Packages, KappDeletes(p) \/ CollectGarbage(p) PROVE TypeOK'
  BY <1>4 DEF KappDeletes, CollectGarbage, rights, kapp, locals, TypeOK
<1>5. ASSUME NEW p \in Packages, Start(p) PROVE TypeOK'
  BY <1>5 DEF Start, rights, kapp, TypeOK, Preparing, Tearing
<1> DEFINE Bound(p) == [subject |-> p, role |-> role]
<1>6. ASSUME NEW p \in Packages, role # None PROVE Bound(p) \in Bindings
  BY <1>6 DEF TypeOK, Bindings
<1>7. CASE EnsureAccount
  BY <1>7, AtIsPackage DEF EnsureAccount, kapp, TypeOK, Preparing
<1>8. CASE EnsureBinding
  <2>1. CASE role = None
    BY <1>8, <2>1, AtIsPackage DEF EnsureBinding, Return, kapp, TypeOK, Preparing, Conditions
  <2>2. CASE role # None /\ OtherRole(at)
    BY <1>8, <2>2, AtIsPackage DEF EnsureBinding, kapp, TypeOK, Preparing, Bindings
  <2>3. CASE role # None /\ ~OtherRole(at)
    <3>1. at \in Packages /\ Bound(at) \in Bindings
      BY <1>8, <2>3, <1>6, AtIsPackage DEF EnsureBinding
    <3> QED
      BY <1>8, <2>3, <3>1 DEF EnsureBinding, Bind, kapp, TypeOK, Preparing
  <2> QED
    BY <2>1, <2>2, <2>3
<1>9. CASE ReplaceBinding
  <2>1. at \in Packages /\ Bound(at) \in Bindings
    BY <1>9, <1>6, AtIsPackage DEF ReplaceBinding, HandlerInv
  <2> QED
    BY <1>9, <2>1 DEF ReplaceBinding, Bind, kapp, TypeOK, Preparing
<1>10. CASE ApplyApplication
  BY <1>10, AtIsPackage DEF ApplyApplication, rights, TypeOK, Preparing
<1>11. CASE ObserveApplication
  BY <1>11, AtIsPackage DEF ObserveApplication, Observed, rights, kapp, TypeOK, Preparing, Conditions
<1>12. CASE WriteStatus
  BY <1>12, AtIsPackage DEF WriteStatus, Return, rights, kapp, TypeOK, Conditions
<1>13. CASE DeleteApplication
  BY <1>13, AtIsPackage DEF DeleteApplication, rights, TypeOK, Tearing
<1>14. CASE AppGone
  BY <1>14, AtIsPackage DEF AppGone, Return, rights, kapp, TypeOK, Tearing, Conditions
<1>15. CASE DeleteBinding
  BY <1>15, AtIsPackage DEF DeleteBinding, kapp, TypeOK, Tearing, Bindings
<1>16. CASE DeleteAccount
  BY <1>16, AtIsPackage DEF DeleteAccount, kapp, TypeOK, Tearing
<1>17. CASE Finalize
  <2>1. at \in Packages
    BY <1>17, AtIsPackage DEF Finalize
  <2>0. cr[at] \in [exists : BOOLEAN, deleting : BOOLEAN, spec : Specs \cup {None}]
    BY <2>1 DEF TypeOK
  <2>2. [cr[at] EXCEPT !.exists = FALSE] \in
          [exists : BOOLEAN, deleting : BOOLEAN, spec : Specs \cup {None}]
    BY <2>0
  <2> QED
    BY <1>17, <2>1, <2>2 DEF Finalize, Return, rights, kapp, TypeOK, Conditions
<1>18. CASE ApiError
  <2>1. faults' \in 0 .. MaxFaults
    BY <1>18 DEF ApiError, TypeOK
  <2>2. CASE ExecuteFails
    BY <1>18, <2>1, <2>2 DEF ApiError, ExecuteFails, rights, kapp, TypeOK, Preparing, Conditions
  <2>3. CASE CallFails
    BY <1>18, <2>1, <2>3, AtIsPackage DEF ApiError, CallFails, Return, rights, kapp, TypeOK, Conditions
  <2> QED
    BY <1>18, <2>2, <2>3 DEF ApiError
<1>19. ASSUME NEW r \in Roles, Restart(r) PROVE TypeOK'
  <2>1. faults' \in 0 .. MaxFaults
    BY <1>19 DEF Restart, TypeOK
  <2>2. key' \in [Packages -> BOOLEAN]
    BY <1>19 DEF Restart, TypeOK
  <2> QED
    BY <1>19, <2>1, <2>2 DEF Restart, rights, kapp, TypeOK, Conditions
<1>20. CASE UNCHANGED vars
  BY <1>20 DEF vars, rights, kapp, locals, TypeOK
<1> QED
  BY <1>1, <1>2, <1>3, <1>4, <1>5, <1>7, <1>8, <1>9, <1>10, <1>11, <1>12, <1>13, <1>14,
     <1>15, <1>16, <1>17, <1>18, <1>19, <1>20 DEF Next, World, Work

\* A handler keeps working on the same Package, which only it can remove.
LEMMA HandlerPreserved == TypeOK /\ HandlerInv /\ [Next]_vars => HandlerInv'
<1> SUFFICES ASSUME TypeOK, HandlerInv, [Next]_vars PROVE HandlerInv'
  OBVIOUS
<1> USE AtIsPackage, NameIsName, PackagesAssumption DEF TypeOK, HandlerInv, Tearing, Preparing
<1>1. ASSUME NEW p \in Packages, \E s \in Specs : EditSpec(p, s) PROVE HandlerInv'
  BY <1>1 DEF EditSpec, ChangeCR, rights, kapp, locals
<1>2. ASSUME NEW p \in Packages, DeleteCR(p) PROVE HandlerInv'
  BY <1>2 DEF DeleteCR, ChangeCR, rights, kapp, locals
<1>3. ASSUME NEW p \in Packages, KappDeploys(p) \/ KappFails(p) PROVE HandlerInv'
  BY <1>3 DEF KappDeploys, KappFails, rights, locals
<1>4. ASSUME NEW p \in Packages, KappDeletes(p) PROVE HandlerInv'
  BY <1>4 DEF KappDeletes, rights, locals
<1>5. ASSUME NEW p \in Packages, CollectGarbage(p) PROVE HandlerInv'
  BY <1>5 DEF CollectGarbage, kapp, locals
<1>6. ASSUME NEW p \in Packages, Start(p) PROVE HandlerInv'
  BY <1>6 DEF Start, rights, kapp
<1>7. CASE EnsureAccount
  BY <1>7 DEF EnsureAccount, kapp
<1>8. CASE EnsureBinding
  BY <1>8 DEF EnsureBinding, Return, Bind, kapp
<1>9. CASE ReplaceBinding
  BY <1>9 DEF ReplaceBinding, Bind, kapp
<1>10. CASE ApplyApplication
  BY <1>10 DEF ApplyApplication, rights
<1>11. CASE ObserveApplication
  BY <1>11 DEF ObserveApplication, Observed, rights, kapp
<1>12. CASE WriteStatus
  BY <1>12 DEF WriteStatus, Return, rights, kapp
<1>13. CASE DeleteApplication
  BY <1>13 DEF DeleteApplication, rights
<1>14. CASE AppGone
  BY <1>14 DEF AppGone, Return, rights, kapp
<1>15. CASE DeleteBinding
  BY <1>15 DEF DeleteBinding, kapp
<1>16. CASE DeleteAccount
  BY <1>16 DEF DeleteAccount, kapp
<1>17. CASE Finalize
  BY <1>17 DEF Finalize, Return, rights, kapp
<1>18. CASE ApiError
  BY <1>18 DEF ApiError, ExecuteFails, CallFails, Return, rights, kapp
<1>19. ASSUME NEW r \in Roles, Restart(r) PROVE HandlerInv'
  BY <1>19 DEF Restart, rights, kapp
<1>20. CASE UNCHANGED vars
  BY <1>20 DEF vars, rights, kapp, locals
<1> QED
  BY <1>1, <1>2, <1>3, <1>4, <1>5, <1>6, <1>7, <1>8, <1>9, <1>10, <1>11, <1>12, <1>13,
     <1>14, <1>15, <1>16, <1>17, <1>18, <1>19, <1>20 DEF Next, World, Work

\* An App goes before its CR, and is deleted for a CR that is.
LEMMA PackagePreserved == TypeOK /\ HandlerInv /\ TeardownInv /\ PackageInv /\ [Next]_vars => PackageInv'
<1> SUFFICES ASSUME TypeOK, HandlerInv, TeardownInv, PackageInv, [Next]_vars PROVE PackageInv'
  OBVIOUS
<1> USE AtIsPackage, NameIsName, PackagesAssumption DEF TypeOK, HandlerInv, TeardownInv, PackageInv, Tearing, Preparing
<1>1. ASSUME NEW p \in Packages, \E s \in Specs : EditSpec(p, s) PROVE PackageInv'
  BY <1>1 DEF EditSpec, ChangeCR, rights, kapp, locals
<1>2. ASSUME NEW p \in Packages, DeleteCR(p) PROVE PackageInv'
  BY <1>2 DEF DeleteCR, ChangeCR, rights, kapp, locals
<1>3. ASSUME NEW p \in Packages, KappDeploys(p) \/ KappFails(p) PROVE PackageInv'
  BY <1>3 DEF KappDeploys, KappFails, rights, locals
<1>4. ASSUME NEW p \in Packages, KappDeletes(p) PROVE PackageInv'
  BY <1>4 DEF KappDeletes, rights, locals
<1>5. ASSUME NEW p \in Packages, CollectGarbage(p) PROVE PackageInv'
  BY <1>5 DEF CollectGarbage, kapp, locals
<1>6. ASSUME NEW p \in Packages, Start(p) PROVE PackageInv'
  BY <1>6 DEF Start, rights, kapp
<1>7. CASE EnsureAccount
  BY <1>7 DEF EnsureAccount, kapp
<1>8. CASE EnsureBinding
  BY <1>8 DEF EnsureBinding, Return, Bind, kapp
<1>9. CASE ReplaceBinding
  BY <1>9 DEF ReplaceBinding, Bind, kapp
<1>10. CASE ApplyApplication
  BY <1>10 DEF ApplyApplication, rights
<1>11. CASE ObserveApplication
  BY <1>11 DEF ObserveApplication, Observed, rights, kapp
<1>12. CASE WriteStatus
  BY <1>12 DEF WriteStatus, Return, rights, kapp
<1>13. CASE DeleteApplication
  BY <1>13 DEF DeleteApplication, rights
<1>14. CASE AppGone
  BY <1>14 DEF AppGone, Return, rights, kapp
<1>15. CASE DeleteBinding
  BY <1>15 DEF DeleteBinding, kapp
<1>16. CASE DeleteAccount
  BY <1>16 DEF DeleteAccount, kapp
<1>17. CASE Finalize
  BY <1>17 DEF Finalize, Return, rights, kapp
<1>18. CASE ApiError
  BY <1>18 DEF ApiError, ExecuteFails, CallFails, Return, rights, kapp
<1>19. ASSUME NEW r \in Roles, Restart(r) PROVE PackageInv'
  BY <1>19 DEF Restart, rights, kapp
<1>20. CASE UNCHANGED vars
  BY <1>20 DEF vars, rights, kapp, locals
<1> QED
  BY <1>1, <1>2, <1>3, <1>4, <1>5, <1>6, <1>7, <1>8, <1>9, <1>10, <1>11, <1>12, <1>13,
     <1>14, <1>15, <1>16, <1>17, <1>18, <1>19, <1>20 DEF Next, World, Work

\* What a Teardown has removed stays away as long as it is at work.
LEMMA TeardownPreserved == TypeOK /\ HandlerInv /\ TeardownInv /\ [Next]_vars => TeardownInv'
<1> SUFFICES ASSUME TypeOK, HandlerInv, TeardownInv, [Next]_vars PROVE TeardownInv'
  OBVIOUS
<1> USE AtIsPackage, NameIsName, PackagesAssumption DEF TypeOK, HandlerInv, TeardownInv, Resolves, Tearing, Preparing
<1>1. ASSUME NEW p \in Packages, \E s \in Specs : EditSpec(p, s) PROVE TeardownInv'
  BY <1>1 DEF EditSpec, ChangeCR, rights, kapp, locals
<1>2. ASSUME NEW p \in Packages, DeleteCR(p) PROVE TeardownInv'
  BY <1>2 DEF DeleteCR, ChangeCR, rights, kapp, locals
<1>3. ASSUME NEW p \in Packages, KappDeploys(p) \/ KappFails(p) PROVE TeardownInv'
  BY <1>3 DEF KappDeploys, KappFails, rights, locals
<1>4. ASSUME NEW p \in Packages, KappDeletes(p) PROVE TeardownInv'
  BY <1>4 DEF KappDeletes, rights, locals
<1>5. ASSUME NEW p \in Packages, CollectGarbage(p) PROVE TeardownInv'
  BY <1>5 DEF CollectGarbage, kapp, locals
<1>6. ASSUME NEW p \in Packages, Start(p) PROVE TeardownInv'
  BY <1>6 DEF Start, rights, kapp
<1>7. CASE EnsureAccount
  BY <1>7 DEF EnsureAccount, kapp
<1>8. CASE EnsureBinding
  BY <1>8 DEF EnsureBinding, Return, Bind, kapp
<1>9. CASE ReplaceBinding
  BY <1>9 DEF ReplaceBinding, Bind, kapp
<1>10. CASE ApplyApplication
  BY <1>10 DEF ApplyApplication, rights
<1>11. CASE ObserveApplication
  BY <1>11 DEF ObserveApplication, Observed, rights, kapp
<1>12. CASE WriteStatus
  BY <1>12 DEF WriteStatus, Return, rights, kapp
<1>13. CASE DeleteApplication
  BY <1>13 DEF DeleteApplication, rights
<1>14. CASE AppGone
  BY <1>14 DEF AppGone, Return, rights, kapp
<1>15. CASE DeleteBinding
  BY <1>15 DEF DeleteBinding, kapp
<1>16. CASE DeleteAccount
  BY <1>16 DEF DeleteAccount, kapp
<1>17. CASE Finalize
  BY <1>17 DEF Finalize, Return, rights, kapp
<1>18. CASE ApiError
  BY <1>18 DEF ApiError, ExecuteFails, CallFails, Return, rights, kapp
<1>19. ASSUME NEW r \in Roles, Restart(r) PROVE TeardownInv'
  BY <1>19 DEF Restart, rights, kapp
<1>20. CASE UNCHANGED vars
  BY <1>20 DEF vars, rights, kapp, locals
<1> QED
  BY <1>1, <1>2, <1>3, <1>4, <1>5, <1>6, <1>7, <1>8, <1>9, <1>10, <1>11, <1>12, <1>13,
     <1>14, <1>15, <1>16, <1>17, <1>18, <1>19, <1>20 DEF Next, World, Work

\* Only kapp-controller says what it deployed, and only it removes that.
LEMMA ReportPreserved == TypeOK /\ HandlerInv /\ PackageInv /\ ReportInv /\ [Next]_vars => ReportInv'
<1> SUFFICES ASSUME TypeOK, HandlerInv, PackageInv, ReportInv, [Next]_vars PROVE ReportInv'
  OBVIOUS
<1> USE AtIsPackage, NameIsName, PackagesAssumption DEF TypeOK, HandlerInv, PackageInv, ReportInv, StatusIsEarned, Tearing, Preparing
<1>1. ASSUME NEW p \in Packages, \E s \in Specs : EditSpec(p, s) PROVE ReportInv'
  BY <1>1 DEF EditSpec, ChangeCR, rights, kapp, locals
<1>2. ASSUME NEW p \in Packages, DeleteCR(p) PROVE ReportInv'
  BY <1>2 DEF DeleteCR, ChangeCR, rights, kapp, locals
<1>3. ASSUME NEW p \in Packages, KappDeploys(p) \/ KappFails(p) PROVE ReportInv'
  BY <1>3 DEF KappDeploys, KappFails, rights, locals
<1>4. ASSUME NEW p \in Packages, KappDeletes(p) PROVE ReportInv'
  BY <1>4 DEF KappDeletes, rights, locals
<1>5. ASSUME NEW p \in Packages, CollectGarbage(p) PROVE ReportInv'
  BY <1>5 DEF CollectGarbage, kapp, locals
<1>6. ASSUME NEW p \in Packages, Start(p) PROVE ReportInv'
  BY <1>6 DEF Start, rights, kapp
<1>7. CASE EnsureAccount
  BY <1>7 DEF EnsureAccount, kapp
<1>8. CASE EnsureBinding
  BY <1>8 DEF EnsureBinding, Return, Bind, kapp
<1>9. CASE ReplaceBinding
  BY <1>9 DEF ReplaceBinding, Bind, kapp
<1>10. CASE ApplyApplication
  BY <1>10 DEF ApplyApplication, rights
<1>11. CASE ObserveApplication
  BY <1>11 DEF ObserveApplication, Observed, rights, kapp
<1>12. CASE WriteStatus
  BY <1>12 DEF WriteStatus, Return, rights, kapp
<1>13. CASE DeleteApplication
  BY <1>13 DEF DeleteApplication, rights
<1>14. CASE AppGone
  BY <1>14 DEF AppGone, Return, rights, kapp
<1>15. CASE DeleteBinding
  BY <1>15 DEF DeleteBinding, kapp
<1>16. CASE DeleteAccount
  BY <1>16 DEF DeleteAccount, kapp
<1>17. CASE Finalize
  BY <1>17 DEF Finalize, Return, rights, kapp
<1>18. CASE ApiError
  BY <1>18 DEF ApiError, ExecuteFails, CallFails, Return, rights, kapp
<1>19. ASSUME NEW r \in Roles, Restart(r) PROVE ReportInv'
  BY <1>19 DEF Restart, rights, kapp
<1>20. CASE UNCHANGED vars
  BY <1>20 DEF vars, rights, kapp, locals
<1> QED
  BY <1>1, <1>2, <1>3, <1>4, <1>5, <1>6, <1>7, <1>8, <1>9, <1>10, <1>11, <1>12, <1>13,
     <1>14, <1>15, <1>16, <1>17, <1>18, <1>19, <1>20 DEF Next, World, Work

\* Whoever takes a Package away has taken its binding away first.
LEMMA StrayPreserved == IInv /\ [Next]_vars => NoStrayBinding'
<1> SUFFICES ASSUME IInv, [Next]_vars,
                    NEW n \in BindingNames, binding'[n] # Unbound
             PROVE  \E p \in Packages :
                      /\ DeployerBindingName(p) = n
                      /\ cr'[p].exists \/ ~Resolves(p)'
  BY DEF NoStrayBinding, BindingNames
<1> USE AtIsPackage, NameIsName DEF IInv, TypeOK, HandlerInv
<1>1. CASE binding'[n] # binding[n]
  \* Only a handler at work on a Package of that name makes a binding.
  <2>1. /\ EnsureBinding \/ ReplaceBinding
        /\ at \in Packages /\ DeployerBindingName(at) = n /\ cr' = cr
    <3>1. CASE EnsureBinding \/ ReplaceBinding
      BY <1>1, <3>1 DEF EnsureBinding, ReplaceBinding, Bind, kapp
    <3>2. CASE DeleteBinding
      BY <1>1, <3>2 DEF DeleteBinding
    <3>3. CASE binding' = binding
      BY <1>1, <3>3
    <3>4. EnsureBinding \/ ReplaceBinding \/ DeleteBinding \/ binding' = binding
      BY DEF Next, World, Work, vars, rights, EditSpec, DeleteCR, ChangeCR, KappDeploys,
             KappFails, KappDeletes, CollectGarbage, Start, EnsureAccount,
             ApplyApplication, ObserveApplication, WriteStatus, DeleteApplication,
             AppGone, DeleteAccount, Finalize, ApiError, Restart
    <3> QED
      BY <3>1, <3>2, <3>3, <3>4
  <2>2. cr'[at].exists
    BY <2>1 DEF EnsureBinding, ReplaceBinding
  <2> QED
    BY <2>1, <2>2
<1>2. CASE binding'[n] = binding[n]
  <2>1. PICK p \in Packages :
          DeployerBindingName(p) = n /\ (cr[p].exists \/ ~Resolves(p))
    BY <1>2 DEF NoStrayBinding
  <2>2. CASE cr'[p] = cr[p]
    BY <2>1, <2>2 DEF Resolves
  <2>3. ASSUME NEW q \in Packages, EditSpec(q, cr'[q].spec) \/ DeleteCR(q)
        PROVE  cr'[p].exists \/ cr'[p] = cr[p]
    BY <2>3 DEF EditSpec, DeleteCR, ChangeCR
  <2>4. CASE Finalize
    \* The Package that goes is another one, or its contract did not resolve.
    <3>1. p # at \/ ~Resolves(at)
      BY <1>2, <2>1, <2>4 DEF Finalize, TeardownInv
    <3>2. cr'[p] = cr[p] \/ (p = at /\ cr'[p].spec = cr[p].spec)
      BY <2>4 DEF Finalize
    <3> QED
      BY <2>1, <3>1, <3>2 DEF Resolves
  <2>5. \/ cr' = cr
        \/ \E q \in Packages : EditSpec(q, cr'[q].spec) \/ DeleteCR(q)
        \/ Finalize
    <3>1. ASSUME NEW q \in Packages, NEW t \in Specs, EditSpec(q, t)
          PROVE  EditSpec(q, cr'[q].spec)
      <4>1. cr'[q] = [cr[q] EXCEPT !.spec = t]
        BY <3>1 DEF EditSpec, ChangeCR
      <4>2. cr'[q].spec = t
        BY <4>1
      <4> QED
        BY <3>1, <4>2
    <3> QED
      BY <3>1 DEF Next, World, Work, vars, KappDeploys, KappFails, KappDeletes,
         CollectGarbage, Start, EnsureAccount, EnsureBinding, ReplaceBinding,
         ApplyApplication, ObserveApplication, WriteStatus, DeleteApplication,
         AppGone, DeleteBinding, DeleteAccount, ApiError, Restart
  <2> QED
    BY <2>1, <2>2, <2>3, <2>4, <2>5
<1> QED
  BY <1>1, <1>2

\* IInv is inductive.
THEOREM Inductive == Spec => []IInv
<1>1. IInv /\ [Next]_vars => IInv'
  BY TypePreserved, HandlerPreserved, TeardownPreserved, PackagePreserved, ReportPreserved,
     StrayPreserved DEF IInv
<1> QED
  BY InitInv, <1>1, PTL DEF Spec

\* Well typed for any Packages, contracts, roles and faults.
THEOREM TypeCorrect == Spec => []TypeOK
<1>1. IInv => TypeOK
  BY DEF IInv
<1> QED
  BY Inductive, <1>1, PTL

\* No binding outlives the last Package of its name, unless its contract did not
\* resolve.
THEOREM StrayCorrect == Spec => []NoStrayBinding
<1>1. IInv => NoStrayBinding
  BY DEF IInv
<1> QED
  BY Inductive, <1>1, PTL

\* A Package is said to have succeeded only with what it deployed in the cluster.
THEOREM StatusCorrect == Spec => []StatusIsEarned
<1>1. IInv => StatusIsEarned
  BY DEF IInv, ReportInv
<1> QED
  BY Inductive, <1>1, PTL
-----------------------------------------------------------------------------
\* A step of a handler at work on another Package leaves p's binding alone.
LEMMA OthersBinding ==
  ASSUME IInv, NEW p \in Packages, OwnName(p), at \in Packages, at # p
  PROVE  DeployerBindingName(at) # DeployerBindingName(p)
<1>1. cr[at].spec # None
  BY PackagesAssumption DEF IInv, TypeOK, HandlerInv, PackageInv
<1> QED
  BY <1>1 DEF OwnName

\* An App of a Package with a binding name of its own keeps its rights until it is
\* gone, but for the moment of the replacement.
THEOREM RightsCorrect == Spec => AppKeepsItsRights
<1>1. ASSUME IInv, [Next]_vars, NEW p \in Packages,
             OwnName(p), app[p] # "none", Rights(p)
      PROVE  Rights(p)' \/ (at = p /\ pc' = "replace")
  <2> DEFINE n == DeployerBindingName(p)
  <2> USE AtIsPackage, NameIsName DEF IInv, TypeOK, HandlerInv
  <2>1. account[p] /\ binding[n].subject = p /\ n \in BindingNames
    BY <1>1 DEF Rights
  <2>2. account'[p]
    <3>1. CASE EnsureAccount
      BY <2>1, <3>1 DEF EnsureAccount
    <3>2. ASSUME NEW q \in Packages, CollectGarbage(q) PROVE account'[p]
      BY <1>1, <2>1, <3>2 DEF CollectGarbage, PackageInv
    <3>3. CASE DeleteAccount
      BY <1>1, <2>1, <3>3 DEF DeleteAccount, TeardownInv
    <3>4. CASE account' = account
      BY <2>1, <3>4
    <3> QED
      BY <1>1, <3>1, <3>2, <3>3, <3>4 DEF Next, World, Work, vars, rights, EditSpec, DeleteCR,
         ChangeCR, KappDeploys, KappFails, KappDeletes, Start, EnsureBinding,
         ReplaceBinding, ApplyApplication, ObserveApplication, WriteStatus,
         DeleteApplication, AppGone, DeleteBinding, Finalize, ApiError, Restart
  <2>3. binding'[n].subject = p \/ (at = p /\ pc' = "replace")
    <3>1. CASE (EnsureBinding \/ ReplaceBinding) /\ at = p
      <4>1. binding' = binding \/ Bind(at) \/ pc' = "replace"
        BY <3>1 DEF EnsureBinding, ReplaceBinding
      <4>2. Bind(at) => binding'[n] = [subject |-> p, role |-> role]
        BY <1>1, <2>1, <3>1 DEF Bind
      <4> QED
        BY <2>1, <3>1, <4>1, <4>2
    <3>2. CASE (EnsureBinding \/ ReplaceBinding) /\ at # p
      <4>1. at \in Packages
        BY <1>1, <3>2 DEF EnsureBinding, ReplaceBinding
      <4>2. DeployerBindingName(at) # n
        BY <1>1, <3>2, <4>1, OthersBinding
      <4>3. binding' = binding \/ Bind(at)
               \/ binding' = [binding EXCEPT ![DeployerBindingName(at)] = Unbound]
        BY <3>2 DEF EnsureBinding, ReplaceBinding
      <4>4. binding'[n] = binding[n]
        BY <1>1, <2>1, <4>2, <4>3 DEF Bind
      <4> QED
        BY <2>1, <4>4
    <3>3. CASE DeleteBinding
      <4>1. at \in Packages /\ at # p
        BY <1>1, <3>3 DEF DeleteBinding, TeardownInv
      <4>2. DeployerBindingName(at) # n
        BY <1>1, <4>1, OthersBinding
      <4> QED
        BY <2>1, <3>3, <4>2 DEF DeleteBinding
    <3>4. CASE binding' = binding
      BY <2>1, <3>4
    <3> QED
      BY <1>1, <3>1, <3>2, <3>3, <3>4 DEF Next, World, Work, vars, rights, EditSpec, DeleteCR,
         ChangeCR, KappDeploys, KappFails, KappDeletes, CollectGarbage, Start,
         EnsureAccount, ApplyApplication, ObserveApplication, WriteStatus,
         DeleteApplication, AppGone, DeleteAccount, Finalize, ApiError, Restart
  <2> QED
    BY <2>2, <2>3 DEF Rights
<1>2. IInv /\ [Next]_vars =>
        [\A p \in Packages :
           OwnName(p) /\ app[p] # "none" /\ Rights(p) =>
             Rights(p)' \/ (at = p /\ pc' = "replace")]_vars
  BY <1>1
<1> QED
  BY Inductive, <1>2, PTL DEF Spec, AppKeepsItsRights
=============================================================================
