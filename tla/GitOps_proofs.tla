---------------------------- MODULE GitOps_proofs ----------------------------
(***************************************************************************)
(* Proofs about GitOps, for any ServiceUnits, images and contracts, and    *)
(* however much others push and however many steps fail.                   *)
(***************************************************************************)
EXTENDS GitOps, TLAPS

\* The way up starts, and the way down ends, with the GitRepository.
FluxInv ==
  /\ KustHasSource
  /\ pc = "kust" => source # None
  /\ pc = "deleteSource" => kust # "live"

\* A clone that descends from the tip has what others pushed; no step of the
\* provider touches that part of its working tree.
FreshInv ==
  /\ clone.work.other = clone.head.other
  /\ clone.fresh => clone.head.other = remote[clone.origin].other

Base == TypeOK /\ FluxInv /\ FreshInv
-----------------------------------------------------------------------------
\* The overlay of one contract is an overlay.
LEMMA RenderedType == ASSUME NEW w \in Wants PROVE Rendered(w.files) \in Overlays
  BY GitOpsAssumption DEF Rendered, Overlays, UnitsOf

\* The files that are left without some units' are files of the overlay.
LEMMA WithoutType == ASSUME TypeOK, NEW S PROVE Without(S) \in Files
<1>1. clone.work.overlay.files \in Files
  BY DEF TypeOK, Trees, Overlays
<1> QED
  BY <1>1 DEF Without, Files

\* Types are preserved.
LEMMA TypeInit == Init => TypeOK
<1> SUFFICES ASSUME Init PROVE TypeOK
  OBVIOUS
<1>1. cr \in [exists : BOOLEAN, deleting : BOOLEAN, want : Wants, own : Owned]
  BY DEF Init
<1>2. Nothing \in Files
  BY DEF Nothing, Files
<1>3. PICK o \in Empty : remote = [r \in Repos |-> [overlay |-> o, other |-> 0]]
  BY DEF Init
<1>4. o \in Overlays
  BY <1>2, <1>3 DEF Empty, Overlays
<1>5. [overlay |-> o, other |-> 0] \in Trees
  BY <1>4, GitOpsAssumption DEF Trees
<1>6. remote \in [Repos -> Trees]
  BY <1>3, <1>5
<1>7. cr.want.repo \in Repos
  BY <1>1, GitOpsAssumption
<1>8. clone \in [here : BOOLEAN, origin : Repos, head : Trees, work : Trees, fresh : BOOLEAN]
  <2>1. remote[cr.want.repo] \in Trees
    BY <1>6, <1>7
  <2>2. clone = NoClone(remote[cr.want.repo])
    BY DEF Init
  <2> QED
    BY <2>1, <2>2, <1>7 DEF NoClone
<1>9. snap \in [want : Wants, deleting : BOOLEAN]
  BY <1>1 DEF Init
<1>10. /\ key \in BOOLEAN /\ source \in Repos \cup {None} /\ kust \in {"none", "live", "deleting"}
       /\ applied \in Files /\ faults \in 0 .. MaxFaults /\ pc \in Steps
  BY <1>2, GitOpsAssumption DEF Init, Steps
<1> QED
  BY <1>1, <1>6, <1>8, <1>9, <1>10 DEF TypeOK

\* Writing an overlay keeps the clone's type.
LEMMA WriteType ==
  ASSUME TypeOK, NEW o \in Overlays, Write(o)
  PROVE  clone' \in [here : BOOLEAN, origin : Repos, head : Trees, work : Trees, fresh : BOOLEAN]
<1>1. [overlay |-> o, other |-> clone.work.other] \in Trees
  BY DEF TypeOK, Trees
<1>2. clone' = [clone EXCEPT !.work = [overlay |-> o, other |-> clone.work.other]]
  BY DEF Write
<1> QED
  BY <1>1, <1>2 DEF TypeOK

\* A push keeps the remote's type.
LEMMA PushedType == ASSUME TypeOK, Pushed PROVE remote' \in [Repos -> Trees]
  BY DEF TypeOK, Pushed

\* What the handler does keeps the types.
LEMMA TypeHandle == TypeOK /\ Handle => TypeOK'
<1> SUFFICES ASSUME TypeOK, Handle PROVE TypeOK'
  OBVIOUS
<1>1. snap.want \in Wants /\ snap.want.repo \in Repos /\ snap.want.files \in Files
  BY GitOpsAssumption DEF TypeOK
<1> DEFINE C == [here : BOOLEAN, origin : Repos, head : Trees, work : Trees, fresh : BOOLEAN]
<1>2. clone \in C /\ remote \in [Repos -> Trees]
  BY DEF TypeOK
<1>3. clone.work.overlay \in Overlays
  BY <1>2 DEF Trees
<1>4. ASSUME Return(TRUE) \/ Return(FALSE)
      PROVE pc' \in Steps /\ key' \in BOOLEAN
  BY <1>4 DEF Return, Steps, TypeOK
<1>5. CASE Start
  <2>1. snap' \in [want : Wants, deleting : BOOLEAN]
    BY <1>5 DEF Start, TypeOK
  <2> QED
    BY <1>5, <2>1 DEF Start, TypeOK, Steps, flux
<1>6. CASE EnsureClone
  <2>1. remote[snap.want.repo] \in Trees
    BY <1>1, <1>2
  <2>2. clone' \in C
    <3>1. CASE clone.here
      BY <3>1, <1>2, <1>6 DEF EnsureClone
    <3>2. CASE ~clone.here
      BY <3>2, <2>1, <1>1, <1>6 DEF EnsureClone
    <3> QED
      BY <3>1, <3>2
  <2> QED
    BY <1>6, <2>2 DEF EnsureClone, TypeOK, Steps, flux
<1>7. CASE Checkout
  <2> DEFINE tip == remote[clone.origin]
             o   == IF clone.work.overlay = clone.head.overlay THEN tip.overlay
                    ELSE clone.work.overlay
             t   == [overlay |-> o, other |-> tip.other]
  <2>1. tip \in Trees /\ tip.overlay \in Overlays /\ tip.other \in 0 .. MaxOther
    BY <1>2 DEF Trees
  <2>2. CASE Refused(tip)
    <3>1. Return(TRUE) /\ UNCHANGED clone
      BY <1>7, <2>2 DEF Checkout
    <3> QED
      BY <3>1, <1>4, <1>7 DEF Checkout, TypeOK, flux
  <2>3. CASE ~Refused(tip)
    <3>1. o \in Overlays
      BY <1>3, <2>1
    <3>2. t \in Trees
      BY <3>1, <2>1 DEF Trees
    <3>3. clone' = [clone EXCEPT !.head = tip, !.fresh = TRUE, !.work = t]
      BY <1>7, <2>3 DEF Checkout
    <3> HIDE DEF t, tip
    <3>4. clone' \in C
      BY <3>2, <3>3, <2>1, <1>2
    <3>5. pc' \in Steps /\ UNCHANGED key
      BY <1>7, <2>3 DEF Checkout, Steps, tip
    <3> QED
      BY <3>4, <3>5, <1>7 DEF Checkout, TypeOK, flux
  <2> QED
    BY <2>2, <2>3
<1>8. CASE Clean
  <2>1. [dir |-> TRUE, files |-> Without(Units), listed |-> clone.work.overlay.listed]
          \in Overlays
    BY WithoutType, <1>3 DEF Overlays
  <2>2. clone' \in C
    BY <2>1, <1>8, WriteType DEF Clean
  <2> QED
    BY <2>2, <1>8 DEF Clean, TypeOK, Steps, flux
<1>9. CASE Render
  <2> DEFINE f == [u \in Units |-> IF u \in UnitsOf(snap.want.files) THEN snap.want.files[u]
                                   ELSE clone.work.overlay.files[u]]
             o == [dir |-> clone.work.overlay.dir, listed |-> UnitsOf(snap.want.files), files |-> f]
  <2>1. f \in Files
    BY <1>1, <1>3 DEF Files, Overlays
  <2>2. o \in Overlays
    BY <2>1, <1>3 DEF Overlays, UnitsOf
  <2>3. Write(o)
    BY <1>9 DEF Render
  <2> HIDE DEF o
  <2>4. clone' \in C
    BY <2>2, <2>3, WriteType
  <2> QED
    BY <2>4, <1>9 DEF Render, TypeOK, Steps, flux
<1>10. CASE Commit
  BY <1>2, <1>10 DEF Commit, TypeOK, Steps, AfterPush, flux
<1>11. CASE Push
  <2>1. CASE clone.fresh
    BY <2>1, <1>11, PushedType DEF Push, TypeOK, Steps, AfterPush, flux
  <2>2. CASE ~clone.fresh
    BY <2>2, <1>4, <1>11 DEF Push, TypeOK, flux
  <2> QED
    BY <2>1, <2>2
<1>12. CASE EnsureGitRepository
  BY <1>1, <1>12 DEF EnsureGitRepository, TypeOK, Steps
<1>13. CASE EnsureKustomization
  BY <1>13 DEF EnsureKustomization, TypeOK, Steps
<1>14. CASE DeleteKustomization
  BY <1>14 DEF DeleteKustomization, TypeOK, Steps
<1>15. CASE DeleteGitRepository
  BY <1>15 DEF DeleteGitRepository, TypeOK, Steps
<1>16. CASE Remove
  <2>1. CASE ~clone.work.overlay.dir
    BY <2>1, <1>4, <1>16 DEF Remove, TypeOK, flux
  <2>2. CASE clone.work.overlay.dir
    <3>1. [dir |-> TRUE, listed |-> {}, files |-> Without(UnitsOf(snap.want.files))] \in Overlays
      BY WithoutType DEF Overlays
    <3>2. clone' \in C
      BY <3>1, <2>2, <1>16, WriteType DEF Remove
    <3> QED
      BY <3>2, <2>2, <1>16 DEF Remove, TypeOK, Steps, flux
  <2> QED
    BY <2>1, <2>2
<1>17. CASE Finalize
  BY <1>4, <1>17 DEF Finalize, TypeOK, flux
<1>18. CASE WriteStatus
  BY <1>4, <1>18 DEF WriteStatus, TypeOK, flux
<1> QED
  BY <1>5, <1>6, <1>7, <1>8, <1>9, <1>10, <1>11, <1>12, <1>13, <1>14, <1>15, <1>16, <1>17,
     <1>18 DEF Handle

\* So does everything else.
LEMMA TypeWorld == TypeOK /\ (World \/ Flux \/ StepFails \/ Crash) => TypeOK'
<1> SUFFICES ASSUME TypeOK, World \/ Flux \/ StepFails \/ Crash PROVE TypeOK'
  OBVIOUS
<1> DEFINE C == [here : BOOLEAN, origin : Repos, head : Trees, work : Trees, fresh : BOOLEAN]
<1>1. clone \in C /\ remote \in [Repos -> Trees]
  BY DEF TypeOK
<1>2. ASSUME NEW r \in Repos, NEW o \in Overlays, OtherPush(r, o) PROVE TypeOK'
  <2>1. remote[r] \in Trees
    BY <1>1
  <2>2. [overlay |-> o, other |-> remote[r].other + 1] \in Trees
    BY <2>1, <1>2, GitOpsAssumption DEF OtherPush, Trees
  <2>3. remote' \in [Repos -> Trees]
    BY <2>2, <1>1, <1>2 DEF OtherPush
  <2>4. clone' \in C
    BY <1>1, <1>2 DEF OtherPush
  <2> QED
    BY <2>3, <2>4, <1>2 DEF OtherPush, TypeOK, flux
<1>3. ASSUME NEW w \in Wants, EditSpec(w) \/ PushImage(w) PROVE TypeOK'
  BY <1>3 DEF EditSpec, PushImage, TypeOK, flux
<1>4. CASE DeleteCR
  BY <1>4 DEF DeleteCR, TypeOK, flux
<1>5. CASE World
  <2>1. ASSUME NEW r \in Repos, OtherPush(r, remote[r].overlay) PROVE TypeOK'
    BY <2>1, <1>1, <1>2 DEF Trees
  <2>2. ASSUME NEW r \in Repos, NEW w \in Wants, OtherPush(r, Rendered(w.files)) PROVE TypeOK'
    BY <2>2, <1>2, RenderedType
  <2> QED
    BY <1>3, <1>4, <1>5, <2>1, <2>2 DEF World
<1>6. CASE FluxApplies
  <2> DEFINE o == remote[source].overlay
  <2>1. source \in Repos
    BY <1>6 DEF FluxApplies, TypeOK
  <2>2. o.files \in Files
    BY <2>1, <1>1 DEF Trees, Overlays
  <2>3. applied' \in Files
    BY <2>2, <1>6 DEF FluxApplies, Files
  <2> QED
    BY <2>3, <1>6 DEF FluxApplies, TypeOK
<1>7. CASE FluxPrunes
  BY <1>7 DEF FluxPrunes, TypeOK, Nothing, Files
<1>8. CASE StepFails
  <2>1. remote' \in [Repos -> Trees]
    BY <1>1, <1>8, PushedType DEF StepFails
  <2>2. faults' \in 0 .. MaxFaults
    BY <1>8, GitOpsAssumption DEF StepFails, TypeOK
  <2> QED
    BY <2>1, <2>2, <1>8 DEF StepFails, Return, TypeOK, Steps, flux
<1>9. CASE Crash
  <2>1. clone' \in C
    BY <1>1, <1>9 DEF Crash
  <2>2. faults' \in 0 .. MaxFaults
    BY <1>9, GitOpsAssumption DEF Crash, TypeOK
  <2> QED
    BY <2>1, <2>2, <1>9 DEF Crash, TypeOK, Steps, flux
<1> QED
  BY <1>5, <1>6, <1>7, <1>8, <1>9 DEF Flux

\* The order in which the two Flux objects come and go.
LEMMA FluxPreserved == TypeOK /\ FluxInv /\ Next => FluxInv'
<1> SUFFICES ASSUME TypeOK, FluxInv, Next PROVE FluxInv'
  OBVIOUS
<1> USE DEF FluxInv, KustHasSource, flux
<1>1. CASE World
  BY <1>1 DEF World, EditSpec, PushImage, DeleteCR, OtherPush
<1>2. CASE Flux
  BY <1>2 DEF Flux, FluxApplies, FluxPrunes
<1>3. CASE StepFails
  BY <1>3 DEF StepFails, Return
<1>4. CASE Crash
  BY <1>4 DEF Crash
<1>5. CASE Handle
  <2>1. CASE Start \/ EnsureClone \/ Clean \/ Render
    BY <2>1 DEF Start, EnsureClone, Clean, Render
  <2>2. CASE Checkout \/ Remove \/ Finalize \/ WriteStatus
    BY <2>2 DEF Checkout, Remove, Finalize, WriteStatus, Return
  <2>3. CASE Commit \/ Push
    BY <2>3 DEF Commit, Push, AfterPush, Return
  <2>4. CASE EnsureGitRepository
    <3>1. source' # None
      BY <2>4, GitOpsAssumption DEF EnsureGitRepository, TypeOK
    <3> QED
      BY <2>4, <3>1 DEF EnsureGitRepository
  <2>5. CASE EnsureKustomization \/ DeleteKustomization \/ DeleteGitRepository
    BY <2>5 DEF EnsureKustomization, DeleteKustomization, DeleteGitRepository
  <2> QED
    BY <1>5, <2>1, <2>2, <2>3, <2>4, <2>5 DEF Handle
<1> QED
  BY <1>1, <1>2, <1>3, <1>4, <1>5 DEF Next

\* What a checkout leaves behind.
LEMMA CheckedOut ==
  ASSUME TypeOK, Checkout, ~Refused(remote[clone.origin])
  PROVE  /\ clone'.head = remote[clone.origin] /\ clone'.fresh /\ clone'.here = clone.here
         /\ clone'.origin = clone.origin /\ clone'.work.other = clone'.head.other
         /\ remote' = remote
<1> DEFINE tip == remote[clone.origin]
           o   == IF clone.work.overlay = clone.head.overlay THEN tip.overlay
                  ELSE clone.work.overlay
           t   == [overlay |-> o, other |-> tip.other]
<1>1. clone' = [clone EXCEPT !.head = tip, !.fresh = TRUE, !.work = t] /\ remote' = remote
  BY DEF Checkout
<1>2. t.other = tip.other
  OBVIOUS
<1>3. clone \in [here : BOOLEAN, origin : Repos, head : Trees, work : Trees, fresh : BOOLEAN]
  BY DEF TypeOK
<1> HIDE DEF t, tip
<1>4. clone'.head = tip /\ clone'.fresh = TRUE /\ clone'.work = t
  BY <1>1, <1>3
<1>5. clone'.origin = clone.origin /\ clone'.here = clone.here
  BY <1>1, <1>3
<1> QED
  BY <1>1, <1>2, <1>4, <1>5 DEF tip

\* Writing the overlay leaves the rest of the working tree alone.
LEMMA WriteKeeps ==
  ASSUME TypeOK, NEW o, Write(o)
  PROVE  /\ clone'.head = clone.head /\ clone'.fresh = clone.fresh
         /\ clone'.origin = clone.origin /\ clone'.here = clone.here
         /\ clone'.work.other = clone.work.other /\ clone'.work.overlay = o
  BY DEF TypeOK, Write

\* Each step keeps a HEAD that descends from the tip true to what others pushed.
LEMMA FreshPreserved == TypeOK /\ FreshInv /\ Next => FreshInv'
<1> SUFFICES ASSUME TypeOK, FreshInv, Next PROVE FreshInv'
  OBVIOUS
<1> USE DEF flux
<1>1. /\ clone \in [here : BOOLEAN, origin : Repos, head : Trees, work : Trees, fresh : BOOLEAN]
      /\ remote \in [Repos -> Trees] /\ snap.want.repo \in Repos
  BY GitOpsAssumption DEF TypeOK
<1>2. ASSUME UNCHANGED clone, UNCHANGED remote PROVE FreshInv'
  BY <1>2 DEF FreshInv
<1>3. ASSUME NEW r \in Repos, NEW o, OtherPush(r, o) PROVE FreshInv'
  <2>1. clone'.head = clone.head /\ clone'.work = clone.work /\ clone'.origin = clone.origin
    BY <1>1, <1>3 DEF OtherPush
  <2>2. clone'.fresh => clone.fresh /\ clone.origin # r
    BY <1>1, <1>3 DEF OtherPush
  <2>3. clone.origin # r => remote'[clone.origin] = remote[clone.origin]
    BY <1>1, <1>3 DEF OtherPush
  <2> QED
    BY <2>1, <2>2, <2>3 DEF FreshInv
<1>4. ASSUME UNCHANGED clone, Pushed PROVE FreshInv'
  BY <1>1, <1>4 DEF Pushed, FreshInv
<1>5. ASSUME NEW o, Write(o), UNCHANGED remote PROVE FreshInv'
  BY <1>5, WriteKeeps DEF FreshInv
<1>6. CASE World
  BY <1>2, <1>3, <1>6 DEF World, EditSpec, PushImage, DeleteCR
<1>7. CASE Flux
  BY <1>2, <1>7 DEF Flux, FluxApplies, FluxPrunes
<1>8. CASE StepFails
  BY <1>2, <1>4, <1>8 DEF StepFails
<1>9. CASE Crash
  BY <1>1, <1>9 DEF Crash, FreshInv
<1>10. CASE Handle
  <2>1. CASE EnsureClone
    <3>1. CASE clone.here
      BY <3>1, <2>1, <1>2 DEF EnsureClone
    <3>2. CASE ~clone.here
      BY <3>2, <2>1, <1>1 DEF EnsureClone, FreshInv
    <3> QED
      BY <3>1, <3>2
  <2>2. CASE Checkout
    <3>1. CASE Refused(remote[clone.origin])
      BY <3>1, <2>2, <1>2 DEF Checkout
    <3>2. CASE ~Refused(remote[clone.origin])
      BY <3>2, <2>2, CheckedOut DEF FreshInv
    <3> QED
      BY <3>1, <3>2
  <2>3. CASE Clean \/ Render \/ Remove
    BY <2>3, <1>2, <1>5 DEF Clean, Render, Remove
  <2>4. CASE Commit
    BY <2>4, <1>1 DEF Commit, FreshInv
  <2>5. CASE Push
    BY <2>5, <1>2, <1>4 DEF Push
  <2>6. CASE Start \/ EnsureGitRepository \/ EnsureKustomization \/ WriteStatus
    BY <2>6, <1>2 DEF Start, EnsureGitRepository, EnsureKustomization, WriteStatus
  <2>7. CASE DeleteKustomization \/ DeleteGitRepository \/ Finalize
    BY <2>7, <1>2 DEF DeleteKustomization, DeleteGitRepository, Finalize
  <2> QED
    BY <1>10, <2>1, <2>2, <2>3, <2>4, <2>5, <2>6, <2>7 DEF Handle
<1> QED
  BY <1>6, <1>7, <1>8, <1>9, <1>10 DEF Next

\* The part of the invariant that needs no hypothesis.
LEMMA BaseInductive == Spec => []Base
<1>1. Init => Base
  <2> SUFFICES ASSUME Init PROVE Base
    OBVIOUS
  <2>1. TypeOK
    BY TypeInit
  <2>2. FluxInv
    BY DEF Init, FluxInv, KustHasSource
  <2>3. clone.work = clone.head /\ clone.fresh = FALSE
    BY DEF Init, NoClone
  <2> QED
    BY <2>1, <2>2, <2>3 DEF Base, FreshInv
<1>2. Base /\ [Next]_vars => Base'
  <2>1. ASSUME Base, Next PROVE Base'
    BY <2>1, TypeHandle, TypeWorld, FluxPreserved, FreshPreserved DEF Base, Next
  <2>2. ASSUME Base, UNCHANGED vars PROVE Base'
    BY <2>2 DEF Base, TypeOK, FluxInv, KustHasSource, FreshInv, vars, flux
  <2> QED
    BY <2>1, <2>2
<1> QED
  BY <1>1, <1>2, PTL DEF Spec

\* The values the variables take.
THEOREM TypeCorrect == Spec => []TypeOK
<1>1. Base => TypeOK
  BY DEF Base
<1> QED
  BY <1>1, BaseInductive, PTL

\* A live Kustomization has its GitRepository, whichever call of a reconcile or a
\* Teardown was the last.
THEOREM KustHasSourceCorrect == Spec => []KustHasSource
<1>1. Base => KustHasSource
  BY DEF Base, FluxInv
<1> QED
  BY <1>1, BaseInductive, PTL

\* OthersKept: whatever is edited, fails or restarts, no push of the provider takes back
\* what others pushed outside the CR's overlay. Nothing is said of files that others
\* push into the overlay itself, which the next push removes.
THEOREM OthersKeptCorrect == Spec => OthersKept
<1> DEFINE Kept == \A r \in Repos : remote'[r].other >= remote[r].other
<1>1. Base /\ [Next]_vars => [Kept]_vars
  <2> SUFFICES ASSUME Base, Next PROVE Kept
    BY DEF Kept
  <2> USE DEF flux
  <2>1. remote \in [Repos -> Trees] /\ clone.origin \in Repos
    BY DEF Base, TypeOK
  <2>2. \A r \in Repos : remote[r].other \in Nat
    BY <2>1, GitOpsAssumption DEF Trees
  <2>3. CASE UNCHANGED remote
    BY <2>2, <2>3
  <2>4. CASE clone.fresh /\ Pushed
    <3>1. clone.head.other = remote[clone.origin].other
      BY <2>4 DEF Base, FreshInv
    <3> QED
      BY <3>1, <2>1, <2>2, <2>4 DEF Pushed
  <2>5. ASSUME NEW r \in Repos, NEW o, OtherPush(r, o) PROVE Kept
    BY <2>5, <2>1, <2>2 DEF OtherPush
  <2>6. CASE World
    BY <2>3, <2>5, <2>6 DEF World, EditSpec, PushImage, DeleteCR
  <2>7. CASE Flux
    BY <2>3, <2>7 DEF Flux, FluxApplies, FluxPrunes
  <2>8. CASE Handle
    <3>1. CASE Push
      BY <3>1, <2>3, <2>4 DEF Push
    <3>2. CASE Start \/ EnsureClone \/ Checkout \/ Clean \/ Render \/ Commit
      BY <3>2, <2>3 DEF Start, EnsureClone, Checkout, Clean, Render, Commit
    <3>3. CASE EnsureGitRepository \/ EnsureKustomization \/ Remove \/ Finalize
      BY <3>3, <2>3 DEF EnsureGitRepository, EnsureKustomization, Remove, Finalize
    <3>4. CASE DeleteKustomization \/ DeleteGitRepository \/ WriteStatus
      BY <3>4, <2>3 DEF DeleteKustomization, DeleteGitRepository, WriteStatus
    <3> QED
      BY <2>8, <3>1, <3>2, <3>3, <3>4 DEF Handle
  <2>9. CASE StepFails \/ Crash
    BY <2>9, <2>3, <2>4 DEF StepFails, Crash
  <2> QED
    BY <2>6, <2>7, <2>8, <2>9 DEF Next
<1> QED
  BY <1>1, BaseInductive, PTL DEF Spec, OthersKept
-----------------------------------------------------------------------------
(* An overlay of the CR's own, in a repository that edits do not change.   *)

OneRepo == \A v, w \in Wants : v.repo = w.repo

Tip == remote[clone.origin].overlay

\* What a reconcile, or a Teardown, is to bring to the branch.
Right(o) == IF snap.deleting THEN o.listed = {} ELSE o = Rendered(snap.want.files)

\* A clone with changes is at the tip, as far as the overlay goes: it was when the
\* changes were begun, and nobody else has written there since.
CloneInv ==
  /\ \A w \in Wants : clone.origin = w.repo
  /\ clone.here /\ clone.work.overlay # clone.head.overlay => clone.head.overlay = Tip
  /\ pc \in {"checkout", "clean", "render", "remove", "commit", "push"} => clone.here
  /\ pc \in {"clean", "render", "remove", "commit"} => clone.head.overlay = Tip
  /\ pc = "push" => clone.work.overlay = clone.head.overlay

\* What is being brought to the branch, and where it has got.
RightInv ==
  /\ pc \in {"clean", "render", "source", "kust"} => ~snap.deleting
  /\ pc \in {"remove", "finalize", "deleteKust", "deleteSource"} => snap.deleting
  /\ pc = "render" => clone.work.overlay.dir /\ clone.work.overlay.files = Nothing
  /\ pc = "commit" => Right(clone.work.overlay)
  /\ pc = "push" => Right(clone.head.overlay)
  /\ pc \in {"source", "kust"} => Right(Tip)
  /\ pc = "finalize" /\ cr.own = "overlay" => Right(Tip)

\* Clean and Render together write what is to be published.
LEMMA RenderIsRight ==
  ASSUME TypeOK, Render, ~snap.deleting, clone.work.overlay.dir,
         clone.work.overlay.files = Nothing
  PROVE  clone'.work.overlay = Rendered(snap.want.files)
<1> DEFINE f == [u \in Units |-> IF u \in UnitsOf(snap.want.files) THEN snap.want.files[u]
                                 ELSE clone.work.overlay.files[u]]
           o == [dir |-> clone.work.overlay.dir, listed |-> UnitsOf(snap.want.files), files |-> f]
<1>1. snap.want.files \in Files
  BY GitOpsAssumption DEF TypeOK
<1>2. f = snap.want.files
  BY <1>1 DEF UnitsOf, Files, Nothing
<1>3. clone.work.overlay.dir = TRUE
  BY DEF TypeOK, Trees, Overlays
<1>4. o = Rendered(snap.want.files)
  <2> HIDE DEF f
  <2> QED
    BY <1>2, <1>3 DEF Rendered
<1>5. Write(o)
  BY DEF Render
<1> HIDE DEF o
<1> QED
  BY <1>4, <1>5, WriteKeeps

\* Steps that leave clone, branch and Command alone.
LEMMA Stays ==
  ASSUME CloneInv, RightInv, UNCHANGED <<clone, snap>>, cr'.own = cr.own, Tip' = Tip,
         pc' = pc \/ pc' = "idle"
  PROVE  CloneInv' /\ RightInv'
  BY DEF CloneInv, RightInv, Right, Tip, Rendered, UnitsOf, Nothing

\* What users, other writers and Flux do keeps what the handler relies on.
LEMMA PublishWorld ==
  ASSUME Alone, OneRepo, TypeOK, CloneInv, RightInv, World \/ Flux
  PROVE  CloneInv' /\ RightInv'
<1> USE DEF flux
<1>1. /\ clone \in [here : BOOLEAN, origin : Repos, head : Trees, work : Trees, fresh : BOOLEAN]
      /\ remote \in [Repos -> Trees]
      /\ cr \in [exists : BOOLEAN, deleting : BOOLEAN, want : Wants, own : Owned]
  BY DEF TypeOK
<1>2. ASSUME NEW r \in Repos, OtherPush(r, remote[r].overlay) PROVE CloneInv' /\ RightInv'
  <2>1. /\ clone'.here = clone.here /\ clone'.origin = clone.origin
        /\ clone'.head = clone.head /\ clone'.work = clone.work
    BY <1>1, <1>2 DEF OtherPush
  <2>2. \A q \in Repos : remote'[q].overlay = remote[q].overlay
    BY <1>1, <1>2 DEF OtherPush
  <2>3. Tip' = Tip
    BY <2>1, <2>2, <1>1 DEF Tip
  <2>4. UNCHANGED <<pc, snap, cr>>
    BY <1>2 DEF OtherPush
  <2>5. CloneInv'
    BY <2>1, <2>3, <2>4 DEF CloneInv
  <2>6. RightInv'
    BY <2>1, <2>3, <2>4 DEF RightInv, Right, Rendered, UnitsOf, Nothing
  <2> QED
    BY <2>5, <2>6
<1>3. ASSUME NEW w \in Wants, EditSpec(w) \/ PushImage(w) PROVE CloneInv' /\ RightInv'
  <2>1. cr'.own = cr.own
    BY <1>1, <1>3 DEF EditSpec, PushImage
  <2> QED
    BY <2>1, <1>3, Stays DEF EditSpec, PushImage, Tip
<1>4. CASE DeleteCR
  <2>1. cr'.own = cr.own
    BY <1>1, <1>4 DEF DeleteCR
  <2> QED
    BY <2>1, <1>4, Stays DEF DeleteCR, Tip
<1>5. CASE World
  BY <1>2, <1>3, <1>4, <1>5 DEF World, Alone
<1>6. CASE Flux
  BY <1>6, Stays DEF Flux, FluxApplies, FluxPrunes, Tip
<1> QED
  BY <1>5, <1>6

\* The steps that bring an overlay to the branch.
LEMMA PublishSteps ==
  ASSUME OneRepo, TypeOK, CloneInv, RightInv,
         EnsureClone \/ Checkout \/ Clean \/ Render \/ Remove \/ Commit \/ Push
  PROVE  CloneInv' /\ RightInv'
<1> USE DEF flux
<1>1. /\ clone \in [here : BOOLEAN, origin : Repos, head : Trees, work : Trees, fresh : BOOLEAN]
      /\ remote \in [Repos -> Trees] /\ snap.want \in Wants /\ snap.want.repo \in Repos
  BY GitOpsAssumption DEF TypeOK
<1>2. CASE EnsureClone
  <2>1. CASE clone.here
    BY <2>1, <1>2 DEF EnsureClone, CloneInv, RightInv, Tip
  <2>2. CASE ~clone.here
    BY <2>2, <1>1, <1>2 DEF EnsureClone, CloneInv, RightInv, Tip, OneRepo
  <2> QED
    BY <2>1, <2>2
<1>3. CASE Checkout
  <2>1. CASE Refused(remote[clone.origin])
    <3>1. UNCHANGED <<clone, snap, remote, cr>> /\ pc' = "idle"
      BY <2>1, <1>3 DEF Checkout, Return
    <3> QED
      BY <3>1, Stays DEF Tip
  <2>2. CASE ~Refused(remote[clone.origin])
    <3>1. pc' \in {"clean", "remove"} /\ (pc' = "remove" <=> snap.deleting) /\ snap' = snap
      BY <2>2, <1>3 DEF Checkout
    <3>2. clone.here
      BY <1>3 DEF Checkout, CloneInv
    <3>3. clone'.head.overlay = Tip'
      BY <2>2, <1>3, CheckedOut DEF Tip
    <3>4. CloneInv'
      BY <3>1, <3>2, <3>3, <2>2, <1>3, CheckedOut DEF CloneInv
    <3> QED
      BY <3>1, <3>4 DEF RightInv
  <2> QED
    BY <2>1, <2>2
<1>4. ASSUME NEW o, Write(o), UNCHANGED <<remote, snap, cr>>,
             pc \in {"clean", "render", "remove"}, pc' \in {"render", "commit"}
      PROVE  CloneInv'
  <2>1. /\ clone'.head = clone.head /\ clone'.origin = clone.origin /\ clone'.here = clone.here
        /\ Tip' = Tip
    BY <1>4, WriteKeeps DEF Tip
  <2> QED
    BY <2>1, <1>4 DEF CloneInv
<1>5. CASE Clean
  <2> DEFINE o == [dir |-> TRUE, files |-> Without(Units), listed |-> clone.work.overlay.listed]
  <2>1. Write(o) /\ UNCHANGED <<remote, snap, cr>> /\ pc = "clean" /\ pc' = "render"
    BY <1>5 DEF Clean
  <2>2. o.files = Nothing /\ o.dir
    BY DEF Without, Nothing
  <2> HIDE DEF o
  <2>3. clone'.work.overlay = o
    BY <2>1, WriteKeeps
  <2>4. CloneInv'
    BY <2>1, <1>4
  <2> QED
    BY <2>1, <2>2, <2>3, <2>4 DEF RightInv, Nothing
<1>6. CASE Render
  <2>1. PICK o : Write(o)
    BY <1>6 DEF Render
  <2>2. pc = "render" /\ pc' = "commit" /\ UNCHANGED <<remote, snap, cr>>
    BY <1>6 DEF Render
  <2>3. ~snap.deleting /\ clone'.work.overlay = Rendered(snap.want.files)
    BY <2>2, <1>6, RenderIsRight DEF RightInv
  <2> QED
    BY <2>1, <2>2, <2>3, <1>4 DEF RightInv, Right, Rendered, UnitsOf
<1>7. CASE Remove
  <2>1. CASE ~clone.work.overlay.dir
    <3>1. UNCHANGED <<clone, snap, remote, cr>> /\ pc' = "idle"
      BY <2>1, <1>7 DEF Remove, Return
    <3> QED
      BY <3>1, Stays DEF Tip
  <2>2. CASE clone.work.overlay.dir
    <3> DEFINE o == [dir |-> TRUE, listed |-> {}, files |-> Without(UnitsOf(snap.want.files))]
    <3>1. Write(o) /\ UNCHANGED <<remote, snap, cr>> /\ pc = "remove" /\ pc' = "commit"
      BY <2>2, <1>7 DEF Remove
    <3>2. o.listed = {}
      OBVIOUS
    <3> HIDE DEF o
    <3>3. clone'.work.overlay.listed = {} /\ snap.deleting
      BY <3>1, <3>2, WriteKeeps DEF RightInv
    <3> QED
      BY <3>1, <3>3, <1>4 DEF RightInv, Right
  <2> QED
    BY <2>1, <2>2
<1>8. CASE Commit
  <2>1. /\ pc = "commit" /\ UNCHANGED <<remote, snap, cr>>
        /\ clone'.head = clone.work /\ clone'.work = clone.work
        /\ clone'.origin = clone.origin /\ clone'.here = clone.here /\ Tip' = Tip
    BY <1>1, <1>8 DEF Commit, Tip
  <2>2. CASE clone.work = clone.head
    <3>1. pc' = IF snap.deleting THEN "finalize" ELSE "source"
      BY <2>2, <1>8 DEF Commit, AfterPush
    <3>2. Right(Tip)
      BY <2>1, <2>2 DEF CloneInv, RightInv
    <3> QED
      BY <2>1, <3>1, <3>2 DEF CloneInv, RightInv, Right, Rendered, UnitsOf
  <2>3. CASE clone.work # clone.head
    <3>1. pc' = "push"
      BY <2>3, <1>8 DEF Commit
    <3> QED
      BY <2>1, <3>1 DEF CloneInv, RightInv, Right, Rendered, UnitsOf
  <2> QED
    BY <2>2, <2>3
<1>9. CASE Push
  <2>1. CASE clone.fresh
    <3>1. /\ pc = "push" /\ UNCHANGED <<clone, snap, cr>>
          /\ pc' = IF snap.deleting THEN "finalize" ELSE "source"
      BY <2>1, <1>9 DEF Push, AfterPush
    <3>2. Tip' = clone.head.overlay
      BY <2>1, <1>1, <1>9 DEF Push, Pushed, Tip
    <3> QED
      BY <3>1, <3>2 DEF CloneInv, RightInv, Right, Rendered, UnitsOf
  <2>2. CASE ~clone.fresh
    <3>1. UNCHANGED <<clone, snap, remote, cr>> /\ pc' = "idle"
      BY <2>2, <1>9 DEF Push, Return
    <3> QED
      BY <3>1, Stays DEF Tip
  <2> QED
    BY <2>1, <2>2
<1> QED
  BY <1>2, <1>3, <1>5, <1>6, <1>7, <1>8, <1>9

\* The other steps of the handler, and its failures.
LEMMA PublishRest ==
  ASSUME TypeOK, CloneInv, RightInv,
         \/ Start \/ EnsureGitRepository \/ EnsureKustomization \/ WriteStatus
         \/ DeleteKustomization \/ DeleteGitRepository \/ Finalize \/ StepFails \/ Crash
  PROVE  CloneInv' /\ RightInv'
<1> USE DEF flux
<1>1. /\ clone \in [here : BOOLEAN, origin : Repos, head : Trees, work : Trees, fresh : BOOLEAN]
      /\ remote \in [Repos -> Trees]
      /\ cr \in [exists : BOOLEAN, deleting : BOOLEAN, want : Wants, own : Owned]
  BY DEF TypeOK
<1>2. CASE Start
  <2>1. snap'.deleting = cr.deleting /\ UNCHANGED <<clone, remote>>
    BY <1>2 DEF Start
  <2>2. /\ pc' \in {"idle", "deleteKust", "clone"}
        /\ pc' = "deleteKust" => cr.deleting
    BY <1>2 DEF Start
  <2> QED
    BY <2>1, <2>2, <1>2 DEF Start, CloneInv, RightInv, Tip
<1>3. CASE EnsureGitRepository
  BY <1>3 DEF EnsureGitRepository, CloneInv, RightInv, Right, Tip, Rendered, UnitsOf
<1>4. CASE EnsureKustomization
  BY <1>4 DEF EnsureKustomization, CloneInv, RightInv, Right, Tip, Rendered, UnitsOf
<1>5. CASE DeleteKustomization
  BY <1>5 DEF DeleteKustomization, CloneInv, RightInv, Tip
<1>6. CASE DeleteGitRepository
  BY <1>6 DEF DeleteGitRepository, CloneInv, RightInv, Tip
<1>7. CASE Finalize
  <2>1. cr'.own = cr.own
    BY <1>1, <1>7 DEF Finalize
  <2> QED
    BY <2>1, <1>7, Stays DEF Finalize, Return, Tip
<1>8. CASE StepFails
  <2>1. CASE UNCHANGED remote
    BY <2>1, <1>8, Stays DEF StepFails, Return, Tip
  <2>2. CASE pc = "push" /\ Pushed
    BY <2>2, <1>8 DEF StepFails, Return, CloneInv, RightInv, Tip
  <2> QED
    BY <2>1, <2>2, <1>8 DEF StepFails
<1>9. CASE Crash
  <2>1. /\ clone'.origin = clone.origin /\ clone'.head = clone.head /\ clone'.work = clone.work
        /\ clone'.here => clone.here
    BY <1>1, <1>9 DEF Crash
  <2>2. Tip' = Tip /\ pc' = "idle"
    BY <2>1, <1>9 DEF Crash, Tip
  <2> QED
    BY <2>1, <2>2 DEF CloneInv, RightInv
<1>10. CASE WriteStatus
  BY <1>10, Stays DEF WriteStatus, Return, Tip
<1> QED
  BY <1>2, <1>3, <1>4, <1>5, <1>6, <1>7, <1>8, <1>9, <1>10

\* What belongs to the CR stays so.
LEMMA OwnStays == TypeOK /\ [Next]_vars => cr'.own = cr.own
<1> SUFFICES ASSUME TypeOK, [Next]_vars PROVE cr'.own = cr.own
  OBVIOUS
<1>1. cr \in [exists : BOOLEAN, deleting : BOOLEAN, want : Wants, own : Owned]
  BY DEF TypeOK
<1>2. CASE World
  BY <1>1, <1>2 DEF World, EditSpec, PushImage, DeleteCR, OtherPush
<1>3. CASE Handle
  <2>1. CASE Finalize
    BY <1>1, <2>1 DEF Finalize
  <2>2. CASE ~Finalize
    BY <1>3, <2>2 DEF Handle, Start, EnsureClone, Checkout, Clean, Render, Commit, Push,
       EnsureGitRepository, EnsureKustomization, WriteStatus, DeleteKustomization,
       DeleteGitRepository, Remove
  <2> QED
    BY <2>1, <2>2
<1>4. CASE Flux \/ StepFails \/ Crash \/ UNCHANGED vars
  BY <1>4 DEF Flux, FluxApplies, FluxPrunes, StepFails, Crash, vars
<1> QED
  BY <1>2, <1>3, <1>4 DEF Next

\* The part of the invariant about the one repository and a CR alone in its overlay.
LEMMA PublishInductive ==
  OneRepo => (Spec => [](TypeOK /\ (Alone => CloneInv /\ RightInv)))
<1> SUFFICES ASSUME OneRepo PROVE Spec => [](TypeOK /\ (Alone => CloneInv /\ RightInv))
  OBVIOUS
<1> DEFINE I == Alone => CloneInv /\ RightInv
<1>1. Init => I
  <2> SUFFICES ASSUME Init PROVE CloneInv /\ RightInv
    OBVIOUS
  <2>1. cr.want \in Wants /\ clone = NoClone(remote[cr.want.repo]) /\ pc = "idle"
    BY DEF Init
  <2> QED
    BY <2>1 DEF NoClone, CloneInv, RightInv, OneRepo
<1>2. TypeOK /\ I /\ [Next]_vars => I'
  <2> SUFFICES ASSUME TypeOK, I, [Next]_vars, Alone' PROVE CloneInv' /\ RightInv'
    OBVIOUS
  <2>1. Alone /\ CloneInv /\ RightInv
    BY OwnStays DEF Alone
  <2>2. CASE Next
    BY <2>1, <2>2, PublishWorld, PublishSteps, PublishRest DEF Next, Handle
  <2>3. CASE UNCHANGED vars
    BY <2>1, <2>3, Stays DEF vars, Tip
  <2> QED
    BY <2>2, <2>3
<1> HIDE DEF I
<1>3. Spec => []I
  BY <1>1, <1>2, TypeCorrect, PTL DEF Spec
<1>4. I => (Alone => CloneInv /\ RightInv)
  BY DEF I
<1> QED
  BY <1>3, <1>4, TypeCorrect, PTL

\* In a repository that edits do not change, a CR with an overlay of its own is
\* handed to Flux, and let go of, only when the branch holds what it should.
THEOREM PublishedCorrect == OneRepo => (Spec => []PublishedFirst)
<1>1. TypeOK /\ (Alone => CloneInv /\ RightInv) => PublishedFirst
  <2> SUFFICES ASSUME TypeOK, Alone, CloneInv, RightInv PROVE PublishedFirst
    BY DEF PublishedFirst
  <2>1. clone.origin = snap.want.repo
    BY DEF TypeOK, CloneInv
  <2> QED
    BY <2>1 DEF RightInv, Right, Tip, PublishedFirst
<1> QED
  BY <1>1, PublishInductive, PTL

\* And whatever an interrupted reconcile left in the clone, the next checkout is
\* not refused for it.
THEOREM CheckoutCorrect == OneRepo => (Spec => []CheckoutGoes)
<1>1. CloneInv => CheckoutGoes
  BY DEF CloneInv, CheckoutGoes, Refused, Tip
<1>2. TypeOK /\ (Alone => CloneInv /\ RightInv) => CheckoutGoes
  BY <1>1 DEF CheckoutGoes
<1> QED
  BY <1>2, PublishInductive, PTL
=============================================================================
