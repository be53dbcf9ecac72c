-------------------------------- MODULE GitOps --------------------------------
(***************************************************************************)
(* pkg/apis/deployment, GitOps mode: one Deployment CR whose manifests are *)
(* committed to an overlay of a Git repository by way of a local clone,    *)
(* and which the Flux GitRepository and Kustomization of the CR bring to   *)
(* the cluster.                                                            *)
(*                                                                         *)
(* A tree is the overlay of this CR's environment and the rest of the      *)
(* repository, which others write.  A commit is known by its tree, and by  *)
(* whether it descends from the tip of the branch (fresh).  Git is         *)
(* modelled at the grain of the overlay.  The intent never carries a Ref   *)
(* (intent_builder.go), so clone and Flux are on the branch.  Reading the  *)
(* deploy key, which can only fail, is part of the step that needs it.     *)
(* What the status says is the subject of DeploymentReconcile.             *)
(***************************************************************************)
EXTENDS Naturals

CONSTANTS
  Units,      \* ServiceUnits
  Images,
  Repos,
  Wants,      \* what a contract resolves to: repository, manifests
  MaxOther,   \* bound on what others push
  MaxFaults,  \* bound on failed calls and restarts
  None

Files == [Units -> Images \cup {None}]

ASSUME GitOpsAssumption ==
  /\ Wants \subseteq [repo : Repos, files : Files]
  /\ MaxOther \in Nat /\ MaxFaults \in Nat
  /\ None \notin Images /\ None \notin Repos

VARIABLES
  cr,        \* the Deployment CR; own: what nobody else writes
  key,       \* the CR's key is in the controller's workqueue
  remote,    \* [Repos -> tree at the tip of the branch]
  clone,     \* the local clone: origin, tree at HEAD, working tree
  source,    \* the repository of the Flux GitRepository, None: absent
  kust,      \* the Flux Kustomization
  applied,   \* the manifests in the cluster
  faults,
  pc,
  snap       \* the CR as resolved when the Command started: want, deleting

flux == <<source, kust, applied>>
vars == <<cr, key, remote, clone, flux, faults, pc, snap>>

\* Its repository, which goes with the CR; its overlay of one that stays; neither.
Owned == {"repository", "overlay", "nothing"}

Nothing == [u \in Units |-> None]
UnitsOf(files) == {u \in Units : files[u] # None}

\* dir: the directory is there; listed: the resources of its kustomization.yaml.
Overlays == [dir : BOOLEAN, files : Files, listed : SUBSET Units]
Trees    == [overlay : Overlays, other : 0 .. MaxOther]

Rendered(files) == [dir |-> TRUE, files |-> files, listed |-> UnitsOf(files)]

-----------------------------------------------------------------------------
(* The world: users, builds, other writers of the repository, Flux         *)
(* (external).                                                             *)

\* The manager's event filter lets a changed contract through.
EditSpec(w) ==
  /\ cr.exists
  /\ w # cr.want
  /\ cr' = [cr EXCEPT !.want = w]
  /\ key' = TRUE
  /\ UNCHANGED <<remote, clone, flux, faults, pc, snap>>

\* A Build pushes an image; the Deployment's controller sees none of it.
PushImage(w) ==
  /\ cr.exists
  /\ w.repo = cr.want.repo /\ UnitsOf(w.files) = UnitsOf(cr.want.files) /\ w # cr.want
  /\ cr' = [cr EXCEPT !.want = w]
  /\ UNCHANGED <<key, remote, clone, flux, faults, pc, snap>>

\* The finalizer's deletion timestamp changes no Spec.
DeleteCR ==
  /\ cr.exists /\ ~cr.deleting
  /\ cr' = [cr EXCEPT !.deleting = TRUE]
  /\ UNCHANGED <<key, remote, clone, flux, faults, pc, snap>>

\* The clone's HEAD no longer descends from the tip.
OtherPush(r, overlay) ==
  /\ remote[r].other < MaxOther
  /\ remote' = [remote EXCEPT ![r] = [overlay |-> overlay, other |-> @.other + 1]]
  /\ clone' = [clone EXCEPT !.fresh = @ /\ clone.origin # r]
  /\ UNCHANGED <<cr, key, flux, faults, pc, snap>>

FluxApplies ==
  /\ kust = "live" /\ source # None
  /\ applied' = LET o == remote[source].overlay
                IN  [u \in Units |-> IF u \in o.listed THEN o.files[u] ELSE None]
  /\ UNCHANGED <<cr, key, remote, clone, source, kust, faults, pc, snap>>

\* A Kustomization that prunes holds its own deletion until it has.
FluxPrunes ==
  /\ kust = "deleting"
  /\ kust' = "none"
  /\ applied' = Nothing
  /\ UNCHANGED <<cr, key, remote, clone, source, faults, pc, snap>>

-----------------------------------------------------------------------------
(* KustomizeStrategyProvider.ReconcileKustomization                        *)

Return(err) ==
  /\ pc' = "idle"
  /\ key' = (key \/ err)

Start ==
  /\ pc = "idle"
  /\ key
  /\ key' = FALSE
  /\ snap' = [want |-> cr.want, deleting |-> cr.deleting]
  /\ pc' = IF ~cr.exists THEN "idle" ELSE IF cr.deleting THEN "deleteKust" ELSE "clone"
  /\ UNCHANGED <<cr, remote, clone, flux, faults>>

\* Mutant: the error of git clone is not looked at.
EnsureCloneUnchecked ==
  /\ pc = "clone"
  /\ clone' = IF clone.here THEN clone ELSE [clone EXCEPT !.here = TRUE, !.origin = None]
  /\ pc' = "checkout"
  /\ UNCHANGED <<cr, key, remote, flux, faults, snap>>

\* A clone that is there is used as it is, whatever its origin.
EnsureClone ==
  /\ pc = "clone"
  /\ clone' = IF clone.here THEN clone
              ELSE [here |-> TRUE, origin |-> snap.want.repo, head |-> remote[snap.want.repo],
                    work |-> remote[snap.want.repo], fresh |-> TRUE]
  /\ pc' = "checkout"
  /\ UNCHANGED <<cr, key, remote, flux, faults, snap>>

\* What is not committed and would be overwritten.
Refused(tip) ==
  clone.work.overlay \notin {clone.head.overlay, tip.overlay} /\ tip.overlay # clone.head.overlay

\* Fetch and checkout of FETCH_HEAD: changes that do not collide come along.
Checkout ==
  /\ pc = "checkout"
  /\ LET tip == remote[clone.origin]
     IN  IF Refused(tip)
           THEN Return(TRUE) /\ UNCHANGED clone
           ELSE /\ clone' = [clone EXCEPT !.head = tip, !.fresh = TRUE, !.work =
                     [overlay |-> IF @.overlay = clone.head.overlay THEN tip.overlay ELSE @.overlay,
                      other   |-> tip.other]]
                /\ pc' = IF snap.deleting THEN "remove" ELSE "clean"
                /\ UNCHANGED key
  /\ UNCHANGED <<cr, remote, flux, faults, snap>>

\* The overlay in the working tree is changed to o.
Write(o) == clone' = [clone EXCEPT !.work = [overlay |-> o, other |-> @.other]]

\* The workload files of these units go.
Without(units) ==
  [u \in Units |-> IF u \in units THEN None ELSE clone.work.overlay.files[u]]

\* Mutant: only the files about to be written again are removed.
CleanOwn ==
  /\ pc = "clean"
  /\ Write([dir |-> TRUE, files |-> Without(UnitsOf(snap.want.files)),
            listed |-> clone.work.overlay.listed])
  /\ pc' = "render"
  /\ UNCHANGED <<cr, key, remote, flux, faults, snap>>

\* Every workload file of the overlay goes, whoever's it is.
Clean ==
  /\ pc = "clean"
  /\ Write([dir |-> TRUE, files |-> Without(Units), listed |-> clone.work.overlay.listed])
  /\ pc' = "render"
  /\ UNCHANGED <<cr, key, remote, flux, faults, snap>>

\* The files of the units are written, and the kustomization.yaml that lists them.
Render ==
  /\ pc = "render"
  /\ LET units == UnitsOf(snap.want.files)
     IN  Write([dir |-> clone.work.overlay.dir, listed |-> units,
                files |-> [u \in Units |-> IF u \in units THEN snap.want.files[u]
                                           ELSE clone.work.overlay.files[u]]])
  /\ pc' = "commit"
  /\ UNCHANGED <<cr, key, remote, flux, faults, snap>>

AfterPush == IF snap.deleting THEN "finalize" ELSE "source"

\* Nothing is committed, and nothing pushed, unless something changed.
Commit ==
  /\ pc = "commit"
  /\ clone' = [clone EXCEPT !.head = clone.work]
  /\ pc' = IF clone.work = clone.head THEN AfterPush ELSE "push"
  /\ UNCHANGED <<cr, key, remote, flux, faults, snap>>

\* HEAD becomes the tip.
Pushed == remote' = [remote EXCEPT ![clone.origin] = clone.head]

\* Mutant: push --force.
ForcePush ==
  /\ pc = "push"
  /\ Pushed
  /\ pc' = AfterPush
  /\ UNCHANGED <<cr, key, clone, flux, faults, snap>>

\* Mutant: a rejected push is left to the next reconcile.
PushOrLeave ==
  /\ pc = "push"
  /\ IF clone.fresh THEN Pushed /\ pc' = AfterPush /\ UNCHANGED key
                    ELSE Return(FALSE) /\ UNCHANGED remote
  /\ UNCHANGED <<cr, clone, flux, faults, snap>>

\* Only a commit that descends from the tip is taken.
Push ==
  /\ pc = "push"
  /\ IF clone.fresh THEN Pushed /\ pc' = AfterPush /\ UNCHANGED key
                    ELSE Return(TRUE) /\ UNCHANGED remote
  /\ UNCHANGED <<cr, clone, flux, faults, snap>>

EnsureGitRepository ==
  /\ pc = "source"
  /\ source' = snap.want.repo
  /\ pc' = "kust"
  /\ UNCHANGED <<cr, key, remote, clone, kust, applied, faults, snap>>

EnsureKustomization ==
  /\ pc = "kust"
  /\ kust' = IF kust = "deleting" THEN kust ELSE "live"
  /\ pc' = "status"
  /\ UNCHANGED <<cr, key, remote, clone, source, applied, faults, snap>>

\* The write changes no Spec, so it wakes nobody.
WriteStatus ==
  /\ pc = "status"
  /\ Return(FALSE)
  /\ UNCHANGED <<cr, remote, clone, flux, faults, snap>>

-----------------------------------------------------------------------------
(* Teardown: TeardownFluxResources, and for a repository that outlives the *)
(* CR the removal of its files.                                            *)

\* Mutant: the GitRepository is deleted although the Kustomization could not be.
DeleteKustBestEffort ==
  /\ pc = "deleteKust"
  /\ kust' \in {kust, IF kust = "live" THEN "deleting" ELSE kust}
  /\ pc' = "deleteSource"
  /\ UNCHANGED <<cr, key, remote, clone, source, applied, faults, snap>>

\* Mutant: a Kustomization that is gone is an error.
DeleteKustFound ==
  /\ pc = "deleteKust"
  /\ kust' = IF kust = "live" THEN "deleting" ELSE kust
  /\ IF kust = "none" THEN Return(TRUE) ELSE pc' = "deleteSource" /\ UNCHANGED key
  /\ UNCHANGED <<cr, remote, clone, source, applied, faults, snap>>

DeleteKustomization ==
  /\ pc = "deleteKust"
  /\ kust' = IF kust = "live" THEN "deleting" ELSE kust
  /\ pc' = "deleteSource"
  /\ UNCHANGED <<cr, key, remote, clone, source, applied, faults, snap>>

DeleteGitRepository ==
  /\ pc = "deleteSource"
  /\ source' = None
  /\ pc' = IF cr.own = "repository" THEN "finalize" ELSE "clone"
  /\ UNCHANGED <<cr, key, remote, clone, kust, applied, faults, snap>>

\* The kustomization.yaml cannot be written in a directory that is not there.
Remove ==
  /\ pc = "remove"
  /\ IF ~clone.work.overlay.dir
       THEN Return(TRUE) /\ UNCHANGED clone
       ELSE /\ Write([dir |-> TRUE, listed |-> {}, files |-> Without(UnitsOf(snap.want.files))])
            /\ pc' = "commit"
            /\ UNCHANGED key
  /\ UNCHANGED <<cr, remote, flux, faults, snap>>

\* Teardown returned nil: the controller (external) removes the finalizer.
Finalize ==
  /\ pc = "finalize"
  /\ cr' = [cr EXCEPT !.exists = FALSE]
  /\ Return(FALSE)
  /\ UNCHANGED <<remote, clone, flux, faults, snap>>

-----------------------------------------------------------------------------
(* Failure.                                                                *)

\* The step the handler is about to take fails.  A push may have been taken.
StepFails ==
  /\ faults < MaxFaults
  /\ faults' = faults + 1
  /\ pc # "idle"
  /\ UNCHANGED remote \/ (pc = "push" /\ clone.fresh /\ Pushed)
  /\ Return(TRUE)
  /\ UNCHANGED <<cr, clone, flux, snap>>

\* The process restarts, in a container that has the clone or in a new one.
Crash ==
  /\ faults < MaxFaults
  /\ faults' = faults + 1
  /\ \E kept \in BOOLEAN : clone' = [clone EXCEPT !.here = @ /\ kept]
  /\ pc' = "idle"
  /\ key' = TRUE
  /\ UNCHANGED <<cr, remote, flux, snap>>

-----------------------------------------------------------------------------
Empty == [dir : BOOLEAN, files : {Nothing}, listed : {{}}]

\* No clone yet: its other fields mean nothing.
NoClone(tree) ==
  [here |-> FALSE, origin |-> cr.want.repo, head |-> tree, work |-> tree, fresh |-> FALSE]

Init ==
  /\ cr \in [exists : {TRUE}, deleting : {FALSE}, want : Wants, own : Owned]
  /\ key = TRUE
  /\ \E o \in Empty : remote = [r \in Repos |-> [overlay |-> o, other |-> 0]]
  /\ clone = NoClone(remote[cr.want.repo])
  /\ source = None
  /\ kust = "none"
  /\ applied = Nothing
  /\ faults = 0
  /\ pc = "idle"
  /\ snap = [want |-> cr.want, deleting |-> FALSE]

World ==
  \/ \E w \in Wants : EditSpec(w)
  \/ \E w \in Wants : PushImage(w)
  \/ DeleteCR
  \/ \E r \in Repos : OtherPush(r, remote[r].overlay)
  \/ /\ cr.own = "nothing"
     /\ \E r \in Repos, w \in Wants : OtherPush(r, Rendered(w.files))

Flux == FluxApplies \/ FluxPrunes

Handle ==
  \/ Start
  \/ EnsureClone
  \/ Checkout
  \/ Clean
  \/ Render
  \/ Commit
  \/ Push
  \/ EnsureGitRepository
  \/ EnsureKustomization
  \/ WriteStatus
  \/ DeleteKustomization
  \/ DeleteGitRepository
  \/ Remove
  \/ Finalize

Next == World \/ Flux \/ Handle \/ StepFails \/ Crash

Spec == Init /\ [][Next]_vars

\* The workqueue hands out its keys, the handler goes on, Flux prunes what is
\* deleted.  Users, builds and other writers owe nothing.
FairSpec == Spec /\ WF_vars(Handle) /\ WF_vars(FluxPrunes)
-----------------------------------------------------------------------------
Steps == {"idle", "clone", "checkout", "clean", "render", "commit", "push", "source", "kust",
          "status", "deleteKust", "deleteSource", "remove", "finalize"}

TypeOK ==
  /\ cr \in [exists : BOOLEAN, deleting : BOOLEAN, want : Wants, own : Owned]
  /\ key \in BOOLEAN
  /\ remote \in [Repos -> Trees]
  /\ clone \in [here : BOOLEAN, origin : Repos, head : Trees, work : Trees, fresh : BOOLEAN]
  /\ source \in Repos \cup {None}
  /\ kust \in {"none", "live", "deleting"}
  /\ applied \in Files
  /\ faults \in 0 .. MaxFaults
  /\ pc \in Steps
  /\ snap \in [want : Wants, deleting : BOOLEAN]

Alone == cr.own # "nothing"

\* Flux is pointed at the branch only when the branch holds the manifests of the
\* contract, and a Teardown that removes files ends only when the branch lists
\* none: "No changes detected" is never said of a commit that was not pushed, a
\* rejected push or a half-written overlay is never taken for the real thing.
PublishedFirst == Alone =>
  /\ pc \in {"source", "kust"} =>
       remote[snap.want.repo].overlay = Rendered(snap.want.files)
  /\ pc = "finalize" /\ cr.own = "overlay" => remote[snap.want.repo].overlay.listed = {}

\* What others pushed outside the overlay, between fetch and push, is never undone.
\* In an overlay they share with this CR it is: Clean and Render write all of it.
OthersKept == [][\A r \in Repos : remote'[r].other >= remote[r].other]_vars

\* kustomization.go: "stop reconciliation before the source it points at goes
\* away, rather than after": no Kustomization is live without its GitRepository,
\* on the way up and on the way down, at whatever call the handler stops.
KustHasSource == kust = "live" => source # None

\* A reconcile that stopped half-way leaves changes in the clone.  They never
\* stand in the way of the next one's checkout.
CheckoutGoes == Alone /\ pc = "checkout" => ~Refused(remote[clone.origin])

\* What the contract asked for when it woke the handler gets to the branch, in
\* spite of rejected pushes, lost answers and leftovers, unless it changes first.
Declares(w) == cr.exists /\ ~cr.deleting /\ cr.want = w
DeclaredIsPublished ==
  \A w \in Wants :
    (Alone /\ Declares(w) /\ key) ~> (remote[w.repo].overlay = Rendered(w.files) \/ ~Declares(w))

\* A Teardown under way ends, and with nothing left in the cluster.  Where files
\* are removed the overlay's directory has to be in the repository.
TeardownCompletes ==
  (Alone /\ pc = "deleteKust" /\ remote[cr.want.repo].overlay.dir) ~> (~cr.exists /\ applied = Nothing)

\* kustomization.go: "ensureLocalClone makes repoPath a local clone of repoURL".
ClonesTheRepo ==
  pc \in {"checkout", "clean", "render", "remove", "commit", "push"} =>
    clone.origin = snap.want.repo
=============================================================================
