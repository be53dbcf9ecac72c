# A TLA+ model of blanketops/environments

This directory holds TLA+ modules that model the concurrent and failure-prone
parts of the repository, TLC configurations that check them on small instances,
and TLAPS proofs of the most important results for every instance. The code is the
reference; `PROJECT.json` maps each definition to the lines it models.

    tlc -workers 2 -config Engine.cfg MCEngine           # one run
    tlapm Engine_proofs.tla                              # one proof module

## 1. The system

The repository is the library behind a Kubernetes platform controller. A
controller (in another repository, external here) turns a change of a custom
resource into a `Command` and hands it to the `Engine`, which finds the `Domain`
registered for the Command's kind and calls its `Handle`. A Domain (external)
decodes `Spec.Contract` with a `resolution` adapter and calls the kind's
`application` service, which maps it, selects a provider, runs the provider
against the API server (or Git), and writes conditions to the resource's status.
*Observers* (external; docs/architecture/02, "Command side vs. Observer side")
watch child resources and write status and annotations back.

| component | state | operations | what is hard | what makes it correct |
|---|---|---|---|---|
| `core/engine` | domain table, breaker, channel of 1024, worker pool, stop channel | Execute, Queue, SetWorkers, StartWorkers, StopWorkers, workerLoop | goroutines on one channel, a breaker asked twice, stop racing with work | each accepted Command dispatched once and in order; an open breaker holds; stop is quiet; nothing starves |
| `core/registry`, `command`, `domain`, `predicates`, `conditions`, `events` | the table | lookups, pure functions | - | one Domain per kind |
| `core/cache`, `cache/*` | external key/value entries per object and generation | Set, Get, Invalidate | DelPrefix is not atomic; TTLs | a hit is not older than what was asked for; what is deleted is dropped, and nothing else |
| `build` application | conditions and contract of a Build | Reconcile, Teardown, Write, WriteReplacing | two writers of one status, conflicts, lost answers | two outcomes are never mixed, a reconciler's write changes its own condition only, no write is lost or repeated |
| `build` providers | Shipwright Build and BuildRuns | Run, Teardown | Get/Create in two calls, annotations patched in between, edits, restarts | each execution built once, from its own source; complete teardown |
| `deployment` | Kubernetes Deployments and Services per ServiceUnit, status | Reconcile, Teardown | partial failure over units, stale readiness, edits between reconciles | status tells the truth; teardown leaves no orphan |
| `deployment` GitOps | a local clone, a Git branch, two Flux objects | ReconcileKustomization, CommitAndPush, Teardown | crash between steps, non-fast-forward pushes, shared repositories | the branch converges to the declared manifests |
| `packages` | service account, binding, kapp App | Execute, Teardown | a teardown that takes several reconciles, names shared by two Packages | prerequisites outlive the App, and nothing outlives the Package |
| `environment` | secret store | Reconcile, Lookup | stores shared by a default name, two scopes | a store is there while its Environment asks for it, and no teardown takes a shared one |
| `githubevent`, `gitrepository`, `route`, `domain` | singletons, cluster-scoped objects, host-named objects | Ensure, Teardown | objects that refer to each other, several CRs sharing one, errors that end in a condition | what was reported done is there and stays; nothing a CR alone asks for outlives it |
| `serviceunit` | conditions | Reconcile, Lookup | - | conditions follow from the contract |
| `resolution/*`, `pkg/intent` | - | decode and validate contracts | which shapes of which fields are refused | only resolved contracts reach a provider or the cache |
| `pkg/secrets`, `pkg/serviceaccounts` | ExternalSecrets, Secrets, accounts, bindings | Get, Create, Update, Delete | replace = delete + create; an operator and a collector write the same Secrets | a CR whose reconcilers can succeed has its Secrets in the end |

Components interact through calls (controller -> Engine -> Domain -> service ->
provider), through shared objects in the API server (the status of a Build is
written by the reconciler and the buildrun-observer; the Shipwright Build by the
provider and read by Shipwright), and through watch events (a write of an object
wakes its controllers).

## 2. Plan

1. `Engine` with its promise `CommandBus` - done, proved.
2. `StatusWriter` with its promise `StatusMerge`, over `BuildConditions` - done, proved.
3. `BuildDispatch`: the Build pipeline from push to BuildRun and back down - done, proved
   for one handler at a time.
4. `DeploymentReconcile`: several ServiceUnits applied and torn down by one handler,
   and the status they leave behind - done, proved.
5. `GitOps`: clone, render, commit, push and Flux objects, with crashes and a moving
   remote - done, proved.
6. `Packages`: App, binding and account of several Packages over several
   reconciles - done, proved.
7. `Contracts` and `ObjectCache`: which contracts resolve and what is published of
   them, generation-scoped keys, invalidation against concurrent writers - done,
   proved.
8. `Provisioning` and `ClusterObjects`: the reconcilers of secrets, accounts, stores,
   GitHubEvents, GitRepositories, Domains and Routes, as the calls each makes, over
   one machine that carries the calls out - done, proved.

`ClusterObjects` composes with every reconciler of `Provisioning` through the plans
it asks of it, `ObjectCache` with `Contracts` through what resolves and is
published, `StatusWriter` with `BuildConditions`, and each promise (`CommandBus`,
`StatusMerge`) with the module that keeps it.

Open: a Deployment that is edited from one mode to the other. Proof modules extend
the module they are about; no module declares a RECURSIVE operator.

## 3. The modules

**Engine** (`core/engine/engine.go`, `core/registry/registry.go`). One program
counter per Command stands for the goroutine working on it: the caller inside
`Execute` or `Queue`, or a worker. The reads of `e.workers` and `e.circuitBreaker`
under the lock, each `Allow`, the registry lookup, `Handle` and the channel
operation are separate actions, so that configuration, the breaker, other callers
and workers come in between. `WorkerTakes` and `WorkerStops` may both be enabled:
Go's `select` picks either. `StopWorkers` is `StopCall` (close once, wait) and
then `StopJoined` or `StopTimesOut`. `SetWorkers` before `StartWorkers`, and the
latter once, as their comments ask. `accepted`, `taken` and `shut` are history.
`CommandBus` is the promise: a Command is refused, or claimed once, oldest first,
and run at most once.

**BuildConditions, StatusWriter** (`pkg/apis/build/application/status.go`,
`service.go`). A status is the value of each condition type plus the outcome in
`status.contract`; `Apply` is what one write does to it. `StatusWriter` is the
`RetryOnConflict` loop: `Get`, `Update`, `Conflict`, `Fails`, and
`UpdateUnanswered`, an update that was applied and whose answer was lost.
resourceVersions are modelled by what they tell apart: `fresh[w]` while w's copy
is the current version. `OtherUpdate` is any other change of the object.
`StatusMerge` is the promise: one atomic merge, at most once, exactly once if the
call reports success. An atomic merge of a current copy may still replace what the
other writer said: the reconciler reports an error of Run as `BuildFailed=False`
(service.go:100-107), and the merge replaces an observer's `BuildFailed=True` by it
without a condition (status.go:113-121). Then only `status.contract` still tells
that the run failed. `WritesOwnTypeOnly` says that this is all a reconciler's write
can replace.

**BuildDispatch** (`pkg/apis/build/api`, `application/service.go`,
`pkg/utils/util.go`). One Build, the handlers that may hold a Command for it, and
the world around: pushes, the build-observer's annotations, edits, deletion,
Shipwright, failing calls and restarts (the garbage collector would only find
something to do with several handlers, and is left out). Each API call of
`Run` and `Teardown` is an action. `Identity` is the execution hash, modelled by
what it separates: the contract as `ToBuildContract` hands it over, the trigger's
type, ref and commit, and the retry attempt. That adapter leaves `strategy.kind` out
(contract_adapter.go:99-105), so a contract is a kind and the rest, and an edit of
the kind alone rewrites the Shipwright Build but names no new BuildRun.
`CreateBuildSpec` is what the Shipwright Build is made of. `EventTypeText` is the text that
`GetEventType().String()` yields for a push; the provider compares it with
`"push"`. With it the patch never happens, and the annotations are the
build-observer's alone. Status writes are one step here, which `StatusWriter`
justifies. One may wake nobody: the times of conditions have whole seconds, so a
condition that is there already, written again within the same second, is an update
that changes nothing, and the API server sends no event for it. `status` therefore
holds which conditions are there and which execution's failure was told last. A
Mapper's error is returned (service.go:65-67) and comes back through the workqueue;
an error of Run is not (70), so a request that failed twice within one second stays
behind until something else wakes the controller. Buildah's code is Kaniko's;
Buildpacks lacks the patch, which the model reaches through the same (idle) step.

**DeploymentReconcile** (in `pkg/apis/deployment`: `api/kubernetes.go`,
`strategy/kubernetes.go`, `reconcile/reconciliation.go`, `application/service.go`,
`application/status.go`; and `core/predicates`). One Deployment CR in imperative
mode, the handler working on it and the Kubernetes Deployment and Service of each
ServiceUnit. `Start` is the Command with what the service resolves first: the
contract and the image of each unit, kept in `snap` while users, builds and
replicas go on. `ApplyDeployment`, `ApplyService` and `IsReady` are the calls for
one unit; a unit whose call fails is recorded and the loop goes on. `WriteStatus`
is the end of a reconcile: phase, unit results, one condition, and the error
handed back. `DeleteDeployment`, `DeleteService` and `TeardownReturns` are
Teardown, which gathers errors and goes on; `Finalize` is the controller's part.
`Rejected` and `Held` are units whose Service the API server refuses for good, and
whose Deployment it will not delete. `MeaningfulChange` is the event filter.
docs/architecture/02 says it is active for Deployments and not for Builds, which
is why `BuildDispatch` wakes its handler at every change and this module does not.
The objects a handler applies carry no owner reference and wake nobody.

**GitOps** (in `pkg/apis/deployment`: `api/kustomization.go`,
`reconcile/reconciliation.go`, `render/builders`). One Deployment CR whose
manifests go to the overlay of its environment in a Git repository, the local
clone, the branch, and the two Flux objects that bring the overlay to the cluster.
A tree is the overlay (its directory, a file per unit, what `kustomization.yaml`
lists) and the rest, which others write; a working tree differs from HEAD or it
does not, at the grain of the overlay. `fresh` says whether HEAD descends from the
tip, which is all that Git asks of a push. `EnsureClone`, `Checkout`, `Clean`,
`Render`, `Commit`, `Push`, `EnsureGitRepository`, `EnsureKustomization` and
`WriteStatus` are the steps of a reconcile, `DeleteKustomization` and
`DeleteGitRepository` those of `TeardownFluxResources`. `StepFails` and `Crash`
may come at any of them; a push that fails may have been taken, and a restart
keeps the clone or loses it. `cr.own` says what nobody else writes: the
repository, which goes with the CR; the overlay in a repository that stays; or not
even that. Unless the repository goes with the CR,
`KustomizeStrategyProvider.Teardown` goes on with a checkout and `Remove`; the
executor calls `TeardownFluxResources` alone, and says why
(reconciliation.go:164-174). The intent never carries a Ref
(intent_builder.go:108-114), so clone and Flux stay on the branch, and the pinning
to a commit that the comments speak of does not happen. What the builders put into
a manifest is abstracted to the unit's image.

**Packages** (`pkg/apis/packages`, `pkg/serviceaccounts/packagebot.go`,
`packagebinding.go`, `core/predicates`). Several Package CRs, and for each a
ServiceAccount, a ClusterRoleBinding and a kapp App. One handler works on one
Package at a time, out of the controller's workqueue (`key`). The controller is
external: that it reconciles account and binding before `PackageService.Reconcile`,
and deletes them after `Teardown` has returned nil, is what service.go:82-86 and
application.go:349-352 ask of it. `EnsureAccount`, `EnsureBinding`,
`ReplaceBinding`, `ApplyApplication`, `ObserveApplication` and `WriteStatus` are
the calls of a reconcile; `DeleteApplication`, `AppGone`, `DeleteBinding`,
`DeleteAccount` and `Finalize` those of a deletion. `AppGone` returns
`ErrTeardownInProgress` while the App is there, and the key goes back to the queue.
An error of `Execute` becomes a condition and is not returned (`ExecuteFails`); any
other is (`CallFails`). kapp-controller deploys, fails half way or at once, and
removes what it deployed, with the rights of the App's account (`Rights`). The
names of bindings are modelled by their parts between dashes, because two Packages
may have one (`OwnName` says that a Package's is its own). A restart may come with
another ClusterRole, which is when bindings are replaced. A Package is not edited
once it is being deleted, nor made again. `WriteStatus` stores a condition that
nothing here reads again, so only the one about to be written is kept (`outcome`);
`Kapp.Executed`, which the condition Running asks for (status.go:121), no provider
sets. `PackageProvider` and `ApplicationProvider` make the same calls.

**Contracts** (`resolution/*/resolve`, `cache/<kind>`). Of each kind: the fields its
resolver looks at, which shapes of them it refuses (`ResolveEnvironment`,
`ResolveBuild`, ...), what `PublishResolved` sets of a resolved contract and in what
order, and the sets of fields the typed getters read (`Helpers`). A field is absent,
as it should be, of the right type but unacceptable, or of another type; an optional
object of another type counts as absent, an optional string does not, and so on, as
the source has it field by field.

**ObjectCache** (`cache/objectcache.go`, `cache/adapter`, `core/cache`). Objects that
are edited, deleted and created again under their name, whose generation then
starts at one; `StartPublish` and `SetField` are a publication, one Set after the
other, of a contract as it was when the reconcile began; `Invalidate`,
`DeleteScanned` and `MeetNewKey` are Redis' scan, which deletes key by key and meets
some of the keys set meanwhile; the other backends do nothing. `StartRead` and
`GetField` are a typed getter, one Get after the other. `SetFails` and `ScanFails`
are failing calls, `Expire` the hour after which an entry goes. Every call of the
backend is about one key, so only the fields of one getter are kept (`probe`): a
publication goes from one of them to the next (`Relevant`).

**Provisioning** (`pkg/secrets`, `pkg/serviceaccounts/buildbot.go`,
`pkg/apis/{environment,githubevent,gitrepository,domain,route}`). For each reconciler
the sequence of calls that its Reconcile or Ensure makes for a CR and a contract,
and that of its Delete or Teardown. A call names its object, the value it writes
(what tells two versions of the object apart), how it treats one that is there
(`op`), whether the CR becomes its owner, and whether its error is returned or ends
in a condition (`quiet`). The Get and the Create or Update that follows it are one
call, because the version that was read guards the write. `StoreName` is
`query.Lookup`, the name under which the other kinds find the Environment's store.
The reconcilers of the Build's and of the Deployment's clone secret do not ask
whether one is declared (git/build/build.go:63-64, git/deployment/deployment.go:57-58),
nor does the one of a Package's state repository ask for the repository
(staterepo.go:68): without it the call is refused for its empty name, or a nil
pointer is dereferenced, which the controller's runtime turns into an error. All of
that is `Refuse`, each time, in Reconcile and in Delete.

**ClusterObjects** carries those calls out: several CRs with an edit, a deletion or a
creation under the old name at any moment, one worker per CR, and after each call
`Fails`, in which the call had its effect or not, or `Restart`. `Created` and
`Updated` are what the five ways to write do to an object that is missing or there.
An owner that is deleted becomes `Gone`, and `Collect` removes what it owned;
`StartSync` and `EndSync` are the External Secrets Operator, which reads an
ExternalSecret and later writes its Secret, and leaves alone one that is not its
own; `Issue` is cert-manager. `AwaitCertificate` is the one reconcile that is tried
again though nothing failed, because `ErrCertProvisioning` is handed back. The
controller is external: that it calls reconciler after reconciler up to the first
error, and lets a CR go when all teardowns returned nil, is what the comments of the
services ask of it; that the store, the credentials and the account come before what
uses them is its order, too. `Undisputed(c, o)` says that no other CR's contract has a
call about an object, unless it is shared by design, and that c's own asks for it
once; the properties that an object of a CR stays, goes or arrives speak of those.

## 4. The runs

| run | instance | shows |
|---|---|---|
| `Engine` | 2 Commands, 2 workers, queue of 1 | JoinedMeansQuiet, OpenBreakerHolds, that Engine implements CommandBus, AcceptedIsServed, FullQueueLetsThrough |
| `StatusWriter` | 1 reconciler, 1 observer, 3 attempts | TypeOK, OneOutcome, WritesOwnTypeOnly, MergesAtomically, CallsReturn |
| `BuildDispatch` | 1 handler, 1 branch, 1 commit, 3 contracts (two that differ in the strategy's kind, one that the Mapper refuses), 1 retry, 2 faults | TypeOK, BuiltOnce, TeardownIsComplete, NewRunMatchesShip, RequestIsAnswered, DeletionCompletes |
| `BuildDispatchCommit` | 1 handler, 1 branch, 2 commits, the same contracts | **violated** RunBuildsItsCommit (see 7) |
| `DeploymentReconcile` | 3 units, one of them refused and held, 3 contracts, 1 image, 1 fault | TypeOK, StatusIsTrue, TeardownIsComplete, SuccessIsComplete, DeclaredIsApplied |
| `DeploymentOrphan` | 3 units, 1 image, 1 fault | **violated** TeardownLeavesNothing (see 7) |
| `DeploymentDelete` | 3 units, 1 image, no fault | **violated** DeletionIsTornDown (see 7) |
| `GitOps` | 2 units, 3 contracts, own repository, own overlay or neither, 1 foreign push, 1 fault or restart | TypeOK, PublishedFirst, KustHasSource, OthersKept, DeclaredIsPublished, TeardownCompletes |
| `GitOpsMoved` | 2 units, 2 repositories, no fault | **violated** ClonesTheRepo (see 7) |
| `Packages` | Packages a-b/c and a/b-c, one or both of them there, 2 contracts of which one does not resolve, 2 roles or none, 2 faults | TypeOK, NoStrayBinding, AppKeepsItsRights, RightsComeBack, DeletionCompletes |
| `ObjectCache` | the 9 kinds behind Redis; one of them also behind Memcached, behind the no-op backend, and with several workers per object; 2 names of which one begins like the other, 1 of them changing | TypeOK, HitIsOwn, InvalidateDropsOwn |
| `ClusterObjects` | 10 setups of reconcilers and contracts, 2 CRs with 1 to 5 contracts each, 1 of them changing twice, 1 fault | TypeOK, StackFirst, DoneStays, TornDown, SecretsArrive |

Bounds. Two Commands and a queue of one make the queue full with a sender waiting,
and a worker busy with a sender's Command; two workers make the races between receivers and
between a worker and the stop. The Commands of the runs are of one kind: registry
and breaker treat each kind by itself, and the proofs speak of any number of them.
Of the writers of a status a reconciler and an observer are the pair that can mix
outcomes, and three attempts let a conflict follow a conflict and hit the last
attempt; the code's five differ only in number. In BuildDispatch `MaxRetry` bounds
the retry annotation, `MaxFaults` the failed calls, restarts and Shipwright's own
updates of its Build; each of `Commits` is pushed once. One commit and one retry
make four executions of what is hashed of a contract (with and without the commit);
the theorems speak of any number. In DeploymentReconcile
one unit's Service is refused by the API server and its Deployment cannot be
deleted, so that the loops meet an error that never goes away; the second contract
drops that unit and adds another, and has two units that can be applied; the third
asks for `Canary`, which the runtime does not support.  One fault, at any call, or
a restart is enough to interrupt a loop anywhere.  A unit has one image here, built
or not yet; outdated Deployments are left to the theorems, which speak of any
images. In GitOps one contract names another image and one drops a unit;
`MaxOther` bounds what others push (one push, between any two steps) and
`MaxFaults` the failed steps and restarts; somebody who pushes between every fetch
and push of the provider would keep it from ever publishing, which is outside the
bound and outside what the code could prevent. In Packages, two Packages are
the fewest that can share a binding name; where one of them never existed the other
has its own, which is where the properties with `OwnName` speak. Two roles make a
restart change a role that is bound, two faults a failure follow that restart
between the deletion and the creation of the binding. In ObjectCache a name that
begins like another is the pair that a prefix could confuse; two changes make an edit
or a deletion and a creation; of the contracts that differ from a complete one in one
field one stands for all that resolve and publish alike, so that each branch of the
resolver on the way to the watched field is taken. In ClusterObjects two changes are
the fewest that delete a CR and create it again, one fault interrupts one attempt at
any call, and the second CR is the one whose objects a teardown or an edit of the
first could take: it shares the stack, the Issuer and the store with it. The
contracts of a setup differ in what its reconcilers distinguish: a clone secret, a
credentials secret or a state repository declared or not, a strategy, a runtime, a
store's kind. Where CRs have a host or a Secret's name in common the later one wins
and the first that is torn down takes the object away; one setup has two Builds with
one clone secret, about which the properties of a CR's own objects say nothing
(`Undisputed`), and all others have names apart, so that they say something of every
object. Deadlock checking is off: every
one of these systems may come to rest (all Commands answered, everything deleted).

## 5. Fairness

*Engine*: a worker that can step does, `Handle` returns (weak fairness of
`Worker` and `Execute`), and a sender blocked on the channel is served (strong
fairness of `Send`: Go queues blocked senders first come, first served).  Nobody
has to call, configure, stop or close the breaker.  `WorkerStops` gets no
fairness of its own: workers leave because Commands run out.
*StatusWriter*: a call in progress goes on.  Nobody has to make one.
*BuildDispatch*: the workqueue hands out its keys and handlers go on (weak
fairness of `Handle`).  Users, Git, the
observers and Shipwright owe nothing.
*DeploymentReconcile*: the same (weak fairness of `Handle`).  Users, builds and
replicas owe nothing; whether replicas ever become ready is not assumed.
*GitOps*: the same, and Flux prunes what a deleted Kustomization had applied (weak
fairness of `Handle` and `FluxPrunes`).  Users, builds and other writers owe
nothing.
*Packages*: a handler goes on (weak fairness of `Work`); no key waits for ever
while others come and go (strong fairness of `Start(p)`: the workqueue is first in,
first out, and one handler that is busy with the other Package disables `Start` again
and again); kapp-controller removes a deleted App if it has the rights to (weak
fairness of `KappDeletes`).  Users, and whether an App is ever deployed, owe nothing.

*ClusterObjects*: a CR's worker goes on (weak fairness of `Work(c)`; each CR has its
own, as different keys go to different workers), the operator reads and writes
(weak fairness of `StartSync` and `EndSync`), and the collector comes round.
cert-manager, users and resyncs owe nothing: a Certificate that is never issued
keeps its Domain provisioning.
*ObjectCache* states no liveness: nobody has to publish, read or expire anything.

## 6. What is proved

The proofs assume only `EngineAssumption` (kinds of Commands, finitely many
workers, a positive capacity), `StatusWriterAssumption` (the two sorts of writers
are disjoint, at least one attempt), `BuildDispatchAssumption` (the bounds are
natural numbers, a contract is a kind and a rest, the rejected ones are among them),
`DeploymentAssumption` (a contract lists at least one unit and names one of three
strategies), `GitOpsAssumption` (a contract is a repository and the manifests
of its units, the bounds are natural numbers), `PackagesAssumption` (the
unresolved contracts are among the contracts, the bound is a natural number, the
absent value is none of them), `ObjectCacheAssumption` and `SetupAssumption` (what
changes is among the names, kinds, backends and getters are the program's, a
contract has the fields its resolver looks at), and `ClusterObjectsAssumption`
(below), which TLC evaluates in the runs; the theorems about `BuildDispatch`, and two
of those about `GitOps`, have a hypothesis besides, explained below.

`Engine_proofs`: the inductive invariant `IInv` adds to the checked properties
what they rest on. `QueueInv`: the channel holds exactly the Commands whose
program counter says queued, each once. `WorkerInv`: a busy worker's Command is
past the queue, and no other worker holds it. `ShutInv`: a Command in `shut` is
before its dispatch, and the breaker that put it there is still open, so the check
still to come will refuse it. `PoolInv`: after a joined stop every spawned worker
has left and none can come. Each action preserves each part; from it follow
`TypeCorrect`, `FifoCorrect`, `OneDispatcherCorrect`, `BreakerCorrect` and
`StopCorrect`, and, step by step, the refinement `BusCorrect`.

`StatusWriter_proofs`: `IInv` adds to `TypeOK` and `OneOutcome` that a fresh copy
equals the persisted status (`CopyCurrent`, which is what optimistic locking buys)
and that each writer only makes its own writes (`RequestInv`). From it follow
`OneOutcomeCorrect`, the action property `WritesOwnTypeOnlyCorrect` and the
refinement `MergeCorrect`.

`BuildDispatch_proofs`: all theorems read `Synchronous => (Spec => []...)`, where
`Synchronous` says that there is one handler. That is the synchronous mode of the
Engine under a controller, which never runs two reconciles of one object. The
hypothesis is needed: with two pool workers a handler that read the Build before
its deletion can create a BuildRun after the other one's Teardown has listed them.
`IInv` adds to the checked properties what a handler may still rely on between two
calls: `HandlerInv` (its CR is there, its contract one the Mapper accepts, and
what it removes is being deleted), `ShipInv` (past its update the Shipwright Build
is the one this execution asks for), `RunInv` (the BuildRun that Get did not find
is still absent at Create), `ListInv` (what Teardown listed covers the BuildRuns
there are) and `BuildInv` (what was built has a run that remembers it, until a
Teardown removes that run and no dispatch can follow). From it follow
`TypeCorrect`, `BuiltOnceCorrect`, `TeardownCorrect`, `ReportCorrect` and
`NewRunCorrect`.

`DeploymentReconcile_proofs`: `IInv` adds to the checked properties what a loop
over the units has established when it is interrupted. `HandlerInv`: the CR is
there, and being deleted while its objects are deleted. `ApplyInv`: each unit of
the contract is still to come or has a result, and a result other than Failed
means its Deployment (with the image resolved at the start) and its Service are
there. `DeleteInv`: as long as nothing failed, a unit is still to come or gone.
`StatusIsTrue` alone is not inductive: when `WriteStatus` publishes the results,
`ApplyInv` is what makes them true, and no later step but a Teardown of a CR being
deleted takes an object away. From it follow `TypeCorrect`, `StatusCorrect`,
`TeardownCorrect` and the action property `SuccessCorrect`.

`GitOps_proofs`: without hypotheses, `FluxInv` (the GitRepository is there when
the Kustomization is about to be applied, and the Kustomization is gone or going
when the GitRepository is deleted) gives `KustHasSourceCorrect`, and `FreshInv` (a
HEAD that descends from the tip has what others pushed, and no step touches that
part of the working tree) gives the action property `OthersKeptCorrect`, which
counts the commits of others outside the CR's overlay. Inside it the code does take
back what others pushed: `Clean` removes every workload file there is and `Render`
lists this CR's units alone (kustomization.go:218-221).
`PublishedCorrect` and `CheckoutCorrect` read `OneRepo => (Spec => []...)`: edits
do not change the repository. Where they do, the clone stays with the old one, as
`GitOpsMoved` shows. Both properties speak of a CR that is `Alone` in its overlay:
where others write there, too, what the branch holds may change between push and
Flux objects, and what an interrupted reconcile left in the clone may collide with
it. `CloneInv` says that a clone with changes has a HEAD whose overlay is the
tip's, which is why a checkout never collides and why comparing with the clone is
as good as comparing with the branch; `RightInv` says what, at each step, is
already what it should be: the working tree, then HEAD, then the tip.

`Packages_proofs`: no hypotheses, any number of Packages. `IInv` adds to `TypeOK`
and `NoStrayBinding`: `HandlerInv` (a handler's Package is there, is being deleted
while it is torn down, and a binding is replaced only by a role that is
configured), `TeardownInv` (past `AppGone` there is no App, past `DeleteBinding` no
binding of that name, unless the contract does not resolve), `PackageInv` (a CR
that is gone left no App, and an App is deleted only for a CR that is, never under a
handler that prepares it) and `ReportInv` (what an App reports deployed is there).
`TeardownInv` is why the binding may go: from it follows `RightsCorrect`, an action
property in which each step that takes an account or a binding away is one of a
handler past `AppGone`, of the collector after the CR is gone, or the replacement.
`NoStrayBinding` needs it too, for `Finalize`: two Packages of one name cover for
each other, and the last one has removed the binding before its CR goes.
`StatusCorrect` (`StatusIsEarned`: what is about to be written as succeeded is in
the cluster) is proved and in no run.

`ObjectCache_proofs`: no hypotheses. `IInv`: an entry has the generation of its key
and, where the cache is `Guarded` (Redis, and one worker per object), the present
incarnation of its object (`EntryInv`); a publication is of that incarnation, and
none is under way during a scan (`PublishInv`, `ScanInv`); a scan still has every key
with an entry before it (`ScanInv`), so none is left when it ends; a getter has only
read what it may return (`ReaderInv`). From it follow the action properties
`HitCorrect` and `InvalidateCorrect`. Without the scan's completeness the first does
not hold: an object created under an old name would find what its predecessor left.
`TypeCorrect` adds `TypeInv`: incarnations only grow, so calls and entries are of
ones there have been, and a publication always stands at a field the getter reads.
It rests on `PublishedRead`: of every kind, whatever the contract, what is published
is read by some getter.

`ClusterObjects_proofs`: `ClusterObjectsAssumption` says that CRs live in namespaces
of their own (not in those of Argo Events and Crossplane, where the shared objects
are) and that contracts have passed resolution. Nothing is assumed about the names in
contracts. The code does not keep them apart: two Deployments may name one Secret, two
Routes one host, two GitRepositories one repository (a cluster-scoped object), and two
GitHubEvents of one name in two namespaces have one Sensor, in `argo-events`. The
teardown of one may then take from the other what it reported done. So the theorems
hold for every setup, but `DoneStays` and `TornDown` speak of each object that is
`Undisputed`; of the others `TypeOK` and `StackFirst` still hold, and IInv says what
it needs of them: an object a teardown has passed and another CR made again is not the
torn-down CR's (`TornInv`).

What a plan is, is a concatenation of the calls of its parts (`FlattenSeq`), so the
facts about plans go by induction on the number of parts: `Induction` is the
induction rule for a set of naturals, from the library's theorem that inclusion of
finite sets is well founded, and `FlattenExists` shows that the recursive function
behind `FlattenSeq` exists, without which nothing follows from its definition.
`PartFits` goes through the sixteen reconcilers: a plan asks for what an object needs
before the object (`NeedsBefore`), its teardown deletes what it asked for except what
is shared and an Environment's store, which its owner takes along (`Removes`), and it
only makes calls of certain shapes (`ReconcileCall`). `PlansFit` is the same of every plan.

`IInv` has four parts. `TypeInv`, with every worker's calls among those of the CR's
contracts. `ClusterInv`: an object's owner is a CR of its namespace that asks, or
asked, for it, or the ExternalSecret it is the target of, or is gone, and then the
object is the operator's, a store, or one an edit dropped; what is shared has no owner
at all; what an object needs is there. `SyncInv`: what the operator holds in its
hands is an ExternalSecret's. `CrInv`, of each CR: `WorkInv` (a worker is at work
as the CR's phase says, and the rest of its plan still asks in the right order,
counting what is there), `TornInv` (what a teardown has passed is not there, or is
another's) and `KeepInv` (what a reconcile has passed is there as it was asked for, and
so is all of one that ended ready). Each is needed: the owners tell which objects the
collector takes, `NeedsBefore` keeps `StackFirst` true over a restart that leaves half a stack,
`KeepInv` is `DoneStays` before the reconcile is over, and `TornInv` is what
`TornDown` finds when the CR is let go. What others do to a CR's objects is bounded by
lemmas about the objects alone (`CallMade`, `SyncStays`, `DeleteEffect`,
`LetGoEffect`, `EndSyncEffect`, `IssueEffect`), so that each action needs one step per
part. From it follow `TypeCorrect`, `StackCorrect`, `DoneCorrect` and the action
property `TornDownCorrect`.

Proved and in no run either: Engine's `TypeOK`, `ChannelFifo` and `OneDispatcher`
(the refinement says as much of its instance), `ReportIsTrue` of BuildDispatch and
`CheckoutGoes` of GitOps.

Only model-checked: every liveness property (liveness under fairness and ENABLED
are outside what the prover does), among them `RequestIsAnswered`,
`DeletionCompletes` (of a Build, and of a Package), `RightsComeBack`,
`DeclaredIsApplied`, `DeclaredIsPublished`, `TeardownCompletes` and
`SecretsArrive`. Every invariant and every action property of the passing runs is a
theorem.

## 7. Where the code and its comments disagree

* "build that exact commit and tag the image with it" (kaniko.go:113-116): a
  BuildRun names the Shipwright Build, which a later reconcile updates before the
  run starts (`BuildDispatchCommit`).
* "Teardown removes what Reconcile applied for the Deployment" (service.go:122): it
  removes the units of the contract as it is now (kubernetes.go:243); what an edit
  dropped stays (`DeploymentOrphan`).
* "CmdDelete is dispatched when an object is being removed" (command.go:50-52): for
  an object that a finalizer holds the deletion is an update with an unchanged
  Spec, which the filter drops (predicates.go:76, `DeploymentDelete`).
* "ensureLocalClone makes repoPath a local clone of repoURL" (kustomization.go:417): a
  clone that is there is used whatever its origin, so after an edit of the URL the
  manifests go to the old repository and Flux is pointed at the new
  (`GitOpsMoved`).

Seven more have no run of their own. The name of a Package's binding "carries the
namespace to stay unique" (packages/domain/model.go:94-96); namespace and name are
joined by a dash that both may contain, so the two Packages of the run `Packages`
have one binding between them, each reconcile takes it from the other, and without
`OwnName` in them `AppKeepsItsRights`, `RightsComeBack` and `DeletionCompletes`
are violated there. `PatchBuildTriggerFromGitHubEvent` "looks up
the latest push GitHubEvent" (kaniko.go:298-303) and recognizes none, because line
332 compares protobuf's text format with a bare word: `EventTypeText` in
`BuildDispatch`. A hash collision is said to be "same spec + same
trigger context" (kaniko.go:207-209): the strategy's kind may be another, because it
is not hashed. And Flux is never pinned "to exactly the commit this reconcile
resolved" (kustomization.go:475-477), because the intent carries no Ref.
Deleting the Secret with its ExternalSecret "closes that window"
(secrets/git/build/build.go:199-206): a write that the operator had begun can bring
it back without a live owner, until the collector removes it; `SecretsArrive` is what
holds. "generation scoping already protects correctness there"
(cache/objectcache.go:89-90): behind Memcached, where nothing is dropped, an object
created under an old name begins at generation 1 again and can be served what was
resolved for its predecessor, so `HitIsOwn` speaks of Redis there. And the webhook of
a GitRepository reads its URL from a Secret named `hookurl`
(gitrepository/api/github.go:127), while `HookURLSecret` keeps one named
`<name>-hookurl` (hookurl.go:44).

`NewRunMatchesShip` and `RunBuildsItsCommit` differ in the moment they speak of:
when a BuildRun is created its Shipwright Build is the right one; when Shipwright
starts it, it need not be.

`AcceptedIsServed` ends where the pool is stopped: `select` may take the stop while
Commands are in the channel, and then they stay there.

From a worker pool an error of Teardown is logged and requeues nothing
(engine.go:235), and another worker can create a BuildRun after Teardown has listed
them, so the properties of `BuildDispatch` speak of a controller's one handler.

In `DoneStays` a shared object (the Argo Events stack, an Issuer, a
ClusterSecretStore, the Crossplane credentials) has to be there, in whose version it
may; what is only ever created keeps its first version, an Ingress its TLS block and
an account its pull secret. Objects that an edit dropped are left to nobody (a
Certificate after a switch to the platform strategy, an Ingress after a change of
runtime, a webhook without events): `TornDown` speaks of what the contract asks for.
A reconcile of a GitHubEvent, GitRepository, Domain or Route that failed is not tried
again by itself, because its error ends in a condition; `SecretsArrive` is about the
reconcilers that return theirs. It excepts the contracts of which some reconciler
fails each time (`NeverSucceeds`): a Build or GitOps Deployment without a clone secret,
any imperative Deployment, a Package without a state repository. Such a CR is tried
again for ever, the reconcilers after the refused one are never called -- a
Deployment's Flux key is not made --, and when it is deleted its teardown is refused,
too, and it is never let go. Routes for the gateway API and Environments of AWS, GCP
or Azure are refused as well; they ask for no Secret.

`DeletionCompletes` of `Packages` begins where the controller is woken, because the
event filter drops the deletion of a Package as it does a Deployment's, and asks
that the App have its rights then: a deletion that falls between the two calls of a
replacement that failed is torn down without them, and kapp-controller then cannot
remove what it deployed. `NoStrayBinding` excepts a Package deleted with a contract
that does not resolve: `Delete` does nothing for it and returns nil
(packagebinding.go:166). The condition written after an apply is the App's at that
moment, also one about an earlier contract (application.go:111-117).

`TeardownCompletes` asks that the overlay's directory be in the repository: a
Teardown that removes files writes `kustomization.yaml` into it
(kustomization.go:685), and fails each time if no reconcile ever got that far.

Two lines that no model depends on: `resolveStoreKind` answers ClusterSecretStore
whatever kind the Environment's store was applied as, until the contract carries it
(query.go:121-126), and an `ObjectCache` told not to expire its entries ("0 disables
expiry", objectcache.go:60) keeps them an hour (62-63).

## 8. Not modelled

The Domains, controllers and observers are in another repository; they appear as
external actions with the behaviour this repository's comments and docs give them.
`core/domain` is an interface, `cache/setup.go` and `pkg/runtime` wire things
together at start, `core/events` formats and emits. The knative and ECS deployment
strategies are stubs. Of `resolution` the contract adapters are left out, which copy
values from one type to another, but for two places that decide something: the event
type's text (`EventTypeText`), and what the Build's adapter keeps out of the hash
(`ToBuildContract`). `ServiceUnitService.Reconcile` has no call
besides its status write, and its conditions follow from the contract in one `switch`,
which unit tests reach. What the manifests contain beyond what tells two versions
apart (labels, ports, probes, script texts) is in no module. An edit of a Deployment
from the imperative mode to GitOps is in neither of the two modules. The informer
cache and optimistic locking are Kubernetes'; a read is as good as the version it
carries, which is why a read and the write it guards may be one step where nothing
else is read in between. Scripts, documentation and workflows have no run-time
behaviour.
