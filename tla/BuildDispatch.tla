---------------------------- MODULE BuildDispatch ----------------------------
(***************************************************************************)
(* pkg/apis/build: one Build CR from a pushed commit to a Shipwright       *)
(* BuildRun, and its teardown.                                             *)
(*                                                                         *)
(* Each call a provider makes to the API server is an action; between two  *)
(* calls the world moves: commits are pushed, the build-observer annotates *)
(* the CR, Shipwright starts runs, users edit and delete.  The three       *)
(* providers make the same calls, but only Kaniko's Run has PatchTrigger.  *)
(* The controller, the observers, the API server and Shipwright are        *)
(* external.  A status write is atomic here: StatusWriter shows it is.     *)
(***************************************************************************)
EXTENDS Naturals, FiniteSets

CONSTANTS
  Procs,      \* goroutines that may hold a Command for the Build: one in the
              \* synchronous mode, several when a worker pool executes them
  Requeues,   \* whether a returned error requeues: not from a worker pool
  Specs,      \* the contracts a user may write: a strategy's kind, and the rest
  Invalid,    \* those the Mapper refuses
  Refs,       \* the branches pushed to
  Commits,    \* the commits pushed
  MaxRetry,   \* bound on the retry-attempt annotation
  MaxFaults,  \* bound on failed API calls, crashes and foreign updates
  None

StrategyKinds == {"ClusterBuildStrategy", "NamespacedBuildStrategy"}

ASSUME BuildDispatchAssumption ==
  /\ Specs \subseteq [rest : {s.rest : s \in Specs}, kind : StrategyKinds]
  /\ Invalid \subseteq Specs
  /\ Requeues \in BOOLEAN
  /\ MaxRetry \in Nat /\ MaxFaults \in Nat
  /\ None \notin Commits

\* The annotations of the trigger; without any, ExtractTriggerContext says manual.
Manual   == [type |-> "manual", ref |-> None, sha |-> None]
Pushes   == [type : {"push"}, ref : Refs, sha : Commits]
Triggers == Pushes \cup {Manual}

\* The adapter leaves the strategy's kind out of the contract that is hashed.
ToBuildContract(spec) == spec.rest

Identities == [contract : {ToBuildContract(s) : s \in Specs \ Invalid},
               trigger : Triggers, retry : 0 .. MaxRetry]

\* revision None: the one in the contract.
Sources == [spec : Specs \ Invalid, revision : Commits \cup {None}]

VARIABLES
  cr,       \* the Build CR: exists, deleting, spec, annotations trigger and retry
  status,   \* of the Build CR: the conditions Reconcile wrote that are there, and
            \* the execution whose failure was the last thing written, if any
  event,    \* the application's latest push GitHubEvent
  pushed,   \* the pushes so far
  key,      \* the Build's key is in the controller's workqueue
  ship,     \* the Shipwright Build: exists, source
  runs,     \* [Identities -> phase], BuildRuns are named by their hash
  source,   \* [Identities -> the revision its run was started on]
  builds,   \* history: how often Shipwright started each identity
  faults,   \* failed calls, crashes and foreign updates so far
  pc,       \* [Procs -> label]
  snap,     \* [Procs -> the resolved Build's copy of the CR]
  found,    \* [Procs -> what Get returned for the Shipwright Build]
  result,   \* [Procs -> what Run came back with]
  listed    \* [Procs -> identities Teardown has still to delete]

world == <<cr, status, event, pushed, key>>
shipwright == <<ship, runs, source, builds>>
locals == <<pc, snap, found, result, listed>>
vars == <<world, shipwright, faults, locals>>

Running  == {"getShip", "putShip", "patch", "getRun", "createRun"}
Removing == {"listRuns", "deleteRuns", "finalize"}
Labels   == {"idle", "status"} \cup Running \cup Removing
Phases   == {"absent", "created", "running", "succeeded", "failed"}

\* A handler's copy of the CR before it reads it.
Unread == [exists |-> FALSE, deleting |-> FALSE, spec |-> CHOOSE s \in Specs : TRUE,
           trigger |-> Manual, retry |-> 0]

NoSource == [spec |-> None, revision |-> None]

Goto(p, label) == pc' = [pc EXCEPT ![p] = label]

\* ExtractTriggerContext and ComputeExecutionHash: equal inputs, equal name.
Identity(c) ==
  [contract |-> ToBuildContract(c.spec), trigger |-> c.trigger, retry |-> c.retry]

\* CreateBuildSpec: the annotated commit replaces the contract's revision.
CreateBuildSpec(c) == [spec |-> c.spec, revision |-> c.trigger.sha]

-----------------------------------------------------------------------------
(* The world around the controller (external).                             *)

Push(trigger) ==
  /\ trigger \notin pushed
  /\ pushed' = pushed \cup {trigger}
  /\ event' = trigger
  /\ UNCHANGED <<cr, status, key, shipwright, faults, locals>>

\* A change of the CR wakes its controller: no predicate filters it.
ChangeCR(c) ==
  /\ cr.exists
  /\ cr' = c
  /\ key' = TRUE
  /\ UNCHANGED <<status, event, pushed, shipwright, faults, locals>>

\* The build-observer copies the event's type, ref and commit onto the CR.
AnnotateTrigger ==
  /\ event # cr.trigger
  /\ ChangeCR([cr EXCEPT !.trigger = event])

\* The build-observer retries the execution that failed.
AnnotateRetry ==
  /\ cr.spec \notin Invalid
  /\ runs[Identity(cr)] = "failed"
  /\ cr.retry < MaxRetry
  /\ ChangeCR([cr EXCEPT !.retry = @ + 1])

EditSpec(s) == s # cr.spec /\ ChangeCR([cr EXCEPT !.spec = s])

DeleteCR == ~cr.deleting /\ ChangeCR([cr EXCEPT !.deleting = TRUE])

-----------------------------------------------------------------------------
(* Shipwright (external).                                                  *)

\* Shipwright reads the Build a run refers to when it starts the run.
StartRun(id) ==
  /\ runs[id] = "created"
  /\ IF ship.exists
       THEN /\ runs' = [runs EXCEPT ![id] = "running"]
            /\ source' = [source EXCEPT ![id] = ship.source.revision]
            /\ builds' = [builds EXCEPT ![id] = @ + 1]
       ELSE /\ runs' = [runs EXCEPT ![id] = "failed"]
            /\ UNCHANGED <<source, builds>>
  /\ UNCHANGED <<world, ship, faults, locals>>

\* The buildrun-observer writes the outcome to the CR's status, where BuildFailed
\* is replaced or removed.
EndRun(id) ==
  /\ runs[id] = "running"
  /\ \E outcome \in {"succeeded", "failed"} : runs' = [runs EXCEPT ![id] = outcome]
  /\ key' = (key \/ cr.exists)
  /\ status' = [written |-> status.written \ {"error"}, failed |-> None]
  /\ UNCHANGED <<cr, event, pushed, ship, source, builds, faults, locals>>

\* Shipwright updates the status of its Build: a copy read before is outdated.
TouchShip ==
  /\ ship.exists
  /\ faults < MaxFaults
  /\ faults' = faults + 1
  /\ \E p \in Procs : found[p] = "current"
  /\ found' = [p \in Procs |-> IF found[p] = "current" THEN "stale" ELSE found[p]]
  /\ UNCHANGED <<world, shipwright, pc, snap, result, listed>>

-----------------------------------------------------------------------------
(* BuildService.Reconcile and Provider.Run                                 *)

\* A handler that has ended leaves nothing behind.
Ends(p) ==
  /\ Goto(p, "idle")
  /\ snap' = [snap EXCEPT ![p] = Unread]
  /\ found' = [found EXCEPT ![p] = "absent"]
  /\ result' = [result EXCEPT ![p] = "none"]
  /\ listed' = [listed EXCEPT ![p] = {}]

\* An error it returns requeues the key.
Leave(p, err) ==
  /\ Ends(p)
  /\ key' = (key \/ (err /\ Requeues))

\* Mutant: a failed Run ends the reconcile without a status.
FailsSilently(p) ==
  /\ Goto(p, "idle")
  /\ UNCHANGED result

\* BuildService swallows the error of Run: it ends up in the conditions only.
RunFails(p) == Goto(p, "status") /\ result' = [result EXCEPT ![p] = "error"]

\* Mutant: the contract reaches the provider unmapped.
StartUnmapped(p) ==
  /\ pc[p] = "idle"
  /\ key
  /\ snap' = [snap EXCEPT ![p] = cr]
  /\ key' = FALSE
  /\ Goto(p, IF ~cr.exists THEN "idle" ELSE IF cr.deleting THEN "listRuns" ELSE "getShip")
  /\ UNCHANGED <<cr, status, event, pushed, shipwright, faults, found, result, listed>>

\* A Command starts on the CR as read now.
Start(p) ==
  /\ pc[p] = "idle"
  /\ key
  /\ \/ /\ cr.exists /\ ~cr.deleting /\ cr.spec \notin Invalid
        /\ Goto(p, "getShip") /\ key' = FALSE
        /\ snap' = [snap EXCEPT ![p] = cr]
     \/ /\ cr.exists /\ ~cr.deleting /\ cr.spec \in Invalid   \* Mapper's error
        /\ key' = Requeues
        /\ UNCHANGED <<pc, snap>>
     \/ /\ cr.exists /\ cr.deleting   \* Teardown, mappable or not
        /\ Goto(p, "listRuns") /\ key' = FALSE
        /\ snap' = [snap EXCEPT ![p] = cr]
     \/ /\ ~cr.exists
        /\ key' = FALSE
        /\ UNCHANGED <<pc, snap>>
  /\ UNCHANGED <<cr, status, event, pushed, shipwright, faults, found, result, listed>>

GetShip(p) ==
  /\ pc[p] = "getShip"
  /\ found' = [found EXCEPT ![p] = IF ship.exists THEN "current" ELSE "absent"]
  /\ Goto(p, "putShip")
  /\ UNCHANGED <<world, shipwright, faults, snap, result, listed>>

\* Create if Get found nothing, else Update with the version it found; the API
\* server refuses a Create of what exists and an Update of an older version.
PutShip(p) ==
  /\ pc[p] = "putShip"
  /\ IF found[p] = IF ship.exists THEN "current" ELSE "absent"
       THEN /\ ship' = [exists |-> TRUE, source |-> CreateBuildSpec(snap[p])]
            /\ found' = [q \in Procs |-> IF found[q] = "current" THEN "stale" ELSE found[q]]
            /\ Goto(p, "patch")
            /\ UNCHANGED result
       ELSE RunFails(p) /\ UNCHANGED <<ship, found>>
  /\ UNCHANGED <<world, runs, source, builds, faults, snap, listed>>

\* GetEventType returns the wrapper message GitHubEventType; this is what its
\* String method, protobuf's text format, makes of a push (external).
EventTypeText == "type:GIT_HUB_EVENT_TYPE_PUSH"

\* Mutant: push events are recognized, the Shipwright Build being written already.
PushEvent == event

\* The latest event whose type reads "push", if any.
LatestPush == IF EventTypeText = "push" THEN event ELSE Manual

\* PatchBuildTriggerFromGitHubEvent.
PatchTrigger(p) ==
  /\ pc[p] = "patch"
  /\ Goto(p, "getRun")
  /\ IF LatestPush = Manual
       THEN UNCHANGED <<cr, key, snap>>
       ELSE /\ cr' = [cr EXCEPT !.trigger = LatestPush]
            /\ key' = TRUE
            /\ snap' = [snap EXCEPT ![p].trigger = LatestPush]
  /\ UNCHANGED <<status, event, pushed, shipwright, faults, found, result, listed>>

\* Mutant: a run that has ended is replaced by a new one of its name.
GetRunIgnoresEnded(p) ==
  /\ pc[p] = "getRun"
  /\ LET id == Identity(snap[p]) IN
       IF runs[id] \in {"absent", "succeeded", "failed"}
         THEN /\ runs' = [runs EXCEPT ![id] = "absent"]
              /\ Goto(p, "createRun")
              /\ UNCHANGED result
         ELSE /\ Goto(p, "status")
              /\ result' = [result EXCEPT ![p] = "triggered"]
              /\ UNCHANGED runs
  /\ UNCHANGED <<world, ship, source, builds, faults, snap, found, listed>>

\* A run of this name was dispatched before: nothing to create.
GetRun(p) ==
  /\ pc[p] = "getRun"
  /\ IF runs[Identity(snap[p])] = "absent"
       THEN Goto(p, "createRun") /\ UNCHANGED result
       ELSE Goto(p, "status") /\ result' = [result EXCEPT ![p] = "triggered"]
  /\ UNCHANGED <<world, shipwright, faults, snap, found, listed>>

CreateRun(p) ==
  /\ pc[p] = "createRun"
  /\ LET id == Identity(snap[p]) IN
       IF runs[id] = "absent"
         THEN /\ runs' = [runs EXCEPT ![id] = "created"]
              /\ Goto(p, "status")
              /\ result' = [result EXCEPT ![p] = "triggered"]
         ELSE RunFails(p) /\ UNCHANGED runs
  /\ UNCHANGED <<world, ship, source, builds, faults, snap, found, listed>>

\* The conditions that tell of a result replace those of its type. The write
\* wakes the controller again, unless it changes nothing: conditions carry their
\* time in whole seconds, so the same one may be there already. For a CR that is
\* gone the write is an error.
WriteStatus(p) ==
  /\ pc[p] = "status"
  /\ \/ /\ cr.exists
        /\ Ends(p)
        /\ status' = [written |-> status.written \cup {result[p]},
                      failed |-> IF result[p] = "error" THEN Identity(snap[p]) ELSE None]
        /\ key' = TRUE \/ (result[p] \in status.written /\ key' = key)
     \/ ~cr.exists /\ Leave(p, TRUE) /\ UNCHANGED status
  /\ UNCHANGED <<cr, event, pushed, shipwright, faults>>

-----------------------------------------------------------------------------
(* Provider.Teardown                                                       *)

ListRuns(p) ==
  /\ pc[p] = "listRuns"
  /\ listed' = [listed EXCEPT ![p] = {id \in Identities : runs[id] # "absent"}]
  /\ Goto(p, "deleteRuns")
  /\ UNCHANGED <<world, shipwright, faults, snap, found, result>>

\* Mutant: a run in progress is left to finish.
DeleteEndedRun(p) ==
  /\ pc[p] = "deleteRuns"
  /\ \E id \in listed[p] :
       /\ runs' = [runs EXCEPT ![id] = IF @ = "running" THEN @ ELSE "absent"]
       /\ listed' = [listed EXCEPT ![p] = @ \ {id}]
  /\ UNCHANGED <<world, ship, source, builds, faults, pc, snap, found, result>>

DeleteRun(p) ==
  /\ pc[p] = "deleteRuns"
  /\ \E id \in listed[p] :
       /\ runs' = [runs EXCEPT ![id] = "absent"]
       /\ listed' = [listed EXCEPT ![p] = @ \ {id}]
  /\ UNCHANGED <<world, ship, source, builds, faults, pc, snap, found, result>>

\* Mutant: not finding the Shipwright Build is an error.
DeleteShipFound(p) ==
  /\ pc[p] = "deleteRuns"
  /\ listed[p] = {}
  /\ ship' = [exists |-> FALSE, source |-> NoSource]
  /\ IF ship.exists THEN Goto(p, "finalize") /\ UNCHANGED <<key, snap, found, result, listed>>
     ELSE Leave(p, TRUE)
  /\ UNCHANGED <<cr, status, event, pushed, runs, source, builds, faults>>

\* Not finding the Shipwright Build is no error.
DeleteShip(p) ==
  /\ pc[p] = "deleteRuns"
  /\ listed[p] = {}
  /\ ship' = [exists |-> FALSE, source |-> NoSource]
  /\ Goto(p, "finalize")
  /\ UNCHANGED <<world, runs, source, builds, faults, snap, found, result, listed>>

\* Teardown returned nil: the controller (external) removes the finalizer.
Finalize(p) ==
  /\ pc[p] = "finalize"
  /\ cr' = [cr EXCEPT !.exists = FALSE]
  /\ Leave(p, FALSE)
  /\ UNCHANGED <<status, event, pushed, shipwright, faults>>

-----------------------------------------------------------------------------
(* Failure.                                                                *)

\* The call p is about to make fails.
ApiError(p) ==
  /\ faults < MaxFaults
  /\ faults' = faults + 1
  /\ \/ pc[p] \in Running /\ RunFails(p) /\ UNCHANGED <<key, snap, found, listed>>
     \/ pc[p] \in {"status"} \cup Removing /\ Leave(p, TRUE)
  /\ UNCHANGED <<cr, status, event, pushed, shipwright>>

\* The process restarts: handlers are gone, every CR is listed again.
Crash ==
  /\ faults < MaxFaults
  /\ faults' = faults + 1
  /\ \E p \in Procs : pc[p] # "idle"
  /\ pc' = [p \in Procs |-> "idle"]
  /\ snap' = [p \in Procs |-> Unread]
  /\ found' = [p \in Procs |-> "absent"]
  /\ result' = [p \in Procs |-> "none"]
  /\ listed' = [p \in Procs |-> {}]
  /\ key' = TRUE
  /\ UNCHANGED <<cr, status, event, pushed, shipwright>>

-----------------------------------------------------------------------------
Init ==
  /\ cr \in [exists : {TRUE}, deleting : {FALSE}, spec : Specs, trigger : {Manual},
             retry : {0}]
  /\ status = [written |-> {}, failed |-> None]
  /\ event = Manual
  /\ pushed = {}
  /\ key = TRUE
  /\ ship = [exists |-> FALSE, source |-> NoSource]
  /\ runs = [id \in Identities |-> "absent"]
  /\ source = [id \in Identities |-> None]
  /\ builds = [id \in Identities |-> 0]
  /\ faults = 0
  /\ pc = [p \in Procs |-> "idle"]
  /\ snap = [p \in Procs |-> Unread]
  /\ found = [p \in Procs |-> "absent"]
  /\ result = [p \in Procs |-> "none"]
  /\ listed = [p \in Procs |-> {}]

World ==
  \/ \E trigger \in Pushes : Push(trigger)
  \/ AnnotateTrigger
  \/ AnnotateRetry
  \/ \E s \in Specs : EditSpec(s)
  \/ DeleteCR

Shipwright ==
  \/ \E id \in Identities : StartRun(id)
  \/ \E id \in Identities : EndRun(id)
  \/ TouchShip

Handle(p) ==
  \/ Start(p)
  \/ GetShip(p)
  \/ PutShip(p)
  \/ PatchTrigger(p)
  \/ GetRun(p)
  \/ CreateRun(p)
  \/ WriteStatus(p)
  \/ ListRuns(p)
  \/ DeleteRun(p)
  \/ DeleteShip(p)
  \/ Finalize(p)

Next ==
  \/ World
  \/ Shipwright
  \/ \E p \in Procs : Handle(p)
  \/ \E p \in Procs : ApiError(p)
  \/ Crash

Spec == Init /\ [][Next]_vars

\* The workqueue hands out its keys and handlers go on.  Users, Git and
\* Shipwright owe nothing.
Fairness == \A p \in Procs : WF_vars(Handle(p))

FairSpec == Spec /\ Fairness

-----------------------------------------------------------------------------
TypeOK ==
  /\ cr \in [exists : BOOLEAN, deleting : BOOLEAN, spec : Specs, trigger : Triggers,
             retry : 0 .. MaxRetry]
  /\ status \in [written : SUBSET {"error", "triggered"}, failed : Identities \cup {None}]
  /\ event \in Triggers
  /\ pushed \subseteq Pushes
  /\ key \in BOOLEAN
  /\ ship \in [exists : BOOLEAN, source : Sources \cup {NoSource}]
  /\ runs \in [Identities -> Phases]
  /\ source \in [Identities -> Commits \cup {None}]
  /\ builds \in [Identities -> Nat]
  /\ faults \in 0 .. MaxFaults
  /\ pc \in [Procs -> Labels]
  /\ snap \in [Procs -> [exists : BOOLEAN, deleting : BOOLEAN, spec : Specs,
                         trigger : Triggers, retry : 0 .. MaxRetry]]
  /\ found \in [Procs -> {"absent", "current", "stale"}]
  /\ result \in [Procs -> {"none", "error", "triggered"}]
  /\ listed \in [Procs -> SUBSET Identities]

\* What is built is what an execution stands for, as far as its name tells: the
\* strategy's kind is no part of it.
Builds(src, id) ==
  ToBuildContract(src.spec) = id.contract /\ src.revision = id.trigger.sha

\* When a BuildRun is created, the Shipwright Build it refers to is the one of
\* that execution, although edits, pushes, retries, failed calls and restarts
\* fall between the two writes.
NewRunMatchesShip ==
  [][\A id \in Identities : runs[id] = "absent" /\ runs'[id] = "created" =>
       ship.exists /\ Builds(ship.source, id)]_vars

\* An execution -- hashed contract, trigger and retry attempt -- is built once,
\* however often its CR is reconciled and whatever fails on the way.
BuiltOnce == \A id \in Identities : builds[id] <= 1

Clean == ~ship.exists /\ \A id \in Identities : runs[id] = "absent"

\* Teardown has removed every BuildRun and the Shipwright Build before the
\* finalizer goes, without the garbage collector.
TeardownIsComplete == ~cr.exists => Clean

\* The conditions about to be written say that the execution was dispatched only
\* if its BuildRun exists; a run that only one handler at a time can delete.
ReportIsTrue ==
  \A p \in Procs : pc[p] = "status" /\ result[p] = "triggered" =>
    runs[Identity(snap[p])] # "absent"

Wanted(id) ==
  /\ cr.exists /\ ~cr.deleting
  /\ cr.spec \notin Invalid /\ Identity(cr) = id

\* No request is dropped in silence: what the CR asks for gets its BuildRun, or the
\* status last told of its failure, unless the CR asks for something else first.
\* An error of Run is not returned, so a request may stay behind: if the same
\* failure is written twice within a second, nothing wakes the controller. A
\* request is what is hashed: an edit of the strategy's kind alone makes none.
RequestIsAnswered ==
  \A id \in Identities :
    Wanted(id) ~> (runs[id] # "absent" \/ status.failed = id \/ ~Wanted(id))

\* A deleted Build goes, and nothing of it stays behind or comes back, although
\* calls of Teardown fail half way and are made again.  The garbage collector does
\* not have to help: it would, where a worker of a pool creates a BuildRun that
\* another's Teardown did not list.
DeletionCompletes == cr.deleting ~> [](~cr.exists /\ Clean)

\* Comment at CreateBuildSpec: "build that exact commit and tag the image with it".
RunBuildsItsCommit ==
  \A id \in Identities : builds[id] > 0 /\ id.trigger # Manual =>
    source[id] = id.trigger.sha
=============================================================================
