------------------------ MODULE BuildDispatch_proofs ------------------------
(***************************************************************************)
(* Proofs about BuildDispatch in the synchronous mode, where one handler   *)
(* at a time works on a Build -- whatever the contracts, commits and       *)
(* retries, and however many calls fail and restarts happen.               *)
(***************************************************************************)
EXTENDS BuildDispatch, TLAPS

\* The controller's workqueue never hands one key to two goroutines.
Synchronous == \A p, q \in Procs : p = q

\* A handler works on a CR that is there, with a contract the Mapper accepts;
\* it removes only what is being deleted.
HandlerInv ==
  /\ ~cr.exists => cr.deleting
  /\ \A p \in Procs : pc[p] \in Running \cup {"status"} =>
       cr.exists /\ snap[p].spec \notin Invalid
  /\ \A p \in Procs : pc[p] = "status" => result[p] # "none"
  /\ \A p \in Procs : pc[p] \in Removing => cr.exists /\ cr.deleting

\* From its write to the creation of the run the Shipwright Build is the
\* handler's.
ShipInv ==
  \A p \in Procs : pc[p] \in {"patch", "getRun", "createRun"} =>
    ship.exists /\ ship.source = CreateBuildSpec(snap[p])

\* What Get found holds until Create.
RunInv == \A p \in Procs : pc[p] = "createRun" => runs[Identity(snap[p])] = "absent"

\* Nothing appears while Teardown works through its list.
ListInv ==
  \A p \in Procs :
    /\ pc[p] = "deleteRuns" => \A id \in Identities : runs[id] # "absent" => id \in listed[p]
    /\ pc[p] = "finalize" => Clean

\* What was built has a run that remembers it, unless Teardown may have removed
\* that run: and then no handler dispatches any more.
BuildInv ==
  \A id \in Identities :
    /\ builds[id] \in {0, 1}
    /\ runs[id] = "created" => builds[id] = 0
    /\ builds[id] = 1 => \/ runs[id] \in {"running", "succeeded", "failed"}
                         \/ cr.deleting /\ \A p \in Procs : pc[p] \notin Running

IInv ==
  /\ TypeOK
  /\ HandlerInv
  /\ ShipInv
  /\ RunInv
  /\ ReportIsTrue
  /\ ListInv
  /\ TeardownIsComplete
  /\ BuildInv
-----------------------------------------------------------------------------
\* No push is ever recognized, so PatchTrigger only moves on.
LEMMA PatchMovesOn ==
  ASSUME NEW p \in Procs, PatchTrigger(p)
  PROVE  /\ pc[p] = "patch"
         /\ Goto(p, "getRun")
         /\ UNCHANGED <<world, shipwright, faults, snap, found, result, listed>>
<1>1. LatestPush = Manual
  BY Zenon DEF LatestPush, EventTypeText
<1> QED
  BY <1>1, Zenon DEF PatchTrigger, world

\* A contract that is mapped has an execution identity and a source.
LEMMA Mapped ==
  ASSUME TypeOK, NEW p \in Procs, snap[p].spec \notin Invalid
  PROVE  Identity(snap[p]) \in Identities /\ CreateBuildSpec(snap[p]) \in Sources
<1>1. /\ snap[p].spec \in Specs \ Invalid
      /\ snap[p].trigger \in Triggers
      /\ snap[p].retry \in 0 .. MaxRetry
  BY DEF TypeOK
<1>2. Identity(snap[p]) \in Identities
  BY <1>1 DEF Identity, Identities
<1>3. snap[p].trigger.sha \in Commits \cup {None}
  BY <1>1 DEF Triggers, Pushes, Manual
<1> QED
  BY <1>1, <1>2, <1>3 DEF CreateBuildSpec, Sources

\* The source of an execution is what its identity stands for.
LEMMA SameSource ==
  ASSUME NEW c PROVE Builds(CreateBuildSpec(c), Identity(c))
BY DEF CreateBuildSpec, Builds, Identity, ToBuildContract

\* The types of a handler's own variables.
LocalsOK ==
  /\ pc \in [Procs -> Labels]
  /\ snap \in [Procs -> [exists : BOOLEAN, deleting : BOOLEAN, spec : Specs,
                         trigger : Triggers, retry : 0 .. MaxRetry]]
  /\ found \in [Procs -> {"absent", "current", "stale"}]
  /\ result \in [Procs -> {"none", "error", "triggered"}]
  /\ listed \in [Procs -> SUBSET Identities]

\* A copy that was not read is well typed where there is a CR at all.
LEMMA UnreadType ==
  ASSUME NEW s \in Specs
  PROVE  Unread \in [exists : BOOLEAN, deleting : BOOLEAN, spec : Specs,
                      trigger : Triggers, retry : 0 .. MaxRetry]
<1>1. (CHOOSE x \in Specs : TRUE) \in Specs
  OBVIOUS
<1>2. Manual \in Triggers /\ 0 \in 0 .. MaxRetry
  BY BuildDispatchAssumption DEF Triggers
<1> QED
  BY <1>1, <1>2 DEF Unread

-----------------------------------------------------------------------------
\* The initial states satisfy every part.
LEMMA InitInv == Init => IInv
<1> SUFFICES ASSUME Init PROVE IInv
  OBVIOUS
<1>1. /\ cr \in [exists : BOOLEAN, deleting : BOOLEAN, spec : Specs, trigger : Triggers,
                 retry : 0 .. MaxRetry]
      /\ cr.exists
  <2>1. 0 \in 0 .. MaxRetry /\ Manual \in Triggers
    BY BuildDispatchAssumption DEF Triggers
  <2>2. cr \in [exists : {TRUE}, deleting : {FALSE}, spec : Specs, trigger : {Manual},
                 retry : {0}]
    BY DEF Init
  <2> QED
    BY <2>1, <2>2
<1> USE BuildDispatchAssumption DEF Init
<1>2. TypeOK
  <2>1. /\ Manual \in Triggers
        /\ Unread \in [exists : BOOLEAN, deleting : BOOLEAN, spec : Specs,
                        trigger : Triggers, retry : 0 .. MaxRetry]
    BY <1>1, UnreadType DEF Triggers
  <2>2. status \in [written : SUBSET {"error", "triggered"}, failed : Identities \cup {None}]
    OBVIOUS
  <2>3. snap \in [Procs -> [exists : BOOLEAN, deleting : BOOLEAN, spec : Specs,
                            trigger : Triggers, retry : 0 .. MaxRetry]]
    BY <2>1
  <2>4. /\ ship \in [exists : BOOLEAN, source : Sources \cup {NoSource}]
        /\ runs \in [Identities -> Phases]
        /\ source \in [Identities -> Commits \cup {None}]
        /\ builds \in [Identities -> Nat]
    BY DEF Phases
  <2>5. /\ faults \in 0 .. MaxFaults
        /\ pc \in [Procs -> Labels]
        /\ found \in [Procs -> {"absent", "current", "stale"}]
        /\ result \in [Procs -> {"none", "error", "triggered"}]
              /\ listed \in [Procs -> SUBSET Identities]
    BY DEF Labels
  <2> QED
    BY <1>1, <2>1, <2>2, <2>3, <2>4, <2>5 DEF TypeOK
<1>4. HandlerInv /\ TeardownIsComplete
  BY <1>1 DEF HandlerInv, TeardownIsComplete, Running, Removing
<1>5. ShipInv /\ RunInv /\ ReportIsTrue /\ ListInv /\ BuildInv
  BY DEF ShipInv, RunInv, ReportIsTrue, ListInv, BuildInv
<1> QED
  BY <1>2, <1>4, <1>5 DEF IInv

\* A handler that ends, and a restart, leave well-typed variables.
LEMMA EndsTyped ==
  ASSUME TypeOK, NEW p \in Procs, Ends(p)
  PROVE  LocalsOK'
<1>1. Unread \in [exists : BOOLEAN, deleting : BOOLEAN, spec : Specs,
                  trigger : Triggers, retry : 0 .. MaxRetry]
  BY UnreadType DEF TypeOK
<1>2. snap' \in [Procs -> [exists : BOOLEAN, deleting : BOOLEAN, spec : Specs,
                          trigger : Triggers, retry : 0 .. MaxRetry]]
  BY <1>1 DEF TypeOK, Ends
<1>3. /\ pc' \in [Procs -> Labels]
      /\ found' \in [Procs -> {"absent", "current", "stale"}]
      /\ result' \in [Procs -> {"none", "error", "triggered"}]
      /\ listed' \in [Procs -> SUBSET Identities]
  BY DEF TypeOK, Ends, Goto, Labels
<1> QED
  BY <1>2, <1>3 DEF LocalsOK

LEMMA CrashTyped == TypeOK /\ Crash => LocalsOK'
<1> SUFFICES ASSUME TypeOK, Crash PROVE LocalsOK'
  OBVIOUS
<1>1. Unread \in [exists : BOOLEAN, deleting : BOOLEAN, spec : Specs,
                  trigger : Triggers, retry : 0 .. MaxRetry]
  BY UnreadType DEF TypeOK
<1>2. snap' \in [Procs -> [exists : BOOLEAN, deleting : BOOLEAN, spec : Specs,
                          trigger : Triggers, retry : 0 .. MaxRetry]]
  BY <1>1 DEF Crash
<1>3. /\ pc' \in [Procs -> Labels]
      /\ found' \in [Procs -> {"absent", "current", "stale"}]
      /\ result' \in [Procs -> {"none", "error", "triggered"}]
      /\ listed' \in [Procs -> SUBSET Identities]
  BY DEF Crash, Labels
<1> QED
  BY <1>2, <1>3 DEF LocalsOK

\* Types are preserved; a contract reaches the Shipwright Build mapped.
LEMMA TypePreserved == TypeOK /\ HandlerInv /\ [Next]_vars => TypeOK'
<1> SUFFICES ASSUME TypeOK, HandlerInv, [Next]_vars PROVE TypeOK'
  OBVIOUS
<1>0. MaxRetry \in Nat /\ MaxFaults \in Nat
  BY BuildDispatchAssumption
<1> USE <1>0 DEF TypeOK, world, shipwright, locals, Goto
<1>1. CASE World
  <2> DEFINE CRs == [exists : BOOLEAN, deleting : BOOLEAN, spec : Specs,
                     trigger : Triggers, retry : 0 .. MaxRetry]
  <2>1. ASSUME NEW t \in Pushes, Push(t) PROVE TypeOK'
    BY <2>1 DEF Push, Triggers
  <2>2. ASSUME NEW c \in CRs, ChangeCR(c) PROVE TypeOK'
    BY <2>2 DEF ChangeCR
  <2>3. CASE AnnotateTrigger
    BY <2>2, <2>3 DEF AnnotateTrigger
  <2>4. CASE AnnotateRetry
    <3>1. [cr EXCEPT !.retry = @ + 1] \in CRs
      BY <2>4 DEF AnnotateRetry
    <3> QED
      BY <2>2, <2>4, <3>1 DEF AnnotateRetry
  <2>5. ASSUME NEW c \in Specs, EditSpec(c) PROVE TypeOK'
    BY <2>2, <2>5 DEF EditSpec
  <2>6. CASE DeleteCR
    BY <2>2, <2>6 DEF DeleteCR
  <2> QED
    BY <1>1, <2>1, <2>3, <2>4, <2>5, <2>6 DEF World
<1>2. CASE Shipwright
  <2>1. ASSUME NEW id \in Identities, StartRun(id) PROVE TypeOK'
    <3>1. ship.source \in Sources \cup {NoSource}
      OBVIOUS
    <3>2. CASE ship.exists
      <4>0. ship.source.revision \in Commits \cup {None}
        BY <3>1 DEF Sources, NoSource
      <4>1. /\ runs' \in [Identities -> Phases]
            /\ source' \in [Identities -> Commits \cup {None}]
        BY <2>1, <3>2, <4>0 DEF StartRun, Phases
      <4>2. builds' \in [Identities -> Nat]
        BY <2>1, <3>2 DEF StartRun
      <4> QED
        BY <2>1, <4>1, <4>2 DEF StartRun
    <3>3. CASE ~ship.exists
      BY <2>1, <3>3 DEF StartRun, Phases
    <3> QED
      BY <3>2, <3>3
  <2>2. ASSUME NEW id \in Identities, EndRun(id) PROVE TypeOK'
    BY <2>2 DEF EndRun, Phases
  <2>3. CASE TouchShip
    BY <2>3 DEF TouchShip
  <2> QED
    BY <1>2, <2>1, <2>2, <2>3 DEF Shipwright
<1>3. ASSUME NEW p \in Procs, Handle(p) PROVE TypeOK'
  <2>1. CASE Start(p)
    <3>1. /\ pc' \in [Procs -> Labels]
          /\ key' \in BOOLEAN
      BY <2>1, BuildDispatchAssumption, Zenon DEF Start, Labels, Running, Removing
    <3>2. snap' \in [Procs -> [exists : BOOLEAN, deleting : BOOLEAN, spec : Specs,
                               trigger : Triggers, retry : 0 .. MaxRetry]]
      BY <2>1 DEF Start
    <3>3. UNCHANGED <<cr, status, event, pushed, shipwright, faults, found, result, listed>>
      BY <2>1 DEF Start
    <3> QED
      BY <3>1, <3>2, <3>3
  <2>2. CASE GetShip(p)
    BY <2>2 DEF GetShip, Labels, Running
  <2>3. CASE PutShip(p)
    <3>1. pc[p] \in Running
      BY <2>3 DEF PutShip, Running
    <3>2. CreateBuildSpec(snap[p]) \in Sources
      BY <3>1, Mapped DEF HandlerInv
    <3>3. [exists |-> TRUE, source |-> CreateBuildSpec(snap[p])]
            \in [exists : BOOLEAN, source : Sources \cup {NoSource}]
      BY <3>2
    <3>4. ship' \in [exists : BOOLEAN, source : Sources \cup {NoSource}]
      BY <2>3, <3>3, Zenon DEF PutShip
    <3>5. /\ found' \in [Procs -> {"absent", "current", "stale"}]
          /\ pc' \in [Procs -> Labels]
          /\ result' \in [Procs -> {"none", "error", "triggered"}]
      <4>1. \/ /\ found' = [q \in Procs |-> IF found[q] = "current" THEN "stale" ELSE found[q]]
               /\ Goto(p, "patch")
               /\ UNCHANGED result
            \/ RunFails(p) /\ UNCHANGED found
        BY <2>3, Zenon DEF PutShip
      <4>2. CASE Goto(p, "patch") /\ UNCHANGED result
        <5>1. pc' \in [Procs -> Labels]
          BY <4>2 DEF Labels, Running
        <5>2. found' \in [Procs -> {"absent", "current", "stale"}]
          BY <4>1
        <5> QED
          BY <4>2, <5>1, <5>2
      <4>3. CASE RunFails(p) /\ UNCHANGED found
        BY <4>3 DEF RunFails, Labels
      <4> QED
        BY <4>1, <4>2, <4>3
    <3> QED
      BY <2>3, <3>4, <3>5 DEF PutShip
  <2>4. CASE PatchTrigger(p)
    <3>1. Goto(p, "getRun") /\ UNCHANGED <<world, shipwright, faults, snap, found, result, listed>>
      BY <2>4, PatchMovesOn
    <3>2. pc' \in [Procs -> Labels]
      BY <3>1 DEF Labels, Running
    <3> QED
      BY <3>1, <3>2
  <2>5. CASE GetRun(p)
    BY <2>5 DEF GetRun, Labels, Running
  <2>6. CASE CreateRun(p)
    <3>1. UNCHANGED <<world, ship, source, builds, faults, snap, found, listed>>
      BY <2>6 DEF CreateRun
    <3>2. runs' \in [Identities -> Phases]
      BY <2>6 DEF CreateRun, Phases
    <3>3. pc' \in [Procs -> Labels]
      BY <2>6 DEF CreateRun, RunFails, Labels
    <3>4. result' \in [Procs -> {"none", "error", "triggered"}]
      BY <2>6 DEF CreateRun, RunFails
    <3> QED
      BY <3>1, <3>2, <3>3, <3>4
  <2>7. CASE WriteStatus(p)
    <3>1. CASE cr.exists
      <4>1. Identity(snap[p]) \in Identities
        BY <2>7, Mapped DEF WriteStatus, HandlerInv
      <4>2. result[p] \in {"error", "triggered"}
        BY <2>7 DEF WriteStatus, HandlerInv
      <4>3. status' \in [written : SUBSET {"error", "triggered"},
                         failed : Identities \cup {None}]
        BY <2>7, <3>1, <4>1, <4>2 DEF WriteStatus
      <4>4. Ends(p)
        BY <2>7, <3>1 DEF WriteStatus
      <4>5. key' \in BOOLEAN
        BY <2>7, <3>1 DEF WriteStatus
      <4> QED
        BY <2>7, <4>3, <4>4, <4>5, EndsTyped DEF WriteStatus, LocalsOK
    <3>2. CASE ~cr.exists
      <4>1. Leave(p, TRUE) /\ UNCHANGED status
        BY <2>7, <3>2 DEF WriteStatus
      <4> QED
        BY <2>7, <4>1, EndsTyped DEF WriteStatus, Leave, LocalsOK
    <3> QED
      BY <3>1, <3>2
  <2>8. CASE ListRuns(p)
    BY <2>8 DEF ListRuns, Labels, Removing
  <2>9. CASE DeleteRun(p)
    BY <2>9 DEF DeleteRun, Phases
  <2>10. CASE DeleteShip(p)
    BY <2>10 DEF DeleteShip, Labels, Removing
  <2>11. CASE Finalize(p)
    <3>1. LocalsOK' /\ key' \in BOOLEAN
      BY <2>11, EndsTyped DEF Finalize, Leave
    <3> QED
      BY <2>11, <3>1 DEF Finalize, LocalsOK
  <2> QED
    BY <1>3, <2>1, <2>2, <2>3, <2>4, <2>5, <2>6, <2>7, <2>8, <2>9, <2>10, <2>11 DEF Handle
<1>4. ASSUME NEW p \in Procs, ApiError(p) PROVE TypeOK'
  <2>1. key' \in BOOLEAN
    BY <1>4, Zenon DEF ApiError, Leave, Ends
  <2>2. CASE RunFails(p) /\ UNCHANGED <<key, snap, found, listed>>
    BY <1>4, <2>1, <2>2 DEF ApiError, RunFails, Labels
  <2>3. CASE Leave(p, TRUE)
    <3>1. LocalsOK'
      BY <2>3, EndsTyped DEF Leave
    <3> QED
      BY <1>4, <2>1, <3>1 DEF ApiError, LocalsOK
  <2> QED
    BY <1>4, <2>2, <2>3, Zenon DEF ApiError
<1>5. CASE Crash
  <2>1. LocalsOK'
    BY <1>5, CrashTyped
  <2> QED
    BY <1>5, <2>1 DEF Crash, LocalsOK
<1>6. CASE UNCHANGED vars
  BY <1>6 DEF vars
<1> QED
  BY <1>1, <1>2, <1>3, <1>4, <1>5, <1>6 DEF Next
-----------------------------------------------------------------------------
\* What the outside world does to a CR: it may mark it deleted, nothing more
\* that matters to a handler.
LEMMA WorldFrame ==
  ASSUME TypeOK, World
  PROVE  /\ cr'.exists = cr.exists
         /\ cr.deleting => cr'.deleting
         /\ UNCHANGED <<shipwright, faults, locals>>
<1> USE DEF TypeOK, ChangeCR
<1>1. ASSUME NEW t \in Pushes, Push(t)
      PROVE  UNCHANGED cr /\ UNCHANGED <<shipwright, faults, locals>>
  BY <1>1 DEF Push
<1>2. CASE AnnotateTrigger
  BY <1>2 DEF AnnotateTrigger
<1>3. CASE AnnotateRetry
  BY <1>3 DEF AnnotateRetry
<1>4. ASSUME NEW c \in Specs, EditSpec(c)
      PROVE  /\ cr'.exists = cr.exists /\ cr'.deleting = cr.deleting
             /\ UNCHANGED <<shipwright, faults, locals>>
  BY <1>4 DEF EditSpec
<1>5. CASE DeleteCR
  BY <1>5 DEF DeleteCR
<1> QED
  BY <1>1, <1>2, <1>3, <1>4, <1>5 DEF World

\* A handler keeps working on what is there, and removes what is being deleted.
LEMMA HandlerPreserved ==
  ASSUME Synchronous, TypeOK, HandlerInv, [Next]_vars
  PROVE  HandlerInv'
<1> USE DEF TypeOK, HandlerInv, Goto, Running, Removing
<1>1. CASE World
  BY <1>1, WorldFrame DEF locals
<1>2. CASE Shipwright
  BY <1>2 DEF Shipwright, StartRun, EndRun, TouchShip, world, locals
<1>3. ASSUME NEW p \in Procs, Handle(p) PROVE HandlerInv'
  <2>1. CASE Start(p)
    BY <2>1 DEF Start
  <2>2. CASE GetShip(p)
    BY <2>2 DEF GetShip, world
  <2>3. CASE PutShip(p)
    BY <2>3 DEF PutShip, RunFails, world
  <2>4. CASE PatchTrigger(p)
    BY <2>4, PatchMovesOn DEF world
  <2>5. CASE GetRun(p)
    BY <2>5 DEF GetRun, world
  <2>6. CASE CreateRun(p)
    <3>1. UNCHANGED <<cr, snap>> /\ pc[p] = "createRun" /\ pc' = [pc EXCEPT ![p] = "status"]
      BY <2>6 DEF CreateRun, RunFails, world
    <3>2. result' \in {[result EXCEPT ![p] = "error"], [result EXCEPT ![p] = "triggered"]}
      BY <2>6 DEF CreateRun, RunFails
    <3> QED
      BY <3>1, <3>2
  <2>7. CASE WriteStatus(p)
    <3>1. Ends(p) /\ UNCHANGED cr
      BY <2>7 DEF WriteStatus, Leave
    <3> QED
      BY <3>1 DEF Ends
  <2>8. CASE ListRuns(p)
    BY <2>8 DEF ListRuns, world
  <2>9. CASE DeleteRun(p)
    BY <2>9 DEF DeleteRun, world
  <2>10. CASE DeleteShip(p)
    BY <2>10 DEF DeleteShip, world
  <2>11. CASE Finalize(p)
    <3>1. \A q \in Procs : pc'[q] = "idle"
      BY <2>11 DEF Finalize, Leave, Ends, Synchronous
    <3>2. cr'.deleting = cr.deleting /\ cr.deleting
      BY <2>11 DEF Finalize
    <3> QED
      BY <3>1, <3>2
  <2> QED
    BY <1>3, <2>1, <2>2, <2>3, <2>4, <2>5, <2>6, <2>7, <2>8, <2>9, <2>10, <2>11 DEF Handle
<1>4. ASSUME NEW p \in Procs, ApiError(p) PROVE HandlerInv'
  <2>1. CASE pc[p] \in Running /\ RunFails(p) /\ UNCHANGED snap
    BY <1>4, <2>1 DEF ApiError, RunFails
  <2>2. CASE Leave(p, TRUE)
    BY <1>4, <2>2 DEF ApiError, Leave, Ends
  <2> QED
    BY <1>4, <2>1, <2>2 DEF ApiError
<1>5. CASE Crash
  BY <1>5 DEF Crash
<1>6. CASE UNCHANGED vars
  BY <1>6 DEF vars, world, locals
<1> QED
  BY <1>1, <1>2, <1>3, <1>4, <1>5, <1>6 DEF Next

\* Only the handler itself changes the Shipwright Build.
LEMMA ShipPreserved ==
  ASSUME Synchronous, TypeOK, HandlerInv, ShipInv, [Next]_vars
  PROVE  ShipInv'
<1> USE DEF TypeOK, ShipInv, Goto, Running
<1>1. CASE World
  BY <1>1, WorldFrame DEF locals, shipwright, CreateBuildSpec
<1>2. CASE Shipwright
  BY <1>2 DEF Shipwright, StartRun, EndRun, TouchShip, locals, shipwright, CreateBuildSpec
<1>3. ASSUME NEW p \in Procs, Handle(p) PROVE ShipInv'
  <2> USE DEF CreateBuildSpec
  <2>1. CASE Start(p)
    BY <2>1 DEF Start, Synchronous
  <2>2. CASE GetShip(p)
    BY <2>2 DEF GetShip, shipwright
  <2>3. CASE PutShip(p)
    BY <2>3 DEF PutShip, RunFails, Synchronous
  <2>4. CASE PatchTrigger(p)
    BY <2>4, PatchMovesOn DEF shipwright
  <2>5. CASE GetRun(p)
    BY <2>5 DEF GetRun, shipwright
  <2>6. CASE CreateRun(p)
    BY <2>6 DEF CreateRun, RunFails
  <2>7. CASE WriteStatus(p)
    BY <2>7 DEF WriteStatus, Leave, Ends, shipwright
  <2>8. CASE ListRuns(p)
    BY <2>8 DEF ListRuns, shipwright
  <2>9. CASE DeleteRun(p)
    BY <2>9 DEF DeleteRun
  <2>10. CASE DeleteShip(p)
    BY <2>10 DEF DeleteShip, Synchronous
  <2>11. CASE Finalize(p)
    BY <2>11 DEF Finalize, Leave, Ends, shipwright
  <2> QED
    BY <1>3, <2>1, <2>2, <2>3, <2>4, <2>5, <2>6, <2>7, <2>8, <2>9, <2>10, <2>11 DEF Handle
<1>4. ASSUME NEW p \in Procs, ApiError(p) PROVE ShipInv'
  BY <1>4 DEF ApiError, RunFails, Leave, Ends, shipwright, CreateBuildSpec
<1>5. CASE Crash
  BY <1>5 DEF Crash
<1>6. CASE UNCHANGED vars
  BY <1>6 DEF vars, shipwright, locals, CreateBuildSpec
<1> QED
  BY <1>1, <1>2, <1>3, <1>4, <1>5, <1>6 DEF Next
\* Runs change under a dispatching handler only by its own hand; Shipwright
\* moves a run on but neither creates nor removes one.
LEMMA RunPreserved ==
  ASSUME Synchronous, TypeOK, HandlerInv, RunInv, ReportIsTrue, [Next]_vars
  PROVE  RunInv' /\ ReportIsTrue'
<1> USE DEF TypeOK, RunInv, ReportIsTrue, Goto
<1>m. \A p \in Procs : pc[p] \in Running \cup {"status"} => Identity(snap[p]) \in Identities
  BY Mapped DEF HandlerInv
<1>1. CASE World
  BY <1>1, WorldFrame DEF locals, shipwright, Identity
<1>2. CASE Shipwright
  <2>2. ASSUME NEW id \in Identities, StartRun(id) \/ EndRun(id)
        PROVE  RunInv' /\ ReportIsTrue'
    <3>1. \A i \in Identities : runs[i] = "absent" <=> runs'[i] = "absent"
      BY <2>2 DEF StartRun, EndRun
    <3>2. UNCHANGED <<pc, snap, result>>
      BY <2>2 DEF StartRun, EndRun, locals
    <3> QED
      BY <3>1, <3>2, <1>m DEF Running, Identity
  <2>3. CASE TouchShip
    BY <2>3 DEF TouchShip, shipwright, Identity
  <2> QED
    BY <1>2, <2>2, <2>3 DEF Shipwright
<1>3. ASSUME NEW p \in Procs, Handle(p) PROVE RunInv' /\ ReportIsTrue'
  <2> USE DEF Identity
  <2>1. CASE Start(p)
    <3>1. pc'[p] \in {"idle", "getShip", "listRuns"}
      BY <2>1 DEF Start
    <3> QED
      BY <3>1 DEF Synchronous
  <2>2. CASE GetShip(p)
    BY <2>2 DEF GetShip, shipwright
  <2>3. CASE PutShip(p)
    BY <2>3 DEF PutShip, RunFails, Synchronous
  <2>4. CASE PatchTrigger(p)
    <3>1. pc'[p] = "getRun"
      BY <2>4, PatchMovesOn
    <3> QED
      BY <3>1 DEF Synchronous
  <2>5. CASE GetRun(p)
    <3>1. \A q \in Procs : q = p
      BY DEF Synchronous
    <3>2. UNCHANGED <<snap, runs>>
      BY <2>5 DEF GetRun, shipwright
    <3>3. CASE runs[Identity(snap[p])] = "absent"
      BY <2>5, <3>1, <3>2, <3>3 DEF GetRun
    <3>4. CASE runs[Identity(snap[p])] # "absent"
      BY <2>5, <3>1, <3>2, <3>4 DEF GetRun
    <3> QED
      BY <3>3, <3>4
  <2>6. CASE CreateRun(p)
    <3>1. \A q \in Procs : q = p
      BY DEF Synchronous
    <3>2. Identity(snap[p]) \in Identities
      BY <2>6, <1>m DEF CreateRun, Running
    <3>3. pc'[p] = "status" /\ UNCHANGED snap
      BY <2>6 DEF CreateRun, RunFails
    <3>4. result'[p] = "triggered" => runs'[Identity(snap[p])] # "absent"
      BY <2>6, <3>2 DEF CreateRun, RunFails
    <3> QED
      BY <3>1, <3>3, <3>4
  <2>7. CASE WriteStatus(p)
    <3>1. Ends(p)
      BY <2>7 DEF WriteStatus, Leave
    <3> QED
      BY <3>1 DEF Ends, Synchronous
  <2>8. CASE ListRuns(p)
    BY <2>8 DEF ListRuns, shipwright
  <2>9. CASE DeleteRun(p)
    BY <2>9 DEF DeleteRun, Synchronous
  <2>10. CASE DeleteShip(p)
    BY <2>10 DEF DeleteShip
  <2>11. CASE Finalize(p)
    BY <2>11 DEF Finalize, Leave, Ends, shipwright
  <2> QED
    BY <1>3, <2>1, <2>2, <2>3, <2>4, <2>5, <2>6, <2>7, <2>8, <2>9, <2>10, <2>11 DEF Handle
<1>4. ASSUME NEW p \in Procs, ApiError(p) PROVE RunInv' /\ ReportIsTrue'
  <2>1. UNCHANGED <<runs, source, builds, ship>>
    BY <1>4 DEF ApiError, shipwright
  <2>2. CASE RunFails(p) /\ UNCHANGED snap
    BY <2>1, <2>2 DEF RunFails, Identity
  <2>3. CASE Leave(p, TRUE)
    <3>1. pc'[p] = "idle"
      BY <2>3 DEF Leave, Ends
    <3> QED
      BY <3>1 DEF Synchronous
  <2> QED
    BY <1>4, <2>2, <2>3 DEF ApiError
<1>5. CASE Crash
  BY <1>5 DEF Crash
<1>6. CASE UNCHANGED vars
  BY <1>6 DEF vars, shipwright, locals, Identity
<1> QED
  BY <1>1, <1>2, <1>3, <1>4, <1>5, <1>6 DEF Next

\* Teardown's list stays complete, because nobody else creates a run, and what
\* is gone stays gone.
LEMMA ListPreserved ==
  ASSUME Synchronous, TypeOK, HandlerInv, ListInv, TeardownIsComplete, [Next]_vars
  PROVE  ListInv' /\ TeardownIsComplete'
<1> USE DEF TypeOK, ListInv, TeardownIsComplete, Goto, Clean
<1>1. CASE World
  BY <1>1, WorldFrame DEF locals, shipwright
<1>2. CASE Shipwright
  <2>2. ASSUME NEW id \in Identities, StartRun(id) \/ EndRun(id)
        PROVE  ListInv' /\ TeardownIsComplete'
    <3>1. \A i \in Identities : runs[i] = "absent" <=> runs'[i] = "absent"
      BY <2>2 DEF StartRun, EndRun
    <3>2. UNCHANGED <<pc, listed, ship, cr>>
      BY <2>2 DEF StartRun, EndRun, locals, world
    <3> QED
      BY <3>1, <3>2
  <2>3. CASE TouchShip
    BY <2>3 DEF TouchShip, shipwright, world
  <2> QED
    BY <1>2, <2>2, <2>3 DEF Shipwright
<1>3. ASSUME NEW p \in Procs, Handle(p) PROVE ListInv' /\ TeardownIsComplete'
  <2>0. \A q \in Procs : q = p
    BY DEF Synchronous
  <2>1. CASE Start(p)
    BY <2>1 DEF Start, shipwright
  <2>2. CASE GetShip(p)
    BY <2>2 DEF GetShip, shipwright, world
  <2>3. CASE PutShip(p)
    <3>1. cr'.exists
      BY <2>3 DEF PutShip, world, HandlerInv, Running
    <3> QED
      BY <2>0, <2>3, <3>1 DEF PutShip, RunFails
  <2>4. CASE PatchTrigger(p)
    BY <2>4, PatchMovesOn DEF shipwright, world
  <2>5. CASE GetRun(p)
    BY <2>5 DEF GetRun, shipwright, world
  <2>6. CASE CreateRun(p)
    <3>1. cr'.exists
      BY <2>6 DEF CreateRun, world, HandlerInv, Running
    <3> QED
      BY <2>0, <2>6, <3>1 DEF CreateRun, RunFails
  <2>7. CASE WriteStatus(p)
    BY <2>7 DEF WriteStatus, Leave, Ends, shipwright
  <2>8. CASE ListRuns(p)
    BY <2>8 DEF ListRuns, shipwright, world
  <2>9. CASE DeleteRun(p)
    BY <2>0, <2>9 DEF DeleteRun, world
  <2>10. CASE DeleteShip(p)
    BY <2>0, <2>10 DEF DeleteShip, world
  <2>11. CASE Finalize(p)
    BY <2>0, <2>11 DEF Finalize, Leave, Ends, shipwright
  <2> QED
    BY <1>3, <2>1, <2>2, <2>3, <2>4, <2>5, <2>6, <2>7, <2>8, <2>9, <2>10, <2>11 DEF Handle
<1>4. ASSUME NEW p \in Procs, ApiError(p) PROVE ListInv' /\ TeardownIsComplete'
  BY <1>4 DEF ApiError, RunFails, Leave, Ends, shipwright
<1>5. CASE Crash
  BY <1>5 DEF Crash, shipwright
<1>6. CASE UNCHANGED vars
  BY <1>6 DEF vars, world, shipwright, locals
<1> QED
  BY <1>1, <1>2, <1>3, <1>4, <1>5, <1>6 DEF Next
\* A run is created for what was never built, and starts once.
LEMMA BuildPreserved ==
  ASSUME Synchronous, TypeOK, HandlerInv, BuildInv, [Next]_vars
  PROVE  BuildInv'
<1> USE DEF TypeOK, BuildInv, Goto
<1>1. CASE World
  BY <1>1, WorldFrame DEF locals, shipwright
<1>2. CASE Shipwright
  <2>2. ASSUME NEW id \in Identities, StartRun(id) PROVE BuildInv'
    <3>1. UNCHANGED <<cr, pc>> /\ runs[id] = "created" /\ builds[id] = 0
      BY <2>2 DEF StartRun, world, locals
    <3>2. CASE ship.exists
      BY <2>2, <3>1, <3>2 DEF StartRun
    <3>3. CASE ~ship.exists
      BY <2>2, <3>1, <3>3 DEF StartRun
    <3> QED
      BY <3>2, <3>3
  <2>3. ASSUME NEW id \in Identities, EndRun(id) PROVE BuildInv'
    BY <2>3 DEF EndRun, locals
  <2>4. CASE TouchShip
    BY <2>4 DEF TouchShip, shipwright, world
  <2> QED
    BY <1>2, <2>2, <2>3, <2>4 DEF Shipwright
<1>3. ASSUME NEW p \in Procs, Handle(p) PROVE BuildInv'
  <2>0. \A q \in Procs : q = p
    BY DEF Synchronous
  <2>1. CASE Start(p)
    BY <2>0, <2>1 DEF Start, shipwright, Running
  <2>2. CASE GetShip(p)
    BY <2>0, <2>2 DEF GetShip, shipwright, world, Running
  <2>3. CASE PutShip(p)
    BY <2>0, <2>3 DEF PutShip, RunFails, world, Running
  <2>4. CASE PatchTrigger(p)
    BY <2>0, <2>4, PatchMovesOn DEF shipwright, world, Running
  <2>5. CASE GetRun(p)
    BY <2>0, <2>5 DEF GetRun, shipwright, world, Running
  <2>6. CASE CreateRun(p)
    <3>1. /\ Identity(snap[p]) \in Identities
          /\ pc[p] \in Running
          /\ UNCHANGED <<cr, builds>>
          /\ pc'[p] \notin Running
      BY <2>6, Mapped DEF CreateRun, RunFails, HandlerInv, Running, world
    <3>2. CASE runs[Identity(snap[p])] = "absent"
      <4>1. builds[Identity(snap[p])] = 0
        BY <3>1, <3>2
      <4>2. runs' = [runs EXCEPT ![Identity(snap[p])] = "created"]
        BY <2>6, <3>2 DEF CreateRun
      <4> QED
        BY <2>0, <3>1, <4>1, <4>2
    <3>3. CASE runs[Identity(snap[p])] # "absent"
      <4>1. UNCHANGED runs
        BY <2>6, <3>3 DEF CreateRun
      <4> QED
        BY <2>0, <3>1, <4>1
    <3> QED
      BY <3>2, <3>3
  <2>7. CASE WriteStatus(p)
    BY <2>0, <2>7 DEF WriteStatus, Leave, Ends, shipwright, Running
  <2>8. CASE ListRuns(p)
    BY <2>0, <2>8 DEF ListRuns, shipwright, world, Running
  <2>9. CASE DeleteRun(p)
    <3>1. cr.deleting /\ cr'.deleting
      BY <2>9 DEF DeleteRun, HandlerInv, Removing, world
    <3>2. \A q \in Procs : pc'[q] \notin Running
      BY <2>0, <2>9 DEF DeleteRun, Running
    <3>3. PICK id \in Identities : runs' = [runs EXCEPT ![id] = "absent"]
      BY <2>9 DEF DeleteRun
    <3>4. UNCHANGED builds
      BY <2>9 DEF DeleteRun
    <3> QED
      BY <3>1, <3>2, <3>3, <3>4
  <2>10. CASE DeleteShip(p)
    BY <2>0, <2>10 DEF DeleteShip, world, Running
  <2>11. CASE Finalize(p)
    BY <2>0, <2>11 DEF Finalize, Leave, Ends, shipwright, Running
  <2> QED
    BY <1>3, <2>1, <2>2, <2>3, <2>4, <2>5, <2>6, <2>7, <2>8, <2>9, <2>10, <2>11 DEF Handle
<1>4. ASSUME NEW p \in Procs, ApiError(p) PROVE BuildInv'
  BY <1>4 DEF ApiError, RunFails, Leave, Ends, shipwright, Running, Removing
<1>5. CASE Crash
  BY <1>5 DEF Crash, shipwright, Running
<1>6. CASE UNCHANGED vars
  BY <1>6 DEF vars, world, shipwright, locals
<1> QED
  BY <1>1, <1>2, <1>3, <1>4, <1>5, <1>6 DEF Next

-----------------------------------------------------------------------------
\* With one handler at a time, IInv holds in every reachable state.
THEOREM Inductive == Synchronous => (Spec => []IInv)
<1> SUFFICES ASSUME Synchronous PROVE Spec => []IInv
  OBVIOUS
<1>1. IInv /\ [Next]_vars => IInv'
  BY TypePreserved, HandlerPreserved, ShipPreserved, RunPreserved, ListPreserved,
     BuildPreserved DEF IInv
<1> QED
  BY InitInv, <1>1, PTL DEF Spec

\* The state stays well typed: in particular only contracts the Mapper accepts
\* reach the Shipwright Build.
THEOREM TypeCorrect == Synchronous => (Spec => []TypeOK)
<1> SUFFICES ASSUME Synchronous PROVE Spec => []TypeOK
  OBVIOUS
<1>1. IInv => TypeOK
  BY DEF IInv
<1> QED
  BY Inductive, <1>1, PTL

\* Shipwright builds every execution at most once.
THEOREM BuiltOnceCorrect == Synchronous => (Spec => []BuiltOnce)
<1> SUFFICES ASSUME Synchronous PROVE Spec => []BuiltOnce
  OBVIOUS
<1>1. IInv => BuiltOnce
  BY DEF IInv, BuildInv, BuiltOnce
<1> QED
  BY Inductive, <1>1, PTL

\* The finalizer goes only when every BuildRun and the Shipwright Build are gone.
THEOREM TeardownCorrect == Synchronous => (Spec => []TeardownIsComplete)
<1> SUFFICES ASSUME Synchronous PROVE Spec => []TeardownIsComplete
  OBVIOUS
<1>1. IInv => TeardownIsComplete
  BY DEF IInv
<1> QED
  BY Inductive, <1>1, PTL

\* The conditions report a dispatch only of a run that exists.
THEOREM ReportCorrect == Synchronous => (Spec => []ReportIsTrue)
<1> SUFFICES ASSUME Synchronous PROVE Spec => []ReportIsTrue
  OBVIOUS
<1>1. IInv => ReportIsTrue
  BY DEF IInv
<1> QED
  BY Inductive, <1>1, PTL

\* A new BuildRun finds the Shipwright Build of its own execution.
THEOREM NewRunCorrect == Synchronous => (Spec => NewRunMatchesShip)
<1> SUFFICES ASSUME Synchronous PROVE Spec => NewRunMatchesShip
  OBVIOUS
<1> DEFINE A == \A id \in Identities : runs[id] = "absent" /\ runs'[id] = "created" =>
                  ship.exists /\ Builds(ship.source, id)
<1>1. IInv /\ [Next]_vars => [A]_vars
  <2> SUFFICES ASSUME IInv, [Next]_vars, NEW id \in Identities,
                      runs[id] = "absent", runs'[id] = "created"
               PROVE  ship.exists /\ Builds(ship.source, id)
    OBVIOUS
  <2> USE DEF IInv, TypeOK
  <2>1. CASE World
    BY <2>1, WorldFrame DEF shipwright
  <2>2. CASE Shipwright
    BY <2>2 DEF Shipwright, StartRun, EndRun, TouchShip, shipwright
  <2>3. ASSUME NEW p \in Procs, Handle(p) PROVE ship.exists /\ Builds(ship.source, id)
    <3>1. CASE CreateRun(p)
      <4>1. Identity(snap[p]) = id /\ pc[p] = "createRun"
        BY <3>1 DEF CreateRun
      <4>2. ship.exists /\ ship.source = CreateBuildSpec(snap[p])
        BY <4>1 DEF ShipInv
      <4> QED
        BY <4>1, <4>2, SameSource
    <3>2. CASE ~CreateRun(p)
      BY <2>3, <3>2, PatchMovesOn DEF Handle, Start, GetShip, PutShip, GetRun,
         WriteStatus, ListRuns, DeleteRun, DeleteShip, Finalize, shipwright
    <3> QED
      BY <3>1, <3>2
  <2>4. ASSUME NEW p \in Procs, ApiError(p) PROVE FALSE
    BY <2>4 DEF ApiError, shipwright
  <2>5. CASE Crash \/ UNCHANGED vars
    BY <2>5 DEF Crash, vars, shipwright
  <2> QED
    BY <2>1, <2>2, <2>3, <2>4, <2>5 DEF Next
<1> QED
  BY Inductive, <1>1, PTL DEF NewRunMatchesShip, Spec
=============================================================================
