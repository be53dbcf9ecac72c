------------------------------- MODULE Engine -------------------------------
(***************************************************************************)
(* core/engine: the router every controller hands its Commands to.         *)
(*                                                                         *)
(* A Command enters through Execute (run in the caller's goroutine) or     *)
(* through Queue (run there too when no pool is configured, otherwise sent *)
(* to a buffered channel that worker goroutines drain).  Each Command is   *)
(* submitted once -- a requeue builds a new Command -- so one program      *)
(* counter per Command stands for whichever goroutine is working on it.    *)
(* The circuit breaker and the Domains behind Handle are external: a       *)
(* breaker may be installed, trip or close at any step, and Handle returns *)
(* nil or an error.                                                        *)
(***************************************************************************)
EXTENDS Naturals, Sequences, FiniteSets

CONSTANTS
  Cmds,      \* the Commands the controllers build
  GVKs,      \* the kinds they are addressed to
  GvkOf,     \* [Cmds -> GVKs], Command.GVK
  Workers,   \* identities for worker goroutines
  Capacity,  \* capacity of the queue channel (1024 in NewEngine)
  None       \* no Command

ASSUME EngineAssumption ==
  /\ GvkOf \in [Cmds -> GVKs]
  /\ IsFiniteSet(Workers)
  /\ Capacity \in Nat \ {0}
  /\ None \notin Cmds

VARIABLES
  registry,  \* the GVKs a Domain is registered for
  breaker,   \* e.circuitBreaker # nil
  tripped,   \* the GVKs an installed breaker answers false for (external)
  workers,   \* e.workers, the configured pool size
  started,   \* StartWorkers has been called
  queue,     \* e.queue
  stopped,   \* e.workerStop is closed
  stopper,   \* the call of StopWorkers: idle, waiting, joined, timeout
  wstate,    \* [Workers -> WorkerState]
  cur,       \* [Workers -> Cmds \cup {None}], the Command a worker executes
  pc,        \* [Cmds -> PC], where the Command is
  async,     \* [Cmds -> BOOLEAN], Queue's snapshot "workers > 0"
  accepted,  \* history: Commands sent to the channel, in order
  taken,     \* history: Commands received from the channel, in order
  shut       \* history: see EnterExecute

poolVars    == <<workers, started, stopped, stopper, wstate>>
historyVars == <<accepted, taken, shut>>
vars == <<registry, breaker, tripped, poolVars, queue, cur, pc, async,
          historyVars>>

WorkerState == {"off", "loop", "busy", "exit"}
Terminal    == {"ok", "failed", "blocked", "noDomain", "cancelled"}
InExecute   == {"execute", "allow", "lookup", "handling"}
PC          == {"idle", "queueAllow", "send", "queued"} \cup InExecute \cup Terminal

Goto(c, label) == pc' = [pc EXCEPT ![c] = label]

-----------------------------------------------------------------------------
(* Configuration, done by the manager at startup, and the external breaker *)

\* "Must be called before StartWorkers": the manager keeps that order.
SetWorkers(n) ==
  /\ ~started
  /\ workers' = n
  /\ UNCHANGED <<registry, breaker, tripped, started, stopped, stopper,
                 wstate, queue, cur, pc, async, historyVars>>

RegisterDomain(g) ==
  /\ registry' = registry \cup {g}
  /\ UNCHANGED <<breaker, tripped, poolVars, queue, cur, pc, async, historyVars>>

\* A Command stays in shut only while an installed breaker keeps it out.
SetCircuitBreaker(b) ==
  /\ breaker' = b
  /\ shut' = IF b THEN shut ELSE {}
  /\ UNCHANGED <<registry, tripped, poolVars, queue, cur, pc, async, accepted, taken>>

BreakerTrips(g) ==
  /\ tripped' = tripped \cup {g}
  /\ UNCHANGED <<registry, breaker, poolVars, queue, cur, pc, async, historyVars>>

BreakerCloses(g) ==
  /\ tripped' = tripped \ {g}
  /\ shut' = {c \in shut : GvkOf[c] # g}
  /\ UNCHANGED <<registry, breaker, poolVars, queue, cur, pc, async, accepted, taken>>

-----------------------------------------------------------------------------
(* Execute: read the breaker, ask it, look the Domain up, run its Handle   *)

\* Every path into Execute.  shut records that the breaker was open for the
\* Command when it got here; it is forgotten as soon as the breaker closes.
EnterExecute(c) ==
  shut' = IF breaker /\ GvkOf[c] \in tripped THEN shut \cup {c} ELSE shut

ExecuteCall(c) ==
  /\ pc[c] = "idle"
  /\ Goto(c, "execute")
  /\ EnterExecute(c)
  /\ UNCHANGED <<registry, breaker, tripped, poolVars, queue, cur, async,
                 accepted, taken>>

\* Mutant: Queue has already asked the breaker, so Execute does not ask again.
TrustsQueueCheck(c) ==
  /\ pc[c] = "execute"
  /\ Goto(c, IF breaker /\ ~async[c] THEN "allow" ELSE "lookup")
  /\ UNCHANGED <<registry, breaker, tripped, poolVars, queue, cur, async, historyVars>>

ExecuteReadsBreaker(c) ==
  /\ pc[c] = "execute"
  /\ Goto(c, IF breaker THEN "allow" ELSE "lookup")
  /\ UNCHANGED <<registry, breaker, tripped, poolVars, queue, cur, async, historyVars>>

ExecuteAllow(c) ==
  /\ pc[c] = "allow"
  /\ Goto(c, IF GvkOf[c] \in tripped THEN "blocked" ELSE "lookup")
  /\ UNCHANGED <<registry, breaker, tripped, poolVars, queue, cur, async, historyVars>>

\* Mutant: the lookup waits for a Domain to be registered.
LookupWaits(c) ==
  /\ pc[c] = "lookup"
  /\ GvkOf[c] \in registry
  /\ Goto(c, "handling")
  /\ UNCHANGED <<registry, breaker, tripped, poolVars, queue, cur, async, historyVars>>

ExecuteLookup(c) ==
  /\ pc[c] = "lookup"
  /\ Goto(c, IF GvkOf[c] \in registry THEN "handling" ELSE "noDomain")
  /\ UNCHANGED <<registry, breaker, tripped, poolVars, queue, cur, async, historyVars>>

HandleReturns(c) ==
  /\ pc[c] = "handling"
  /\ \E outcome \in {"ok", "failed"} : Goto(c, outcome)
  /\ UNCHANGED <<registry, breaker, tripped, poolVars, queue, cur, async, historyVars>>

Execute(c) ==
  \/ ExecuteReadsBreaker(c)
  \/ ExecuteAllow(c)
  \/ ExecuteLookup(c)
  \/ HandleReturns(c)

-----------------------------------------------------------------------------
(* Queue: snapshot workers and breaker, ask the breaker, then run or send  *)

\* Queue's own Execute call reads the breaker again, hence EnterExecute.
Route(c, toPool) ==
  IF toPool THEN Goto(c, "send") /\ UNCHANGED shut
            ELSE Goto(c, "execute") /\ EnterExecute(c)

QueueCall(c) ==
  /\ pc[c] = "idle"
  /\ async' = [async EXCEPT ![c] = workers > 0]
  /\ IF breaker THEN Goto(c, "queueAllow") /\ UNCHANGED shut
                ELSE Route(c, workers > 0)
  /\ UNCHANGED <<registry, breaker, tripped, poolVars, queue, cur, accepted, taken>>

QueueAllow(c) ==
  /\ pc[c] = "queueAllow"
  /\ IF GvkOf[c] \in tripped THEN Goto(c, "blocked") /\ UNCHANGED shut
                             ELSE Route(c, async[c])
  /\ UNCHANGED <<registry, breaker, tripped, poolVars, queue, cur, async, accepted, taken>>

Send(c) ==
  /\ pc[c] = "send"
  /\ Len(queue) < Capacity
  /\ queue' = Append(queue, c)
  /\ accepted' = Append(accepted, c)
  /\ Goto(c, "queued")
  /\ UNCHANGED <<registry, breaker, tripped, poolVars, cur, async, taken, shut>>

\* Mutant: a cancellation is honoured after the Command went into the channel.
CancelAfterSend(c) ==
  /\ pc[c] \in {"send", "queued"}
  /\ Goto(c, "cancelled")
  /\ UNCHANGED <<registry, breaker, tripped, poolVars, queue, cur, async, historyVars>>

\* The caller's context ends while Queue is in its select.
CancelSend(c) ==
  /\ pc[c] = "send"
  /\ Goto(c, "cancelled")
  /\ UNCHANGED <<registry, breaker, tripped, poolVars, queue, cur, async, historyVars>>

-----------------------------------------------------------------------------
(* The worker pool                                                         *)

\* Mutant: one worker too few is spawned.
StartsOneFewer ==
  /\ ~started /\ ~stopped
  /\ started' = TRUE
  /\ \E W \in SUBSET Workers :
       /\ Cardinality(W) + 1 = workers
       /\ wstate' = [w \in Workers |-> IF w \in W THEN "loop" ELSE wstate[w]]
  /\ UNCHANGED <<registry, breaker, tripped, workers, stopped, stopper, queue,
                 cur, pc, async, historyVars>>

\* Called once, at manager startup; a no-op when no pool is configured.
StartWorkers ==
  /\ ~started /\ ~stopped
  /\ started' = TRUE
  /\ \E W \in SUBSET Workers :
       /\ Cardinality(W) = workers
       /\ wstate' = [w \in Workers |-> IF w \in W THEN "loop" ELSE wstate[w]]
  /\ UNCHANGED <<registry, breaker, tripped, workers, stopped, stopper, queue,
                 cur, pc, async, historyVars>>

\* Worker w received c from the channel and starts to execute it.
Dispatch(w, c) ==
  /\ wstate[w] = "loop"
  /\ taken' = Append(taken, c)
  /\ cur' = [cur EXCEPT ![w] = c]
  /\ wstate' = [wstate EXCEPT ![w] = "busy"]
  /\ Goto(c, "execute")
  /\ EnterExecute(c)
  /\ UNCHANGED <<registry, breaker, tripped, workers, started, stopped, stopper,
                 async, accepted>>

\* workerLoop's select takes any ready case: both WorkerTakes and WorkerStops
\* may be enabled once the stop channel is closed.
WorkerTakes(w) ==
  /\ queue # <<>>
  /\ queue' = Tail(queue)
  /\ Dispatch(w, Head(queue))

\* Execute has returned; an error is only logged.
WorkerLoops(w) ==
  /\ wstate[w] = "busy"
  /\ pc[cur[w]] \in Terminal
  /\ wstate' = [wstate EXCEPT ![w] = "loop"]
  /\ cur' = [cur EXCEPT ![w] = None]
  /\ UNCHANGED <<registry, breaker, tripped, workers, started, stopped, stopper,
                 queue, pc, async, historyVars>>

WorkerStops(w) ==
  /\ wstate[w] = "loop"
  /\ stopped
  /\ wstate' = [wstate EXCEPT ![w] = "exit"]
  /\ UNCHANGED <<registry, breaker, tripped, workers, started, stopped, stopper,
                 queue, cur, pc, async, historyVars>>

-----------------------------------------------------------------------------
(* StopWorkers: close the stop channel (once) and wait, with a timeout     *)

StopCall ==
  /\ started
  /\ workers > 0
  /\ stopper # "waiting"
  /\ stopped' = TRUE
  /\ stopper' = "waiting"
  /\ UNCHANGED <<registry, breaker, tripped, workers, started, wstate, queue,
                 cur, pc, async, historyVars>>

\* Mutant: the wait only counts workers idling in their loop.
JoinIgnoresBusy ==
  /\ stopper = "waiting"
  /\ \A w \in Workers : wstate[w] # "loop"
  /\ stopper' = "joined"
  /\ UNCHANGED <<registry, breaker, tripped, workers, started, stopped, wstate,
                 queue, cur, pc, async, historyVars>>

\* workerGroup.Wait returns: every spawned worker has returned.
StopJoined ==
  /\ stopper = "waiting"
  /\ \A w \in Workers : wstate[w] \in {"off", "exit"}
  /\ stopper' = "joined"
  /\ UNCHANGED <<registry, breaker, tripped, workers, started, stopped, wstate,
                 queue, cur, pc, async, historyVars>>

StopTimesOut ==
  /\ stopper = "waiting"
  /\ stopper' = "timeout"
  /\ UNCHANGED <<registry, breaker, tripped, workers, started, stopped, wstate,
                 queue, cur, pc, async, historyVars>>

-----------------------------------------------------------------------------
Init ==
  /\ registry = {}
  /\ breaker = FALSE
  /\ tripped = {}
  /\ workers = 0
  /\ started = FALSE
  /\ queue = <<>>
  /\ stopped = FALSE
  /\ stopper = "idle"
  /\ wstate = [w \in Workers |-> "off"]
  /\ cur = [w \in Workers |-> None]
  /\ pc = [c \in Cmds |-> "idle"]
  /\ async = [c \in Cmds |-> FALSE]
  /\ accepted = <<>>
  /\ taken = <<>>
  /\ shut = {}

Configure ==
  \/ \E n \in 0 .. Cardinality(Workers) : SetWorkers(n)
  \/ StartWorkers
  \/ \E g \in GVKs : RegisterDomain(g)
  \/ \E b \in BOOLEAN : SetCircuitBreaker(b)
  \/ \E g \in GVKs : BreakerTrips(g)
  \/ \E g \in GVKs : BreakerCloses(g)

Submit(c) == ExecuteCall(c) \/ QueueCall(c) \/ QueueAllow(c) \/ Send(c) \/ CancelSend(c)

Worker(w) == WorkerTakes(w) \/ WorkerLoops(w) \/ WorkerStops(w)

Stop == StopCall \/ StopJoined \/ StopTimesOut

Next ==
  \/ Configure
  \/ \E c \in Cmds : Submit(c)
  \/ \E c \in Cmds : Execute(c)
  \/ \E w \in Workers : Worker(w)
  \/ Stop

Spec == Init /\ [][Next]_vars

\* A goroutine that can run does, Handle returns, and a sender blocked on the
\* channel gets the slot eventually (Go queues blocked senders first come,
\* first served).  Nothing obliges a caller, the manager or the breaker.
Fairness ==
  /\ \A w \in Workers : WF_vars(Worker(w))
  /\ \A c \in Cmds : WF_vars(Execute(c)) /\ WF_vars(QueueAllow(c)) /\ SF_vars(Send(c))

FairSpec == Spec /\ Fairness

-----------------------------------------------------------------------------
TypeOK ==
  /\ registry \subseteq GVKs
  /\ breaker \in BOOLEAN
  /\ tripped \subseteq GVKs
  /\ workers \in Nat
  /\ started \in BOOLEAN
  /\ queue \in Seq(Cmds)
  /\ stopped \in BOOLEAN
  /\ stopper \in {"idle", "waiting", "joined", "timeout"}
  /\ wstate \in [Workers -> WorkerState]
  /\ cur \in [Workers -> Cmds \cup {None}]
  /\ pc \in [Cmds -> PC]
  /\ async \in [Cmds -> BOOLEAN]
  /\ accepted \in Seq(Cmds)
  /\ taken \in Seq(Cmds)
  /\ shut \subseteq Cmds

\* The Commands workers received, followed by those still in the channel, are
\* exactly those Queue accepted, in that order: Queue and workerLoop neither
\* lose, repeat nor reorder a Command between them.
ChannelFifo == accepted = taken \o queue

\* Two workers never hold the same Command, and a Command in the channel is
\* held by no worker: each accepted Command is dispatched by one goroutine.
OneDispatcher ==
  \A w \in Workers : cur[w] # None =>
    /\ \A v \in Workers : cur[v] = cur[w] => v = w
    /\ \A i \in DOMAIN queue : queue[i] # cur[w]

\* A breaker that is open for a Command from the moment it reaches Execute
\* until it is dispatched keeps it from its Domain, however long it sat in the
\* channel after Queue's own check passed.
OpenBreakerHolds == \A c \in shut : pc[c] \notin {"handling", "ok", "failed"}

\* When StopWorkers returns because its workers are done, no worker is inside
\* a Domain's Handle and none will start another Command.
JoinedMeansQuiet ==
  stopper = "joined" => \A w \in Workers : wstate[w] \in {"off", "exit"} /\ cur[w] = None

\* While the pool runs, an accepted Command reaches a verdict: nothing in the
\* channel is starved unless the pool is stopped.
AcceptedIsServed ==
  \A c \in Cmds :
    (pc[c] = "queued" /\ \E w \in Workers : wstate[w] = "loop")
      ~> (pc[c] \in Terminal \/ stopped)

\* A caller blocked on a full channel gets through, or gives up with its
\* context, while the pool runs.
FullQueueLetsThrough ==
  \A c \in Cmds :
    (pc[c] = "send" /\ started /\ workers > 0) ~> (pc[c] # "send" \/ stopped)

-----------------------------------------------------------------------------
\* The promise the Engine keeps: see CommandBus.
StatusAt(label) ==
  CASE label \in {"idle", "queueAllow", "send"}       -> "new"
    [] label = "queued"                               -> "waiting"
    [] label \in {"execute", "allow", "lookup"}       -> "claimed"
    [] label = "handling"                             -> "running"
    [] label \in {"ok", "failed"}                     -> "done"
    [] label \in {"blocked", "noDomain", "cancelled"} -> "refused"

Bus == INSTANCE CommandBus WITH backlog <- queue, status <- [c \in Cmds |-> StatusAt(pc[c])]

\* Every step of the Engine is a step of CommandBus or changes nothing there.
ImplementsBus == Bus!Spec
=============================================================================
