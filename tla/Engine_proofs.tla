--------------------------- MODULE Engine_proofs ---------------------------
(***************************************************************************)
(* Engine keeps its invariants and implements CommandBus, for any sets of  *)
(* Commands, kinds and workers and any channel capacity.                   *)
(***************************************************************************)
EXTENDS Engine, SequenceTheorems, FiniteSetTheorems, TLAPS

-----------------------------------------------------------------------------
(* The inductive strengthening.                                            *)

\* What sits in the channel has been sent and not yet received, once.
QueueInv ==
  /\ \A i \in 1 .. Len(queue) : pc[queue[i]] = "queued"
  /\ \A i, j \in 1 .. Len(queue) : queue[i] = queue[j] => i = j

Held == InExecute \cup Terminal

\* A worker is busy exactly while it holds a Command, its own, that has left
\* the channel.
WorkerInv ==
  /\ \A w \in Workers : cur[w] # None <=> wstate[w] = "busy"
  /\ \A w \in Workers : cur[w] # None => pc[cur[w]] \in Held
  /\ \A v, w \in Workers : cur[w] # None /\ cur[v] = cur[w] => v = w

\* A Command shut out by an open breaker has not got past the breaker.
ShutInv ==
  \A c \in shut : /\ breaker
                  /\ GvkOf[c] \in tripped
                  /\ pc[c] \in {"execute", "allow", "blocked"}

\* Workers are spawned once, by StartWorkers, which StopWorkers follows: no
\* worker appears after the join.
PoolInv ==
  /\ ~started => \A w \in Workers : wstate[w] = "off"
  /\ stopper # "idle" => started
  /\ stopper = "joined" => \A w \in Workers : wstate[w] \in {"off", "exit"}

IInv == TypeOK /\ ChannelFifo /\ QueueInv /\ WorkerInv /\ ShutInv /\ PoolInv

-----------------------------------------------------------------------------
(* Facts about the channel.                                                *)

\* Sending at the tail commutes with what was received before (Send).
LEMMA AppendConcat ==
  ASSUME NEW S, NEW s \in Seq(S), NEW t \in Seq(S), NEW c \in S
  PROVE  Append(s \o t, c) = s \o Append(t, c)
<1>1. Append(s \o t, c) = (s \o t) \o <<c>>
  BY AppendIsConcat
<1>2. Append(t, c) = t \o <<c>>
  BY AppendIsConcat
<1>3. <<c>> \in Seq(S)
  OBVIOUS
<1> QED
  BY <1>1, <1>2, <1>3, ConcatAssociative

\* Receiving moves the oldest element from one part to the other (WorkerTakes).
LEMMA HeadTailConcat ==
  ASSUME NEW S, NEW s \in Seq(S), NEW t \in Seq(S), t # <<>>
  PROVE  Append(s, Head(t)) \o Tail(t) = s \o t
<1>1. Head(t) \in S /\ Tail(t) \in Seq(S)
  BY HeadTailProperties
<1>2. t = <<Head(t)>> \o Tail(t)
  OBVIOUS
<1>3. Append(s, Head(t)) = s \o <<Head(t)>>
  BY <1>1, AppendIsConcat
<1>4. <<Head(t)>> \in Seq(S)
  BY <1>1
<1> QED
  BY <1>1, <1>2, <1>3, <1>4, ConcatAssociative

-----------------------------------------------------------------------------
(* Preservation, one lemma per conjunct of IInv, one step per action.      *)

\* Every action keeps the types (Engine's struct fields and goroutine states).
LEMMA TypeStep == TypeOK /\ [Next]_vars => TypeOK'
<1> SUFFICES ASSUME TypeOK, [Next]_vars PROVE TypeOK'
  OBVIOUS
<1> USE EngineAssumption DEF TypeOK, WorkerState, PC, InExecute, Terminal, Goto,
        EnterExecute, poolVars, historyVars
<1>1. CASE Configure
  <2>1. CASE \E n \in 0 .. Cardinality(Workers) : SetWorkers(n)
    BY <2>1, FS_CardinalityType DEF SetWorkers
  <2>2. CASE StartWorkers
    BY <2>2 DEF StartWorkers
  <2>3. CASE \E g \in GVKs : RegisterDomain(g)
    BY <2>3 DEF RegisterDomain
  <2>4. CASE \E b \in BOOLEAN : SetCircuitBreaker(b)
    BY <2>4 DEF SetCircuitBreaker
  <2>5. CASE \E g \in GVKs : BreakerTrips(g)
    BY <2>5 DEF BreakerTrips
  <2>6. CASE \E g \in GVKs : BreakerCloses(g)
    BY <2>6 DEF BreakerCloses
  <2> QED
    BY <1>1, <2>1, <2>2, <2>3, <2>4, <2>5, <2>6 DEF Configure
<1>2. ASSUME NEW c \in Cmds, Submit(c) PROVE TypeOK'
  <2>1. CASE ExecuteCall(c)
    BY <2>1 DEF ExecuteCall
  <2>2. CASE QueueCall(c)
    <3>1. UNCHANGED <<registry, breaker, tripped, poolVars, queue, cur, accepted, taken>>
      BY <2>2 DEF QueueCall
    <3>2. \E label \in {"queueAllow", "send", "execute"} : Goto(c, label)
      BY <2>2, Zenon DEF QueueCall, Route
    <3>4. pc' \in [Cmds -> PC]
      BY <3>2
    <3>3. async' \in [Cmds -> BOOLEAN] /\ shut' \subseteq Cmds
      BY <2>2 DEF QueueCall, Route
    <3> QED
      BY <3>1, <3>3, <3>4
  <2>3. CASE QueueAllow(c)
    BY <2>3 DEF QueueAllow, Route
  <2>4. CASE Send(c)
    BY <2>4, AppendProperties DEF Send
  <2>5. CASE CancelSend(c)
    BY <2>5 DEF CancelSend
  <2> QED
    BY <1>2, <2>1, <2>2, <2>3, <2>4, <2>5 DEF Submit
<1>3. ASSUME NEW c \in Cmds, Execute(c) PROVE TypeOK'
  <2>1. CASE ExecuteReadsBreaker(c)
    BY <2>1 DEF ExecuteReadsBreaker
  <2>2. CASE ExecuteAllow(c)
    BY <2>2 DEF ExecuteAllow
  <2>3. CASE ExecuteLookup(c)
    BY <2>3 DEF ExecuteLookup
  <2>4. CASE HandleReturns(c)
    BY <2>4 DEF HandleReturns
  <2> QED
    BY <1>3, <2>1, <2>2, <2>3, <2>4 DEF Execute
<1>4. ASSUME NEW w \in Workers, Worker(w) PROVE TypeOK'
  <2>1. CASE WorkerTakes(w)
    <3>1. Head(queue) \in Cmds /\ Tail(queue) \in Seq(Cmds)
      BY <2>1, HeadTailProperties DEF WorkerTakes
    <3>2. Append(taken, Head(queue)) \in Seq(Cmds)
      BY <3>1, AppendProperties
    <3> QED
      BY <2>1, <3>1, <3>2 DEF WorkerTakes, Dispatch
  <2>2. CASE WorkerLoops(w)
    BY <2>2 DEF WorkerLoops
  <2>3. CASE WorkerStops(w)
    BY <2>3 DEF WorkerStops
  <2> QED
    BY <1>4, <2>1, <2>2, <2>3 DEF Worker
<1>5. CASE Stop
  BY <1>5 DEF Stop, StopCall, StopJoined, StopTimesOut
<1>6. CASE UNCHANGED vars
  BY <1>6 DEF vars
<1> QED
  BY <1>1, <1>2, <1>3, <1>4, <1>5, <1>6 DEF Next

\* Only Send and WorkerTakes touch the channel and its two histories.
LEMMA FifoStep == TypeOK /\ ChannelFifo /\ [Next]_vars => ChannelFifo'
<1> SUFFICES ASSUME TypeOK, ChannelFifo, [Next]_vars PROVE ChannelFifo'
  OBVIOUS
<1> USE DEF ChannelFifo
<1>1. ASSUME NEW c \in Cmds, Send(c) PROVE ChannelFifo'
  <2>1. Append(taken \o queue, c) = taken \o Append(queue, c)
    BY AppendConcat DEF TypeOK
  <2> QED
    BY <1>1, <2>1 DEF Send
<1>2. ASSUME NEW w \in Workers, WorkerTakes(w) PROVE ChannelFifo'
  <2>1. Append(taken, Head(queue)) \o Tail(queue) = taken \o queue
    BY <1>2, HeadTailConcat DEF WorkerTakes, TypeOK
  <2> QED
    BY <1>2, <2>1 DEF WorkerTakes, Dispatch
<1>3. CASE UNCHANGED <<queue, accepted, taken>>
  BY <1>3
<1>4. \/ \E c \in Cmds : Send(c)
      \/ \E w \in Workers : WorkerTakes(w)
      \/ UNCHANGED <<queue, accepted, taken>>
  BY DEF Next, Configure, SetWorkers, StartWorkers, RegisterDomain, SetCircuitBreaker,
     BreakerTrips, BreakerCloses, Submit, ExecuteCall, QueueCall, QueueAllow,
     CancelSend, Execute, ExecuteReadsBreaker, ExecuteAllow, ExecuteLookup,
     HandleReturns, Worker, WorkerLoops, WorkerStops, Stop, StopCall, StopJoined,
     StopTimesOut, vars, poolVars, historyVars
<1> QED
  BY <1>1, <1>2, <1>3, <1>4

\* A Command moves through Execute only once it is outside the channel.
LEMMA QueueStep == TypeOK /\ QueueInv /\ [Next]_vars => QueueInv'
<1> SUFFICES ASSUME TypeOK, QueueInv, [Next]_vars PROVE QueueInv'
  OBVIOUS
<1> USE DEF QueueInv
<1>1. ASSUME NEW c \in Cmds, Send(c) PROVE QueueInv'
  <2>1. /\ Len(queue') = Len(queue) + 1
        /\ \A i \in 1 .. Len(queue) : queue'[i] = queue[i]
        /\ queue'[Len(queue) + 1] = c
    BY <1>1, AppendProperties DEF Send, TypeOK
  <2>2. \A i \in 1 .. Len(queue) : queue[i] \in Cmds /\ queue[i] # c
    BY <1>1, ElementOfSeq DEF Send, TypeOK
  <2>3. pc'[c] = "queued" /\ \A d \in Cmds \ {c} : pc'[d] = pc[d]
    BY <1>1 DEF Send, Goto, TypeOK
  <2>4. Len(queue) \in Nat
    BY LenProperties DEF TypeOK
  <2> QED
    BY <2>1, <2>2, <2>3, <2>4
<1>2. ASSUME NEW w \in Workers, WorkerTakes(w) PROVE QueueInv'
  <2>1. /\ Len(queue') = Len(queue) - 1
        /\ \A i \in 1 .. Len(queue') : queue'[i] = queue[i + 1]
    BY <1>2, HeadTailProperties DEF WorkerTakes, TypeOK
  <2>2. Head(queue) = queue[1] /\ Len(queue) \in Nat \ {0}
    BY <1>2 DEF WorkerTakes, TypeOK
  <2>3. \A i \in 1 .. Len(queue') : queue[i + 1] \in Cmds /\ queue[i + 1] # Head(queue)
    BY <2>1, <2>2, ElementOfSeq DEF TypeOK
  <2>4. \A d \in Cmds \ {Head(queue)} : pc'[d] = pc[d]
    BY <1>2 DEF WorkerTakes, Dispatch, Goto, TypeOK
  <2>5. \A i \in 1 .. Len(queue') : i + 1 \in 1 .. Len(queue)
    BY <2>1, <2>2
  <2>6. \A i \in 1 .. Len(queue') : pc'[queue'[i]] = "queued"
    BY <2>1, <2>3, <2>4, <2>5
  <2>7. \A i, j \in 1 .. Len(queue') : queue'[i] = queue'[j] => i = j
    BY <2>1, <2>5
  <2> QED
    BY <2>6, <2>7
<1>3. ASSUME UNCHANGED queue,
             \A c \in Cmds : pc[c] = "queued" => pc'[c] = "queued"
      PROVE  QueueInv'
  BY <1>3, ElementOfSeq DEF TypeOK
<1>4. ASSUME NEW c \in Cmds, Submit(c), ~Send(c) PROVE QueueInv'
  BY <1>3, <1>4 DEF Submit, ExecuteCall, QueueCall, QueueAllow, Route, CancelSend,
     Goto, TypeOK
<1>5. ASSUME NEW c \in Cmds, Execute(c) PROVE QueueInv'
  BY <1>3, <1>5 DEF Execute, ExecuteReadsBreaker, ExecuteAllow, ExecuteLookup,
     HandleReturns, Goto, TypeOK
<1>6. ASSUME Configure \/ Stop \/ UNCHANGED vars
             \/ \E w \in Workers : WorkerLoops(w) \/ WorkerStops(w)
      PROVE  QueueInv'
  BY <1>3, <1>6 DEF Configure, SetWorkers, StartWorkers, RegisterDomain,
     SetCircuitBreaker, BreakerTrips, BreakerCloses, Stop, StopCall, StopJoined,
     StopTimesOut, WorkerLoops, WorkerStops, vars
<1> QED
  BY <1>1, <1>2, <1>4, <1>5, <1>6 DEF Next, Worker

\* A worker takes a Command from the channel, where nobody holds it, and lets
\* go of it only when Execute has returned.
LEMMA WorkerStep ==
  TypeOK /\ QueueInv /\ WorkerInv /\ PoolInv /\ [Next]_vars => WorkerInv'
<1> SUFFICES ASSUME TypeOK, QueueInv, WorkerInv, PoolInv, [Next]_vars PROVE WorkerInv'
  OBVIOUS
<1> USE EngineAssumption DEF WorkerInv, Held, InExecute, Terminal
<1>1. ASSUME NEW w \in Workers, WorkerTakes(w) PROVE WorkerInv'
  <2>1. Head(queue) \in Cmds /\ pc[Head(queue)] = "queued"
    BY <1>1 DEF WorkerTakes, TypeOK, QueueInv
  <2>2. \A v \in Workers : cur[v] # Head(queue)
    BY <2>1
  <2>3. cur' = [cur EXCEPT ![w] = Head(queue)] /\ wstate' = [wstate EXCEPT ![w] = "busy"]
    BY <1>1 DEF WorkerTakes, Dispatch
  <2>4. pc' = [pc EXCEPT ![Head(queue)] = "execute"]
    BY <1>1 DEF WorkerTakes, Dispatch, Goto
  <2> QED
    BY <2>1, <2>2, <2>3, <2>4 DEF TypeOK
<1>2. ASSUME NEW w \in Workers, WorkerLoops(w) \/ WorkerStops(w) PROVE WorkerInv'
  BY <1>2 DEF WorkerLoops, WorkerStops, TypeOK
<1>3. ASSUME UNCHANGED <<cur, wstate>>,
             \A c \in Cmds : pc[c] \in Held => pc'[c] \in Held
      PROVE  WorkerInv'
  BY <1>3 DEF TypeOK
<1>4. ASSUME NEW c \in Cmds, Submit(c) PROVE WorkerInv'
  BY <1>3, <1>4 DEF Submit, ExecuteCall, QueueCall, QueueAllow, Route, Send, CancelSend,
     Goto, TypeOK, poolVars
<1>5. ASSUME NEW c \in Cmds, Execute(c) PROVE WorkerInv'
  BY <1>3, <1>5 DEF Execute, ExecuteReadsBreaker, ExecuteAllow, ExecuteLookup,
     HandleReturns, Goto, TypeOK, poolVars
<1>6. CASE StartWorkers
  <2>1. PICK W \in SUBSET Workers :
          wstate' = [w \in Workers |-> IF w \in W THEN "loop" ELSE wstate[w]]
    BY <1>6 DEF StartWorkers
  <2>2. \A w \in Workers : wstate[w] = "off"
    BY <1>6 DEF StartWorkers, PoolInv
  <2> QED
    BY <1>6, <2>1, <2>2 DEF StartWorkers, TypeOK
<1>7. ASSUME (Configure /\ ~StartWorkers) \/ Stop \/ UNCHANGED vars PROVE WorkerInv'
  BY <1>3, <1>7 DEF Configure, SetWorkers, RegisterDomain,
     SetCircuitBreaker, BreakerTrips, BreakerCloses, Stop, StopCall, StopJoined,
     StopTimesOut, vars, poolVars
<1> QED
  BY <1>1, <1>2, <1>4, <1>5, <1>6, <1>7 DEF Next, Worker, Configure

\* A Command joins shut on entering Execute under an open breaker; the two
\* reads that follow find it open, or the Command has left shut.
LEMMA ShutStep == TypeOK /\ ShutInv /\ QueueInv /\ [Next]_vars => ShutInv'
<1> SUFFICES ASSUME TypeOK, ShutInv, QueueInv, [Next]_vars PROVE ShutInv'
  OBVIOUS
<1> USE DEF ShutInv, TypeOK, Goto, EnterExecute, poolVars, historyVars
<1>1. CASE Configure
  BY <1>1 DEF Configure, SetWorkers, StartWorkers, RegisterDomain, SetCircuitBreaker,
     BreakerTrips, BreakerCloses
<1>2. ASSUME NEW c \in Cmds, Submit(c) PROVE ShutInv'
  <2>1. CASE ExecuteCall(c)
    BY <2>1 DEF ExecuteCall
  <2>2. CASE QueueCall(c)
    BY <2>2 DEF QueueCall, Route
  <2>3. CASE QueueAllow(c)
    BY <2>3 DEF QueueAllow, Route
  <2>4. CASE Send(c) \/ CancelSend(c)
    BY <2>4 DEF Send, CancelSend
  <2> QED
    BY <1>2, <2>1, <2>2, <2>3, <2>4 DEF Submit
<1>3. ASSUME NEW c \in Cmds, Execute(c) PROVE ShutInv'
  BY <1>3 DEF Execute, ExecuteReadsBreaker, ExecuteAllow, ExecuteLookup, HandleReturns
<1>4. ASSUME NEW w \in Workers, WorkerTakes(w) PROVE ShutInv'
  <2>1. Head(queue) \in Cmds /\ pc[Head(queue)] = "queued"
    BY <1>4 DEF WorkerTakes, QueueInv
  <2> QED
    BY <1>4, <2>1 DEF WorkerTakes, Dispatch
<1>5. ASSUME \/ Stop \/ UNCHANGED vars
             \/ \E w \in Workers : WorkerLoops(w) \/ WorkerStops(w)
      PROVE  ShutInv'
  BY <1>5 DEF Stop, StopCall, StopJoined, StopTimesOut, WorkerLoops, WorkerStops, vars
<1> QED
  BY <1>1, <1>2, <1>3, <1>4, <1>5 DEF Next, Worker

\* Only StartWorkers spawns workers, and only StopWorkers joins them.
LEMMA PoolStep == TypeOK /\ PoolInv /\ [Next]_vars => PoolInv'
<1> SUFFICES ASSUME TypeOK, PoolInv, [Next]_vars PROVE PoolInv'
  OBVIOUS
<1> USE DEF PoolInv, TypeOK, WorkerState
<1>1. CASE Configure
  BY <1>1 DEF Configure, SetWorkers, StartWorkers, RegisterDomain, SetCircuitBreaker,
     BreakerTrips, BreakerCloses, poolVars
<1>2. ASSUME NEW c \in Cmds, Submit(c) \/ Execute(c) PROVE PoolInv'
  BY <1>2 DEF Submit, ExecuteCall, QueueCall, QueueAllow, Route, Send, CancelSend,
     Execute, ExecuteReadsBreaker, ExecuteAllow, ExecuteLookup, HandleReturns, poolVars
<1>3. ASSUME NEW w \in Workers, Worker(w) PROVE PoolInv'
  BY <1>3 DEF Worker, WorkerTakes, Dispatch, WorkerLoops, WorkerStops
<1>4. CASE Stop
  BY <1>4 DEF Stop, StopCall, StopJoined, StopTimesOut
<1>5. CASE UNCHANGED vars
  BY <1>5 DEF vars, poolVars
<1> QED
  BY <1>1, <1>2, <1>3, <1>4, <1>5 DEF Next

-----------------------------------------------------------------------------
(* The invariants.                                                         *)

\* The strengthening is an invariant of every behaviour of the Engine.
THEOREM Inductive == Spec => []IInv
<1>1. Init => IInv
  <2> SUFFICES ASSUME Init PROVE IInv
    OBVIOUS
  <2>0. <<>> \in Seq(Cmds)
    BY EmptySeq
  <2>1. TypeOK
    BY <2>0, EngineAssumption DEF Init, TypeOK, WorkerState, PC
  <2>2. ChannelFifo
    BY DEF Init, ChannelFifo
  <2>3. QueueInv /\ ShutInv /\ PoolInv
    BY DEF Init, QueueInv, ShutInv, PoolInv
  <2>4. WorkerInv
    BY DEF Init, WorkerInv
  <2> QED
    BY <2>1, <2>2, <2>3, <2>4 DEF IInv
<1>2. IInv /\ [Next]_vars => IInv'
  BY TypeStep, FifoStep, QueueStep, WorkerStep, ShutStep, PoolStep DEF IInv
<1> QED
  BY <1>1, <1>2, PTL DEF Spec

\* Engine's state keeps its types.
THEOREM TypeCorrect == Spec => []TypeOK
BY Inductive, PTL DEF IInv

\* No Command is lost, repeated or reordered between Queue and workerLoop.
THEOREM FifoCorrect == Spec => []ChannelFifo
BY Inductive, PTL DEF IInv

\* No Command is dispatched by two goroutines.
THEOREM OneDispatcherCorrect == Spec => []OneDispatcher
<1>1. IInv => OneDispatcher
  <2> SUFFICES ASSUME IInv, NEW w \in Workers, cur[w] # None
               PROVE  /\ \A v \in Workers : cur[v] = cur[w] => v = w
                      /\ \A i \in DOMAIN queue : queue[i] # cur[w]
    BY DEF OneDispatcher
  <2>1. DOMAIN queue = 1 .. Len(queue)
    BY LenProperties DEF IInv, TypeOK
  <2>2. pc[cur[w]] # "queued"
    BY DEF IInv, WorkerInv, Held, InExecute, Terminal
  <2> QED
    BY <2>1, <2>2 DEF IInv, WorkerInv, QueueInv
<1> QED
  BY <1>1, Inductive, PTL

\* An open breaker keeps Commands from their Domain.
THEOREM BreakerCorrect == Spec => []OpenBreakerHolds
<1>1. IInv => OpenBreakerHolds
  BY DEF IInv, ShutInv, OpenBreakerHolds
<1> QED
  BY <1>1, Inductive, PTL

\* A StopWorkers that returned in time left no worker in a Domain's Handle.
THEOREM StopCorrect == Spec => []JoinedMeansQuiet
<1>1. IInv => JoinedMeansQuiet
  BY DEF IInv, PoolInv, WorkerInv, JoinedMeansQuiet
<1> QED
  BY <1>1, Inductive, PTL

-----------------------------------------------------------------------------
(* Engine implements CommandBus.                                           *)

busStatus == [c \in Cmds |-> StatusAt(pc[c])]

\* What each program counter of the Engine is to a caller.
LEMMA Labels ==
  /\ StatusAt("idle") = "new" /\ StatusAt("queueAllow") = "new" /\ StatusAt("send") = "new"
  /\ StatusAt("queued") = "waiting"
  /\ StatusAt("execute") = "claimed" /\ StatusAt("allow") = "claimed"
  /\ StatusAt("lookup") = "claimed"
  /\ StatusAt("handling") = "running"
  /\ StatusAt("ok") = "done" /\ StatusAt("failed") = "done"
  /\ StatusAt("blocked") = "refused" /\ StatusAt("noDomain") = "refused"
  /\ StatusAt("cancelled") = "refused"
BY Zenon DEF StatusAt

\* A step that moves one Command's program counter moves that Command's status.
LEMMA StatusMoves ==
  ASSUME TypeOK, NEW c \in Cmds, NEW label, Goto(c, label)
  PROVE  /\ Bus!Move(c, StatusAt(pc[c]), StatusAt(label))
         /\ StatusAt(pc[c]) = StatusAt(label) => UNCHANGED busStatus
<1>1. /\ pc'[c] = label
      /\ \A d \in Cmds \ {c} : pc'[d] = pc[d]
  BY DEF Goto, TypeOK
<1> QED
  BY <1>1 DEF busStatus, Bus!Move

\* Each action is one action of CommandBus or leaves the bus alone.
LEMMA BusStep == TypeOK /\ QueueInv /\ [Next]_vars => [Bus!Next]_(Bus!busVars)
<1> SUFFICES ASSUME TypeOK, QueueInv, [Next]_vars
             PROVE  Bus!Next \/ UNCHANGED <<queue, busStatus>>
  BY DEF Bus!busVars, busStatus
<1>1. ASSUME UNCHANGED <<queue, pc>> PROVE UNCHANGED <<queue, busStatus>>
  BY <1>1 DEF busStatus
<1>2. ASSUME NEW c \in Cmds, Send(c) PROVE Bus!Accept(c)
  BY <1>2, StatusMoves, Labels DEF Send, Bus!Accept
<1>3. ASSUME NEW c \in Cmds, Submit(c), ~Send(c)
      PROVE  Bus!ClaimDirect(c) \/ Bus!Refuse(c) \/ UNCHANGED <<queue, busStatus>>
  <2>1. CASE ExecuteCall(c)
    BY <2>1, StatusMoves, Labels DEF ExecuteCall, Bus!ClaimDirect
  <2>2. CASE QueueCall(c)
    BY <2>2, StatusMoves, Labels DEF QueueCall, Route, Bus!ClaimDirect
  <2>3. CASE QueueAllow(c)
    BY <2>3, StatusMoves, Labels
       DEF QueueAllow, Route, Bus!ClaimDirect, Bus!Refuse
  <2>4. CASE CancelSend(c)
    BY <2>4, StatusMoves, Labels DEF CancelSend, Bus!Refuse
  <2> QED
    BY <1>3, <2>1, <2>2, <2>3, <2>4 DEF Submit
<1>4. ASSUME NEW c \in Cmds, Execute(c)
      PROVE  Bus!Refuse(c) \/ Bus!Run(c) \/ Bus!Finish(c) \/ UNCHANGED <<queue, busStatus>>
  <2>1. CASE ExecuteReadsBreaker(c)
    BY <2>1, StatusMoves, Labels DEF ExecuteReadsBreaker
  <2>2. CASE ExecuteAllow(c)
    BY <2>2, StatusMoves, Labels DEF ExecuteAllow, Bus!Refuse
  <2>3. CASE ExecuteLookup(c)
    BY <2>3, StatusMoves, Labels
       DEF ExecuteLookup, Bus!Refuse, Bus!Run
  <2>4. CASE HandleReturns(c)
    BY <2>4, StatusMoves, Labels DEF HandleReturns, Bus!Finish
  <2> QED
    BY <1>4, <2>1, <2>2, <2>3, <2>4 DEF Execute
<1>5. ASSUME NEW w \in Workers, WorkerTakes(w) PROVE Bus!ClaimOldest(Head(queue))
  <2>1. Head(queue) \in Cmds /\ pc[Head(queue)] = "queued"
    BY <1>5 DEF WorkerTakes, TypeOK, QueueInv
  <2> QED
    BY <1>5, <2>1, StatusMoves, Labels
       DEF WorkerTakes, Dispatch, Bus!ClaimOldest
<1>6. ASSUME \/ Configure \/ Stop \/ UNCHANGED vars
             \/ \E w \in Workers : WorkerLoops(w) \/ WorkerStops(w)
      PROVE  UNCHANGED <<queue, pc>>
  BY <1>6 DEF Configure, SetWorkers, StartWorkers, RegisterDomain, SetCircuitBreaker,
     BreakerTrips, BreakerCloses, Stop, StopCall, StopJoined, StopTimesOut, WorkerLoops,
     WorkerStops, vars
<1>7. \A w \in Workers : WorkerTakes(w) => Head(queue) \in Cmds
  BY DEF WorkerTakes, TypeOK
<1> QED
  BY <1>1, <1>2, <1>3, <1>4, <1>5, <1>6, <1>7 DEF Next, Worker, Bus!Next

\* Whatever the Engine does, its callers see a CommandBus.
THEOREM BusCorrect == Spec => ImplementsBus
<1>1. Init => Bus!Init
  BY Labels DEF Init, Bus!Init
<1>2. IInv /\ [Next]_vars => [Bus!Next]_(Bus!busVars)
  BY BusStep DEF IInv
<1> QED
  BY <1>1, <1>2, Inductive, PTL DEF Spec, ImplementsBus, Bus!Spec
=============================================================================
