----------------------------- MODULE CommandBus -----------------------------
(***************************************************************************)
(* What core/engine promises its callers, with the worker pool, the        *)
(* channel and the circuit breaker abstracted away: a Command is either    *)
(* refused, or claimed exactly once and then run at most once; Commands    *)
(* that wait are claimed in the order they were accepted.                  *)
(***************************************************************************)
EXTENDS Sequences

CONSTANT Cmds

VARIABLES
  backlog,  \* the accepted Commands nobody has claimed, oldest first
  status    \* [Cmds -> Status]

busVars == <<backlog, status>>

Status == {"new", "waiting", "claimed", "running", "done", "refused"}

Move(c, from, to) ==
  /\ status[c] = from
  /\ status' = [status EXCEPT ![c] = to]

Accept(c) == Move(c, "new", "waiting") /\ backlog' = Append(backlog, c)

ClaimDirect(c) == Move(c, "new", "claimed") /\ UNCHANGED backlog

ClaimOldest(c) ==
  /\ backlog # <<>>
  /\ c = Head(backlog)
  /\ Move(c, "waiting", "claimed")
  /\ backlog' = Tail(backlog)

Refuse(c) ==
  /\ Move(c, "new", "refused") \/ Move(c, "claimed", "refused")
  /\ UNCHANGED backlog

Run(c) == Move(c, "claimed", "running") /\ UNCHANGED backlog

Finish(c) == Move(c, "running", "done") /\ UNCHANGED backlog

Init ==
  /\ backlog = <<>>
  /\ status = [c \in Cmds |-> "new"]

Next ==
  \E c \in Cmds :
    \/ Accept(c)
    \/ ClaimDirect(c)
    \/ ClaimOldest(c)
    \/ Refuse(c)
    \/ Run(c)
    \/ Finish(c)

Spec == Init /\ [][Next]_busVars
=============================================================================
