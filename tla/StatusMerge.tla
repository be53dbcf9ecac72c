----------------------------- MODULE StatusMerge -----------------------------
(***************************************************************************)
(* What a Build status write promises: it takes effect on the status as it *)
(* then is, in one step, at most once -- and exactly once if it reports    *)
(* success.                                                                *)
(***************************************************************************)
EXTENDS BuildConditions

CONSTANTS
  Writers,
  Requests  \* the writes they make, a subset of Writes

VARIABLES
  status,  \* the persisted status
  call,    \* [Writers -> {"none", "open", "ok", "error"}]
  write    \* [Writers -> Requests], the latest write of each writer

mergeVars == <<status, call, write>>

Begin(w, o) ==
  /\ call[w] # "open"
  /\ call' = [call EXCEPT ![w] = "open"]
  /\ write' = [write EXCEPT ![w] = o]
  /\ UNCHANGED status

\* The writer may learn of it, or only see an error.
Commit(w) ==
  /\ call[w] = "open"
  /\ status' = Apply(write[w], status)
  /\ \E answer \in {"ok", "error"} : call' = [call EXCEPT ![w] = answer]
  /\ UNCHANGED write

GiveUp(w) ==
  /\ call[w] = "open"
  /\ call' = [call EXCEPT ![w] = "error"]
  /\ UNCHANGED <<status, write>>

Init ==
  /\ status = NoStatus
  /\ call = [w \in Writers |-> "none"]
  /\ write \in [Writers -> Requests]

Next == \E w \in Writers : (\E o \in Requests : Begin(w, o)) \/ Commit(w) \/ GiveUp(w)

Spec == Init /\ [][Next]_mergeVars
=============================================================================
