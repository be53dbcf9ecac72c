---------------------------- MODULE MCObjectCache ----------------------------
(***************************************************************************)
(* Two objects, the name of one of which begins like the other's. Of the   *)
(* contracts that differ from a complete one in one field, one stands for  *)
(* all that resolve alike and publish the same of the watched fields.      *)
(***************************************************************************)
EXTENDS ObjectCache

MCNames == {<<"a">>, <<"a", "b">>}
MCChanging == {<<"a">>}

Special(f) == IF f = "type" THEN {"static", "build", "supplychain"}
              ELSE IF f = "secretStore" THEN {"vault"} ELSE {}

Complete(k) ==
  [f \in Fields[k] |-> IF f = "type" THEN "static" ELSE "ok"]

NearlyComplete(k) ==
  {[Complete(k) EXCEPT ![f] = s] : f \in Fields[k], s \in Shapes}
    \cup UNION {{[Complete(k) EXCEPT ![f] = s] : s \in Special(f)} : f \in Fields[k]}

Outcome(k, fields, c) ==
  IF Resolves(k, c) THEN SelectSeq(PublishResolved(k, c), LAMBDA f : f \in fields)
  ELSE <<"refused">>

\* The watched getter of each kind: the one of two fields, and of the other
\* kinds one whose field some contracts lead to and others do not.
MCWatched ==
  [environment |-> {"secretStoreProvider", "secretStoreName"},
   build |-> {"serviceAccount"}, deployment |-> {"gitOwner"},
   serviceunit |-> {"buildRef"}, packages |-> {"stateRepo"},
   githubevent |-> {"webhook"}, gitrepository |-> {"webhooks"},
   domain |-> {"certificateRefName"}, route |-> {"serviceUnitRefName"}]

MCVariants ==
  UNION {{[kind |-> k,
           contract |-> CHOOSE c \in NearlyComplete(k) : Outcome(k, MCWatched[k], c) = o] :
            o \in {Outcome(k, MCWatched[k], c) : c \in NearlyComplete(k)}} :
           k \in Kinds}

Watched(k, b, s) == [kind |-> k, backend |-> b, probe |-> MCWatched[k], serial |-> s]

\* Every kind behind Redis, one of them with workers that handle an object at
\* the same time, and one behind the other backends.
MCSetups ==
  {Watched(k, "redis", TRUE) : k \in Kinds}
    \cup {Watched("environment", "redis", FALSE)}
    \cup {Watched("environment", b, TRUE) : b \in {"memcached", "noop"}}
=============================================================================
