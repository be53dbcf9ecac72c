----------------------------- MODULE ObjectCache -----------------------------
(***************************************************************************)
(* The external cache of resolved contracts: a reconcile publishes what it *)
(* resolved field by field under keys that hold the object's name and      *)
(* generation, readers get one or two fields, a delete event invalidates   *)
(* all keys of the object, and entries expire.                             *)
(*                                                                         *)
(* One kind is cached at a time, and only the fields that one typed getter *)
(* reads are kept: every call of the backend is about one key, so the      *)
(* others would change nothing.                                            *)
(***************************************************************************)
EXTENDS Naturals, FiniteSets, FiniteSetsExt, Contracts

CONSTANTS
  Names,          \* of the objects, as sequences of characters
  Changing,       \* those that are edited, deleted, created again, reconciled
                  \* and read; the others' fields are in the cache from the start
  Setups,         \* what is cached and where: the kind, the backend, the fields of
                  \* the getter that is watched (the probe), and whether an object
                  \* is handled by one worker at a time (serial)
  Variants,       \* the contracts tried, each with its kind
  MaxChanges,     \* bound on edits, deletions and creations
  MaxFaults       \* bound on calls of the backend that fail

ASSUME ObjectCacheAssumption == Changing \subseteq Names /\ MaxChanges \in Nat

\* The setups are of the program's kinds, backends and getters, a contract has the
\* fields its resolver looks at.
ASSUME SetupAssumption ==
  /\ \A s \in Setups : /\ s.kind \in Kinds /\ s.backend \in {"redis", "memcached", "noop"}
                       /\ s.probe \in Helpers[s.kind] /\ s.serial \in BOOLEAN
  /\ \A v \in Variants : DOMAIN v.contract = Fields[v.kind]
  /\ MaxFaults \in Nat

VARIABLES
  kind, backend, probe, serial,  \* the setup
  object,         \* name -> its incarnation, generation, contract, and phase
  entries,        \* key -> the incarnation and generation it was resolved from
  publish,        \* name -> the PublishResolved call in progress
  scan,           \* name -> the DelPrefix in progress: keys left to delete
  reader,         \* the getter in progress, or the last one
  changes, faults

vars == <<kind, backend, probe, serial, object, entries, publish, scan, reader, changes, faults>>
config == <<kind, backend, probe, serial>>

Nothing == [from |-> "nothing"]
Idle == [state |-> "idle"]

Trials(k) == {v.contract : v \in {w \in Variants : w.kind = k}}

Key == [name : Names, gen : 1..(MaxChanges + 1), field : probe]

\* Mutant: the generation is left out of the key.
KeyByName(n, gen, f) == [name |-> n, gen |-> 1, field |-> f]

\* ObjectCache.key.
KeyOf(n, gen, f) == [name |-> n, gen |-> gen, field |-> f]

\* Mutant: the prefix does not end after the name.
UnderName(n, k) == SubSeq(k.name, 1, Len(n)) = n

\* ObjectCache.prefix ends in a colon, which no name holds.
UnderPrefix(n, k) == k.name = n

\* Every kind's cache is made with a ttl of 0, which is replaced by an hour;
\* to the backends a ttl of 0 means that an entry stays.
NewObjectCache(ttl) == IF ttl <= 0 THEN 1 ELSE ttl
Ttl == NewObjectCache(0)

Init ==
  /\ \E s \in Setups :
       kind = s.kind /\ backend = s.backend /\ probe = s.probe /\ serial = s.serial
  /\ \E c \in Trials(kind) :
       object = [n \in Names |->
                   [inc |-> 1, gen |-> 1, contract |-> c, phase |-> "live"]]
  /\ entries = [k \in Key |->
       IF k.name \notin Changing /\ k.gen = 1 /\ backend # "noop"
         THEN [from |-> "resolution", inc |-> 1, gen |-> 1] ELSE Nothing]
  /\ publish = [n \in Names |-> Idle]
  /\ scan = [n \in Names |-> Idle]
  /\ reader = Idle
  /\ changes = 0
  /\ faults = 0

----------------------------------------------------------------------------
(* The objects: their spec is edited, they are deleted, and created again   *)
(* under their old name, whose generation starts at one again.              *)

Edit(n) ==
  /\ object[n].phase = "live" /\ changes < MaxChanges
  /\ \E c \in Trials(kind) :
       object' = [object EXCEPT ![n].gen = @ + 1, ![n].contract = c]
  /\ changes' = changes + 1
  /\ UNCHANGED <<config, entries, publish, scan, reader, faults>>

Delete(n) ==
  /\ object[n].phase = "live" /\ changes < MaxChanges
  /\ object' = [object EXCEPT ![n].phase = "deleting"]
  /\ changes' = changes + 1
  /\ UNCHANGED <<config, entries, publish, scan, reader, faults>>

\* The name is free once Invalidate has returned nil.
Recreate(n) ==
  /\ object[n].phase = "gone" /\ changes < MaxChanges
  /\ \E c \in Trials(kind) :
       object' = [object EXCEPT ![n] = [inc |-> object[n].inc + 1, gen |-> 1,
                                        contract |-> c, phase |-> "live"]]
  /\ changes' = changes + 1
  /\ UNCHANGED <<config, entries, publish, scan, reader, faults>>

----------------------------------------------------------------------------
(* Publishing: the fields resolved from the contract as it was read, one    *)
(* Set each. A failed Set is recorded and the others go on; only            *)
(* SetSecretStore leaves out its second field when the first has failed.    *)

\* The fields from the first on that the probe reads: to set the others is to do
\* nothing.
Relevant(fields) ==
  LET read == {i \in DOMAIN fields : fields[i] \in probe}
  IN  IF read = {} THEN <<>> ELSE SubSeq(fields, Min(read), Len(fields))

\* The call with these fields left to set; it returns when the probe reads none.
Writing(call, fields) ==
  IF Relevant(fields) = <<>> THEN Idle ELSE [call EXCEPT !.todo = Relevant(fields)]

CallFor(n, fields) ==
  Writing([state |-> "writing", inc |-> object[n].inc, gen |-> object[n].gen, todo |-> <<>>],
          fields)

Resolved(n) ==
  /\ Resolves(kind, object[n].contract)
  /\ publish' = [publish EXCEPT ![n] =
       CallFor(n, PublishResolved(kind, object[n].contract))]

Observed(n) ==
  /\ kind = "domain"
  /\ \E certificate, mapping \in BOOLEAN :
       publish' = [publish EXCEPT ![n] = CallFor(n, PublishStatus(certificate, mapping))]

StartPublish(n) ==
  /\ object[n].phase = "live" /\ publish[n] = Idle
  /\ Resolved(n) \/ Observed(n)
  /\ UNCHANGED <<config, object, entries, scan, reader, changes, faults>>

\* Mutant: the no-op backend keeps what it is given.
SetFieldAnyway(n) ==
  /\ publish[n] # Idle
  /\ entries' = [entries EXCEPT ![KeyOf(n, publish[n].gen, Head(publish[n].todo))] =
                   [from |-> "resolution", inc |-> publish[n].inc, gen |-> publish[n].gen]]
  /\ publish' = [publish EXCEPT ![n] = Writing(publish[n], Tail(publish[n].todo))]
  /\ UNCHANGED <<config, object, scan, reader, changes, faults>>

SetField(n) ==
  /\ publish[n] # Idle
  /\ entries' =
       IF backend = "noop" THEN entries
       ELSE [entries EXCEPT ![KeyOf(n, publish[n].gen, Head(publish[n].todo))] =
               [from |-> "resolution", inc |-> publish[n].inc, gen |-> publish[n].gen]]
  /\ publish' = [publish EXCEPT ![n] = Writing(publish[n], Tail(publish[n].todo))]
  /\ UNCHANGED <<config, object, scan, reader, changes, faults>>

AfterFailure(todo) ==
  SubSeq(todo, IF Head(todo) = "secretStoreProvider" THEN 3 ELSE 2, Len(todo))

SetFails(n) ==
  /\ publish[n] # Idle
  /\ backend # "noop" /\ faults < MaxFaults
  /\ publish' = [publish EXCEPT ![n] = Writing(publish[n], AfterFailure(publish[n].todo))]
  /\ faults' = faults + 1
  /\ UNCHANGED <<config, object, entries, scan, reader, changes>>

----------------------------------------------------------------------------
(* Invalidate: Redis scans the keys under the object's prefix and deletes   *)
(* them one by one, up to the first error; a key set during the scan may be *)
(* met or missed. The other backends do nothing and return nil.             *)

Invalidate(n) ==
  /\ object[n].phase = "deleting" /\ scan[n] = Idle
  /\ serial => publish[n] = Idle
  /\ scan' = [scan EXCEPT ![n] =
       [state |-> "scanning",
        todo |-> IF backend = "redis"
                   THEN {k \in Key : UnderPrefix(n, k) /\ entries[k] # Nothing}
                   ELSE {}]]
  /\ UNCHANGED <<config, object, entries, publish, reader, changes, faults>>

DeleteScanned(n) ==
  /\ scan[n] # Idle
  /\ \E k \in scan[n].todo :
       /\ entries' = [entries EXCEPT ![k] = Nothing]
       /\ scan' = [scan EXCEPT ![n].todo = @ \ {k}]
  /\ UNCHANGED <<config, object, publish, reader, changes, faults>>

MeetNewKey(n) ==
  /\ scan[n] # Idle
  /\ \E k \in Key :
       /\ backend = "redis" /\ UnderPrefix(n, k)
       /\ entries[k] # Nothing /\ k \notin scan[n].todo
       /\ scan' = [scan EXCEPT ![n].todo = @ \cup {k}]
  /\ UNCHANGED <<config, object, entries, publish, reader, changes, faults>>

\* The error is returned: the deletion is tried again.
ScanFails(n) ==
  /\ scan[n] # Idle /\ backend = "redis" /\ faults < MaxFaults
  /\ scan' = [scan EXCEPT ![n] = Idle]
  /\ faults' = faults + 1
  /\ UNCHANGED <<config, object, entries, publish, reader, changes>>

EndInvalidate(n) ==
  /\ scan[n] # Idle /\ scan[n].todo = {}
  /\ scan' = [scan EXCEPT ![n] = Idle]
  /\ object' = [object EXCEPT ![n].phase = "gone"]
  /\ UNCHANGED <<config, entries, publish, reader, changes, faults>>

Expire(k) ==
  /\ Ttl > 0 /\ entries[k] # Nothing
  /\ entries' = [entries EXCEPT ![k] = Nothing]
  /\ UNCHANGED <<config, object, publish, scan, reader, changes, faults>>

----------------------------------------------------------------------------
(* Readers: a typed getter reads its fields of the generation it was asked  *)
(* for, one Get each; with a missing field or an error it is a miss.        *)

StartRead(n) ==
  /\ reader = Idle /\ object[n].phase = "live"
  /\ reader' = [state |-> "reading", name |-> n, inc |-> object[n].inc,
                gen |-> object[n].gen, todo |-> probe, got |-> {}]
  /\ UNCHANGED <<config, object, entries, publish, scan, changes, faults>>

Found(f) == entries[KeyOf(reader.name, reader.gen, f)]

GetField ==
  /\ reader # Idle
  /\ \E f \in reader.todo :
       reader' = IF Found(f) = Nothing \/ reader.todo = {f} THEN Idle
                 ELSE [reader EXCEPT !.todo = @ \ {f}, !.got = @ \cup {Found(f)}]
  /\ UNCHANGED <<config, object, entries, publish, scan, changes, faults>>

\* What the getter returns when its last field is found.
Hit ==
  IF reader # Idle /\ reader' = Idle
    THEN {e \in reader.got \cup {Found(f) : f \in reader.todo} :
            Nothing \notin {Found(f) : f \in reader.todo}}
    ELSE {}

Next ==
  \/ \E n \in Changing :
       \/ Edit(n) \/ Delete(n) \/ Recreate(n)
       \/ StartPublish(n) \/ SetField(n) \/ SetFails(n)
       \/ Invalidate(n) \/ DeleteScanned(n) \/ MeetNewKey(n) \/ ScanFails(n)
       \/ EndInvalidate(n) \/ StartRead(n)
  \/ \E k \in Key : Expire(k)
  \/ GetField

Spec == Init /\ [][Next]_vars

----------------------------------------------------------------------------
(* Calls are about incarnations and generations there have been, an        *)
(* Invalidate belongs to a deleted object, and the no-op backend is empty.  *)
TypeOK ==
  /\ kind \in Kinds /\ backend \in {"redis", "memcached", "noop"}
  /\ probe \in Helpers[kind] /\ serial \in BOOLEAN
  /\ \A n \in Names :
       /\ object[n].inc \in 1..(MaxChanges + 1) /\ object[n].gen \in 1..(MaxChanges + 1)
       /\ DOMAIN object[n].contract = Fields[kind]
       /\ object[n].phase \in {"live", "deleting", "gone"}
       /\ publish[n] # Idle =>
            /\ publish[n].inc \in 1..object[n].inc
            /\ publish[n].todo # <<>> /\ Head(publish[n].todo) \in probe
       /\ scan[n] # Idle => object[n].phase = "deleting" /\ scan[n].todo \subseteq Key
  /\ \A k \in Key : entries[k] # Nothing =>
       entries[k].inc \in 1..object[k.name].inc /\ backend # "noop"
  /\ reader # Idle => reader.gen <= MaxChanges + 1 /\ reader.todo # {}
  /\ changes \in 0..MaxChanges /\ faults \in 0..MaxFaults

(* A hit is never older than the object that was asked for: it was resolved *)
(* at the generation in its key, and where Invalidate can find the keys and *)
(* nothing publishes meanwhile, not from an earlier object of that name,    *)
(* whose generations started at one, too.                                   *)
HitIsOwn ==
  [][\A e \in Hit : /\ e.gen = reader.gen
                    /\ serial /\ backend = "redis" => e.inc >= reader.inc]_vars

(* An Invalidate that returns nil has dropped every entry of the deleted    *)
(* object that was there when it began, and no Invalidate, whatever fails,  *)
(* drops an entry of another object: names may begin alike.                 *)
InvalidateDropsOwn ==
  [][/\ \A n \in Names :
          scan[n] # Idle /\ object'[n].phase = "gone" /\ backend = "redis" /\ serial =>
            \A k \in Key : k.name = n => entries'[k] = Nothing
     /\ \A n \in Names : scan'[n] # scan[n] =>
            \A k \in Key : k.name # n => entries'[k] = entries[k]]_vars
=============================================================================
