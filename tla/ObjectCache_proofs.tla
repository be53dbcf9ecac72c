-------------------------- MODULE ObjectCache_proofs --------------------------
(***************************************************************************)
(* What the cache of resolved contracts promises its readers, proved for   *)
(* any kinds, contracts, names, backends and numbers of changes and        *)
(* failing calls.                                                          *)
(***************************************************************************)
EXTENDS ObjectCache, FiniteSetTheorems, WellFoundedInduction, TLAPS

\* Where Invalidate can find the keys of an object, and nothing publishes to it
\* meanwhile.
Guarded == serial /\ backend = "redis"

SetupInv == changes \in 0..MaxChanges

ObjectInv ==
  /\ object \in [Names -> [inc : Nat, gen : 1..(MaxChanges + 1), contract : Trials(kind),
                           phase : {"live", "deleting", "gone"}]]
  /\ \A n \in Names : object[n].gen <= changes + 1

\* A publication is of the object as it is, where objects have one worker: it
\* ends before an Invalidate begins.
PublishInv ==
  /\ DOMAIN publish = Names
  /\ \A n \in Names : publish[n] # Idle =>
       /\ publish[n] = [state |-> "writing", inc |-> publish[n].inc,
                        gen |-> publish[n].gen, todo |-> publish[n].todo]
       /\ serial => publish[n].inc = object[n].inc /\ object[n].phase # "gone"

\* An entry has the generation of its key, and where the cache is guarded it
\* is the present object's.
EntryInv ==
  /\ DOMAIN entries = Key
  /\ \A k \in Key : entries[k] # Nothing =>
       /\ entries[k].gen = k.gen
       /\ Guarded => /\ entries[k].inc = object[k.name].inc
                     /\ object[k.name].phase # "gone"

\* A scan only has keys of its object left, and where the cache is guarded all
\* those that have an entry.
ScanInv ==
  /\ DOMAIN scan = Names
  /\ \A n \in Names : scan[n] # Idle =>
       /\ scan[n] = [state |-> "scanning", todo |-> scan[n].todo]
       /\ object[n].phase = "deleting"
       /\ serial => publish[n] = Idle
       /\ \A k \in scan[n].todo : k \in Key /\ k.name = n
       /\ Guarded => \A k \in Key : k.name = n /\ entries[k] # Nothing => k \in scan[n].todo

\* What a getter has read so far is what it may return.
Own(e) == e.gen = reader.gen /\ (Guarded => e.inc >= reader.inc)

ReaderInv ==
  reader # Idle =>
    /\ DOMAIN reader = {"state", "name", "inc", "gen", "todo", "got"}
    /\ reader.name \in Names /\ reader.gen \in 1..(MaxChanges + 1)
    /\ reader.inc \in Nat /\ reader.inc <= object[reader.name].inc
    /\ reader.todo \subseteq probe
    /\ \A e \in reader.got : Own(e)

IInv == SetupInv /\ ObjectInv /\ PublishInv /\ EntryInv /\ ScanInv /\ ReaderInv

----------------------------------------------------------------------------
\* What a getter finds under one of its keys it may return.
LEMMA FoundOwn ==
  ASSUME IInv, reader # Idle, NEW f \in reader.todo, Found(f) # Nothing
  PROVE  Own(Found(f))
<1> DEFINE k == KeyOf(reader.name, reader.gen, f)
<1>1. k \in Key /\ k.name = reader.name /\ k.gen = reader.gen
  BY DEF IInv, ReaderInv, KeyOf, Key
<1>2. Found(f) = entries[k]
  BY DEF Found
<1>3. entries[k].gen = reader.gen
  BY <1>1, <1>2 DEF IInv, EntryInv
<1>4. Guarded => entries[k].inc >= reader.inc
  <2>1. Guarded => entries[k].inc = object[reader.name].inc
    BY <1>1, <1>2 DEF IInv, EntryInv
  <2>2. object[reader.name].inc >= reader.inc
    BY DEF IInv, ReaderInv, ObjectInv
  <2> QED
    BY <2>1, <2>2
<1> QED
  BY <1>2, <1>3, <1>4 DEF Own

\* Writing ends a call or leaves it what it was, with other fields to set.
LEMMA WritingKeeps ==
  ASSUME NEW inc, NEW gen, NEW old, NEW todo,
         NEW call, call = [state |-> "writing", inc |-> inc, gen |-> gen, todo |-> old],
         Writing(call, todo) # Idle
  PROVE  Writing(call, todo) = [state |-> "writing", inc |-> inc, gen |-> gen,
                                todo |-> Relevant(todo)]
BY DEF Writing

----------------------------------------------------------------------------
\* An empty cache, or one with the entries of objects that do not change.
LEMMA InitInv == Init => IInv
<1> SUFFICES ASSUME Init PROVE IInv
  OBVIOUS
<1> USE ObjectCacheAssumption
<1>1. SetupInv
  BY DEF Init, SetupInv
<1>2. ObjectInv
  BY DEF Init, ObjectInv
<1>3. PublishInv
  BY DEF Init, PublishInv
<1>4. EntryInv
  <2>1. DOMAIN entries = Key
    BY DEF Init
  <2>2. \A k \in Key : entries[k] # Nothing =>
          entries[k] = [from |-> "resolution", inc |-> 1, gen |-> 1] /\ k.gen = 1
    BY DEF Init
  <2>3. \A k \in Key : object[k.name].inc = 1 /\ object[k.name].phase = "live"
    BY DEF Init, Key
  <2> QED
    BY <2>1, <2>2, <2>3 DEF EntryInv
<1>5. ScanInv
  BY DEF Init, ScanInv
<1>6. ReaderInv
  BY DEF Init, ReaderInv
<1> QED
  BY <1>1, <1>2, <1>3, <1>4, <1>5, <1>6 DEF IInv

----------------------------------------------------------------------------
(* The objects change. An edit leaves everything else as it was; a deletion *)
(* allows an Invalidate; a creation finds no entry where the cache is       *)
(* guarded, because the Invalidate has ended before.                        *)

\* An edit keeps the object's incarnation, so its entries stay its own.
LEMMA EditInv == ASSUME IInv, NEW n \in Changing, Edit(n) PROVE IInv'
<1> USE ObjectCacheAssumption DEF IInv, Guarded, config
<1>1. PICK c \in Trials(kind) :
        object' = [object EXCEPT ![n].gen = @ + 1, ![n].contract = c]
  BY DEF Edit
<1>2. /\ UNCHANGED <<kind, backend, probe, serial, entries, publish, scan, reader>>
      /\ changes < MaxChanges /\ changes' = changes + 1
  BY DEF Edit
<1>3. ObjectInv' /\ SetupInv'
  BY <1>1, <1>2 DEF ObjectInv, SetupInv, Trials
<1>4. \A m \in Names : object'[m].inc = object[m].inc /\ object'[m].phase = object[m].phase
  BY <1>1 DEF ObjectInv
<1>5. PublishInv' /\ ScanInv' /\ EntryInv'
  BY <1>2, <1>4 DEF PublishInv, ScanInv, EntryInv, Key
<1>6. ReaderInv'
  BY <1>2, <1>4 DEF ReaderInv, Own
<1> QED
  BY <1>3, <1>5, <1>6

\* A deletion takes nothing away yet.
LEMMA DeleteInv == ASSUME IInv, NEW n \in Changing, Delete(n) PROVE IInv'
<1> USE ObjectCacheAssumption DEF IInv, Guarded, config
<1>1. /\ object' = [object EXCEPT ![n].phase = "deleting"] /\ object[n].phase = "live"
      /\ UNCHANGED <<kind, backend, probe, serial, entries, publish, scan, reader>>
      /\ changes < MaxChanges /\ changes' = changes + 1
  BY DEF Delete
<1>2. ObjectInv' /\ SetupInv'
  BY <1>1 DEF ObjectInv, SetupInv, Trials
<1>3. \A m \in Names :
        /\ object'[m].inc = object[m].inc
        /\ object[m].phase # "gone" => object'[m].phase # "gone"
        /\ object[m].phase = "deleting" => object'[m].phase = "deleting"
  BY <1>1 DEF ObjectInv
<1>4. PublishInv' /\ ScanInv' /\ EntryInv'
  BY <1>1, <1>3 DEF PublishInv, ScanInv, EntryInv, Key
<1>5. ReaderInv'
  BY <1>1, <1>3 DEF ReaderInv, Own
<1> QED
  BY <1>2, <1>4, <1>5

\* A new incarnation: where the cache is guarded no entry of the old one is left.
LEMMA RecreateInv == ASSUME IInv, NEW n \in Changing, Recreate(n) PROVE IInv'
<1> USE ObjectCacheAssumption DEF IInv, Guarded, config
<1>1. PICK c \in Trials(kind) :
        object' = [object EXCEPT ![n] = [inc |-> object[n].inc + 1, gen |-> 1,
                                         contract |-> c, phase |-> "live"]]
  BY DEF Recreate
<1>2. /\ UNCHANGED <<kind, backend, probe, serial, entries, publish, scan, reader>>
      /\ changes < MaxChanges /\ changes' = changes + 1 /\ object[n].phase = "gone"
  BY DEF Recreate
<1>3. ObjectInv' /\ SetupInv'
  BY <1>1, <1>2 DEF ObjectInv, SetupInv, Trials
<1>4. \A m \in Names : object[m].phase # "gone" => object'[m] = object[m]
  BY <1>1, <1>2
<1>5. PublishInv' /\ ScanInv' /\ EntryInv'
  <2>1. PublishInv'
    BY <1>2, <1>4 DEF PublishInv
  <2>2. ScanInv'
    BY <1>2, <1>4 DEF ScanInv, Key
  <2>3. EntryInv'
    BY <1>2, <1>4 DEF EntryInv, Key
  <2> QED
    BY <2>1, <2>2, <2>3
<1>6. \A m \in Names : object'[m].inc \in Nat /\ object'[m].inc >= object[m].inc
  BY <1>1 DEF ObjectInv
<1>7. ReaderInv'
  BY <1>2, <1>6 DEF ReaderInv, ObjectInv, Own
<1> QED
  BY <1>3, <1>5, <1>7

----------------------------------------------------------------------------
(* Publishing. A call keeps the incarnation and generation it was made for, *)
(* and so do the entries it sets.                                           *)

\* What a step does to publish, and how it leaves each call.
LEMMA PublishStep ==
  ASSUME IInv, NEW n \in Changing, NEW todo, publish[n] # Idle,
         publish' = [publish EXCEPT ![n] = Writing(publish[n], todo)],
         UNCHANGED <<object, serial>>
  PROVE  PublishInv' /\ (\A m \in Names : publish[m] = Idle => publish'[m] = Idle)
<1> USE ObjectCacheAssumption
<1>1. n \in Names /\ DOMAIN publish = Names
  BY DEF IInv, PublishInv
<1>2. /\ publish[n] = [state |-> "writing", inc |-> publish[n].inc,
                       gen |-> publish[n].gen, todo |-> publish[n].todo]
      /\ serial => publish[n].inc = object[n].inc /\ object[n].phase # "gone"
  BY <1>1 DEF IInv, PublishInv
<1>3. publish'[n] = Writing(publish[n], todo)
  BY <1>1
<1>4. publish'[n] # Idle =>
        publish'[n] = [state |-> "writing", inc |-> publish[n].inc,
                       gen |-> publish[n].gen, todo |-> Relevant(todo)]
  BY <1>2, <1>3, WritingKeeps
<1>5. publish'[n] # Idle =>
        /\ publish'[n] = [state |-> "writing", inc |-> publish'[n].inc,
                          gen |-> publish'[n].gen, todo |-> publish'[n].todo]
        /\ publish'[n].inc = publish[n].inc
  BY <1>4
<1>6. \A m \in Names : m # n => publish'[m] = publish[m]
  BY <1>1
<1>7. DOMAIN publish' = Names
  BY <1>1
<1>8. PublishInv'
  BY <1>2, <1>5, <1>6, <1>7 DEF IInv, PublishInv
<1> QED
  BY <1>6, <1>8

\* A publication is made for the object as it is.
LEMMA StartPublishInv == ASSUME IInv, NEW n \in Changing, StartPublish(n) PROVE IInv'
<1> USE ObjectCacheAssumption DEF Guarded, config
<1>1. PICK fields : publish' = [publish EXCEPT ![n] = CallFor(n, fields)]
  BY DEF StartPublish, Resolved, Observed
<1>2. /\ UNCHANGED <<kind, backend, probe, serial, object, entries, scan, reader, changes>>
      /\ object[n].phase = "live" /\ publish[n] = Idle
  BY DEF StartPublish
<1>3. n \in Names /\ DOMAIN publish = Names
  BY DEF IInv, PublishInv
<1>4. publish'[n] # Idle =>
        publish'[n] = [state |-> "writing", inc |-> object[n].inc, gen |-> object[n].gen,
                       todo |-> Relevant(fields)]
  BY <1>1, <1>3, WritingKeeps DEF CallFor
<1>5. publish'[n] # Idle =>
        /\ publish'[n] = [state |-> "writing", inc |-> publish'[n].inc,
                          gen |-> publish'[n].gen, todo |-> publish'[n].todo]
        /\ publish'[n].inc = object[n].inc
  BY <1>4
<1>6. \A m \in Names : m # n => publish'[m] = publish[m]
  BY <1>1, <1>3
<1>7. DOMAIN publish' = Names
  BY <1>1, <1>3
<1>8. PublishInv'
  BY <1>2, <1>5, <1>6, <1>7 DEF IInv, PublishInv
<1>9. scan[n] = Idle
  BY <1>2, <1>3 DEF IInv, ScanInv
<1>10. ScanInv'
  BY <1>2, <1>6, <1>9 DEF IInv, ScanInv, Key
<1>11. SetupInv' /\ ObjectInv' /\ EntryInv' /\ ReaderInv'
  BY <1>2 DEF IInv, SetupInv, ObjectInv, EntryInv, ReaderInv, Own, Key, Trials
<1> QED
  BY <1>8, <1>10, <1>11 DEF IInv

\* Nothing but publish and entries changes, and no entry of a scanned object
\* appears where an object has one worker.
LEMMA SetFieldInv == ASSUME IInv, NEW n \in Changing, SetField(n) PROVE IInv'
<1> USE ObjectCacheAssumption DEF Guarded, config
<1> DEFINE set == KeyOf(n, publish[n].gen, Head(publish[n].todo))
           value == [from |-> "resolution", inc |-> publish[n].inc, gen |-> publish[n].gen]
<1>1. /\ UNCHANGED <<kind, backend, probe, serial, object, scan, reader, changes>>
      /\ publish[n] # Idle
      /\ publish' = [publish EXCEPT ![n] = Writing(publish[n], Tail(publish[n].todo))]
      /\ entries' = entries \/ entries' = [entries EXCEPT ![set] = value]
  BY DEF SetField
<1> HIDE DEF value, set
<1>2. n \in Names
  BY DEF IInv
<1>3. PublishInv' /\ \A m \in Names : publish[m] = Idle => publish'[m] = Idle
  BY <1>1, PublishStep
<1>4. DOMAIN entries = Key /\ DOMAIN entries' = Key /\ Key' = Key
  BY <1>1 DEF IInv, EntryInv, Key
<1>5. set.name = n /\ set.gen = publish[n].gen /\ value # Nothing
      /\ value.inc = publish[n].inc /\ value.gen = publish[n].gen
  BY DEF set, value, KeyOf, Nothing
<1>6. \A k \in Key : entries'[k] = entries[k] \/ (k = set /\ entries'[k] = value)
  BY <1>1, <1>4
<1>7. serial => publish[n].inc = object[n].inc /\ object[n].phase # "gone"
  BY <1>1, <1>2 DEF IInv, PublishInv
<1>8. EntryInv'
  <2> SUFFICES ASSUME NEW k \in Key, entries'[k] # Nothing
               PROVE  /\ entries'[k].gen = k.gen
                      /\ Guarded => /\ entries'[k].inc = object[k.name].inc
                                    /\ object[k.name].phase # "gone"
    BY <1>1, <1>4 DEF EntryInv
  <2>1. CASE entries'[k] = entries[k]
    BY <2>1 DEF IInv, EntryInv
  <2>2. CASE k = set /\ entries'[k] = value
    BY <2>2, <1>5, <1>7
  <2> QED
    BY <2>1, <2>2, <1>6
<1>9. ScanInv'
  <2>1. serial => scan[n] = Idle
    BY <1>1, <1>2 DEF IInv, ScanInv
  <2>2. \A m \in Names, k \in Key : serial /\ k.name = m /\ scan[m] # Idle =>
          entries'[k] = entries[k]
    BY <2>1, <1>5, <1>6
  <2> SUFFICES ASSUME NEW m \in Names, scan[m] # Idle
               PROVE  /\ scan[m] = [state |-> "scanning", todo |-> scan[m].todo]
                      /\ object[m].phase = "deleting"
                      /\ serial => publish'[m] = Idle
                      /\ \A k \in scan[m].todo : k \in Key /\ k.name = m
                      /\ Guarded => \A k \in Key :
                           k.name = m /\ entries'[k] # Nothing => k \in scan[m].todo
    BY <1>1, <1>4 DEF IInv, ScanInv
  <2>3. /\ scan[m] = [state |-> "scanning", todo |-> scan[m].todo]
        /\ object[m].phase = "deleting"
        /\ serial => publish[m] = Idle
        /\ \A k \in scan[m].todo : k \in Key /\ k.name = m
        /\ Guarded => \A k \in Key :
             k.name = m /\ entries[k] # Nothing => k \in scan[m].todo
    BY DEF IInv, ScanInv
  <2> QED
    BY <2>2, <2>3, <1>3
<1>10. SetupInv' /\ ObjectInv' /\ ReaderInv'
  BY <1>1 DEF IInv, SetupInv, ObjectInv, ReaderInv, Own, Trials
<1> QED
  BY <1>3, <1>8, <1>9, <1>10 DEF IInv

\* A Set that fails leaves the cache as it was.
LEMMA SetFailsInv == ASSUME IInv, NEW n \in Changing, SetFails(n) PROVE IInv'
<1> USE ObjectCacheAssumption DEF Guarded, config
<1>1. /\ UNCHANGED <<kind, backend, probe, serial, object, entries, scan, reader, changes>>
      /\ publish[n] # Idle
      /\ publish' = [publish EXCEPT ![n] = Writing(publish[n], AfterFailure(publish[n].todo))]
  BY DEF SetFails
<1>2. PublishInv' /\ \A m \in Names : publish[m] = Idle => publish'[m] = Idle
  BY <1>1, PublishStep
<1>3. ScanInv'
  BY <1>1, <1>2 DEF IInv, ScanInv, Key
<1>4. SetupInv' /\ ObjectInv' /\ EntryInv' /\ ReaderInv'
  BY <1>1 DEF IInv, SetupInv, ObjectInv, EntryInv, ReaderInv, Own, Key, Trials
<1> QED
  BY <1>2, <1>3, <1>4 DEF IInv

----------------------------------------------------------------------------
(* Invalidate. Only scan changes, but where a scanned key is deleted, and   *)
(* where the object goes.                                                   *)

\* A step that changes scan only.
LEMMA ScanStep ==
  ASSUME IInv, ScanInv',
         UNCHANGED <<kind, backend, probe, serial, object, entries, publish, reader, changes>>
  PROVE  IInv'
BY DEF IInv, SetupInv, ObjectInv, PublishInv, EntryInv, ReaderInv, Own, Key, Trials, Guarded

\* The scan begins with every key that has an entry.
LEMMA InvalidateInv == ASSUME IInv, NEW n \in Changing, Invalidate(n) PROVE IInv'
<1> USE ObjectCacheAssumption DEF Guarded, config
<1> DEFINE keys == IF backend = "redis"
                     THEN {k \in Key : UnderPrefix(n, k) /\ entries[k] # Nothing} ELSE {}
<1>1. /\ UNCHANGED <<kind, backend, probe, serial, object, entries, publish, reader, changes>>
      /\ object[n].phase = "deleting"
      /\ serial => publish[n] = Idle
      /\ scan' = [scan EXCEPT ![n] = [state |-> "scanning", todo |-> keys]]
  BY DEF Invalidate
<1>2. /\ \A k \in keys : k \in Key /\ k.name = n
      /\ Guarded => \A k \in Key : k.name = n /\ entries[k] # Nothing => k \in keys
  BY DEF UnderPrefix
<1> HIDE DEF keys
<1>3. Key' = Key /\ n \in Names /\ DOMAIN scan = Names
  BY <1>1 DEF Key, IInv, ScanInv
<1>4. scan'[n] = [state |-> "scanning", todo |-> keys]
      /\ \A m \in Names : m # n => scan'[m] = scan[m]
  BY <1>1, <1>3
<1>5. ScanInv'
  BY <1>1, <1>2, <1>3, <1>4 DEF IInv, ScanInv
<1> QED
  BY <1>1, <1>5, ScanStep

\* The scan meets a key that was set meanwhile.
LEMMA MeetNewKeyInv == ASSUME IInv, NEW n \in Changing, MeetNewKey(n) PROVE IInv'
<1> USE ObjectCacheAssumption DEF Guarded, config
<1>1. PICK k \in Key : k.name = n /\ scan' = [scan EXCEPT ![n].todo = @ \cup {k}]
  BY DEF MeetNewKey, UnderPrefix
<1>2. /\ UNCHANGED <<kind, backend, probe, serial, object, entries, publish, reader, changes>>
      /\ scan[n] # Idle
  BY DEF MeetNewKey
<1>3. Key' = Key /\ n \in Names /\ DOMAIN scan = Names
  BY <1>2 DEF Key, IInv, ScanInv
<1>4. scan[n] = [state |-> "scanning", todo |-> scan[n].todo]
  BY <1>2, <1>3 DEF IInv, ScanInv
<1>5. scan'[n] = [state |-> "scanning", todo |-> scan[n].todo \cup {k}]
      /\ \A m \in Names : m # n => scan'[m] = scan[m]
  BY <1>1, <1>3, <1>4
<1>6. scan'[n].todo = scan[n].todo \cup {k}
  BY <1>5
<1>7. DOMAIN scan' = Names
  BY <1>1, <1>3
<1>8. ScanInv'
  <2> SUFFICES ASSUME NEW m \in Names, scan'[m] # Idle
               PROVE  /\ scan'[m] = [state |-> "scanning", todo |-> scan'[m].todo]
                      /\ object[m].phase = "deleting"
                      /\ serial => publish[m] = Idle
                      /\ \A j \in scan'[m].todo : j \in Key /\ j.name = m
                      /\ Guarded => \A j \in Key :
                           j.name = m /\ entries[j] # Nothing => j \in scan'[m].todo
    BY <1>2, <1>3, <1>7 DEF ScanInv
  <2>1. scan[m] # Idle /\ scan[m].todo \subseteq scan'[m].todo
    BY <1>2, <1>5, <1>6
  <2>2. /\ scan[m] = [state |-> "scanning", todo |-> scan[m].todo]
        /\ object[m].phase = "deleting"
        /\ serial => publish[m] = Idle
        /\ \A j \in scan[m].todo : j \in Key /\ j.name = m
        /\ Guarded => \A j \in Key :
             j.name = m /\ entries[j] # Nothing => j \in scan[m].todo
    BY <2>1 DEF IInv, ScanInv
  <2>3. scan'[m] = [state |-> "scanning", todo |-> scan'[m].todo]
    BY <2>2, <1>5, <1>6
  <2>4. \A j \in scan'[m].todo : j \in Key /\ j.name = m
    BY <2>2, <1>1, <1>5, <1>6
  <2> QED
    BY <2>1, <2>2, <2>3, <2>4
<1> QED
  BY <1>2, <1>8, ScanStep

\* A scan that fails is given up; what it deleted stays deleted.
LEMMA ScanFailsInv == ASSUME IInv, NEW n \in Changing, ScanFails(n) PROVE IInv'
<1> USE ObjectCacheAssumption DEF Guarded, config
<1>1. /\ UNCHANGED <<kind, backend, probe, serial, object, entries, publish, reader, changes>>
      /\ scan' = [scan EXCEPT ![n] = Idle]
  BY DEF ScanFails
<1>2. Key' = Key
  BY <1>1 DEF Key
<1>3. ScanInv'
  BY <1>1, <1>2 DEF IInv, ScanInv
<1> QED
  BY <1>1, <1>3, ScanStep

\* An entry less.
LEMMA DropEntry ==
  ASSUME EntryInv, NEW k, entries' = [entries EXCEPT ![k] = Nothing],
         UNCHANGED <<probe, serial, backend, object>>
  PROVE  /\ EntryInv'
         /\ \A j \in Key : j # k => entries'[j] = entries[j]
         /\ \A j \in Key : entries'[j] # Nothing => entries'[j] = entries[j]
BY DEF EntryInv, Key, Guarded

\* A scanned key loses its entry.
LEMMA DeleteScannedInv == ASSUME IInv, NEW n \in Changing, DeleteScanned(n) PROVE IInv'
<1> USE ObjectCacheAssumption DEF Guarded, config
<1>1. PICK k \in scan[n].todo :
        /\ entries' = [entries EXCEPT ![k] = Nothing]
        /\ scan' = [scan EXCEPT ![n].todo = @ \ {k}]
  BY DEF DeleteScanned
<1>2. /\ UNCHANGED <<kind, backend, probe, serial, object, publish, reader, changes>>
      /\ scan[n] # Idle
  BY DEF DeleteScanned
<1>3. Key' = Key /\ n \in Names /\ DOMAIN scan = Names /\ DOMAIN entries = Key
  BY <1>2 DEF Key, IInv, ScanInv, EntryInv
<1>4. scan[n] = [state |-> "scanning", todo |-> scan[n].todo] /\ k \in Key
  BY <1>2, <1>3 DEF IInv, ScanInv
<1>5. /\ EntryInv'
      /\ \A j \in Key : entries'[j] # Nothing => entries'[j] = entries[j]
  BY <1>1, <1>2, DropEntry DEF IInv
<1>6. entries'[k] = Nothing
  BY <1>1, <1>3, <1>4
<1>7. scan'[n] = [state |-> "scanning", todo |-> scan[n].todo \ {k}]
      /\ \A m \in Names : m # n => scan'[m] = scan[m]
  BY <1>1, <1>3, <1>4
<1>8. scan'[n].todo = scan[n].todo \ {k} /\ DOMAIN scan' = Names
  BY <1>1, <1>3, <1>7
<1>9. ScanInv'
  BY <1>2, <1>3, <1>5, <1>6, <1>7, <1>8 DEF IInv, ScanInv
<1>10. SetupInv' /\ ObjectInv' /\ PublishInv' /\ ReaderInv'
  BY <1>2 DEF IInv, SetupInv, ObjectInv, PublishInv, ReaderInv, Own, Trials
<1> QED
  BY <1>5, <1>9, <1>10 DEF IInv

\* An entry expires.
LEMMA ExpireInv == ASSUME IInv, NEW k \in Key, Expire(k) PROVE IInv'
<1> USE ObjectCacheAssumption DEF Guarded, config
<1>1. /\ entries' = [entries EXCEPT ![k] = Nothing]
      /\ UNCHANGED <<kind, backend, probe, serial, object, publish, scan, reader, changes>>
  BY DEF Expire
<1>2. /\ EntryInv'
      /\ \A j \in Key : entries'[j] # Nothing => entries'[j] = entries[j]
  BY <1>1, DropEntry DEF IInv
<1>3. ScanInv'
  BY <1>1, <1>2 DEF IInv, ScanInv, Key
<1>4. SetupInv' /\ ObjectInv' /\ PublishInv' /\ ReaderInv'
  BY <1>1 DEF IInv, SetupInv, ObjectInv, PublishInv, ReaderInv, Own, Trials
<1> QED
  BY <1>2, <1>3, <1>4 DEF IInv

\* Where the cache is guarded nothing of the object is left when it goes.
LEMMA EndInvalidateInv == ASSUME IInv, NEW n \in Changing, EndInvalidate(n) PROVE IInv'
<1> USE ObjectCacheAssumption DEF Guarded, config
<1>1. /\ UNCHANGED <<kind, backend, probe, serial, entries, publish, reader, changes>>
      /\ scan[n] # Idle /\ scan[n].todo = {}
      /\ scan' = [scan EXCEPT ![n] = Idle]
      /\ object' = [object EXCEPT ![n].phase = "gone"]
  BY DEF EndInvalidate
<1>2. Key' = Key /\ n \in Names /\ DOMAIN scan = Names
  BY <1>1 DEF Key, IInv, ScanInv
<1>3. \A m \in Names : object'[m].inc = object[m].inc /\ (m # n => object'[m] = object[m])
  BY <1>1 DEF IInv, ObjectInv
<1>4. SetupInv' /\ ObjectInv'
  BY <1>1 DEF IInv, SetupInv, ObjectInv, Trials
<1>5. serial => publish[n] = Idle
  BY <1>1, <1>2 DEF IInv, ScanInv
<1>6. PublishInv'
  BY <1>1, <1>3, <1>5 DEF IInv, PublishInv
<1>7. Guarded => \A k \in Key : k.name = n => entries[k] = Nothing
  BY <1>1, <1>2 DEF IInv, ScanInv
<1>8. \A k \in Key : k.name \in Names
  BY DEF Key
<1>9. EntryInv'
  BY <1>1, <1>2, <1>3, <1>7, <1>8 DEF IInv, EntryInv
<1>10. ScanInv'
  BY <1>1, <1>2, <1>3 DEF IInv, ScanInv
<1>11. ReaderInv'
  BY <1>1, <1>3 DEF IInv, ReaderInv, Own
<1> QED
  BY <1>4, <1>6, <1>9, <1>10, <1>11 DEF IInv

----------------------------------------------------------------------------
(* Reading changes the reader only.                                         *)

\* A step that changes reader only.
LEMMA ReadStep ==
  ASSUME IInv, ReaderInv',
         UNCHANGED <<kind, backend, probe, serial, object, entries, publish, scan, changes>>
  PROVE  IInv'
BY DEF IInv, SetupInv, ObjectInv, PublishInv, EntryInv, ScanInv, Key, Trials, Guarded

\* A getter begins with all its fields to read, and nothing read.
LEMMA StartReadInv == ASSUME IInv, NEW n \in Changing, StartRead(n) PROVE IInv'
<1> USE ObjectCacheAssumption DEF Guarded, config
<1>1. /\ UNCHANGED <<kind, backend, probe, serial, object, entries, publish, scan, changes>>
      /\ reader' = [state |-> "reading", name |-> n, inc |-> object[n].inc,
                    gen |-> object[n].gen, todo |-> probe, got |-> {}]
  BY DEF StartRead
<1>2. n \in Names /\ object[n].inc \in Nat /\ object[n].gen \in 1..(MaxChanges + 1)
  BY DEF IInv, ObjectInv
<1>3. ReaderInv'
  BY <1>1, <1>2 DEF ReaderInv, Own
<1> QED
  BY <1>1, <1>3, ReadStep

\* A getter takes what it may return, or is done.
LEMMA GetFieldInv == ASSUME IInv, GetField PROVE IInv'
<1> USE DEF Guarded, config
<1>1. /\ UNCHANGED <<kind, backend, probe, serial, object, entries, publish, scan, changes>>
      /\ reader # Idle
  BY DEF GetField
<1>2. PICK f \in reader.todo :
        reader' = IF Found(f) = Nothing \/ reader.todo = {f} THEN Idle
                  ELSE [reader EXCEPT !.todo = @ \ {f}, !.got = @ \cup {Found(f)}]
  BY DEF GetField
<1>3. CASE reader' = Idle
  BY <1>1, <1>3, ReadStep DEF ReaderInv
<1>4. CASE reader' # Idle
  <2>1. Found(f) # Nothing
        /\ reader' = [reader EXCEPT !.todo = @ \ {f}, !.got = @ \cup {Found(f)}]
    BY <1>2, <1>4
  <2>2. Own(Found(f))
    BY <1>1, <2>1, FoundOwn
  <2>3. DOMAIN reader = {"state", "name", "inc", "gen", "todo", "got"}
    BY <1>1 DEF IInv, ReaderInv
  <2>4. DOMAIN reader' = {"state", "name", "inc", "gen", "todo", "got"}
    BY <2>1, <2>3
  <2>5. /\ reader'.name = reader.name /\ reader'.inc = reader.inc
        /\ reader'.gen = reader.gen /\ reader'.todo = reader.todo \ {f}
        /\ reader'.got = reader.got \cup {Found(f)}
    BY <2>1, <2>3
  <2>6. \A e \in reader'.got : e.gen = reader'.gen /\ (Guarded => e.inc >= reader'.inc)
    BY <2>2, <2>5, <1>1 DEF IInv, ReaderInv, Own
  <2>7. ReaderInv'
    BY <1>1, <2>4, <2>5, <2>6 DEF IInv, ReaderInv, Own
  <2> QED
    BY <1>1, <2>7, ReadStep
<1> QED
  BY <1>3, <1>4

----------------------------------------------------------------------------
\* Each step keeps the invariant.
LEMMA StepInv == IInv /\ [Next]_vars => IInv'
<1> SUFFICES ASSUME IInv, [Next]_vars PROVE IInv'
  OBVIOUS
<1>1. ASSUME NEW n \in Changing, Edit(n) \/ Delete(n) \/ Recreate(n) PROVE IInv'
  BY <1>1, EditInv, DeleteInv, RecreateInv
<1>2. ASSUME NEW n \in Changing, StartPublish(n) \/ SetField(n) \/ SetFails(n) PROVE IInv'
  BY <1>2, StartPublishInv, SetFieldInv, SetFailsInv
<1>3. ASSUME NEW n \in Changing,
             Invalidate(n) \/ DeleteScanned(n) \/ MeetNewKey(n) \/ ScanFails(n)
      PROVE  IInv'
  BY <1>3, InvalidateInv, DeleteScannedInv, MeetNewKeyInv, ScanFailsInv
<1>4. ASSUME NEW n \in Changing, EndInvalidate(n) \/ StartRead(n) PROVE IInv'
  BY <1>4, EndInvalidateInv, StartReadInv
<1>5. ASSUME NEW k \in Key, Expire(k) PROVE IInv'
  BY <1>5, ExpireInv
<1>6. CASE GetField
  BY <1>6, GetFieldInv
<1>7. CASE UNCHANGED vars
  BY <1>7 DEF vars, IInv, SetupInv, ObjectInv, PublishInv, EntryInv, ScanInv, ReaderInv,
     Own, Guarded, Key, Trials
<1> QED
  BY <1>1, <1>2, <1>3, <1>4, <1>5, <1>6, <1>7 DEF Next

(* What the cache holds belongs to the object of its key, and a scan misses *)
(* no entry, in every reachable state: of Set, Get, Invalidate, edits and   *)
(* creations in any order.                                                  *)
THEOREM Inductive == Spec => []IInv
BY InitInv, StepInv, PTL DEF Spec

(* GetField: a hit was resolved at the generation asked for, and where      *)
(* Invalidate finds the keys and nothing publishes meanwhile, from no       *)
(* earlier object of the name.                                              *)
THEOREM HitCorrect == Spec => HitIsOwn
<1> DEFINE A == \A e \in Hit : /\ e.gen = reader.gen
                               /\ serial /\ backend = "redis" => e.inc >= reader.inc
<1>1. IInv /\ [Next]_vars => [A]_vars
  <2> SUFFICES ASSUME IInv, NEW e \in Hit PROVE Own(e)
    BY DEF Own, Guarded
  <2>1. /\ reader # Idle
        /\ e \in reader.got \cup {Found(f) : f \in reader.todo}
        /\ Nothing \notin {Found(f) : f \in reader.todo}
    BY DEF Hit
  <2>2. CASE e \in reader.got
    BY <2>1, <2>2 DEF IInv, ReaderInv
  <2>3. CASE \E f \in reader.todo : e = Found(f)
    BY <2>1, <2>3, FoundOwn
  <2> QED
    BY <2>1, <2>2, <2>3
<1> QED
  BY <1>1, Inductive, PTL DEF Spec, HitIsOwn

(* ObjectCache.Invalidate, DelPrefix: nothing of the object is left when it *)
(* returns nil, and nothing of another object is ever dropped.              *)
THEOREM InvalidateCorrect == Spec => InvalidateDropsOwn
<1> DEFINE Drops(n) ==
             scan[n] # Idle /\ object'[n].phase = "gone" /\ backend = "redis" /\ serial =>
               \A k \in Key : k.name = n => entries'[k] = Nothing
           Spares(n) ==
             scan'[n] # scan[n] => \A k \in Key : k.name # n => entries'[k] = entries[k]
<1>1. ASSUME IInv, Next, NEW n \in Names PROVE Drops(n)
  <2> SUFFICES ASSUME scan[n] # Idle, object'[n].phase = "gone", Guarded
               PROVE  \A k \in Key : k.name = n => entries'[k] = Nothing
    BY DEF Guarded
  <2>1. object[n].phase = "deleting"
    BY <1>1 DEF IInv, ScanInv
  <2>2. object' # object
    BY <2>1
  <2>3. PICK m \in Changing : Edit(m) \/ Delete(m) \/ Recreate(m) \/ EndInvalidate(m)
    BY <1>1, <2>2 DEF Next, StartPublish, SetField, SetFails, Invalidate, DeleteScanned,
       MeetNewKey, ScanFails, StartRead, Expire, GetField
  <2>4. m = n
    BY <1>1, <2>1, <2>3 DEF Edit, Delete, Recreate, EndInvalidate, IInv, ObjectInv
  <2>5. EndInvalidate(n)
    BY <2>1, <2>3, <2>4 DEF Edit, Delete, Recreate
  <2>6. scan[n].todo = {} /\ UNCHANGED entries
    BY <2>5 DEF EndInvalidate
  <2> QED
    BY <1>1, <2>6 DEF IInv, ScanInv
<1>2. ASSUME IInv, Next, NEW n \in Names PROVE Spares(n)
  <2> SUFFICES ASSUME scan'[n] # scan[n], UNCHANGED entries => FALSE PROVE Spares(n)
    OBVIOUS
  <2>1. PICK m \in Changing : DeleteScanned(m)
    BY <1>2 DEF Next, Edit, Delete, Recreate, StartPublish, SetField, Invalidate, SetFails,
       MeetNewKey, ScanFails, EndInvalidate, StartRead, Expire, GetField
  <2>2. PICK k \in scan[m].todo :
          /\ entries' = [entries EXCEPT ![k] = Nothing]
          /\ scan' = [scan EXCEPT ![m].todo = @ \ {k}]
    BY <2>1 DEF DeleteScanned
  <2>3. m = n
    BY <1>2, <2>2 DEF IInv, ScanInv
  <2>4. k.name = n
    BY <1>2, <2>1, <2>3 DEF DeleteScanned, IInv, ScanInv
  <2> QED
    BY <1>2, <2>2, <2>4 DEF IInv, EntryInv
<1>3. IInv /\ [Next]_vars =>
        [(\A n \in Names : Drops(n)) /\ (\A n \in Names : Spares(n))]_vars
  BY <1>1, <1>2
<1> QED
  BY <1>3, Inductive, PTL DEF Spec, InvalidateDropsOwn

----------------------------------------------------------------------------
(* The types. They rest on the invariant above, on what the publishers      *)
(* publish and the getters read, and on entries being older than objects.   *)

\* The fields that the getters of a kind read.
Read(k) == UNION Helpers[k]

\* The least of some numbers is one of them.
LEMMA MinIn ==
  ASSUME NEW S \in SUBSET Nat, S # {}
  PROVE  Min(S) \in S
<1> DEFINE T == {0..i : i \in S}
           R == StrictSubsetOrdering(Nat)
<1>1. IsWellFoundedOn(R, FiniteSubsetsOf(Nat))
  BY FS_StrictSubsetOrderingWellFounded
<1>2. \A i \in Nat : 0..i \in FiniteSubsetsOf(Nat)
  BY FS_Interval DEF FiniteSubsetsOf
<1>3. T \subseteq FiniteSubsetsOf(Nat) /\ T # {}
  BY <1>2
<1> HIDE DEF R
<1>4. PICK x \in T : \A y \in T : <<y, x>> \notin R
  BY <1>1, <1>3, WFMin, Zenon
<1>5. PICK i \in S : x = 0..i
  OBVIOUS
<1>6. ASSUME NEW j \in S, j < i PROVE FALSE
  <2>1. 0..j \subseteq 0..i /\ i \in 0..i /\ i \notin 0..j
    BY <1>6
  <2>2. 0..j \in SUBSET Nat /\ 0..i \in SUBSET Nat /\ 0..j # 0..i
    BY <2>1
  <2>3. <<0..j, 0..i>> \in StrictSubsetOrdering(Nat)
    BY <2>1, <2>2, Zenon DEF StrictSubsetOrdering
  <2> QED
    BY <1>4, <1>5, <2>3 DEF R
<1>7. \A j \in S : i <= j
  BY <1>6
<1> QED
  BY <1>7 DEF Min

\* A call goes on with a field that the probe reads.
LEMMA RelevantRead ==
  ASSUME NEW S, NEW fields \in Seq(S), Relevant(fields) # <<>>
  PROVE  Relevant(fields) \in Seq(S) /\ Head(Relevant(fields)) \in probe
<1> DEFINE read == {i \in DOMAIN fields : fields[i] \in probe}
           m == Min(read)
<1>1. read # {} /\ Relevant(fields) = SubSeq(fields, m, Len(fields))
  BY DEF Relevant
<1>2. m \in read
  <2>1. read \in SUBSET Nat
    OBVIOUS
  <2> HIDE DEF read
  <2> QED
    BY <1>1, <2>1, MinIn
<1>3. m \in 1..Len(fields) /\ fields[m] \in probe /\ Len(fields) \in Nat
  BY <1>2
<1> HIDE DEF m
<1> DEFINE rest == SubSeq(fields, m, Len(fields))
<1>4. rest = [i \in 1..(Len(fields) - m + 1) |-> fields[m + i - 1]]
  BY <1>3
<1>5. Len(fields) - m + 1 \in Nat /\ 1 \in 1..(Len(fields) - m + 1)
  BY <1>3
<1>6. \A i \in 1..(Len(fields) - m + 1) : fields[m + i - 1] \in S
  BY <1>3
<1>7. rest \in Seq(S)
  BY <1>4, <1>5, <1>6
<1>8. rest[1] = fields[m]
  BY <1>3, <1>4, <1>5
<1> QED
  BY <1>1, <1>3, <1>7, <1>8

\* What is appended to fields of a set.
LEMMA Fielded ==
  ASSUME NEW S
  PROVE  /\ \A f \in S : \A c : IfOk(c, f) \in Seq(S)
         /\ \A a, b \in Seq(S) : a \o b \in Seq(S)
BY DEF IfOk

\* What a publisher sets, a getter reads.
LEMMA PublishedRead ==
  ASSUME NEW k \in Kinds, NEW c
  PROVE  PublishResolved(k, c) \in Seq(Read(k))
<1>1. CASE k = "environment"
  <2>1. /\ {"applicationName", "environmentType", "version", "secretStoreProvider",
            "secretStoreName", "build", "gitRepository", "gitHubEvent", "deployment",
            "route", "package", "serviceUnits"} \subseteq Read(k)
    <3>1. Read(k) = UNION EnvironmentHelpers
      BY <1>1 DEF Read, Helpers
    <3>2. {"applicationName", "environmentType", "version", "build", "gitRepository",
           "gitHubEvent", "deployment", "route", "package", "serviceUnits"}
             \subseteq UNION EnvironmentHelpers
      BY DEF EnvironmentHelpers
    <3>3. {"secretStoreProvider", "secretStoreName"} \in EnvironmentHelpers
      BY DEF EnvironmentHelpers
    <3> QED
      BY <3>1, <3>2, <3>3
  <2>2. PublishResolved(k, c) = PublishEnvironment(c)
    BY <1>1 DEF PublishResolved
  <2> QED
    BY <2>1, <2>2, Fielded DEF PublishEnvironment
<1>2. CASE k = "build"
  <2>1. /\ BuildFields \subseteq Read(k)
        /\ PublishResolved(k, c) = PublishBuild(c)
    BY <1>2 DEF Read, Helpers, BuildHelpers, PublishResolved, BuildFields
  <2> QED
    BY <2>1, Fielded DEF PublishBuild, BuildFields
<1>3. CASE k = "deployment"
  <2>1. /\ {"serviceUnits", "runtime", "strategy", "imageAutomation",
            "reconciliationStrategy", "gitOwner", "manifestsRepo"} \subseteq Read(k)
        /\ PublishResolved(k, c) = PublishDeployment(c)
    BY <1>3 DEF Read, Helpers, DeploymentHelpers, PublishResolved
  <2> QED
    BY <2>1, Fielded DEF PublishDeployment
<1>4. CASE k = "serviceunit"
  <2>1. /\ {"type", "image", "buildRef", "containerPort", "size", "appType",
            "stackType"} \subseteq Read(k)
        /\ PublishResolved(k, c) = PublishServiceUnit(c)
    BY <1>4 DEF Read, Helpers, ServiceUnitHelpers, PublishResolved
  <2> QED
    BY <2>1, Fielded DEF PublishServiceUnit
<1>5. CASE k = "packages"
  <2>1. /\ {"version", "packageRepository", "stateRepo", "kappDiff"} \subseteq Read(k)
        /\ PublishResolved(k, c) = PublishPackage(c)
    BY <1>5 DEF Read, Helpers, PackageHelpers, PublishResolved
  <2> QED
    BY <2>1, Fielded DEF PublishPackage
<1>6. CASE k = "githubevent"
  <2>1. /\ {"repository", "eventType", "ref", "webhook"} \subseteq Read(k)
        /\ PublishResolved(k, c) = PublishGitHubEvent(c)
    BY <1>6 DEF Read, Helpers, GitHubEventHelpers, PublishResolved
  <2> QED
    BY <2>1, Fielded DEF PublishGitHubEvent
<1>7. CASE k = "gitrepository"
  <2>1. /\ {"provider", "hookUrl", "repository", "webhooks"} \subseteq Read(k)
        /\ PublishResolved(k, c) = PublishGitRepository(c)
    BY <1>7 DEF Read, Helpers, GitRepositoryHelpers, PublishResolved
  <2> QED
    BY <2>1, Fielded DEF PublishGitRepository
<1>8. CASE k = "domain"
  <2>1. /\ {"host", "routeRef", "tlsStrategy", "mtlsEnforced", "renewBefore"} \subseteq Read(k)
        /\ PublishResolved(k, c) = PublishDomain(c)
    BY <1>8 DEF Read, Helpers, DomainHelpers, PublishResolved
  <2> QED
    BY <2>1, Fielded DEF PublishDomain
<1>9. CASE k = "route"
  <2>1. /\ {"host", "enabled", "path", "tlsEnabled", "runtime",
            "serviceUnitRefName"} \subseteq Read(k)
        /\ PublishResolved(k, c) = PublishRoute(c)
    BY <1>9 DEF Read, Helpers, RouteHelpers, PublishResolved
  <2> QED
    BY <2>1 DEF PublishRoute
<1> QED
  BY <1>1, <1>2, <1>3, <1>4, <1>5, <1>6, <1>7, <1>8, <1>9 DEF Kinds

\* A domain's status is read by its getters, too.
LEMMA StatusRead ==
  ASSUME NEW certificate \in BOOLEAN, NEW mapping \in BOOLEAN
  PROVE  PublishStatus(certificate, mapping) \in Seq(Read("domain"))
<1>1. {"domainReady", "certificateRefName", "certificateRefNamespace",
       "domainMappingRefName", "domainMappingRefNamespace"} \subseteq Read("domain")
  BY DEF Read, Helpers, DomainHelpers
<1> QED
  BY <1>1, Fielded DEF PublishStatus

\* A getter reads some field.
LEMMA ProbeReads ==
  ASSUME NEW k \in Kinds, NEW p \in Helpers[k]
  PROVE  p # {}
<1> DEFINE Some(helpers) == \A h \in helpers : h # {}
<1>1. \A S : Some({{f} : f \in S})
  OBVIOUS
<1>2. Some(EnvironmentHelpers)
  BY DEF EnvironmentHelpers
<1>3. Some(BuildHelpers) /\ Some(DeploymentHelpers) /\ Some(ServiceUnitHelpers)
  BY <1>1 DEF BuildHelpers, DeploymentHelpers, ServiceUnitHelpers
<1>4. Some(PackageHelpers) /\ Some(GitHubEventHelpers) /\ Some(GitRepositoryHelpers)
  BY <1>1 DEF PackageHelpers, GitHubEventHelpers, GitRepositoryHelpers
<1>5. Some(DomainHelpers) /\ Some(RouteHelpers)
  BY <1>1 DEF DomainHelpers, RouteHelpers
<1> HIDE DEF Some
<1>6. Some(Helpers[k])
  BY <1>2, <1>3, <1>4, <1>5 DEF Helpers, Kinds
<1> QED
  BY <1>6 DEF Some

\* The types of the state.
PublishType(n) ==
  publish[n] # Idle =>
    /\ publish[n].inc \in 1..object[n].inc
    /\ publish[n].todo \in Seq(Read(kind)) \ {<<>>}
    /\ Head(publish[n].todo) \in probe

EntryType(k) == entries[k] # Nothing => entries[k].inc \in 1..object[k.name].inc /\ backend # "noop"

TypeInv ==
  /\ kind \in Kinds /\ backend \in {"redis", "memcached", "noop"}
  /\ probe \in Helpers[kind] /\ serial \in BOOLEAN
  /\ faults \in 0..MaxFaults
  /\ \A n \in Names : object[n].inc \in 1..(changes + 1)
  /\ \A n \in Names : PublishType(n)
  /\ \A k \in Key : EntryType(k)
  /\ reader # Idle => reader.todo # {}

\* A call that goes on does so with a field that the probe reads.
LEMMA WritingType ==
  ASSUME NEW S, NEW fields \in Seq(S), NEW call, Writing(call, fields) # Idle,
         call = [state |-> "writing", inc |-> call.inc, gen |-> call.gen, todo |-> call.todo]
  PROVE  /\ Writing(call, fields).inc = call.inc
         /\ Writing(call, fields).todo \in Seq(S) \ {<<>>}
         /\ Head(Writing(call, fields).todo) \in probe
<1>1. Relevant(fields) # <<>>
  BY DEF Writing
<1>2. Writing(call, fields) = [call EXCEPT !.todo = Relevant(fields)]
  BY <1>1 DEF Writing
<1>3. Writing(call, fields).inc = call.inc /\ Writing(call, fields).todo = Relevant(fields)
  BY <1>2
<1> QED
  BY <1>1, <1>3, RelevantRead

\* What a step leaves alone.
LEMMA TypesStay ==
  ASSUME TypeInv, UNCHANGED <<config, object, entries, publish, changes>>,
         faults' \in 0..MaxFaults, reader' # Idle => reader'.todo # {}
  PROVE  TypeInv'
<1>1. UNCHANGED <<kind, backend, probe, serial>> /\ Key' = Key
  BY DEF config, Key
<1>2. ASSUME NEW n \in Names PROVE PublishType(n)'
  BY <1>1 DEF TypeInv, PublishType, Read
<1>3. ASSUME NEW k \in Key PROVE EntryType(k)'
  BY <1>1 DEF TypeInv, EntryType
<1> QED
  BY <1>1, <1>2, <1>3 DEF TypeInv

\* The incarnations of an object only grow.
LEMMA ObjectTypes ==
  ASSUME IInv, TypeInv, UNCHANGED <<config, entries, publish, reader, faults>>,
         changes' >= changes, changes' \in Nat,
         \A n \in Names : /\ object'[n].inc \in 1..(changes' + 1)
                          /\ object'[n].inc >= object[n].inc
  PROVE  TypeInv'
<1>1. UNCHANGED <<kind, backend, probe, serial>> /\ Key' = Key
  BY DEF config, Key
<1>2. \A n \in Names : 1..object[n].inc \subseteq 1..object'[n].inc
  BY ObjectCacheAssumption DEF IInv, SetupInv, ObjectInv
<1>3. ASSUME NEW n \in Names PROVE PublishType(n)'
  BY <1>1, <1>2 DEF TypeInv, PublishType, Read
<1>4. ASSUME NEW k \in Key PROVE EntryType(k)'
  <2>1. k.name \in Names
    BY DEF Key
  <2> QED
    BY <1>1, <1>2, <2>1 DEF TypeInv, EntryType
<1> QED
  BY <1>1, <1>3, <1>4 DEF TypeInv

\* A step of a publication: it ends, or goes on as it should.
LEMMA PublishTypes ==
  ASSUME IInv, TypeInv, NEW n \in Names, NEW call,
         publish' = [publish EXCEPT ![n] = call],
         call # Idle => /\ call.inc \in 1..object[n].inc
                        /\ call.todo \in Seq(Read(kind)) \ {<<>>}
                        /\ Head(call.todo) \in probe,
         UNCHANGED <<config, object, reader, changes>>, faults' \in 0..MaxFaults,
         \A k \in Key : EntryType(k)'
  PROVE  TypeInv'
<1>1. publish'[n] = call /\ \A m \in Names : m # n => publish'[m] = publish[m]
  BY DEF IInv, PublishInv
<1>2. \A m \in Names : PublishType(m)'
  BY <1>1 DEF TypeInv, PublishType, config, Read
<1> QED
  BY <1>2 DEF TypeInv, config, Key

\* A publication begins with fields of the kind's.
LEMMA StartPublishTypes ==
  ASSUME IInv, TypeInv, NEW n \in Names, StartPublish(n)
  PROVE  TypeInv'
<1>1. PICK fields \in Seq(Read(kind)) : publish' = [publish EXCEPT ![n] = CallFor(n, fields)]
  <2>1. CASE Resolved(n)
    BY <2>1, PublishedRead DEF Resolved, TypeInv
  <2>2. CASE Observed(n)
    BY <2>2, StatusRead DEF Observed
  <2> QED
    BY <2>1, <2>2 DEF StartPublish
<1>2. UNCHANGED <<config, object, entries, reader, changes, faults>>
  BY DEF StartPublish
<1> DEFINE call == CallFor(n, fields)
<1>3. call # Idle => /\ call.inc = object[n].inc
                     /\ call.todo \in Seq(Read(kind)) \ {<<>>}
                     /\ Head(call.todo) \in probe
  BY WritingType DEF CallFor
<1>4. object[n].inc \in 1..object[n].inc
  BY ObjectCacheAssumption DEF TypeInv, IInv, SetupInv
<1>5. \A k \in Key : EntryType(k)'
  BY <1>2 DEF TypeInv, EntryType, config, Key
<1>6. faults' \in 0..MaxFaults
  BY <1>2 DEF TypeInv
<1> HIDE DEF call
<1> QED
  BY <1>1, <1>2, <1>3, <1>4, <1>5, <1>6, PublishTypes DEF call

\* What is left of a publication after a field, or after one and those that its
\* failure leaves out.
LEMMA GoesOn ==
  ASSUME IInv, TypeInv, NEW n \in Names, publish[n] # Idle,
         NEW fields \in Seq(Read(kind)), Writing(publish[n], fields) # Idle
  PROVE  /\ Writing(publish[n], fields).inc = publish[n].inc
         /\ Writing(publish[n], fields).todo \in Seq(Read(kind)) \ {<<>>}
         /\ Head(Writing(publish[n], fields).todo) \in probe
<1>1. publish[n] = [state |-> "writing", inc |-> publish[n].inc,
                    gen |-> publish[n].gen, todo |-> publish[n].todo]
  BY DEF IInv, PublishInv
<1> QED
  BY <1>1, WritingType

\* A Set that succeeds: the entry is of the call's incarnation.
LEMMA SetFieldTypes ==
  ASSUME IInv, TypeInv, NEW n \in Names, SetField(n)
  PROVE  TypeInv'
<1> DEFINE set == KeyOf(n, publish[n].gen, Head(publish[n].todo))
           value == [from |-> "resolution", inc |-> publish[n].inc, gen |-> publish[n].gen]
           call == Writing(publish[n], Tail(publish[n].todo))
<1>1. /\ publish[n] # Idle
      /\ publish' = [publish EXCEPT ![n] = call]
      /\ entries' = IF backend = "noop" THEN entries ELSE [entries EXCEPT ![set] = value]
      /\ UNCHANGED <<config, object, scan, reader, changes, faults>>
  BY DEF SetField
<1>2. /\ publish[n].inc \in 1..object[n].inc
      /\ publish[n].todo \in Seq(Read(kind)) /\ publish[n].todo # <<>>
  BY <1>1 DEF TypeInv, PublishType
<1>3. Tail(publish[n].todo) \in Seq(Read(kind))
  BY <1>2
<1>4. call # Idle => /\ call.inc \in 1..object[n].inc
                     /\ call.todo \in Seq(Read(kind)) \ {<<>>}
                     /\ Head(call.todo) \in probe
  BY <1>1, <1>2, <1>3, GoesOn
<1>5. set.name = n /\ value.inc = publish[n].inc
  BY DEF KeyOf
<1>6. DOMAIN entries = Key
  BY DEF IInv, EntryInv
<1> HIDE DEF set, value, call
<1>7. \A k \in Key : \/ entries'[k] = entries[k]
                     \/ k = set /\ entries'[k] = value /\ backend # "noop"
  BY <1>1, <1>6
<1>8. \A k \in Key : EntryType(k)'
  BY <1>1, <1>2, <1>5, <1>7 DEF TypeInv, EntryType, config, Key
<1>9. faults' \in 0..MaxFaults
  BY <1>1 DEF TypeInv
<1> QED
  BY <1>1, <1>4, <1>8, <1>9, PublishTypes

\* A Set that fails.
LEMMA SetFailsTypes ==
  ASSUME IInv, TypeInv, NEW n \in Names, SetFails(n)
  PROVE  TypeInv'
<1> DEFINE call == Writing(publish[n], AfterFailure(publish[n].todo))
<1>1. /\ publish[n] # Idle /\ faults < MaxFaults /\ faults' = faults + 1
      /\ publish' = [publish EXCEPT ![n] = call]
      /\ UNCHANGED <<config, object, entries, scan, reader, changes>>
  BY DEF SetFails
<1>2. publish[n].inc \in 1..object[n].inc /\ publish[n].todo \in Seq(Read(kind))
  BY <1>1 DEF TypeInv, PublishType
<1>3. \A S : \A t \in Seq(S) : SubSeq(t, 2, Len(t)) \in Seq(S) /\ SubSeq(t, 3, Len(t)) \in Seq(S)
  OBVIOUS
<1>4. AfterFailure(publish[n].todo) \in Seq(Read(kind))
  BY <1>2, <1>3 DEF AfterFailure
<1>5. call # Idle => /\ call.inc \in 1..object[n].inc
                     /\ call.todo \in Seq(Read(kind)) \ {<<>>}
                     /\ Head(call.todo) \in probe
  BY <1>1, <1>2, <1>4, GoesOn
<1>6. \A k \in Key : EntryType(k)'
  BY <1>1 DEF TypeInv, EntryType, config, Key
<1>7. faults' \in 0..MaxFaults
  BY <1>1, SetupAssumption DEF TypeInv
<1> HIDE DEF call
<1> QED
  BY <1>1, <1>5, <1>6, <1>7, PublishTypes

\* An entry that is dropped.
LEMMA DropTypes ==
  ASSUME IInv, TypeInv, NEW key, entries' = [entries EXCEPT ![key] = Nothing],
         UNCHANGED <<config, object, publish, reader, changes, faults>>
  PROVE  TypeInv'
<1>1. \A k \in Key : entries'[k] = entries[k] \/ entries'[k] = Nothing
  BY DEF IInv, EntryInv
<1>2. \A k \in Key : EntryType(k)'
  BY <1>1 DEF TypeInv, EntryType, config, Key
<1> QED
  BY <1>2 DEF TypeInv, PublishType, config, Key, Read

\* Edits, deletions and creations.
LEMMA ChangeTypes ==
  ASSUME IInv, TypeInv, NEW n \in Changing, Edit(n) \/ Delete(n) \/ Recreate(n) \/ EndInvalidate(n)
  PROVE  TypeInv'
<1>1. n \in Names /\ changes \in Nat /\ \A m \in Names : object[m].inc \in 1..(changes + 1)
  BY ObjectCacheAssumption DEF IInv, SetupInv, TypeInv
<1>2. UNCHANGED <<config, entries, publish, reader, faults>>
  BY DEF Edit, Delete, Recreate, EndInvalidate
<1>3. changes' = changes + 1 \/ (changes' = changes /\ EndInvalidate(n))
  BY DEF Edit, Delete, Recreate, EndInvalidate
<1>4. \A m \in Names : m # n => object'[m] = object[m]
  BY DEF Edit, Delete, Recreate, EndInvalidate, IInv, ObjectInv
<1>5. object'[n].inc = object[n].inc \/ (object'[n].inc = object[n].inc + 1 /\ changes' = changes + 1)
  BY <1>1 DEF Edit, Delete, Recreate, EndInvalidate, IInv, ObjectInv
<1>6. \A m \in Names : /\ object'[m].inc \in 1..(changes' + 1)
                       /\ object'[m].inc >= object[m].inc
  BY <1>1, <1>3, <1>4, <1>5
<1> QED
  BY <1>1, <1>2, <1>3, <1>6, ObjectTypes

\* The start.
LEMMA InitTypes == Init => TypeInv
<1> SUFFICES ASSUME Init PROVE TypeInv
  OBVIOUS
<1>1. /\ kind \in Kinds /\ backend \in {"redis", "memcached", "noop"}
      /\ probe \in Helpers[kind] /\ serial \in BOOLEAN
  BY SetupAssumption DEF Init
<1>2. \A n \in Names : object[n].inc = 1 /\ publish[n] = Idle
  BY DEF Init
<1>3. changes = 0 /\ faults = 0 /\ reader = Idle /\ MaxFaults \in Nat
  BY SetupAssumption DEF Init
<1>4. \A k \in Key : EntryType(k)
  <2>1. \A k \in Key : entries[k] # Nothing =>
          entries[k] = [from |-> "resolution", inc |-> 1, gen |-> 1] /\ backend # "noop"
    BY DEF Init
  <2>2. \A k \in Key : object[k.name].inc = 1
    BY <1>2 DEF Key
  <2> QED
    BY <2>1, <2>2 DEF EntryType
<1> QED
  BY <1>1, <1>2, <1>3, <1>4 DEF TypeInv, PublishType

\* Each step keeps the types.
LEMMA StepTypes == IInv /\ TypeInv /\ [Next]_vars => TypeInv'
<1> SUFFICES ASSUME IInv, TypeInv, [Next]_vars PROVE TypeInv'
  OBVIOUS
<1> USE ObjectCacheAssumption
<1>1. faults \in 0..MaxFaults /\ MaxFaults \in Nat /\ (reader # Idle => reader.todo # {})
  BY SetupAssumption DEF TypeInv
<1>2. ASSUME NEW n \in Changing, Edit(n) \/ Delete(n) \/ Recreate(n) \/ EndInvalidate(n)
      PROVE  TypeInv'
  BY <1>2, ChangeTypes
<1>3. ASSUME NEW n \in Changing, StartPublish(n) \/ SetField(n) \/ SetFails(n) PROVE TypeInv'
  BY <1>3, StartPublishTypes, SetFieldTypes, SetFailsTypes
<1>4. ASSUME NEW n \in Changing, Invalidate(n) \/ MeetNewKey(n) \/ ScanFails(n) PROVE TypeInv'
  <2>1. /\ UNCHANGED <<config, object, entries, publish, reader, changes>>
        /\ faults' = faults \/ (faults' = faults + 1 /\ faults < MaxFaults)
    BY <1>4 DEF Invalidate, MeetNewKey, ScanFails
  <2> QED
    BY <1>1, <2>1, TypesStay
<1>5. ASSUME NEW n \in Changing, DeleteScanned(n) PROVE TypeInv'
  BY <1>5, DropTypes DEF DeleteScanned
<1>6. ASSUME NEW k \in Key, Expire(k) PROVE TypeInv'
  BY <1>6, DropTypes DEF Expire
<1>7. ASSUME NEW n \in Changing, StartRead(n) PROVE TypeInv'
  <2>1. reader'.todo = probe /\ UNCHANGED <<config, object, entries, publish, changes, faults>>
    BY <1>7 DEF StartRead
  <2>2. probe # {}
    BY ProbeReads DEF TypeInv
  <2> QED
    BY <1>1, <2>1, <2>2, TypesStay
<1>8. CASE GetField
  <2>1. PICK f \in reader.todo :
          reader' = IF Found(f) = Nothing \/ reader.todo = {f} THEN Idle
                    ELSE [reader EXCEPT !.todo = @ \ {f}, !.got = @ \cup {Found(f)}]
    BY <1>8 DEF GetField
  <2>2. reader # Idle /\ UNCHANGED <<config, object, entries, publish, changes, faults>>
    BY <1>8 DEF GetField
  <2>3. "todo" \in DOMAIN reader
    BY <2>2 DEF IInv, ReaderInv
  <2>4. reader' # Idle => reader'.todo = reader.todo \ {f} /\ reader.todo # {f}
    BY <2>1, <2>3
  <2> QED
    BY <1>1, <2>1, <2>2, <2>4, TypesStay
<1>9. CASE UNCHANGED vars
  BY <1>1, <1>9, TypesStay DEF vars, config
<1> QED
  BY <1>2, <1>3, <1>4, <1>5, <1>6, <1>7, <1>8, <1>9 DEF Next

(* TypeOK: whatever is edited, created again and fails, calls are about     *)
(* incarnations and generations there have been, an Invalidate belongs to a *)
(* deleted object, a publication writes what a getter reads, and the no-op  *)
(* backend stays empty.                                                     *)
THEOREM TypeCorrect == Spec => []TypeOK
<1>1. IInv /\ TypeInv => TypeOK
  <2> SUFFICES ASSUME IInv, TypeInv PROVE TypeOK
    OBVIOUS
  <2>1. /\ kind \in Kinds /\ backend \in {"redis", "memcached", "noop"}
        /\ probe \in Helpers[kind] /\ serial \in BOOLEAN
        /\ changes \in 0..MaxChanges /\ faults \in 0..MaxFaults
    BY DEF TypeInv, IInv, SetupInv
  <2>2. ASSUME NEW n \in Names
        PROVE  /\ object[n].inc \in 1..(MaxChanges + 1)
               /\ object[n].gen \in 1..(MaxChanges + 1)
               /\ DOMAIN object[n].contract = Fields[kind]
               /\ object[n].phase \in {"live", "deleting", "gone"}
    <3>1. object[n].inc \in 1..(changes + 1) /\ changes \in 0..MaxChanges /\ MaxChanges \in Nat
      BY ObjectCacheAssumption DEF TypeInv, IInv, SetupInv
    <3>2. /\ object[n].gen \in 1..(MaxChanges + 1) /\ object[n].contract \in Trials(kind)
          /\ object[n].phase \in {"live", "deleting", "gone"}
      BY DEF IInv, ObjectInv
    <3> QED
      BY <3>1, <3>2, SetupAssumption DEF Trials
  <2>3. ASSUME NEW n \in Names, publish[n] # Idle
        PROVE  /\ publish[n].inc \in 1..object[n].inc
               /\ publish[n].todo # <<>> /\ Head(publish[n].todo) \in probe
    BY <2>3 DEF TypeInv, PublishType
  <2>4. ASSUME NEW n \in Names, scan[n] # Idle
        PROVE  object[n].phase = "deleting" /\ scan[n].todo \subseteq Key
    BY <2>4 DEF IInv, ScanInv
  <2>5. \A k \in Key : entries[k] # Nothing =>
          entries[k].inc \in 1..object[k.name].inc /\ backend # "noop"
    BY DEF TypeInv, EntryType
  <2>6. reader # Idle => reader.gen <= MaxChanges + 1 /\ reader.todo # {}
    BY ObjectCacheAssumption DEF TypeInv, IInv, ReaderInv
  <2> QED
    BY <2>1, <2>2, <2>3, <2>4, <2>5, <2>6 DEF TypeOK
<1>2. Spec => []TypeInv
  BY InitTypes, StepTypes, Inductive, PTL DEF Spec
<1> QED
  BY <1>1, <1>2, Inductive, PTL

=============================================================================
