------------------------ MODULE ClusterObjects_proofs ------------------------
(***************************************************************************)
(* Proofs about ClusterObjects: the types of its state, and the three      *)
(* things the providers promise of what the CRs share a cluster for --     *)
(* for any CRs, contracts and setups whose names are apart, and any        *)
(* number of changes and failing calls.                                    *)
(*                                                                         *)
(* The plans of the reconcilers are concatenated from their parts' calls,  *)
(* so the first two sections show, by induction on their number, what the  *)
(* parts have in common: a plan asks for what an object needs before the   *)
(* object, and its teardown removes what it asked for. The invariant ties  *)
(* what a worker has left of its plan to what is in the cluster; the last  *)
(* sections show, for a call, for the operator and for the garbage         *)
(* collector, that no object loses what the invariant says of it.          *)
(***************************************************************************)
EXTENDS ClusterObjects, FiniteSetTheorems, SequenceTheorems, WellFoundedInduction, TLAPS

\* Induction over the naturals, for a set that a definition can name.
LEMMA Induction ==
  ASSUME NEW S, 0 \in S, \A n \in Nat : n \in S => n + 1 \in S
  PROVE  Nat \subseteq S
<1> SUFFICES ASSUME NEW n \in Nat, n \notin S PROVE FALSE
  OBVIOUS
<1> DEFINE T == {0..m : m \in Nat \ S}
           R == StrictSubsetOrdering(Nat)
<1>1. IsWellFoundedOn(R, FiniteSubsetsOf(Nat))
  BY FS_StrictSubsetOrderingWellFounded
<1>2. \A m \in Nat : 0..m \in FiniteSubsetsOf(Nat)
  BY FS_Interval DEF FiniteSubsetsOf
<1>3. T \subseteq FiniteSubsetsOf(Nat) /\ T # {}
  BY <1>2
<1> HIDE DEF R
<1>4. PICK x \in T : \A y \in T : <<y, x>> \notin R
  BY <1>1, <1>3, WFMin, Zenon
<1>5. PICK m \in Nat \ S : x = 0..m
  OBVIOUS
<1>6. m # 0 /\ m - 1 \in Nat \ S
  <2>1. m # 0
    OBVIOUS
  <2>2. m - 1 \in Nat /\ (m - 1) + 1 = m
    BY <2>1
  <2> QED
    BY <2>1, <2>2
<1>7. 0..(m - 1) \in T
  BY <1>6
<1>8. 0..(m - 1) \subseteq 0..m /\ m \in 0..m /\ m \notin 0..(m - 1)
  BY <1>6
<1>9. 0..(m - 1) \in SUBSET Nat /\ 0..m \in SUBSET Nat /\ 0..(m - 1) # 0..m
  BY <1>6, <1>8
<1>10. <<0..(m - 1), 0..m>> \in StrictSubsetOrdering(Nat)
  BY <1>8, <1>9, Zenon DEF StrictSubsetOrdering
<1> QED
  BY <1>4, <1>5, <1>7, <1>10 DEF R

\* What FlattenSeq computes of a sequence of n sequences: the i-th is appended to
\* what the first i - 1 gave.
IsFlatten(f, s) ==
  f = [i \in 1..Len(s) |-> IF i = 1 THEN s[i] ELSE f[i - 1] \o s[i]]

\* FlattenSeq is defined by recursion, and there is such a function.
LEMMA FlattenExists ==
  ASSUME NEW S, NEW s \in Seq(Seq(S))
  PROVE  \E f : IsFlatten(f, s)
<1> DEFINE Part(n, f) == f = [i \in 1..n |-> IF i = 1 THEN s[i] ELSE f[i - 1] \o s[i]]
           Good == {n \in Nat : \E f : Part(n, f)}
<1>1. 0 \in Good
  <2>1. Part(0, <<>>)
    OBVIOUS
  <2> QED
    BY <2>1
<1>2. ASSUME NEW n \in Nat, NEW f, Part(n, f) PROVE \E g : Part(n + 1, g)
  <2> DEFINE g == [i \in 1..(n + 1) |->
                     IF i = n + 1 THEN IF n = 0 THEN s[1] ELSE f[n] \o s[n + 1] ELSE f[i]]
  <2>1. \A i \in 1..n : f[i] = IF i = 1 THEN s[i] ELSE f[i - 1] \o s[i]
    BY <1>2
  <2>2. \A i \in 1..n : g[i] = f[i] /\ (i # 1 => g[i - 1] = f[i - 1])
    OBVIOUS
  <2>3. g[n + 1] = IF n + 1 = 1 THEN s[n + 1] ELSE g[n] \o s[n + 1]
    BY <2>2
  <2> HIDE DEF g
  <2>4. ASSUME NEW i \in 1..(n + 1) PROVE g[i] = IF i = 1 THEN s[i] ELSE g[i - 1] \o s[i]
    <3>1. CASE i = n + 1
      <4>1. i - 1 = n
        BY <3>1
      <4> QED
        BY <3>1, <4>1, <2>3
    <3>2. CASE i # n + 1
      BY <3>2, <2>1, <2>2
    <3> QED
      BY <3>1, <3>2
  <2>5. g = [i \in 1..(n + 1) |-> g[i]]
    BY DEF g
  <2>6. Part(n + 1, g)
    BY <2>4, <2>5
  <2> QED
    BY <2>6
<1> HIDE DEF Part
<1>3. \A n \in Nat : n \in Good => n + 1 \in Good
  BY <1>2
<1> HIDE DEF Good
<1>4. Nat \subseteq Good
  BY <1>1, <1>3, Induction
<1>5. Len(s) \in Good
  BY <1>4
<1> QED
  BY <1>5 DEF Good, Part, IsFlatten

\* FlattenSeq takes the last element of that function.
LEMMA Flattening ==
  ASSUME NEW S, NEW s \in Seq(Seq(S)), s # <<>>
  PROVE  \E f : IsFlatten(f, s) /\ FlattenSeq(s) = f[Len(s)]
<1> DEFINE flatten == CHOOSE f : IsFlatten(f, s)
<1>1. IsFlatten(flatten, s)
  BY FlattenExists
<1>2. FlattenSeq(s) = flatten[Len(s)]
  BY DEF FlattenSeq, IsFlatten
<1> QED
  BY <1>1, <1>2

\* A sequence of two parts has what the parts have.
LEMMA ConcatRange ==
  ASSUME NEW S, NEW a \in Seq(S), NEW b \in Seq(S)
  PROVE  a \o b \in Seq(S) /\ Range(a \o b) = Range(a) \cup Range(b)
<1>1. \A x \in Range(a \o b) : x \in Range(a) \cup Range(b)
  BY DEF Range
<1>2. \A i \in DOMAIN a : i \in DOMAIN (a \o b) /\ (a \o b)[i] = a[i]
  OBVIOUS
<1>3. \A i \in DOMAIN b : Len(a) + i \in DOMAIN (a \o b) /\ (a \o b)[Len(a) + i] = b[i]
  OBVIOUS
<1>4. \A x \in Range(a) \cup Range(b) : x \in Range(a \o b)
  BY <1>2, <1>3 DEF Range
<1> QED
  BY <1>1, <1>4

\* What is true of the first sequence, and kept when the next one is appended, is
\* true of all: G[i] has what the first i may give.
LEMMA FlattenInduction ==
  ASSUME NEW S, NEW s \in Seq(Seq(S)), s # <<>>, NEW G, s[1] \in G[1],
         \A i \in Nat : \A a \in Seq(S) :
           i + 1 \in 2..Len(s) /\ a \in G[i] => a \o s[i + 1] \in G[i + 1]
  PROVE  FlattenSeq(s) \in Seq(S) /\ FlattenSeq(s) \in G[Len(s)]
<1>1. PICK f : IsFlatten(f, s) /\ FlattenSeq(s) = f[Len(s)]
  BY Flattening
<1> DEFINE Good == {i \in Nat : i \in 1..Len(s) => f[i] \in Seq(S) /\ f[i] \in G[i]}
<1>2. \A i \in 1..Len(s) : f[i] = IF i = 1 THEN s[i] ELSE f[i - 1] \o s[i]
  BY <1>1 DEF IsFlatten
<1>3. 0 \in Good
  OBVIOUS
<1>4. ASSUME NEW i \in Nat, i \in Good PROVE i + 1 \in Good
  <2> SUFFICES ASSUME i + 1 \in 1..Len(s) PROVE f[i + 1] \in Seq(S) /\ f[i + 1] \in G[i + 1]
    OBVIOUS
  <2>1. CASE i = 0
    <3>1. i + 1 = 1 /\ 1 \in 1..Len(s)
      BY <2>1
    <3>2. f[1] = s[1] /\ s[1] \in Seq(S)
      BY <1>2, <3>1
    <3> QED
      BY <3>1, <3>2
  <2>2. CASE i # 0
    <3>1. i \in 1..Len(s) /\ i + 1 \in 2..Len(s) /\ (i + 1) - 1 = i /\ i + 1 # 1
      BY <2>2
    <3>2. f[i] \in Seq(S) /\ f[i] \in G[i]
      BY <1>4, <3>1
    <3>3. f[i + 1] = f[i] \o s[i + 1]
      <4>1. f[i + 1] = IF i + 1 = 1 THEN s[i + 1] ELSE f[(i + 1) - 1] \o s[i + 1]
        BY <1>2
      <4> QED
        BY <4>1, <3>1
    <3>4. f[i] \o s[i + 1] \in Seq(S)
      BY <3>2
    <3>5. f[i] \o s[i + 1] \in G[i + 1]
      BY <3>1, <3>2
    <3> QED
      BY <3>3, <3>4, <3>5
  <2> QED
    BY <2>1, <2>2
<1> HIDE DEF Good
<1>5. \A i \in Nat : i \in Good => i + 1 \in Good
  BY <1>4
<1>6. Nat \subseteq Good
  BY <1>3, <1>5, Induction
<1>7. Len(s) \in Good /\ Len(s) \in 1..Len(s)
  BY <1>6
<1> QED
  BY <1>1, <1>7 DEF Good

\* FlattenSeq keeps all elements and adds none.
LEMMA FlattenRange ==
  ASSUME NEW S, NEW s \in Seq(Seq(S))
  PROVE  /\ FlattenSeq(s) \in Seq(S)
         /\ Range(FlattenSeq(s)) = UNION {Range(s[i]) : i \in 1..Len(s)}
<1>1. CASE s = <<>>
  BY <1>1 DEF FlattenSeq, Range
<1>2. CASE s # <<>>
  <2> DEFINE Upto(i) == UNION {Range(s[j]) : j \in 1..i}
             G == [i \in Nat |-> {a \in Seq(S) : Range(a) = Upto(i)}]
  <2>1. Upto(1) = Range(s[1])
    OBVIOUS
  <2>2. \A i \in Nat : Upto(i + 1) = Upto(i) \cup Range(s[i + 1])
    <3> TAKE i \in Nat
    <3>1. 1..(i + 1) = 1..i \cup {i + 1}
      OBVIOUS
    <3> QED
      BY <3>1, Zenon
  <2>3. s[1] \in Seq(S)
    BY <1>2
  <2> HIDE DEF Upto
  <2>4. s[1] \in G[1]
    BY <2>1, <2>3
  <2>5. ASSUME NEW i \in Nat, NEW a \in Seq(S), i + 1 \in 2..Len(s), a \in G[i]
        PROVE  a \o s[i + 1] \in G[i + 1]
    <3>1. s[i + 1] \in Seq(S)
      BY <2>5
    <3>2. a \o s[i + 1] \in Seq(S) /\ Range(a \o s[i + 1]) = Range(a) \cup Range(s[i + 1])
      BY <3>1, ConcatRange
    <3>3. Range(a) = Upto(i)
      BY <2>5
    <3>4. Range(a \o s[i + 1]) = Upto(i + 1)
      BY <2>2, <3>2, <3>3
    <3>5. \A j \in Nat, b \in Seq(S) : Range(b) = Upto(j) => b \in G[j]
      OBVIOUS
    <3> HIDE DEF G
    <3>6. i + 1 \in Nat
      OBVIOUS
    <3> QED
      BY <3>2, <3>4, <3>5, <3>6
  <2> HIDE DEF G
  <2>6. FlattenSeq(s) \in Seq(S) /\ FlattenSeq(s) \in G[Len(s)]
    BY <1>2, <2>4, <2>5, FlattenInduction
  <2> QED
    BY <2>6 DEF G, Upto
<1> QED
  BY <1>1, <1>2

----------------------------------------------------------------------------
(* The calls of the reconcilers.                                            *)

\* What has one name; of Secrets those are the targets of ExternalSecrets.
Single(o) == o.name = <<o.name[1]>>
IsTarget(o) == o.kind = "Secret" /\ Single(o)
IsExternal(e) == e.kind = "ExternalSecret" /\ Single(e)

\* A version of an object that says something.
IsValue(v) == v \in Seq(Range(v)) \ {<<>>}

\* What a reconciler's calls are about.
ReconcileCall(c, call) ==
  /\ call.op # "refuse" => call.object.kind \notin {"cr", "gone", "none"}
  /\ call.op = "delete" => ~IsShared(call.object)
  /\ call.owned => call.object.ns = c.ns /\ ~IsShared(call.object)
  /\ IsAsk(call) => /\ call.object.kind = "Secret" => ~Single(call.object)
                    /\ call.object.kind = "ExternalSecret" => Single(call.object)
                    /\ call.object.kind = "SecretStore" => call.op = "apply" /\ call.owned
                    /\ call.object.kind = "Ingress" <=> call.op = "ingress"
                    /\ call.op = "ingress" => IsValue(call.value)
                    /\ call.op = "account" => call = Call("account", call.object, call.value,
                                                          call.owned, call.quiet)

\* A teardown only deletes, and nothing that is shared.
TeardownCall(call) ==
  /\ call.op \in {"delete", "refuse"}
  /\ call.op = "delete" => ~IsShared(call.object) /\ call.object.kind \notin {"cr", "gone", "none"}

\* What a call asks for is preceded by what that needs.
NeedsBefore(calls, there) ==
  \A i \in DOMAIN calls : IsAsk(calls[i]) =>
    \A n \in Needs(calls[i].object) :
      n \in there \/ \E j \in 1..(i - 1) : IsAsk(calls[j]) /\ calls[j].object = n

\* What a teardown removes of what a reconciler asked for: all that is not shared,
\* but for an Environment's store.
Removes(calls, asked) ==
  \A call \in Range(asked) : IsAsk(call) =>
    \/ IsShared(call.object) \/ call.object.kind = "SecretStore"
    \/ Delete(call.object) \in Range(calls)

\* A sequence that is not empty says something.
LEMMA IsValueOf ==
  ASSUME NEW S, NEW v \in Seq(S), Len(v) >= 1
  PROVE  IsValue(v)
<1>1. v \in [1..Len(v) -> Range(v)]
  <2>1. Len(v) \in Nat /\ DOMAIN v = 1..Len(v) /\ v \in [1..Len(v) -> S]
    BY LenProperties
  <2> QED
    BY <2>1 DEF Range
<1>2. v \in Seq(Range(v))
  BY <1>1
<1> QED
  BY <1>2 DEF IsValue

\* A sequence of no, one or two calls has these.
LEMMA Short ==
  /\ Range(<<>>) = {} /\ <<>> \in Seq({})
  /\ \A a : Range(<<a>>) = {a} /\ <<a>> \in Seq({a})
  /\ \A a, b : Range(<<a, b>>) = {a, b} /\ <<a, b>> \in Seq({a, b})
  /\ \A a, b, d : Range(<<a, b, d>>) = {a, b, d} /\ <<a, b, d>> \in Seq({a, b, d})
<1>1. Range(<<>>) = {} /\ <<>> \in Seq({})
  BY DEF Range
<1>2. ASSUME NEW a PROVE Range(<<a>>) = {a} /\ <<a>> \in Seq({a})
  BY DEF Range
<1>3. ASSUME NEW a, NEW b PROVE Range(<<a, b>>) = {a, b} /\ <<a, b>> \in Seq({a, b})
  BY DEF Range
<1>4. ASSUME NEW a, NEW b, NEW d
      PROVE  Range(<<a, b, d>>) = {a, b, d} /\ <<a, b, d>> \in Seq({a, b, d})
  BY DEF Range
<1> QED
  BY <1>1, <1>2, <1>3, <1>4

\* Sequences of at most one call after each other.
LEMMA Joined ==
  ASSUME NEW a, NEW b
  PROVE  <<a>> \o <<>> = <<a>> /\ <<>> \o <<a>> = <<a>> /\ <<a>> \o <<b>> = <<a, b>>
<1> DEFINE S == {a, b}
<1>1. <<>> \in Seq(S) /\ <<a>> \in Seq(S) /\ <<b>> \in Seq(S) /\ <<a, b>> \in Seq(S)
  OBVIOUS
<1>2. Len(<<>>) = 0 /\ Len(<<a>>) = 1 /\ Len(<<b>>) = 1 /\ Len(<<a, b>>) = 2
  OBVIOUS
<1> HIDE DEF S
<1>3. <<a>> \o <<>> = <<a>> /\ <<>> \o <<a>> = <<a>>
  BY <1>1, <1>2
<1>4. /\ <<a>> \o <<b>> \in Seq(S) /\ Len(<<a>> \o <<b>>) = 2
      /\ (<<a>> \o <<b>>)[1] = a /\ (<<a>> \o <<b>>)[2] = b
  BY <1>1, <1>2, ConcatProperties
<1>5. ASSUME NEW x \in Seq(S), Len(x) = 2, x[1] = a, x[2] = b PROVE x = <<a, b>>
  <2>1. \A i \in 1..2 : x[i] = <<a, b>>[i]
    BY <1>5
  <2> QED
    BY <1>1, <1>2, <1>5, <2>1, SeqEqual
<1> QED
  BY <1>3, <1>4, <1>5

\* What is shared by name is in a namespace that has no CRs.
LEMMA SharedShape ==
  /\ \A o \in Shared :
       /\ o.ns \in {"argo-events", "crossplane-system"}
       /\ o.kind \in {"EventBus", "ServiceAccount", "Role", "RoleBinding", "EventSource",
                      "ExternalSecret"}
  /\ \A o : IsShared(o) => o.kind \in {"EventBus", "ServiceAccount", "Role", "RoleBinding",
         "EventSource", "ExternalSecret", "Issuer", "ClusterSecretStore"}
BY DEF Shared, IsShared, EventStack, EventSource, CrossplaneSecret, ArgoEvents, Object

\* What is needed is shared.
LEMMA NeedsShared == \A o : \A n \in Needs(o) : IsShared(n)
BY DEF Needs, IsShared, Shared, Issuer, Object

\* What each reconciler is called.
LEMMA ReconcileParts ==
  ASSUME NEW c, NEW s
  PROVE  /\ Reconcile("secretstore", c, s) = SecretStore(c, s)
         /\ Reconcile("git/build", c, s) = BuildGitSSHSecret(c, s)
         /\ Reconcile("registry/build", c, s) = BuildRegistrySecret(c, s)
         /\ Reconcile("buildbot", c, s) = ServiceAccount(c, s)
         /\ Reconcile("git/deployment", c, s) = DeploymentGitSSHSecret(c, s)
         /\ Reconcile("git/fluxcd", c, s) = FluxGitSSHSecret(c, s)
         /\ Reconcile("packagerepo", c, s) = PackageRepositorySecret(c, s)
         /\ Reconcile("packageregistry", c, s) = PackageRegistrySecret(c, s)
         /\ Reconcile("staterepo", c, s) = PackageStateRepositorySecret(c, s)
         /\ Reconcile("webhook", c, s) = GitHubWebhookSecret(c, s)
         /\ Reconcile("crossplane", c, s) = GitHubProviderSecret(c, s)
         /\ Reconcile("hookurl", c, s) = HookURLSecret(c, s)
         /\ Reconcile("githubevent", c, s) = EnsureGitHubEvent(c, s)
         /\ Reconcile("gitrepository", c, s) = EnsureGitRepository(c, s)
         /\ Reconcile("domain", c, s) = EnsureDomain(c, s)
         /\ Reconcile("route", c, s) = EnsureRoute(c, s)
BY DEF Reconcile

\* What each teardown is called.
LEMMA TeardownParts ==
  ASSUME NEW c, NEW s
  PROVE  /\ Teardown("secretstore", c, s) = <<>>
         /\ Teardown("git/build", c, s) = DeleteBuildGitSSHSecret(c, s)
         /\ Teardown("registry/build", c, s) = DeleteBuildRegistrySecret(c, s)
         /\ Teardown("buildbot", c, s) = DeleteServiceAccount(c, s)
         /\ Teardown("git/deployment", c, s) = DeleteDeploymentGitSSHSecret(c, s)
         /\ Teardown("git/fluxcd", c, s) = DeleteFluxGitSSHSecret(c, s)
         /\ Teardown("packagerepo", c, s) = DeletePackageRepositorySecret(c, s)
         /\ Teardown("packageregistry", c, s) = DeletePackageRegistrySecret(c, s)
         /\ Teardown("staterepo", c, s) = DeletePackageStateRepositorySecret(c, s)
         /\ Teardown("webhook", c, s) = DeleteGitHubWebhookSecret(c, s)
         /\ Teardown("crossplane", c, s) = <<>>
         /\ Teardown("hookurl", c, s) = DeleteHookURLSecret(c, s)
         /\ Teardown("githubevent", c, s) = TeardownGitHubEvent(c, s)
         /\ Teardown("gitrepository", c, s) = TeardownGitRepository(c, s)
         /\ Teardown("domain", c, s) = TeardownDomain(c, s)
         /\ Teardown("route", c, s) = TeardownRoute(c, s)
BY DEF Teardown

\* A reconciler and its teardown fit together.
Fits(c, asked, removed) ==
  /\ asked \in Seq(Range(asked)) /\ removed \in Seq(Range(removed))
  /\ \A call \in Range(asked) : ReconcileCall(c, call)
  /\ \A call \in Range(removed) : TeardownCall(call)
  /\ NeedsBefore(asked, {})
  /\ Removes(removed, asked)

\* The objects of CRs are not shared, but for the kinds that always are.
LEMMA OwnObject ==
  ASSUME NEW c \in Crs
  PROVE  \A o : /\ o.ns = c.ns \/ o.ns = ""
                /\ o.kind # "Issuer" /\ o.kind # "ClusterSecretStore"
                => ~IsShared(o)
BY SharedShape, ClusterObjectsAssumption DEF IsShared

\* Where nothing that is asked for needs anything, the order does not matter.
LEMMA NeedsNothing ==
  ASSUME NEW calls,
         \A call \in Range(calls) : call.object.kind \notin {"Sensor", "Certificate"}
  PROVE  NeedsBefore(calls, {})
BY DEF NeedsBefore, Needs, Range

\* The reconcilers of ExternalSecrets.
LEMMA ExternalFits ==
  ASSUME NEW c \in Crs, NEW op \in {"converge", "create"}, NEW name, NEW value
  PROVE  Fits(c, External(op, c, name, value), DeleteExternal(c, name))
<1> DEFINE e == ExternalSecret(c, <<name>>)
           t == SecretObject(c, <<name>>)
<1>1. CASE name = ""
  <2>1. External(op, c, name, value) = <<>> /\ DeleteExternal(c, name) = <<>>
    BY <1>1 DEF External, DeleteExternal
  <2> QED
    BY <2>1, Short DEF Fits, NeedsBefore, Removes
<1>2. CASE name # ""
  <2> DEFINE ask == Call(op, e, value, TRUE, FALSE)
  <2>1. External(op, c, name, value) = <<ask>> /\ DeleteExternal(c, name) = <<Delete(e), Delete(t)>>
    BY <1>2 DEF External, DeleteExternal
  <2>2. /\ e.kind = "ExternalSecret" /\ e.ns = c.ns /\ e.name = <<name>>
        /\ t.kind = "Secret" /\ t.ns = c.ns /\ t.name = <<name>>
    BY DEF ExternalSecret, SecretObject, Object
  <2> HIDE DEF e, t
  <2>3. ask.op = op /\ ask.object = e /\ ask.owned
    BY DEF Call
  <2> HIDE DEF ask
  <2>4. /\ Delete(e).op = "delete" /\ Delete(e).object = e
        /\ Delete(t).op = "delete" /\ Delete(t).object = t
    BY DEF Delete, Call
  <2>5. ~IsShared(e) /\ ~IsShared(t)
    BY <2>2, OwnObject
  <2>6. ReconcileCall(c, ask)
    <3>1. ask.op \notin {"refuse", "delete", "ingress", "account"} /\ Single(e)
      BY <2>2, <2>3 DEF Single
    <3> QED
      BY <2>2, <2>3, <2>5, <3>1 DEF ReconcileCall
  <2>7. TeardownCall(Delete(e)) /\ TeardownCall(Delete(t))
    BY <2>2, <2>4, <2>5 DEF TeardownCall
  <2>8. NeedsBefore(<<ask>>, {})
    BY <2>2, <2>3, NeedsNothing, Short
  <2>9. Removes(<<Delete(e), Delete(t)>>, <<ask>>)
    BY <2>3, Short DEF Removes
  <2> QED
    BY <2>1, <2>6, <2>7, <2>8, <2>9, Short DEF Fits
<1> QED
  BY <1>1, <1>2

\* A reconciler of one call, with the teardown that deletes what it asks for.
LEMMA OneFits ==
  ASSUME NEW c \in Crs, NEW ask, IsAsk(ask), ReconcileCall(c, ask), ~IsShared(ask.object),
         ask.object.kind \notin {"Sensor", "Certificate"}
  PROVE  Fits(c, <<ask>>, <<Delete(ask.object)>>)
<1> DEFINE gone == Delete(ask.object)
<1>1. gone.op = "delete" /\ gone.object = ask.object
  BY DEF Delete, Call
<1>2. TeardownCall(gone)
  BY <1>1 DEF TeardownCall, ReconcileCall, IsAsk
<1>3. NeedsBefore(<<ask>>, {})
  BY NeedsNothing, Short
<1>4. Removes(<<gone>>, <<ask>>)
  BY Short DEF Removes
<1> QED
  BY <1>2, <1>3, <1>4, Short DEF Fits

\* A reconciler of one call, without a teardown.
LEMMA OneStays ==
  ASSUME NEW c \in Crs, NEW ask, ReconcileCall(c, ask),
         IsShared(ask.object) \/ ask.object.kind = "SecretStore" \/ ~IsAsk(ask),
         ask.object.kind \notin {"Sensor", "Certificate"}
  PROVE  Fits(c, <<ask>>, <<>>)
<1>1. NeedsBefore(<<ask>>, {})
  BY NeedsNothing, Short
<1>2. Removes(<<>>, <<ask>>)
  BY Short DEF Removes
<1> QED
  BY <1>1, <1>2, Short DEF Fits

\* One that asks for nothing.
LEMMA NothingFits ==
  ASSUME NEW c, NEW removed, removed \in Seq(Range(removed)),
         \A call \in Range(removed) : TeardownCall(call)
  PROVE  Fits(c, <<>>, removed)
BY Short DEF Fits, NeedsBefore, Removes

\* An error without a call.
LEMMA RefuseFits ==
  ASSUME NEW c \in Crs, NEW quiet \in BOOLEAN, NEW again \in BOOLEAN
  PROVE  /\ Fits(c, <<Refuse(quiet)>>, <<>>)
         /\ Fits(c, <<Refuse(quiet)>>, <<Refuse(again)>>)
<1> DEFINE r == Refuse(quiet)
           t == Refuse(again)
<1>1. r.op = "refuse" /\ r.object.kind = "none" /\ ~r.owned /\ t.op = "refuse"
  BY DEF Refuse, Call, Nowhere, Object
<1> HIDE DEF r, t
<1>2. ReconcileCall(c, r) /\ ~IsAsk(r)
  BY <1>1 DEF ReconcileCall, IsAsk
<1>3. TeardownCall(t)
  BY <1>1 DEF TeardownCall
<1>4. NeedsBefore(<<r>>, {})
  BY <1>1, NeedsNothing, Short
<1>5. Removes(<<t>>, <<r>>) /\ Removes(<<>>, <<r>>)
  BY <1>2, Short DEF Removes
<1>6. Range(<<>>) = {} /\ Range(<<r>>) = {r} /\ Range(<<t>>) = {t}
  BY Short
<1>7. <<>> \in Seq({}) /\ <<r>> \in Seq({r}) /\ <<t>> \in Seq({t})
  BY Short
<1>8. Fits(c, <<r>>, <<>>)
  BY <1>2, <1>4, <1>5, <1>6, <1>7 DEF Fits
<1>9. Fits(c, <<r>>, <<t>>)
  BY <1>2, <1>3, <1>4, <1>5, <1>6, <1>7 DEF Fits
<1> QED
  BY <1>8, <1>9 DEF r, t

\* SecretStoreReconciler: only the store of a namespace has an owner.
LEMMA SecretStoreFits ==
  ASSUME NEW c \in Crs, NEW s, s.storeKind \in {"ClusterSecretStore", "SecretStore"}
  PROVE  Fits(c, SecretStore(c, s), <<>>)
<1>1. CASE s.env.provider = "vault"
  <2> DEFINE o == StoreObject(c, s)
             ask == Call("apply", o, <<s.role>>, s.storeKind = "SecretStore", FALSE)
  <2>1. SecretStore(c, s) = <<ask>>
    BY <1>1 DEF SecretStore
  <2>2. o.kind = s.storeKind /\ (o.kind = "SecretStore" => o.ns = c.ns)
    BY DEF StoreObject, Object
  <2> HIDE DEF o
  <2>3. ask.op = "apply" /\ ask.object = o /\ ask.owned = (o.kind = "SecretStore")
    BY <2>2 DEF Call
  <2> HIDE DEF ask
  <2>4. o.kind = "SecretStore" => ~IsShared(o)
    BY <2>2, OwnObject
  <2>5. ReconcileCall(c, ask)
    BY <2>2, <2>3, <2>4 DEF ReconcileCall, IsAsk
  <2>6. IsShared(o) \/ o.kind = "SecretStore"
    BY <2>2 DEF IsShared
  <2> QED
    BY <2>1, <2>2, <2>3, <2>5, <2>6, OneStays
<1>2. CASE s.env.provider \in {"aws", "gcp", "azure"}
  <2>1. SecretStore(c, s) = <<Refuse(FALSE)>>
    BY <1>2 DEF SecretStore
  <2> QED
    BY <2>1, RefuseFits
<1>3. CASE s.env.provider \notin {"vault", "aws", "gcp", "azure"}
  <2>1. SecretStore(c, s) = <<>>
    BY <1>3 DEF SecretStore
  <2>2. Range(<<>>) = {} /\ <<>> \in Seq(Range(<<>>))
    BY Short
  <2>3. Fits(c, <<>>, <<>>)
    BY <2>2, NothingFits
  <2> QED
    BY <2>1, <2>3
<1> QED
  BY <1>1, <1>2, <1>3

\* The Secrets and the account that no operator writes.
LEMMA SecretsFit ==
  ASSUME NEW c \in Crs, NEW s
  PROVE  /\ Fits(c, FluxGitSSHSecret(c, s), DeleteFluxGitSSHSecret(c, s))
         /\ Fits(c, HookURLSecret(c, s), DeleteHookURLSecret(c, s))
         /\ Fits(c, ServiceAccount(c, s), DeleteServiceAccount(c, s))
<1>1. Fits(c, FluxGitSSHSecret(c, s), DeleteFluxGitSSHSecret(c, s))
  <2> DEFINE o == FluxSecret(c)
             ask == Call("create", o, <<"keypair">>, TRUE, FALSE)
  <2>1. o.kind = "Secret" /\ o.ns = c.ns /\ ~Single(o)
    BY DEF FluxSecret, SecretObject, Object, Single
  <2> HIDE DEF o
  <2>2. ask.op = "create" /\ ask.object = o /\ ask.owned
    BY DEF Call
  <2> HIDE DEF ask
  <2>3. ReconcileCall(c, ask) /\ IsAsk(ask) /\ ~IsShared(o)
    BY <2>1, <2>2, OwnObject DEF ReconcileCall, IsAsk
  <2>4. Fits(c, <<ask>>, <<Delete(o)>>)
    BY <2>1, <2>2, <2>3, OneFits
  <2> QED
    BY <2>4 DEF ask, o, FluxGitSSHSecret, DeleteFluxGitSSHSecret
<1>2. Fits(c, HookURLSecret(c, s), DeleteHookURLSecret(c, s))
  <2> DEFINE o == SecretObject(c, HookURLSecretName(c))
             ask == Call("converge", o, <<s.hookUrl>>, TRUE, FALSE)
  <2>1. o.kind = "Secret" /\ o.ns = c.ns /\ ~Single(o)
    BY DEF HookURLSecretName, SecretObject, Object, Single
  <2> HIDE DEF o
  <2>2. ask.op = "converge" /\ ask.object = o /\ ask.owned
    BY DEF Call
  <2> HIDE DEF ask
  <2>3. ReconcileCall(c, ask) /\ IsAsk(ask) /\ ~IsShared(o)
    BY <2>1, <2>2, OwnObject DEF ReconcileCall, IsAsk
  <2>4. Fits(c, <<ask>>, <<Delete(o)>>)
    BY <2>1, <2>2, <2>3, OneFits
  <2> QED
    BY <2>4 DEF ask, o, HookURLSecret, DeleteHookURLSecret
<1>3. Fits(c, ServiceAccount(c, s), DeleteServiceAccount(c, s))
  <2> DEFINE o == BuildAccount(c, s)
             ask == Call("account", o, <<s.account.secret>>, TRUE, FALSE)
  <2>1. o.kind = "ServiceAccount" /\ o.ns = c.ns
    BY DEF BuildAccount, Object
  <2> HIDE DEF o
  <2>2. /\ ask.op = "account" /\ ask.object = o /\ ask.owned
        /\ ask = Call("account", ask.object, ask.value, ask.owned, ask.quiet)
    BY DEF Call
  <2> HIDE DEF ask
  <2>3. ReconcileCall(c, ask) /\ IsAsk(ask) /\ ~IsShared(o)
    BY <2>1, <2>2, OwnObject DEF ReconcileCall, IsAsk
  <2>4. Fits(c, <<ask>>, <<Delete(o)>>)
    BY <2>1, <2>2, <2>3, OneFits
  <2> QED
    BY <2>4 DEF ask, o, ServiceAccount, DeleteServiceAccount
<1> QED
  BY <1>1, <1>2, <1>3

\* A repository's webhook goes by its events, the Secret of a GitHubEvent's hook by
\* its key; the Crossplane provider's credentials stay.
LEMMA WebhookFits ==
  ASSUME NEW c \in Crs, NEW s
  PROVE  /\ Fits(c, GitHubWebhookSecret(c, s), DeleteGitHubWebhookSecret(c, s))
         /\ Fits(c, GitHubProviderSecret(c, s), <<>>)
<1>1. ASSUME s.secretKey = ""
      PROVE  Fits(c, GitHubWebhookSecret(c, s), DeleteGitHubWebhookSecret(c, s))
  <2>1. GitHubWebhookSecret(c, s) = <<>>
    BY <1>1 DEF GitHubWebhookSecret
  <2>2. Fits(c, External("create", c, s.secretName, <<>>), DeleteGitHubWebhookSecret(c, s))
    BY ExternalFits DEF DeleteGitHubWebhookSecret
  <2>3. Fits(c, <<>>, DeleteGitHubWebhookSecret(c, s))
    BY <2>2, NothingFits DEF Fits
  <2> QED
    BY <2>1, <2>3
<1>2. ASSUME s.secretKey # ""
      PROVE  Fits(c, GitHubWebhookSecret(c, s), DeleteGitHubWebhookSecret(c, s))
  BY <1>2, ExternalFits DEF GitHubWebhookSecret, DeleteGitHubWebhookSecret
<1>3. Fits(c, GitHubProviderSecret(c, s), <<>>)
  <2> DEFINE o == CrossplaneSecret
             ask == Call("converge", o, <<StoreName(s.env), "token">>, FALSE, FALSE)
  <2>1. o.kind = "ExternalSecret" /\ Single(o) /\ IsShared(o)
    BY DEF CrossplaneSecret, Object, Single, IsShared, Shared
  <2> HIDE DEF o
  <2>2. ask.op = "converge" /\ ask.object = o /\ ~ask.owned
    BY DEF Call
  <2> HIDE DEF ask
  <2>3. ReconcileCall(c, ask)
    BY <2>1, <2>2 DEF ReconcileCall, IsAsk
  <2>4. Fits(c, <<ask>>, <<>>)
    BY <2>1, <2>2, <2>3, OneStays
  <2> QED
    BY <2>4 DEF ask, o, GitHubProviderSecret
<1> QED
  BY <1>1, <1>2, <1>3

\* Two calls after four.
LEMMA TwoMore ==
  ASSUME NEW S, NEW v \in Seq(S), NEW w \in Seq(S), Len(v) = 4, Len(w) = 2
  PROVE  /\ Len(v \o w) = 6
         /\ \A i \in 1..4 : (v \o w)[i] = v[i]
         /\ (v \o w)[5] = w[1] /\ (v \o w)[6] = w[2]
<1>1. /\ Len(v \o w) = Len(v) + Len(w)
      /\ \A i \in 1..(Len(v) + Len(w)) :
           (v \o w)[i] = IF i <= Len(v) THEN v[i] ELSE w[i - Len(v)]
  BY ConcatProperties
<1> QED
  BY <1>1

\* A GitHubEvent's Sensor comes after all it refers to, and goes alone.
LEMMA EventFits ==
  ASSUME NEW c \in Crs, NEW s
  PROVE  Fits(c, EnsureGitHubEvent(c, s), TeardownGitHubEvent(c, s))
<1> DEFINE stack == [i \in 1..4 |-> Apply(EventStack[i], <<>>)]
           source == Apply(EventSource, <<s.repository, s.eventType>>)
           sensor == Apply(SensorOf(c), <<s.eventType, c.name>>)
           plan == stack \o <<source, sensor>>
           gone == Delete(SensorOf(c))
<1>1. \A o, v : Apply(o, v).op = "apply" /\ Apply(o, v).object = o /\ ~Apply(o, v).owned
  BY DEF Apply, Call
<1>2. /\ sensor.op = "apply" /\ sensor.object = SensorOf(c) /\ ~sensor.owned
      /\ source.op = "apply" /\ source.object = EventSource /\ ~source.owned
      /\ \A i \in 1..4 : /\ stack[i].op = "apply" /\ stack[i].object = EventStack[i]
                         /\ ~stack[i].owned
  BY <1>1
<1>3. /\ \A i \in 1..4 : IsShared(EventStack[i])
                       /\ EventStack[i].kind \in {"EventBus", "ServiceAccount", "Role", "RoleBinding"}
      /\ IsShared(EventSource) /\ EventSource.kind = "EventSource"
      /\ SensorOf(c).kind = "Sensor" /\ ~IsShared(SensorOf(c))
  BY SharedShape DEF IsShared, Shared, EventStack, EventSource, SensorOf, ArgoEvents, Object
<1>4. gone.op = "delete" /\ gone.object = SensorOf(c)
  BY DEF Delete, Call
<1>5. stack \in Seq(Range(stack)) /\ Len(stack) = 4 /\ <<source, sensor>> \in Seq({source, sensor})
  BY Short DEF Range
<1>6. EnsureGitHubEvent(c, s) = plan /\ TeardownGitHubEvent(c, s) = <<gone>>
  BY DEF EnsureGitHubEvent, TeardownGitHubEvent
<1> HIDE DEF stack, source, sensor, gone
<1>7. /\ plan \in Seq(Range(plan)) /\ DOMAIN plan = 1..6
      /\ \A i \in 1..4 : plan[i] = stack[i]
      /\ plan[5] = source /\ plan[6] = sensor
  <2> DEFINE S == Range(stack) \cup {source, sensor}
             pair == <<source, sensor>>
  <2>1. stack \in Seq(S) /\ pair \in Seq(S)
    BY <1>5
  <2>2. Range(pair) = {source, sensor} /\ Len(pair) = 2 /\ pair[1] = source /\ pair[2] = sensor
    BY Short
  <2>3. S = Range(stack) \cup Range(pair)
    BY <2>2
  <2> HIDE DEF S, pair
  <2>4. /\ stack \o pair \in Seq(S)
        /\ Range(stack \o pair) = Range(stack) \cup Range(pair)
    BY <2>1, ConcatRange
  <2>5. plan \in Seq(S) /\ Range(plan) = S
    BY <2>3, <2>4 DEF pair
  <2>6. /\ Len(stack \o pair) = 6
        /\ \A i \in 1..4 : (stack \o pair)[i] = stack[i]
        /\ (stack \o pair)[5] = source /\ (stack \o pair)[6] = sensor
    BY <1>5, <2>1, <2>2, TwoMore
  <2>7. /\ Len(plan) = 6 /\ \A i \in 1..4 : plan[i] = stack[i]
        /\ plan[5] = source /\ plan[6] = sensor
    BY <2>6 DEF pair
  <2> HIDE DEF plan
  <2> QED
    BY <2>5, <2>7
<1> HIDE DEF plan
<1>8. \A call \in Range(plan) : \/ call = source \/ call = sensor
                              \/ \E i \in 1..4 : call = stack[i]
  BY <1>7 DEF Range
<1>9. ASSUME NEW call \in Range(plan) PROVE ReconcileCall(c, call)
  BY <1>2, <1>3, <1>8 DEF ReconcileCall, IsAsk
<1>10. TeardownCall(gone)
  BY <1>3, <1>4 DEF TeardownCall
<1>11. Removes(<<gone>>, plan)
  <2> SUFFICES ASSUME NEW call \in Range(plan)
               PROVE  IsShared(call.object) \/ Delete(call.object) \in Range(<<gone>>)
    BY DEF Removes
  <2>1. CASE call = sensor
    BY <2>1, <1>2, Short DEF gone
  <2>2. CASE call # sensor
    BY <2>2, <1>2, <1>3, <1>8
  <2> QED
    BY <2>1, <2>2
<1>12. NeedsBefore(plan, {})
  <2> SUFFICES ASSUME NEW i \in 1..6, NEW n \in Needs(plan[i].object)
               PROVE  \E j \in 1..(i - 1) : IsAsk(plan[j]) /\ plan[j].object = n
    BY <1>7 DEF NeedsBefore
  <2>1. i = 6
    BY <1>2, <1>3, <1>7 DEF Needs
  <2>2. n = EventSource \/ \E j \in 1..4 : n = EventStack[j]
    BY <2>1, <1>2, <1>3, <1>7 DEF Needs
  <2>3. CASE n = EventSource
    BY <2>1, <2>3, <1>2, <1>7 DEF IsAsk
  <2>4. CASE n # EventSource
    <3>1. PICK j \in 1..4 : n = EventStack[j]
      BY <2>2, <2>4
    <3>2. j \in 1..(i - 1) /\ plan[j] = stack[j]
      BY <2>1, <1>7
    <3>3. IsAsk(plan[j]) /\ plan[j].object = n
      BY <3>1, <3>2, <1>2 DEF IsAsk
    <3> QED
      BY <3>2, <3>3
  <2> QED
    BY <2>3, <2>4
<1>13. Range(<<gone>>) = {gone} /\ <<gone>> \in Seq({gone})
  BY Short
<1> QED
  BY <1>6, <1>7, <1>9, <1>10, <1>11, <1>12, <1>13 DEF Fits

\* A repository and its webhook.
LEMMA RepositoryFits ==
  ASSUME NEW c \in Crs, NEW s
  PROVE  Fits(c, EnsureGitRepository(c, s), TeardownGitRepository(c, s))
<1> DEFINE r == Repository(c)
           w == RepositoryWebhook(c)
           askR == Apply(r, <<s.repository>>)
           askW == Apply(w, <<s.events>> \o URLSecretRef(c))
<1>1. /\ r.kind = "Repository" /\ r.ns = "" /\ ~IsShared(r)
      /\ w.kind = "RepositoryWebhook" /\ w.ns = "" /\ ~IsShared(w)
  <2>1. r.kind = "Repository" /\ r.ns = "" /\ w.kind = "RepositoryWebhook" /\ w.ns = ""
    BY DEF Repository, RepositoryWebhook, Object
  <2> QED
    BY <2>1, OwnObject
<1>2. /\ askR.op = "apply" /\ askR.object = r /\ ~askR.owned
      /\ askW.op = "apply" /\ askW.object = w /\ ~askW.owned
  BY DEF Apply, Call
<1>3. /\ Delete(r).op = "delete" /\ Delete(r).object = r
      /\ Delete(w).op = "delete" /\ Delete(w).object = w
  BY DEF Delete, Call
<1>4. /\ s.events = "" =>
           EnsureGitRepository(c, s) = <<askR>> /\ TeardownGitRepository(c, s) = <<Delete(r)>>
      /\ s.events # "" => /\ EnsureGitRepository(c, s) = <<askR, askW>>
                          /\ TeardownGitRepository(c, s) = <<Delete(w), Delete(r)>>
  BY Joined DEF EnsureGitRepository, TeardownGitRepository
<1> HIDE DEF r, w, askR, askW
<1>5. ReconcileCall(c, askR) /\ ReconcileCall(c, askW) /\ IsAsk(askR) /\ IsAsk(askW)
  BY <1>1, <1>2 DEF ReconcileCall, IsAsk
<1>6. TeardownCall(Delete(r)) /\ TeardownCall(Delete(w))
  BY <1>1, <1>3 DEF TeardownCall
<1>7. Fits(c, <<askR>>, <<Delete(r)>>)
  BY <1>1, <1>2, <1>5, OneFits
<1>8. Fits(c, <<askR, askW>>, <<Delete(w), Delete(r)>>)
  <2>1. /\ Range(<<askR, askW>>) = {askR, askW} /\ <<askR, askW>> \in Seq({askR, askW})
        /\ Range(<<Delete(w), Delete(r)>>) = {Delete(w), Delete(r)}
        /\ <<Delete(w), Delete(r)>> \in Seq({Delete(w), Delete(r)})
    BY Short
  <2>2. NeedsBefore(<<askR, askW>>, {})
    BY <2>1, <1>1, <1>2, NeedsNothing
  <2>3. Removes(<<Delete(w), Delete(r)>>, <<askR, askW>>)
    BY <2>1, <1>2 DEF Removes
  <2> QED
    BY <2>1, <2>2, <2>3, <1>5, <1>6 DEF Fits
<1> QED
  BY <1>4, <1>7, <1>8

\* A Domain's certificate comes after its issuer, which stays.
LEMMA DomainFits ==
  ASSUME NEW c \in Crs, NEW s
  PROVE  Fits(c, EnsureDomain(c, s), TeardownDomain(c, s))
<1> DEFINE i == Issuer(c)
           d == ClusterDomainClaim(s)
           o == Certificate(c, s)
           askI == Apply(i, <<>>)
           askD == Apply(d, <<c.ns>>)
           askO == Call("certify", o, <<s.renewBefore>>, FALSE, TRUE)
<1>1. /\ i.kind = "Issuer" /\ IsShared(i)
      /\ d.kind = "ClusterDomainClaim" /\ ~IsShared(d)
      /\ o.kind = "Certificate" /\ ~IsShared(o)
  BY SharedShape DEF Issuer, ClusterDomainClaim, Certificate, Object, IsShared
<1>2. Needs(o) = {i}
  BY DEF Needs, Issuer, Certificate, Object
<1>3. /\ askI.op = "apply" /\ askI.object = i /\ ~askI.owned
      /\ askD.op = "apply" /\ askD.object = d /\ ~askD.owned
      /\ askO.op = "certify" /\ askO.object = o /\ ~askO.owned
  BY DEF Apply, Call
<1>4. /\ Delete(d).op = "delete" /\ Delete(d).object = d
      /\ Delete(o).op = "delete" /\ Delete(o).object = o
  BY DEF Delete, Call
<1>5. /\ s.tlsStrategy = "platform" =>
           EnsureDomain(c, s) = <<askD>> /\ TeardownDomain(c, s) = <<Delete(d)>>
      /\ s.tlsStrategy # "platform" => /\ EnsureDomain(c, s) = <<askI, askD, askO>>
                                       /\ TeardownDomain(c, s) = <<Delete(d), Delete(o)>>
  BY Joined DEF EnsureDomain, EnsurePlatform, EnsureCustom, TeardownDomain
<1> HIDE DEF i, d, o, askI, askD, askO
<1>6. /\ ReconcileCall(c, askI) /\ ReconcileCall(c, askD) /\ ReconcileCall(c, askO)
      /\ IsAsk(askI) /\ IsAsk(askD) /\ IsAsk(askO)
  BY <1>1, <1>3 DEF ReconcileCall, IsAsk
<1>7. TeardownCall(Delete(d)) /\ TeardownCall(Delete(o))
  BY <1>1, <1>4 DEF TeardownCall
<1>8. Fits(c, <<askD>>, <<Delete(d)>>)
  BY <1>1, <1>3, <1>6, OneFits
<1>9. Fits(c, <<askI, askD, askO>>, <<Delete(d), Delete(o)>>)
  <2> DEFINE plan == <<askI, askD, askO>>
  <2>1. /\ Range(plan) = {askI, askD, askO} /\ plan \in Seq({askI, askD, askO})
        /\ Range(<<Delete(d), Delete(o)>>) = {Delete(d), Delete(o)}
        /\ <<Delete(d), Delete(o)>> \in Seq({Delete(d), Delete(o)})
    BY Short
  <2>2. DOMAIN plan = 1..3 /\ plan[1] = askI /\ plan[2] = askD /\ plan[3] = askO
    OBVIOUS
  <2> HIDE DEF plan
  <2>3. Needs(i) = {} /\ Needs(d) = {}
    BY <1>1 DEF Needs
  <2>4. NeedsBefore(plan, {})
    <3> SUFFICES ASSUME NEW k \in 1..3, NEW n \in Needs(plan[k].object)
                 PROVE  \E j \in 1..(k - 1) : IsAsk(plan[j]) /\ plan[j].object = n
      BY <2>2 DEF NeedsBefore
    <3>1. k = 3 /\ n = i
      BY <2>2, <2>3, <1>2, <1>3
    <3>2. 1 \in 1..(k - 1) /\ IsAsk(plan[1]) /\ plan[1].object = n
      BY <3>1, <2>2, <1>3, <1>6
    <3> QED
      BY <3>2
  <2>5. Removes(<<Delete(d), Delete(o)>>, plan)
    BY <2>1, <1>1, <1>3 DEF Removes
  <2> QED
    BY <2>1, <2>4, <2>5, <1>6, <1>7 DEF Fits, plan
<1> QED
  BY <1>5, <1>8, <1>9

\* A Route's object points to a service, and to the Secret of its host.
LEMMA RouteValue ==
  ASSUME NEW s, s.host \in Seq(STRING)
  PROVE  IsValue(RouteSpec(s))
<1> DEFINE host == s.host
           plain == [i \in DOMAIN host |-> IF host[i] = "." THEN "-" ELSE host[i]]
           S == {s.service, "blanketops-tls", "-"} \cup STRING
<1>1. <<s.service>> \in Seq(S) /\ <<"blanketops-tls">> \in Seq(S) /\ <<>> \in Seq(S)
  OBVIOUS
<1>2. CertSecretName(s.host) \in Seq(S)
  <2>1. "-" \in S /\ STRING \subseteq S
    OBVIOUS
  <2>2. Len(host) \in Nat /\ DOMAIN host = 1..Len(host) /\ \A i \in DOMAIN host : host[i] \in STRING
    BY LenProperties
  <2> HIDE DEF host, S
  <2>3. \A i \in DOMAIN host : plain[i] \in S
    BY <2>1, <2>2
  <2>4. plain \in [1..Len(host) -> S]
    BY <2>2, <2>3
  <2>5. plain \in Seq(S)
    BY <2>2, <2>4
  <2>6. SanitizeHost(s.host) = plain
    BY DEF SanitizeHost, host
  <2> HIDE DEF plain
  <2> QED
    BY <1>1, <2>5, <2>6, ConcatProperties DEF CertSecretName
<1> HIDE DEF S
<1> DEFINE rest == IF s.tlsEnabled THEN CertSecretName(s.host) ELSE <<>>
<1>3. rest \in Seq(S)
  BY <1>1, <1>2
<1> HIDE DEF rest
<1>4. <<s.service>> \o rest \in Seq(S) /\ Len(<<s.service>> \o rest) >= 1
  <2>1. Len(<<s.service>>) = 1
    OBVIOUS
  <2> QED
    BY <2>1, <1>1, <1>3, ConcatProperties, LenProperties
<1>5. RouteSpec(s) = <<s.service>> \o rest
  BY DEF RouteSpec, rest
<1> QED
  BY <1>4, <1>5, IsValueOf

\* A Route has one object, which is removed when it is disabled or torn down.
LEMMA RouteFits ==
  ASSUME NEW c \in Crs, NEW s, s.host \in Seq(STRING)
  PROVE  Fits(c, EnsureRoute(c, s), TeardownRoute(c, s))
<1>1. ASSUME NEW o, NEW op,
             \/ op = "ingress" /\ o = IngressResource(c, s)
             \/ op = "apply" /\ o = DomainMapping(c, s)
      PROVE  Fits(c, EnsureUnder(op, o, s), <<Delete(o)>>)
  <2>1. /\ o.kind \in {"Ingress", "DomainMapping"} /\ o.ns = c.ns
        /\ o.kind = "Ingress" <=> op = "ingress"
        /\ op \in {"ingress", "apply"}
    BY <1>1 DEF IngressResource, DomainMapping, Object
  <2>2. ~IsShared(o)
    BY <2>1, OwnObject
  <2> DEFINE ask == Call(op, o, RouteSpec(s), FALSE, TRUE)
             drop == Call("delete", o, <<>>, FALSE, TRUE)
  <2>3. /\ ask.op = op /\ ask.object = o /\ ~ask.owned /\ ask.value = RouteSpec(s)
        /\ drop.op = "delete" /\ drop.object = o /\ ~drop.owned
    BY DEF Call
  <2>4. EnsureUnder(op, o, s) = IF s.enabled THEN <<ask>> ELSE <<drop>>
    BY DEF EnsureUnder
  <2> HIDE DEF ask, drop
  <2>5. ReconcileCall(c, ask) /\ IsAsk(ask)
    BY <2>1, <2>2, <2>3, RouteValue DEF ReconcileCall, IsAsk
  <2>6. ReconcileCall(c, drop) /\ ~IsAsk(drop)
    BY <2>1, <2>2, <2>3 DEF ReconcileCall, IsAsk
  <2>7. Fits(c, <<ask>>, <<Delete(o)>>)
    BY <2>1, <2>2, <2>3, <2>5, OneFits
  <2>8. Fits(c, <<drop>>, <<>>)
    BY <2>1, <2>3, <2>6, OneStays
  <2>9. Fits(c, <<drop>>, <<Delete(o)>>)
    <3>1. Removes(<<Delete(o)>>, <<drop>>)
      BY <2>6, Short DEF Removes
    <3> QED
      BY <2>7, <2>8, <3>1 DEF Fits
  <2> QED
    BY <2>4, <2>7, <2>9
<1>2. CASE ~ForRoute(s)
  <2>1. EnsureRoute(c, s) = <<Refuse(TRUE)>> /\ TeardownRoute(c, s) = <<Refuse(FALSE)>>
    BY <1>2 DEF EnsureRoute, TeardownRoute
  <2>2. Fits(c, <<Refuse(TRUE)>>, <<Refuse(FALSE)>>)
    BY RefuseFits
  <2> QED
    BY <2>1, <2>2
<1>3. CASE ForRoute(s) /\ s.runtime = "knative"
  <2>1. /\ EnsureRoute(c, s) = EnsureUnder("apply", DomainMapping(c, s), s)
        /\ TeardownRoute(c, s) = <<Delete(DomainMapping(c, s))>>
    BY <1>3 DEF EnsureRoute, TeardownRoute, EnsureDomainMapping
  <2> QED
    BY <2>1, <1>1
<1>4. CASE ForRoute(s) /\ s.runtime # "knative"
  <2>1. /\ EnsureRoute(c, s) = EnsureUnder("ingress", IngressResource(c, s), s)
        /\ TeardownRoute(c, s) = <<Delete(IngressResource(c, s))>>
    BY <1>4 DEF EnsureRoute, TeardownRoute, EnsureIngress
  <2> QED
    BY <2>1, <1>1
<1> QED
  BY <1>2, <1>3, <1>4

\* Each of the reconcilers fits its teardown.
LEMMA PartFits ==
  ASSUME NEW part \in Parts, NEW c \in Crs, NEW s, IsResolved(<<part>>, s)
  PROVE  Fits(c, Reconcile(part, c, s), Teardown(part, c, s))
<1>1. /\ part = "secretstore" => s.storeKind \in {"ClusterSecretStore", "SecretStore"}
      /\ part = "route" => s.host \in Seq(STRING)
  BY DEF IsResolved
<1>2. CASE part \in {"git/build", "registry/build", "git/deployment", "packagerepo",
                    "packageregistry", "staterepo"}
  <2> DEFINE value(key) == <<StoreName(s.env), key>>
  <2>0. \A name, v : /\ Fits(c, External("converge", c, name, v), DeleteExternal(c, name))
                   /\ Fits(c, External("create", c, name, v), DeleteExternal(c, name))
    BY ExternalFits
  <2>1. CASE part = "git/build"
    <3>1. CASE s.cloneSecret = ""
      <4>1. /\ Reconcile(part, c, s) = <<Refuse(FALSE)>>
            /\ Teardown(part, c, s) = <<Refuse(FALSE)>>
        BY <2>1, <3>1, ReconcileParts, TeardownParts
        DEF BuildGitSSHSecret, DeleteBuildGitSSHSecret
      <4> QED
        BY <4>1, RefuseFits
    <3>2. CASE ~(s.cloneSecret = "")
      <4>1. /\ Reconcile(part, c, s) = External("converge", c, s.cloneSecret, value("git"))
            /\ Teardown(part, c, s) = DeleteExternal(c, s.cloneSecret)
        BY <2>1, <3>2, ReconcileParts, TeardownParts
        DEF BuildGitSSHSecret, DeleteBuildGitSSHSecret
      <4> QED
        BY <2>0, <4>1
    <3> QED
      BY <3>1, <3>2
  <2>2. CASE part = "registry/build"
    <3>1. /\ Reconcile(part, c, s) = External("create", c, s.account.secret, value("registry"))
          /\ Teardown(part, c, s) = DeleteExternal(c, s.account.secret)
      BY <2>2, ReconcileParts, TeardownParts DEF BuildRegistrySecret, DeleteBuildRegistrySecret
    <3> QED
      BY <2>0, <3>1
  <2>3. CASE part = "git/deployment"
    <3>1. CASE s.cloneSecret = ""
      <4>1. /\ Reconcile(part, c, s) = <<Refuse(FALSE)>>
            /\ Teardown(part, c, s) = <<Refuse(FALSE)>>
        BY <2>3, <3>1, ReconcileParts, TeardownParts
        DEF DeploymentGitSSHSecret, DeleteDeploymentGitSSHSecret
      <4> QED
        BY <4>1, RefuseFits
    <3>2. CASE ~(s.cloneSecret = "")
      <4>1. /\ Reconcile(part, c, s) = External("converge", c, s.cloneSecret, value("git"))
            /\ Teardown(part, c, s) = DeleteExternal(c, s.cloneSecret)
        BY <2>3, <3>2, ReconcileParts, TeardownParts
        DEF DeploymentGitSSHSecret, DeleteDeploymentGitSSHSecret
      <4> QED
        BY <2>0, <4>1
    <3> QED
      BY <3>1, <3>2
  <2>4. CASE part = "packagerepo"
    <3>1. /\ Reconcile(part, c, s) = External("converge", c, s.credentialsSecret, value("git"))
          /\ Teardown(part, c, s) = DeleteExternal(c, s.credentialsSecret)
      BY <2>4, ReconcileParts, TeardownParts DEF PackageRepositorySecret, DeletePackageRepositorySecret
    <3> QED
      BY <2>0, <3>1
  <2>5. CASE part = "packageregistry"
    <3>1. /\ Reconcile(part, c, s) = External("converge", c, s.credentialsSecret, value("registry"))
          /\ Teardown(part, c, s) = DeleteExternal(c, s.credentialsSecret)
      BY <2>5, ReconcileParts, TeardownParts DEF PackageRegistrySecret, DeletePackageRegistrySecret
    <3> QED
      BY <2>0, <3>1
  <2>6. CASE part = "staterepo"
    <3>1. CASE ~s.stateDeclared
      <4>1. /\ Reconcile(part, c, s) = <<Refuse(FALSE)>>
            /\ Teardown(part, c, s) = <<Refuse(FALSE)>>
        BY <2>6, <3>1, ReconcileParts, TeardownParts
        DEF PackageStateRepositorySecret, DeletePackageStateRepositorySecret
      <4> QED
        BY <4>1, RefuseFits
    <3>2. CASE s.stateDeclared
      <4>1. /\ Reconcile(part, c, s) = External("converge", c, s.stateSecret, value("git"))
            /\ Teardown(part, c, s) = DeleteExternal(c, s.stateSecret)
        BY <2>6, <3>2, ReconcileParts, TeardownParts
        DEF PackageStateRepositorySecret, DeletePackageStateRepositorySecret
      <4> QED
        BY <2>0, <4>1
    <3> QED
      BY <3>1, <3>2
  <2> QED
    BY <1>2, <2>1, <2>2, <2>3, <2>4, <2>5, <2>6
<1>3. CASE part = "secretstore"
  BY <1>1, <1>3, ReconcileParts, TeardownParts, SecretStoreFits
<1>4. CASE part \in {"git/fluxcd", "hookurl", "buildbot"}
  BY <1>4, ReconcileParts, TeardownParts, SecretsFit
<1>5. CASE part \in {"webhook", "crossplane"}
  BY <1>5, ReconcileParts, TeardownParts, WebhookFits
<1>6. CASE part = "githubevent"
  BY <1>6, ReconcileParts, TeardownParts, EventFits
<1>7. CASE part = "gitrepository"
  BY <1>7, ReconcileParts, TeardownParts, RepositoryFits
<1>8. CASE part = "domain"
  BY <1>8, ReconcileParts, TeardownParts, DomainFits
<1>9. CASE part = "route"
  BY <1>1, <1>9, ReconcileParts, TeardownParts, RouteFits
<1> QED
  BY <1>2, <1>3, <1>4, <1>5, <1>6, <1>7, <1>8, <1>9 DEF Parts

\* A sequence over a set is one over a larger set.
LEMMA Wider == ASSUME NEW A, NEW B, A \subseteq B PROVE Seq(A) \subseteq Seq(B)
<1> SUFFICES ASSUME NEW v \in Seq(A) PROVE v \in Seq(B)
  OBVIOUS
<1>1. Len(v) \in Nat /\ v \in [1..Len(v) -> A]
  BY LenProperties
<1>2. v \in [1..Len(v) -> B]
  BY <1>1
<1> QED
  BY <1>1, <1>2

\* A function from 1..n is a sequence of n elements.
LEMMA AsSequence ==
  ASSUME NEW S, NEW n \in Nat, NEW f \in [1..n -> S]
  PROVE  f \in Seq(S) /\ Len(f) = n
OBVIOUS

\* Calls in order stay in order when calls in order are appended.
LEMMA NeedsAppend ==
  ASSUME NEW S, NEW u \in Seq(S), NEW v \in Seq(S), NEW there,
         NeedsBefore(u, there), NeedsBefore(v, there)
  PROVE  NeedsBefore(u \o v, there)
<1> DEFINE w == u \o v
<1>1. /\ Len(u) \in Nat /\ Len(v) \in Nat /\ DOMAIN w = 1..(Len(u) + Len(v))
      /\ DOMAIN u = 1..Len(u) /\ DOMAIN v = 1..Len(v)
      /\ \A i \in 1..Len(u) : w[i] = u[i]
      /\ \A i \in 1..Len(v) : w[Len(u) + i] = v[i]
  OBVIOUS
<1> HIDE DEF w
<1> SUFFICES ASSUME NEW i \in DOMAIN w, IsAsk(w[i]), NEW n \in Needs(w[i].object), n \notin there
             PROVE  \E j \in 1..(i - 1) : IsAsk(w[j]) /\ w[j].object = n
  BY DEF NeedsBefore, w
<1>2. CASE i \in 1..Len(u)
  <2>1. PICK j \in 1..(i - 1) : IsAsk(u[j]) /\ u[j].object = n
    BY <1>1, <1>2 DEF NeedsBefore
  <2>2. j \in 1..Len(u)
    BY <1>1, <1>2, <2>1
  <2> QED
    BY <1>1, <2>1, <2>2
<1>3. CASE i \notin 1..Len(u)
  <2> DEFINE k == i - Len(u)
  <2>1. k \in 1..Len(v) /\ i = Len(u) + k
    BY <1>1, <1>3
  <2> HIDE DEF k
  <2>2. w[i] = v[k]
    BY <1>1, <2>1
  <2>3. PICK j \in 1..(k - 1) : IsAsk(v[j]) /\ v[j].object = n
    BY <1>1, <2>1, <2>2 DEF NeedsBefore
  <2>4. j \in 1..Len(v) /\ Len(u) + j \in 1..(i - 1)
    BY <1>1, <2>1, <2>3
  <2>5. w[Len(u) + j] = v[j]
    BY <1>1, <2>4
  <2> QED
    BY <2>3, <2>4, <2>5
<1> QED
  BY <1>2, <1>3

\* The calls of all reconcilers of a CR, and of all their teardowns.
LEMMA PlanFits ==
  ASSUME NEW x \in Setups, NEW c \in Crs, NEW s \in x.specs[c]
  PROVE  Fits(c, Reconciles(x.parts, c, s), Teardowns(x.parts, c, s))
<1> DEFINE parts == x.parts
           a == [i \in DOMAIN parts |-> Reconcile(parts[i], c, s)]
           b == [i \in DOMAIN parts |-> Teardown(parts[i], c, s)]
           A == UNION {Range(a[i]) : i \in 1..Len(parts)}
           B == UNION {Range(b[i]) : i \in 1..Len(parts)}
<1>1. /\ parts \in Seq(Parts) /\ Len(parts) \in Nat /\ DOMAIN parts = 1..Len(parts)
      /\ IsResolved(parts, s)
  BY ClusterObjectsAssumption, LenProperties
<1> HIDE DEF parts
<1>2. ASSUME NEW i \in 1..Len(parts) PROVE Fits(c, a[i], b[i])
  <2>1. parts[i] \in Parts /\ DOMAIN <<parts[i]>> = {1} /\ <<parts[i]>>[1] = parts[i]
    BY <1>1
  <2>2. IsResolved(<<parts[i]>>, s)
    BY <1>1, <2>1 DEF IsResolved
  <2> QED
    BY <1>1, <2>1, <2>2, PartFits
<1>3. DOMAIN a = 1..Len(parts) /\ DOMAIN b = 1..Len(parts)
  BY <1>1
<1>4. Reconciles(parts, c, s) = FlattenSeq(a) /\ Teardowns(parts, c, s) = FlattenSeq(b)
  BY DEF Reconciles, Teardowns
<1>5. /\ a = [i \in 1..Len(parts) |-> a[i]] /\ b = [i \in 1..Len(parts) |-> b[i]]
  BY <1>3
<1> HIDE DEF a, b
<1>6. a \in Seq(Seq(A)) /\ b \in Seq(Seq(B)) /\ Len(a) = Len(parts) /\ Len(b) = Len(parts)
  <2>1. ASSUME NEW i \in 1..Len(parts) PROVE a[i] \in Seq(A) /\ b[i] \in Seq(B)
    <3>1. a[i] \in Seq(Range(a[i])) /\ b[i] \in Seq(Range(b[i]))
      BY <1>2 DEF Fits
    <3>2. Range(a[i]) \subseteq A /\ Range(b[i]) \subseteq B
      OBVIOUS
    <3> HIDE DEF A, B
    <3> QED
      BY <3>1, <3>2, Wider
  <2> HIDE DEF A, B
  <2>2. a \in [1..Len(parts) -> Seq(A)] /\ b \in [1..Len(parts) -> Seq(B)]
    BY <1>5, <2>1
  <2> QED
    BY <1>1, <2>2, AsSequence
<1>7. /\ FlattenSeq(a) \in Seq(A) /\ Range(FlattenSeq(a)) = A
      /\ FlattenSeq(b) \in Seq(B) /\ Range(FlattenSeq(b)) = B
  BY <1>6, FlattenRange
<1>8. \A call \in A : ReconcileCall(c, call)
  BY <1>2 DEF Fits
<1>9. \A call \in B : TeardownCall(call)
  BY <1>2 DEF Fits
<1>10. Removes(FlattenSeq(b), FlattenSeq(a))
  BY <1>2, <1>7 DEF Fits, Removes
<1>11. NeedsBefore(FlattenSeq(a), {})
  <2>1. CASE a = <<>>
    BY <2>1 DEF FlattenSeq, NeedsBefore
  <2>2. CASE a # <<>>
    <3> HIDE DEF A, B
    <3> DEFINE G == [i \in Nat |-> {v \in Seq(A) : NeedsBefore(v, {})}]
    <3>1. \A i \in 1..Len(a) : a[i] \in Seq(A) /\ NeedsBefore(a[i], {})
      BY <1>2, <1>6 DEF Fits
    <3>2. 1 \in 1..Len(a)
      BY <1>6, <2>2
    <3>3. a[1] \in G[1]
      BY <3>1, <3>2
    <3>4. ASSUME NEW i \in Nat, NEW v \in Seq(A), i + 1 \in 2..Len(a), v \in G[i]
          PROVE  v \o a[i + 1] \in G[i + 1]
      <4>1. NeedsBefore(v, {}) /\ a[i + 1] \in Seq(A) /\ NeedsBefore(a[i + 1], {})
        BY <3>1, <3>4
      <4>2. v \o a[i + 1] \in Seq(A) /\ NeedsBefore(v \o a[i + 1], {})
        BY <4>1, NeedsAppend
      <4>3. \A j \in Nat, u \in Seq(A) : NeedsBefore(u, {}) => u \in G[j]
        OBVIOUS
      <4> HIDE DEF G
      <4>4. i + 1 \in Nat
        OBVIOUS
      <4> QED
        BY <4>2, <4>3, <4>4
    <3> HIDE DEF G
    <3>5. FlattenSeq(a) \in G[Len(a)]
      BY <1>6, <2>2, <3>3, <3>4, FlattenInduction
    <3> QED
      BY <1>6, <3>5 DEF G
  <2> QED
    BY <2>1, <2>2
<1> HIDE DEF A, B
<1> QED
  BY <1>4, <1>7, <1>8, <1>9, <1>10, <1>11 DEF Fits, parts

----------------------------------------------------------------------------
(* The inductive invariant.                                                 *)

\* All that contracts of a CR ask for, and all calls for them.
AllWanted(c) == UNION {Wanted(c, s) : s \in Specs(c)}
CallsOf(c) ==
  UNION {Range(ReconcilePlan(c, s)) \cup Range(TeardownPlan(c, s)) : s \in Specs(c)}

\* The types of the state.
TypeInv ==
  /\ setup \in Setups
  /\ phase \in [Crs -> {"live", "deleting", "gone"}]
  /\ wake \in [Crs -> BOOLEAN]
  /\ doing \in [Crs -> {"idle", "reconcile", "outdated", "teardown"}]
  /\ outcome \in [Crs -> {"none", "ready", "provisioning", "failed"}]
  /\ DOMAIN spec = Crs /\ DOMAIN todo = Crs /\ DOMAIN dropped = Crs
  /\ \A c \in Crs : /\ spec[c] \in Specs(c)
                    /\ todo[c] \in Seq(CallsOf(c))
                    /\ dropped[c] \subseteq AllWanted(c)
  /\ changes \in 0..MaxChanges /\ faults \in 0..MaxFaults

\* An object's owner is a CR that is not gone and asks, or asked, for it; or the
\* ExternalSecret it is the target of.
OwnedByCr(o, d) ==
  /\ cluster[o].owner = CrObject(d)
  /\ phase[d] # "gone" /\ o.ns = d.ns
  /\ o \in Wanted(d, spec[d]) \cup dropped[d]

\* The operator owns the Secrets it makes, through their ExternalSecrets.
OwnedByExternal(o) == IsExternal(cluster[o].owner) /\ o = TargetOf(cluster[o].owner)

\* What is kept of an object.
IsState(r) == r = [value |-> r.value, owner |-> r.owner, ready |-> r.ready]

\* What has lost its owner is a Secret of the operator's, a store, or was dropped.
ObjectInv(o) ==
  /\ IsState(cluster[o])
  /\ o.kind \notin {"cr", "gone", "none"}
  /\ o.kind = "ExternalSecret" => Single(o)
  /\ \/ cluster[o].owner \in {NoOwner, Gone}
     \/ \E d \in Crs : OwnedByCr(o, d)
     \/ OwnedByExternal(o)
  /\ IsShared(o) => cluster[o].owner = NoOwner
  /\ o.kind = "SecretStore" => cluster[o].owner # NoOwner
  /\ cluster[o].owner = Gone =>
       IsTarget(o) \/ o.kind = "SecretStore" \/ \E d \in Crs : o \in dropped[d]
  /\ o.kind = "Ingress" => IsValue(cluster[o].value)
  /\ Needs(o) \subseteq DOMAIN cluster

\* All that is in the cluster.
ClusterInv == \A o \in DOMAIN cluster : ObjectInv(o)

\* The operator works on an ExternalSecret.
SyncInv ==
  \/ sync = NoSync
  \/ /\ IsExternal(sync.of)
     /\ sync = [of |-> sync.of, value |-> sync.value, stale |-> sync.stale]

\* A worker is at work as the CR's phase and contract say.
WorkInv(c) ==
  /\ doing[c] = "idle" => todo[c] = <<>>
  /\ doing[c] = "teardown" =>
       phase[c] = "deleting" /\ \A call \in Range(todo[c]) : ~IsAsk(call)
  /\ doing[c] = "reconcile" => Range(todo[c]) \subseteq Range(ReconcilePlan(c, spec[c]))
  /\ doing[c] = "outdated" => outcome[c] = "none"
  /\ phase[c] = "gone" => doing[c] = "idle" /\ ~wake[c] /\ outcome[c] = "none"
  /\ \A call \in Range(todo[c]) : IsAsk(call) =>
       call.object \in Wanted(c, spec[c]) \cup dropped[c]
  /\ NeedsBefore(todo[c], DOMAIN cluster)

\* What a teardown has passed is not there, or another CR has made it again.
TornInv(c) ==
  doing[c] = "teardown" =>
    \A o \in Wanted(c, spec[c]) \cap DOMAIN cluster :
      \/ IsShared(o) \/ o.kind = "SecretStore" \/ Delete(o) \in Range(todo[c])
      \/ ~Undisputed(c, o) /\ cluster[o].owner # CrObject(c)

\* What a reconcile has passed is there, and so is all of one that was ready.
KeepInv(c) ==
  \A call \in Asks(c, spec[c]) : call.object \notin dropped[c] /\ Undisputed(c, call.object) =>
    /\ doing[c] = "reconcile" => call \in Range(todo[c]) \/ Keeps(c, call)
    /\ phase[c] = "live" /\ outcome[c] = "ready" => Keeps(c, call)

\* What a CR's worker relies on.
CrInv(c) == WorkInv(c) /\ TornInv(c) /\ KeepInv(c)

\* The inductive invariant.
IInv == TypeInv /\ ClusterInv /\ SyncInv /\ \A c \in Crs : CrInv(c)

\* In the lemmas below, a step leaves the setup alone, so it leaves the plans alone.
LEMMA SamePlans ==
  ASSUME setup' = setup
  PROVE  /\ \A c : Specs(c)' = Specs(c) /\ AllWanted(c)' = AllWanted(c) /\ CallsOf(c)' = CallsOf(c)
         /\ \A c, s : /\ ReconcilePlan(c, s)' = ReconcilePlan(c, s)
                      /\ TeardownPlan(c, s)' = TeardownPlan(c, s)
                      /\ Asks(c, s)' = Asks(c, s)
                      /\ Wanted(c, s)' = Wanted(c, s)
         /\ \A c, o : Undisputed(c, o)' <=> Undisputed(c, o)
<1>1. \A c : Specs(c)' = Specs(c)
  BY DEF Specs
<1>2. \A c, s : /\ ReconcilePlan(c, s)' = ReconcilePlan(c, s)
                /\ TeardownPlan(c, s)' = TeardownPlan(c, s)
  BY DEF ReconcilePlan, TeardownPlan
<1>3. \A c, s : Asks(c, s)' = Asks(c, s)
  BY <1>2 DEF Asks
<1>4. \A c, s : Wanted(c, s)' = Wanted(c, s)
  BY <1>3 DEF Wanted
<1>5. \A c : AllWanted(c)' = AllWanted(c)
  BY <1>1, <1>4 DEF AllWanted
<1>6. \A c : CallsOf(c)' = CallsOf(c)
  BY <1>1, <1>2 DEF CallsOf
<1>7. \A c, o : Undisputed(c, o)' <=> Undisputed(c, o)
  BY <1>1, <1>2 DEF Undisputed
<1> QED
  BY <1>1, <1>2, <1>3, <1>4, <1>5, <1>6, <1>7

\* A CR with a contract of its kind has plans that fit.
LEMMA PlansFit ==
  ASSUME setup \in Setups, NEW c \in Crs, NEW s \in Specs(c)
  PROVE  Fits(c, ReconcilePlan(c, s), TeardownPlan(c, s))
BY PlanFits DEF Specs, ReconcilePlan, TeardownPlan

\* What a call of a CR may be.
LEMMA CallFacts ==
  ASSUME setup \in Setups, NEW c \in Crs, NEW call \in CallsOf(c)
  PROVE  /\ call.op = "delete" =>
              ~IsShared(call.object) /\ call.object.kind \notin {"cr", "gone", "none"}
         /\ IsAsk(call) => /\ ReconcileCall(c, call)
                           /\ \E s \in Specs(c) : call \in Asks(c, s)
<1>1. PICK s \in Specs(c) : call \in Range(ReconcilePlan(c, s)) \cup Range(TeardownPlan(c, s))
  BY DEF CallsOf
<1>2. Fits(c, ReconcilePlan(c, s), TeardownPlan(c, s))
  BY PlansFit
<1>3. CASE call \in Range(ReconcilePlan(c, s))
  <2>1. ReconcileCall(c, call)
    BY <1>2, <1>3 DEF Fits
  <2>2. IsAsk(call) => call \in Asks(c, s)
    BY <1>3 DEF Asks
  <2> QED
    BY <2>1, <2>2 DEF ReconcileCall
<1>4. CASE call \in Range(TeardownPlan(c, s))
  BY <1>2, <1>4 DEF Fits, TeardownCall, IsAsk
<1> QED
  BY <1>1, <1>3, <1>4

\* What a contract asks for, and it asks once for what is undisputed.
LEMMA AskFacts ==
  ASSUME setup \in Setups, NEW c \in Crs, NEW s \in Specs(c), NEW a \in Asks(c, s)
  PROVE  /\ a \in Range(ReconcilePlan(c, s)) /\ a \in CallsOf(c)
         /\ IsAsk(a) /\ ReconcileCall(c, a)
         /\ a.object \in Wanted(c, s) /\ a.object \in AllWanted(c)
         /\ Undisputed(c, a.object) =>
              \A b \in Range(ReconcilePlan(c, s)) : b.object = a.object => b = a
<1>1. a \in Range(ReconcilePlan(c, s)) /\ IsAsk(a)
  BY DEF Asks
<1>2. a \in CallsOf(c)
  BY <1>1 DEF CallsOf
<1>3. a.object \in Wanted(c, s)
  BY DEF Wanted
<1>4. Undisputed(c, a.object) =>
        \A b \in Range(ReconcilePlan(c, s)) : b.object = a.object => b = a
  BY <1>1 DEF Undisputed
<1> QED
  BY <1>1, <1>2, <1>3, <1>4, CallFacts DEF AllWanted

\* About what is undisputed other CRs have calls only if it is shared.
LEMMA CrsApart ==
  ASSUME NEW c \in Crs, NEW o, Undisputed(c, o),
         NEW d \in Crs, d # c, NEW b \in CallsOf(d), b.object = o
  PROVE  IsShared(o)
<1>1. PICK t \in Specs(d) : b \in Range(ReconcilePlan(d, t)) \cup Range(TeardownPlan(d, t))
  BY DEF CallsOf
<1> QED
  BY <1>1 DEF Undisputed

\* What contracts ask for.
LEMMA WantedFacts ==
  ASSUME setup \in Setups, NEW c \in Crs, NEW o \in AllWanted(c)
  PROVE  /\ \E s \in Specs(c) : \E a \in Asks(c, s) : a.object = o
         /\ ~IsTarget(o) /\ o.kind \notin {"cr", "gone", "none"}
         /\ \A d \in Crs : d # c /\ Undisputed(d, o) => IsShared(o)
<1>1. PICK s \in Specs(c) : \E a \in Asks(c, s) : a.object = o
  BY DEF AllWanted, Wanted
<1>2. PICK a \in Asks(c, s) : a.object = o
  BY <1>1
<1>3. ~IsTarget(o) /\ o.kind \notin {"cr", "gone", "none"}
  BY <1>2, AskFacts DEF ReconcileCall, IsAsk, IsTarget
<1>4. ASSUME NEW d \in Crs, d # c, Undisputed(d, o) PROVE IsShared(o)
  <2>1. a \in CallsOf(c)
    BY <1>2, AskFacts
  <2> QED
    BY <1>2, <1>4, <2>1, CrsApart
<1> QED
  BY <1>1, <1>3, <1>4

\* The owners tell CRs and ExternalSecrets apart, and those that are none.
LEMMA Owners ==
  /\ NoOwner.kind = "none" /\ Gone.kind = "gone" /\ NoOwner # Gone
  /\ \A d : CrObject(d).kind = "cr" /\ CrObject(d).ns = d.ns
  /\ \A c, d \in Crs : CrObject(c) = CrObject(d) => c = d
  /\ \A e : IsExternal(e) => /\ e.kind = "ExternalSecret"
                             /\ IsTarget(TargetOf(e)) /\ TargetOf(e).ns = e.ns
<1>1. /\ NoOwner.kind = "none" /\ Gone.kind = "gone" /\ NoOwner # Gone
      /\ \A d : CrObject(d).kind = "cr" /\ CrObject(d).ns = d.ns /\ CrObject(d).name = <<d.name>>
  BY DEF NoOwner, Gone, CrObject, Nowhere, Object
<1>2. ASSUME NEW c \in Crs, NEW d \in Crs, CrObject(c) = CrObject(d) PROVE c = d
  <2>1. c.ns = d.ns /\ <<c.name>> = <<d.name>>
    BY <1>1, <1>2
  <2>2. c.name = d.name
    BY <2>1
  <2>3. c \in [ns : STRING, name : STRING] /\ d \in [ns : STRING, name : STRING]
    BY ClusterObjectsAssumption
  <2> QED
    BY <2>1, <2>2, <2>3
<1>3. ASSUME NEW e, IsExternal(e)
      PROVE  e.kind = "ExternalSecret" /\ IsTarget(TargetOf(e)) /\ TargetOf(e).ns = e.ns
  <2>1. /\ TargetOf(e).kind = "Secret" /\ TargetOf(e).ns = e.ns
        /\ TargetOf(e).name = IF e = CrossplaneSecret THEN <<"example-creds">> ELSE e.name
    BY DEF TargetOf, Object
  <2>2. \A v : <<v>> = <<(<<v>>)[1]>>
    OBVIOUS
  <2> QED
    BY <1>3, <2>1, <2>2 DEF IsExternal, IsTarget, Single
<1> QED
  BY <1>1, <1>2, <1>3

----------------------------------------------------------------------------
(* What steps do to the objects.                                            *)

\* The first of a sequence, and the others.
LEMMA FirstAndRest ==
  ASSUME NEW S, NEW s \in Seq(S), s # <<>>
  PROVE  /\ Head(s) \in S /\ Tail(s) \in Seq(S) /\ Head(s) = s[1]
         /\ Range(s) = {Head(s)} \cup Range(Tail(s))
         /\ Len(s) \in Nat \ {0} /\ DOMAIN s = 1..Len(s)
         /\ DOMAIN Tail(s) = 1..(Len(s) - 1)
         /\ \A i \in 1..(Len(s) - 1) : Tail(s)[i] = s[i + 1]
<1>1. /\ Head(s) \in S /\ Tail(s) \in Seq(S) /\ Head(s) = s[1]
      /\ Len(s) \in Nat \ {0} /\ DOMAIN s = 1..Len(s)
      /\ DOMAIN Tail(s) = 1..(Len(s) - 1)
      /\ \A i \in 1..(Len(s) - 1) : Tail(s)[i] = s[i + 1]
  OBVIOUS
<1>2. ASSUME NEW i \in 1..Len(s) PROVE s[i] \in {Head(s)} \cup Range(Tail(s))
  <2>1. CASE i = 1
    BY <1>1, <2>1
  <2>2. CASE i # 1
    <3>1. i - 1 \in 1..(Len(s) - 1) /\ (i - 1) + 1 = i
      BY <1>1, <2>2
    <3>2. s[i] = Tail(s)[i - 1]
      BY <1>1, <3>1
    <3> QED
      BY <1>1, <3>1, <3>2 DEF Range
  <2> QED
    BY <2>1, <2>2
<1>3. ASSUME NEW i \in 1..(Len(s) - 1) PROVE Tail(s)[i] \in Range(s)
  <2>1. i + 1 \in DOMAIN s
    BY <1>1
  <2> QED
    BY <1>1, <2>1 DEF Range
<1>4. Head(s) \in Range(s)
  <2>1. 1 \in DOMAIN s
    BY <1>1
  <2> QED
    BY <1>1, <2>1 DEF Range
<1>5. Range(s) \subseteq {Head(s)} \cup Range(Tail(s))
  <2>1. \A x \in Range(s) : \E i \in 1..Len(s) : x = s[i]
    BY <1>1 DEF Range
  <2> QED
    BY <1>2, <2>1
<1>6. Range(Tail(s)) \subseteq Range(s)
  <2>1. \A x \in Range(Tail(s)) : \E i \in 1..(Len(s) - 1) : x = Tail(s)[i]
    BY <1>1 DEF Range
  <2> QED
    BY <1>3, <2>1
<1> QED
  BY <1>1, <1>4, <1>5, <1>6

\* Calls in order stay so as long as what is shared stays, and the rest of them when
\* the first has been made.
LEMMA NeedsStay ==
  ASSUME NEW calls, NEW there, NEW then, NeedsBefore(calls, there),
         \A n \in there : IsShared(n) => n \in then
  PROVE  NeedsBefore(calls, then)
BY NeedsShared DEF NeedsBefore

\* Calls in order stay in order when the first is made and its object is there.
LEMMA NeedsTail ==
  ASSUME NEW S, NEW calls \in Seq(S), calls # <<>>, NEW there, NEW then,
         NeedsBefore(calls, there), \A n \in there : IsShared(n) => n \in then,
         IsAsk(Head(calls)) => Head(calls).object \in then
  PROVE  NeedsBefore(Tail(calls), then)
<1> SUFFICES ASSUME NEW i \in DOMAIN Tail(calls), IsAsk(Tail(calls)[i]),
                    NEW n \in Needs(Tail(calls)[i].object), n \notin then
             PROVE  \E j \in 1..(i - 1) : IsAsk(Tail(calls)[j]) /\ Tail(calls)[j].object = n
  BY DEF NeedsBefore
<1>1. /\ i \in 1..(Len(calls) - 1) /\ Len(calls) \in Nat /\ i + 1 \in DOMAIN calls
      /\ Tail(calls)[i] = calls[i + 1] /\ Head(calls) = calls[1]
  BY FirstAndRest
<1>2. n \notin there
  BY NeedsShared
<1>3. PICK j \in 1..((i + 1) - 1) : IsAsk(calls[j]) /\ calls[j].object = n
  BY <1>1, <1>2 DEF NeedsBefore
<1>4. j # 1
  BY <1>1, <1>3
<1>5. j - 1 \in 1..(i - 1) /\ j - 1 \in 1..(Len(calls) - 1) /\ (j - 1) + 1 = j
  BY <1>1, <1>3, <1>4
<1>6. Tail(calls)[j - 1] = calls[j]
  BY <1>5, FirstAndRest
<1> QED
  BY <1>3, <1>5, <1>6

\* What is shared stays.
SharedStays == \A n \in DOMAIN cluster : IsShared(n) => n \in DOMAIN cluster'

\* The objects of a CR's that are in the cluster were there, or are shared, or are
\* others' and disputed; and the CR becomes the owner of none.
NoGain(c) ==
  \A o \in Wanted(c, spec[c]) \cap DOMAIN cluster' :
    \/ IsShared(o)
    \/ o \in DOMAIN cluster /\ (cluster'[o].owner = CrObject(c) => cluster[o].owner = CrObject(c))
    \/ ~Undisputed(c, o) /\ cluster'[o].owner # CrObject(c)

\* What a step leaves alone of a CR's objects: of the undisputed ones it takes away
\* none that is as the contract asks, and adds none but what is shared.
LeavesAlone(c) ==
  /\ SharedStays /\ NoGain(c)
  /\ \A a \in Asks(c, spec[c]) :
       a.object \notin dropped[c] /\ Undisputed(c, a.object) /\ Keeps(c, a) => Keeps(c, a)'

\* What is left as it was keeps its part of the invariant while what is shared stays.
LEMMA ObjectKept ==
  ASSUME NEW x \in DOMAIN cluster, ObjectInv(x), cluster'[x] = cluster[x], SharedStays,
         \A d \in Crs : dropped[d] \subseteq dropped'[d] /\ (OwnedByCr(x, d) => OwnedByCr(x, d)')
  PROVE  ObjectInv(x)'
<1>1. Needs(x) \subseteq DOMAIN cluster'
  BY NeedsShared DEF ObjectInv, SharedStays
<1>2. OwnedByExternal(x)' <=> OwnedByExternal(x)
  BY DEF OwnedByExternal
<1>3. \/ cluster'[x].owner \in {NoOwner, Gone}
      \/ \E d \in Crs : OwnedByCr(x, d)'
      \/ OwnedByExternal(x)'
  BY <1>2 DEF ObjectInv
<1>4. cluster'[x].owner = Gone =>
        IsTarget(x) \/ x.kind = "SecretStore" \/ \E d \in Crs : x \in dropped'[d]
  BY DEF ObjectInv
<1> QED
  BY <1>1, <1>3, <1>4 DEF ObjectInv

\* An object loses its owner.
LEMMA ObjectOrphaned ==
  ASSUME NEW x \in DOMAIN cluster, ObjectInv(x),
         cluster'[x] = [cluster[x] EXCEPT !.owner = Gone], SharedStays, ~IsShared(x),
         IsTarget(x) \/ x.kind = "SecretStore" \/ \E d \in Crs : x \in dropped'[d]
  PROVE  ObjectInv(x)'
<1>1. cluster'[x] = [value |-> cluster[x].value, owner |-> Gone, ready |-> cluster[x].ready]
  BY DEF ObjectInv, IsState
<1>2. IsState(cluster'[x]) /\ cluster'[x].owner = Gone /\ cluster'[x].value = cluster[x].value
  BY <1>1 DEF IsState
<1>3. Needs(x) \subseteq DOMAIN cluster'
  BY NeedsShared DEF ObjectInv, SharedStays
<1> QED
  BY <1>2, <1>3, Owners DEF ObjectInv

\* What is as a contract asks stays so while the object is left alone.
LEMMA KeepsSame ==
  ASSUME NEW c, NEW a, Keeps(c, a), a.object \in DOMAIN cluster',
         cluster'[a.object] = cluster[a.object]
  PROVE  Keeps(c, a)'
BY DEF Keeps

\* An object that is not shared goes, and what depends on it loses its owner.
LEMMA Removal ==
  ASSUME NEW o, cluster' = Without({o}), ClusterInv, ~IsShared(o), o # NoOwner,
         \A d \in Crs : dropped[d] \subseteq dropped'[d],
         \A x \in DOMAIN cluster \ {o} : \A d \in Crs :
           cluster[x].owner # o /\ OwnedByCr(x, d) => OwnedByCr(x, d)',
         \A x \in DOMAIN cluster \ {o} : cluster[x].owner = o =>
           IsTarget(x) \/ x.kind = "SecretStore" \/ \E d \in Crs : x \in dropped'[d]
  PROVE  /\ ClusterInv' /\ SharedStays /\ DOMAIN cluster' = DOMAIN cluster \ {o}
         /\ \A x \in DOMAIN cluster \ {o} : cluster[x].owner # o => cluster'[x] = cluster[x]
<1>1. DOMAIN cluster' = DOMAIN cluster \ {o}
  BY DEF Without
<1>2. \A x \in DOMAIN cluster \ {o} :
        cluster'[x] = IF cluster[x].owner = o
                        THEN [cluster[x] EXCEPT !.owner = Gone] ELSE cluster[x]
  BY DEF Without
<1>3. SharedStays
  BY <1>1 DEF SharedStays
<1>4. ASSUME NEW x \in DOMAIN cluster' PROVE ObjectInv(x)'
  <2>1. x \in DOMAIN cluster \ {o} /\ ObjectInv(x)
    BY <1>1 DEF ClusterInv
  <2>2. CASE cluster[x].owner = o
    <3>1. ~IsShared(x)
      BY <2>1, <2>2 DEF ObjectInv
    <3> QED
      BY <1>2, <1>3, <2>1, <2>2, <3>1, ObjectOrphaned
  <2>3. CASE cluster[x].owner # o
    BY <1>2, <1>3, <2>1, <2>3, ObjectKept
  <2> QED
    BY <2>2, <2>3
<1> QED
  BY <1>1, <1>2, <1>3, <1>4 DEF ClusterInv

\* An object is created or written.
LEMMA Writing ==
  ASSUME NEW o, NEW state, cluster' = With(o, state), ClusterInv,
         \A d \in Crs : dropped[d] \subseteq dropped'[d],
         \A x \in DOMAIN cluster \ {o} : \A d \in Crs : OwnedByCr(x, d) => OwnedByCr(x, d)',
         SharedStays => ObjectInv(o)'
  PROVE  /\ ClusterInv' /\ SharedStays /\ DOMAIN cluster' = DOMAIN cluster \cup {o}
         /\ cluster'[o] = state
         /\ \A x \in DOMAIN cluster \ {o} : cluster'[x] = cluster[x]
<1>1. /\ DOMAIN cluster' = DOMAIN cluster \cup {o} /\ cluster'[o] = state
      /\ \A x \in DOMAIN cluster \ {o} : cluster'[x] = cluster[x]
  BY DEF With
<1>2. SharedStays
  BY <1>1 DEF SharedStays
<1>3. ASSUME NEW x \in DOMAIN cluster', x # o PROVE ObjectInv(x)'
  <2>1. x \in DOMAIN cluster \ {o} /\ ObjectInv(x)
    BY <1>1, <1>3 DEF ClusterInv
  <2> QED
    BY <1>1, <1>2, <2>1, ObjectKept
<1> QED
  BY <1>1, <1>2, <1>3 DEF ClusterInv

----------------------------------------------------------------------------
(* What a call does.                                                        *)

\* The first of the calls that are left.
LEMMA CurrentFacts ==
  ASSUME TypeInv, NEW c \in Crs, WorkInv(c), todo[c] # <<>>
  PROVE  /\ Current(c) \in CallsOf(c) /\ Tail(todo[c]) \in Seq(CallsOf(c))
         /\ Range(todo[c]) = {Current(c)} \cup Range(Tail(todo[c]))
         /\ doing[c] # "idle" /\ phase[c] # "gone"
         /\ doing[c] = "reconcile" => Current(c) \in Range(ReconcilePlan(c, spec[c]))
         /\ IsAsk(Current(c)) =>
              /\ doing[c] # "teardown" /\ ReconcileCall(c, Current(c))
              /\ Current(c).object \in Wanted(c, spec[c]) \cup dropped[c]
              /\ Current(c).object \in AllWanted(c)
              /\ Needs(Current(c).object) \subseteq DOMAIN cluster
<1>1. todo[c] \in Seq(CallsOf(c)) /\ setup \in Setups /\ spec[c] \in Specs(c)
  BY DEF TypeInv
<1>2. /\ Current(c) \in CallsOf(c) /\ Tail(todo[c]) \in Seq(CallsOf(c))
      /\ Range(todo[c]) = {Current(c)} \cup Range(Tail(todo[c]))
      /\ 1 \in DOMAIN todo[c] /\ Current(c) = todo[c][1]
  BY <1>1, FirstAndRest DEF Current
<1>3. doing[c] # "idle" /\ phase[c] # "gone"
  BY DEF WorkInv
<1>4. doing[c] = "reconcile" => Current(c) \in Range(ReconcilePlan(c, spec[c]))
  BY <1>2 DEF WorkInv
<1>5. ASSUME IsAsk(Current(c))
      PROVE  /\ doing[c] # "teardown" /\ ReconcileCall(c, Current(c))
             /\ Current(c).object \in Wanted(c, spec[c]) \cup dropped[c]
             /\ Current(c).object \in AllWanted(c)
             /\ Needs(Current(c).object) \subseteq DOMAIN cluster
  <2>1. ReconcileCall(c, Current(c))
    BY <1>1, <1>2, <1>5, CallFacts
  <2>2. doing[c] # "teardown" /\ Current(c).object \in Wanted(c, spec[c]) \cup dropped[c]
    BY <1>2, <1>5 DEF WorkInv
  <2>3. Wanted(c, spec[c]) \cup dropped[c] \subseteq AllWanted(c)
    BY <1>1 DEF TypeInv, AllWanted
  <2>4. NeedsBefore(todo[c], DOMAIN cluster)
    BY DEF WorkInv
  <2>5. 1..(1 - 1) = {}
    OBVIOUS
  <2>6. \A n \in Needs(Current(c).object) : n \in DOMAIN cluster
    BY <1>2, <1>5, <2>4, <2>5 DEF NeedsBefore
  <2> QED
    BY <2>1, <2>2, <2>3, <2>6
<1> QED
  BY <1>2, <1>3, <1>4, <1>5

\* A sequence of one, with others after it.
LEMMA PrefixOfConcat ==
  ASSUME NEW S, NEW v \in Seq(S), NEW w \in Seq(S), Len(v) = 1
  PROVE  IsValue(v \o w) /\ IsPrefix(v, v \o w)
<1> DEFINE u == v \o w
<1>1. u \in Seq(S) /\ Len(u) = Len(v) + Len(w) /\ Len(w) \in Nat
  BY ConcatProperties, LenProperties
<1>2. 1 \in 1..(Len(v) + Len(w)) /\ 1 <= Len(v)
  BY <1>1
<1>3. u[1] = v[1]
  BY <1>2, ConcatProperties
<1> HIDE DEF u
<1>4. Len(u) >= 1
  BY <1>1
<1>5. v[1] \in S /\ u[1] \in S
  BY <1>1, <1>3
<1>6. /\ SubSeq(v, 1, 1) \in Seq(S) /\ Len(SubSeq(v, 1, 1)) = 1
      /\ SubSeq(u, 1, 1) \in Seq(S) /\ Len(SubSeq(u, 1, 1)) = 1
      /\ SubSeq(v, 1, 1)[1] = v[1] /\ SubSeq(u, 1, 1)[1] = u[1]
  <2>1. \A i \in 1..1 : v[i] \in S /\ u[i] \in S
    BY <1>5
  <2>2. 1 \in 1..1 /\ 1 - 1 + 1 = 1 /\ 1 + 1 - 1 = 1
    OBVIOUS
  <2> QED
    BY <2>1, <2>2, SubSeqProperties
<1>7. SubSeq(v, 1, 1) = SubSeq(u, 1, 1)
  BY <1>3, <1>6, SeqEqual
<1>8. IsPrefix(v, u)
  BY <1>4, <1>7 DEF IsPrefix
<1> QED
  BY <1>1, <1>4, <1>8, IsValueOf DEF u

\* What an existing object is after a call.
IsUpdate(c, call, old, new) ==
  /\ IsState(new)
  /\ new.owner = IF call.op = "apply" /\ call.owned THEN CrObject(c) ELSE old.owner
  /\ call.object.kind = "Ingress" => IsValue(new.value)
  /\ \/ call.op = "create" \/ (call.op = "account" /\ call.value = <<"">>)
     \/ call.op = "ingress" /\ IsPrefix(call.value, new.value)
     \/ new.value = call.value

\* What a call makes of an object is an update of it.
LEMMA UpdatedFacts ==
  ASSUME NEW c, NEW call, IsAsk(call), ReconcileCall(c, call), NEW old, IsState(old),
         call.object.kind = "Ingress" => IsValue(old.value)
  PROVE  IsUpdate(c, call, old, Updated(c, call, old))
<1> DEFINE new == Updated(c, call, old)
           taken == IF call.op = "apply" /\ call.owned THEN CrObject(c) ELSE old.owner
           refTls == call.value \o Tail(old.value)
<1>1. CASE call.op = "create" \/ (call.op = "account" /\ call.value = <<"">>)
  <2>1. new = old
    BY <1>1 DEF Updated
  <2>2. call.op # "apply"
    BY <1>1
  <2> QED
    BY <1>1, <2>1, <2>2 DEF IsUpdate
<1>2. CASE call.op = "ingress" /\ Len(call.value) = 1
  <2>1. new = [old EXCEPT !.value = refTls]
    BY <1>2 DEF Updated
  <2>2. new = [value |-> refTls, owner |-> old.owner, ready |-> old.ready]
    BY <2>1 DEF IsState
  <2>3. IsValue(call.value) /\ IsValue(old.value)
    BY <1>2 DEF ReconcileCall
  <2>4. IsValue(refTls) /\ IsPrefix(call.value, refTls)
    <3> DEFINE S == Range(call.value) \cup Range(old.value)
               v == call.value
               w == Tail(old.value)
    <3>1. v \in Seq(Range(v)) /\ old.value \in Seq(Range(old.value)) /\ old.value # <<>>
      BY <2>3 DEF IsValue
    <3>2. v \in Seq(S) /\ old.value \in Seq(S)
      BY <3>1, Wider
    <3>3. w \in Seq(S)
      BY <3>1, <3>2, FirstAndRest
    <3> HIDE DEF S, v, w
    <3>4. Len(v) = 1
      BY <1>2 DEF v
    <3>5. IsValue(v \o w) /\ IsPrefix(v, v \o w)
      BY <3>2, <3>3, <3>4, PrefixOfConcat
    <3> QED
      BY <3>5 DEF v, w
  <2> HIDE DEF new, refTls
  <2>5. IsState(new) /\ new.owner = old.owner /\ new.value = refTls
    BY <2>2 DEF IsState
  <2>6. call.op # "apply"
    BY <1>2
  <2> QED
    BY <1>2, <2>4, <2>5, <2>6 DEF IsUpdate, new
<1>3. CASE /\ ~(call.op = "create" \/ (call.op = "account" /\ call.value = <<"">>))
           /\ ~(call.op = "ingress" /\ Len(call.value) = 1)
  <2>1. new = [old EXCEPT !.value = call.value, !.owner = taken]
    BY <1>3 DEF Updated
  <2>2. new = [value |-> call.value, owner |-> taken, ready |-> old.ready]
    BY <2>1 DEF IsState
  <2>3. IsState(new) /\ new.owner = taken /\ new.value = call.value
    BY <2>2 DEF IsState
  <2>4. call.object.kind = "Ingress" => IsValue(call.value)
    BY DEF ReconcileCall
  <2> QED
    BY <1>3, <2>3, <2>4 DEF IsUpdate
<1> QED
  BY <1>1, <1>2, <1>3

\* The step of a call, whether its answer arrives or not.
CallMade(c) ==
  /\ todo[c] # <<>> /\ Current(c).op # "refuse"
  /\ cluster' = After(c, Current(c))
  /\ sync' = IF Current(c).op = "delete" THEN StaleSync({Current(c).object}) ELSE sync

\* Who owns an object does not change while its state, and the CRs, do not.
LEMMA OwnedStays ==
  ASSUME setup' = setup, UNCHANGED crs,
         NEW x, cluster'[x] = cluster[x], NEW d, OwnedByCr(x, d)
  PROVE  OwnedByCr(x, d)'
<1>1. Wanted(d, spec[d])' = Wanted(d, spec[d])
  BY SamePlans DEF crs
<1> QED
  BY <1>1 DEF OwnedByCr, crs

\* What a call asks for is there afterwards, as it asks.
LEMMA AskEffect ==
  ASSUME IInv, NEW c \in Crs, CallMade(c), setup' = setup, UNCHANGED crs,
         NEW call, call = Current(c), IsAsk(call), NEW o, o = call.object
  PROVE  /\ ClusterInv' /\ SyncInv'
         /\ DOMAIN cluster' = DOMAIN cluster \cup {o}
         /\ \A d \in Crs \ {c} : LeavesAlone(d)
         /\ SharedStays
         /\ doing[c] = "reconcile" =>
              \A a \in Asks(c, spec[c]) :
                /\ a.object \notin dropped[c] /\ Undisputed(c, a.object)
                /\ Keeps(c, a) \/ a = call
                => Keeps(c, a)'
<1> DEFINE state == IF o \in DOMAIN cluster THEN Updated(c, call, cluster[o]) ELSE Created(c, call)
<1>1. /\ setup \in Setups /\ \A d \in Crs : spec[d] \in Specs(d)
      /\ TypeInv /\ ClusterInv /\ WorkInv(c)
  BY DEF IInv, TypeInv, CrInv
<1>2. /\ call \in CallsOf(c) /\ phase[c] # "gone" /\ ReconcileCall(c, call)
      /\ o \in Wanted(c, spec[c]) \cup dropped[c]
      /\ o \in AllWanted(c) /\ Needs(o) \subseteq DOMAIN cluster
      /\ doing[c] = "reconcile" => call \in Range(ReconcilePlan(c, spec[c]))
  BY <1>1, CurrentFacts DEF CallMade
<1>3. cluster' = With(o, state) /\ sync' = sync
  BY DEF CallMade, After, IsAsk
<1>4. /\ o.kind \notin {"cr", "gone", "none"} /\ ~IsTarget(o)
      /\ o.kind = "ExternalSecret" => Single(o)
      /\ o.kind = "SecretStore" => call.op = "apply" /\ call.owned
      /\ o.kind = "Ingress" <=> call.op = "ingress"
      /\ call.op = "ingress" => IsValue(call.value)
      /\ call.owned => o.ns = c.ns /\ ~IsShared(o)
  BY <1>2 DEF ReconcileCall, IsAsk, IsTarget
<1>5. /\ IsState(state)
      /\ o \notin DOMAIN cluster =>
           state.owner = IF call.owned THEN CrObject(c) ELSE NoOwner
      /\ o \in DOMAIN cluster =>
           state.owner = IF call.op = "apply" /\ call.owned THEN CrObject(c) ELSE cluster[o].owner
      /\ o.kind = "Ingress" => IsValue(state.value)
      /\ \/ call.op = "create" \/ (call.op = "account" /\ call.value = <<"">>)
         \/ call.op = "ingress" /\ IsPrefix(call.value, state.value)
         \/ state.value = call.value
  <2>1. CASE o \in DOMAIN cluster
    <3>1. ObjectInv(o)
      BY <1>1, <2>1 DEF ClusterInv
    <3>2. IsState(cluster[o]) /\ (o.kind = "Ingress" => IsValue(cluster[o].value))
      BY <3>1 DEF ObjectInv
    <3>3. state = Updated(c, call, cluster[o])
      BY <2>1
    <3> HIDE DEF state
    <3>4. call.object.kind = "Ingress" => IsValue(cluster[o].value)
      BY <3>2
    <3>5. IsUpdate(c, call, cluster[o], Updated(c, call, cluster[o]))
      BY <1>2, <3>2, <3>4, UpdatedFacts
    <3> QED
      BY <2>1, <3>3, <3>5 DEF IsUpdate
  <2>2. CASE o \notin DOMAIN cluster
    <3>1. state = [value |-> call.value, owner |-> IF call.owned THEN CrObject(c) ELSE NoOwner,
                   ready |-> FALSE]
      BY <2>2 DEF Created
    <3> HIDE DEF state
    <3> QED
      BY <1>4, <2>2, <3>1 DEF IsState
  <2> QED
    BY <2>1, <2>2
<1> HIDE DEF state
<1>6. /\ DOMAIN cluster' = DOMAIN cluster \cup {o} /\ cluster'[o] = state
      /\ \A x \in DOMAIN cluster \ {o} : cluster'[x] = cluster[x]
  BY <1>3 DEF With
<1>7. state.owner = CrObject(c) /\ call.owned => OwnedByCr(o, c)'
  <2>1. Wanted(c, spec[c])' = Wanted(c, spec[c])
    BY SamePlans DEF crs
  <2> QED
    BY <1>2, <1>4, <1>6, <2>1 DEF OwnedByCr, crs
<1>8. ASSUME o \in DOMAIN cluster PROVE ObjectInv(o)
  BY <1>1, <1>8 DEF ClusterInv
<1>9. SharedStays => ObjectInv(o)'
  <2> SUFFICES ASSUME SharedStays PROVE ObjectInv(o)'
    OBVIOUS
  <2>1. Needs(o) \subseteq DOMAIN cluster'
    BY <1>2, <1>6
  <2>2. CASE o \notin DOMAIN cluster
    <3>1. \/ state.owner \in {NoOwner, Gone} \/ OwnedByCr(o, c)'
      BY <1>5, <1>7, <2>2
    <3>2. state.owner # Gone
      <4>1. CrObject(c) # Gone /\ NoOwner # Gone
        BY Owners
      <4>2. state.owner = IF call.owned THEN CrObject(c) ELSE NoOwner
        BY <1>5, <2>2
      <4> QED
        BY <4>1, <4>2
    <3>3. o.kind = "SecretStore" => state.owner # NoOwner
      <4>1. call.owned => state.owner = CrObject(c)
        BY <1>5, <2>2
      <4>2. CrObject(c) # NoOwner
        BY Owners
      <4> QED
        BY <1>4, <4>1, <4>2
    <3>4. IsShared(o) => state.owner = NoOwner
      BY <1>4, <1>5, <2>2
    <3> QED
      BY <1>4, <1>5, <1>6, <2>1, <3>1, <3>2, <3>3, <3>4 DEF ObjectInv
  <2>3. CASE o \in DOMAIN cluster /\ call.op = "apply" /\ call.owned
    <3>1. state.owner = CrObject(c) /\ OwnedByCr(o, c)'
      BY <1>5, <1>7, <2>3
    <3>2. state.owner # Gone /\ state.owner # NoOwner /\ ~IsShared(o)
      BY <1>4, <2>3, <3>1, Owners
    <3> QED
      BY <1>4, <1>5, <1>6, <2>1, <3>1, <3>2 DEF ObjectInv
  <2>4. CASE o \in DOMAIN cluster /\ ~(call.op = "apply" /\ call.owned)
    <3>1. state.owner = cluster[o].owner /\ ObjectInv(o)
      BY <1>5, <1>8, <2>4
    <3>2. \A d : OwnedByCr(o, d) => OwnedByCr(o, d)'
      <4>1. \A d : Wanted(d, spec[d])' = Wanted(d, spec[d])
        BY SamePlans DEF crs
      <4> QED
        BY <1>6, <3>1, <4>1 DEF OwnedByCr, crs
    <3>3. OwnedByExternal(o) => OwnedByExternal(o)'
      BY <1>6, <3>1 DEF OwnedByExternal
    <3>4. dropped' = dropped
      BY DEF crs
    <3> QED
      BY <1>4, <1>5, <1>6, <2>1, <3>1, <3>2, <3>3, <3>4 DEF ObjectInv
  <2> QED
    BY <2>2, <2>3, <2>4
<1>10. ClusterInv' /\ SharedStays
  <2>1. \A d \in Crs : dropped[d] \subseteq dropped'[d]
    BY DEF crs
  <2>2. \A x \in DOMAIN cluster \ {o} : \A d \in Crs : OwnedByCr(x, d) => OwnedByCr(x, d)'
    BY <1>6, OwnedStays
  <2> QED
    BY <1>1, <1>3, <1>9, <2>1, <2>2, Writing
<1>11. SyncInv'
  BY <1>3 DEF IInv, SyncInv
<1>12. ASSUME NEW d, NEW a, Keeps(d, a), a.object # o PROVE Keeps(d, a)'
  <2>1. a.object \in DOMAIN cluster' /\ cluster'[a.object] = cluster[a.object]
    BY <1>6, <1>12 DEF Keeps
  <2> QED
    BY <1>12, <2>1, KeepsSame
<1>13. ObjectInv(o)'
  BY <1>6, <1>10 DEF ClusterInv
<1>14. ASSUME NEW d \in Crs \ {c} PROVE LeavesAlone(d)
  <2>1. Undisputed(d, o) => IsShared(o)
    BY <1>2, CrsApart
  <2>2. ASSUME NEW a \in Asks(d, spec[d]), a.object = o, Undisputed(d, o) PROVE Keeps(d, a)'
    <3>1. cluster'[a.object].owner = NoOwner /\ IsShared(a.object) /\ a.object \in DOMAIN cluster'
      BY <1>6, <1>13, <2>1, <2>2 DEF ObjectInv
    <3> QED
      BY <3>1, Owners DEF Keeps
  <2>3. NoGain(d)
    <3>1. CrObject(c) # CrObject(d) /\ NoOwner # CrObject(d)
      BY Owners
    <3>2. o \notin DOMAIN cluster => cluster'[o].owner # CrObject(d)
      BY <1>5, <1>6, <3>1
    <3>3. o \in DOMAIN cluster /\ cluster'[o].owner = CrObject(d) => cluster[o].owner = CrObject(d)
      BY <1>5, <1>6, <3>1
    <3> QED
      BY <1>6, <2>1, <3>2, <3>3 DEF NoGain
  <2>4. ASSUME NEW a \in Asks(d, spec[d]), Undisputed(d, a.object), Keeps(d, a)
        PROVE  Keeps(d, a)'
    BY <1>12, <2>2, <2>4
  <2> QED
    BY <1>10, <2>3, <2>4 DEF LeavesAlone
<1>15. ASSUME doing[c] = "reconcile", NEW a \in Asks(c, spec[c]), a.object \notin dropped[c],
              Undisputed(c, a.object), Keeps(c, a) \/ a = call
       PROVE  Keeps(c, a)'
  <2>1. CASE a.object # o
    BY <1>12, <1>15, <2>1
  <2>2. CASE a.object = o
    <3>1. a = call
      BY <1>1, <1>2, <1>15, <2>2, AskFacts
    <3>2. o \in DOMAIN cluster => cluster[o].owner # Gone \/ (call.op = "apply" /\ call.owned)
      <4> SUFFICES ASSUME o \in DOMAIN cluster, cluster[o].owner = Gone
                   PROVE  call.op = "apply" /\ call.owned
        OBVIOUS
      <4>1. ~IsShared(o)
        BY <1>8, Owners DEF ObjectInv
      <4>2. \A d \in Crs : dropped[d] \subseteq AllWanted(d)
        BY <1>1 DEF TypeInv
      <4>3. \A d \in Crs : o \notin dropped[d]
        BY <1>1, <1>2, <1>15, <2>2, <4>1, <4>2, WantedFacts
      <4>4. o.kind = "SecretStore"
        BY <1>4, <1>8, <4>3 DEF ObjectInv
      <4> QED
        BY <1>4, <4>4
    <3>3. cluster'[o].owner # Gone
      <4>1. CrObject(c) # Gone /\ NoOwner # Gone
        BY Owners
      <4> QED
        BY <1>5, <1>6, <3>2, <4>1
    <3>4. call.op = "account" /\ call.value = <<"">> =>
            call = [call EXCEPT !.op = "account", !.value = <<"">>]
      <4>1. call.op = "account" => call = Call("account", o, call.value, call.owned, call.quiet)
        BY <1>2 DEF ReconcileCall, IsAsk
      <4> QED
        BY <4>1 DEF Call
    <3>5. Keeps(c, call)'
      BY <1>5, <1>6, <3>3, <3>4 DEF Keeps
    <3> QED
      BY <3>1, <3>5
  <2> QED
    BY <2>1, <2>2
<1> QED
  BY <1>6, <1>10, <1>11, <1>14, <1>15

\* The operator's work on an ExternalSecret goes on, if stale, when objects go.
LEMMA SyncStays ==
  ASSUME SyncInv, NEW gone, \A o \in gone : o.kind # "none", sync' = StaleSync(gone)
  PROVE  SyncInv'
<1>1. CASE sync = NoSync
  <2>1. sync.of.kind = "none"
    BY <1>1 DEF NoSync, Nowhere, Object
  <2>2. sync.of \notin gone
    BY <2>1
  <2> QED
    BY <1>1, <2>2 DEF StaleSync, SyncInv
<1>2. CASE sync # NoSync
  <2>1. /\ IsExternal(sync.of)
        /\ sync = [of |-> sync.of, value |-> sync.value, stale |-> sync.stale]
    BY <1>2 DEF SyncInv
  <2>2. CASE sync.of \in gone
    <3>1. sync' = [sync EXCEPT !.stale = TRUE]
      BY <2>2 DEF StaleSync
    <3>2. sync' = [of |-> sync.of, value |-> sync.value, stale |-> TRUE]
      BY <2>1, <3>1
    <3>3. /\ sync'.of = sync.of
          /\ sync' = [of |-> sync'.of, value |-> sync'.value, stale |-> sync'.stale]
      BY <3>2
    <3> QED
      BY <2>1, <3>3 DEF SyncInv
  <2>3. CASE sync.of \notin gone
    BY <2>1, <2>3 DEF StaleSync, SyncInv
  <2> QED
    BY <2>2, <2>3
<1> QED
  BY <1>1, <1>2

\* An object that is not shared goes, by a teardown or the collector.
LEMMA DeleteEffect ==
  ASSUME IInv, setup' = setup, UNCHANGED crs,
         NEW o, ~IsShared(o), o.kind \notin {"cr", "gone", "none"},
         cluster' = Without({o}), sync' = StaleSync({o})
  PROVE  /\ ClusterInv' /\ SyncInv' /\ SharedStays
         /\ DOMAIN cluster' = DOMAIN cluster \ {o}
         /\ \A c \in Crs : \A a \in Asks(c, spec[c]) :
              a.object # o /\ Keeps(c, a) => Keeps(c, a)'
         /\ \A c : NoGain(c)
         /\ \A x \in DOMAIN cluster' : cluster'[x].owner \in {cluster[x].owner, Gone}
<1>1. /\ setup \in Setups /\ \A d \in Crs : spec[d] \in Specs(d)
      /\ ClusterInv /\ SyncInv
  BY DEF IInv, TypeInv
<1>2. \A x \in DOMAIN cluster \ {o} : cluster[x].owner # o => cluster'[x] = cluster[x]
  BY DEF Without
<1>3. ASSUME NEW x \in DOMAIN cluster, cluster[x].owner = o PROVE IsTarget(x)
  <2>1. ObjectInv(x)
    BY <1>1 DEF ClusterInv
  <2>2. cluster[x].owner \notin {NoOwner, Gone}
    BY <1>3, Owners
  <2>3. \A d \in Crs : ~OwnedByCr(x, d)
    BY <1>3, Owners DEF OwnedByCr
  <2>4. OwnedByExternal(x)
    BY <2>1, <2>2, <2>3 DEF ObjectInv
  <2> QED
    BY <2>4, Owners DEF OwnedByExternal
<1>4. /\ ClusterInv' /\ SharedStays /\ DOMAIN cluster' = DOMAIN cluster \ {o}
  <2>1. \A d \in Crs : dropped[d] \subseteq dropped'[d]
    BY DEF crs
  <2>2. \A x \in DOMAIN cluster \ {o} : \A d \in Crs :
          cluster[x].owner # o /\ OwnedByCr(x, d) => OwnedByCr(x, d)'
    BY <1>2, OwnedStays
  <2>3. ~IsShared(o) /\ o # NoOwner
    BY Owners
  <2>4. \A x \in DOMAIN cluster \ {o} : cluster[x].owner = o =>
          IsTarget(x) \/ x.kind = "SecretStore" \/ \E d \in Crs : x \in dropped'[d]
    BY <1>3
  <2> QED
    BY <1>1, <2>1, <2>2, <2>3, <2>4, Removal
<1>5. SyncInv'
  <2>1. \A x \in {o} : x.kind # "none"
    OBVIOUS
  <2> QED
    BY <1>1, <2>1, SyncStays
<1>6. ASSUME NEW c \in Crs, NEW a \in Asks(c, spec[c]), a.object # o, Keeps(c, a)
      PROVE  Keeps(c, a)'
  <2>1. a.object \in DOMAIN cluster \ {o}
    BY <1>6 DEF Keeps
  <2>2. a.object \in AllWanted(c)
    BY <1>1, AskFacts
  <2>3. ~IsTarget(a.object)
    BY <1>1, <2>2, WantedFacts
  <2>4. cluster[a.object].owner # o
    BY <1>3, <2>1, <2>3
  <2>5. cluster'[a.object] = cluster[a.object] /\ a.object \in DOMAIN cluster'
    BY <1>2, <1>4, <2>1, <2>4
  <2> QED
    BY <1>6, <2>5, KeepsSame
<1>7. ASSUME NEW x \in DOMAIN cluster' PROVE cluster'[x].owner \in {cluster[x].owner, Gone}
  <2>1. x \in DOMAIN cluster \ {o}
    BY <1>4
  <2>2. CASE cluster[x].owner = o
    <3>1. cluster'[x] = [cluster[x] EXCEPT !.owner = Gone]
      BY <2>1, <2>2 DEF Without
    <3>2. IsState(cluster[x])
      BY <1>1, <2>1 DEF ClusterInv, ObjectInv
    <3>3. cluster'[x] = [value |-> cluster[x].value, owner |-> Gone, ready |-> cluster[x].ready]
      BY <3>1, <3>2 DEF IsState
    <3> QED
      BY <3>3
  <2> QED
    BY <1>2, <2>1, <2>2
<1>8. \A c : NoGain(c)
  <2>1. \A c : CrObject(c) # Gone
    BY Owners
  <2> QED
    BY <1>4, <1>7, <2>1 DEF NoGain
<1> QED
  BY <1>4, <1>5, <1>6, <1>7, <1>8

\* A CR that is let go is the owner of what its teardown left and of what it dropped.
LEMMA LetGoEffect ==
  ASSUME IInv, NEW c \in Crs, LetGo(c)
  PROVE  /\ ClusterInv' /\ SyncInv' /\ \A d \in Crs \ {c} : LeavesAlone(d)
         /\ SharedStays
         /\ \A o \in Wanted(c, spec[c]) :
              \/ o \notin DOMAIN cluster' \/ cluster'[o].owner = Gone
              \/ IsShared(o) \/ ~Undisputed(c, o)
<1> DEFINE me == CrObject(c)
<1>1. /\ setup \in Setups /\ \A d \in Crs : spec[d] \in Specs(d) /\ dropped[d] \subseteq AllWanted(d)
      /\ ClusterInv /\ SyncInv /\ TornInv(c) /\ WorkInv(c)
      /\ phase \in [Crs -> {"live", "deleting", "gone"}]
  BY DEF IInv, TypeInv, CrInv
<1>2. /\ doing[c] = "teardown" /\ todo[c] = <<>> /\ cluster' = Without({me})
      /\ phase' = [phase EXCEPT ![c] = "gone"]
      /\ setup' = setup /\ spec' = spec /\ dropped' = dropped /\ sync' = sync
  BY DEF LetGo
<1>3. \A d \in Crs \ {c} : phase'[d] = phase[d]
  BY <1>1, <1>2
<1>4. \A x \in DOMAIN cluster \ {me} :
        cluster'[x] = IF cluster[x].owner = me THEN [cluster[x] EXCEPT !.owner = Gone]
                      ELSE cluster[x]
  BY <1>2 DEF Without
<1>5. me.kind = "cr" /\ ~IsShared(me) /\ me # NoOwner
  BY Owners, SharedShape
<1>6. ASSUME NEW x \in DOMAIN cluster, cluster[x].owner = me
      PROVE  /\ x.kind = "SecretStore" \/ x \in dropped[c]
             /\ x \in AllWanted(c) /\ ~IsShared(x)
  <2>1. ObjectInv(x)
    BY <1>1 DEF ClusterInv
  <2>2. ~IsShared(x)
    BY <1>5, <1>6, <2>1 DEF ObjectInv
  <2>3. ~OwnedByExternal(x) /\ cluster[x].owner \notin {NoOwner, Gone}
    BY <1>5, <1>6, Owners DEF OwnedByExternal
  <2>4. PICK d \in Crs : OwnedByCr(x, d)
    BY <2>1, <2>3 DEF ObjectInv
  <2>5. d = c
    BY <1>6, <2>4, Owners DEF OwnedByCr
  <2>6. x \in Wanted(c, spec[c]) \cup dropped[c]
    BY <2>4, <2>5 DEF OwnedByCr
  <2>7. Range(todo[c]) = {}
    BY <1>2, Short
  <2>8. x \in Wanted(c, spec[c]) => x.kind = "SecretStore"
    BY <1>1, <1>2, <1>6, <2>2, <2>7 DEF TornInv
  <2>9. x \in AllWanted(c)
    BY <1>1, <2>6 DEF AllWanted
  <2> QED
    BY <2>2, <2>6, <2>8, <2>9
<1>7. ASSUME NEW x \in DOMAIN cluster \ {me}, NEW d \in Crs, cluster[x].owner # me, OwnedByCr(x, d)
      PROVE  OwnedByCr(x, d)'
  <2>1. d # c /\ cluster'[x] = cluster[x]
    BY <1>4, <1>7 DEF OwnedByCr
  <2>2. Wanted(d, spec[d])' = Wanted(d, spec[d])
    BY <1>2, SamePlans
  <2> QED
    BY <1>2, <1>3, <1>7, <2>1, <2>2 DEF OwnedByCr
<1>8. /\ ClusterInv' /\ SharedStays /\ DOMAIN cluster' = DOMAIN cluster \ {me}
  <2>1. \A d \in Crs : dropped[d] \subseteq dropped'[d]
    BY <1>2
  <2>2. \A x \in DOMAIN cluster \ {me} : \A d \in Crs :
          cluster[x].owner # me /\ OwnedByCr(x, d) => OwnedByCr(x, d)'
    BY <1>7
  <2>3. ~IsShared(me) /\ me # NoOwner
    BY <1>5
  <2>4. \A x \in DOMAIN cluster \ {me} : cluster[x].owner = me =>
          IsTarget(x) \/ x.kind = "SecretStore" \/ \E d \in Crs : x \in dropped'[d]
    BY <1>2, <1>6
  <2> HIDE DEF me
  <2> QED
    BY <1>1, <1>2, <2>1, <2>2, <2>3, <2>4, Removal
<1>9. SyncInv'
  BY <1>1, <1>2 DEF SyncInv
<1>10. ASSUME NEW d \in Crs \ {c}, NEW a \in Asks(d, spec[d]), Undisputed(d, a.object),
              Keeps(d, a)
       PROVE  Keeps(d, a)'
  <2>1. a.object \in DOMAIN cluster /\ a.object \in AllWanted(d)
    BY <1>1, <1>10, AskFacts DEF Keeps
  <2>2. a.object.kind # "cr"
    BY <1>1, <2>1, WantedFacts
  <2>3. cluster[a.object].owner # me
    <3>1. ASSUME cluster[a.object].owner = me PROVE FALSE
      <4>1. a.object \in AllWanted(c) /\ ~IsShared(a.object)
        BY <1>6, <2>1, <3>1
      <4> QED
        BY <1>1, <1>10, <4>1, WantedFacts
    <3> QED
      BY <3>1
  <2>4. a.object \in DOMAIN cluster' /\ cluster'[a.object] = cluster[a.object]
    BY <1>4, <1>5, <1>8, <2>1, <2>2, <2>3
  <2> QED
    BY <1>10, <2>4, KeepsSame
<1>11. ASSUME NEW d \in Crs \ {c} PROVE LeavesAlone(d)
  <2>1. ASSUME NEW x \in DOMAIN cluster', cluster'[x].owner = CrObject(d)
        PROVE  x \in DOMAIN cluster /\ cluster[x].owner = CrObject(d)
    <3>1. x \in DOMAIN cluster \ {me} /\ IsState(cluster[x])
      BY <1>1, <1>8 DEF ClusterInv, ObjectInv
    <3>2. CASE cluster[x].owner = me
      <4>1. cluster'[x] = [cluster[x] EXCEPT !.owner = Gone]
        BY <1>4, <3>1, <3>2
      <4>2. cluster'[x] = [value |-> cluster[x].value, owner |-> Gone, ready |-> cluster[x].ready]
        BY <3>1, <4>1 DEF IsState
      <4>3. CrObject(d) # Gone
        BY Owners
      <4> QED
        BY <2>1, <4>2, <4>3
    <3> QED
      BY <1>4, <2>1, <3>1, <3>2
  <2>2. NoGain(d)
    BY <1>8, <2>1 DEF NoGain
  <2> QED
    BY <1>8, <1>10, <2>2 DEF LeavesAlone
<1>12. ASSUME NEW o \in Wanted(c, spec[c]), ~IsShared(o), Undisputed(c, o), o \in DOMAIN cluster'
       PROVE  cluster'[o].owner = Gone
  <2>1. o \in DOMAIN cluster /\ o # me /\ ObjectInv(o)
    BY <1>1, <1>8, <1>12 DEF ClusterInv
  <2>2. Range(todo[c]) = {}
    BY <1>2, Short
  <2>3. o.kind = "SecretStore"
    BY <1>1, <1>2, <1>12, <2>1, <2>2 DEF TornInv
  <2>4. CASE cluster[o].owner = me
    <3>1. cluster'[o] = [cluster[o] EXCEPT !.owner = Gone]
      BY <1>4, <2>1, <2>4
    <3>2. cluster'[o] = [value |-> cluster[o].value, owner |-> Gone, ready |-> cluster[o].ready]
      BY <2>1, <3>1 DEF ObjectInv, IsState
    <3> QED
      BY <3>2
  <2>5. CASE cluster[o].owner # me
    <3>1. \A d \in Crs : ~OwnedByCr(o, d)
      <4> SUFFICES ASSUME NEW d \in Crs, OwnedByCr(o, d) PROVE FALSE
        OBVIOUS
      <4>1. d # c
        BY <2>5 DEF OwnedByCr
      <4>2. o \in AllWanted(d)
        BY <1>1 DEF AllWanted, OwnedByCr
      <4> QED
        BY <1>1, <1>12, <4>1, <4>2, WantedFacts
    <3>2. ~OwnedByExternal(o)
      BY <2>3, Owners DEF OwnedByExternal, IsTarget
    <3>3. cluster[o].owner = Gone
      BY <2>1, <2>3, <3>1, <3>2 DEF ObjectInv
    <3> QED
      BY <1>4, <2>1, <2>5, <3>3
  <2> QED
    BY <2>4, <2>5
<1> QED
  BY <1>8, <1>9, <1>11, <1>12

\* Nothing happens to the objects.
LEMMA SameObjects ==
  ASSUME ClusterInv, cluster' = cluster, \A d \in Crs : dropped[d] \subseteq dropped'[d],
         \A x \in DOMAIN cluster : \A d \in Crs : OwnedByCr(x, d) => OwnedByCr(x, d)'
  PROVE  /\ ClusterInv' /\ SharedStays
         /\ \A c : LeavesAlone(c)
<1>1. SharedStays
  BY DEF SharedStays
<1>2. \A x \in DOMAIN cluster : ObjectInv(x)'
  BY <1>1, ObjectKept DEF ClusterInv
<1>3. ClusterInv'
  BY <1>2 DEF ClusterInv
<1>4. \A c, a : Keeps(c, a) => Keeps(c, a)'
  BY DEF Keeps
<1>5. \A c : NoGain(c)
  BY DEF NoGain
<1> QED
  BY <1>1, <1>3, <1>4, <1>5 DEF LeavesAlone

\* Nor to the CRs.
LEMMA Unchanged ==
  ASSUME ClusterInv, cluster' = cluster, setup' = setup, UNCHANGED crs
  PROVE  ClusterInv' /\ SharedStays /\ \A c : LeavesAlone(c)
<1>1. \A d \in Crs : dropped[d] \subseteq dropped'[d]
  BY DEF crs
<1>2. \A x \in DOMAIN cluster : \A d \in Crs : OwnedByCr(x, d) => OwnedByCr(x, d)'
  BY OwnedStays
<1> QED
  BY <1>1, <1>2, SameObjects

\* What the operator writes is a Secret of its own, which no contract asks for.
LEMMA EndSyncEffect ==
  ASSUME IInv, EndSync
  PROVE  ClusterInv' /\ SyncInv' /\ \A d \in Crs : LeavesAlone(d)
<1>1. /\ setup \in Setups /\ \A d \in Crs : spec[d] \in Specs(d)
      /\ ClusterInv /\ SyncInv
  BY DEF IInv, TypeInv
<1>2. setup' = setup /\ UNCHANGED crs /\ sync # NoSync /\ sync' = NoSync
  BY DEF EndSync
<1>3. SyncInv'
  BY <1>2 DEF SyncInv, NoSync
<1>4. PICK t : t = TargetOf(sync.of)
  OBVIOUS
<1> DEFINE owner == IF sync.stale THEN Gone ELSE sync.of
           state == [value |-> sync.value, owner |-> owner, ready |-> FALSE]
<1>5. cluster' = cluster \/ cluster' = With(t, state)
  BY <1>4 DEF EndSync
<1>6. CASE cluster' = cluster
  BY <1>1, <1>2, <1>3, <1>6, Unchanged
<1>7. CASE cluster' = With(t, state)
  <2>1. IsExternal(sync.of) /\ IsTarget(t) /\ t.kind = "Secret"
    BY <1>1, <1>2, <1>4, Owners DEF SyncInv, IsTarget
  <2>2. ~IsShared(t) /\ Needs(t) = {}
    BY <2>1, SharedShape DEF Needs
  <2>3. /\ DOMAIN cluster' = DOMAIN cluster \cup {t} /\ cluster'[t] = state
        /\ \A x \in DOMAIN cluster \ {t} : cluster'[x] = cluster[x]
    BY <1>7 DEF With
  <2>4. IsState(state) /\ state.owner = owner
    BY DEF IsState
  <2> HIDE DEF state
  <2>5. ObjectInv(t)'
    <3>1. state.owner = Gone \/ OwnedByExternal(t)'
      <4>1. CASE sync.stale
        BY <2>4, <4>1
      <4>2. CASE ~sync.stale
        BY <1>4, <2>1, <2>3, <2>4, <4>2 DEF OwnedByExternal
      <4> QED
        BY <4>1, <4>2
    <3> QED
      BY <2>1, <2>2, <2>3, <2>4, <3>1 DEF ObjectInv
  <2>6. ClusterInv' /\ SharedStays
    <3>1. \A d \in Crs : dropped[d] \subseteq dropped'[d]
      BY <1>2 DEF crs
    <3>2. \A x \in DOMAIN cluster \ {t} : \A d \in Crs : OwnedByCr(x, d) => OwnedByCr(x, d)'
      BY <1>2, <2>3, OwnedStays
    <3> QED
      BY <1>1, <1>7, <2>5, <3>1, <3>2, Writing
  <2>7. ASSUME NEW d \in Crs, NEW x \in Wanted(d, spec[d]) PROVE x # t
    <3>1. x \in AllWanted(d)
      BY <1>1 DEF AllWanted
    <3> QED
      BY <1>1, <2>1, <3>1, WantedFacts
  <2>8. ASSUME NEW d \in Crs PROVE NoGain(d)
    BY <2>3, <2>7 DEF NoGain
  <2>9. ASSUME NEW d \in Crs, NEW a \in Asks(d, spec[d]), Keeps(d, a) PROVE Keeps(d, a)'
    <3>1. a.object # t
      BY <2>7 DEF Wanted
    <3>2. a.object \in DOMAIN cluster
      BY <2>9 DEF Keeps
    <3>3. cluster'[a.object] = cluster[a.object] /\ a.object \in DOMAIN cluster'
      BY <2>3, <3>1, <3>2
    <3> QED
      BY <2>9, <3>3, KeepsSame
  <2> QED
    BY <1>3, <2>6, <2>8, <2>9 DEF LeavesAlone
<1> QED
  BY <1>5, <1>6, <1>7

\* cert-manager changes neither values nor owners.
LEMMA IssueEffect ==
  ASSUME IInv, NEW o \in DOMAIN cluster, Issue(o)
  PROVE  ClusterInv' /\ \A d \in Crs : LeavesAlone(d)
<1>1. ClusterInv /\ setup' = setup /\ UNCHANGED crs /\ o.kind = "Certificate"
      /\ cluster' = [cluster EXCEPT ![o].ready = TRUE]
  BY DEF IInv, Issue
<1>2. ObjectInv(o) /\ \A x \in DOMAIN cluster : x # o => cluster'[x] = cluster[x]
  BY <1>1 DEF ClusterInv
<1>3. DOMAIN cluster' = DOMAIN cluster /\ cluster'[o] = [cluster[o] EXCEPT !.ready = TRUE]
  BY <1>1
<1>4. cluster'[o] = [value |-> cluster[o].value, owner |-> cluster[o].owner, ready |-> TRUE]
  BY <1>2, <1>3 DEF ObjectInv, IsState
<1>5. /\ IsState(cluster'[o]) /\ cluster'[o].value = cluster[o].value
      /\ cluster'[o].owner = cluster[o].owner
  BY <1>4 DEF IsState
<1>6. SharedStays
  BY <1>3 DEF SharedStays
<1>7. ObjectInv(o)'
  <2>1. \A d : Wanted(d, spec[d])' = Wanted(d, spec[d])
    BY <1>1, SamePlans DEF crs
  <2>2. \A d : OwnedByCr(o, d) => OwnedByCr(o, d)'
    BY <1>1, <1>5, <2>1 DEF OwnedByCr, crs
  <2>3. OwnedByExternal(o) => OwnedByExternal(o)'
    BY <1>5 DEF OwnedByExternal
  <2>4. dropped' = dropped
    BY <1>1 DEF crs
  <2> QED
    BY <1>2, <1>3, <1>5, <2>2, <2>3, <2>4 DEF ObjectInv
<1>8. ASSUME NEW x \in DOMAIN cluster, x # o PROVE ObjectInv(x)'
  <2>1. \A d \in Crs : dropped[d] \subseteq dropped'[d]
    BY <1>1 DEF crs
  <2>2. ObjectInv(x) /\ cluster'[x] = cluster[x]
    BY <1>1, <1>2, <1>8 DEF ClusterInv
  <2>3. \A d \in Crs : OwnedByCr(x, d) => OwnedByCr(x, d)'
    BY <1>1, <2>2, OwnedStays
  <2> QED
    BY <1>6, <2>1, <2>2, <2>3, ObjectKept
<1>9. ClusterInv'
  BY <1>3, <1>7, <1>8 DEF ClusterInv
<1>10. \A c, a : Keeps(c, a) => Keeps(c, a)'
  BY <1>2, <1>3, <1>5 DEF Keeps
<1>11. \A d : NoGain(d)
  BY <1>2, <1>3, <1>5 DEF NoGain
<1> QED
  BY <1>6, <1>9, <1>10, <1>11 DEF LeavesAlone

----------------------------------------------------------------------------
(* What steps do to a CR and its worker.                                    *)

\* What holds of a CR holds on while its worker rests and its objects are left alone.
LEMMA OthersKeep ==
  ASSUME TypeInv, NEW d \in Crs, CrInv(d), LeavesAlone(d), setup' = setup,
         spec'[d] = spec[d], dropped'[d] = dropped[d], phase'[d] = phase[d],
         doing'[d] = doing[d], todo'[d] = todo[d], outcome'[d] = outcome[d],
         wake'[d] => wake[d] \/ phase[d] # "gone"
  PROVE  CrInv(d)'
<1>1. /\ Asks(d, spec[d])' = Asks(d, spec[d]) /\ Wanted(d, spec[d])' = Wanted(d, spec[d])
      /\ ReconcilePlan(d, spec[d])' = ReconcilePlan(d, spec[d])
      /\ \A o : Undisputed(d, o)' <=> Undisputed(d, o)
  BY SamePlans
<1>2. WorkInv(d)'
  <2>1. NeedsBefore(todo[d], DOMAIN cluster')
    BY NeedsStay DEF CrInv, WorkInv, LeavesAlone, SharedStays
  <2> QED
    BY <1>1, <2>1 DEF CrInv, WorkInv
<1>3. TornInv(d)'
  <2> SUFFICES ASSUME doing[d] = "teardown", NEW o \in Wanted(d, spec[d]), o \in DOMAIN cluster'
               PROVE  \/ IsShared(o) \/ o.kind = "SecretStore" \/ Delete(o) \in Range(todo[d])
                      \/ ~Undisputed(d, o) /\ cluster'[o].owner # CrObject(d)
    BY <1>1 DEF TornInv, CrObject
  <2>1. \/ IsShared(o)
        \/ o \in DOMAIN cluster /\ (cluster'[o].owner = CrObject(d) => cluster[o].owner = CrObject(d))
        \/ ~Undisputed(d, o) /\ cluster'[o].owner # CrObject(d)
    BY DEF LeavesAlone, NoGain
  <2>2. o \in DOMAIN cluster =>
          \/ IsShared(o) \/ o.kind = "SecretStore" \/ Delete(o) \in Range(todo[d])
          \/ ~Undisputed(d, o) /\ cluster[o].owner # CrObject(d)
    BY DEF CrInv, TornInv
  <2> QED
    BY <2>1, <2>2
<1>4. KeepInv(d)'
  BY <1>1 DEF CrInv, KeepInv, LeavesAlone
<1> QED
  BY <1>2, <1>3, <1>4 DEF CrInv

\* A worker that has nothing to do.
LEMMA Rests ==
  ASSUME NEW c \in Crs, setup' = setup, spec'[c] = spec[c], dropped'[c] = dropped[c],
         doing'[c] = "idle", todo'[c] = <<>>,
         phase'[c] = "gone" => ~wake'[c] /\ outcome'[c] = "none",
         phase'[c] = "live" /\ outcome'[c] = "ready" =>
           \A a \in Asks(c, spec[c]) :
             a.object \notin dropped[c] /\ Undisputed(c, a.object) => Keeps(c, a)'
  PROVE  CrInv(c)'
<1>1. Asks(c, spec[c])' = Asks(c, spec[c]) /\ \A o : Undisputed(c, o)' <=> Undisputed(c, o)
  BY SamePlans
<1>2. Range(<<>>) = {} /\ DOMAIN <<>> = {}
  BY Short
<1>3. WorkInv(c)'
  BY <1>2 DEF WorkInv, NeedsBefore
<1>4. TornInv(c)'
  BY DEF TornInv
<1>5. KeepInv(c)'
  BY <1>1 DEF KeepInv
<1> QED
  BY <1>3, <1>4, <1>5 DEF CrInv

\* A reconcile, or a teardown, that ends without having reported what it did ready.
LEMMA EndsKeep ==
  ASSUME TypeInv, NEW c \in Crs, WorkInv(c), doing[c] # "idle", phase[c] # "gone",
         NEW result, result # "ready", Ends(c, result), setup' = setup, UNCHANGED crs
  PROVE  /\ CrInv(c)'
         /\ \A d \in Crs \ {c} :
              doing'[d] = doing[d] /\ todo'[d] = todo[d] /\ outcome'[d] = outcome[d]
<1>1. /\ doing'[c] = "idle" /\ todo'[c] = <<>>
      /\ outcome'[c] = IF doing[c] = "reconcile" THEN result ELSE outcome[c]
      /\ \A d \in Crs \ {c} :
           doing'[d] = doing[d] /\ todo'[d] = todo[d] /\ outcome'[d] = outcome[d]
  BY DEF Ends, TypeInv
<1>2. spec' = spec /\ phase' = phase /\ dropped' = dropped
  BY DEF crs
<1>3. phase[c] = "live" /\ doing[c] # "reconcile" => doing[c] = "outdated"
  BY DEF TypeInv, WorkInv
<1>4. ~(phase'[c] = "live" /\ outcome'[c] = "ready")
  BY <1>1, <1>2, <1>3 DEF WorkInv
<1>5. CrInv(c)'
  BY <1>1, <1>2, <1>4, Rests
<1> QED
  BY <1>1, <1>5

----------------------------------------------------------------------------
(* The actions.                                                             *)

\* A call leaves the objects of other CRs alone.
LEMMA CallEffect ==
  ASSUME IInv, NEW c \in Crs, CallMade(c), setup' = setup, UNCHANGED crs
  PROVE  ClusterInv' /\ SyncInv' /\ SharedStays /\ \A d \in Crs \ {c} : LeavesAlone(d)
<1>1. PICK call, o : call = Current(c) /\ o = call.object
  OBVIOUS
<1>2. CASE IsAsk(call)
  BY <1>1, <1>2, AskEffect
<1>3. CASE ~IsAsk(call)
  <2>1. /\ setup \in Setups /\ \A d \in Crs : spec[d] \in Specs(d)
        /\ TypeInv /\ WorkInv(c) /\ todo[c] # <<>>
    BY DEF IInv, TypeInv, CrInv, CallMade
  <2>2. call.op = "delete" /\ cluster' = Without({o}) /\ sync' = StaleSync({o})
    BY <1>1, <1>3 DEF CallMade, After, IsAsk
  <2>3. call \in CallsOf(c)
    BY <1>1, <2>1, CurrentFacts
  <2>4. ~IsShared(o) /\ o.kind \notin {"cr", "gone", "none"}
    BY <1>1, <2>1, <2>2, <2>3, CallFacts
  <2>5. /\ ClusterInv' /\ SyncInv' /\ SharedStays /\ DOMAIN cluster' = DOMAIN cluster \ {o}
        /\ \A d \in Crs : \A a \in Asks(d, spec[d]) : a.object # o /\ Keeps(d, a) => Keeps(d, a)'
        /\ \A d : NoGain(d)
    BY <2>2, <2>4, DeleteEffect
  <2>6. ASSUME NEW d \in Crs \ {c}, NEW x, Undisputed(d, x) PROVE x # o
    BY <1>1, <2>3, <2>4, <2>6, CrsApart
  <2> QED
    BY <2>5, <2>6 DEF LeavesAlone
<1> QED
  BY <1>2, <1>3

\* Step: a call is made and the worker goes on to the next.
LEMMA StepKeeps ==
  ASSUME IInv, NEW c \in Crs, Step(c)
  PROVE  ClusterInv' /\ SyncInv' /\ \A d \in Crs : CrInv(d)'
<1>1. /\ CallMade(c) /\ setup' = setup /\ UNCHANGED crs /\ todo' = [todo EXCEPT ![c] = Tail(@)]
      /\ wake' = wake /\ doing' = doing /\ outcome' = outcome
  BY DEF Step, CallMade
<1>2. /\ TypeInv /\ \A d \in Crs : CrInv(d)
      /\ setup \in Setups /\ \A d \in Crs : spec[d] \in Specs(d)
      /\ todo[c] \in Seq(CallsOf(c))
      /\ ClusterInv
  BY DEF IInv, TypeInv
<1>3. spec' = spec /\ phase' = phase /\ dropped' = dropped
  BY <1>1 DEF crs
<1>4. todo'[c] = Tail(todo[c]) /\ \A d \in Crs \ {c} : todo'[d] = todo[d]
  BY <1>1, <1>2 DEF TypeInv
<1>5. ClusterInv' /\ SyncInv' /\ SharedStays /\ \A d \in Crs \ {c} : LeavesAlone(d)
  BY <1>1, CallEffect
<1>6. \A d \in Crs \ {c} : CrInv(d)'
  BY <1>1, <1>2, <1>3, <1>4, <1>5, OthersKeep
<1>7. PICK call, o : call = Current(c) /\ o = call.object
  OBVIOUS
<1>8. /\ call \in CallsOf(c) /\ Range(todo[c]) = {call} \cup Range(Tail(todo[c]))
      /\ doing[c] # "idle" /\ phase[c] # "gone" /\ todo[c] # <<>>
      /\ doing[c] = "reconcile" => call \in Range(ReconcilePlan(c, spec[c]))
      /\ IsAsk(call) => doing[c] # "teardown"
      /\ call = Head(todo[c])
  BY <1>1, <1>2, <1>7, CurrentFacts DEF CrInv, CallMade, Current
<1>9. /\ IsAsk(call) => o \in DOMAIN cluster'
      /\ ~IsAsk(call) => /\ DOMAIN cluster' = DOMAIN cluster \ {o}
                         /\ call.op = "delete" /\ ~IsShared(o)
                         /\ \A x \in DOMAIN cluster' : cluster'[x].owner \in {cluster[x].owner, Gone}
      /\ doing[c] = "reconcile" =>
           \A a \in Asks(c, spec[c]) :
             /\ a.object \notin dropped[c] /\ Undisputed(c, a.object)
             /\ Keeps(c, a) \/ a = call
             => Keeps(c, a)'
  <2>1. CASE IsAsk(call)
    <3>1. DOMAIN cluster' = DOMAIN cluster \cup {o}
      BY <1>1, <1>7, <2>1, AskEffect
    <3>2. doing[c] = "reconcile" =>
            \A a \in Asks(c, spec[c]) :
              /\ a.object \notin dropped[c] /\ Undisputed(c, a.object)
              /\ Keeps(c, a) \/ a = call
              => Keeps(c, a)'
      BY <1>1, <1>7, <2>1, AskEffect
    <3> QED
      BY <2>1, <3>1, <3>2
  <2>2. CASE ~IsAsk(call)
    <3>1. call.op = "delete" /\ cluster' = Without({o}) /\ sync' = StaleSync({o})
      BY <1>1, <1>7, <2>2 DEF CallMade, After, IsAsk
    <3>2. ~IsShared(o) /\ o.kind \notin {"cr", "gone", "none"}
      BY <1>2, <1>7, <1>8, <3>1, CallFacts
    <3>3. /\ DOMAIN cluster' = DOMAIN cluster \ {o}
          /\ \A a \in Asks(c, spec[c]) : a.object # o /\ Keeps(c, a) => Keeps(c, a)'
          /\ \A x \in DOMAIN cluster' : cluster'[x].owner \in {cluster[x].owner, Gone}
      BY <1>1, <3>1, <3>2, DeleteEffect
    <3>4. ASSUME doing[c] = "reconcile", NEW a \in Asks(c, spec[c]), Undisputed(c, a.object)
          PROVE  a.object # o /\ a # call
      <4>1. IsAsk(a)
        BY <3>4 DEF Asks
      <4> QED
        BY <1>2, <1>7, <1>8, <2>2, <3>4, <4>1, AskFacts
    <3> QED
      BY <2>2, <3>1, <3>2, <3>3, <3>4
  <2> QED
    BY <2>1, <2>2
<1>10. /\ Asks(c, spec[c])' = Asks(c, spec[c]) /\ Wanted(c, spec[c])' = Wanted(c, spec[c])
       /\ ReconcilePlan(c, spec[c])' = ReconcilePlan(c, spec[c])
       /\ \A x : Undisputed(c, x)' <=> Undisputed(c, x)
  BY <1>1, <1>3, SamePlans
<1>11. WorkInv(c)'
  <2>1. WorkInv(c)
    BY <1>2 DEF CrInv
  <2>2. NeedsBefore(Tail(todo[c]), DOMAIN cluster')
    <3>1. NeedsBefore(todo[c], DOMAIN cluster)
      BY <2>1 DEF WorkInv
    <3>2. \A n \in DOMAIN cluster : IsShared(n) => n \in DOMAIN cluster'
      BY <1>5 DEF SharedStays
    <3>3. IsAsk(Head(todo[c])) => Head(todo[c]).object \in DOMAIN cluster'
      BY <1>7, <1>8, <1>9
    <3> QED
      BY <1>2, <1>8, <3>1, <3>2, <3>3, NeedsTail
  <2>3. Range(Tail(todo[c])) \subseteq Range(todo[c])
    BY <1>8
  <2> QED
    BY <1>1, <1>3, <1>4, <1>8, <1>10, <2>1, <2>2, <2>3 DEF WorkInv
<1>12. TornInv(c)'
  <2> SUFFICES ASSUME doing[c] = "teardown", NEW x \in Wanted(c, spec[c]), x \in DOMAIN cluster'
               PROVE  \/ IsShared(x) \/ x.kind = "SecretStore" \/ Delete(x) \in Range(Tail(todo[c]))
                      \/ ~Undisputed(c, x) /\ cluster'[x].owner # CrObject(c)
    BY <1>1, <1>4, <1>10 DEF TornInv, CrObject
  <2>1. x \in DOMAIN cluster /\ x # o
    BY <1>8, <1>9
  <2>2. \/ IsShared(x) \/ x.kind = "SecretStore" \/ Delete(x) \in Range(todo[c])
        \/ ~Undisputed(c, x) /\ cluster[x].owner # CrObject(c)
    BY <1>2, <2>1 DEF CrInv, TornInv
  <2>3. Delete(x) # call
    BY <1>7, <2>1 DEF Delete, Call
  <2>4. cluster'[x].owner = CrObject(c) => cluster[x].owner = CrObject(c)
    <3>1. CrObject(c) # Gone
      BY Owners
    <3> QED
      BY <1>8, <1>9, <3>1
  <2> QED
    BY <1>8, <2>2, <2>3, <2>4
<1>13. KeepInv(c)'
  <2> SUFFICES ASSUME NEW a \in Asks(c, spec[c]), a.object \notin dropped[c],
                      Undisputed(c, a.object)
               PROVE  /\ doing[c] = "reconcile" => a \in Range(Tail(todo[c])) \/ Keeps(c, a)'
                      /\ phase[c] = "live" /\ outcome[c] = "ready" => Keeps(c, a)'
    BY <1>1, <1>3, <1>4, <1>10 DEF KeepInv
  <2>1. /\ doing[c] = "reconcile" => a \in Range(todo[c]) \/ Keeps(c, a)
        /\ phase[c] = "live" /\ outcome[c] = "ready" => Keeps(c, a)
    BY <1>2 DEF CrInv, KeepInv
  <2>2. phase[c] = "live" /\ outcome[c] = "ready" => doing[c] = "reconcile"
    BY <1>2, <1>8 DEF CrInv, WorkInv, TypeInv
  <2> QED
    BY <1>8, <1>9, <2>1, <2>2
<1> QED
  BY <1>5, <1>6, <1>11, <1>12, <1>13 DEF CrInv

\* The actions that end the work on a CR before it is done.
LEMMA EndingKeeps ==
  ASSUME IInv, NEW c \in Crs, AwaitCertificate(c) \/ Refused(c) \/ Fails(c) \/ StatusFails(c)
  PROVE  ClusterInv' /\ SyncInv' /\ \A d \in Crs : CrInv(d)'
<1>1. /\ TypeInv /\ ClusterInv /\ SyncInv /\ (\A d \in Crs : CrInv(d)) /\ WorkInv(c)
      /\ wake \in [Crs -> BOOLEAN]
  BY DEF IInv, CrInv, TypeInv
<1>2. /\ setup' = setup /\ UNCHANGED crs
      /\ wake' = wake \/ wake' = [wake EXCEPT ![c] = TRUE]
      /\ \E result \in {"provisioning", "failed"} : Ends(c, result)
      /\ todo[c] # <<>> \/ doing[c] \in {"reconcile", "outdated"}
      /\ CallMade(c) \/ (cluster' = cluster /\ sync' = sync)
  <2>1. CASE AwaitCertificate(c)
    BY <2>1 DEF AwaitCertificate, Awaits, CallMade
  <2>2. CASE Refused(c)
    BY <2>2 DEF Refused, EndsInError
  <2>3. CASE Fails(c)
    BY <2>3 DEF Fails, EndsInError, CallMade
  <2>4. CASE StatusFails(c)
    BY <2>4 DEF StatusFails
  <2> QED
    BY <2>1, <2>2, <2>3, <2>4
<1>3. doing[c] # "idle" /\ phase[c] # "gone"
  BY <1>1, <1>2 DEF WorkInv
<1>4. /\ CrInv(c)'
      /\ \A d \in Crs \ {c} :
           doing'[d] = doing[d] /\ todo'[d] = todo[d] /\ outcome'[d] = outcome[d]
  BY <1>1, <1>2, <1>3, EndsKeep
<1>5. ClusterInv' /\ SyncInv' /\ \A d \in Crs \ {c} : LeavesAlone(d)
  <2>1. CASE CallMade(c)
    BY <1>2, <2>1, CallEffect
  <2>2. CASE cluster' = cluster /\ sync' = sync
    <3>1. SyncInv'
      BY <1>1, <2>2 DEF SyncInv
    <3> QED
      BY <1>1, <1>2, <2>2, <3>1, Unchanged
  <2> QED
    BY <1>2, <2>1, <2>2
<1>6. \A d \in Crs \ {c} : wake'[d] = wake[d]
  BY <1>1, <1>2
<1>7. spec' = spec /\ phase' = phase /\ dropped' = dropped
  BY <1>2 DEF crs
<1>8. \A d \in Crs \ {c} : CrInv(d)'
  BY <1>1, <1>2, <1>4, <1>5, <1>6, <1>7, OthersKeep
<1> QED
  BY <1>4, <1>5, <1>8

\* A worker takes a CR up.
LEMMA StartKeeps ==
  ASSUME IInv, NEW c \in Crs, Start(c)
  PROVE  ClusterInv' /\ SyncInv' /\ \A d \in Crs : CrInv(d)'
<1>1. /\ TypeInv /\ ClusterInv /\ SyncInv /\ (\A d \in Crs : CrInv(d)) /\ WorkInv(c) /\ KeepInv(c)
      /\ setup \in Setups /\ spec[c] \in Specs(c)
  BY DEF IInv, CrInv, TypeInv
<1>2. /\ setup' = setup /\ UNCHANGED crs /\ outcome' = outcome
      /\ cluster' = cluster /\ sync' = sync /\ phase[c] # "gone"
      /\ spec' = spec /\ phase' = phase /\ dropped' = dropped
      /\ wake' = [wake EXCEPT ![c] = FALSE]
      /\ \/ /\ phase[c] = "live" /\ doing' = [doing EXCEPT ![c] = "reconcile"]
            /\ todo' = [todo EXCEPT ![c] = ReconcilePlan(c, spec[c])]
         \/ /\ phase[c] = "deleting" /\ doing' = [doing EXCEPT ![c] = "teardown"]
            /\ todo' = [todo EXCEPT ![c] = TeardownPlan(c, spec[c])]
  BY DEF Start, crs
<1>3. ClusterInv' /\ SyncInv' /\ \A d : LeavesAlone(d)
  <2>1. SyncInv'
    BY <1>1, <1>2 DEF SyncInv
  <2> QED
    BY <1>1, <1>2, <2>1, Unchanged
<1>4. \A d \in Crs \ {c} :
        doing'[d] = doing[d] /\ todo'[d] = todo[d] /\ outcome'[d] = outcome[d] /\ wake'[d] = wake[d]
  BY <1>1, <1>2 DEF TypeInv
<1>5. \A d \in Crs \ {c} : CrInv(d)'
  BY <1>1, <1>2, <1>3, <1>4, OthersKeep
<1>6. Fits(c, ReconcilePlan(c, spec[c]), TeardownPlan(c, spec[c]))
  BY <1>1, PlansFit
<1>7. /\ Asks(c, spec[c])' = Asks(c, spec[c]) /\ Wanted(c, spec[c])' = Wanted(c, spec[c])
      /\ ReconcilePlan(c, spec[c])' = ReconcilePlan(c, spec[c])
      /\ \A o : Undisputed(c, o)' <=> Undisputed(c, o)
  BY <1>2, SamePlans
<1>8. \A call \in Range(ReconcilePlan(c, spec[c])) :
        IsAsk(call) => call \in Asks(c, spec[c]) /\ call.object \in Wanted(c, spec[c])
  BY DEF Asks, Wanted
<1>9. \A a : Keeps(c, a)' <=> Keeps(c, a)
  BY <1>2 DEF Keeps
<1>10. CASE phase[c] = "live"
  <2>1. doing'[c] = "reconcile" /\ todo'[c] = ReconcilePlan(c, spec[c])
    BY <1>1, <1>2, <1>10 DEF TypeInv
  <2>2. NeedsBefore(ReconcilePlan(c, spec[c]), DOMAIN cluster)
    BY <1>6, NeedsStay DEF Fits
  <2>3. WorkInv(c)'
    BY <1>2, <1>7, <1>8, <1>10, <2>1, <2>2 DEF WorkInv
  <2>4. TornInv(c)'
    BY <2>1 DEF TornInv
  <2>5. KeepInv(c)'
    <3>1. \A a \in Asks(c, spec[c]) : a \in Range(ReconcilePlan(c, spec[c]))
      BY DEF Asks
    <3> QED
      BY <1>1, <1>2, <1>7, <1>9, <2>1, <3>1 DEF KeepInv
  <2> QED
    BY <1>3, <1>5, <2>3, <2>4, <2>5 DEF CrInv
<1>11. CASE phase[c] = "deleting"
  <2>1. doing'[c] = "teardown" /\ todo'[c] = TeardownPlan(c, spec[c])
    BY <1>1, <1>2, <1>11 DEF TypeInv
  <2>2. \A call \in Range(TeardownPlan(c, spec[c])) : ~IsAsk(call)
    BY <1>6 DEF Fits, TeardownCall, IsAsk
  <2>3. WorkInv(c)'
    <3>1. NeedsBefore(TeardownPlan(c, spec[c]), DOMAIN cluster)
      BY <2>2 DEF NeedsBefore, Range
    <3> QED
      BY <1>2, <1>11, <2>1, <2>2, <3>1 DEF WorkInv
  <2>4. TornInv(c)'
    <3>1. \A o \in Wanted(c, spec[c]) :
            \/ IsShared(o) \/ o.kind = "SecretStore"
            \/ Delete(o) \in Range(TeardownPlan(c, spec[c]))
      BY <1>6 DEF Fits, Removes, Wanted, Asks
    <3> QED
      BY <1>7, <2>1, <3>1 DEF TornInv
  <2>5. KeepInv(c)'
    BY <1>1, <1>2, <1>7, <1>9, <2>1 DEF KeepInv
  <2> QED
    BY <1>3, <1>5, <2>3, <2>4, <2>5 DEF CrInv
<1> QED
  BY <1>2, <1>10, <1>11

\* A reconcile that is done has done all that the contract asks for.
LEMMA ReturnKeeps ==
  ASSUME IInv, NEW c \in Crs, Return(c)
  PROVE  ClusterInv' /\ SyncInv' /\ \A d \in Crs : CrInv(d)'
<1>1. /\ TypeInv /\ ClusterInv /\ SyncInv /\ (\A d \in Crs : CrInv(d)) /\ WorkInv(c) /\ KeepInv(c)
  BY DEF IInv, CrInv
<1>2. /\ setup' = setup /\ UNCHANGED crs /\ cluster' = cluster /\ sync' = sync
      /\ spec' = spec /\ phase' = phase /\ dropped' = dropped /\ wake' = wake
      /\ doing[c] \in {"reconcile", "outdated"} /\ todo[c] = <<>>
  BY DEF Return, crs
<1>3. /\ doing'[c] = "idle" /\ todo'[c] = <<>>
      /\ outcome'[c] = IF doing[c] = "reconcile" THEN "ready" ELSE outcome[c]
      /\ \A d \in Crs \ {c} :
           doing'[d] = doing[d] /\ todo'[d] = todo[d] /\ outcome'[d] = outcome[d]
  BY <1>1 DEF Return, Ends, TypeInv
<1>4. ClusterInv' /\ SyncInv' /\ \A d : LeavesAlone(d)
  <2>1. SyncInv'
    BY <1>1, <1>2 DEF SyncInv
  <2> QED
    BY <1>1, <1>2, <2>1, Unchanged
<1>5. \A d \in Crs \ {c} : CrInv(d)'
  BY <1>1, <1>2, <1>3, <1>4, OthersKeep
<1>6. phase[c] # "gone"
  BY <1>1, <1>2 DEF WorkInv
<1>7. outcome'[c] = "ready" =>
        \A a \in Asks(c, spec[c]) :
          a.object \notin dropped[c] /\ Undisputed(c, a.object) => Keeps(c, a)'
  <2>1. Range(todo[c]) = {}
    BY <1>2, Short
  <2>2. outcome'[c] = "ready" => doing[c] = "reconcile"
    BY <1>1, <1>2, <1>3 DEF WorkInv
  <2>3. \A a : Keeps(c, a) => Keeps(c, a)'
    BY <1>2 DEF Keeps
  <2> QED
    BY <1>1, <2>1, <2>2, <2>3 DEF KeepInv
<1>8. CrInv(c)'
  BY <1>2, <1>3, <1>6, <1>7, Rests
<1> QED
  BY <1>4, <1>5, <1>8

\* A CR is let go.
LEMMA LetGoKeeps ==
  ASSUME IInv, NEW c \in Crs, LetGo(c)
  PROVE  ClusterInv' /\ SyncInv' /\ \A d \in Crs : CrInv(d)'
<1>1. TypeInv /\ \A d \in Crs : CrInv(d)
  BY DEF IInv
<1>2. ClusterInv' /\ SyncInv' /\ \A d \in Crs \ {c} : LeavesAlone(d)
  BY LetGoEffect
<1>3. /\ setup' = setup /\ spec' = spec /\ dropped' = dropped /\ todo' = todo /\ todo[c] = <<>>
      /\ phase' = [phase EXCEPT ![c] = "gone"] /\ doing' = [doing EXCEPT ![c] = "idle"]
      /\ outcome' = [outcome EXCEPT ![c] = "none"] /\ wake' = [wake EXCEPT ![c] = FALSE]
  BY DEF LetGo
<1>4. /\ phase'[c] = "gone" /\ doing'[c] = "idle" /\ outcome'[c] = "none" /\ ~wake'[c]
      /\ \A d \in Crs \ {c} : /\ phase'[d] = phase[d] /\ doing'[d] = doing[d]
                              /\ outcome'[d] = outcome[d] /\ wake'[d] = wake[d]
  BY <1>1, <1>3 DEF TypeInv
<1>5. \A d \in Crs \ {c} : CrInv(d)'
  BY <1>1, <1>2, <1>3, <1>4, OthersKeep
<1>6. CrInv(c)'
  BY <1>3, <1>4, Rests
<1> QED
  BY <1>2, <1>5, <1>6

\* An event, or a resync.
LEMMA WakeKeeps ==
  ASSUME IInv, NEW c \in Crs, Wake(c)
  PROVE  ClusterInv' /\ SyncInv' /\ \A d \in Crs : CrInv(d)'
<1>1. TypeInv /\ ClusterInv /\ SyncInv /\ \A d \in Crs : CrInv(d)
  BY DEF IInv
<1>2. /\ setup' = setup /\ UNCHANGED crs /\ cluster' = cluster /\ sync' = sync
      /\ spec' = spec /\ phase' = phase /\ dropped' = dropped
      /\ doing' = doing /\ todo' = todo /\ outcome' = outcome
      /\ phase[c] # "gone" /\ wake' = [wake EXCEPT ![c] = TRUE]
  BY DEF Wake, crs, worker
<1>3. ClusterInv' /\ SyncInv' /\ \A d : LeavesAlone(d)
  <2>1. SyncInv'
    BY <1>1, <1>2 DEF SyncInv
  <2> QED
    BY <1>1, <1>2, <2>1, Unchanged
<1>4. \A d \in Crs : wake'[d] => wake[d] \/ phase[d] # "gone"
  BY <1>1, <1>2 DEF TypeInv
<1> QED
  BY <1>1, <1>2, <1>3, <1>4, OthersKeep

\* A contract is edited: what only the old one asks for is dropped.
LEMMA EditKeeps ==
  ASSUME IInv, NEW c \in Crs, Edit(c)
  PROVE  ClusterInv' /\ SyncInv' /\ \A d \in Crs : CrInv(d)'
<1>1. /\ TypeInv /\ ClusterInv /\ SyncInv /\ (\A d \in Crs : CrInv(d)) /\ WorkInv(c)
  BY DEF IInv, CrInv
<1>2. PICK s \in Specs(c) :
        /\ spec' = [spec EXCEPT ![c] = s]
        /\ dropped' = [dropped EXCEPT ![c] = @ \cup (Wanted(c, spec[c]) \ Wanted(c, s))]
  BY DEF Edit
<1>3. /\ setup' = setup /\ cluster' = cluster /\ sync' = sync /\ todo' = todo /\ phase' = phase
      /\ wake' = [wake EXCEPT ![c] = TRUE] /\ phase[c] = "live"
      /\ doing' = [doing EXCEPT ![c] = IF @ = "reconcile" THEN "outdated" ELSE @]
      /\ outcome' = [outcome EXCEPT ![c] = "none"]
  BY DEF Edit
<1>4. /\ spec'[c] = s /\ dropped'[c] = dropped[c] \cup (Wanted(c, spec[c]) \ Wanted(c, s))
      /\ doing'[c] = IF doing[c] = "reconcile" THEN "outdated" ELSE doing[c]
      /\ outcome'[c] = "none"
      /\ \A d \in Crs \ {c} : /\ spec'[d] = spec[d] /\ dropped'[d] = dropped[d]
                              /\ doing'[d] = doing[d] /\ outcome'[d] = outcome[d]
                              /\ wake'[d] = wake[d]
  BY <1>1, <1>2, <1>3 DEF TypeInv
<1>5. /\ Wanted(c, spec[c])' = Wanted(c, s)
      /\ \A d \in Crs \ {c} : Wanted(d, spec[d])' = Wanted(d, spec[d])
  BY <1>3, <1>4, SamePlans
<1>6. Wanted(c, spec[c]) \cup dropped[c] \subseteq Wanted(c, s) \cup dropped'[c]
  BY <1>4
<1>7. SyncInv' /\ ClusterInv' /\ SharedStays /\ \A d : LeavesAlone(d)
  <2>1. SyncInv'
    BY <1>1, <1>3 DEF SyncInv
  <2>2. \A d \in Crs : dropped[d] \subseteq dropped'[d]
    BY <1>4
  <2>3. ASSUME NEW x \in DOMAIN cluster, NEW d \in Crs, OwnedByCr(x, d) PROVE OwnedByCr(x, d)'
    <3>1. cluster'[x].owner = CrObject(d) /\ phase'[d] # "gone" /\ x.ns = d.ns
      BY <1>3, <2>3 DEF OwnedByCr
    <3>2. x \in Wanted(d, spec[d])' \cup dropped'[d]
      BY <1>4, <1>5, <1>6, <2>3 DEF OwnedByCr
    <3> QED
      BY <3>1, <3>2 DEF OwnedByCr
  <2> QED
    BY <1>1, <1>3, <2>1, <2>2, <2>3, SameObjects
<1>8. \A d \in Crs \ {c} : CrInv(d)'
  BY <1>1, <1>3, <1>4, <1>7, OthersKeep
<1>9. WorkInv(c)'
  BY <1>1, <1>3, <1>4, <1>5, <1>6 DEF WorkInv
<1>10. TornInv(c)' /\ KeepInv(c)'
  BY <1>1, <1>3, <1>4 DEF WorkInv, TornInv, KeepInv
<1> QED
  BY <1>7, <1>8, <1>9, <1>10 DEF CrInv

\* A CR is deleted, as far as its finalizer lets it.
LEMMA DeleteCrKeeps ==
  ASSUME IInv, NEW c \in Crs, DeleteCr(c)
  PROVE  ClusterInv' /\ SyncInv' /\ \A d \in Crs : CrInv(d)'
<1>1. /\ TypeInv /\ ClusterInv /\ SyncInv /\ (\A d \in Crs : CrInv(d)) /\ WorkInv(c)
  BY DEF IInv, CrInv
<1>2. /\ setup' = setup /\ spec' = spec /\ dropped' = dropped /\ cluster' = cluster /\ sync' = sync
      /\ doing' = doing /\ todo' = todo /\ outcome' = outcome /\ wake' = wake
      /\ phase[c] = "live" /\ phase' = [phase EXCEPT ![c] = "deleting"]
  BY DEF DeleteCr, worker
<1>3. phase'[c] = "deleting" /\ \A d \in Crs \ {c} : phase'[d] = phase[d]
  BY <1>1, <1>2 DEF TypeInv
<1>4. \A d \in Crs : /\ Wanted(d, spec[d])' = Wanted(d, spec[d])
                     /\ ReconcilePlan(d, spec[d])' = ReconcilePlan(d, spec[d])
  BY <1>2, SamePlans
<1>5. SyncInv' /\ ClusterInv' /\ \A d : LeavesAlone(d)
  <2>1. SyncInv'
    BY <1>1, <1>2 DEF SyncInv
  <2>2. \A d \in Crs : dropped[d] \subseteq dropped'[d]
    BY <1>2
  <2>3. ASSUME NEW x \in DOMAIN cluster, NEW d \in Crs, OwnedByCr(x, d) PROVE OwnedByCr(x, d)'
    BY <1>2, <1>3, <1>4, <2>3 DEF OwnedByCr
  <2> QED
    BY <1>1, <1>2, <2>1, <2>2, <2>3, SameObjects
<1>6. \A d \in Crs \ {c} : CrInv(d)'
  BY <1>1, <1>2, <1>3, <1>5, OthersKeep
<1>7. /\ Asks(c, spec[c])' = Asks(c, spec[c]) /\ \A a : Keeps(c, a)' <=> Keeps(c, a)
      /\ \A o : Undisputed(c, o)' <=> Undisputed(c, o)
  BY <1>2, SamePlans DEF Keeps
<1>8. WorkInv(c)'
  BY <1>1, <1>2, <1>3, <1>4 DEF WorkInv
<1>9. TornInv(c)'
  BY <1>1, <1>2 DEF WorkInv, TornInv
<1>10. KeepInv(c)'
  BY <1>1, <1>2, <1>3, <1>7 DEF CrInv, KeepInv
<1> QED
  BY <1>5, <1>6, <1>8, <1>9, <1>10 DEF CrInv

\* A CR is created under the name of one that is gone.
LEMMA RecreateKeeps ==
  ASSUME IInv, NEW c \in Crs, Recreate(c)
  PROVE  ClusterInv' /\ SyncInv' /\ \A d \in Crs : CrInv(d)'
<1>1. /\ TypeInv /\ ClusterInv /\ SyncInv /\ (\A d \in Crs : CrInv(d)) /\ WorkInv(c)
  BY DEF IInv, CrInv
<1>2. PICK s \in Specs(c) : spec' = [spec EXCEPT ![c] = s]
  BY DEF Recreate
<1>3. /\ setup' = setup /\ dropped' = dropped /\ cluster' = cluster /\ sync' = sync
      /\ doing' = doing /\ todo' = todo /\ outcome' = outcome
      /\ phase[c] = "gone" /\ phase' = [phase EXCEPT ![c] = "live"]
      /\ wake' = [wake EXCEPT ![c] = TRUE]
  BY DEF Recreate, worker
<1>4. /\ phase'[c] = "live"
      /\ \A d \in Crs \ {c} : phase'[d] = phase[d] /\ spec'[d] = spec[d] /\ wake'[d] = wake[d]
  BY <1>1, <1>2, <1>3 DEF TypeInv
<1>5. SyncInv' /\ ClusterInv' /\ \A d : LeavesAlone(d)
  <2>1. SyncInv'
    BY <1>1, <1>3 DEF SyncInv
  <2>2. \A d \in Crs : dropped[d] \subseteq dropped'[d]
    BY <1>3
  <2>3. ASSUME NEW x \in DOMAIN cluster, NEW d \in Crs, OwnedByCr(x, d) PROVE OwnedByCr(x, d)'
    <3>1. d # c
      BY <1>3, <2>3 DEF OwnedByCr
    <3>2. Wanted(d, spec[d])' = Wanted(d, spec[d])
      BY <1>3, <1>4, <3>1, SamePlans
    <3> QED
      BY <1>3, <1>4, <2>3, <3>1, <3>2 DEF OwnedByCr
  <2> QED
    BY <1>1, <1>3, <2>1, <2>2, <2>3, SameObjects
<1>6. \A d \in Crs \ {c} : CrInv(d)'
  BY <1>1, <1>3, <1>4, <1>5, OthersKeep
<1>7. doing'[c] = "idle" /\ todo'[c] = <<>> /\ outcome'[c] = "none"
  BY <1>1, <1>3 DEF WorkInv
<1>8. WorkInv(c)'
  <2>1. Range(<<>>) = {} /\ DOMAIN <<>> = {}
    BY Short
  <2> QED
    BY <1>4, <1>7, <2>1 DEF WorkInv, NeedsBefore
<1>9. TornInv(c)' /\ KeepInv(c)'
  BY <1>7 DEF TornInv, KeepInv
<1> QED
  BY <1>5, <1>6, <1>8, <1>9 DEF CrInv

\* The process starts again.
LEMMA RestartKeeps ==
  ASSUME IInv, Restart
  PROVE  ClusterInv' /\ SyncInv' /\ \A d \in Crs : CrInv(d)'
<1>1. TypeInv /\ ClusterInv /\ SyncInv /\ \A d \in Crs : CrInv(d)
  BY DEF IInv
<1>2. /\ setup' = setup /\ UNCHANGED crs /\ cluster' = cluster /\ sync' = sync
      /\ spec' = spec /\ phase' = phase /\ dropped' = dropped /\ outcome' = outcome
      /\ \A d \in Crs : /\ doing'[d] = "idle" /\ todo'[d] = <<>>
                        /\ wake'[d] = (phase[d] # "gone")
  BY DEF Restart, crs
<1>3. ClusterInv' /\ SyncInv'
  <2>1. SyncInv'
    BY <1>1, <1>2 DEF SyncInv
  <2> QED
    BY <1>1, <1>2, <2>1, Unchanged
<1>4. \A d, a : Keeps(d, a) => Keeps(d, a)'
  BY <1>2 DEF Keeps
<1>5. ASSUME NEW d \in Crs PROVE CrInv(d)'
  <2>1. phase'[d] = "gone" => ~wake'[d] /\ outcome'[d] = "none"
    BY <1>1, <1>2 DEF CrInv, WorkInv
  <2>2. phase'[d] = "live" /\ outcome'[d] = "ready" =>
          \A a \in Asks(d, spec[d]) :
            a.object \notin dropped[d] /\ Undisputed(d, a.object) => Keeps(d, a)'
    BY <1>1, <1>2, <1>4 DEF CrInv, KeepInv
  <2> QED
    BY <1>2, <2>1, <2>2, Rests
<1> QED
  BY <1>3, <1>5

\* The operator, cert-manager and the garbage collector.
LEMMA ClusterKeeps ==
  ASSUME IInv, EndSync \/ \E o \in DOMAIN cluster : StartSync(o) \/ Collect(o) \/ Issue(o)
  PROVE  ClusterInv' /\ SyncInv' /\ \A d \in Crs : CrInv(d)'
<1>1. /\ TypeInv /\ ClusterInv /\ SyncInv /\ \A d \in Crs : CrInv(d)
  BY DEF IInv
<1>2. /\ setup' = setup /\ UNCHANGED crs /\ UNCHANGED worker /\ wake' = wake
  BY DEF EndSync, StartSync, Collect, Issue
<1>3. ClusterInv' /\ SyncInv' /\ \A d \in Crs : LeavesAlone(d)
  <2>1. CASE EndSync
    BY <2>1, EndSyncEffect
  <2>2. ASSUME NEW e \in DOMAIN cluster, StartSync(e)
        PROVE  ClusterInv' /\ SyncInv' /\ \A d \in Crs : LeavesAlone(d)
    <3>1. /\ cluster' = cluster /\ e.kind = "ExternalSecret"
          /\ sync' = [of |-> e, value |-> cluster[e].value, stale |-> FALSE]
      BY <2>2 DEF StartSync
    <3>2. IsExternal(e)
      BY <1>1, <3>1 DEF ClusterInv, ObjectInv, IsExternal
    <3>3. SyncInv'
      BY <3>1, <3>2 DEF SyncInv
    <3> QED
      BY <1>1, <1>2, <3>1, <3>3, Unchanged
  <2>3. ASSUME NEW o \in DOMAIN cluster, Collect(o)
        PROVE  ClusterInv' /\ SyncInv' /\ \A d \in Crs : LeavesAlone(d)
    <3>1. cluster[o].owner = Gone /\ cluster' = Without({o}) /\ sync' = StaleSync({o})
      BY <2>3 DEF Collect
    <3>2. ~IsShared(o) /\ o.kind \notin {"cr", "gone", "none"}
      BY <1>1, <3>1, Owners DEF ClusterInv, ObjectInv
    <3>3. /\ ClusterInv' /\ SyncInv' /\ SharedStays
          /\ DOMAIN cluster' = DOMAIN cluster \ {o}
          /\ \A c \in Crs : \A a \in Asks(c, spec[c]) :
               a.object # o /\ Keeps(c, a) => Keeps(c, a)'
          /\ \A c : NoGain(c)
      BY <1>2, <3>1, <3>2, DeleteEffect
    <3>4. \A c, a : Keeps(c, a) => a.object # o
      BY <3>1 DEF Keeps
    <3> QED
      BY <3>3, <3>4 DEF LeavesAlone
  <2>4. ASSUME NEW o \in DOMAIN cluster, Issue(o)
        PROVE  ClusterInv' /\ SyncInv' /\ \A d \in Crs : LeavesAlone(d)
    <3>1. SyncInv'
      BY <1>1, <2>4 DEF Issue, SyncInv
    <3> QED
      BY <2>4, <3>1, IssueEffect
  <2> QED
    BY <2>1, <2>2, <2>3, <2>4
<1>4. \A d \in Crs : CrInv(d)'
  BY <1>1, <1>2, <1>3, OthersKeep DEF crs, worker
<1> QED
  BY <1>3, <1>4

----------------------------------------------------------------------------
(* The theorems.                                                            *)

\* Where neither contracts nor what they dropped change.
LEMMA TypeKept ==
  ASSUME TypeInv, setup' = setup, spec' = spec, dropped' = dropped,
         phase' \in [Crs -> {"live", "deleting", "gone"}], wake' \in [Crs -> BOOLEAN],
         doing' \in [Crs -> {"idle", "reconcile", "outdated", "teardown"}],
         outcome' \in [Crs -> {"none", "ready", "provisioning", "failed"}],
         DOMAIN todo' = Crs, \A c \in Crs : todo'[c] \in Seq(CallsOf(c)),
         changes' \in 0..MaxChanges, faults' \in 0..MaxFaults
  PROVE  TypeInv'
<1>1. \A c : Specs(c)' = Specs(c) /\ AllWanted(c)' = AllWanted(c) /\ CallsOf(c)' = CallsOf(c)
  BY SamePlans
<1> QED
  BY <1>1 DEF TypeInv

\* The types of what an action that ends a worker's work writes.
LEMMA EndsTypes ==
  ASSUME TypeInv, NEW c \in Crs, NEW result \in {"none", "ready", "provisioning", "failed"},
         Ends(c, result)
  PROVE  /\ doing' \in [Crs -> {"idle", "reconcile", "outdated", "teardown"}]
         /\ outcome' \in [Crs -> {"none", "ready", "provisioning", "failed"}]
         /\ DOMAIN todo' = Crs /\ \A d \in Crs : todo'[d] \in Seq(CallsOf(d))
<1>1. doing' \in [Crs -> {"idle", "reconcile", "outdated", "teardown"}]
  BY DEF Ends, TypeInv
<1>2. outcome' \in [Crs -> {"none", "ready", "provisioning", "failed"}]
  BY DEF Ends, TypeInv
<1>3. /\ DOMAIN todo' = Crs /\ todo'[c] = <<>>
      /\ \A d \in Crs \ {c} : todo'[d] = todo[d]
  BY DEF Ends, TypeInv
<1>4. \A d \in Crs : todo'[d] \in Seq(CallsOf(d))
  <2>1. \A S : <<>> \in Seq(S)
    OBVIOUS
  <2>2. \A d \in Crs : todo[d] \in Seq(CallsOf(d))
    BY DEF TypeInv
  <2> QED
    BY <1>3, <2>1, <2>2
<1> QED
  BY <1>1, <1>2, <1>3, <1>4

\* Each step keeps the types.
LEMMA TypeStep ==
  ASSUME IInv, Next
  PROVE  TypeInv'
<1>1. TypeInv /\ MaxFaults \in Nat /\ MaxChanges \in Nat /\ Changing \subseteq Crs
  BY ClusterObjectsAssumption DEF IInv
<1>2. /\ setup \in Setups
      /\ phase \in [Crs -> {"live", "deleting", "gone"}]
      /\ wake \in [Crs -> BOOLEAN]
      /\ doing \in [Crs -> {"idle", "reconcile", "outdated", "teardown"}]
      /\ outcome \in [Crs -> {"none", "ready", "provisioning", "failed"}]
      /\ DOMAIN spec = Crs /\ DOMAIN todo = Crs /\ DOMAIN dropped = Crs
      /\ \A c \in Crs : /\ spec[c] \in Specs(c)
                        /\ todo[c] \in Seq(CallsOf(c))
                        /\ dropped[c] \subseteq AllWanted(c)
      /\ changes \in 0..MaxChanges /\ faults \in 0..MaxFaults
  BY <1>1 DEF TypeInv
<1>3. /\ changes < MaxChanges => changes + 1 \in 0..MaxChanges
      /\ faults < MaxFaults => faults + 1 \in 0..MaxFaults
  BY <1>1, <1>2
<1>4. ASSUME NEW c \in Crs
      PROVE  /\ ReconcilePlan(c, spec[c]) \in Seq(CallsOf(c))
             /\ TeardownPlan(c, spec[c]) \in Seq(CallsOf(c))
  <2>1. /\ ReconcilePlan(c, spec[c]) \in Seq(Range(ReconcilePlan(c, spec[c])))
        /\ TeardownPlan(c, spec[c]) \in Seq(Range(TeardownPlan(c, spec[c])))
    BY <1>2, PlansFit DEF Fits
  <2>2. /\ Range(ReconcilePlan(c, spec[c])) \subseteq CallsOf(c)
        /\ Range(TeardownPlan(c, spec[c])) \subseteq CallsOf(c)
    <3>1. \A s \in Specs(c) : /\ Range(ReconcilePlan(c, s)) \subseteq CallsOf(c)
                              /\ Range(TeardownPlan(c, s)) \subseteq CallsOf(c)
      BY DEF CallsOf
    <3> QED
      BY <1>2, <3>1
  <2> QED
    BY <2>1, <2>2, Wider
<1>5. ASSUME NEW c \in Crs, Start(c) PROVE TypeInv'
  <2>1. /\ setup' = setup /\ spec' = spec /\ dropped' = dropped /\ phase' = phase
        /\ outcome' = outcome /\ changes' = changes /\ faults' = faults
        /\ wake' = [wake EXCEPT ![c] = FALSE]
    BY <1>5 DEF Start, crs
  <2>2. wake' \in [Crs -> BOOLEAN]
    BY <1>2, <2>1
  <2>3. doing' \in [Crs -> {"idle", "reconcile", "outdated", "teardown"}]
    BY <1>2, <1>5 DEF Start
  <2>4. /\ DOMAIN todo' = Crs /\ \A d \in Crs \ {c} : todo'[d] = todo[d]
        /\ todo'[c] \in {ReconcilePlan(c, spec[c]), TeardownPlan(c, spec[c])}
    BY <1>2, <1>5 DEF Start
  <2>5. \A d \in Crs : todo'[d] \in Seq(CallsOf(d))
    BY <1>2, <1>4, <2>4
  <2> QED
    BY <1>1, <1>2, <2>1, <2>2, <2>3, <2>4, <2>5, TypeKept
<1>6. ASSUME NEW c \in Crs, Step(c) PROVE TypeInv'
  <2>1. /\ setup' = setup /\ spec' = spec /\ dropped' = dropped /\ phase' = phase
        /\ outcome' = outcome /\ changes' = changes /\ faults' = faults /\ wake' = wake
        /\ doing' = doing /\ todo[c] # <<>> /\ todo' = [todo EXCEPT ![c] = Tail(@)]
    BY <1>6 DEF Step, crs
  <2>2. Tail(todo[c]) \in Seq(CallsOf(c))
    BY <1>2, <2>1, FirstAndRest
  <2>3. DOMAIN todo' = Crs /\ \A d \in Crs : todo'[d] \in Seq(CallsOf(d))
    BY <1>2, <2>1, <2>2
  <2> QED
    BY <1>1, <1>2, <2>1, <2>3, TypeKept
<1>7. ASSUME NEW c \in Crs,
             \/ AwaitCertificate(c) \/ Refused(c) \/ Return(c) \/ Fails(c) \/ StatusFails(c)
      PROVE  TypeInv'
  <2>1. /\ setup' = setup /\ spec' = spec /\ dropped' = dropped /\ phase' = phase
        /\ changes' = changes
        /\ wake' = wake \/ wake' = [wake EXCEPT ![c] = TRUE]
        /\ faults' = faults \/ (faults < MaxFaults /\ faults' = faults + 1)
        /\ \E result \in {"none", "ready", "provisioning", "failed"} : Ends(c, result)
    <3>1. CASE AwaitCertificate(c)
      BY <3>1 DEF AwaitCertificate, crs
    <3>2. CASE Refused(c)
      BY <3>2 DEF Refused, EndsInError, crs
    <3>3. CASE Return(c)
      BY <3>3 DEF Return, crs
    <3>4. CASE Fails(c)
      BY <3>4 DEF Fails, EndsInError, crs
    <3>5. CASE StatusFails(c)
      BY <3>5 DEF StatusFails, crs
    <3> QED
      BY <1>7, <3>1, <3>2, <3>3, <3>4, <3>5
  <2>2. wake' \in [Crs -> BOOLEAN] /\ faults' \in 0..MaxFaults
    BY <1>2, <1>3, <2>1
  <2>3. /\ doing' \in [Crs -> {"idle", "reconcile", "outdated", "teardown"}]
        /\ outcome' \in [Crs -> {"none", "ready", "provisioning", "failed"}]
        /\ DOMAIN todo' = Crs /\ \A d \in Crs : todo'[d] \in Seq(CallsOf(d))
    BY <1>1, <2>1, EndsTypes
  <2> QED
    BY <1>1, <1>2, <2>1, <2>2, <2>3, TypeKept
<1>8. ASSUME NEW c \in Crs, LetGo(c) PROVE TypeInv'
  <2>1. /\ setup' = setup /\ spec' = spec /\ dropped' = dropped /\ todo' = todo
        /\ changes' = changes /\ faults' = faults
    BY <1>8 DEF LetGo
  <2>2. /\ phase' \in [Crs -> {"live", "deleting", "gone"}]
        /\ doing' \in [Crs -> {"idle", "reconcile", "outdated", "teardown"}]
        /\ outcome' \in [Crs -> {"none", "ready", "provisioning", "failed"}]
        /\ wake' \in [Crs -> BOOLEAN]
    BY <1>2, <1>8 DEF LetGo
  <2> QED
    BY <1>1, <1>2, <2>1, <2>2, TypeKept
<1>9. ASSUME NEW c \in Crs, Wake(c) PROVE TypeInv'
  <2>1. wake' \in [Crs -> BOOLEAN]
    BY <1>2, <1>9 DEF Wake
  <2> QED
    BY <1>1, <1>2, <1>9, <2>1, TypeKept DEF Wake, crs, worker
<1>10. ASSUME NEW c \in Crs, DeleteCr(c) PROVE TypeInv'
  <2>1. phase' \in [Crs -> {"live", "deleting", "gone"}] /\ changes' \in 0..MaxChanges
    BY <1>2, <1>3, <1>10 DEF DeleteCr
  <2> QED
    BY <1>1, <1>2, <1>10, <2>1, TypeKept DEF DeleteCr, worker
<1>11. ASSUME Restart PROVE TypeInv'
  <2>1. /\ setup' = setup /\ spec' = spec /\ dropped' = dropped /\ phase' = phase
        /\ outcome' = outcome /\ changes' = changes /\ faults' \in 0..MaxFaults
    BY <1>3, <1>11 DEF Restart, crs
  <2>2. /\ wake' \in [Crs -> BOOLEAN]
        /\ doing' \in [Crs -> {"idle", "reconcile", "outdated", "teardown"}]
        /\ DOMAIN todo' = Crs /\ \A d \in Crs : todo'[d] \in Seq(CallsOf(d))
    BY <1>11 DEF Restart
  <2> QED
    BY <1>1, <1>2, <2>1, <2>2, TypeKept
<1>12. ASSUME EndSync \/ \E o \in DOMAIN cluster : StartSync(o) \/ Collect(o) \/ Issue(o)
       PROVE  TypeInv'
  <2>1. /\ UNCHANGED <<setup, crs, worker, changes, faults>> /\ wake' = wake
    BY <1>12 DEF EndSync, StartSync, Collect, Issue
  <2> QED
    BY <1>1, <1>2, <2>1, TypeKept DEF crs, worker
<1>13. \A c : Specs(c)' = Specs(c) /\ AllWanted(c)' = AllWanted(c) /\ CallsOf(c)' = CallsOf(c)
  <2>1. setup' = setup
    BY DEF Next, Work, Start, Step, AwaitCertificate, Refused, Return, LetGo, Fails, StatusFails,
           Wake, Edit, DeleteCr, Recreate, Restart, StartSync, Collect, Issue, EndSync
  <2> QED
    BY <2>1, SamePlans
<1>14. ASSUME NEW c \in Crs, Edit(c) PROVE TypeInv'
  <2>1. PICK s \in Specs(c) :
          /\ spec' = [spec EXCEPT ![c] = s]
          /\ dropped' = [dropped EXCEPT ![c] = @ \cup (Wanted(c, spec[c]) \ Wanted(c, s))]
    BY <1>14 DEF Edit
  <2>2. Wanted(c, spec[c]) \subseteq AllWanted(c)
    BY <1>2 DEF AllWanted
  <2>3. /\ DOMAIN spec' = Crs /\ DOMAIN dropped' = Crs
        /\ \A d \in Crs : spec'[d] \in Specs(d) /\ dropped'[d] \subseteq AllWanted(d)
    BY <1>2, <2>1, <2>2
  <2>4. /\ setup' = setup /\ phase' = phase /\ todo' = todo /\ faults' = faults
        /\ changes' \in 0..MaxChanges
    BY <1>3, <1>14 DEF Edit
  <2>5. /\ wake' \in [Crs -> BOOLEAN]
        /\ doing' \in [Crs -> {"idle", "reconcile", "outdated", "teardown"}]
        /\ outcome' \in [Crs -> {"none", "ready", "provisioning", "failed"}]
    BY <1>2, <1>14 DEF Edit
  <2> QED
    BY <1>2, <1>13, <2>3, <2>4, <2>5 DEF TypeInv
<1>15. ASSUME NEW c \in Crs, Recreate(c) PROVE TypeInv'
  <2>1. PICK s \in Specs(c) : spec' = [spec EXCEPT ![c] = s]
    BY <1>15 DEF Recreate
  <2>2. DOMAIN spec' = Crs /\ \A d \in Crs : spec'[d] \in Specs(d)
    BY <1>2, <2>1
  <2>3. /\ setup' = setup /\ dropped' = dropped /\ todo' = todo /\ faults' = faults
        /\ doing' = doing /\ outcome' = outcome /\ changes' \in 0..MaxChanges
    BY <1>3, <1>15 DEF Recreate, worker
  <2>4. phase' \in [Crs -> {"live", "deleting", "gone"}] /\ wake' \in [Crs -> BOOLEAN]
    BY <1>2, <1>15 DEF Recreate
  <2> QED
    BY <1>2, <1>13, <2>2, <2>3, <2>4 DEF TypeInv
<1> QED
  BY <1>1, <1>5, <1>6, <1>7, <1>8, <1>9, <1>10, <1>11, <1>12, <1>14, <1>15 DEF Next, Work

\* At the start the cluster is empty and no worker is at work.
LEMMA InvInit == Init => IInv
<1> SUFFICES ASSUME Init PROVE IInv
  OBVIOUS
<1>1. /\ setup \in Setups /\ DOMAIN spec = Crs /\ \A c \in Crs : spec[c] \in Specs(c)
      /\ phase = [c \in Crs |-> "live"] /\ wake = [c \in Crs |-> TRUE]
      /\ doing = [c \in Crs |-> "idle"] /\ todo = [c \in Crs |-> <<>>]
      /\ outcome = [c \in Crs |-> "none"] /\ dropped = [c \in Crs |-> {}]
      /\ cluster = <<>> /\ sync = NoSync /\ changes = 0 /\ faults = 0
  BY DEF Init
<1>2. TypeInv
  <2>1. \A S : <<>> \in Seq(S)
    OBVIOUS
  <2>2. MaxChanges \in Nat /\ MaxFaults \in Nat
    BY ClusterObjectsAssumption
  <2>3. 0 \in 0..MaxChanges /\ 0 \in 0..MaxFaults
    BY <2>2
  <2> QED
    BY <1>1, <2>1, <2>3 DEF TypeInv
<1>3. DOMAIN cluster = {}
  BY <1>1
<1>4. ClusterInv /\ SyncInv
  BY <1>1, <1>3 DEF ClusterInv, SyncInv
<1>5. ASSUME NEW c \in Crs PROVE CrInv(c)
  <2>1. Range(<<>>) = {} /\ DOMAIN <<>> = {}
    BY Short
  <2>2. WorkInv(c)
    BY <1>1, <2>1 DEF WorkInv, NeedsBefore
  <2> QED
    BY <1>1, <2>2 DEF CrInv, TornInv, KeepInv
<1> QED
  BY <1>2, <1>4, <1>5 DEF IInv

\* Each step keeps the invariant.
LEMMA InvStep == IInv /\ [Next]_vars => IInv'
<1> SUFFICES ASSUME IInv, [Next]_vars PROVE IInv'
  OBVIOUS
<1>1. CASE Next
  <2>1. TypeInv'
    BY <1>1, TypeStep
  <2>2. Changing \subseteq Crs
    BY ClusterObjectsAssumption
  <2>3. ClusterInv' /\ SyncInv' /\ \A d \in Crs : CrInv(d)'
    <3>1. ASSUME NEW c \in Crs, Work(c) \/ Fails(c) \/ StatusFails(c) \/ Wake(c)
          PROVE  ClusterInv' /\ SyncInv' /\ \A d \in Crs : CrInv(d)'
      BY <3>1, StartKeeps, StepKeeps, EndingKeeps, ReturnKeeps, LetGoKeeps, WakeKeeps DEF Work
    <3>2. ASSUME NEW c \in Changing, Edit(c) \/ DeleteCr(c) \/ Recreate(c)
          PROVE  ClusterInv' /\ SyncInv' /\ \A d \in Crs : CrInv(d)'
      BY <2>2, <3>2, EditKeeps, DeleteCrKeeps, RecreateKeeps
    <3>3. CASE Restart
      BY <3>3, RestartKeeps
    <3>4. CASE EndSync \/ \E o \in DOMAIN cluster : StartSync(o) \/ Collect(o) \/ Issue(o)
      BY <3>4, ClusterKeeps
    <3> QED
      BY <1>1, <3>1, <3>2, <3>3, <3>4 DEF Next
  <2> QED
    BY <2>1, <2>3 DEF IInv
<1>2. CASE UNCHANGED vars
  <2>1. /\ setup' = setup /\ UNCHANGED crs /\ UNCHANGED worker /\ wake' = wake
        /\ cluster' = cluster /\ sync' = sync /\ changes' = changes /\ faults' = faults
    BY <1>2 DEF vars
  <2>2. /\ TypeInv /\ ClusterInv /\ SyncInv /\ \A d \in Crs : CrInv(d)
    BY DEF IInv
  <2>3. ClusterInv' /\ \A d : LeavesAlone(d)
    BY <2>1, <2>2, Unchanged
  <2>4. \A d \in Crs : CrInv(d)'
    BY <2>1, <2>2, <2>3, OthersKeep DEF crs, worker
  <2>5. SyncInv'
    BY <2>1, <2>2 DEF SyncInv
  <2>6. TypeInv'
    <3>1. \A c : Specs(c)' = Specs(c) /\ AllWanted(c)' = AllWanted(c) /\ CallsOf(c)' = CallsOf(c)
      BY <2>1, SamePlans
    <3> QED
      BY <2>1, <2>2, <3>1 DEF TypeInv, crs, worker
  <2> QED
    BY <2>3, <2>4, <2>5, <2>6 DEF IInv
<1> QED
  BY <1>1, <1>2

\* In every reachable state the objects, their owners, and the workers are as the
\* inductive invariant says.
THEOREM Inductive == Spec => []IInv
BY InvInit, InvStep, PTL DEF Spec

\* Owners of objects are of a kind Kubernetes knows, and of the object's namespace.
LEMMA InvTypeOK == IInv => TypeOK
<1> SUFFICES ASSUME IInv PROVE TypeOK
  OBVIOUS
<1>1. TypeInv /\ ClusterInv /\ \A c \in Crs : WorkInv(c)
  BY DEF IInv, CrInv
<1>2. ASSUME NEW o \in DOMAIN cluster, cluster[o].owner \notin {NoOwner, Gone}
      PROVE  /\ cluster[o].owner.kind \in {"cr", "ExternalSecret"}
             /\ cluster[o].owner.ns = o.ns
  <2>1. (\E d \in Crs : OwnedByCr(o, d)) \/ OwnedByExternal(o)
    BY <1>1, <1>2 DEF ClusterInv, ObjectInv
  <2>2. ASSUME NEW d \in Crs, OwnedByCr(o, d)
        PROVE  cluster[o].owner.kind = "cr" /\ cluster[o].owner.ns = o.ns
    BY <2>2, Owners DEF OwnedByCr
  <2>3. ASSUME OwnedByExternal(o)
        PROVE  cluster[o].owner.kind = "ExternalSecret" /\ cluster[o].owner.ns = o.ns
    BY <2>3, Owners DEF OwnedByExternal
  <2> QED
    BY <2>1, <2>2, <2>3
<1>3. \A c \in Crs :
        /\ spec[c] \in Specs(c)
        /\ doing[c] = "teardown" => phase[c] = "deleting"
        /\ doing[c] = "idle" => todo[c] = <<>>
        /\ phase[c] = "gone" => doing[c] = "idle" /\ ~wake[c]
  BY <1>1 DEF TypeInv, WorkInv
<1> QED
  BY <1>1, <1>2, <1>3 DEF TypeOK, TypeInv

\* TypeOK: the state is of the types the module says, workers only work on CRs that
\* are there, and no object has an owner of another namespace.
THEOREM TypeCorrect == Spec => []TypeOK
BY Inductive, InvTypeOK, PTL

\* StackFirst: the Sensor is never without what it refers to, nor a Certificate
\* without its Issuer, whatever calls fail and whichever CRs are torn down.
THEOREM StackCorrect == Spec => []StackFirst
<1>1. IInv => StackFirst
  BY DEF IInv, ClusterInv, ObjectInv, StackFirst
<1> QED
  BY <1>1, Inductive, PTL

\* DoneStays: what a reconcile of a live CR reported done stays, for all setups, be
\* names in them apart or not: of the objects no other CR's contract names, and which
\* no earlier edit dropped. What happens to the others' own objects, failing calls,
\* restarts, the operator and the garbage collector do not undo it.
THEOREM DoneCorrect == Spec => []DoneStays
<1>1. IInv => DoneStays
  BY DEF IInv, CrInv, KeepInv, DoneStays
<1> QED
  BY <1>1, Inductive, PTL

\* TornDown: a CR is only let go when what its contract asks for, and no other CR's
\* contract names, is removed or left to the garbage collector.
THEOREM TornDownCorrect == Spec => TornDown
<1> DEFINE Lets ==
      \A c \in Crs : phase[c] = "deleting" /\ phase'[c] = "gone" =>
        \A o \in Wanted(c, spec[c]) :
          \/ o \notin DOMAIN cluster' \/ cluster'[o].owner = Gone
          \/ IsShared(o) \/ ~Undisputed(c, o)
<1>1. ASSUME IInv, Next PROVE Lets
  <2> SUFFICES ASSUME NEW c \in Crs, phase[c] = "deleting", phase'[c] = "gone"
               PROVE  \A o \in Wanted(c, spec[c]) :
                        \/ o \notin DOMAIN cluster' \/ cluster'[o].owner = Gone
                        \/ IsShared(o) \/ ~Undisputed(c, o)
    OBVIOUS
  <2>1. phase \in [Crs -> {"live", "deleting", "gone"}] /\ phase' # phase
    BY <1>1 DEF IInv, TypeInv
  <2>2. \E d \in Crs : LetGo(d) \/ DeleteCr(d) \/ Recreate(d)
    <3>1. Changing \subseteq Crs
      BY ClusterObjectsAssumption
    <3> QED
      BY <1>1, <2>1, <3>1 DEF Next, Work, Start, Step, AwaitCertificate, Refused, Return, Fails,
         StatusFails, Wake, Edit, Restart, StartSync, Collect, Issue, EndSync, crs
  <2>3. LetGo(c)
    <3>1. PICK d \in Crs : LetGo(d) \/ DeleteCr(d) \/ Recreate(d)
      BY <2>2
    <3>2. phase'[d] # "gone" \/ LetGo(d)
      BY <2>1, <3>1 DEF DeleteCr, Recreate
    <3>3. d = c
      BY <2>1, <3>1 DEF LetGo, DeleteCr, Recreate
    <3> QED
      BY <3>2, <3>3
  <2> QED
    BY <1>1, <2>3, LetGoEffect
<1>2. IInv /\ [Next]_vars => [Lets]_vars
  BY <1>1
<1>3. Spec => [][Lets]_vars
  BY <1>2, Inductive, PTL DEF Spec
<1> QED
  BY <1>3 DEF TornDown

=============================================================================
