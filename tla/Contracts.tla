------------------------------ MODULE Contracts ------------------------------
(***************************************************************************)
(* How the resolution packages judge the contract of each kind, and which  *)
(* of what they resolved the kind's cache publishes, in its order.         *)
(*                                                                         *)
(* A contract is a function from the fields a resolver looks at to the     *)
(* shape each has: "none", it is absent; "ok", it has the type and all     *)
(* that the resolver asks of it; "bad", it has the type but not what is    *)
(* asked (an empty string, an unknown value, an object without a required  *)
(* member, an empty optional that is refused); "odd", another JSON type.   *)
(***************************************************************************)
EXTENDS Sequences

Kinds == {"environment", "build", "deployment", "serviceunit", "packages",
          "githubevent", "gitrepository", "domain", "route"}

Shapes == {"none", "ok", "bad", "odd"}

\* mustString, requireString, requiredMap and their like refuse all the rest.
Given(c, fields) == \A f \in fields : c[f] = "ok"

\* An optional object: anything of another type counts as absent.
Sound(c, fields) == \A f \in fields : c[f] # "bad"

\* An optional field whose type is checked when it is declared.
Typed(c, fields) == \A f \in fields : c[f] \in {"none", "ok"}

\* <<f>> when the field resolved to something, as the caches' conditions have it.
IfOk(c, f) == IF c[f] = "ok" THEN <<f>> ELSE <<>>

----------------------------------------------------------------------------
EnvironmentRefs ==
  {"build", "gitRepository", "gitHubEvent", "deployment", "route", "domain", "package"}

EnvironmentFields ==
  {"applicationName", "branch", "gitOwner", "environmentType", "version",
   "serviceUnits", "secretStore", "vault"} \cup EnvironmentRefs

\* secretStore is "vault" when it names that provider.
ResolveSecretStore(c) ==
  \/ c["secretStore"] = "ok"
  \/ c["secretStore"] = "vault" /\ c["vault"] = "ok"

ResolveEnvironment(c) ==
  /\ Given(c, {"applicationName", "branch", "gitOwner", "environmentType", "version"})
  /\ Sound(c, EnvironmentRefs \cup {"serviceUnits"})
  /\ ResolveSecretStore(c)

\* The domain is resolved, too, but has no helper and is not published.
PublishEnvironment(c) ==
  <<"applicationName", "environmentType", "version",
    "secretStoreProvider", "secretStoreName">>
    \o IfOk(c, "build") \o IfOk(c, "gitRepository") \o IfOk(c, "gitHubEvent")
    \o IfOk(c, "deployment") \o IfOk(c, "route") \o IfOk(c, "package")
    \o IfOk(c, "serviceUnits")

EnvironmentHelpers ==
  {{"secretStoreProvider", "secretStoreName"}} \cup
  {{f} : f \in {"applicationName", "environmentType", "version", "build",
                "gitRepository", "gitHubEvent", "deployment", "route", "package",
                "serviceUnits"}}

----------------------------------------------------------------------------
BuildFields == {"source", "image", "strategy", "serviceAccount", "policy"}

\* A clone secret declared empty makes "source" bad, a retry on failure
\* without attempts makes "policy" bad; serviceAccount may be any object.
ResolveBuild(c) ==
  /\ Given(c, {"source", "image", "strategy"})
  /\ Sound(c, {"policy"})

\* The policy is always resolved, if only to an empty one.
PublishBuild(c) ==
  <<"image", "source", "strategy">> \o IfOk(c, "serviceAccount") \o <<"policy">>

BuildHelpers == {{f} : f \in {"image", "strategy", "source", "serviceAccount", "policy"}}

----------------------------------------------------------------------------
DeploymentFields ==
  {"serviceUnits", "runtime", "strategy", "imageAutomation", "gitOwner",
   "manifestsRepo", "reconciliationStrategy"}

\* The reconciliation strategy belongs to the repository: required with it,
\* refused without.
ResolveReconciliation(c) ==
  IF c["manifestsRepo"] = "ok"
    THEN c["reconciliationStrategy"] = "ok"
    ELSE c["reconciliationStrategy"] = "none"

ResolveDeployment(c) ==
  /\ Given(c, {"serviceUnits", "runtime", "strategy"})
  /\ Typed(c, {"gitOwner"})
  /\ Sound(c, {"manifestsRepo"})
  /\ ResolveReconciliation(c)

PublishDeployment(c) ==
  <<"runtime", "strategy", "reconciliationStrategy">> \o IfOk(c, "serviceUnits")
    \o <<"imageAutomation">> \o IfOk(c, "gitOwner") \o IfOk(c, "manifestsRepo")

DeploymentHelpers ==
  {{f} : f \in {"serviceUnits", "runtime", "strategy", "imageAutomation",
                "reconciliationStrategy", "gitOwner", "manifestsRepo"}}

----------------------------------------------------------------------------
ServiceUnitFields ==
  {"type", "image", "buildRef", "containerPort", "size", "appType", "stackType", "route"}

\* type is the unit's type when that is known; a supplychain unit needs no
\* more than that.
ResolveServiceUnit(c) ==
  /\ \/ c["type"] = "static" /\ Given(c, {"image"})
     \/ c["type"] = "build" /\ Given(c, {"buildRef"})
     \/ c["type"] = "supplychain"
  /\ Sound(c, {"route"})

PublishServiceUnit(c) ==
  <<"type", "appType", "stackType">> \o IfOk(c, "containerPort") \o IfOk(c, "size")
    \o (IF c["type"] = "static" THEN <<"image">>
        ELSE IF c["type"] = "build" THEN <<"buildRef">> ELSE <<>>)

ServiceUnitHelpers ==
  {{f} : f \in {"type", "image", "buildRef", "containerPort", "size", "appType", "stackType"}}

----------------------------------------------------------------------------
PackageFields ==
  {"name", "version", "repository", "stateRepository", "maintainers",
   "diffEnabled", "description"}

ResolvePackage(c) ==
  /\ Given(c, {"name", "version", "repository"})
  /\ Typed(c, {"stateRepository", "maintainers"})

PublishPackage(c) ==
  <<"version", "kappDiff", "packageRepository">> \o
  (IF c["stateRepository"] = "ok" THEN <<"stateRepo">> ELSE <<>>)

\* The checksum is set by whoever fetches the package, not published here.
PackageHelpers ==
  {{f} : f \in {"version", "packageRepository", "stateRepo", "kappDiff", "checksum"}}

----------------------------------------------------------------------------
GitHubEventFields ==
  {"repository", "eventType", "eventId", "ref", "commitSHA", "actor", "webhook"}

\* A webhook without a secretRef is as good as none.
ResolveGitHubEvent(c) ==
  /\ Given(c, {"repository", "eventType"})
  /\ Typed(c, {"webhook"})

PublishGitHubEvent(c) ==
  <<"repository", "eventType", "ref">> \o IfOk(c, "webhook")

GitHubEventHelpers == {{f} : f \in {"repository", "eventType", "ref", "webhook"}}

----------------------------------------------------------------------------
GitRepositoryFields == {"provider", "hookUrl", "repository", "webhooks"}

\* A list of which no entry has events is as good as none; an entry that is no
\* object makes the list bad.
ResolveGitRepository(c) ==
  /\ Given(c, {"provider", "hookUrl", "repository"})
  /\ Sound(c, {"webhooks"})

PublishGitRepository(c) ==
  <<"provider", "repository", "hookUrl">> \o IfOk(c, "webhooks")

GitRepositoryHelpers == {{f} : f \in {"provider", "hookUrl", "repository", "webhooks"}}

----------------------------------------------------------------------------
DomainFields == {"host", "routeRef", "tlsStrategy", "mtls", "renewBefore"}

ResolveDomain(c) ==
  /\ Given(c, {"host", "routeRef", "tlsStrategy"})
  /\ Typed(c, {"mtls"})

PublishDomain(c) ==
  <<"host", "routeRef", "tlsStrategy", "mtlsEnforced">> \o IfOk(c, "renewBefore")

\* What the controller observed: whether there is a certificate and a mapping.
PublishStatus(certificate, mapping) ==
  <<"domainReady">>
    \o (IF certificate THEN <<"certificateRefName", "certificateRefNamespace">> ELSE <<>>)
    \o (IF mapping THEN <<"domainMappingRefName", "domainMappingRefNamespace">> ELSE <<>>)

DomainHelpers ==
  {{f} : f \in {"host", "routeRef", "tlsStrategy", "mtlsEnforced", "renewBefore",
                "domainReady", "certificateRefName", "certificateRefNamespace",
                "domainMappingRefName", "domainMappingRefNamespace"}}

----------------------------------------------------------------------------
RouteFields == {"host", "runtime", "serviceUnitRef", "enabled", "path", "tlsEnabled"}

\* The others have defaults: enabled, "/", and TLS on.
ResolveRoute(c) == Given(c, {"host", "runtime", "serviceUnitRef"})

PublishRoute(c) ==
  <<"host", "enabled", "path", "tlsEnabled", "runtime", "serviceUnitRefName">>

RouteHelpers ==
  {{f} : f \in {"host", "enabled", "path", "tlsEnabled", "runtime", "serviceUnitRefName"}}

----------------------------------------------------------------------------
Fields ==
  [environment |-> EnvironmentFields, build |-> BuildFields,
   deployment |-> DeploymentFields, serviceunit |-> ServiceUnitFields,
   packages |-> PackageFields, githubevent |-> GitHubEventFields,
   gitrepository |-> GitRepositoryFields, domain |-> DomainFields,
   route |-> RouteFields]

\* The sets of fields the typed getters of a kind read.
Helpers ==
  [environment |-> EnvironmentHelpers, build |-> BuildHelpers,
   deployment |-> DeploymentHelpers, serviceunit |-> ServiceUnitHelpers,
   packages |-> PackageHelpers, githubevent |-> GitHubEventHelpers,
   gitrepository |-> GitRepositoryHelpers, domain |-> DomainHelpers,
   route |-> RouteHelpers]

Resolves(kind, c) ==
  CASE kind = "environment"   -> ResolveEnvironment(c)
    [] kind = "build"         -> ResolveBuild(c)
    [] kind = "deployment"    -> ResolveDeployment(c)
    [] kind = "serviceunit"   -> ResolveServiceUnit(c)
    [] kind = "packages"      -> ResolvePackage(c)
    [] kind = "githubevent"   -> ResolveGitHubEvent(c)
    [] kind = "gitrepository" -> ResolveGitRepository(c)
    [] kind = "domain"        -> ResolveDomain(c)
    [] kind = "route"         -> ResolveRoute(c)

PublishResolved(kind, c) ==
  CASE kind = "environment"   -> PublishEnvironment(c)
    [] kind = "build"         -> PublishBuild(c)
    [] kind = "deployment"    -> PublishDeployment(c)
    [] kind = "serviceunit"   -> PublishServiceUnit(c)
    [] kind = "packages"      -> PublishPackage(c)
    [] kind = "githubevent"   -> PublishGitHubEvent(c)
    [] kind = "gitrepository" -> PublishGitRepository(c)
    [] kind = "domain"        -> PublishDomain(c)
    [] kind = "route"         -> PublishRoute(c)
=============================================================================
