----------------------------- MODULE Provisioning -----------------------------
(***************************************************************************)
(* What the reconcilers outside build, deployment and packages ask of the  *)
(* API server: for each of them, the calls its Reconcile (or Ensure) makes *)
(* for a CR with a given contract, and the calls of its Delete (or         *)
(* Teardown). The first call that fails ends either.                       *)
(*                                                                         *)
(* A reconciler reads an object and creates or updates it under the        *)
(* version it read; that is one call here, which may fail. A name is the   *)
(* sequence of its parts. What tells two versions of an object apart is    *)
(* its value; labels and fixed parts of a manifest are left out.           *)
(***************************************************************************)
EXTENDS Naturals, Sequences

Object(kind, ns, name) == [kind |-> kind, ns |-> ns, name |-> name]

\* op: "apply" writes the object as it should be, "converge" an existing one
\* only if its spec differs, "create" no existing one; "account", "ingress" and
\* "certify" are the ServiceAccount's, the Ingress's and the Certificate's own
\* ways; "delete" takes a missing object for deleted; "refuse" is an error
\* without a call. owned: the CR becomes the owner of what is created.
\* quiet: the error ends in a condition, and the reconcile returns nil.
Call(op, object, value, owned, quiet) ==
  [op |-> op, object |-> object, value |-> value, owned |-> owned, quiet |-> quiet]

Nowhere == Object("none", "", <<>>)
Delete(object) == Call("delete", object, <<>>, FALSE, FALSE)
Refuse(quiet) == Call("refuse", Nowhere, <<>>, FALSE, quiet)

----------------------------------------------------------------------------
(* Environments: the store the secrets of its CRs come from. env is the     *)
(* contract's secretStore; "" is an absent name.                            *)

ResolveStoreName(provider) ==
  IF provider \in {"vault", "aws", "gcp", "azure"} THEN provider ELSE "fake"

\* query.Lookup: what the reconcilers of secrets are made or called with; the
\* kind is ClusterSecretStore whatever the contract says.
StoreName(env) == IF env.store # "" THEN env.store ELSE ResolveStoreName(env.provider)

StoreObject(cr, spec) ==
  Object(spec.storeKind, IF spec.storeKind = "SecretStore" THEN cr.ns ELSE "",
         <<StoreName(spec.env)>>)

\* Mutant: every store is owned.
SecretStoreOwned(cr, spec) ==
  <<Call("apply", StoreObject(cr, spec), <<spec.role>>, TRUE, FALSE)>>

\* SecretStoreReconciler.Reconcile: only vault's block can be built.
SecretStore(cr, spec) ==
  CASE spec.env.provider = "vault" ->
         <<Call("apply", StoreObject(cr, spec), <<spec.role>>,
                spec.storeKind = "SecretStore", FALSE)>>
    [] spec.env.provider \in {"aws", "gcp", "azure"} -> <<Refuse(FALSE)>>
    [] OTHER -> <<>>

----------------------------------------------------------------------------
(* ExternalSecrets, from which the External Secrets Operator makes Secrets  *)
(* of the same name, and their reconcilers.                                 *)

ExternalSecret(cr, name) == Object("ExternalSecret", cr.ns, name)
SecretObject(cr, name) == Object("Secret", cr.ns, name)

\* Reconcile of the git, registry and package secrets; "" is none declared.
External(op, cr, name, value) ==
  IF name = "" THEN <<>>
  ELSE <<Call(op, ExternalSecret(cr, <<name>>), value, TRUE, FALSE)>>

DeleteExternal(cr, name) ==
  IF name = "" THEN <<>>
  ELSE <<Delete(ExternalSecret(cr, <<name>>)), Delete(SecretObject(cr, <<name>>))>>

\* These two do not ask whether there is a clone secret: the API server refuses an
\* empty name, and without a manifests repository the second has no place to look
\* (a panic, which the controller's runtime makes an error).
BuildGitSSHSecret(cr, spec) ==
  IF spec.cloneSecret = "" THEN <<Refuse(FALSE)>>
  ELSE External("converge", cr, spec.cloneSecret, <<StoreName(spec.env), "git">>)
DeleteBuildGitSSHSecret(cr, spec) ==
  IF spec.cloneSecret = "" THEN <<Refuse(FALSE)>> ELSE DeleteExternal(cr, spec.cloneSecret)

DeploymentGitSSHSecret(cr, spec) ==
  IF spec.cloneSecret = "" THEN <<Refuse(FALSE)>>
  ELSE External("converge", cr, spec.cloneSecret, <<StoreName(spec.env), "git">>)
DeleteDeploymentGitSSHSecret(cr, spec) ==
  IF spec.cloneSecret = "" THEN <<Refuse(FALSE)>> ELSE DeleteExternal(cr, spec.cloneSecret)

BuildRegistrySecret(cr, spec) ==
  External("create", cr, spec.account.secret, <<StoreName(spec.env), "registry">>)
DeleteBuildRegistrySecret(cr, spec) == DeleteExternal(cr, spec.account.secret)

PackageRepositorySecret(cr, spec) ==
  External("converge", cr, spec.credentialsSecret, <<StoreName(spec.env), "git">>)
DeletePackageRepositorySecret(cr, spec) == DeleteExternal(cr, spec.credentialsSecret)

\* The same name as the one before, another secret.
PackageRegistrySecret(cr, spec) ==
  External("converge", cr, spec.credentialsSecret, <<StoreName(spec.env), "registry">>)
DeletePackageRegistrySecret(cr, spec) == DeleteExternal(cr, spec.credentialsSecret)

\* A state repository may do without a secret; without the repository itself there
\* is no place to look, as above.
PackageStateRepositorySecret(cr, spec) ==
  IF ~spec.stateDeclared THEN <<Refuse(FALSE)>>
  ELSE External("converge", cr, spec.stateSecret, <<StoreName(spec.env), "git">>)
DeletePackageStateRepositorySecret(cr, spec) ==
  IF ~spec.stateDeclared THEN <<Refuse(FALSE)>> ELSE DeleteExternal(cr, spec.stateSecret)

GitHubWebhookSecret(cr, spec) ==
  IF spec.secretKey = "" THEN <<>>
  ELSE External("create", cr, spec.secretName, <<StoreName(spec.env), spec.secretKey>>)
DeleteGitHubWebhookSecret(cr, spec) == DeleteExternal(cr, spec.secretName)

\* The Crossplane provider's credentials: one for the cluster, of no CR.
CrossplaneSecret == Object("ExternalSecret", "crossplane-system", <<"github-upjet-creds">>)
GitHubProviderSecret(cr, spec) ==
  <<Call("converge", CrossplaneSecret, <<StoreName(spec.env), "token">>, FALSE, FALSE)>>

\* The Secret an ExternalSecret names as its target.
TargetOf(e) ==
  Object("Secret", e.ns, IF e = CrossplaneSecret THEN <<"example-creds">> ELSE e.name)

----------------------------------------------------------------------------
(* Secrets and accounts without an operator.                                *)

FluxSecret(cr) == SecretObject(cr, <<cr.name, "flux-ssh">>)
FluxGitSSHSecret(cr, spec) ==
  <<Call("create", FluxSecret(cr), <<"keypair">>, TRUE, FALSE)>>
\* Mutant: the Secret is left to the garbage collector.
LeavesFluxSecret(cr, spec) == <<>>

DeleteFluxGitSSHSecret(cr, spec) == <<Delete(FluxSecret(cr))>>

HookURLSecretName(cr) == <<cr.name, "hookurl">>
HookURLSecret(cr, spec) ==
  <<Call("converge", SecretObject(cr, HookURLSecretName(cr)), <<spec.hookUrl>>, TRUE, FALSE)>>
DeleteHookURLSecret(cr, spec) == <<Delete(SecretObject(cr, HookURLSecretName(cr)))>>

BuildAccount(cr, spec) ==
  Object("ServiceAccount", cr.ns,
         IF spec.account.name # "" THEN <<spec.account.name>> ELSE <<cr.name, "build">>)
ServiceAccount(cr, spec) ==
  <<Call("account", BuildAccount(cr, spec), <<spec.account.secret>>, TRUE, FALSE)>>
DeleteServiceAccount(cr, spec) == <<Delete(BuildAccount(cr, spec))>>

----------------------------------------------------------------------------
(* GitHubEvents: one Argo Events stack for all, and a Sensor for each.      *)

ArgoEvents(kind, name) == Object(kind, "argo-events", name)
SensorOf(cr) == ArgoEvents("Sensor", <<"github-sensor", cr.name>>)
EventSource == ArgoEvents("EventSource", <<"github">>)
EventStack ==
  <<ArgoEvents("EventBus", <<"default">>),
    ArgoEvents("ServiceAccount", <<"github-sensor-sa">>),
    ArgoEvents("Role", <<"githubevent-writer">>),
    ArgoEvents("RoleBinding", <<"argo-events-githubevent-writer">>)>>

Apply(object, value) == Call("apply", object, value, FALSE, TRUE)

\* Mutant: the Sensor comes before what it refers to.
SensorFirst(cr, spec) ==
  <<Apply(SensorOf(cr), <<spec.eventType, cr.name>>)>>
    \o [i \in 1..4 |-> Apply(EventStack[i], <<>>)]
    \o <<Apply(EventSource, <<spec.repository, spec.eventType>>)>>

EnsureGitHubEvent(cr, spec) ==
  [i \in 1..4 |-> Apply(EventStack[i], <<>>)]
    \o <<Apply(EventSource, <<spec.repository, spec.eventType>>),
         Apply(SensorOf(cr), <<spec.eventType, cr.name>>)>>

TeardownGitHubEvent(cr, spec) == <<Delete(SensorOf(cr))>>

----------------------------------------------------------------------------
(* GitRepositories: cluster-scoped objects of the Crossplane provider. What *)
(* Validate refuses, no resolved contract has.                              *)

Repository(cr) == Object("Repository", "", <<cr.name>>)
RepositoryWebhook(cr) == Object("RepositoryWebhook", "", <<cr.name, "webhook">>)

\* A webhook's value: its events, and the Secret its URL is read from.
URLSecretRef(cr) == <<cr.ns, "hookurl">>

EnsureGitRepository(cr, spec) ==
  <<Apply(Repository(cr), <<spec.repository>>)>>
    \o (IF spec.events = "" THEN <<>>
        ELSE <<Apply(RepositoryWebhook(cr), <<spec.events>> \o URLSecretRef(cr))>>)

TeardownGitRepository(cr, spec) ==
  (IF spec.events = "" THEN <<>> ELSE <<Delete(RepositoryWebhook(cr))>>)
    \o <<Delete(Repository(cr))>>

----------------------------------------------------------------------------
(* Domains and Routes. A host is the sequence of its parts and the dots and *)
(* dashes between them.                                                     *)

SanitizeHost(host) == [i \in DOMAIN host |-> IF host[i] = "." THEN "-" ELSE host[i]]

ClusterDomainClaim(spec) == Object("ClusterDomainClaim", "", spec.host)
Issuer(cr) == Object("Issuer", cr.ns, <<"blanketops-http01", cr.ns>>)
Certificate(cr, spec) ==
  Object("Certificate", cr.ns, <<"blanketops-cert">> \o SanitizeHost(spec.host))
CertSecretName(host) == <<"blanketops-tls">> \o SanitizeHost(host)

EnsurePlatform(cr, spec) == <<Apply(ClusterDomainClaim(spec), <<cr.ns>>)>>
EnsureCustom(cr, spec) ==
  <<Apply(Issuer(cr), <<>>), Apply(ClusterDomainClaim(spec), <<cr.ns>>),
    Call("certify", Certificate(cr, spec), <<spec.renewBefore>>, FALSE, TRUE)>>
EnsureDomain(cr, spec) ==
  IF spec.tlsStrategy = "platform" THEN EnsurePlatform(cr, spec) ELSE EnsureCustom(cr, spec)

TeardownDomain(cr, spec) ==
  <<Delete(ClusterDomainClaim(spec))>>
    \o (IF spec.tlsStrategy = "platform" THEN <<>> ELSE <<Delete(Certificate(cr, spec))>>)

IngressResource(cr, spec) ==
  Object("Ingress", cr.ns, <<"blanketops--environment-route">> \o SanitizeHost(spec.host))
DomainMapping(cr, spec) == Object("DomainMapping", cr.ns, spec.host)

\* What a Route's object points to, and the Secret of its host when TLS is on.
RouteSpec(spec) ==
  <<spec.service>> \o (IF spec.tlsEnabled THEN CertSecretName(spec.host) ELSE <<>>)

\* ensureDisabled, of either provider, deletes.
EnsureUnder(op, object, spec) ==
  <<IF spec.enabled THEN Call(op, object, RouteSpec(spec), FALSE, TRUE)
    ELSE Call("delete", object, <<>>, FALSE, TRUE)>>
EnsureIngress(cr, spec) == EnsureUnder("ingress", IngressResource(cr, spec), spec)
EnsureDomainMapping(cr, spec) == EnsureUnder("apply", DomainMapping(cr, spec), spec)

\* BackendSelector.ForRoute: the providers of a known runtime; gateway-api has none.
ForRoute(spec) == spec.runtime \in {"knative", "kubernetes"}

EnsureRoute(cr, spec) ==
  IF ~ForRoute(spec) THEN <<Refuse(TRUE)>>
  ELSE IF spec.runtime = "knative" THEN EnsureDomainMapping(cr, spec)
  ELSE EnsureIngress(cr, spec)

TeardownRoute(cr, spec) ==
  IF ~ForRoute(spec) THEN <<Refuse(FALSE)>>
  ELSE <<Delete(IF spec.runtime = "knative" THEN DomainMapping(cr, spec)
                ELSE IngressResource(cr, spec))>>

----------------------------------------------------------------------------
Reconcile(part, cr, spec) ==
  CASE part = "secretstore"     -> SecretStore(cr, spec)
    [] part = "git/build"       -> BuildGitSSHSecret(cr, spec)
    [] part = "registry/build"  -> BuildRegistrySecret(cr, spec)
    [] part = "buildbot"        -> ServiceAccount(cr, spec)
    [] part = "git/deployment"  -> DeploymentGitSSHSecret(cr, spec)
    [] part = "git/fluxcd"      -> FluxGitSSHSecret(cr, spec)
    [] part = "packagerepo"     -> PackageRepositorySecret(cr, spec)
    [] part = "packageregistry" -> PackageRegistrySecret(cr, spec)
    [] part = "staterepo"       -> PackageStateRepositorySecret(cr, spec)
    [] part = "webhook"         -> GitHubWebhookSecret(cr, spec)
    [] part = "crossplane"      -> GitHubProviderSecret(cr, spec)
    [] part = "hookurl"         -> HookURLSecret(cr, spec)
    [] part = "githubevent"     -> EnsureGitHubEvent(cr, spec)
    [] part = "gitrepository"   -> EnsureGitRepository(cr, spec)
    [] part = "domain"          -> EnsureDomain(cr, spec)
    [] part = "route"           -> EnsureRoute(cr, spec)

\* The Environment's store and the Crossplane provider have no teardown.
Teardown(part, cr, spec) ==
  CASE part = "git/build"       -> DeleteBuildGitSSHSecret(cr, spec)
    [] part = "registry/build"  -> DeleteBuildRegistrySecret(cr, spec)
    [] part = "buildbot"        -> DeleteServiceAccount(cr, spec)
    [] part = "git/deployment"  -> DeleteDeploymentGitSSHSecret(cr, spec)
    [] part = "git/fluxcd"      -> DeleteFluxGitSSHSecret(cr, spec)
    [] part = "packagerepo"     -> DeletePackageRepositorySecret(cr, spec)
    [] part = "packageregistry" -> DeletePackageRegistrySecret(cr, spec)
    [] part = "staterepo"       -> DeletePackageStateRepositorySecret(cr, spec)
    [] part = "webhook"         -> DeleteGitHubWebhookSecret(cr, spec)
    [] part = "hookurl"         -> DeleteHookURLSecret(cr, spec)
    [] part = "githubevent"     -> TeardownGitHubEvent(cr, spec)
    [] part = "gitrepository"   -> TeardownGitRepository(cr, spec)
    [] part = "domain"          -> TeardownDomain(cr, spec)
    [] part = "route"           -> TeardownRoute(cr, spec)
    [] OTHER -> <<>>

\* The reconcilers.
Parts ==
  {"secretstore", "git/build", "registry/build", "buildbot", "git/deployment", "git/fluxcd",
   "packagerepo", "packageregistry", "staterepo", "webhook", "crossplane", "hookurl",
   "githubevent", "gitrepository", "domain", "route"}

\* What the contracts of the kinds have passed: a store is of one of two kinds,
\* and a Route's host is a sequence of parts.
IsResolved(parts, spec) ==
  \A i \in DOMAIN parts :
    /\ parts[i] = "secretstore" => spec.storeKind \in {"ClusterSecretStore", "SecretStore"}
    /\ parts[i] = "route" => spec.host \in Seq(STRING)

\* What several CRs share by design: no teardown removes it.
Shared ==
  {EventStack[i] : i \in 1..4} \cup {EventSource, CrossplaneSecret}
IsShared(object) == object \in Shared \/ object.kind \in {"Issuer", "ClusterSecretStore"}
=============================================================================
