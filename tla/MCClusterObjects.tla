--------------------------- MODULE MCClusterObjects ---------------------------
(***************************************************************************)
(* Two CRs of a kind in one namespace, of which one changes. Each setup is *)
(* a kind of CR with its reconcilers and two or three contracts, which     *)
(* differ in what the reconcilers distinguish.                             *)
(***************************************************************************)
EXTENDS ClusterObjects

A == [ns |-> "n1", name |-> "a"]
B == [ns |-> "n1", name |-> "b"]
MCCrs == {A, B}
MCChanging == {A}

Setup(parts, ofA, ofB) ==
  [parts |-> parts, specs |-> [c \in MCCrs |-> IF c = A THEN ofA ELSE ofB]]

Vault == [provider |-> "vault", store |-> ""]
Named == [provider |-> "vault", store |-> "mine"]
Fake == [provider |-> "", store |-> ""]

Environment(env, kind, role) == [env |-> env, storeKind |-> kind, role |-> role]
Environments ==
  Setup(<<"secretstore">>,
        {Environment(Vault, "ClusterSecretStore", "r1"), Environment(Vault, "SecretStore", "r1"),
         Environment(Vault, "SecretStore", "r2"),
         Environment([provider |-> "aws", store |-> ""], "SecretStore", "r1")},
        {Environment(Named, "SecretStore", "r1"), Environment(Vault, "ClusterSecretStore", "r2"),
         Environment(Fake, "ClusterSecretStore", "r1")})

BuildOf(clone, name, secret, env) ==
  [cloneSecret |-> clone, account |-> [name |-> name, secret |-> secret], env |-> env]
Builds ==
  Setup(<<"git/build", "registry/build", "buildbot">>,
        {BuildOf("git-a", "", "reg-a", Vault), BuildOf("git-a", "", "", Fake)},
        {BuildOf("", "bot", "", Vault)})

\* Two Builds that read their repositories with one clone secret.
OneSecret ==
  Setup(<<"git/build">>,
        {BuildOf("git-c", "", "", Vault)}, {BuildOf("git-c", "", "", Named)})

Deployments ==
  Setup(<<"git/deployment", "git/fluxcd">>,
        {[cloneSecret |-> "git-a", env |-> Vault], [cloneSecret |-> "git-a", env |-> Named],
         [cloneSecret |-> "", env |-> Vault]},
        {[cloneSecret |-> "git-b", env |-> Vault]})

PackageOf(declared, state, credentials) ==
  [stateDeclared |-> declared, stateSecret |-> state, credentialsSecret |-> credentials,
   env |-> Vault]
PackagesWith(part) ==
  Setup(<<"staterepo", part>>,
        {PackageOf(TRUE, "state-a", "repo-a"), PackageOf(TRUE, "", "repo-a"),
         PackageOf(FALSE, "", "repo-a"), PackageOf(TRUE, "", "")},
        {PackageOf(TRUE, "", "repo-b")})

EventOf(repository, type, name, key) ==
  [repository |-> repository, eventType |-> type, secretName |-> name, secretKey |-> key,
   env |-> Vault]
Events ==
  Setup(<<"webhook", "githubevent">>,
        {EventOf("r1", "push", "hook-a", "secret"), EventOf("r2", "push", "", "")},
        {EventOf("r3", "pull_request", "", "")})

RepositoryOf(hookUrl, events) ==
  [repository |-> "r", hookUrl |-> hookUrl, events |-> events, env |-> Vault]
Repositories ==
  Setup(<<"crossplane", "hookurl", "gitrepository">>,
        {RepositoryOf("u1", "push"), RepositoryOf("u2", "")}, {RepositoryOf("u3", "push")})

DomainOf(host, strategy) == [host |-> host, tlsStrategy |-> strategy, renewBefore |-> "720h"]
Domains ==
  Setup(<<"domain">>,
        {DomainOf(<<"a", ".", "x">>, "custom"), DomainOf(<<"a", ".", "x">>, "platform")},
        {DomainOf(<<"b", ".", "x">>, "custom")})

RouteOf(host, runtime, service, enabled, tls) ==
  [host |-> host, runtime |-> runtime, service |-> service, enabled |-> enabled,
   tlsEnabled |-> tls]
Routes ==
  Setup(<<"route">>,
        {RouteOf(<<"a", ".", "x">>, "knative", "s", TRUE, TRUE),
         RouteOf(<<"a", ".", "x">>, "kubernetes", "s", TRUE, TRUE),
         RouteOf(<<"a", ".", "x">>, "kubernetes", "t", TRUE, FALSE),
         RouteOf(<<"a", ".", "x">>, "knative", "s", FALSE, FALSE),
         RouteOf(<<"a", ".", "x">>, "gateway", "s", TRUE, FALSE)},
        {RouteOf(<<"b", ".", "x">>, "kubernetes", "s", TRUE, TRUE)})

MCSetups ==
  {Environments, Builds, OneSecret, Deployments, PackagesWith("packagerepo"),
   PackagesWith("packageregistry"), Events, Repositories, Domains, Routes}
=============================================================================
