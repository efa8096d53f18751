---------------------------- MODULE Environment ----------------------------
(***************************************************************************)
(* What the process learns from its environment: the platform and its       *)
(* token, where each credential may go, the withdrawal list's signature,    *)
(* what a task is handed (cmd/pinup/env.go, Environment and carriesSecret   *)
(* of plugin).                                                             *)
(*                                                                         *)
(* env maps the variables that are set to values [text, scheme, host,       *)
(* holds]: holds are the texts found within it, its own among them; a list  *)
(* of names or URLs is a value with items.                                  *)
(***************************************************************************)
EXTENDS Naturals, Sequences, FiniteSets

LOCAL INSTANCE SequencesExt

Unset == [text |-> "", scheme |-> "", host |-> "", holds |-> {}, items |-> {}]
Getenv(env, name) == IF name \in DOMAIN env THEN env[name] ELSE Unset
FirstSet(env, names) ==
  LET set == SelectSeq(names, LAMBDA n : n \in DOMAIN env) IN IF set = <<>> THEN Unset ELSE env[Head(set)]

\* ---------------------------------------------------------- the platform
InstanceURL(env) == FirstSet(env, <<"PINUP_GITLAB_URL", "CI_SERVER_URL">>)
AccessToken(env) == FirstSet(env, <<"PINUP_GITLAB_TOKEN", "GITLAB_TOKEN">>)
GithubToken(env) == FirstSet(env, <<"PINUP_GITHUB_TOKEN", "GITHUB_TOKEN">>)
Registry(env, names) == FirstSet(env, names).host
Kind(env) ==
  CASE "PINUP_PLATFORM" \in DOMAIN env -> env["PINUP_PLATFORM"].text
    [] "PINUP_PLATFORM" \notin DOMAIN env /\ GithubToken(env) /= Unset /\ InstanceURL(env) = Unset /\ AccessToken(env) = Unset -> "github"
    [] OTHER -> "gitlab"

\* An access token before the job's own; one with nowhere to go is refused.
GitlabFromEnv(env) ==
  LET token == IF AccessToken(env) /= Unset THEN AccessToken(env) ELSE Getenv(env, "CI_JOB_TOKEN")
      host == InstanceURL(env).host
  IN [err |-> token /= Unset /\ host = "", kind |-> "gitlab", host |-> host, token |-> token.text,
      header |-> IF AccessToken(env) /= Unset THEN "PRIVATE-TOKEN" ELSE IF token /= Unset THEN "JOB-TOKEN" ELSE "",
      github |-> Getenv(env, "GITHUB_COM_TOKEN").text, registry |-> Registry(env, <<"PINUP_REGISTRY_HOST", "CI_REGISTRY">>)]

\* The platform's token serves lookups on github.com when it is for there.
GithubFromEnv(env) ==
  LET own == FirstSet(env, <<"PINUP_GITHUB_URL", "GITHUB_SERVER_URL">>)
      host == IF own = Unset THEN "github.com" ELSE own.host
      named == Getenv(env, "GITHUB_COM_TOKEN").text
  IN [err |-> host = "" \/ GithubToken(env) = Unset, kind |-> "github", host |-> host, token |-> GithubToken(env).text, header |-> "",
      github |-> IF named = "" /\ host = "github.com" THEN GithubToken(env).text ELSE named, registry |-> Registry(env, <<"PINUP_REGISTRY_HOST">>)]
PlatformFromEnv(env) ==
  CASE Kind(env) = "gitlab" -> GitlabFromEnv(env)
    [] Kind(env) = "github" -> GithubFromEnv(env)
    [] OTHER -> [GitlabFromEnv(env) EXCEPT !.err = TRUE]

\* --------------------------------------------------- where credentials go
\* The client's rules: the instance's token on the instance's paths, GitHub's
\* on its API.
InstancePaths == {"releases", "tags", "files", "packages", "composer", "user", "self"}
RulesFor(p) ==
  (IF p.kind = "gitlab" /\ p.host /= "" /\ p.token /= "" THEN {[host |-> p.host, token |-> p.token, header |-> p.header, paths |-> InstancePaths]} ELSE {})
  \cup (IF p.github /= "" THEN {[host |-> "api.github.com", token |-> p.github, header |-> "", paths |-> {"any"}]} ELSE {})

\* The registry's token is asked for with the platform's, by the estate's own
\* registry, at the instance, over TLS.
RegistryUser(p) == IF p.header = "JOB-TOKEN" THEN "gitlab-ci-token" ELSE "oauth2"
RegistryCredentials(p, registry, realm) ==
  IF p.kind = "gitlab" /\ p.host /= "" /\ p.token /= "" /\ p.registry /= "" /\ registry = p.registry /\ realm.host = p.host /\ realm.scheme = "https"
    THEN {[user |-> RegistryUser(p), token |-> p.token]} ELSE {}

\* A private address is dialled for the hosts the environment names.
PrivateHosts(env) ==
  ({InstanceURL(env).host, FirstSet(env, <<"PINUP_GITHUB_URL", "GITHUB_SERVER_URL">>).host, Registry(env, <<"PINUP_REGISTRY_HOST", "CI_REGISTRY">>)} \ {""})
  \cup Getenv(env, "PINUP_PRIVATE_HOSTS").items

\* ------------------------------------------------ lists and feeds it reads
\* The key is given, or named by the variable that holds it.
PublicKey(env) ==
  LET given == Getenv(env, "PINUP_WITHDRAWN_IMAGES_PUBKEY")
  IN IF given.scheme = "env" THEN Getenv(env, given.host) ELSE given
WithdrawnImagesSignature(env) ==
  LET mode == Getenv(env, "PINUP_WITHDRAWN_IMAGES_SIGNATURE").text
      key == PublicKey(env)
      dangling == Getenv(env, "PINUP_WITHDRAWN_IMAGES_PUBKEY").scheme = "env" /\ key = Unset
  IN CASE mode \notin {"", "warn", "require", "off"} \/ dangling \/ (key = Unset /\ mode = "require") \/ (key /= Unset /\ key.scheme /= "pem") ->
            [err |-> TRUE, key |-> "", mode |-> ""]
       [] ~dangling /\ key = Unset /\ mode \in {"", "warn", "off"} -> [err |-> FALSE, key |-> "", mode |-> "off"]
       [] OTHER -> [err |-> FALSE, key |-> key.text, mode |-> IF mode = "" THEN "warn" ELSE mode]
DatasourceOptions(env) ==
  LET list == Getenv(env, "PINUP_WITHDRAWN_IMAGES")
      s == WithdrawnImagesSignature(env)
  IN IF list = Unset THEN [err |-> FALSE, list |-> "", scope |-> {}, key |-> "", mode |-> ""]
     ELSE [err |-> list.scheme /= "https" \/ s.err, list |-> list.text, scope |-> Getenv(env, "PINUP_WITHDRAWN_IMAGES_SCOPE").items, key |-> s.key, mode |-> s.mode]
PrivateFeed(env) ==
  LET sources == Getenv(env, "PINUP_PRIVATE_ADVISORIES").items
  IN IF \E s \in sources : s.scheme \notin {"https", "file"} THEN [err |-> TRUE, sources |-> {}] ELSE [err |-> FALSE, sources |-> sources]

\* -------------------------------------------------- what a task is handed
Baseline == {"PATH", "LANG", "LC_ALL", "TMPDIR", "TZ"}
Secrets == {"PINUP_GITLAB_TOKEN", "GITLAB_TOKEN", "CI_JOB_TOKEN", "PINUP_GPG_PRIVATE_KEY"}
Blocked == Secrets \cup {"PINUP_SIGNING_KEY", "PINUP_TASK_NETRC", "GIT_ASKPASS", "HOME", "GNUPGHOME", "SSH_AUTH_SOCK", "GPG_AGENT_INFO",
                       "GIT_CONFIG_GLOBAL", "GIT_CONFIG_PARAMETERS"}
Handed(env) == (Baseline \cup Getenv(env, "PINUP_PLUGIN_ENV").items) \ Blocked
Environment(env) == Handed(env) \cap DOMAIN env

\* A secret is looked for by its value, under whatever name it travels; one
\* too short to be told from other text is not.
TooShort == {"x"}
CarriesSecret(env) ==
  \E s \in Secrets \cap DOMAIN env :
    /\ env[s].text \notin TooShort
    /\ \E n \in Environment(env) \cup ({"PINUP_TASK_NETRC"} \cap DOMAIN env) : env[s].text \in env[n].holds

\* In the sandbox, or refused where that does not hold; outside by name only.
TaskHide(env, state) == {"tmp", "run-user"} \cup {env[n].text : n \in {"HOME", "GNUPGHOME", "SSH_AUTH_SOCK", "XDG_RUNTIME_DIR"} \cap DOMAIN env} \cup (state \ {""})
TaskIsolation(env, holds) ==
  CASE Getenv(env, "PINUP_TASK_ISOLATION").text = "off" -> "none" [] Getenv(env, "PINUP_TASK_ISOLATION").text /= "off" /\ holds -> "sandbox" [] OTHER -> "refused"
RunsTask(env, holds) == TaskIsolation(env, holds) /= "refused" /\ ~CarriesSecret(env)

DashboardTitle(env, configured) ==
  CASE "PINUP_DASHBOARD_TITLE" \in DOMAIN env -> env["PINUP_DASHBOARD_TITLE"].text
    [] "PINUP_DASHBOARD_TITLE" \notin DOMAIN env /\ configured /= "" -> configured
    [] OTHER -> "pinup Dashboard"
AllowedCommands(env, configured) == IF "PINUP_ALLOWED_COMMANDS" \in DOMAIN env THEN env["PINUP_ALLOWED_COMMANDS"].items ELSE configured
Positive(env, name, otherwise) ==
  IF name \in DOMAIN env /\ env[name].items \subseteq Nat /\ env[name].items \cap {0} = {} /\ env[name].items /= {} THEN CHOOSE n \in env[name].items : TRUE ELSE otherwise
RepositoryConcurrency(env) == Positive(env, "PINUP_REPOSITORY_CONCURRENCY", 4)
TaskSlots(env) == Positive(env, "PINUP_TASK_CONCURRENCY", 2)

\* ---------------------------------------------------------------- reference
\* Whose a token is: the host of the instance its variable belongs to.
GitlabVars == {"PINUP_GITLAB_TOKEN", "GITLAB_TOKEN", "CI_JOB_TOKEN"}
GithubVars == {"PINUP_GITHUB_TOKEN", "GITHUB_TOKEN"}
HoldersOf(env, token) == {n \in DOMAIN env : env[n].text = token}
HomeOf(env, name) ==
  CASE name \in GitlabVars -> {InstanceURL(env).host}
    [] name \in GithubVars -> {"github.com", "api.github.com"} \cap
          (IF FirstSet(env, <<"PINUP_GITHUB_URL", "GITHUB_SERVER_URL">>).host \in {"", "github.com"} THEN {"github.com", "api.github.com"} ELSE {})
    [] name = "GITHUB_COM_TOKEN" -> {"api.github.com"}
    [] OTHER -> {}

TokensGoHome(env, p) ==
  /\ \A r \in RulesFor(p) : \E n \in HoldersOf(env, r.token) : r.host \in HomeOf(env, n) /\ (r.header = "JOB-TOKEN" <=> n = "CI_JOB_TOKEN")
  /\ \A registry \in {p.registry, p.host, "elsewhere", ""}, realm \in [host : {p.host, "elsewhere", ""}, scheme : {"https", "http"}] :
       \A c \in RegistryCredentials(p, registry, realm) :
         /\ realm.scheme = "https" /\ registry = p.registry
         /\ \E n \in HoldersOf(env, c.token) : realm.host \in HomeOf(env, n) /\ (c.user = "gitlab-ci-token" <=> n = "CI_JOB_TOKEN")
  /\ p.token /= "" => p.host /= ""
  /\ PrivateHosts(env) \subseteq UNION {{env[n].host} \cup env[n].items : n \in DOMAIN env}
\* A secret's value reaches no task, whatever names it; a signature that was
\* required is checked.
TasksKnowNoSecret(env) ==
  \A holds \in BOOLEAN : RunsTask(env, holds) =>
    \A n \in Environment(env) \cup {"PINUP_TASK_NETRC"}, s \in Secrets \cap DOMAIN env :
      n \notin DOMAIN env \/ env[s].text \in TooShort \/ env[s].text \notin env[n].holds
IsChecked(env, o) ==
  ~o.err /\ o.list /= "" /\ Getenv(env, "PINUP_WITHDRAWN_IMAGES_SIGNATURE").text = "require" => o.mode = "require" /\ o.key /= ""
RequiredIsChecked(env) == IsChecked(env, DatasourceOptions(env))

CredentialsBound(env) ==
  /\ ~PlatformFromEnv(env).err => TokensGoHome(env, PlatformFromEnv(env))
  /\ TasksKnowNoSecret(env) /\ RequiredIsChecked(env)
=============================================================================
