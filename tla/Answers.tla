------------------------------ MODULE Answers ------------------------------
(***************************************************************************)
(* The parts of the program that compute an answer from their input and     *)
(* keep no state: each behaviour takes one input and stops.  What each      *)
(* computes is checked against a reference stated in other terms.           *)
(***************************************************************************)
EXTENDS Calls

LOCAL INSTANCE SequencesExt

CONSTANTS
    Phrases,         \* natural-language schedules, sequences of clauses
    Instants,        \* local times
    Configurations,  \* [runner, repo, lib, subject]: two files, the presets, a dependency
    RuleLists,       \* packageRules that look at the analyzer's label
    RiskyUpdates,    \* [type, fix, exploited, declared, effective]
    Exposures,       \* [cfg, dep, world]: a dependency and what is known against it
    Watches,         \* [index, only, control, worlds]: two watches over one index
    Rewrites,        \* [planned, there, ups, failing]: files, updates, the checkout
    Checkouts,       \* a checkout with its locks, the updates in it and what may run
    Projects,        \* [ups, files]: updates to be named, the files their branch commits
    Rulings,         \* what the rules left for an update: Projects name it by its place
    Vocabularies,    \* scheme -> [versions, ranges]
    Boards,          \* [run, next, tracker]: a dashboard written, ticked and written again
    Lanes,           \* [history, old, lane]: full runs, then a release
    JobFlags,        \* [flags, env, world]: how a run is started
    Environments,    \* the variables of a process
    Proxies,         \* [world, path, instance]: a Go module and who lists it
    Walks,           \* [kind, w]: requests listed while they change
    Versions, Stable, TTL

S == INSTANCE Schedules
C == INSTANCE Settings
V == INSTANCE Advisories
E == INSTANCE Edits
T == INSTANCE Tasks
N == INSTANCE Naming
O == INSTANCE Schemes
B == INSTANCE Dashboard
K == INSTANCE Consumers
W == INSTANCE Environment
G == INSTANCE Modules
L == INSTANCE Listings

Init == NoCalls

Ask(t, i) == topic' = t /\ input' = i /\ UNCHANGED <<calls, registry>>
AskSchedule == Open /\ \E p \in Phrases, t \in Instants : Ask("schedule", [phrase |-> p, at |-> t])
AskSettings == Open /\ \E c \in Configurations : Ask("settings", c)
AskUpdate == Open /\ \E r \in RuleLists, u \in RiskyUpdates, b \in {TRUE, FALSE} : Ask("update", [rules |-> r, update |-> u, alerts |-> b])
AskExposure == Open /\ \E e \in Exposures : Ask("exposure", e)
AskRewrite == Open /\ \E r \in Rewrites : Ask("rewrite", r)
AskTasks == Open /\ \E w \in Checkouts : Ask("tasks", w)
AskNames == Open /\ \E p \in Projects : Ask("names", p)
AskOrder == Open /\ \E s \in DOMAIN Vocabularies : \E a, b \in Vocabularies[s].versions, how \in {"replace", "bump", "widen", "pin", "update-lockfile"} :
              (a = b \/ how = "replace") /\ Ask("order", [scheme |-> s, a |-> a, b |-> b, strategy |-> how])
AskBoard == Open /\ \E b \in Boards : Ask("board", b)
AskLane == Open /\ \E l \in Lanes : Ask("lane", l)
AskJob == Open /\ \E j \in JobFlags : Ask("job", j)
AskEnvironment == Open /\ \E e \in Environments : Ask("environment", e)
AskModule == Open /\ \E m \in Proxies : Ask("module", m)
AskListing == Open /\ \E w \in Walks : Ask("listing", w)
AskWatch == Open /\ \E w \in Watches : Ask("watch", w)

Next == AskSchedule \/ AskSettings \/ AskUpdate \/ AskExposure \/ AskWatch \/ AskRewrite \/ AskTasks \/ AskNames \/ AskOrder \/ AskBoard \/ AskLane \/ AskJob \/ AskEnvironment \/ AskModule \/ AskListing
        \/ CallNext

Spec == Init /\ [][Next]_callVars /\ CallFairness

(***************************************************************************)
(* A phrase that parses is open exactly when each of its clauses says so,   *)
(* the window across midnight included, and when the same schedule written  *)
(* for cron is: it is never open because it was not understood.             *)
(***************************************************************************)
ParsedMeansWritten == topic = "schedule" => S!Agree(S!ParseNatural(input.phrase), input.phrase, input.at)

(***************************************************************************)
(* What holds for a dependency is what the last one to speak about it says, *)
(* over presets, files, defaults and packageRules.                          *)
(***************************************************************************)
Defaults == [k \in {"automerge", "enabled", "minimumReleaseAge", "patch"} |->
               CASE k = "enabled" -> TRUE [] k = "automerge" -> FALSE [] k = "minimumReleaseAge" -> "" [] OTHER -> [j \in {"enabled"} |-> TRUE]]
LastWordWins ==
  topic = "settings" =>
    C!LastWordWins(input.runner, input.repo, "runner", input.lib, Defaults,
                   [skipReason |-> "", disabled |-> FALSE, disabledBy |-> 0, subject |-> input.subject, allowed |-> "",
                    strategy |-> "", age |-> "", registries |-> ""])

(***************************************************************************)
(* A branch is realised whole or held: it writes every reference its        *)
(* updates speak of and no other byte, its locks follow its manifests by    *)
(* one refresh each, the release age gives way to fixes alone, and nothing  *)
(* runs that was not allowed as it runs.                                    *)
(***************************************************************************)
WholeOrHeld ==
  /\ topic = "rewrite" => E!Whole(input.planned, input.there, input.ups, input.failing)
  /\ topic = "tasks" => T!WholeOrHeld(input)

(***************************************************************************)
(* A request says what it carries: no branch mixes what was to travel       *)
(* apart, no title promises a target or a commit type its members have not. *)
(***************************************************************************)
SaysWhatItCarries == topic = "names" => N!NamedFor([i \in DOMAIN input.ups |-> N!Under(input.ups[i], Rulings[input.ups[i].cfg])], input.files)

(***************************************************************************)
(* Every versioning scheme orders its versions, its constraints admit them  *)
(* without gaps, and a value rewritten for a target admits it.              *)
(***************************************************************************)
VersionsOrdered ==
  topic = "order" =>
    O!Sound(input.scheme, input.a, input.b, Vocabularies[input.scheme].versions, Vocabularies[input.scheme].ranges, input.strategy)

(***************************************************************************)
(* A dependency is told of every advisory against the version it runs,      *)
(* once, with a fix that leads out of it; the watch tells a repository of    *)
(* each advisory once.  Within one source no two records share an id.       *)
(***************************************************************************)
AdvisoriesHold ==
  /\ topic = "exposure" => V!AlertsHold(input.cfg, input.dep, input.world)
  /\ topic = "watch" => V!ToldOnce(input)

(***************************************************************************)
(* What a person or a job is told to do is done: the dashboard does for the *)
(* next run what its boxes say, hides nothing and writes no one else's      *)
(* issue, a run does what it was asked and accounts for the rest, and what  *)
(* the process learns from its environment binds each credential to a host. *)
(***************************************************************************)
TakesInstructions ==
  /\ topic = "board" => B!TakesInstructions(input.run, input.next, input.tracker, "dashboard")
  /\ topic = "job" => K!Accountable(input.flags, input.env, input.world)
  /\ topic = "environment" => W!CredentialsBound(input)

(***************************************************************************)
(* What is listed is whole: a release reaches whom it concerns, a Go        *)
(* module's versions are its own, a list of requests read page by page      *)
(* misses none that stayed.                                                 *)
(***************************************************************************)
ReachesConsumers ==
  /\ topic = "lane" => K!ReachesConsumers(input.history, input.old, input.lane)
  /\ topic = "module" => G!ModuleIsHonest(input.world, input.path, input.instance)
  /\ topic = "listing" => L!ListsHold(input.kind, input.w)

(***************************************************************************)
(* The analyzer's label relaxes an automerge only where a rule trusts it,   *)
(* but through an object a rule on the label writes (whatif.go:1276).       *)
(***************************************************************************)
Alerts == [k \in {"vulnerabilityAlerts"} |-> [j \in {"automerge"} |-> TRUE]]
Labelled == [depName |-> "d", packageName |-> "d", datasource |-> "docker", manager |-> "gitlabci", depType |-> "",
             currentValue |-> "1", versioning |-> "", updateType |-> "minor", sourceURL |-> "", packageFile |-> "f",
             effective |-> "patch", lockfileUpdate |-> FALSE, platform |-> ""]
=============================================================================
