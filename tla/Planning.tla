------------------------------ MODULE Planning ------------------------------
(***************************************************************************)
(* One project's full runs over time: lookup.Fetcher and cache.Store feed   *)
(* the planner, the plan meets the open request and the dashboard's boxes,  *)
(* and what acts is written.  All dependencies belong to one group branch.  *)
(* How the branch is pushed is BranchPush and Execute; here a run that acts *)
(* leaves the request carrying the plan, a held branch leaves it alone, and *)
(* a branch nothing plans any more is pruned.                               *)
(*                                                                          *)
(* Days are counted back from now and no further than the age asked for, so *)
(* that time may run for ever: public and seen are ages.  The rest of the   *)
(* world moves between runs: what it does while a run publishes commutes    *)
(* with that, all but a person's tick.                                      *)
(***************************************************************************)
EXTENDS Planner, Branching

CONSTANTS
  Deps,          \* the dependencies as the configuration leaves them
  Upcoming,      \* what each registry publishes, in order; the first is there
  Timed,         \* the dependencies whose registry dates its releases
  MaxResets,     \* how often the cache file may be lost
  MaxExports,    \* how often a copy of it may be taken
  Silent,        \* the sets of dependencies whose registries may fail together
  MaxSilent      \* in how many runs they do

\* The dependencies are a list of Planner's records.
ASSUME DepsAreListed ==
  /\ Len(Deps) \in Nat /\ DOMAIN Deps = 1..Len(Deps)
  /\ \A i \in DOMAIN Deps :
       DOMAIN Deps[i] = {"cur", "digest", "locked", "scheme", "strategy", "allowed", "limited", "filter", "age",
                         "optional", "unstable", "bound", "pinDigests"}

\* ParseAge refuses a negative age.
ASSUME AgesAreNat == \A i \in DOMAIN Deps : Deps[i].age \in Nat

VARIABLES
  windowOpen,    \* the schedule's window
  public,        \* for how long each version has been published, Never if not
  withdrawn,     \* the versions their registry calls deprecated
  value,         \* what the default branch says
  cache,         \* the release set stored per dependency, or Nothing
  seen,          \* firstseen: for how long the cache has known each version
  snapshot,      \* an exported cache file, or Nothing
  request,       \* what the open request carries, Closed for none
  box,           \* the dashboard: the hold its box names and whether it is ticked
  running,       \* the run under way: the hold it will show
  resets, exports, silences

store == <<cache, seen>>
vars == <<windowOpen, public, withdrawn, value, cache, seen, snapshot, request, box, running, resets, exports, silences>>

Dep == DOMAIN Deps
Versioned(i) == {Upcoming[i][k] : k \in DOMAIN Upcoming[i]}

\* Registries list versions as the schemes read them.
ASSUME VersionsAreRead ==
  \A i \in DOMAIN Deps : Upcoming[i] \in Seq([op : STRING, n : Seq(Nat), pre : Seq({0, 1} \X Nat)])

Nothing == [held |-> FALSE]
Closed == {}
Idle == [busy |-> FALSE]
NoBox == [reason |-> "", ticked |-> FALSE]
Boxed == {"approval", "schedule", "age"}     \* the holds a box lifts

Age(i) == Deps[i].age
Older(i, days) == IF days \in {Never, Age(i)} THEN days ELSE days + 1
OlderAll(ages) == [i \in Dep |-> [v \in Versioned(i) |-> Older(i, ages[i][v])]]
Unseen == [i \in Dep |-> [v \in Versioned(i) |-> Never]]
NoAnswers == [i \in Dep |-> Nothing]

\* A project whose cache has known the first releases for long.
Init ==
  /\ windowOpen = TRUE
  /\ public = [i \in Dep |-> [v \in Versioned(i) |-> IF v = Upcoming[i][1] THEN Age(i) ELSE Never]]
  /\ withdrawn = [i \in Dep |-> {}]
  /\ value = [i \in Dep |-> Deps[i].cur]
  /\ cache = NoAnswers /\ seen = public /\ snapshot = Nothing
  /\ request = Closed /\ box = NoBox /\ running = Idle
  /\ resets = 0 /\ exports = 0 /\ silences = 0

-----------------------------------------------------------------------------
\* Fetcher.one: a fresh entry, else the registry, else the entry however old.
MutFetched(i, silent) ==
  IF cache[i] /= Nothing /\ cache[i].fresh THEN "cached"
  ELSE IF i \notin silent THEN "asked" ELSE "failed"
Fetched(i, silent) ==
  IF cache[i] /= Nothing /\ cache[i].fresh THEN "cached"
  ELSE IF i \notin silent THEN "asked"
  ELSE IF cache[i] /= Nothing THEN "stale" ELSE "failed"

Published(i) == {v \in Versioned(i) : public[i][v] /= Never}
Asked(i) == [held |-> TRUE, fresh |-> TRUE, versions |-> Published(i), withdrawn |-> withdrawn[i]]
Answered(i, how) == IF how = "asked" THEN Asked(i) ELSE cache[i]

\* FirstSeenAll: the first sight stays; a stale answer is not recorded.
MutSight(i, how) ==
  [v \in Versioned(i) |-> IF how \in {"cached", "asked"} /\ v \in Answered(i, how).versions THEN 0 ELSE seen[i][v]]
Sight(i, how) ==
  [v \in Versioned(i) |->
     IF how \in {"cached", "asked"} /\ seen[i][v] = Never /\ v \in Answered(i, how).versions THEN 0 ELSE seen[i][v]]

\* The releases as the planner sees them.  The stored payload carries no first
\* sight (it is written before the sight is recorded), so a stale answer has
\* none either.
Since(i, days) == IF days = Never THEN Never ELSE Age(i) - days
Release(i, v, how) ==
  [version |-> v, digest |-> 0, deprecated |-> v \in Answered(i, how).withdrawn,
   time |-> IF i \in Timed THEN Since(i, public[i][v]) ELSE Never,
   seen |-> IF how = "stale" THEN Never ELSE Since(i, Sight(i, how)[v])]
LookedUp(i, how) ==
  [made |-> TRUE, failed |-> how = "failed",
   releases |-> IF how = "failed" THEN {} ELSE {Release(i, v, how) : v \in Answered(i, how).versions}]

-----------------------------------------------------------------------------
\* planUpdates and realise, for the one branch.
Policy(i) == [enabled |-> TRUE, approval |-> FALSE, age |-> Age(i), optional |-> Deps[i].optional,
              scheduled |-> TRUE, automerge |-> FALSE]
Decided(i, u) ==
  Decide([dep |-> i, at |-> i, value |-> u.value, version |-> u.version, type |-> u.type, time |-> u.time,
          waived |-> u.waived, fix |-> u.fix, automerge |-> FALSE, blocks |-> <<>>],
         Policy(i), Age(i), windowOpen)

Updates(i, how) == PlanOne([Deps[i] EXCEPT !.cur = value[i]], LookedUp(i, how), <<>>, Age(i)).ups
DecidedOf(i, how) == SetToSeq({Decided(i, u) : u \in Updates(i, how)})
PlanOf(how) == FlattenSeq([i \in Dep |-> DecidedOf(i, how[i])])

Ticks == IF box.ticked THEN {box.reason} ELSE {}
Branch(how, knowsOpen, refused) ==
  Realise(LiftForOpen(LiftByDashboard(Compose(PlanOf(how)), Ticks), knowsOpen /\ request /= Closed), refused)

Carried(b) == {[dep |-> b.members[k].dep, value |-> b.members[k].value, version |-> b.members[k].version] :
                 k \in DOMAIN b.members}

\* What the lookups leave in the cache, and what the branch does to the request.
Looked(how) ==
  /\ cache' = [i \in Dep |-> IF how[i] = "asked" THEN Asked(i) ELSE cache[i]]
  /\ seen' = [i \in Dep |-> Sight(i, how[i])]
Acted(b) ==
  /\ request' = IF Acts(b) THEN Carried(b) ELSE IF b.members = <<>> THEN Closed ELSE request
  /\ running' = [busy |-> TRUE, shown |-> b.suppressedBy]

\* runProject up to its outcomes.  refused is the reason an edit, a lock or a
\* task is refused for.
RunWith(how, knowsOpen, refused) == Looked(how) /\ Acted(Branch(how, knowsOpen, refused))
Run(silent, knowsOpen, refused) ==
  /\ running = Idle
  /\ silences' = silences + (IF silent = {} THEN 0 ELSE 1)
  /\ silences' <= MaxSilent
  /\ RunWith([i \in Dep |-> Fetched(i, silent)], knowsOpen, refused)
  /\ UNCHANGED <<windowOpen, public, withdrawn, value, snapshot, box, resets, exports>>

\* publishDashboard: the body is written from the plan, every box unticked.
Publish ==
  /\ running /= Idle
  /\ running' = Idle
  /\ box' = IF running.shown \in Boxed THEN [reason |-> running.shown, ticked |-> FALSE] ELSE NoBox
  /\ UNCHANGED <<windowOpen, public, withdrawn, value, cache, seen, snapshot, request, resets, exports, silences>>

\* The issue cannot be written: the boxes stay as they are.
PublishFails == running /= Idle /\ running' = Idle
  /\ UNCHANGED <<windowOpen, public, withdrawn, value, cache, seen, snapshot, request, box, resets, exports, silences>>

-----------------------------------------------------------------------------
\* The registries, the clock, people, and what may happen to the cache file.
Day ==
  /\ running = Idle
  /\ public' = OlderAll(public) /\ seen' = OlderAll(seen)
  /\ cache' = [i \in Dep |-> IF cache[i] = Nothing THEN Nothing ELSE [cache[i] EXCEPT !.fresh = FALSE]]
  /\ snapshot' = IF snapshot = Nothing THEN Nothing ELSE [snapshot EXCEPT !.seen = OlderAll(@)]
  /\ UNCHANGED <<windowOpen, withdrawn, value, request, box, running, resets, exports, silences>>

Window == running = Idle /\ windowOpen' = ~windowOpen
  /\ UNCHANGED <<public, withdrawn, value, cache, seen, snapshot, request, box, running, resets, exports, silences>>

Publishes(i) ==
  /\ running = Idle
  /\ \E k \in DOMAIN Upcoming[i] :
       /\ k > 1 /\ public[i][Upcoming[i][k]] = Never /\ public[i][Upcoming[i][k - 1]] /= Never
       /\ public' = [public EXCEPT ![i][Upcoming[i][k]] = 0]
  /\ UNCHANGED <<windowOpen, withdrawn, value, cache, seen, snapshot, request, box, running, resets, exports, silences>>

Withdraws(i, v) ==
  /\ running = Idle /\ public[i][v] /= Never /\ v /= Upcoming[i][1]
  /\ \A j \in Dep : withdrawn[j] = {}
  /\ withdrawn' = [withdrawn EXCEPT ![i] = {v}]
  /\ UNCHANGED <<windowOpen, public, value, cache, seen, snapshot, request, box, running, resets, exports, silences>>

PersonTicks ==
  /\ box.reason /= "" /\ ~box.ticked /\ box' = [box EXCEPT !.ticked = TRUE]
  /\ UNCHANGED <<windowOpen, public, withdrawn, value, cache, seen, snapshot, request, running, resets, exports, silences>>

PersonMerges ==
  /\ running = Idle /\ request /= Closed
  /\ value' = [i \in Dep |-> IF \E m \in request : m.dep = i THEN (CHOOSE m \in request : m.dep = i).value ELSE value[i]]
  /\ request' = Closed
  /\ UNCHANGED <<windowOpen, public, withdrawn, cache, seen, snapshot, box, running, resets, exports, silences>>

\* ensureSchema drops both buckets; so does a lost volume.
Reset ==
  /\ running = Idle /\ resets < MaxResets /\ resets' = resets + 1
  /\ cache' = NoAnswers /\ seen' = Unseen
  /\ UNCHANGED <<windowOpen, public, withdrawn, value, snapshot, request, box, running, exports, silences>>

Export ==
  /\ running = Idle /\ exports < MaxExports /\ exports' = exports + 1
  /\ snapshot' = [held |-> TRUE, seen |-> seen]
  /\ UNCHANGED <<windowOpen, public, withdrawn, value, cache, seen, request, box, running, resets, silences>>

\* Import merges: what the snapshot knows overwrites, what it does not stays.
\* Its release sets have expired by the time of an import.
MutImported(i, v) == IF snapshot.seen[i][v] = Never THEN Never ELSE snapshot.seen[i][v]
Imported(i, v) == IF snapshot.seen[i][v] = Never THEN seen[i][v] ELSE snapshot.seen[i][v]
Import ==
  /\ running = Idle /\ snapshot /= Nothing
  /\ seen' = [i \in Dep |-> [v \in Versioned(i) |-> Imported(i, v)]]
  /\ snapshot' = Nothing
  /\ UNCHANGED <<windowOpen, public, withdrawn, value, cache, request, box, running, resets, exports, silences>>

\* Prune takes expired release sets, never a first sight.
Prune ==
  /\ running = Idle /\ \E i \in Dep : cache[i] /= Nothing /\ ~cache[i].fresh
  /\ cache' = [i \in Dep |-> IF cache[i] /= Nothing /\ ~cache[i].fresh THEN Nothing ELSE cache[i]]
  /\ UNCHANGED <<windowOpen, public, withdrawn, value, seen, snapshot, request, box, running, resets, exports, silences>>

Next ==
  \/ \E silent \in {{}} \cup Silent, knowsOpen \in BOOLEAN, refused \in {"", "taskRefused"} : Run(silent, knowsOpen, refused)
  \/ Publish \/ PublishFails
  \/ Day \/ Window
  \/ \E i \in Dep : Publishes(i) \/ \E v \in Versioned(i) : Withdraws(i, v)
  \/ PersonTicks \/ PersonMerges
  \/ Reset \/ Export \/ Import \/ Prune

Spec == Init /\ [][Next]_vars

\* A run is scheduled again and again, also inside the window, and now and
\* then every registry answers and nothing is refused; days pass.
GoodRun == windowOpen /\ Run({}, TRUE, "")
FairSpec == Spec /\ SF_vars(Day) /\ SF_vars(Window) /\ WF_vars(Publish \/ PublishFails) /\ []<><<GoodRun>>_vars

-----------------------------------------------------------------------------
TypeOK ==
  /\ windowOpen \in BOOLEAN
  /\ \A i \in Dep : /\ public[i] \in [Versioned(i) -> Never..Age(i)] /\ seen[i] \in [Versioned(i) -> Never..Age(i)]
                    /\ withdrawn[i] \subseteq Published(i)
                    /\ cache[i] /= Nothing => cache[i].versions \subseteq Published(i)
                    /\ \A v \in Versioned(i) : seen[i][v] <= public[i][v]
  /\ \A m, n \in request : m.dep = n.dep => m = n
  /\ running /= Idle => running.shown \in Boxed \cup {"", "taskRefused"}
  /\ box.reason \in Boxed \cup {""}

\* A version newly written has been public for the age asked of it, by the
\* registry's date or by the cache's first sight of it, unless a person ticked
\* the age away (Decide, oldEnough, lookup.recordFirstSeen).
AgedWhenWritten ==
  [][\A m \in request' \ request :
       public[m.dep][m.version] >= Age(m.dep) \/ (box.ticked /\ box.reason = "age")]_vars

\* A request is opened inside the window, or because a person ticked a box
\* (Decide, liftByDashboard, liftForOpen).
WindowGatesCreation ==
  [][request = Closed /\ request' /= Closed => windowOpen \/ box.ticked]_vars

\* Nothing but the loss of the file makes a version look younger than it did:
\* neither a later sight, nor an import, nor pruning (FirstSeenAll, Import,
\* Prune).
NeverYounger ==
  [][resets' = resets =>
       \A i \in Dep : \A v \in Versioned(i) : seen'[i][v] >= seen[i][v]]_vars

\* An aged member of the open request whose registry dates its releases keeps
\* its place: a newer release that is still young does not push it out, nor
\* does a registry that falls silent while an old answer is kept
\* (internalChecksFilter strict in candidates, the stale answer of one).
MembersStay ==
  [][\A m \in request :
       /\ m.dep \in Timed /\ public[m.dep][m.version] >= Age(m.dep)
       /\ m.version \notin withdrawn[m.dep] /\ cache[m.dep] /= Nothing /\ value' = value
       => \E n \in request' : n.dep = m.dep]_vars

\* The newest release of a registry reaches the request or the default branch,
\* unless it is withdrawn.
Newest(i) == Upcoming[i][Len(Upcoming[i])]
Arrives ==
  \A i \in Dep :
    public[i][Newest(i)] /= Never ~>
      \/ Newest(i) \in withdrawn[i]
      \/ value[i] = Written([Deps[i] EXCEPT !.cur = value[i]], Newest(i))
      \/ \E m \in request : m.dep = i /\ m.version = Newest(i)
=============================================================================
