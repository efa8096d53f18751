------------------------------ MODULE FastLane ------------------------------
(***************************************************************************)
(* One project and one group of its dependencies, worked on by full runs   *)
(* (the scheduled scan) and by runs narrowed to one released package (the  *)
(* fast lane): run and runReleased of cmd/pinup over lookup.Fetcher, the   *)
(* cache, the consumer index and the debounce record.                      *)
(*                                                                         *)
(* A process notes the time first and then opens its cache, which waits    *)
(* for every other process on the same file; processes with other caches   *)
(* run beside it.  A full run looks every member up and writes the branch; *)
(* a narrowed one looks up the released member past the cache and, if the  *)
(* group's request is open, plans the whole group or leaves it.  How one   *)
(* branch is pushed, and people's commits on it, are in BranchPush.        *)
(*                                                                         *)
(* Time is kept as ages: how long ago a moment was, no further than        *)
(* LongAgo.  A later moment has the smaller age, and no two processes note *)
(* the same one.                                                           *)
(***************************************************************************)
EXTENDS Naturals, FiniteSets

CONSTANTS
    Waves,         \* scheduled full runs; each runs again and again
    Lanes,         \* fast-lane runs, started by a release's trigger
    Members,       \* the dependencies of the group
    Caches,        \* cache files
    CacheOf,       \* the cache each process opens
    Free,          \* no process has the cache open
    Triggers,      \* what a lane may be started for: package@version, or
                   \* the package alone, with version None
    NoAnswer,      \* the cache knows nothing of a member
    TTL,           \* how long a cached lookup counts as fresh
    Hour,          \* how long the debounce record holds a trigger back
    MaxVersion,    \* bound: releases of a member
    MaxRun,        \* bound: how long a process runs, waiting included
    MaxFailures    \* bound: failed lookups and calls, and crashes

Jobs == Waves \cup Lanes

ASSUME JobKinds == Waves \cap Lanes = {}
ASSUME EveryJobHasACache == CacheOf \in [Jobs -> Caches]
ASSUME FiniteMembers == IsFiniteSet(Members)
ASSUME FreeIsNoJob == Free \notin Jobs
ASSUME Numbers == {TTL, Hour, MaxRun, MaxFailures} \subseteq Nat /\ MaxVersion \in Nat \ {0}
ASSUME TriggersNameReleases ==
    /\ Triggers \subseteq Members \X (0..MaxVersion)
    /\ Triggers # {}

VARIABLES
    released,   \* newest release of each member
    base,       \* what the project's default branch has
    branch,     \* what the group branch brings each member to
    request,    \* whether the group's merge request is open
    cache,      \* each cache's answer for each member, and its age
    lock,       \* the process that has each cache open
    indexed,    \* whether the index beside each cache knows the project
    seen,       \* age of each trigger's debounce record
    lost,       \* whether a cache was ever lost
    failures,   \* how many failures there have been
    pc, job     \* where each process stands and what it holds

project == <<base, branch, request>>
files == <<cache, indexed, seen, lost>>
vars == <<released, project, files, lock, failures, pc, job>>

Versions == 1..MaxVersion
None == 0                                  \* no version: no edit, no answer
Content == [Members -> Versions \cup {None}]
NoEdits == [m \in Members |-> None]
LongAgo == (IF TTL > Hour THEN TTL ELSE Hour) + MaxRun + 1
Age == 0..LongAgo

\* A cached answer, its age with it.
Entry == [version : Versions, age : Age]
ASSUME NoAnswerIsNoEntry == NoAnswer \notin Entry

Pcs == {"idle", "waiting", "open", "planned", "widening", "held", "writing", "pushed",
        "leaving"}

Job == [spec    : Triggers,      \* what a lane was triggered for
        now     : Age,        \* when the process noted the time
        base    : Content,    \* the clone's default branch
        answers : Content,    \* what the lookups said
        done    : BOOLEAN]    \* whether the run went through

Idle == [spec |-> CHOOSE s \in Triggers : TRUE, now |-> 0, base |-> NoEdits,
         answers |-> NoEdits, done |-> FALSE]

TypeOK ==
    /\ released \in [Members -> Versions] /\ base \in [Members -> Versions]
    /\ branch \in Content /\ request \in BOOLEAN
    /\ cache \in [Caches -> [Members -> Entry \cup {NoAnswer}]]
    /\ lock \in [Caches -> Jobs \cup {Free}]
    /\ indexed \in [Caches -> BOOLEAN]
    /\ seen \in [Triggers -> Age]
    /\ lost \in BOOLEAN /\ failures \in 0..MaxFailures
    /\ pc \in [Jobs -> Pcs] /\ job \in [Jobs -> Job]

Init ==
    /\ released = [m \in Members |-> 1] /\ base = [m \in Members |-> 1]
    /\ branch = NoEdits /\ request = FALSE
    /\ cache = [c \in Caches |-> [m \in Members |-> NoAnswer]]
    /\ lock = [c \in Caches |-> Free]
    /\ indexed = [c \in Caches |-> FALSE]
    /\ seen = [s \in Triggers |-> LongAgo]
    /\ lost = FALSE /\ failures = 0
    /\ pc = [j \in Jobs |-> "idle"] /\ job = [j \in Jobs |-> Idle]

-----------------------------------------------------------------------------
(* Lookups: Fetcher.one for a member, asked by j.                          *)

Narrowed(j) == j \in Lanes
Released(j) == job[j].spec[1]
Cached(j, m) == cache[CacheOf[j]][m]

\* A cached answer may be used at all.  The released package's must have been
\* fetched when j noted the time or later.
MutUsable(j, m, bypass) == Cached(j, m) # NoAnswer
Usable(j, m, bypass) ==
    /\ Cached(j, m) # NoAnswer
    /\ m \in bypass => Cached(j, m).age <= job[j].now

\* It is fresh: stored no longer than TTL before j noted the time.
MutFresh(j, m) == TRUE
Fresh(j, m) == Cached(j, m).age <= job[j].now + TTL

FromCache(j, m, bypass) == Usable(j, m, bypass) /\ Fresh(j, m)

\* The lookups that failed, some of them with a stale answer to fall back on.
Warned(j, asked, bypass, down) == {m \in asked \cap down : ~FromCache(j, m, bypass)}

Answer(j, m, bypass, down) ==
    IF FromCache(j, m, bypass) THEN Cached(j, m).version
    ELSE IF m \notin down THEN released[m]
    ELSE IF Usable(j, m, bypass) THEN Cached(j, m).version ELSE None

\* Every asked member of the clone is looked up; a registry's answer is stored as of the
\* time j noted, which was before it gave the answer.
Lookup(j, clone, asked, bypass, down) ==
    /\ job' = [job EXCEPT ![j].answers =
                 [m \in Members |-> IF m \in asked THEN Answer(j, m, bypass, down) ELSE None],
                          ![j].base = clone]
    /\ cache' = [cache EXCEPT ![CacheOf[j]] =
                   [m \in Members |-> IF m \in asked \ down /\ ~FromCache(j, m, bypass)
                                      THEN [version |-> released[m], age |-> job[j].now]
                                      ELSE Cached(j, m)]]

\* The edits of j's plan for the group branch.
Planned(j) ==
    [m \in Members |-> IF job[j].answers[m] > job[j].base[m] THEN job[j].answers[m] ELSE None]

-----------------------------------------------------------------------------
(* A process.                                                              *)

Goto(j, from, to) == pc[j] = from /\ pc' = [pc EXCEPT ![j] = to]

\* n failures happen, within the bound.
Fails(n) == failures + n <= MaxFailures /\ failures' = failures + n
NoFailure == UNCHANGED failures

Older(age) == IF age < LongAgo THEN age + 1 ELSE age
Aged(j) == IF pc[j] = "idle" THEN job[j] ELSE [job[j] EXCEPT !.now = Older(@)]

\* Time passes for all that is on record, while no process is at the bound.
Passes ==
    /\ \A j \in Jobs : pc[j] # "idle" => job[j].now < MaxRun
    /\ cache' = [c \in Caches |-> [m \in Members |->
                   IF cache[c][m] = NoAnswer THEN NoAnswer
                   ELSE [cache[c][m] EXCEPT !.age = Older(@)]]]
    /\ seen' = [s \in Triggers |-> Older(seen[s])]
    /\ UNCHANGED <<indexed, lost>>

Tick ==
    /\ Passes
    /\ job' = [j \in Jobs |-> Aged(j)]
    /\ UNCHANGED <<released, project, lock, failures, pc>>

\* run notes the time, later than every other process did, before it opens
\* the cache.  A trigger names a version that is out, or only the package.
Start(j) ==
    /\ Goto(j, "idle", "waiting")
    /\ Passes
    /\ \E s \in Triggers :
         /\ IF Narrowed(j) THEN s[2] <= released[s[1]] ELSE s = Idle.spec
         /\ job' = [i \in Jobs |-> IF i = j THEN [Idle EXCEPT !.spec = s] ELSE Aged(i)]
    /\ UNCHANGED <<released, project, lock, failures>>

\* The debounce record and the consumers the index knows.
SeenRecently(j) == seen[job[j].spec] < job[j].now + Hour
Known(j) == \E c \in Caches : indexed[c]

\* cache.Open returns only to one process at a time.
OpenCache(j) ==
    /\ lock[CacheOf[j]] = Free
    /\ Narrowed(j) => ~SeenRecently(j) /\ Known(j)
    /\ Goto(j, "waiting", "open")
    /\ lock' = [lock EXCEPT ![CacheOf[j]] = j]
    /\ UNCHANGED <<released, project, files, failures, job>>

\* A trigger that was run within the hour, or whose package has no known
\* consumer, is done at once.
Skip(j) ==
    /\ lock[CacheOf[j]] = Free
    /\ Narrowed(j) /\ (SeenRecently(j) \/ ~Known(j))
    /\ Goto(j, "waiting", "idle")
    /\ job' = [job EXCEPT ![j] = Idle]
    /\ UNCHANGED <<released, project, files, lock, failures>>

\* checkout and whatif.  Only a full plan feeds the index.
Plan(j) ==
    /\ Goto(j, "open", IF Narrowed(j) THEN "planned" ELSE "writing")
    /\ LET asked == IF Narrowed(j) THEN {Released(j)} ELSE Members
           bypass == IF Narrowed(j) THEN {Released(j)} ELSE {}
       IN  \E down \in SUBSET asked :
             /\ Lookup(j, base, asked, bypass, down)
             /\ Fails(Cardinality(down))
    /\ indexed' = IF Narrowed(j) THEN indexed ELSE [indexed EXCEPT ![CacheOf[j]] = TRUE]
    /\ UNCHANGED <<released, project, seen, lost, lock>>

\* A narrowed run asks which requests are open; unknown counts as open.
MutListOpen(j) ==
    /\ pc[j] = "planned"
    /\ \/ NoFailure /\ pc' = [pc EXCEPT ![j] = IF request THEN "widening" ELSE "writing"]
       \/ Fails(1) /\ pc' = [pc EXCEPT ![j] = "writing"]
    /\ UNCHANGED <<released, project, files, lock, job>>
ListOpen(j) ==
    /\ pc[j] = "planned"
    /\ \/ NoFailure /\ pc' = [pc EXCEPT ![j] = IF request THEN "widening" ELSE "writing"]
       \/ Fails(1) /\ pc' = [pc EXCEPT ![j] = "widening"]
    /\ UNCHANGED <<released, project, files, lock, job>>

\* widenOpenGroups and holdGroupsInNarrowedRun: the group of the same clone is
\* looked up as the full run does, and written if every other member was
\* answered; otherwise the branch is held.  A plan without an edit has nothing
\* to widen.
Trusted(j, down) == Warned(j, Members \ {Released(j)}, {}, down) = {}
Widen(j) ==
    /\ pc[j] = "widening"
    /\ IF Planned(j) = NoEdits
       THEN /\ pc' = [pc EXCEPT ![j] = "writing"]
            /\ UNCHANGED <<job, cache, failures>>
       ELSE \E down \in SUBSET Members :
              /\ Lookup(j, job[j].base, Members, {}, down)
              /\ Fails(Cardinality(down))
              /\ pc' = [pc EXCEPT ![j] = IF Trusted(j, down) THEN "writing" ELSE "held"]
    /\ UNCHANGED <<released, project, indexed, seen, lost, lock>>

\* The held branch: nothing is written, and the run went through.
Hold(j) ==
    /\ Goto(j, "held", "leaving")
    /\ job' = [job EXCEPT ![j].done = TRUE]
    /\ UNCHANGED <<released, project, files, lock, failures>>

\* runner.Execute pushes a branch the plan names; a failed branch fails a
\* narrowed run (narrowedRunFailure).
Push(j) ==
    /\ Planned(j) # NoEdits
    /\ \/ /\ Goto(j, "writing", "pushed") /\ NoFailure
          /\ branch' = Planned(j)
       \/ /\ Goto(j, "writing", "leaving") /\ Fails(1)
          /\ branch' = branch
    /\ UNCHANGED <<released, base, request, files, lock, job>>

\* The request is opened or updated.
Publish(j) ==
    /\ Goto(j, "pushed", "leaving")
    /\ \/ /\ NoFailure /\ branch # NoEdits
          /\ request' = TRUE
          /\ job' = [job EXCEPT ![j].done = TRUE]
       \/ /\ Fails(1) \/ (NoFailure /\ branch = NoEdits)
          /\ UNCHANGED <<request, job>>
    /\ UNCHANGED <<released, base, branch, files, lock>>

\* A plan without the branch: a full run closes its request and deletes it, a
\* narrowed run leaves it.
Prunes(j) == ~Narrowed(j) /\ request
Prune(j) ==
    /\ Planned(j) = NoEdits
    /\ Goto(j, "writing", "leaving")
    /\ request' = (request /\ ~Prunes(j))
    /\ branch' = IF Prunes(j) THEN NoEdits ELSE branch
    /\ job' = [job EXCEPT ![j].done = TRUE]
    /\ UNCHANGED <<released, base, files, lock, failures>>

\* A narrowed run that went through is recorded, as of the time it noted.
Marks(j) == Narrowed(j) /\ job[j].done
Leave(j) ==
    /\ Goto(j, "leaving", "idle")
    /\ seen' = IF Marks(j) THEN [seen EXCEPT ![job[j].spec] = job[j].now] ELSE seen
    /\ lock' = [lock EXCEPT ![CacheOf[j]] = Free]
    /\ job' = [job EXCEPT ![j] = Idle]
    /\ UNCHANGED <<released, project, cache, indexed, lost, failures>>

\* The process dies; the kernel gives its lock back.
Crash(j) ==
    /\ pc[j] \notin {"idle", "waiting"}
    /\ Fails(1)
    /\ pc' = [pc EXCEPT ![j] = "idle"]
    /\ job' = [job EXCEPT ![j] = Idle]
    /\ lock' = [lock EXCEPT ![CacheOf[j]] = Free]
    /\ UNCHANGED <<released, project, files>>

JobStep(j) ==
    \/ OpenCache(j) \/ Skip(j) \/ Plan(j) \/ ListOpen(j) \/ Widen(j) \/ Hold(j)
    \/ Push(j) \/ Publish(j) \/ Prune(j) \/ Leave(j)

-----------------------------------------------------------------------------
(* Everybody else.                                                         *)

Release(m) ==
    /\ released[m] < MaxVersion
    /\ released' = [released EXCEPT ![m] = @ + 1]
    /\ UNCHANGED <<project, files, lock, failures, pc, job>>

Merge ==
    /\ request /\ branch # NoEdits
    /\ base' = [m \in Members |-> IF branch[m] > base[m] THEN branch[m] ELSE base[m]]
    /\ branch' = NoEdits /\ request' = FALSE
    /\ UNCHANGED <<released, files, lock, failures, pc, job>>

\* The volume with a cache, and the index beside it, is gone (bound: once).
LoseCache(c) ==
    /\ lock[c] = Free /\ ~lost
    /\ cache' = [cache EXCEPT ![c] = [m \in Members |-> NoAnswer]]
    /\ indexed' = [indexed EXCEPT ![c] = FALSE]
    /\ lost' = TRUE
    /\ UNCHANGED <<released, project, seen, lock, failures, pc, job>>

Next ==
    \/ \E j \in Jobs : Start(j) \/ JobStep(j) \/ Crash(j)
    \/ \E m \in Members : Release(m)
    \/ \E c \in Caches : LoseCache(c)
    \/ Merge \/ Tick

Spec == Init /\ [][Next]_vars

\* Scheduled runs start again and again, processes go on, time passes, and a
\* process that keeps trying to open its cache gets it in the end.
Fairness ==
    /\ WF_vars(Tick)
    /\ \A j \in Waves : SF_vars(Start(j))
    /\ \A j \in Jobs : WF_vars(JobStep(j)) /\ SF_vars(OpenCache(j))
FairSpec == Spec /\ Fairness

-----------------------------------------------------------------------------
(* Properties.                                                             *)

\* j leaves no member of an open request behind what the request brings it to.
KeepsMembers(j) ==
    (Push(j) \/ Prune(j)) /\ request =>
        \A m \in Members : branch[m] > base[m] => branch'[m] >= branch[m]

\* A narrowed run never drops a member from an open group request nor takes
\* it back to an older release, and neither does a full run unless a cache
\* was lost (holdGroupsInNarrowedRun: "rewriting a group branch that already
\* carries other members' updates would drop them").
NoStepBack == [][\A j \in Jobs : Narrowed(j) \/ ~lost => KeepsMembers(j)]_vars

\* The same for narrowed runs alone.
NarrowedKeepsMembers == [][\A j \in Lanes : KeepsMembers(j)]_vars

\* A narrowed run sees the release it was triggered for or is told that the
\* registry failed: an answer another process stored while this one waited
\* counts only if it was fetched since this one started (Fetcher.Bypass).
ReleaseIsSeen ==
    [][\A j \in Lanes : Plan(j) => job'[j].answers[Released(j)] \in
         {None} \cup {v \in Versions : v >= job[j].spec[2]}]_vars

\* "Only a run that went through counts as done" (runReleased): a trigger is
\* held back for an hour only by a run that learnt of the release.
DoneIsAnswered ==
    [][\A j \in Lanes : Leave(j) /\ Marks(j)
         => job[j].answers[Released(j)] >= job[j].spec[2]]_vars

\* Every release comes to the base or into the open request, if failures end.
ReleaseArrives ==
    \A m \in Members : \A v \in Versions :
        released[m] >= v ~> (base[m] >= v \/ (request /\ branch[m] >= v))

=============================================================================
