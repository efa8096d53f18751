--------------------------- MODULE FastLane_proofs ---------------------------
(***************************************************************************)
(* Type correctness of FastLane, that a fast lane sees the release it was  *)
(* started for, and that with one cache file no member of an open group    *)
(* request is dropped or taken back, for every number of runs, members,    *)
(* releases and failures.                                                  *)
(***************************************************************************)
EXTENDS FastLane, FiniteSetTheorems, TLAPS

-----------------------------------------------------------------------------
(* Values.                                                                 *)

\* Ages are numbers, and no process gets as old as LongAgo.
LEMMA LongAgoIsLate == LongAgo \in Nat /\ MaxRun \in Nat /\ MaxRun < LongAgo
BY Numbers DEF LongAgo

LEMMA OlderTyped == \A age \in Age : Older(age) \in Age
BY LongAgoIsLate DEF Older, Age

\* A step of time keeps the order of two ages.
LEMMA OlderKeepsOrder ==
    \A x, y \in Age : x <= y => Older(x) <= Older(y)
BY LongAgoIsLate DEF Older, Age

LEMMA IdleTyped == Idle \in Job /\ Idle.now = 0 /\ Idle.base = NoEdits /\ Idle.answers = NoEdits
<1>1. (CHOOSE s \in Triggers : TRUE) \in Triggers
  BY TriggersNameReleases
<1>2. NoEdits \in Content
  BY DEF NoEdits, Content, None
<1>3. 0 \in Age
  BY LongAgoIsLate DEF Age
<1> QED
  BY <1>1, <1>2, <1>3 DEF Idle, Job

\* What the trigger of a process names.
LEMMA TriggerTyped == \A s \in Triggers : s[1] \in Members /\ s[2] \in 0..MaxVersion
BY TriggersNameReleases

\* The records of a process after its fields change.
LEMMA JobKeeps ==
    ASSUME NEW r \in Job, NEW a \in Age, NEW b \in Content, NEW c \in Content
    PROVE  /\ [r EXCEPT !.now = a] \in Job
           /\ [r EXCEPT !.done = TRUE] \in Job
           /\ [r EXCEPT !.answers = b, !.base = c] \in Job
BY DEF Job

LEMMA StartTyped ==
    ASSUME NEW s \in Triggers PROVE [Idle EXCEPT !.spec = s] \in Job
BY IdleTyped DEF Job

\* The edits of a plan.
LEMMA PlannedTyped == \A j \in Jobs : job[j] \in Job => Planned(j) \in Content
BY DEF Planned, Content, Job, None

-----------------------------------------------------------------------------
(* Type correctness.                                                       *)

\* The Boolean part of TypeOK, and the rest.
Flags ==
    /\ request \in BOOLEAN /\ lost \in BOOLEAN
    /\ indexed \in [Caches -> BOOLEAN]

Data ==
    /\ released \in [Members -> Versions] /\ base \in [Members -> Versions]
    /\ branch \in Content
    /\ cache \in [Caches -> [Members -> Entry \cup {NoAnswer}]]
    /\ lock \in [Caches -> Jobs \cup {Free}]
    /\ seen \in [Triggers -> Age]
    /\ failures \in 0..MaxFailures
    /\ pc \in [Jobs -> Pcs] /\ job \in [Jobs -> Job]

LEMMA TypeParts == TypeOK <=> Flags /\ Data
BY DEF TypeOK, Flags, Data, Entry

\* An answer is a version or nothing.
LEMMA AnswerTyped ==
    ASSUME Data, NEW j \in Jobs, NEW m \in Members, NEW bypass, NEW down
    PROVE  /\ Answer(j, m, bypass, down) \in Versions \cup {None}
           /\ Cached(j, m) \in Entry \cup {NoAnswer}
           /\ Usable(j, m, bypass) => Cached(j, m) \in Entry
<1>1. CacheOf[j] \in Caches
  BY EveryJobHasACache
<1>2. Cached(j, m) \in Entry \cup {NoAnswer}
  BY <1>1 DEF Cached, Data
<1>3. Usable(j, m, bypass) => Cached(j, m) \in Entry
  BY <1>2 DEF Usable
<1>4. released[m] \in Versions
  BY DEF Data
<1>5. Usable(j, m, bypass) => Cached(j, m).version \in Versions
  BY <1>3 DEF Entry
<1> QED
  BY <1>2, <1>3, <1>4, <1>5 DEF Answer, FromCache

\* After a round of lookups.
LEMMA LookupTyped ==
    ASSUME Data, NEW j \in Jobs, NEW clone \in Content, NEW asked, NEW bypass, NEW down,
           Lookup(j, clone, asked, bypass, down)
    PROVE  /\ cache' \in [Caches -> [Members -> Entry \cup {NoAnswer}]]
           /\ job' \in [Jobs -> Job]
<1> DEFINE answers == [m \in Members |-> IF m \in asked THEN Answer(j, m, bypass, down) ELSE None]
           entries == [m \in Members |-> IF m \in asked \ down /\ ~FromCache(j, m, bypass)
                                         THEN [version |-> released[m], age |-> job[j].now]
                                         ELSE Cached(j, m)]
<1>1. answers \in Content
  BY AnswerTyped DEF Content, None
<1>2. job[j] \in Job
  BY DEF Data
<1>3. job[j].now \in Age
  BY <1>2 DEF Job
<1>4. entries \in [Members -> Entry \cup {NoAnswer}]
  <2> SUFFICES ASSUME NEW m \in Members PROVE entries[m] \in Entry \cup {NoAnswer}
    OBVIOUS
  <2>1. released[m] \in Versions
    BY DEF Data
  <2>2. [version |-> released[m], age |-> job[j].now] \in Entry
    BY <1>3, <2>1 DEF Entry
  <2> QED BY <2>2, AnswerTyped
<1>5. [job[j] EXCEPT !.answers = answers, !.base = clone] \in Job
  BY <1>1, <1>2 DEF Job
<1>6. job' = [job EXCEPT ![j] = [job[j] EXCEPT !.answers = answers, !.base = clone]]
  BY DEF Lookup, Data
<1>7. cache' = [cache EXCEPT ![CacheOf[j]] = entries]
  BY DEF Lookup
<1> HIDE DEF answers, entries
<1>8. job' \in [Jobs -> Job]
  BY <1>5, <1>6 DEF Data
<1>9. cache' \in [Caches -> [Members -> Entry \cup {NoAnswer}]]
  BY <1>4, <1>7 DEF Data
<1> QED BY <1>8, <1>9

\* A process moves on, and its record stays a record.
LEMMA GotoTyped ==
    ASSUME Data, NEW j \in Jobs, NEW from, NEW to \in Pcs, Goto(j, from, to)
    PROVE  pc' \in [Jobs -> Pcs]
BY DEF Data, Goto

LEMMA FailsTyped ==
    ASSUME Data, NEW n \in Nat, Fails(n) PROVE failures' \in 0..MaxFailures
BY Numbers DEF Data, Fails

LEMMA FailedLookups == \A down \in SUBSET Members : Cardinality(down) \in Nat
BY FiniteMembers, FS_Subset, FS_CardinalityType

\* Everything on record gets older.
LEMMA PassesTyped ==
    ASSUME Data, Passes
    PROVE  /\ cache' \in [Caches -> [Members -> Entry \cup {NoAnswer}]]
           /\ seen' \in [Triggers -> Age]
           /\ \A j \in Jobs : Aged(j) \in Job
<1>1. ASSUME NEW c \in Caches, NEW m \in Members, cache[c][m] # NoAnswer
      PROVE  [cache[c][m] EXCEPT !.age = Older(@)] \in Entry
  <2>1. cache[c][m] \in Entry
    BY <1>1 DEF Data
  <2>2. Older(cache[c][m].age) \in Age
    BY <2>1, OlderTyped DEF Entry
  <2> QED BY <2>1, <2>2 DEF Entry
<1>2. cache' \in [Caches -> [Members -> Entry \cup {NoAnswer}]]
  BY <1>1 DEF Passes
<1>3. seen' \in [Triggers -> Age]
  BY OlderTyped DEF Passes, Data
<1>4. \A j \in Jobs : Aged(j) \in Job
  <2> SUFFICES ASSUME NEW j \in Jobs PROVE Aged(j) \in Job
    OBVIOUS
  <2>1. job[j] \in Job
    BY DEF Data
  <2>2. Older(job[j].now) \in Age
    BY <2>1, OlderTyped DEF Job
  <2>3. [job[j] EXCEPT !.now = Older(@)] \in Job
    BY <2>1, <2>2 DEF Job
  <2> QED BY <2>1, <2>3 DEF Aged
<1> QED BY <1>2, <1>3, <1>4

\* The Booleans stay Booleans.
LEMMA FlagsTyped == ASSUME Flags, [Next]_vars PROVE Flags'
<1> USE DEF Flags
<1>1. ASSUME NEW j \in Jobs, Start(j) PROVE Flags'
  BY <1>1, Zenon DEF Start, Passes, project
<1>2. ASSUME NEW j \in Jobs, OpenCache(j) \/ Skip(j) \/ Hold(j) \/ Leave(j) \/ ListOpen(j) \/ Crash(j) PROVE Flags'
  BY <1>2, Zenon DEF OpenCache, Skip, Hold, Leave, ListOpen, Crash, project, files
<1>3. ASSUME NEW j \in Jobs, Plan(j) PROVE Flags'
  <2>1. indexed' \in [Caches -> BOOLEAN]
    BY <1>3, EveryJobHasACache DEF Plan
  <2>2. request' = request /\ lost' = lost
    BY <1>3 DEF Plan, project
  <2> QED BY <2>1, <2>2, Zenon
<1>4. ASSUME NEW j \in Jobs, Widen(j) \/ Push(j) PROVE Flags'
  BY <1>4, Zenon DEF Widen, Push, project, files
<1>5. ASSUME NEW j \in Jobs, Publish(j) PROVE Flags'
  BY <1>5, Zenon DEF Publish, project, files
<1>6. ASSUME NEW j \in Jobs, Prune(j) PROVE Flags'
  BY <1>6, Zenon DEF Prune, files
<1>7. ASSUME NEW c \in Caches, LoseCache(c) PROVE Flags'
  <2>1. indexed' \in [Caches -> BOOLEAN]
    BY <1>7 DEF LoseCache
  <2>2. request' = request /\ lost' = TRUE
    BY <1>7 DEF LoseCache, project
  <2> QED BY <2>1, <2>2, Zenon
<1>8. CASE Tick
  BY <1>8, Zenon DEF Tick, Passes, project
<1>9. CASE Merge \/ \E m \in Members : Release(m)
  BY <1>9, Zenon DEF Merge, Release, project, files
<1>10. CASE UNCHANGED vars
  BY <1>10, Zenon DEF vars, project, files
<1> QED
  BY <1>1, <1>2, <1>3, <1>4, <1>5, <1>6, <1>7, <1>8, <1>9, <1>10 DEF Next, JobStep

\* And the rest keeps its type.
LEMMA DataTyped == ASSUME Data, [Next]_vars PROVE Data'
<1>1. ASSUME NEW j \in Jobs, Start(j) PROVE Data'
  <2>1. PICK s \in Triggers :
          job' = [i \in Jobs |-> IF i = j THEN [Idle EXCEPT !.spec = s] ELSE Aged(i)]
    BY <1>1 DEF Start
  <2>2. /\ cache' \in [Caches -> [Members -> Entry \cup {NoAnswer}]]
        /\ seen' \in [Triggers -> Age]
        /\ \A i \in Jobs : Aged(i) \in Job
    BY <1>1, PassesTyped DEF Start
  <2>3. job' \in [Jobs -> Job]
    BY <2>1, <2>2, StartTyped
  <2>4. pc' \in [Jobs -> Pcs]
    BY <1>1 DEF Start, Goto, Data, Pcs
  <2> QED BY <1>1, <2>2, <2>3, <2>4 DEF Start, Data, project
<1>2. ASSUME NEW j \in Jobs, OpenCache(j) PROVE Data'
  BY <1>2, EveryJobHasACache DEF OpenCache, Goto, Data, Pcs, project, files
<1>3. ASSUME NEW j \in Jobs, Skip(j) PROVE Data'
  BY <1>3, IdleTyped DEF Skip, Goto, Data, Pcs, project, files
<1>4. ASSUME NEW j \in Jobs, Plan(j) PROVE Data'
  <2> DEFINE asked == IF Narrowed(j) THEN {Released(j)} ELSE Members
             bypass == IF Narrowed(j) THEN {Released(j)} ELSE {}
  <2>1. job[j].spec[1] \in Members
    BY TriggerTyped DEF Data, Job
  <2>2. PICK down \in (SUBSET asked) : Lookup(j, base, asked, bypass, down) /\ Fails(Cardinality(down))
    BY <1>4 DEF Plan
  <2>3. down \in (SUBSET Members)
    BY <2>1, <2>2 DEF Released
  <2>4. base \in Content
    BY DEF Data, Content
  <2> HIDE DEF asked, bypass
  <2>5. cache' \in [Caches -> [Members -> Entry \cup {NoAnswer}]] /\ job' \in [Jobs -> Job]
    BY <2>2, <2>4, LookupTyped
  <2>6. failures' \in 0..MaxFailures
    BY <2>2, <2>3, FailedLookups, FailsTyped
  <2>7. pc' \in [Jobs -> Pcs]
    BY <1>4 DEF Plan, Goto, Data, Pcs
  <2> QED BY <1>4, <2>5, <2>6, <2>7 DEF Plan, Data, project
<1>5. ASSUME NEW j \in Jobs, ListOpen(j) PROVE Data'
  <2>1. 1 \in Nat
    OBVIOUS
  <2>2. failures' \in 0..MaxFailures
    BY <1>5, <2>1, FailsTyped DEF ListOpen, NoFailure, Data
  <2>3. pc' \in [Jobs -> Pcs]
    BY <1>5 DEF ListOpen, Data, Pcs
  <2> QED BY <1>5, <2>2, <2>3 DEF ListOpen, Data, project, files
<1>6. ASSUME NEW j \in Jobs, Widen(j) PROVE Data'
  <2>1. CASE Planned(j) = NoEdits
    BY <1>6, <2>1 DEF Widen, Data, Pcs, project
  <2>2. CASE Planned(j) # NoEdits
    <3>1. PICK down \in (SUBSET Members) :
            /\ Lookup(j, job[j].base, Members, {}, down)
            /\ Fails(Cardinality(down))
            /\ pc' = [pc EXCEPT ![j] = IF Trusted(j, down) THEN "writing" ELSE "held"]
      BY <1>6, <2>2 DEF Widen
    <3>2. job[j].base \in Content
      BY DEF Data, Job
    <3>3. cache' \in [Caches -> [Members -> Entry \cup {NoAnswer}]] /\ job' \in [Jobs -> Job]
      BY <3>1, <3>2, LookupTyped
    <3>4. failures' \in 0..MaxFailures
      BY <3>1, FailedLookups, FailsTyped
    <3>5. pc' \in [Jobs -> Pcs]
      BY <3>1 DEF Data, Pcs
    <3> QED BY <1>6, <3>3, <3>4, <3>5 DEF Widen, Data, project
  <2> QED BY <2>1, <2>2
<1>7. ASSUME NEW j \in Jobs, Hold(j) PROVE Data'
  BY <1>7 DEF Hold, Goto, Data, Pcs, Job, project, files
<1>8. ASSUME NEW j \in Jobs, Push(j) PROVE Data'
  <2>1. Planned(j) \in Content
    BY PlannedTyped DEF Data
  <2>2. failures' \in 0..MaxFailures
    BY <1>8, FailsTyped DEF Push, NoFailure, Data
  <2>3. job' \in [Jobs -> Job]
    BY <1>8 DEF Push, Data, Job
  <2>4. pc' \in [Jobs -> Pcs]
    BY <1>8 DEF Push, Goto, Data, Pcs
  <2>5. branch' \in Content
    BY <1>8, <2>1 DEF Push, Data
  <2> QED BY <1>8, <2>2, <2>3, <2>4, <2>5, SMTT(30) DEF Push, Data, project, files
<1>9. ASSUME NEW j \in Jobs, Publish(j) PROVE Data'
  <2>1. failures' \in 0..MaxFailures
    BY <1>9, FailsTyped DEF Publish, NoFailure, Data
  <2>2. job' \in [Jobs -> Job]
    BY <1>9 DEF Publish, Data, Job
  <2> QED BY <1>9, <2>1, <2>2 DEF Publish, Goto, Data, Pcs, project, files
<1>10. ASSUME NEW j \in Jobs, Prune(j) PROVE Data'
  <2>1. NoEdits \in Content
    BY DEF NoEdits, Content, None
  <2>2. job' \in [Jobs -> Job]
    BY <1>10 DEF Prune, Data, Job
  <2> QED BY <1>10, <2>1, <2>2 DEF Prune, Goto, Data, Pcs, files
<1>11. ASSUME NEW j \in Jobs, Leave(j) PROVE Data'
  <2>1. job[j].now \in Age
    BY DEF Data, Job
  <2>2. seen' \in [Triggers -> Age]
    BY <1>11, <2>1 DEF Leave, Data
  <2> QED BY <1>11, <2>2, IdleTyped DEF Leave, Goto, Data, Pcs, project
<1>12. ASSUME NEW j \in Jobs, Crash(j) PROVE Data'
  <2>1. failures' \in 0..MaxFailures
    BY <1>12, FailsTyped DEF Crash
  <2> QED BY <1>12, <2>1, IdleTyped DEF Crash, Data, Pcs, project, files
<1>13. ASSUME NEW m \in Members, Release(m) PROVE Data'
  BY <1>13, Numbers DEF Release, Data, Versions, project, files
<1>14. CASE Merge
  <2>1. base' \in [Members -> Versions]
    <3> SUFFICES ASSUME NEW m \in Members
                 PROVE  (IF branch[m] > base[m] THEN branch[m] ELSE base[m]) \in Versions
      BY <1>14 DEF Merge
    <3> QED BY Numbers DEF Data, Content, Versions, None
  <2>2. NoEdits \in Content
    BY DEF NoEdits, Content, None
  <2> QED BY <1>14, <2>1, <2>2 DEF Merge, Data, files
<1>15. ASSUME NEW c \in Caches, LoseCache(c) PROVE Data'
  BY <1>15 DEF LoseCache, Data, project
<1>16. CASE Tick
  BY <1>16, PassesTyped DEF Tick, Data, project
<1>17. CASE UNCHANGED vars
  BY <1>17 DEF vars, Data, project, files
<1> QED
  BY <1>1, <1>2, <1>3, <1>4, <1>5, <1>6, <1>7, <1>8, <1>9, <1>10, <1>11, <1>12, <1>13,
     <1>14, <1>15, <1>16, <1>17 DEF Next, JobStep

LEMMA InitTyped == Init => TypeOK
<1> SUFFICES ASSUME Init PROVE TypeOK
  OBVIOUS
<1>1. Flags
  BY DEF Init, Flags
<1>2. 1 \in Versions /\ NoEdits \in Content /\ LongAgo \in Age
  BY Numbers, LongAgoIsLate DEF Versions, NoEdits, Content, None, Age
<1>3. Data
  BY <1>2, IdleTyped, Numbers DEF Init, Data, Pcs
<1> QED BY <1>1, <1>3, TypeParts

\* Every variable keeps its type: what the runs, the registries and GitLab
\* do leaves every record, answer and age within its bounds.
THEOREM TypeCorrect == Spec => []TypeOK
<1>1. TypeOK /\ [Next]_vars => TypeOK'
  <2> SUFFICES ASSUME TypeOK, [Next]_vars PROVE TypeOK'
    OBVIOUS
  <2>1. Flags' /\ Data'
    BY TypeParts, FlagsTyped, DataTyped
  <2> QED BY <2>1 DEF TypeOK, Flags, Data, Entry, Pcs, Job, Content, Versions, Age
<1> QED BY InitTyped, <1>1, PTL DEF Spec

-----------------------------------------------------------------------------
(* What a round of lookups does.                                           *)

LEMMA LookupEffect ==
    ASSUME Data, NEW j \in Jobs, NEW clone \in Content, NEW asked, NEW bypass, NEW down,
           Lookup(j, clone, asked, bypass, down)
    PROVE  /\ \A c \in Caches : c # CacheOf[j] => cache'[c] = cache[c]
           /\ \A m \in Members :
                cache'[CacheOf[j]][m] = IF m \in asked \ down /\ ~FromCache(j, m, bypass)
                                        THEN [version |-> released[m], age |-> job[j].now]
                                        ELSE Cached(j, m)
           /\ \A i \in Jobs : i # j => job'[i] = job[i]
           /\ job'[j].spec = job[j].spec /\ job'[j].now = job[j].now /\ job'[j].base = clone
           /\ \A m \in Members :
                job'[j].answers[m] = IF m \in asked THEN Answer(j, m, bypass, down) ELSE None
<1> DEFINE answers == [m \in Members |-> IF m \in asked THEN Answer(j, m, bypass, down) ELSE None]
           entries == [m \in Members |-> IF m \in asked \ down /\ ~FromCache(j, m, bypass)
                                         THEN [version |-> released[m], age |-> job[j].now]
                                         ELSE Cached(j, m)]
<1>1. CacheOf[j] \in Caches
  BY EveryJobHasACache
<1>2. job' = [job EXCEPT ![j] = [job[j] EXCEPT !.answers = answers, !.base = clone]]
  BY DEF Lookup, Data
<1>3. cache' = [cache EXCEPT ![CacheOf[j]] = entries]
  BY DEF Lookup
<1>4. \A m \in Members :
        /\ answers[m] = IF m \in asked THEN Answer(j, m, bypass, down) ELSE None
        /\ entries[m] = IF m \in asked \ down /\ ~FromCache(j, m, bypass)
                        THEN [version |-> released[m], age |-> job[j].now] ELSE Cached(j, m)
  OBVIOUS
<1> HIDE DEF answers, entries
<1>5. /\ \A c \in Caches : c # CacheOf[j] => cache'[c] = cache[c]
      /\ cache'[CacheOf[j]] = entries
  BY <1>1, <1>3 DEF Data
<1>6. job[j] \in Job
  BY DEF Data
<1>7. /\ \A i \in Jobs : i # j => job'[i] = job[i]
      /\ job'[j] = [job[j] EXCEPT !.answers = answers, !.base = clone]
  BY <1>2 DEF Data
<1>8. /\ job'[j].spec = job[j].spec /\ job'[j].now = job[j].now
      /\ job'[j].base = clone /\ job'[j].answers = answers
  BY <1>6, <1>7 DEF Job
<1> QED BY <1>4, <1>5, <1>7, <1>8

\* What a step of time does to the cache: the same answers, older.
LEMMA PassesEffect ==
    ASSUME Data, Passes, NEW c \in Caches, NEW m \in Members
    PROVE  /\ cache'[c][m] = NoAnswer <=> cache[c][m] = NoAnswer
           /\ cache[c][m] # NoAnswer =>
                /\ cache[c][m] \in Entry
                /\ cache'[c][m].version = cache[c][m].version
                /\ cache'[c][m].age = Older(cache[c][m].age)
<1>1. cache[c][m] \in Entry \cup {NoAnswer}
  BY DEF Data
<1>2. cache'[c][m] = IF cache[c][m] = NoAnswer THEN NoAnswer
                     ELSE [cache[c][m] EXCEPT !.age = Older(@)]
  BY DEF Passes
<1>3. ASSUME cache[c][m] # NoAnswer
      PROVE  /\ [cache[c][m] EXCEPT !.age = Older(@)] \in Entry
             /\ [cache[c][m] EXCEPT !.age = Older(@)].version = cache[c][m].version
             /\ [cache[c][m] EXCEPT !.age = Older(@)].age = Older(cache[c][m].age)
  <2>1. cache[c][m] \in Entry
    BY <1>1, <1>3
  <2>2. Older(cache[c][m].age) \in Age
    BY <2>1, OlderTyped DEF Entry
  <2> QED BY <2>1, <2>2 DEF Entry
<1> QED BY <1>1, <1>2, <1>3, NoAnswerIsNoEntry

\* And to a process: the same record, but the time it noted is longer ago.
LEMMA AgedEffect ==
    ASSUME Data, NEW j \in Jobs
    PROVE  /\ Aged(j).spec = job[j].spec /\ Aged(j).base = job[j].base
           /\ Aged(j).answers = job[j].answers
           /\ pc[j] # "idle" => Aged(j).now = Older(job[j].now)
<1>1. job[j] \in Job
  BY DEF Data
<1> QED BY <1>1 DEF Aged, Job

-----------------------------------------------------------------------------
(* A fast lane sees its release.                                           *)

\* No process is older than the bound, so no age of one is cut off.
Young == \A j \in Jobs : pc[j] # "idle" => job[j].now <= MaxRun

\* What the lane was triggered for is out.
Out(j) == job[j].spec[2] <= released[Released(j)]

\* What was stored since it noted the time is no older than that.
Told(j) ==
    \A c \in Caches :
        cache[c][Released(j)] # NoAnswer /\ cache[c][Released(j)].age <= job[j].now
            => cache[c][Released(j)].version >= job[j].spec[2]

Asking(j) == pc[j] \in {"waiting", "open"}

SeenInv == Young /\ \A j \in Lanes : Asking(j) => Out(j) /\ Told(j)

\* A step of one process, or of nobody, that leaves the cache alone and brings
\* no process to ask anew.
LEMMA SeenFrame ==
    ASSUME Data, SeenInv, cache' = cache, released' = released,
           \A j \in Jobs : /\ pc'[j] # "idle" => pc[j] # "idle" /\ job'[j].now = job[j].now
                           /\ Asking(j)' => Asking(j) /\ job'[j] = job[j]
    PROVE  SeenInv'
<1>1. Young'
  BY DEF SeenInv, Young
<1>2. ASSUME NEW j \in Lanes, Asking(j)' PROVE Out(j)' /\ Told(j)'
  <2>1. j \in Jobs /\ Asking(j) /\ job'[j] = job[j]
    BY <1>2 DEF Jobs
  <2>2. Out(j) /\ Told(j)
    BY <2>1 DEF SeenInv
  <2> QED BY <2>1, <2>2 DEF Out, Told, Released
<1> QED BY <1>1, <1>2 DEF SeenInv

\* A round of lookups stores what is out now.
LEMMA SeenLookup ==
    ASSUME Data, SeenInv, released' = released,
           NEW j \in Jobs, NEW clone \in Content, NEW asked, NEW bypass, NEW down,
           Lookup(j, clone, asked, bypass, down), pc[j] # "idle", ~Asking(j)',
           \A i \in Jobs : i # j => pc'[i] = pc[i]
    PROVE  SeenInv'
<1>1. Young'
  <2> SUFFICES ASSUME NEW i \in Jobs, pc'[i] # "idle" PROVE job'[i].now <= MaxRun
    BY DEF Young
  <2>1. job'[i].now = job[i].now
    BY LookupEffect
  <2> QED BY <2>1 DEF SeenInv, Young
<1>2. ASSUME NEW i \in Lanes, Asking(i)' PROVE Out(i)' /\ Told(i)'
  <2>1. i \in Jobs /\ i # j /\ Asking(i)
    BY <1>2 DEF Jobs, Asking
  <2>2. job'[i] = job[i] /\ Out(i) /\ Told(i)
    BY <2>1, LookupEffect DEF SeenInv
  <2>3. Out(i)'
    BY <2>2 DEF Out, Released
  <2>4. Released(i) \in Members /\ job[i].spec[2] \in 0..MaxVersion
    BY <2>1, TriggerTyped DEF Released, Data, Job
  <2>5. ASSUME NEW c \in Caches,
               cache'[c][Released(i)] # NoAnswer, cache'[c][Released(i)].age <= job[i].now
        PROVE  cache'[c][Released(i)].version >= job[i].spec[2]
    <3>1. CASE cache'[c][Released(i)] = cache[c][Released(i)]
      BY <2>2, <2>5, <3>1 DEF Told
    <3>2. CASE cache'[c][Released(i)] = [version |-> released[Released(i)], age |-> job[j].now]
      <4>1. released[Released(i)] \in Versions
        BY <2>4 DEF Data
      <4>2. cache'[c][Released(i)].version = released[Released(i)]
        BY <3>2
      <4> QED BY <2>2, <2>4, <4>1, <4>2 DEF Out, Versions
    <3> QED BY <2>4, <3>1, <3>2, LookupEffect DEF Cached
  <2>6. Released(i)' = Released(i)
    BY <2>2 DEF Released
  <2>7. Told(i)'
    BY <2>2, <2>5, <2>6 DEF Told
  <2> QED BY <2>3, <2>7
<1> QED BY <1>1, <1>2 DEF SeenInv

\* Time keeps the order of what happened.
LEMMA SeenPasses ==
    ASSUME Data, SeenInv, Passes, NEW j \in Lanes, Asking(j), released' = released,
           job'[j] = Aged(j)
    PROVE  Out(j)' /\ Told(j)'
<1>1. j \in Jobs /\ pc[j] # "idle"
  BY DEF Jobs, Asking
<1>2. /\ job'[j].spec = job[j].spec /\ job'[j].now = Older(job[j].now)
      /\ Released(j)' = Released(j)
  BY <1>1, AgedEffect DEF Released
<1>3. Out(j) /\ Told(j) /\ Released(j) \in Members /\ job[j].now \in Age
  BY <1>1, TriggerTyped DEF SeenInv, Released, Data, Job
<1>4. job[j].now < MaxRun
  BY <1>1 DEF Passes
<1>5. Out(j)'
  BY <1>2, <1>3 DEF Out
<1>6. ASSUME NEW c \in Caches,
             cache'[c][Released(j)] # NoAnswer, cache'[c][Released(j)].age <= Older(job[j].now)
      PROVE  cache'[c][Released(j)].version >= job[j].spec[2]
  <2>1. /\ cache[c][Released(j)] # NoAnswer
        /\ cache[c][Released(j)] \in Entry
        /\ cache'[c][Released(j)].version = cache[c][Released(j)].version
        /\ cache'[c][Released(j)].age = Older(cache[c][Released(j)].age)
    BY <1>3, <1>6, PassesEffect
  <2>2. cache[c][Released(j)].age \in Age
    BY <2>1 DEF Entry
  <2>3. cache[c][Released(j)].age <= job[j].now
    BY <1>3, <1>4, <1>6, <2>1, <2>2, LongAgoIsLate DEF Older, Age
  <2> QED BY <1>3, <2>1, <2>3 DEF Told
<1>7. Told(j)'
  BY <1>2, <1>6 DEF Told
<1> QED BY <1>5, <1>7

\* No process passes the bound.
LEMMA YoungPasses ==
    ASSUME Data, SeenInv, Passes, NEW j \in Jobs, pc[j] # "idle"
    PROVE  Aged(j).now <= MaxRun
<1>1. job[j].now \in Age /\ job[j].now < MaxRun
  BY DEF Data, Job, Passes
<1>2. Aged(j).now = Older(job[j].now)
  BY AgedEffect
<1> QED BY <1>1, <1>2, LongAgoIsLate DEF Older, Age

LEMMA SeenStep == ASSUME Data, SeenInv, [Next]_vars PROVE SeenInv'
<1> USE DEF Asking
<1>1. ASSUME NEW j \in Jobs, Start(j) PROVE SeenInv'
  <2>1. PICK s \in Triggers :
          /\ Narrowed(j) => s[2] <= released[s[1]]
          /\ job' = [i \in Jobs |-> IF i = j THEN [Idle EXCEPT !.spec = s] ELSE Aged(i)]
    BY <1>1 DEF Start
  <2>2. /\ Passes /\ released' = released
        /\ pc[j] = "idle" /\ pc'[j] = "waiting"
        /\ \A i \in Jobs : i # j => pc'[i] = pc[i]
    BY <1>1 DEF Start, Goto, Data
  <2>3. job'[j].spec = s /\ job'[j].now = 0
    BY <2>1, IdleTyped DEF Job
  <2>4. Young'
    <3>1. job'[j].now <= MaxRun
      BY <2>3, LongAgoIsLate
    <3>2. ASSUME NEW i \in Jobs, i # j, pc'[i] # "idle" PROVE job'[i].now <= MaxRun
      <4>1. pc[i] # "idle" /\ job'[i] = Aged(i)
        BY <2>1, <2>2, <3>2
      <4> QED BY <2>2, <4>1, YoungPasses
    <3> QED BY <3>1, <3>2 DEF Young
  <2>5. ASSUME NEW i \in Lanes, Asking(i)' PROVE Out(i)' /\ Told(i)'
    <3>1. CASE i = j
      <4>1. Out(i)'
        BY <2>1, <2>2, <2>3, <3>1 DEF Out, Released, Narrowed
      <4>2. Released(i)' \in Members
        BY <2>3, <3>1, TriggerTyped DEF Released
      <4>3. ASSUME NEW c \in Caches, cache'[c][Released(i)'] # NoAnswer
            PROVE  ~(cache'[c][Released(i)'].age <= 0)
        <5>1. /\ cache[c][Released(i)'] \in Entry
              /\ cache'[c][Released(i)'].age = Older(cache[c][Released(i)'].age)
          BY <2>2, <4>2, <4>3, PassesEffect
        <5>2. cache[c][Released(i)'].age \in Age
          BY <5>1 DEF Entry
        <5> QED BY <5>1, <5>2, LongAgoIsLate DEF Older, Age
      <4>4. Told(i)'
        BY <2>3, <3>1, <4>3 DEF Told
      <4> QED BY <4>1, <4>4
    <3>2. CASE i # j
      <4>1. i \in Jobs /\ Asking(i) /\ job'[i] = Aged(i)
        BY <2>1, <2>2, <2>5, <3>2 DEF Jobs
      <4> QED BY <2>2, <4>1, SeenPasses
    <3> QED BY <3>1, <3>2
  <2> QED BY <2>4, <2>5 DEF SeenInv
<1>2. CASE Tick
  <2>1. Passes /\ released' = released /\ pc' = pc
    BY <1>2 DEF Tick
  <2>2. \A j \in Jobs : job'[j] = Aged(j)
    BY <1>2 DEF Tick
  <2>3. Young'
    BY <2>1, <2>2, YoungPasses DEF Young
  <2>4. ASSUME NEW j \in Lanes, Asking(j)' PROVE Out(j)' /\ Told(j)'
    <3>1. j \in Jobs /\ Asking(j)
      BY <2>1, <2>4 DEF Jobs
    <3> QED BY <2>1, <2>2, <3>1, SeenPasses
  <2> QED BY <2>3, <2>4 DEF SeenInv
<1>3. ASSUME NEW j \in Jobs, OpenCache(j) \/ ListOpen(j) PROVE SeenInv'
  BY <1>3, SeenFrame DEF OpenCache, ListOpen, Goto, Data, files
<1>4. ASSUME NEW j \in Jobs, Hold(j) \/ Prune(j) PROVE SeenInv'
  <2>1. job' = [job EXCEPT ![j].done = TRUE]
    BY <1>4 DEF Hold, Prune
  <2>2. \A i \in Jobs : job'[i].now = job[i].now /\ (i # j => job'[i] = job[i])
    BY <2>1 DEF Data, Job
  <2> QED BY <1>4, <2>2, SeenFrame DEF Hold, Prune, Goto, Data, files
<1>5. ASSUME NEW j \in Jobs, Push(j) PROVE SeenInv'
  BY <1>5, SeenFrame DEF Push, Goto, Data, files
<1>6. ASSUME NEW j \in Jobs, Publish(j) PROVE SeenInv'
  <2>1. job' = [job EXCEPT ![j].done = TRUE] \/ job' = job
    BY <1>6 DEF Publish
  <2>2. \A i \in Jobs : job'[i].now = job[i].now /\ (i # j => job'[i] = job[i])
    BY <2>1 DEF Data, Job
  <2> QED BY <1>6, <2>2, SeenFrame DEF Publish, Goto, Data, files
<1>7. ASSUME NEW j \in Jobs, Skip(j) \/ Leave(j) \/ Crash(j) PROVE SeenInv'
  BY <1>7, SeenFrame DEF Skip, Leave, Crash, Goto, Data, files
<1>8. ASSUME NEW j \in Jobs, Plan(j) PROVE SeenInv'
  <2> DEFINE asked == IF Narrowed(j) THEN {Released(j)} ELSE Members
             bypass == IF Narrowed(j) THEN {Released(j)} ELSE {}
  <2>1. PICK down : Lookup(j, base, asked, bypass, down)
    BY <1>8 DEF Plan
  <2>2. base \in Content
    BY DEF Data, Content
  <2> HIDE DEF asked, bypass
  <2>3. /\ released' = released /\ pc[j] # "idle" /\ ~Asking(j)'
        /\ \A i \in Jobs : i # j => pc'[i] = pc[i]
    BY <1>8 DEF Plan, Goto, Data
  <2> QED BY <2>1, <2>2, <2>3, SeenLookup
<1>9. ASSUME NEW j \in Jobs, Widen(j) PROVE SeenInv'
  <2>1. /\ released' = released /\ pc[j] # "idle" /\ ~Asking(j)'
        /\ \A i \in Jobs : i # j => pc'[i] = pc[i]
    BY <1>9 DEF Widen, Data
  <2>2. CASE Planned(j) = NoEdits
    <3>1. cache' = cache /\ job' = job
      BY <1>9, <2>2 DEF Widen
    <3> QED BY <2>1, <3>1, SeenFrame
  <2>3. CASE Planned(j) # NoEdits
    <3>1. PICK down : Lookup(j, job[j].base, Members, {}, down)
      BY <1>9, <2>3 DEF Widen
    <3>2. job[j].base \in Content
      BY DEF Data, Job
    <3> QED BY <2>1, <3>1, <3>2, SeenLookup
  <2> QED BY <2>2, <2>3
<1>10. ASSUME NEW m \in Members, Release(m) PROVE SeenInv'
  <2>1. /\ cache' = cache /\ pc' = pc /\ job' = job
        /\ released' = [released EXCEPT ![m] = @ + 1]
    BY <1>10 DEF Release, files
  <2>2. ASSUME NEW j \in Lanes, Asking(j) PROVE Out(j)'
    <3>1. Released(j) \in Members /\ job[j].spec[2] \in 0..MaxVersion
      BY TriggerTyped DEF Released, Data, Job, Jobs
    <3>2. Out(j)
      BY <2>2 DEF SeenInv
    <3> QED BY <2>1, <3>1, <3>2, Numbers DEF Out, Released, Data, Versions
  <2> QED BY <2>1, <2>2 DEF SeenInv, Young, Told, Released
<1>11. CASE Merge
  BY <1>11, SeenFrame DEF Merge, files
<1>12. ASSUME NEW c \in Caches, LoseCache(c) PROVE SeenInv'
  <2>1. /\ cache' = [cache EXCEPT ![c] = [m \in Members |-> NoAnswer]]
        /\ released' = released /\ pc' = pc /\ job' = job
    BY <1>12 DEF LoseCache
  <2>2. ASSUME NEW j \in Lanes, Asking(j) PROVE Told(j)'
    <3>1. Released(j) \in Members /\ Told(j)
      BY <2>2, TriggerTyped DEF Released, Data, Job, Jobs, SeenInv
    <3> QED BY <2>1, <3>1 DEF Told, Released, Data
  <2> QED BY <2>1, <2>2 DEF SeenInv, Young, Out, Released
<1>13. CASE UNCHANGED vars
  BY <1>13, SeenFrame DEF vars, files
<1> QED
  BY <1>1, <1>2, <1>3, <1>4, <1>5, <1>6, <1>7, <1>8, <1>9, <1>10, <1>11, <1>12, <1>13
     DEF Next, JobStep

\* The first plan of a narrowed run.
LEMMA PlanSees ==
    ASSUME Data, SeenInv, NEW j \in Lanes, Plan(j)
    PROVE  job'[j].answers[Released(j)] \in {None} \cup {v \in Versions : v >= job[j].spec[2]}
<1> DEFINE p == Released(j)
<1>1. j \in Jobs /\ Narrowed(j) /\ Asking(j)
  BY DEF Jobs, Narrowed, Asking, Plan, Goto
<1>2. p \in Members /\ job[j].spec[2] \in 0..MaxVersion
  BY <1>1, TriggerTyped DEF Released, Data, Job
<1>3. PICK down : Lookup(j, base, {p}, {p}, down)
  BY <1>1 DEF Plan
<1>4. base \in Content
  BY DEF Data, Content
<1>5. job'[j].answers[p] = Answer(j, p, {p}, down)
  BY <1>1, <1>2, <1>3, <1>4, LookupEffect
<1>6. Out(j) /\ Told(j)
  BY <1>1 DEF SeenInv
<1>7. released[p] \in Versions /\ released[p] >= job[j].spec[2]
  BY <1>2, <1>6, Numbers DEF Out, Data, Versions
<1>8. Usable(j, p, {p}) => Cached(j, p).version \in Versions /\ Cached(j, p).version >= job[j].spec[2]
  <2>1. Usable(j, p, {p}) => Cached(j, p) \in Entry
    BY <1>1, <1>2, AnswerTyped
  <2>2. Usable(j, p, {p}) => Cached(j, p).version >= job[j].spec[2]
    BY <1>1, <1>6, EveryJobHasACache DEF Told, Usable, Cached
  <2> QED BY <2>1, <2>2 DEF Entry
<1> QED BY <1>5, <1>7, <1>8 DEF Answer, FromCache

\* A fast lane sees the release it was started for, or is told that the
\* registry failed (the bypass of Fetcher.one), however long it waited for the
\* cache and whatever other processes stored meanwhile.
THEOREM FastLaneSeesItsRelease == Spec => ReleaseIsSeen
<1>1. Init => SeenInv
  BY DEF Init, SeenInv, Young, Asking, Jobs
<1>2. TypeOK /\ SeenInv /\ [Next]_vars => SeenInv'
  BY TypeParts, SeenStep
<1>3. TypeOK /\ SeenInv /\ [Next]_vars =>
        [\A j \in Lanes : Plan(j) => job'[j].answers[Released(j)] \in
           {None} \cup {v \in Versions : v >= job[j].spec[2]}]_vars
  BY TypeParts, PlanSees
<1> QED BY TypeCorrect, <1>1, <1>2, <1>3, PTL DEF Spec, ReleaseIsSeen

-----------------------------------------------------------------------------
(* With one cache file, no member of an open request is left behind.       *)

\* All processes open the same cache.
OneCache == \A i, j \in Jobs : CacheOf[i] = CacheOf[j]

Active(j) == pc[j] \notin {"idle", "waiting"}

\* Whoever is past cache.Open has the file.
LockHeld == \A j \in Jobs : Active(j) => lock[CacheOf[j]] = j

\* No branch and no answer is ahead of the registries, and no answer is behind
\* the branch: what a run wrote, it had looked up and stored.
CacheIsAhead ==
    \A m \in Members :
        /\ branch[m] <= released[m]
        /\ \A j \in Jobs : Cached(j, m) # NoAnswer =>
             branch[m] <= Cached(j, m).version /\ Cached(j, m).version <= released[m]

\* Until the cache is lost, it has an answer for every member of the branch.
CacheIsWhole ==
    ~lost => \A m \in Members : \A j \in Jobs : branch[m] # None => Cached(j, m) # NoAnswer

\* What a process goes by is in the cache.
Answered(j) == pc[j] \in {"planned", "widening", "held", "writing", "pushed"}
AnswersAreCached ==
    \A j \in Jobs : \A m \in Members : Answered(j) /\ job[j].answers[m] # None
        => Cached(j, m) # NoAnswer /\ job[j].answers[m] <= Cached(j, m).version

\* The default branch only moves on.
ClonesAreOld == \A j \in Jobs : \A m \in Members : job[j].base[m] <= base[m]

\* Only a narrowed run asks for the open requests, and it knows one package
\* until it widens.
Narrow(j) == pc[j] \in {"planned", "widening"}
OneAnswer ==
    \A j \in Jobs : Narrow(j) =>
        Narrowed(j) /\ \A m \in Members : job[j].answers[m] # None => m = Released(j)

\* The plan of j brings every member as far as the branch does, or has nothing
\* for the branch, which a narrowed run then leaves.
Covers(j) ==
    \/ Narrowed(j) /\ Planned(j) = NoEdits
    \/ \A m \in Members : branch[m] <= job[j].answers[m]

WritesCover ==
    \A j \in Jobs : pc[j] = "writing" /\ request /\ (Narrowed(j) \/ ~lost) => Covers(j)

GroupInv ==
    /\ LockHeld /\ CacheIsAhead /\ CacheIsWhole
    /\ AnswersAreCached /\ ClonesAreOld /\ OneAnswer /\ WritesCover

\* The file lets one process in at a time.
LEMMA OneActive ==
    ASSUME OneCache, LockHeld, NEW i \in Jobs, NEW j \in Jobs, Active(i), Active(j) PROVE i = j
BY DEF OneCache, LockHeld

\* The lock passes from one process to the next.
LEMMA LockStep ==
    ASSUME Data, OneCache, LockHeld, [Next]_vars PROVE LockHeld'
<1> USE DEF LockHeld, Active
<1>1. ASSUME NEW j \in Jobs, Start(j) \/ Skip(j) \/ Plan(j) \/ ListOpen(j) \/ Hold(j) PROVE LockHeld'
  BY <1>1 DEF Start, Skip, Plan, ListOpen, Hold, Goto, Data
<1>2. ASSUME NEW j \in Jobs, Widen(j) \/ Push(j) \/ Publish(j) \/ Prune(j) PROVE LockHeld'
  BY <1>2 DEF Widen, Push, Publish, Prune, Goto, Data
<1>3. ASSUME NEW j \in Jobs, OpenCache(j) PROVE LockHeld'
  <2>1. lock[CacheOf[j]] = Free /\ lock' = [lock EXCEPT ![CacheOf[j]] = j] /\ CacheOf[j] \in Caches
    BY <1>3, EveryJobHasACache DEF OpenCache
  <2>2. \A i \in Jobs : i # j => ~Active(i) /\ pc'[i] = pc[i]
    BY <1>3, <2>1, FreeIsNoJob DEF OpenCache, Goto, Data, OneCache
  <2> QED BY <2>1, <2>2 DEF Data
<1>4. ASSUME NEW j \in Jobs, Leave(j) \/ Crash(j) PROVE LockHeld'
  <2>1. Active(j) /\ ~Active(j)' /\ \A i \in Jobs : i # j => pc'[i] = pc[i]
    BY <1>4 DEF Leave, Crash, Goto, Data
  <2>2. \A i \in Jobs : i # j => ~Active(i)
    BY <2>1, OneActive
  <2> QED BY <2>1, <2>2
<1>5. ASSUME NEW m \in Members, Release(m) PROVE LockHeld'
  BY <1>5 DEF Release
<1>6. ASSUME NEW c \in Caches, LoseCache(c) PROVE LockHeld'
  BY <1>6 DEF LoseCache
<1>7. CASE Merge \/ Tick \/ UNCHANGED vars
  BY <1>7 DEF Merge, Tick, vars
<1> QED BY <1>1, <1>2, <1>3, <1>4, <1>5, <1>6, <1>7 DEF Next, JobStep

\* The cache's answers are those of before, perhaps older.
SameAnswers ==
    \A j \in Jobs : \A m \in Members :
        /\ Cached(j, m)' = NoAnswer <=> Cached(j, m) = NoAnswer
        /\ Cached(j, m) # NoAnswer => Cached(j, m)'.version = Cached(j, m).version

LEMMA PassesSameAnswers == ASSUME Data, Passes PROVE SameAnswers
BY PassesEffect, EveryJobHasACache DEF SameAnswers, Cached

\* A step that leaves the project and the answers alone and brings no process
\* to write into an open request.
LEMMA GroupFrame ==
    ASSUME Data, GroupInv, LockHeld', SameAnswers,
           branch' = branch, base' = base, released' = released, lost' = lost,
           \A j \in Jobs :
             /\ job'[j].base = job[j].base \/ job'[j].base = NoEdits
             /\ Answered(j)' => Answered(j) /\ job'[j].answers = job[j].answers
             /\ Narrow(j)' => Narrow(j) /\ job'[j].answers = job[j].answers
                                        /\ job'[j].spec = job[j].spec
             /\ pc'[j] = "writing" /\ request' =>
                  /\ pc[j] = "writing" /\ request
                  /\ job'[j].answers = job[j].answers /\ job'[j].base = job[j].base
    PROVE  GroupInv'
<1>1. CacheIsAhead'
  BY DEF GroupInv, CacheIsAhead, SameAnswers
<1>2. CacheIsWhole'
  BY DEF GroupInv, CacheIsWhole, SameAnswers
<1>3. AnswersAreCached'
  <2> SUFFICES ASSUME NEW j \in Jobs, NEW m \in Members, Answered(j)', job'[j].answers[m] # None
               PROVE  Cached(j, m)' # NoAnswer /\ job'[j].answers[m] <= Cached(j, m)'.version
    BY DEF AnswersAreCached
  <2>1. Answered(j) /\ job'[j].answers = job[j].answers
    OBVIOUS
  <2>2. Cached(j, m) # NoAnswer /\ job[j].answers[m] <= Cached(j, m).version
    BY <2>1 DEF GroupInv, AnswersAreCached
  <2> QED BY <2>1, <2>2 DEF SameAnswers
<1>4. ClonesAreOld'
  <2> SUFFICES ASSUME NEW j \in Jobs, NEW m \in Members PROVE job'[j].base[m] <= base[m]
    BY DEF ClonesAreOld
  <2>1. CASE job'[j].base = job[j].base
    BY <2>1 DEF GroupInv, ClonesAreOld
  <2>2. CASE job'[j].base = NoEdits
    <3>1. base[m] \in Versions
      BY DEF Data
    <3> QED BY <2>2, <3>1 DEF NoEdits, None, Versions
  <2> QED BY <2>1, <2>2
<1>5. OneAnswer'
  <2> SUFFICES ASSUME NEW j \in Jobs, Narrow(j)'
               PROVE  Narrowed(j) /\ \A m \in Members : job'[j].answers[m] # None => m = Released(j)'
    BY DEF OneAnswer, Narrowed
  <2>1. Narrow(j) /\ job'[j].answers = job[j].answers /\ Released(j)' = Released(j)
    BY DEF Released
  <2> QED BY <2>1 DEF GroupInv, OneAnswer
<1>6. WritesCover'
  <2> SUFFICES ASSUME NEW j \in Jobs, pc'[j] = "writing", request', Narrowed(j) \/ ~lost
               PROVE  Covers(j)'
    BY DEF WritesCover, Narrowed
  <2>1. /\ pc[j] = "writing" /\ request
        /\ job'[j].answers = job[j].answers /\ job'[j].base = job[j].base
    OBVIOUS
  <2>2. Covers(j)
    BY <2>1 DEF GroupInv, WritesCover
  <2> QED BY <2>1, <2>2 DEF Covers, Planned, Narrowed
<1> QED BY <1>1, <1>2, <1>3, <1>4, <1>5, <1>6 DEF GroupInv

\* The steps that leave the project alone.
LEMMA GroupMoves ==
    ASSUME Data, OneCache, GroupInv, LockHeld',
           \/ Tick \/ UNCHANGED vars
           \/ \E j \in Jobs : \/ Start(j) \/ OpenCache(j) \/ Skip(j) \/ ListOpen(j)
                              \/ Hold(j) \/ Publish(j) \/ Leave(j) \/ Crash(j)
    PROVE  GroupInv'
<1> USE DEF Answered, Narrow
<1>1. ASSUME cache' = cache PROVE SameAnswers
  BY <1>1 DEF SameAnswers, Cached
<1>2. ASSUME NEW j \in Jobs, Start(j) PROVE GroupInv'
  <2>1. PICK s \in Triggers :
          job' = [i \in Jobs |-> IF i = j THEN [Idle EXCEPT !.spec = s] ELSE Aged(i)]
    BY <1>2 DEF Start
  <2>2. job'[j].base = NoEdits
    BY <2>1, IdleTyped DEF Job
  <2>3. ASSUME NEW i \in Jobs, i # j
        PROVE  /\ pc'[i] = pc[i] /\ job'[i].base = job[i].base
               /\ job'[i].answers = job[i].answers /\ job'[i].spec = job[i].spec
    BY <1>2, <2>1, <2>3, AgedEffect DEF Start, Goto, Data
  <2>4. /\ branch' = branch /\ base' = base /\ released' = released /\ lost' = lost
        /\ request' = request /\ pc'[j] = "waiting"
    BY <1>2 DEF Start, Passes, Goto, Data, project
  <2>5. SameAnswers
    BY <1>2, PassesSameAnswers DEF Start
  <2> QED BY <2>2, <2>3, <2>4, <2>5, GroupFrame
<1>3. CASE Tick
  <2>1. ASSUME NEW i \in Jobs
        PROVE  /\ pc'[i] = pc[i] /\ job'[i].base = job[i].base
               /\ job'[i].answers = job[i].answers /\ job'[i].spec = job[i].spec
    BY <1>3, <2>1, AgedEffect DEF Tick
  <2>2. /\ branch' = branch /\ base' = base /\ released' = released /\ lost' = lost
        /\ request' = request
    BY <1>3 DEF Tick, Passes, project
  <2>3. SameAnswers
    BY <1>3, PassesSameAnswers DEF Tick
  <2> QED BY <2>1, <2>2, <2>3, GroupFrame
<1>4. CASE UNCHANGED vars
  BY <1>1, <1>4, GroupFrame DEF vars, project, files
<1>5. ASSUME NEW j \in Jobs, OpenCache(j) PROVE GroupInv'
  <2>1. \A i \in Jobs : pc'[i] = pc[i] \/ pc'[i] = "open"
    BY <1>5 DEF OpenCache, Goto, Data
  <2> QED BY <1>1, <1>5, <2>1, GroupFrame DEF OpenCache, project, files
<1>6. ASSUME NEW j \in Jobs, Skip(j) \/ Leave(j) \/ Crash(j) PROVE GroupInv'
  <2>1. pc'[j] = "idle" /\ \A i \in Jobs : i # j => pc'[i] = pc[i]
    BY <1>6 DEF Skip, Leave, Crash, Goto, Data
  <2>2. job'[j].base = NoEdits /\ \A i \in Jobs : i # j => job'[i] = job[i]
    BY <1>6, IdleTyped DEF Skip, Leave, Crash, Data
  <2>3. /\ cache' = cache /\ branch' = branch /\ base' = base /\ released' = released
        /\ lost' = lost /\ request' = request
    BY <1>6 DEF Skip, Leave, Crash, project, files
  <2> QED BY <1>1, <2>1, <2>2, <2>3, GroupFrame
<1>7. ASSUME NEW j \in Jobs, ListOpen(j) PROVE GroupInv'
  <2>1. /\ pc[j] = "planned" /\ \A i \in Jobs : i # j => pc'[i] = pc[i]
        /\ pc'[j] = "widening" \/ (pc'[j] = "writing" /\ ~request)
    BY <1>7 DEF ListOpen, Data
  <2>2. /\ cache' = cache /\ branch' = branch /\ base' = base /\ released' = released
        /\ lost' = lost /\ request' = request /\ job' = job
    BY <1>7 DEF ListOpen, project, files
  <2> QED BY <1>1, <2>1, <2>2, GroupFrame
<1>8. ASSUME NEW j \in Jobs, Hold(j) PROVE GroupInv'
  <2>1. pc'[j] = "leaving" /\ \A i \in Jobs : i # j => pc'[i] = pc[i]
    BY <1>8 DEF Hold, Goto, Data
  <2>2. job'[j].base = job[j].base /\ \A i \in Jobs : i # j => job'[i] = job[i]
    BY <1>8 DEF Hold, Data, Job
  <2>3. /\ cache' = cache /\ branch' = branch /\ base' = base /\ released' = released
        /\ lost' = lost /\ request' = request
    BY <1>8 DEF Hold, project, files
  <2> QED BY <1>1, <2>1, <2>2, <2>3, GroupFrame
<1>9. ASSUME NEW j \in Jobs, Publish(j) PROVE GroupInv'
  <2>1. pc'[j] = "leaving" /\ Active(j) /\ \A i \in Jobs : i # j => pc'[i] = pc[i]
    BY <1>9 DEF Publish, Goto, Data, Active
  <2>2. \A i \in Jobs : i # j => ~Active(i)
    BY <2>1, OneActive DEF GroupInv
  <2>3. \A i \in Jobs : pc'[i] # "writing"
    BY <2>1, <2>2 DEF Active
  <2>4. job'[j].base = job[j].base /\ \A i \in Jobs : i # j => job'[i] = job[i]
    BY <1>9 DEF Publish, Data, Job
  <2>5. /\ cache' = cache /\ branch' = branch /\ base' = base /\ released' = released
        /\ lost' = lost
    BY <1>9 DEF Publish, files
  <2> QED BY <1>1, <2>1, <2>3, <2>4, <2>5, GroupFrame
<1> QED BY <1>2, <1>3, <1>4, <1>5, <1>6, <1>7, <1>8, <1>9

\* What one round of lookups by j says of member m.
LEMMA LookupKnows ==
    ASSUME Data, CacheIsAhead, NEW j \in Jobs, NEW clone \in Content, NEW asked, NEW bypass,
           NEW down, Lookup(j, clone, asked, bypass, down), NEW m \in Members
    PROVE  /\ cache'[CacheOf[j]][m] # NoAnswer =>
                /\ branch[m] <= cache'[CacheOf[j]][m].version
                /\ cache'[CacheOf[j]][m].version <= released[m]
           /\ Cached(j, m) # NoAnswer => cache'[CacheOf[j]][m] # NoAnswer
           /\ job'[j].answers[m] # None =>
                /\ cache'[CacheOf[j]][m] # NoAnswer
                /\ job'[j].answers[m] <= cache'[CacheOf[j]][m].version
           /\ m \in asked /\ bypass = {} /\ (Cached(j, m) # NoAnswer \/ m \notin down) =>
                branch[m] <= job'[j].answers[m] /\ job'[j].answers[m] # None
<1> DEFINE stored == [version |-> released[m], age |-> job[j].now]
           entry == cache'[CacheOf[j]][m]
<1>1. /\ entry = IF m \in asked \ down /\ ~FromCache(j, m, bypass) THEN stored ELSE Cached(j, m)
      /\ job'[j].answers[m] = IF m \in asked THEN Answer(j, m, bypass, down) ELSE None
  BY LookupEffect
<1>2. released[m] \in Versions /\ job[j].now \in Age /\ branch[m] <= released[m]
  BY DEF Data, Job, CacheIsAhead
<1>3. stored \in Entry /\ stored # NoAnswer /\ stored.version = released[m]
  BY <1>2, NoAnswerIsNoEntry DEF Entry
<1>4. Cached(j, m) # NoAnswer =>
        /\ Cached(j, m).version \in Versions
        /\ branch[m] <= Cached(j, m).version /\ Cached(j, m).version <= released[m]
  BY AnswerTyped DEF CacheIsAhead, Entry
<1>5. FromCache(j, m, bypass) => Cached(j, m) # NoAnswer
  BY DEF FromCache, Usable
<1> HIDE DEF stored, entry
<1>6. CASE m \notin asked
  BY <1>1, <1>4, <1>6 DEF entry
<1>7. CASE m \in asked /\ FromCache(j, m, bypass)
  <2>1. entry = Cached(j, m) /\ job'[j].answers[m] = Cached(j, m).version
    BY <1>1, <1>7 DEF Answer
  <2> QED BY <1>4, <1>5, <1>7, <2>1 DEF Versions, None, entry
<1>8. CASE m \in asked /\ ~FromCache(j, m, bypass) /\ m \notin down
  <2>1. entry = stored /\ job'[j].answers[m] = released[m]
    BY <1>1, <1>8 DEF Answer
  <2> QED BY <1>2, <1>3, <2>1 DEF Versions, None, entry
<1>9. CASE m \in asked /\ ~FromCache(j, m, bypass) /\ m \in down
  <2>1. entry = Cached(j, m)
    BY <1>1, <1>9
  <2>2. job'[j].answers[m] = IF Usable(j, m, bypass) THEN Cached(j, m).version ELSE None
    BY <1>1, <1>9 DEF Answer
  <2>3. Usable(j, m, bypass) => Cached(j, m) # NoAnswer
    BY DEF Usable
  <2>4. bypass = {} /\ Cached(j, m) # NoAnswer => Usable(j, m, bypass)
    BY DEF Usable
  <2> QED BY <1>4, <1>9, <2>1, <2>2, <2>3, <2>4 DEF Versions, None, entry
<1> QED BY <1>6, <1>7, <1>8, <1>9 DEF entry

\* The parts of the invariant every round of lookups keeps.
LEMMA GroupLookup ==
    ASSUME Data, OneCache, GroupInv, LockHeld',
           NEW j \in Jobs, NEW clone \in Content, NEW asked, NEW bypass, NEW down,
           Lookup(j, clone, asked, bypass, down), Active(j),
           \A m \in Members : clone[m] <= base[m],
           \A i \in Jobs : i # j => pc'[i] = pc[i],
           branch' = branch, base' = base, released' = released, lost' = lost
    PROVE  /\ CacheIsAhead' /\ CacheIsWhole' /\ AnswersAreCached' /\ ClonesAreOld'
           /\ \A i \in Jobs : i # j => ~Active(i)
<1>1. \A i \in Jobs : i # j => ~Active(i)
  BY OneActive DEF GroupInv
<1>2. \A i \in Jobs, m \in Members :
        Cached(i, m)' = cache'[CacheOf[j]][m] /\ Cached(i, m) = Cached(j, m)
  BY DEF OneCache, Cached
<1>3. CacheIsAhead'
  BY <1>2, LookupKnows DEF GroupInv, CacheIsAhead
<1>4. CacheIsWhole'
  BY <1>2, LookupKnows DEF GroupInv, CacheIsWhole
<1>5. AnswersAreCached'
  <2> SUFFICES ASSUME NEW i \in Jobs, NEW m \in Members, Answered(i)', job'[i].answers[m] # None
               PROVE  Cached(i, m)' # NoAnswer /\ job'[i].answers[m] <= Cached(i, m)'.version
    BY DEF AnswersAreCached
  <2>1. i = j
    BY <1>1 DEF Answered, Active
  <2> QED BY <1>2, <2>1, LookupKnows DEF GroupInv
<1>6. ClonesAreOld'
  BY LookupEffect DEF GroupInv, ClonesAreOld
<1> QED BY <1>1, <1>3, <1>4, <1>5, <1>6

LEMMA GroupPlan ==
    ASSUME Data, OneCache, GroupInv, LockHeld', NEW j \in Jobs, Plan(j) PROVE GroupInv'
<1> DEFINE asked == IF Narrowed(j) THEN {Released(j)} ELSE Members
           bypass == IF Narrowed(j) THEN {Released(j)} ELSE {}
<1>1. PICK down : Lookup(j, base, asked, bypass, down)
  BY DEF Plan
<1>2. base \in Content /\ \A m \in Members : base[m] <= base[m]
  BY DEF Data, Content, Versions
<1>3. /\ Active(j) /\ pc'[j] = (IF Narrowed(j) THEN "planned" ELSE "writing")
      /\ \A i \in Jobs : i # j => pc'[i] = pc[i]
  BY DEF Plan, Goto, Data, Active
<1>4. /\ branch' = branch /\ base' = base /\ released' = released /\ lost' = lost
      /\ request' = request
  BY DEF Plan, project
<1>5. Narrowed(j) => asked = {Released(j)}
  OBVIOUS
<1>6. ~Narrowed(j) => asked = Members /\ bypass = {}
  OBVIOUS
<1> HIDE DEF asked, bypass
<1>7. /\ CacheIsAhead' /\ CacheIsWhole' /\ AnswersAreCached' /\ ClonesAreOld'
      /\ \A i \in Jobs : i # j => ~Active(i)
  BY <1>1, <1>2, <1>3, <1>4, GroupLookup
<1>8. OneAnswer'
  <2> SUFFICES ASSUME NEW i \in Jobs, Narrow(i)'
               PROVE  Narrowed(i) /\ \A m \in Members : job'[i].answers[m] # None => m = Released(i)'
    BY DEF OneAnswer, Narrowed
  <2>1. i = j /\ Narrowed(j)
    BY <1>3, <1>7 DEF Narrow, Active
  <2>2. Released(j)' = Released(j)
    BY <1>1, <1>2, LookupEffect DEF Released
  <2>3. \A m \in Members : job'[j].answers[m] # None => m = Released(j)
    BY <1>1, <1>2, <1>5, <2>1, LookupEffect
  <2> QED BY <2>1, <2>2, <2>3
<1>9. WritesCover'
  <2> SUFFICES ASSUME NEW i \in Jobs, pc'[i] = "writing", request, Narrowed(i) \/ ~lost
               PROVE  \A m \in Members : branch[m] <= job'[i].answers[m]
    BY <1>4 DEF WritesCover, Covers, Narrowed
  <2>1. i = j /\ ~Narrowed(j) /\ ~lost
    BY <1>3, <1>7 DEF Active
  <2>2. ASSUME NEW m \in Members PROVE branch[m] <= job'[j].answers[m]
    <3>1. CASE branch[m] = None
      <4>1. job'[j].answers[m] \in Versions \cup {None}
        BY <1>1, <1>2, LookupEffect, AnswerTyped
      <4> QED BY <3>1, <4>1 DEF None, Versions
    <3>2. CASE branch[m] # None
      <4>1. Cached(j, m) # NoAnswer
        BY <2>1, <3>2 DEF GroupInv, CacheIsWhole
      <4> QED BY <1>1, <1>2, <1>6, <2>1, <4>1, LookupKnows DEF GroupInv
    <3> QED BY <3>1, <3>2
  <2> QED BY <2>1, <2>2
<1> QED BY <1>7, <1>8, <1>9 DEF GroupInv

LEMMA GroupWiden ==
    ASSUME Data, OneCache, GroupInv, LockHeld', NEW j \in Jobs, Widen(j) PROVE GroupInv'
<1>1. /\ Active(j) /\ Narrow(j) /\ Answered(j)
      /\ \A i \in Jobs : i # j => pc'[i] = pc[i]
      /\ pc'[j] \in {"writing", "held"}
  BY DEF Widen, Data, Active, Narrow, Answered
<1>2. /\ branch' = branch /\ base' = base /\ released' = released /\ lost' = lost
      /\ request' = request
  BY DEF Widen, project
<1>3. Narrowed(j) /\ \A m \in Members : job[j].answers[m] # None => m = Released(j)
  BY <1>1 DEF GroupInv, OneAnswer
<1>4. \A i \in Jobs : i # j => ~Active(i)
  BY <1>1, OneActive DEF GroupInv
<1>5. \A i \in Jobs : ~Narrow(i)'
  BY <1>1, <1>4 DEF Narrow, Active
<1>6. OneAnswer'
  BY <1>5 DEF OneAnswer
<1>7. CASE Planned(j) = NoEdits
  <2>1. cache' = cache /\ job' = job
    BY <1>7 DEF Widen
  <2>2. CacheIsAhead' /\ CacheIsWhole' /\ ClonesAreOld'
    BY <1>2, <2>1 DEF GroupInv, CacheIsAhead, CacheIsWhole, ClonesAreOld, Cached
  <2>3. AnswersAreCached'
    <3>1. \A i \in Jobs : Answered(i)' => Answered(i)
      BY <1>1, <1>4 DEF Answered, Active
    <3> QED BY <2>1, <3>1 DEF GroupInv, AnswersAreCached, Cached
  <2>4. WritesCover'
    <3> SUFFICES ASSUME NEW i \in Jobs, pc'[i] = "writing" PROVE Covers(i)'
      BY DEF WritesCover
    <3>1. i = j
      BY <1>1, <1>4 DEF Active
    <3> QED BY <1>3, <1>7, <2>1, <3>1 DEF Covers, Planned, Narrowed
  <2> QED BY <1>6, <2>2, <2>3, <2>4 DEF GroupInv
<1>8. CASE Planned(j) # NoEdits
  <2>1. PICK down \in (SUBSET Members) :
          /\ Lookup(j, job[j].base, Members, {}, down)
          /\ pc' = [pc EXCEPT ![j] = IF Trusted(j, down) THEN "writing" ELSE "held"]
    BY <1>8 DEF Widen
  <2>2. job[j].base \in Content /\ \A m \in Members : job[j].base[m] <= base[m]
    BY DEF Data, Job, GroupInv, ClonesAreOld
  <2>3. CacheIsAhead' /\ CacheIsWhole' /\ AnswersAreCached' /\ ClonesAreOld'
    BY <1>1, <1>2, <2>1, <2>2, GroupLookup
  <2>4. Cached(j, Released(j)) # NoAnswer
    <3>1. PICK m \in Members : Planned(j)[m] # None
      BY <1>8 DEF Planned, NoEdits
    <3>2. job[j].answers[m] # None
      BY <3>1 DEF Planned
    <3> QED BY <1>1, <1>3, <3>2 DEF GroupInv, AnswersAreCached
  <2>5. ASSUME Trusted(j, down), NEW m \in Members PROVE branch[m] <= job'[j].answers[m]
    <3>1. Cached(j, m) # NoAnswer \/ m \notin down
      <4>1. CASE m = Released(j)
        BY <2>4, <4>1
      <4>2. CASE m # Released(j)
        BY <2>5, <4>2 DEF Trusted, Warned, FromCache, Usable
      <4> QED BY <4>1, <4>2
    <3> QED BY <2>1, <2>2, <3>1, LookupKnows DEF GroupInv
  <2>6. WritesCover'
    <3> SUFFICES ASSUME NEW i \in Jobs, pc'[i] = "writing"
                 PROVE  \A m \in Members : branch[m] <= job'[i].answers[m]
      BY <1>2 DEF WritesCover, Covers
    <3>1. i = j
      BY <1>1, <1>4 DEF Active
    <3>2. Trusted(j, down)
      BY <2>1, <3>1 DEF Data
    <3> QED BY <2>5, <3>1, <3>2
  <2> QED BY <1>6, <2>3, <2>6 DEF GroupInv
<1> QED BY <1>7, <1>8

\* A write brings the branch to answers of the cache, or takes it away.
LEMMA GroupWrite ==
    ASSUME Data, OneCache, GroupInv, LockHeld', NEW j \in Jobs, Push(j) \/ Prune(j)
    PROVE  GroupInv'
<1>1. /\ pc[j] = "writing" /\ pc'[j] \in {"pushed", "leaving"}
      /\ \A i \in Jobs : i # j => pc'[i] = pc[i]
  BY DEF Push, Prune, Goto, Data
<1>2. \A i \in Jobs : i # j => ~Active(i)
  BY <1>1, OneActive DEF GroupInv, Active
<1>3. /\ cache' = cache /\ base' = base /\ released' = released /\ lost' = lost
      /\ branch' \in {branch, NoEdits, Planned(j)}
  BY DEF Push, Prune, files
<1>4. \A i \in Jobs : /\ job'[i].base = job[i].base /\ job'[i].answers = job[i].answers
  BY DEF Push, Prune, Data, Job
<1>5. \A i \in Jobs : pc'[i] # "writing" /\ ~Narrow(i)' /\ (Answered(i)' => Answered(i))
  BY <1>1, <1>2 DEF Active, Narrow, Answered
<1>6. ASSUME NEW m \in Members
      PROVE  \/ branch'[m] = branch[m] \/ branch'[m] = None
             \/ branch'[m] = job[j].answers[m] /\ branch'[m] # None
  BY <1>3 DEF Planned, NoEdits
<1>7. ASSUME NEW m \in Members, job[j].answers[m] # None, NEW i \in Jobs
      PROVE  /\ Cached(i, m) # NoAnswer
             /\ job[j].answers[m] <= Cached(i, m).version
             /\ Cached(i, m).version <= released[m]
             /\ job[j].answers[m] <= released[m]
  <2>1. Cached(i, m) = Cached(j, m)
    BY DEF OneCache, Cached
  <2>2. Cached(j, m) # NoAnswer /\ job[j].answers[m] <= Cached(j, m).version
    BY <1>1, <1>7 DEF GroupInv, AnswersAreCached, Answered
  <2>3. Cached(j, m).version <= released[m]
    BY <2>2 DEF GroupInv, CacheIsAhead
  <2>4. Cached(j, m).version \in Versions
    BY <2>2, AnswerTyped DEF Entry
  <2>6. job[j].answers[m] \in Versions \cup {None}
    <3>1. job[j].answers \in Content
      BY DEF Data, Job
    <3> QED BY <3>1 DEF Content
  <2>5. released[m] \in Versions
    BY DEF Data
  <2> QED BY <2>1, <2>2, <2>3, <2>4, <2>6, <2>5 DEF Versions, None
<1>8. CacheIsAhead'
  <2>1. ASSUME NEW m \in Members, NEW i \in Jobs
        PROVE  /\ branch'[m] <= released[m]
               /\ Cached(i, m) # NoAnswer =>
                    branch'[m] <= Cached(i, m).version /\ Cached(i, m).version <= released[m]
    <3>1. CASE branch'[m] = branch[m]
      BY <3>1 DEF GroupInv, CacheIsAhead
    <3>2. CASE branch'[m] = None
      <4>1. released[m] \in Versions /\ (Cached(i, m) # NoAnswer => Cached(i, m).version \in Versions)
        BY AnswerTyped DEF Data, Entry
      <4> QED BY <3>2, <4>1 DEF GroupInv, CacheIsAhead, None, Versions
    <3>3. CASE branch'[m] = job[j].answers[m] /\ branch'[m] # None
      BY <1>7, <3>3
    <3> QED BY <1>6, <3>1, <3>2, <3>3
  <2> QED BY <1>3, <2>1 DEF CacheIsAhead, Cached
<1>9. CacheIsWhole'
  <2>1. ASSUME ~lost, NEW m \in Members, NEW i \in Jobs, branch'[m] # None
        PROVE  Cached(i, m) # NoAnswer
    BY <1>6, <1>7, <2>1 DEF GroupInv, CacheIsWhole
  <2> QED BY <1>3, <2>1 DEF CacheIsWhole, Cached
<1>10. AnswersAreCached'
  BY <1>3, <1>4, <1>5 DEF GroupInv, AnswersAreCached, Cached
<1>11. ClonesAreOld'
  BY <1>3, <1>4 DEF GroupInv, ClonesAreOld
<1>12. OneAnswer' /\ WritesCover'
  BY <1>5 DEF OneAnswer, WritesCover
<1> QED BY <1>8, <1>9, <1>10, <1>11, <1>12 DEF GroupInv

\* What happens outside.
LEMMA GroupOutside ==
    ASSUME Data, OneCache, GroupInv, LockHeld',
           \/ Merge \/ \E m \in Members : Release(m)
           \/ \E c \in Caches : LoseCache(c)
    PROVE  GroupInv'
<1>1. ASSUME NEW p \in Members, Release(p) PROVE GroupInv'
  <2>1. /\ released' = [released EXCEPT ![p] = @ + 1]
        /\ cache' = cache /\ branch' = branch /\ base' = base /\ request' = request
        /\ lost' = lost /\ pc' = pc /\ job' = job
    BY <1>1 DEF Release, project, files
  <2>2. \A m \in Members : released'[m] \in Nat /\ released[m] \in Nat /\ released[m] <= released'[m]
    BY <2>1 DEF Data, Versions
  <2>3. \A m \in Members : branch[m] <= released'[m]
    <3> SUFFICES ASSUME NEW m \in Members PROVE branch[m] <= released'[m]
      OBVIOUS
    <3>1. branch[m] \in Versions \cup {None} /\ branch[m] <= released[m]
      BY DEF Data, Content, GroupInv, CacheIsAhead
    <3> QED BY <2>2, <3>1 DEF Versions, None
  <2>4. ASSUME NEW m \in Members, NEW i \in Jobs, Cached(i, m) # NoAnswer
        PROVE  branch[m] <= Cached(i, m).version /\ Cached(i, m).version <= released'[m]
    <3>1. Cached(i, m).version \in Versions
      BY <2>4, AnswerTyped DEF Entry
    <3> QED BY <2>2, <2>4, <3>1 DEF GroupInv, CacheIsAhead, Versions
  <2>5. CacheIsAhead'
    BY <2>1, <2>3, <2>4 DEF CacheIsAhead, Cached
  <2> QED
    BY <2>1, <2>5 DEF GroupInv, CacheIsWhole, AnswersAreCached, Answered, ClonesAreOld, OneAnswer,
       Narrow, WritesCover, Covers, Planned, Released, Narrowed, Cached
<1>2. CASE Merge
  <2>1. /\ branch' = NoEdits /\ ~request'
        /\ released' = released /\ cache' = cache /\ lost' = lost /\ pc' = pc /\ job' = job
    BY <1>2 DEF Merge, files
  <2>2. \A m \in Members : base[m] <= base'[m] /\ base[m] \in Nat /\ base'[m] \in Nat
    BY <1>2 DEF Merge, Data, Content, Versions, None
  <2>3. \A m \in Members : branch'[m] = 0
    BY <2>1 DEF NoEdits, None
  <2>4. CacheIsAhead'
    <3>1. ASSUME NEW m \in Members PROVE 0 <= released[m]
      BY DEF Data, Versions
    <3>2. ASSUME NEW m \in Members, NEW i \in Jobs, Cached(i, m) # NoAnswer
          PROVE  0 <= Cached(i, m).version /\ Cached(i, m).version <= released[m]
      <4>1. Cached(i, m).version \in Versions
        BY <3>2, AnswerTyped DEF Entry
      <4> QED BY <3>2, <4>1 DEF GroupInv, CacheIsAhead, Versions
    <3> QED BY <2>1, <2>3, <3>1, <3>2 DEF CacheIsAhead, Cached
  <2>5. CacheIsWhole' /\ WritesCover'
    BY <2>1, <2>3 DEF CacheIsWhole, WritesCover, None
  <2>6. AnswersAreCached' /\ OneAnswer'
    BY <2>1 DEF GroupInv, AnswersAreCached, Answered, OneAnswer, Narrow, Released, Narrowed, Cached
  <2>7. ClonesAreOld'
    <3> SUFFICES ASSUME NEW j \in Jobs, NEW m \in Members PROVE job[j].base[m] <= base'[m]
      BY <2>1 DEF ClonesAreOld
    <3>1. job[j].base[m] \in Nat
      BY DEF Data, Job, Content, Versions, None
    <3>2. job[j].base[m] <= base[m]
      BY DEF GroupInv, ClonesAreOld
    <3> QED BY <2>2, <3>1, <3>2
  <2> QED BY <2>4, <2>5, <2>6, <2>7 DEF GroupInv
<1>3. ASSUME NEW c \in Caches, LoseCache(c) PROVE GroupInv'
  <2>1. /\ cache' = [cache EXCEPT ![c] = [m \in Members |-> NoAnswer]]
        /\ released' = released /\ branch' = branch /\ base' = base /\ request' = request
        /\ pc' = pc /\ job' = job /\ lost' /\ lock[c] = Free
    BY <1>3 DEF LoseCache, project
  <2>2. \A i \in Jobs, m \in Members :
          Cached(i, m)' = IF CacheOf[i] = c THEN NoAnswer ELSE Cached(i, m)
    BY <2>1, EveryJobHasACache DEF Data, Cached
  <2>3. CacheIsAhead'
    BY <2>1, <2>2 DEF GroupInv, CacheIsAhead
  <2>4. CacheIsWhole'
    BY <2>1 DEF CacheIsWhole
  <2>5. AnswersAreCached'
    <3> SUFFICES ASSUME NEW j \in Jobs, NEW m \in Members, Answered(j), job[j].answers[m] # None
                 PROVE  Cached(j, m)' # NoAnswer /\ job[j].answers[m] <= Cached(j, m)'.version
      BY <2>1 DEF AnswersAreCached, Answered
    <3>1. lock[CacheOf[j]] = j
      BY DEF GroupInv, LockHeld, Answered, Active
    <3>2. CacheOf[j] # c
      BY <2>1, <3>1, FreeIsNoJob
    <3> QED BY <2>2, <3>2 DEF GroupInv, AnswersAreCached
  <2>6. ClonesAreOld' /\ OneAnswer'
    BY <2>1 DEF GroupInv, ClonesAreOld, OneAnswer, Narrow, Released, Narrowed
  <2>7. WritesCover'
    BY <2>1 DEF GroupInv, WritesCover, Covers, Planned, Narrowed
  <2> QED BY <2>3, <2>4, <2>5, <2>6, <2>7 DEF GroupInv
<1> QED BY <1>1, <1>2, <1>3

LEMMA GroupInit == Init => GroupInv
<1> SUFFICES ASSUME Init PROVE GroupInv
  OBVIOUS
<1>1. \A j \in Jobs : pc[j] = "idle" /\ job[j] = Idle
  BY DEF Init
<1>2. \A j \in Jobs, m \in Members : Cached(j, m) = NoAnswer
  BY EveryJobHasACache DEF Init, Cached
<1>3. \A m \in Members : branch[m] = 0 /\ released[m] = 1 /\ base[m] = 1
  BY DEF Init, NoEdits, None
<1>4. LockHeld /\ AnswersAreCached /\ OneAnswer /\ WritesCover
  BY <1>1 DEF LockHeld, Active, AnswersAreCached, Answered, OneAnswer, Narrow, WritesCover
<1>5. CacheIsAhead /\ CacheIsWhole
  BY <1>2, <1>3 DEF CacheIsAhead, CacheIsWhole, None
<1>6. ClonesAreOld
  BY <1>1, <1>3, IdleTyped DEF ClonesAreOld, NoEdits, None
<1> QED BY <1>4, <1>5, <1>6 DEF GroupInv

LEMMA GroupStep == ASSUME Data, OneCache, GroupInv, [Next]_vars PROVE GroupInv'
<1>1. LockHeld'
  BY LockStep DEF GroupInv
<1> QED
  BY <1>1, GroupMoves, GroupPlan, GroupWiden, GroupWrite, GroupOutside DEF Next, JobStep

\* A write that covers the branch leaves no member behind.
LEMMA WriteKeeps ==
    ASSUME Data, GroupInv, NEW j \in Jobs, Narrowed(j) \/ ~lost PROVE KeepsMembers(j)
<1> SUFFICES ASSUME Push(j) \/ Prune(j), request, NEW m \in Members, branch[m] > base[m]
             PROVE  branch'[m] >= branch[m]
  BY DEF KeepsMembers
<1>1. Covers(j)
  BY DEF Push, Prune, Goto, GroupInv, WritesCover
<1>2. /\ branch[m] \in Nat /\ base[m] \in Nat /\ job[j].answers[m] \in Nat /\ job[j].base[m] \in Nat
      /\ job[j].base[m] <= base[m]
  BY DEF Data, Job, Content, Versions, None, GroupInv, ClonesAreOld
<1>3. CASE Narrowed(j) /\ Planned(j) = NoEdits
  <2>1. branch' = branch
    BY <1>3 DEF Push, Prune, Prunes
  <2> QED BY <1>2, <2>1
<1>4. CASE branch[m] <= job[j].answers[m]
  <2>1. Planned(j)[m] = job[j].answers[m] /\ Planned(j)[m] # None
    BY <1>2, <1>4 DEF Planned, None
  <2>2. Planned(j) # NoEdits
    BY <2>1 DEF NoEdits
  <2>3. branch' = branch \/ branch' = Planned(j)
    BY <2>2 DEF Push, Prune
  <2> QED BY <1>2, <1>4, <2>1, <2>3
<1> QED BY <1>1, <1>3, <1>4 DEF Covers

\* With one cache file, neither narrowed nor full runs drop a member from an
\* open group request or take it back, unless the cache was lost and the run
\* is a full one: the lock of the file makes the listing of open requests and
\* the push one step, and the cache remembers what the branch was built from.
\* It says nothing of processes with cache files of their own, as a cache per
\* partition or per job is: there NoStepBack fails.
THEOREM OpenGroupsKeepTheirMembers ==
    ASSUME OneCache PROVE Spec => NoStepBack
<1>1. TypeOK /\ GroupInv /\ [Next]_vars => GroupInv'
  BY TypeParts, GroupStep
<1>2. TypeOK /\ GroupInv /\ [Next]_vars => [\A j \in Jobs : Narrowed(j) \/ ~lost => KeepsMembers(j)]_vars
  BY TypeParts, WriteKeeps
<1> QED BY TypeCorrect, GroupInit, <1>1, <1>2, PTL DEF Spec, NoStepBack

=============================================================================
