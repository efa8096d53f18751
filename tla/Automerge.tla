------------------------------ MODULE Automerge ------------------------------
(***************************************************************************)
(* One merge request of the bot and everyone who may merge it: the run     *)
(* that pushes and describes it (Execute, armNew and the GitLab platform's *)
(* UpdateMergeRequest and trySetAutomerge), the arm watch that comes by    *)
(* every ten minutes without a clone (ArmWatch), people, and GitLab, which *)
(* processes a push, creates the pipeline and merges some time later.      *)
(*                                                                         *)
(* Every API call is a step.  Heads are numbered as they are pushed, and   *)
(* by says who pushed each: a person's head carries their commit, and the  *)
(* bot pushes only over its own (pushBranch, module BranchPush).           *)
(***************************************************************************)
EXTENDS Naturals

CONSTANTS
    Direct,        \* automergeDirect: a mergeable request is merged outright
    MaxHeads,      \* bound: pushes to the branch
    MaxRuns,       \* bound: runs
    MaxFailures    \* bound: calls that fail, and answers GitLab does not keep

ASSUME DirectIsSwitch == Direct \in BOOLEAN
ASSUME Bounds == MaxHeads \in Nat /\ MaxRuns \in Nat /\ MaxFailures \in Nat

VARIABLES
    \* the branch and the request on the platform
    state,       \* "none" before the request is created
    head,        \* newest head of the branch on the remote
    by,          \* who pushed each head
    recorded,    \* the head GitLab has for the request
    pipeline,    \* the head pipeline: its commit and its status
    armed,       \* the head automerge is armed for
    marker,      \* the description's last line is the automerge marker
    canceled,    \* a note says a person canceled the automatic merge
    \* the actors
    runs,        \* runs started
    run,         \* the run: its next call, the head it pushed, the one it was told
    want,        \* the run's decision: the rules ask for automerge
    hasMR,       \* the run found or created the request
    again,       \* armNew follows: the request is new or was pushed to
    watch,       \* the arm watch: its next call and the head it listed
    failures

request == <<state, recorded, pipeline, armed, marker, canceled>>
decision == <<want, hasMR, again>>
vars == <<state, head, by, recorded, pipeline, armed, marker, canceled,
          runs, run, want, hasMR, again, watch, failures>>

None == 0
Heads == 0..MaxHeads     \* with None, the branch that does not exist

\* Without automergeDirect nothing is merged outright.
MutMergesOutright == TRUE
MergesOutright == Direct

RunPcs == {"idle", "publish", "arm", "cancel"} \cup (IF Direct THEN {"mergeNow"} ELSE {})
WatchPcs == {"idle", "pipeline", "authors", "notes", "arm"} \cup (IF Direct THEN {"mergeNow"} ELSE {})

TypeOK ==
    /\ state \in {"none", "opened", "merged", "closed"}
    /\ head \in Heads
    /\ by \in [Heads -> {"nobody", "bot", "person"}]
    /\ recorded \in Heads
    /\ pipeline \in [sha : Heads, status : {"none", "running", "success", "failed"}]
    /\ armed \in Heads
    /\ marker \in BOOLEAN
    /\ canceled \in BOOLEAN
    /\ runs \in 0..MaxRuns
    /\ run \in [pc : RunPcs, pushed : Heads, sha : Heads]
    /\ want \in BOOLEAN /\ hasMR \in BOOLEAN /\ again \in BOOLEAN
    /\ watch \in [pc : WatchPcs, sha : Heads]
    /\ failures \in 0..MaxFailures

Init ==
    /\ state = "none"
    /\ head = None /\ recorded = None /\ armed = None
    /\ by = [h \in Heads |-> "nobody"]
    /\ pipeline = [sha |-> None, status |-> "none"]
    /\ marker = FALSE /\ canceled = FALSE
    /\ runs = 0 /\ failures = 0
    /\ run = [pc |-> "idle", pushed |-> None, sha |-> None]
    /\ want = FALSE /\ hasMR = FALSE /\ again = FALSE
    /\ watch = [pc |-> "idle", sha |-> None]

Fails == failures < MaxFailures /\ failures' = failures + 1

PushedBy(who) ==
    /\ head < MaxHeads
    /\ head' = head + 1
    /\ by' = [by EXCEPT ![head + 1] = who]

-----------------------------------------------------------------------------
(* GitLab's merge endpoint: the sha is a condition, a head without a       *)
(* pipeline is not armed, and a pipeline that is done is not waited for.   *)

OnHead(sha, status) ==
    /\ state = "opened"
    /\ sha = recorded
    /\ pipeline = [sha |-> recorded, status |-> status]

Arms(sha) ==
    /\ OnHead(sha, "running")
    /\ armed' = recorded
    /\ UNCHANGED <<state, recorded, pipeline, marker, canceled>>

Merges(sha) ==
    /\ OnHead(sha, "success")
    /\ state' = "merged"
    /\ armed' = None
    /\ UNCHANGED <<recorded, pipeline, marker, canceled>>

Refuses(sha) == ~OnHead(sha, "running") /\ ~OnHead(sha, "success") /\ UNCHANGED request

\* A 2xx that neither armed nor merged a request that is mergeable.
AcceptsOnly(sha) == OnHead(sha, "success") /\ UNCHANGED request

-----------------------------------------------------------------------------
(* A run.                                                                  *)

RunDone == run' = [pc |-> "idle", pushed |-> None, sha |-> None]

\* FindMergeRequest and pushBranch: a new head, or none because the branch has
\* these bytes already.  A person's branch is left to them.
RunStart ==
    /\ run.pc = "idle" /\ runs < MaxRuns /\ state \in {"none", "opened"}
    /\ runs' = runs + 1
    /\ \/ /\ by[head] # "person"
          /\ PushedBy("bot")
          /\ run' = [pc |-> "publish", pushed |-> head + 1, sha |-> None]
          /\ again' = TRUE
       \/ /\ by[head] = "bot"
          /\ run' = [pc |-> "publish", pushed |-> None, sha |-> None]
          /\ again' = (state = "none")
          /\ UNCHANGED <<head, by>>
       \/ /\ by[head] = "person"
          /\ UNCHANGED <<head, by, run, again>>
    /\ want' \in BOOLEAN
    /\ hasMR' = (state = "opened")
    /\ UNCHANGED <<request, watch, failures>>

\* The commit to arm: the one pushed, or the one GitLab records.
MutHeadFor == run.sha
HeadFor == IF run.pushed # None THEN run.pushed ELSE run.sha

\* What UpdateMergeRequest and CreateMergeRequest do after the description.
AfterDescription(isArmed) ==
    CASE want /\ ~isArmed -> "arm"
      [] ~want /\ isArmed -> "cancel"
      [] OTHER -> "idle"

\* CreateMergeRequest: GitLab takes the branch as it is.
Create ==
    /\ run.pc = "publish" /\ ~hasMR
    /\ \/ /\ state = "none"
          /\ state' = "opened"
          /\ recorded' = head
          /\ marker' = want
          /\ run' = [run EXCEPT !.pc = AfterDescription(FALSE), !.sha = head]
          /\ hasMR' = TRUE
          /\ UNCHANGED <<pipeline, armed, canceled, failures>>
       \/ /\ state # "none" \/ failures < MaxFailures
          /\ IF state # "none" THEN UNCHANGED failures ELSE Fails
          /\ RunDone
          /\ UNCHANGED <<request, hasMR>>
    /\ UNCHANGED <<head, by, runs, want, again, watch>>

\* UpdateMergeRequest up to its automerge part.  awaitHead polled before it:
\* whether it saw the head or gave up, it comes here.  The description goes to
\* a closed request too; one that GitLab does not keep goes on without it.
Update ==
    /\ run.pc = "publish" /\ hasMR
    /\ \/ /\ \/ marker' = want /\ UNCHANGED failures
             \/ marker' = marker /\ Fails
          /\ run' = [run EXCEPT !.pc = AfterDescription(armed # None), !.sha = recorded]
       \/ Fails /\ RunDone /\ UNCHANGED marker
    /\ UNCHANGED <<state, head, by, recorded, pipeline, armed, canceled, runs, decision, watch>>

\* armNew asks again, for a request just opened or pushed to, or gives up.
NotYet ==
    \/ again /\ run' = [run EXCEPT !.pc = "publish"]
    \/ RunDone

\* trySetAutomerge.  The error, and the refusal of a bot that may not merge,
\* leave the request as it is.
RunArms ==
    /\ run.pc = "arm"
    /\ \/ (Arms(HeadFor) \/ Merges(HeadFor)) /\ RunDone /\ UNCHANGED failures
       \/ Refuses(HeadFor) /\ NotYet /\ UNCHANGED failures
       \/ /\ AcceptsOnly(HeadFor)
          /\ IF MergesOutright THEN run' = [run EXCEPT !.pc = "mergeNow", !.sha = recorded] ELSE RunDone
          /\ UNCHANGED failures
       \/ Fails /\ RunDone /\ UNCHANGED request
    /\ UNCHANGED <<head, by, runs, decision, watch>>

RunMergesNow ==
    /\ run.pc = "mergeNow"
    /\ \/ Merges(run.sha) /\ RunDone /\ UNCHANGED failures
       \/ ~OnHead(run.sha, "success") /\ NotYet /\ UNCHANGED <<request, failures>>
       \/ Fails /\ RunDone /\ UNCHANGED request
    /\ UNCHANGED <<head, by, runs, decision, watch>>

\* cancelAutomerge: a rule stopped allowing it.
RunCancels ==
    /\ run.pc = "cancel"
    /\ \/ armed' = None /\ UNCHANGED failures
       \/ armed' = armed /\ Fails
    /\ RunDone
    /\ UNCHANGED <<state, head, by, recorded, pipeline, marker, canceled, runs, decision, watch>>

RunStep == RunStart \/ Create \/ Update \/ RunArms \/ RunMergesNow \/ RunCancels

-----------------------------------------------------------------------------
(* The arm watch.                                                          *)

WatchDone == watch' = [pc |-> "idle", sha |-> None]
Skips == WatchDone /\ UNCHANGED failures
GoesOn(pc) == watch' = [watch EXCEPT !.pc = pc] /\ UNCHANGED failures
WatchFails == Fails /\ WatchDone

\* OpenLabelled, and the checks of armOne that the listing answers.
List ==
    /\ watch.pc = "idle"
    /\ state = "opened" /\ marker /\ armed = None
    /\ watch' = [pc |-> "pipeline", sha |-> recorded]
    /\ UNCHANGED <<request, head, by, runs, run, decision, failures>>

MutUsable(status) == status = "running"
Usable(status) == status # "failed"

HeadPipeline ==
    /\ watch.pc = "pipeline"
    /\ \/ pipeline.sha = watch.sha /\ Usable(pipeline.status) /\ GoesOn("authors")
       \/ ~(pipeline.sha = watch.sha /\ Usable(pipeline.status)) /\ Skips
       \/ WatchFails
    /\ UNCHANGED <<request, head, by, runs, run, decision>>

MutAllByBot == TRUE
AllByBot == by[recorded] = "bot"

CommitAuthors ==
    /\ watch.pc = "authors"
    /\ \/ AllByBot /\ GoesOn("notes")
       \/ ~AllByBot /\ Skips
       \/ WatchFails
    /\ UNCHANGED <<request, head, by, runs, run, decision>>

AutomergeCanceledBy ==
    /\ watch.pc = "notes"
    /\ \/ ~canceled /\ GoesOn("arm")
       \/ canceled /\ Skips
       \/ WatchFails
    /\ UNCHANGED <<request, head, by, runs, run, decision>>

ArmAutomerge ==
    /\ watch.pc = "arm"
    /\ \/ (Arms(watch.sha) \/ Merges(watch.sha) \/ Refuses(watch.sha)) /\ Skips
       \/ /\ AcceptsOnly(watch.sha)
          /\ IF MergesOutright THEN GoesOn("mergeNow") ELSE Skips
       \/ WatchFails /\ UNCHANGED request
    /\ UNCHANGED <<head, by, runs, run, decision>>

WatchMergesNow ==
    /\ watch.pc = "mergeNow"
    /\ \/ Merges(watch.sha) /\ Skips
       \/ ~OnHead(watch.sha, "success") /\ Skips /\ UNCHANGED request
       \/ WatchFails /\ UNCHANGED request
    /\ UNCHANGED <<head, by, runs, run, decision>>

WatchStep ==
    \/ List \/ HeadPipeline \/ CommitAuthors \/ AutomergeCanceledBy \/ ArmAutomerge \/ WatchMergesNow

-----------------------------------------------------------------------------
(* GitLab and people.                                                      *)

\* A push is processed some time after it was made, and aborts the automerge.
SeesPush ==
    /\ state = "opened" /\ recorded # head
    /\ recorded' = head
    /\ armed' = None
    /\ UNCHANGED <<state, head, by, pipeline, marker, canceled, runs, run, decision, watch, failures>>

PipelineStarts ==
    /\ state = "opened" /\ pipeline.sha # recorded
    /\ pipeline' = [sha |-> recorded, status |-> "running"]
    /\ UNCHANGED <<state, head, by, recorded, armed, marker, canceled, runs, run, decision, watch, failures>>

PipelineEnds ==
    /\ pipeline.status = "running"
    /\ \E status \in {"success", "failed"} : pipeline' = [pipeline EXCEPT !.status = status]
    /\ UNCHANGED <<state, head, by, recorded, armed, marker, canceled, runs, run, decision, watch, failures>>

MergesArmed ==
    /\ armed # None /\ Merges(armed)
    /\ UNCHANGED <<head, by, runs, run, decision, watch, failures>>

GitLab == SeesPush \/ PipelineStarts \/ PipelineEnds \/ MergesArmed

PersonPushes ==
    /\ state = "opened"
    /\ PushedBy("person")
    /\ UNCHANGED <<request, runs, run, decision, watch, failures>>

PersonCancels ==
    /\ armed # None
    /\ armed' = None /\ canceled' = TRUE
    /\ UNCHANGED <<state, head, by, recorded, pipeline, marker, runs, run, decision, watch, failures>>

PersonEnds ==
    /\ state = "opened"
    /\ state' \in {"merged", "closed"}
    /\ armed' = None
    /\ UNCHANGED <<head, by, recorded, pipeline, marker, canceled, runs, run, decision, watch, failures>>

People == PersonPushes \/ PersonCancels \/ PersonEnds

Next == RunStep \/ WatchStep \/ GitLab \/ People

Spec == Init /\ [][Next]_vars

\* A run goes on once it has started, the watch is started every ten minutes
\* by its schedule, and GitLab gets round to what it has to do.
FairSpec ==
    /\ Spec
    /\ WF_vars(RunStep /\ run.pc # "idle")
    /\ WF_vars(WatchStep)
    /\ WF_vars(SeesPush) /\ WF_vars(PipelineStarts) /\ WF_vars(PipelineEnds) /\ WF_vars(MergesArmed)

-----------------------------------------------------------------------------
(* Properties.                                                             *)

\* A call that armed or merged the request.
Took == armed' \notin {None, armed} \/ (state' = "merged" /\ state # "merged")

\* The arm watch never arms or merges a head a person pushed, whatever is
\* pushed between its listing, its look at the authors and its call (armOne).
WatchLeavesPeople ==
    [][(ArmAutomerge \/ WatchMergesNow) /\ Took => by[recorded] = "bot"]_vars

\* A run that pushed arms or merges the head it pushed and no other, however
\* late GitLab learns of the push (headFor).
RunArmsItsPush ==
    [][(RunArms \/ RunMergesNow) /\ Took /\ run.pushed # None => recorded = run.pushed]_vars

\* A request that wants automerge, is the bot's alone and has its pipeline does
\* not stay green and unarmed: it is merged, unless somebody or a failed
\* pipeline decides otherwise ("armed within minutes instead of at the next run
\* that happens not to push", cmdArmWatch).
Wanted ==
    /\ state = "opened" /\ marker /\ ~canceled
    /\ by[head] = "bot"
    /\ ~(pipeline.sha = head /\ pipeline.status = "failed")
WantedIsMerged == Wanted ~> ~Wanted

\* "asked to merge what it had seen" (gitlab.go, comment on mergeNow), and "a
\* branch with foreign commits is left alone" (docs/configuration.md): no run
\* arms or merges a head a person pushed.
RunLeavesPeople ==
    [][(RunArms \/ RunMergesNow) /\ Took => by[recorded] = "bot"]_vars

=============================================================================
