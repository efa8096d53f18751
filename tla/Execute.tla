------------------------------- MODULE Execute -------------------------------
(***************************************************************************)
(* runner.Execute: one run after another over the branches of one project, *)
(* with the requests and branches they leave on the platform, and people   *)
(* who close, reopen, merge, revert and commit between any two calls.      *)
(*                                                                         *)
(* A run counts the open requests once, works through the branches the     *)
(* plan wants written - find the request, limits, history, push, open or   *)
(* update - tries composer branches that only resolve together once more   *)
(* as one branch (coResolve), and then closes the open requests whose      *)
(* branch the plan does not name (prune).  pushBranch is one step here;    *)
(* BranchPush has its steps.                                               *)
(*                                                                         *)
(* The edits of a branch are a set of pairs <<branch, content>>: a regular *)
(* branch has one, the combined branch has its members'.                   *)
(***************************************************************************)
EXTENDS Integers, FiniteSets

CONSTANTS
    Branches,         \* the branches a plan may have
    Combined,         \* the branch coResolve makes of the entangled ones
    Entangled,        \* composer branches that resolve only together
    Contents,         \* what an update may bring a branch to
    Old,              \* the content the base starts with
    Security,         \* branches that may come to fix an advisory
    Automerge,        \* branches whose rules ask for automerge
    Ignored,          \* branches with a label of ConcurrentIgnoreLabels
    Limits,           \* the limits a configuration may set; 0 is no limit
    MaxRuns,          \* bound: runs
    MaxMoves,         \* bound: moves of people and of the plan
    CallsFail,        \* whether git, task and platform calls may fail
    HistoryFails,     \* whether reading a branch's history may fail
    AnswersLost       \* whether the answer to a create may be lost

Names == Branches \cup {Combined}

ASSUME CombinedIsItsOwn == Combined \notin Branches
ASSUME OldIsNotNew == Old \notin Contents
ASSUME BranchKinds ==
    /\ Entangled \subseteq Branches
    /\ Security \subseteq Branches
    /\ Automerge \subseteq Branches
    /\ Ignored \subseteq Names
ASSUME FiniteBranches == IsFiniteSet(Branches)
ASSUME LimitsAreNumbers == Limits \subseteq [concurrent : Nat, hourly : Nat]
ASSUME Bounds == {MaxRuns, MaxMoves} \subseteq Nat
ASSUME Switches == {CallsFail, HistoryFails, AnswersLost} \subseteq BOOLEAN

VARIABLES
    \* the project and the platform
    base,        \* content of each branch's files on the base branch
    want,        \* what lookup and rules make of each branch now
    branch,      \* each name's branch on the remote: owner and edits
    request,     \* each name's newest request
    merged,      \* edits of each name's earlier merged requests
    reverted,    \* edits that were merged and taken back
    reopened,    \* requests people reopened since the run counted them
    moves,       \* how many moves people and the plan have made
    \* the run
    runs,        \* runs started so far
    pc,          \* the call the run makes next
    plan,        \* plan.Branches: edits and verdict by name
    limits,      \* plan.Limits
    todo,        \* regular branches not reached, or the combined one
    cur,         \* the branch the loop is at
    extended,    \* coResolve was asked
    unresolved,  \* branches whose lock refresh was unresolvable
    openNow,     \* open requests counted at the start
    created,     \* requests opened, as the run counts them
    found,       \* what the calls about cur answered
    doomed,      \* requests prune has yet to close
    outcome      \* what happened to each name

world == <<base, want, branch, request, merged, reverted, reopened>>
runVars == <<runs, pc, plan, limits, todo, cur, extended, unresolved, openNow, created, found, doomed, outcome>>
vars == <<base, want, branch, request, merged, reverted, reopened, moves,
          runs, pc, plan, limits, todo, cur, extended, unresolved, openNow, created, found, doomed, outcome>>

Edits == SUBSET (Branches \X Contents)
Verdicts == {"absent", "write", "wait", "settled"}
States == {"none", "opened", "closed", "autoclosed", "merged"}
Outcomes == {"", "created", "updated", "unchanged", "held", "failed", "autoclosed", "left"}

Planned == [edits : Edits, verdict : Verdicts, automerge : BOOLEAN, security : BOOLEAN]
NotPlanned == [edits |-> {}, verdict |-> "absent", automerge |-> FALSE, security |-> FALSE]

TypeOK ==
    /\ base \in [Branches -> Contents \cup {Old}]
    /\ want \in [Branches -> [content : Contents, verdict : Verdicts, fixes : BOOLEAN]]
    /\ branch \in [Names -> [owner : {"none", "bot", "person"}, edits : Edits]]
    /\ request \in [Names -> [state : States, edits : Edits, armed : BOOLEAN, retitled : BOOLEAN]]
    /\ merged \in [Names -> SUBSET Edits]
    /\ reverted \subseteq Branches \X Contents
    /\ reopened \subseteq Names
    /\ moves \in 0..MaxMoves
    /\ runs \in 0..MaxRuns
    /\ pc \in {"idle", "loop", "history", "push", "publish", "prune"}
    /\ plan \in [Names -> Planned]
    /\ limits \in [concurrent : Nat, hourly : Nat]
    /\ todo \subseteq Names
    /\ cur \in Names
    /\ extended \in BOOLEAN
    /\ unresolved \subseteq Branches
    /\ openNow \in Nat
    /\ created \in Nat
    /\ found \in [hasMR : BOOLEAN, mergedBefore : BOOLEAN, pushed : BOOLEAN]
    /\ doomed \subseteq Names
    /\ outcome \in [Names -> Outcomes]

NothingFound == [hasMR |-> FALSE, mergedBefore |-> FALSE, pushed |-> FALSE]

Init ==
    /\ base = [b \in Branches |-> Old]
    /\ \E fixed \in SUBSET Security, to \in [Branches -> Contents] :
         want = [b \in Branches |-> [content |-> to[b], verdict |-> "write", fixes |-> b \in fixed]]
    /\ branch = [n \in Names |-> [owner |-> "none", edits |-> {}]]
    /\ request = [n \in Names |-> [state |-> "none", edits |-> {}, armed |-> FALSE, retitled |-> FALSE]]
    /\ merged = [n \in Names |-> {}]
    /\ reverted = {} /\ reopened = {}
    /\ moves = 0 /\ runs = 0
    /\ pc = "idle"
    /\ plan = [n \in Names |-> NotPlanned]
    /\ limits = [concurrent |-> 0, hourly |-> 0]
    /\ todo = {} /\ unresolved = {} /\ doomed = {}
    /\ cur = Combined
    /\ extended = FALSE
    /\ openNow = 0 /\ created = 0
    /\ found = NothingFound
    /\ outcome = [n \in Names |-> ""]

-----------------------------------------------------------------------------
(* The plan, and the limits.                                               *)

Open(n) == request[n].state = "opened"

\* The requests openUnder lists and ConcurrentIgnoreLabels leaves in.
Counted == {n \in Names \ Ignored : Open(n)}

OpenNow == Cardinality(Counted)

\* The plan of a full run: a branch whose content the base already has is
\* not in it.
PlanOf(b) ==
    IF base[b] = want[b].content \/ want[b].verdict = "absent" THEN NotPlanned
    ELSE [edits |-> {<<b, want[b].content>>}, verdict |-> want[b].verdict,
          automerge |-> b \in Automerge, security |-> want[b].fixes]

\* Execute up to the loop: the open requests are counted once, and a run
\* that cannot list them ends there when it has a limit to keep.
StartRun ==
    /\ pc = "idle" /\ runs < MaxRuns
    /\ runs' = runs + 1
    /\ limits' \in Limits
    /\ plan' = [n \in Names |-> IF n \in Branches THEN PlanOf(n) ELSE NotPlanned]
    /\ todo' = {b \in Branches : PlanOf(b).verdict = "write"}
    /\ openNow' = IF limits'.concurrent > 0 THEN OpenNow ELSE 0
    /\ \/ pc' = "loop"
       \/ CallsFail /\ limits'.concurrent > 0 /\ pc' = "idle"
    /\ created' = 0
    /\ extended' = FALSE
    /\ unresolved' = {} /\ doomed' = {}
    /\ found' = NothingFound
    /\ outcome' = [n \in Names |-> ""]
    /\ reopened' = {}
    /\ UNCHANGED <<base, want, branch, request, merged, reverted, moves, cur>>

\* prConcurrentLimit and prHourlyLimit hold a routine branch that has no
\* open request.
MutAtLimit ==
    \/ limits.concurrent > 0 /\ openNow >= limits.concurrent
    \/ limits.hourly > 0 /\ created >= limits.hourly
AtLimit ==
    \/ limits.concurrent > 0 /\ openNow + created >= limits.concurrent
    \/ limits.hourly > 0 /\ created >= limits.hourly

HeldAtLimit(n) == ~Open(n) /\ ~plan[n].security /\ AtLimit

\* The current branch is dealt with; the loop goes on.
Done(how) ==
    /\ outcome' = [outcome EXCEPT ![cur] = how]
    /\ pc' = "loop"

-----------------------------------------------------------------------------
(* One branch.                                                             *)

\* FindMergeRequest, then the limits.
FindMergeRequest ==
    /\ pc = "loop"
    /\ \E n \in todo :
         /\ cur' = n
         /\ todo' = todo \ {n}
         /\ \/ /\ HeldAtLimit(n)
               /\ outcome' = [outcome EXCEPT ![n] = "held"]
               /\ UNCHANGED <<pc, found>>
            \/ /\ ~HeldAtLimit(n)
               /\ found' = [NothingFound EXCEPT !.hasMR = Open(n)]
               /\ pc' = IF Open(n) THEN "push" ELSE "history"
               /\ UNCHANGED outcome
            \/ /\ CallsFail
               /\ outcome' = [outcome EXCEPT ![n] = "failed"]
               /\ UNCHANGED <<pc, found>>
    /\ UNCHANGED <<world, moves, runs, plan, limits, extended, unresolved, openNow, created, doomed>>

\* closedBefore: the newest request is closed and had these edits.  One whose
\* title ends in " - autoclosed" is taken for closed by a run.
MutClosedBefore(n) == FALSE
ClosedBefore(n) ==
    /\ request[n].state \in {"closed", "autoclosed"} /\ ~request[n].retitled
    /\ request[n].edits = plan[n].edits

\* mergedBefore: some request of the branch merged with these edits.
\* The requests the history lists: the newest one and the earlier merged.
MergedEdits(n) == merged[n] \cup (IF request[n].state = "merged" THEN {request[n].edits} ELSE {})
MutMergedBefore(n) == FALSE
MergedBefore(n) == plan[n].edits \in MergedEdits(n)

\* History, whose error is dropped: a history that cannot be read is empty.
History ==
    /\ pc = "history"
    /\ \/ /\ ClosedBefore(cur)
          /\ Done("held")
          /\ UNCHANGED found
       \/ /\ ~ClosedBefore(cur)
          /\ found' = [found EXCEPT !.mergedBefore = MergedBefore(cur)]
          /\ pc' = "push"
          /\ UNCHANGED outcome
       \/ HistoryFails /\ pc' = "push" /\ UNCHANGED <<outcome, found>>
    /\ UNCHANGED <<world, moves, runs, plan, limits, todo, cur, extended, unresolved, openNow, created, doomed>>

\* An entangled branch has a lock no resolver finds while another one is
\* pending as well.
Unresolvable(n) == n \in Entangled /\ \E m \in Entangled \ {n} : plan[m].verdict # "absent"

\* pushBranch.  A branch with a person's commits is left to them; a refresh
\* that fails leaves the branch as it is on the remote.  The same edits are
\* pushed again when the base moved, and every push cancels the automerge.
PushBranch ==
    /\ pc = "push"
    /\ \/ /\ branch[cur].owner # "person"
          /\ ~Unresolvable(cur)
          /\ branch' = [branch EXCEPT ![cur] = [owner |-> "bot", edits |-> plan[cur].edits]]
          /\ \E baseMoved \in BOOLEAN :
               found' = [found EXCEPT !.pushed = baseMoved \/ branch' # branch]
          /\ request' = IF found'.pushed THEN [request EXCEPT ![cur].armed = FALSE] ELSE request
          /\ pc' = "publish"
          /\ UNCHANGED <<outcome, unresolved>>
       \/ /\ branch[cur].owner # "person"
          /\ Unresolvable(cur)
          /\ unresolved' = unresolved \cup {cur}
          /\ Done("failed")
          /\ UNCHANGED <<branch, request, found>>
       \/ /\ CallsFail \/ branch[cur].owner = "person"
          /\ Done("failed")
          /\ UNCHANGED <<branch, request, found, unresolved>>
    /\ UNCHANGED <<base, want, merged, reverted, reopened, moves, runs, plan, limits, todo, cur, extended, openNow, created, doomed>>

\* Whether the request asks for automerge: what merged before and is gone
\* from the base again waits for a person.
AsksAutomerge == plan[cur].automerge /\ ~(~found.hasMR /\ found.mergedBefore)

\* UpdateMergeRequest on the request that was found.  It may have been closed
\* or merged meanwhile: its title and its description are rewritten all the
\* same, its state and its automerge are not.
Update ==
    /\ pc = "publish" /\ found.hasMR
    /\ \/ /\ request' = [request EXCEPT ![cur].edits = plan[cur].edits,
                                        ![cur].armed = Open(cur) /\ AsksAutomerge,
                                        ![cur].retitled = FALSE]
          /\ Done(IF found.pushed \/ request[cur].retitled \/ request[cur].edits # plan[cur].edits
                  THEN "updated" ELSE "unchanged")
       \/ CallsFail /\ Done("failed") /\ UNCHANGED request
    /\ UNCHANGED <<base, want, branch, merged, reverted, reopened, moves>>
    /\ UNCHANGED <<runs, plan, limits, todo, cur, extended, unresolved, openNow, created, found, doomed>>

\* CreateMergeRequest, with the attempts of createWithRetry: the platform
\* refuses it for a branch that is gone or has an open request.
MutCounts == created
Counts == created + 1

Opens(n) ==
    /\ ~Open(n) /\ branch[n].owner # "none"
    /\ request' = [request EXCEPT ![n] = [state |-> "opened", edits |-> branch[n].edits,
                                          armed |-> AsksAutomerge, retitled |-> FALSE]]
    /\ merged' = [merged EXCEPT ![n] = MergedEdits(n)]
    /\ reopened' = reopened \ {n}

Create ==
    /\ pc = "publish" /\ ~found.hasMR
    /\ \/ Opens(cur) /\ created' = Counts /\ Done("created")
       \/ AnswersLost /\ Opens(cur) /\ UNCHANGED created /\ Done("failed")
       \/ /\ CallsFail \/ Open(cur) \/ branch[cur].owner = "none"
          /\ Done("failed")
          /\ UNCHANGED <<request, merged, reopened, created>>
    /\ UNCHANGED <<base, want, branch, reverted, moves>>
    /\ UNCHANGED <<runs, plan, limits, todo, cur, extended, unresolved, openNow, found, doomed>>

-----------------------------------------------------------------------------
(* After the loop.                                                         *)

\* coResolve: the members' edits as one branch, with automerge only if all
\* of them have it.
CombinedPlan ==
    [edits |-> UNION {plan[b].edits : b \in unresolved}, verdict |-> "write",
     automerge |-> unresolved \subseteq Automerge,
     security |-> \E b \in unresolved : plan[b].security]

CoResolve ==
    /\ pc = "loop" /\ todo = {} /\ ~extended
    /\ extended' = TRUE
    /\ IF Cardinality(unresolved) >= 2
       THEN plan' = [plan EXCEPT ![Combined] = CombinedPlan] /\ todo' = {Combined}
       ELSE UNCHANGED <<plan, todo>>
    /\ UNCHANGED <<world, moves, runs, pc, limits, cur, unresolved, openNow, created, found, doomed, outcome>>

\* A name the plan keeps: named, and not settled against.
MutNamed(n) == n \in Branches /\ plan[n].verdict \in {"write", "wait"}
Named(n) == plan[n].verdict \in {"write", "wait"}

\* prune lists the open requests; without the list nothing is pruned.
ListOpen ==
    /\ pc = "loop" /\ todo = {} /\ extended
    /\ pc' = "prune"
    /\ \/ doomed' = {n \in Names : Open(n) /\ ~Named(n)}
       \/ CallsFail /\ doomed' = {}
    /\ UNCHANGED <<world, moves, runs, plan, limits, todo, cur, extended, unresolved, openNow, created, found, outcome>>

\* prune, for one request: the author check, the close with " - autoclosed"
\* put behind its title, and the deletion.
\* A call that fails leaves the rest undone; the author check that fails
\* does not (BranchPush).
PruneOne ==
    /\ pc = "prune"
    /\ \E n \in doomed :
         /\ doomed' = doomed \ {n}
         /\ \/ /\ branch[n].owner # "person" \/ CallsFail
               /\ Open(n) \/ request[n].state \in {"closed", "autoclosed"}
               /\ request' = [request EXCEPT ![n].state = "autoclosed", ![n].armed = FALSE,
                                                  ![n].retitled = TRUE]
               /\ \/ branch' = [branch EXCEPT ![n] = [owner |-> "none", edits |-> {}]]
                  \/ CallsFail /\ UNCHANGED branch
               /\ outcome' = [outcome EXCEPT ![n] = "autoclosed"]
            \/ /\ branch[n].owner = "person"
               /\ outcome' = [outcome EXCEPT ![n] = "left"]
               /\ UNCHANGED <<request, branch>>
            \/ /\ CallsFail \/ ~(Open(n) \/ request[n].state \in {"closed", "autoclosed"})
               /\ UNCHANGED <<request, branch, outcome>>
    /\ UNCHANGED <<base, want, merged, reverted, reopened, moves>>
    /\ UNCHANGED <<runs, pc, plan, limits, todo, cur, extended, unresolved, openNow, created, found>>

EndRun ==
    /\ pc = "prune" /\ doomed = {}
    /\ pc' = "idle"
    /\ UNCHANGED <<world, moves, runs, plan, limits, todo, cur, extended, unresolved, openNow, created, found, doomed, outcome>>

RunStep ==
    \/ StartRun \/ FindMergeRequest \/ History \/ PushBranch \/ Update \/ Create
    \/ CoResolve \/ ListOpen \/ PruneOne \/ EndRun

-----------------------------------------------------------------------------
(* People, GitLab's merge when the pipeline succeeds, and new plans.       *)

Move == moves < MaxMoves /\ moves' = moves + 1

PersonCloses(n) ==
    /\ Move /\ Open(n)
    /\ request' = [request EXCEPT ![n].state = "closed", ![n].armed = FALSE]
    /\ UNCHANGED <<base, want, branch, merged, reverted, reopened, runVars>>

\* At any moment; the title stays what it is.
PersonReopens(n) ==
    /\ Move
    /\ request[n].state \in {"closed", "autoclosed"} /\ branch[n].owner # "none"
    /\ request' = [request EXCEPT ![n].state = "opened"]
    /\ reopened' = reopened \cup {n}
    /\ UNCHANGED <<base, want, branch, merged, reverted, runVars>>

\* A commit on top of the bot's; it cancels an armed automerge.
PersonCommits(n) ==
    /\ Move /\ branch[n].owner = "bot"
    /\ branch' = [branch EXCEPT ![n].owner = "person"]
    /\ request' = [request EXCEPT ![n].armed = FALSE]
    /\ UNCHANGED <<base, want, merged, reverted, reopened, runVars>>

\* What the request proposes reaches the base and the branch goes.
Land(n) ==
    /\ Open(n) /\ branch[n].owner # "none"
    /\ request' = [request EXCEPT ![n].state = "merged", ![n].armed = FALSE]
    /\ base' = [b \in Branches |->
                  IF \E c \in Contents : <<b, c>> \in branch[n].edits
                  THEN CHOOSE c \in Contents : <<b, c>> \in branch[n].edits ELSE base[b]]
    /\ branch' = [branch EXCEPT ![n] = [owner |-> "none", edits |-> {}]]
    /\ UNCHANGED <<want, merged, reopened, runVars>>

PersonMerges(n) == Move /\ Land(n) /\ reverted' = reverted \ branch[n].edits

\* GitLab merges an armed request once its pipeline has succeeded.
MergesOnItsOwn(n) == request[n].armed /\ Land(n) /\ UNCHANGED <<moves, reverted>>

\* A revert on the base: the files are back where they were.
PersonReverts(b) ==
    /\ Move /\ base[b] # Old
    /\ base' = [base EXCEPT ![b] = Old]
    /\ reverted' = reverted \cup {<<b, base[b]>>}
    /\ UNCHANGED <<want, branch, request, merged, reopened, runVars>>

\* A new release, a rule, an age or a window changes what is wanted.
PlanChanges(b) ==
    /\ Move
    /\ \E c \in Contents, v \in Verdicts :
         want' = [want EXCEPT ![b].content = c, ![b].verdict = v]
    /\ UNCHANGED <<base, branch, request, merged, reverted, reopened, runVars>>

Others ==
    \/ \E n \in Names : \/ PersonCloses(n) \/ PersonReopens(n) \/ PersonCommits(n)
                        \/ PersonMerges(n) \/ MergesOnItsOwn(n)
    \/ \E b \in Branches : PersonReverts(b) \/ PlanChanges(b)

Next == RunStep \/ Others

Spec == Init /\ [][Next]_vars

-----------------------------------------------------------------------------
(* Properties.                                                             *)

\* A create the platform carried out.
Created == Create /\ request'[cur].state = "opened" /\ ~Open(cur)

\* A run opens a routine request only while fewer than prConcurrentLimit
\* counted requests are open on the platform at that moment, whatever merged,
\* closed or was opened for an advisory since it counted them.  It counts
\* once, so the requests people reopened since then come on top.
ConcurrentLimitKept ==
    [][Created /\ limits.concurrent > 0 /\ ~plan[cur].security
         => Cardinality((Counted \ reopened) \cup {cur}) <= limits.concurrent]_vars

\* A run opens at most prHourlyLimit routine requests, the combined branch of
\* coResolve included.
HourlyLimitKept ==
    limits.hourly > 0 =>
        Cardinality({n \in Names : outcome[n] = "created" /\ ~plan[n].security}) <= limits.hourly

\* "A request a person closed is an answer, not a gap. The same edits are not
\* pushed again and not reopened" (runner.go, comment in Execute): a run opens
\* no request for edits that a person closed, what people reopen and close
\* under the run aside.
ClosedByHandStands ==
    [][Created /\ cur \notin reopened
         => ~(request[cur].state = "closed" /\ request[cur].edits = request'[cur].edits)]_vars

\* The same of the requests that do not bear the title a prune gave them.
ClosedUnderItsTitleStands ==
    [][Created /\ cur \notin reopened /\ ~request[cur].retitled
         => ~(request[cur].state = "closed" /\ request[cur].edits = request'[cur].edits)]_vars

\* A request opened for edits that were merged and taken back does not ask
\* for automerge when it is opened, whatever other edits merged in between,
\* unless people reopened and merged a request under the run.
RevertNotArmedAtOpening ==
    [][Created /\ cur \notin reopened /\ request'[cur].edits \in MergedEdits(cur)
         => ~request'[cur].armed]_vars

\* "The same bytes merged before and gone from the base again is a revert; it
\* does not land a second time on its own" (runner.go, comment in Execute).
RevertStays ==
    [][\A n \in Names : MergesOnItsOwn(n) => branch[n].edits \cap reverted = {}]_vars

\* Edits some branch of the plan writes.
Wanted(e) == \E b \in Branches : plan[b].verdict = "write" /\ e \in plan[b].edits

\* A branch that did not come to its lock refresh in this run.
NotTried(b) == b \notin unresolved /\ outcome[b] \in {"held", "failed"}

Closes(n) == PruneOne /\ Open(n) /\ request'[n].state = "autoclosed"

\* A prune closes a request only if the plan stopped asking for some of its
\* edits, or a member of a combined branch was held or failed for a reason of
\* its own, so that the run could not combine it again.
PrunedIsUnwantedOrUntried ==
    [][\A n \in Names : Closes(n) =>
         \/ \E e \in request[n].edits : ~Wanted(e)
         \/ \E e \in request[n].edits, b \in Branches : e \in plan[b].edits /\ NotTried(b)]_vars

\* "the next run updates the same merge request instead of opening another"
\* (coresolve.go): a prune closes a request only if the plan stopped asking
\* for some of its edits.
PrunedIsUnwanted ==
    [][\A n \in Names : Closes(n) => \E e \in request[n].edits : ~Wanted(e)]_vars

=============================================================================
