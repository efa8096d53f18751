----------------------------- MODULE BranchPush -----------------------------
(***************************************************************************)
(* One branch of one project, and everything that moves it: runs of the    *)
(* bot (pushBranch and prune of runner.go over the operations of git.go),  *)
(* people with push access, the base branch and the merge button.          *)
(*                                                                         *)
(* A run asks the remote for the branch (ls-remote), fetches it, looks for *)
(* commits by anyone else, rebuilds the branch from the base and pushes    *)
(* with a lease; a full run whose plan does not name the branch closes its *)
(* request and deletes it.  Every git or platform call is a step, so       *)
(* people and other runs act between any two of them.                      *)
(*                                                                         *)
(* A head is the set of the commits it has over the base.  A commit is     *)
(* named by who made it: a run makes at most one commit per branch, so the *)
(* run names it; a person's commit is a member of PersonCommits.  What a   *)
(* run's commit holds is in the run's record (want on top of base).        *)
(***************************************************************************)
EXTENDS Naturals, FiniteSets

CONSTANTS
    Runs,            \* runs over this project; several may overlap
    PersonCommits,   \* commits people may push to the branch
    Contents,        \* the edits a plan may want the branch to carry
    Refreshes,       \* those without an edit: only a lock file is refreshed
    Absent,          \* names the head of a branch the remote does not have
    Unnamed,         \* a full plan that does not name the branch
    MaxBase,         \* bound: how often the base branch moves
    GitMayFail,      \* whether a call to the remote may fail
    Conflicted,      \* whether rebaseWhen is "conflicted"
    MayPutBack       \* whether people may push a commit they took off again

ASSUME RunsAndPeople == Runs \cap PersonCommits = {}
ASSUME AbsentIsNoCommit == Absent \notin Runs \cup PersonCommits
ASSUME UnnamedIsNoContent == Unnamed \notin Contents
ASSUME RefreshesAreContents == Refreshes \subseteq Contents
ASSUME BaseIsBounded == MaxBase \in Nat
ASSUME Switches == {GitMayFail, Conflicted, MayPutBack} \subseteq BOOLEAN

VARIABLES
    base,      \* version of the base branch on the remote
    remote,    \* head of the branch on the remote, or NoRef
    request,   \* state of the branch's newest merge request
    pushed,    \* commits that were on the remote at some time
    pc,        \* the step each run takes next
    before,    \* what ls-remote told each run, which leases its push
    run        \* what each run holds besides: its plan and its clone

world == <<base, remote, request, pushed>>
vars == <<base, remote, request, pushed, pc, before, run>>

Commits == Runs \cup PersonCommits
NoRef == {Absent}
Refs == ((SUBSET Commits) \ {{}}) \cup {NoRef}
Requests == {"none", "opened", "closed", "merged"}

\* A run's steps, in the order Execute and prune take them, and its ends.
Ends == {"published", "failed", "autoclosed", "left", "nothing"}
Pcs == {"idle", "planned", "found", "looked", "checked", "built", "pushed",
        "listed", "closing", "deleting"} \cup Ends

Run == [want    : Contents \cup {Unnamed},
        base    : 0..MaxBase,    \* origin/<base> of the clone
        cloned  : Refs,          \* the branch when the plan was made
        tracked : Refs,          \* refs/remotes/origin/<branch>
        hasMR   : BOOLEAN,       \* FindMergeRequest found an open request
        keep    : BOOLEAN,
        rebase  : BOOLEAN]       \* the dashboard's rebase box names the branch

TypeOK ==
    /\ base \in 0..MaxBase
    /\ remote \in Refs
    /\ request \in Requests
    /\ pushed \subseteq Commits
    /\ pc \in [Runs -> Pcs]
    /\ before \in [Runs -> Refs]
    /\ run \in [Runs -> Run]

Init ==
    /\ base = 0
    /\ remote = NoRef
    /\ request = "none"
    /\ pushed = {}
    /\ pc = [r \in Runs |-> "idle"]
    /\ before = [r \in Runs |-> NoRef]
    /\ run = [r \in Runs |-> [want |-> Unnamed, base |-> 0, cloned |-> NoRef, tracked |-> NoRef,
                              hasMR |-> FALSE, keep |-> FALSE, rebase |-> FALSE]]

-----------------------------------------------------------------------------
(* Operators on heads.                                                     *)

\* The commits of a ref that are not the bot's (ForeignAuthors of base..ref).
ForeignAuthors(ref) == ref \cap PersonCommits

\* new contains everything old does: git's fast-forward.
FastForward(old, new) == new # NoRef /\ (old = NoRef \/ old \subseteq new)

\* Two refs with the same tree: the same edits on the same base.
SameTree(r, ref) ==
    \E q \in Runs : /\ ref = {q}
                    /\ run[q].want = run[r].want
                    /\ run[q].base = run[r].base

\* The same, in the branch's own files only: the base may have moved.
SamePaths(r, ref) == \E q \in Runs : ref = {q} /\ run[q].want = run[r].want

-----------------------------------------------------------------------------
(* A run.                                                                  *)

Transition(r, from, to) == pc[r] = from /\ pc' = [pc EXCEPT ![r] = to]

\* A call failed: the branch's updates are held and the run goes on without it.
Fail(r, from) == Transition(r, from, "failed") /\ UNCHANGED <<before, run>>

\* checkout and whatif: a fresh clone, and what the plan wants of the branch.
Plan(r) ==
    /\ Transition(r, "idle", "planned")
    /\ \E want \in Contents \cup {Unnamed}, rebase \in BOOLEAN :
         run' = [run EXCEPT ![r] = [want |-> want, base |-> base, cloned |-> remote,
                                    tracked |-> remote, hasMR |-> FALSE, keep |-> FALSE,
                                    rebase |-> rebase]]
    /\ UNCHANGED <<world, before>>

\* A request that merges cleanly is not rebuilt because the base moved, while
\* its pipeline is busy or with rebaseWhen "conflicted".
Keep(conflict, busy) == request = "opened" /\ ~conflict /\ (busy \/ Conflicted)

\* Execute's FindMergeRequest: the platform also says whether the request
\* conflicts and whether its pipeline is queued or running.
FindMergeRequest(r) ==
    /\ run[r].want # Unnamed
    /\ \/ /\ Transition(r, "planned", "found")
          /\ \E conflict, busy \in BOOLEAN :
               run' = [run EXCEPT ![r].hasMR = (request = "opened"),
                                  ![r].keep = Keep(conflict, busy)]
          /\ UNCHANGED before
       \/ GitMayFail /\ Fail(r, "planned")
    /\ UNCHANGED world

\* pushBranch asks the remote, not the clone, where the branch is.
RemoteBranch(r) ==
    /\ \/ /\ Transition(r, "found", IF remote = NoRef THEN "checked" ELSE "looked")
          /\ before' = [before EXCEPT ![r] = remote]
          /\ UNCHANGED run
       \/ GitMayFail /\ Fail(r, "found")
    /\ UNCHANGED world

\* git fetch of refs/heads/b:refs/remotes/origin/b without a plus: an update
\* that is no fast-forward is refused, and so is a branch that is gone.
FetchAccepted(r) == FastForward(run[r].tracked, remote)
Fetch(r) == FetchAccepted(r) /\ run' = [run EXCEPT ![r].tracked = remote]

\* pushBranch: the fetch must succeed, and a branch with somebody else's
\* commits is left to them.
FetchAndCheck(r) ==
    /\ \/ /\ Fetch(r)
          /\ Transition(r, "looked", IF ForeignAuthors(remote) = {} THEN "checked" ELSE "failed")
          /\ UNCHANGED before
       \/ (GitMayFail \/ ~FetchAccepted(r)) /\ Fail(r, "looked")
    /\ UNCHANGED world

\* Whether what was built need not be pushed.
MutNothingToPush(r) ==
    /\ before[r] # NoRef
    /\ ~run[r].rebase
    /\ run[r].keep /\ SamePaths(r, run[r].tracked)
NothingToPush(r) ==
    /\ before[r] # NoRef
    /\ ~run[r].rebase
    /\ SameTree(r, run[r].tracked) \/ (run[r].keep /\ SamePaths(r, run[r].tracked))

\* Recreate, WriteFiles, the tasks and the commit, all local to the clone.
Build(r) ==
    /\ \/ /\ Transition(r, "checked", IF NothingToPush(r) THEN "pushed" ELSE "built")
          /\ UNCHANGED <<before, run>>
       \/ /\ run[r].want \in Refreshes     \* the lock file is current
          /\ Transition(r, "checked", IF before[r] = NoRef THEN "nothing" ELSE "pushed")
          /\ UNCHANGED <<before, run>>
       \/ Fail(r, "checked")     \* an edit, a task or the commit failed
    /\ UNCHANGED world

\* The head Push leaves: one commit over the base.  Commit reports when the
\* edits changed nothing against the base, and pushBranch fails then.
PushedHead(r) == {r}

\* git push: leased when the branch existed, fast-forward only otherwise.
MutPushAccepted(r) == before[r] # NoRef \/ FastForward(remote, {r})
PushAccepted(r) ==
    IF before[r] # NoRef THEN remote = before[r] ELSE FastForward(remote, {r})

Push(r) ==
    /\ \/ /\ PushAccepted(r)
          /\ Transition(r, "built", "pushed")
          /\ run' = [run EXCEPT ![r].tracked = {r}]
          /\ remote' = PushedHead(r)
          /\ pushed' = pushed \cup {r}
          /\ UNCHANGED before
       \/ /\ GitMayFail \/ ~PushAccepted(r)
          /\ Fail(r, "built")
          /\ UNCHANGED <<remote, pushed>>
    /\ UNCHANGED <<base, request>>

\* UpdateMergeRequest on the request found, or CreateMergeRequest.  GitLab
\* refuses a second open request for a branch and one without a branch.
Publish(r) ==
    /\ \/ /\ run[r].hasMR
          /\ request' = request
          /\ Transition(r, "pushed", "published")
       \/ /\ ~run[r].hasMR /\ request # "opened" /\ remote # NoRef
          /\ request' = "opened"
          /\ Transition(r, "pushed", "published")
       \/ /\ \/ ~run[r].hasMR /\ (request = "opened" \/ remote = NoRef)
             \/ GitMayFail
          /\ request' = request
          /\ Transition(r, "pushed", "failed")
    /\ UNCHANGED <<base, remote, pushed, before, run>>

-----------------------------------------------------------------------------
(* prune: the plan does not name the branch.                               *)

\* The open requests are listed once, before any of them is closed.
ListOpen(r) ==
    /\ run[r].want = Unnamed
    /\ Transition(r, "planned", IF request = "opened" THEN "listed" ELSE "nothing")
    /\ UNCHANGED <<world, before, run>>

\* The author check.  A fetch that fails leaves the branch unchecked.
PruneCheck(r) ==
    /\ \/ /\ Fetch(r)
          /\ Transition(r, "listed", IF ForeignAuthors(remote) = {} THEN "closing" ELSE "left")
       \/ /\ GitMayFail \/ ~FetchAccepted(r)
          /\ Transition(r, "listed", "closing")
          /\ UNCHANGED run
    /\ UNCHANGED <<world, before>>

\* CloseMergeRequest: an error, or a request that is not closed afterwards
\* because somebody merged it, keeps the branch.
CloseRequest(r) ==
    /\ \/ /\ request # "merged"
          /\ request' = "closed"
          /\ Transition(r, "closing", "deleting")
       \/ /\ request = "merged" \/ GitMayFail
          /\ request' = request
          /\ Transition(r, "closing", "nothing")
    /\ UNCHANGED <<base, remote, pushed, before, run>>

\* DeleteRemoteBranch, without a lease.
DeleteBranch(r) ==
    /\ Transition(r, "deleting", "autoclosed")
    /\ \/ remote' = NoRef
       \/ GitMayFail /\ remote' = remote
    /\ UNCHANGED <<base, request, pushed, before, run>>

RunStep(r) ==
    \/ Plan(r) \/ FindMergeRequest(r) \/ RemoteBranch(r) \/ FetchAndCheck(r)
    \/ Build(r) \/ Push(r) \/ Publish(r)
    \/ ListOpen(r) \/ PruneCheck(r) \/ CloseRequest(r) \/ DeleteBranch(r)

-----------------------------------------------------------------------------
(* Everybody else.                                                         *)

Fresh(c) == c \notin pushed \/ (MayPutBack /\ c \notin remote)

\* A commit on top of the branch, or the branch pushed anew.
PersonPushes(c) ==
    /\ Fresh(c)
    /\ remote' = IF remote = NoRef THEN {c} ELSE remote \cup {c}
    /\ pushed' = pushed \cup {c}
    /\ UNCHANGED <<base, request, pc, before, run>>

\* A rebase or an amend, pushed by force: c stands for the new history.
PersonRewrites(c) ==
    /\ remote # NoRef
    /\ Fresh(c)
    /\ remote' = {c}
    /\ pushed' = pushed \cup {c}
    /\ UNCHANGED <<base, request, pc, before, run>>

\* A person takes their only commit off again.
PersonDrops(c) ==
    /\ ForeignAuthors(remote) = {c}
    /\ remote' = remote \ {c}
    /\ remote' # {}
    /\ UNCHANGED <<base, request, pushed, pc, before, run>>

PersonDeletes ==
    /\ remote # NoRef
    /\ remote' = NoRef
    /\ UNCHANGED <<base, request, pushed, pc, before, run>>

PersonCloses ==
    /\ request = "opened"
    /\ request' = "closed"
    /\ UNCHANGED <<base, remote, pushed, pc, before, run>>

PersonReopens ==
    /\ request = "closed" /\ remote # NoRef
    /\ request' = "opened"
    /\ UNCHANGED <<base, remote, pushed, pc, before, run>>

\* The commits reach the base and the branch goes: RemoveSourceBranch is set.
Merge ==
    /\ request = "opened" /\ remote # NoRef /\ base < MaxBase
    /\ request' = "merged"
    /\ remote' = NoRef
    /\ base' = base + 1
    /\ UNCHANGED <<pushed, pc, before, run>>

BaseMoves ==
    /\ base < MaxBase
    /\ base' = base + 1
    /\ UNCHANGED <<remote, request, pushed, pc, before, run>>

Others ==
    \/ \E c \in PersonCommits : PersonPushes(c) \/ PersonRewrites(c) \/ PersonDrops(c)
    \/ PersonDeletes \/ PersonCloses \/ PersonReopens \/ Merge \/ BaseMoves

Next == (\E r \in Runs : RunStep(r)) \/ Others

Spec == Init /\ [][Next]_vars

-----------------------------------------------------------------------------
(* Properties.                                                             *)

\* No push of a run takes a person's commit off the branch, whatever people
\* and other runs did between the run's look at the remote and its push
\* (pushBranch: "A branch that carries a person's commits is not rebuilt -
\* it is theirs now").
PushKeepsPeople ==
    [][\A r \in Runs : Push(r) => ForeignAuthors(remote) \subseteq ForeignAuthors(remote')]_vars

\* No run replaces the head of an earlier run by the same edits on the same
\* base, nor, for a request it keeps, by the same edits on a newer one: every
\* push restarts the pipeline and cancels the armed automerge (Execute,
\* comment on keep).
NoIdlePush ==
    [][\A r, q \in Runs :
         Push(r) /\ remote = {q} /\ remote' # remote /\ ~run[r].rebase
           => \/ run[q].want # run[r].want
              \/ run[q].base # run[r].base /\ ~run[r].keep]_vars

\* "A branch somebody committed to is theirs and stays, with a warning"
\* (runner.go, comment on prune): a prune leaves a branch that carries a
\* person's commits when it looks, whatever the branch looks like, and deletes
\* none that somebody committed to after it looked.
PruneLeavesPeople ==
    [][\A r \in Runs : ForeignAuthors(remote) # {} =>
         /\ PruneCheck(r) => pc'[r] = "left"
         /\ DeleteBranch(r) => remote' = remote]_vars

=============================================================================
