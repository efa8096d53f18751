-------------------------- MODULE BranchPush_proofs --------------------------
(***************************************************************************)
(* Proofs about BranchPush for every set of runs, commits and contents.    *)
(*                                                                         *)
(* A push is leased with what ls-remote said, but the author check reads   *)
(* what the fetch brought, which may be another head.  A lease that still  *)
(* holds therefore does not by itself say that the checked head is the one *)
(* replaced.  The invariant that closes the gap: a person's commit in the  *)
(* lease that the check did not see was off the branch when the fetch ran, *)
(* and, unless people put commits back, is never on it again.              *)
(***************************************************************************)
EXTENDS BranchPush, TLAPS

-----------------------------------------------------------------------------
(* Type correctness.                                                       *)

\* The program starts well typed.
LEMMA InitTyped == Init => TypeOK
BY BaseIsBounded DEF Init, TypeOK, Run, Pcs, Refs, Requests

\* A step that moves r to a known place keeps pc well typed.
LEMMA PcTyped ==
    ASSUME TypeOK, NEW r \in Runs, NEW from, NEW to \in Pcs, Transition(r, from, to)
    PROVE  pc' \in [Runs -> Pcs]
BY DEF TypeOK, Transition

\* The steps of a run that names the branch keep the types.
LEMMA PublishTyped ==
    ASSUME TypeOK, NEW r \in Runs,
           \/ Plan(r) \/ FindMergeRequest(r) \/ RemoteBranch(r) \/ FetchAndCheck(r)
           \/ Build(r) \/ Push(r) \/ Publish(r)
    PROVE  TypeOK'
<1>1. pc' \in [Runs -> Pcs]
  BY PcTyped DEF Plan, FindMergeRequest, RemoteBranch, FetchAndCheck, Build, Push, Publish,
                 Fail, Pcs, Ends
<1>2. run' \in [Runs -> Run]
  <2>1. CASE Plan(r)
    BY <2>1 DEF Plan, TypeOK, Run
  <2>2. CASE FindMergeRequest(r)
    <3>1. ASSUME NEW h \in BOOLEAN, NEW k \in BOOLEAN
          PROVE  [run EXCEPT ![r].hasMR = h, ![r].keep = k] \in [Runs -> Run]
      <4>1. run \in [Runs -> Run] /\ run[r] \in Run
        BY DEF TypeOK
      <4>2. [run[r] EXCEPT !.hasMR = h, !.keep = k] \in Run
        BY <4>1 DEF Run
      <4> QED BY <4>1, <4>2
    <3>2. \A conflict, busy \in BOOLEAN :
             /\ (request = "opened") \in BOOLEAN
             /\ (request = "opened" /\ ~conflict /\ (busy \/ Conflicted)) \in BOOLEAN
      OBVIOUS
    <3>3. CASE Fail(r, "planned")
      BY <3>3 DEF Fail, TypeOK
    <3>4. CASE ~Fail(r, "planned")
      <4>1. PICK conflict, busy \in BOOLEAN :
              run' = [run EXCEPT ![r].hasMR = (request = "opened"),
                                 ![r].keep = /\ request = "opened"
                                             /\ ~conflict
                                             /\ busy \/ Conflicted]
        BY <2>2, <3>4, Zenon DEF FindMergeRequest, Keep
      <4> QED BY <3>1, <3>2, <4>1
    <3> QED BY <3>3, <3>4
  <2>3. CASE FetchAndCheck(r)
    <3>1. CASE Fail(r, "looked")
      BY <3>1 DEF Fail, TypeOK
    <3>2. CASE Fetch(r)
      <4>1. run \in [Runs -> Run] /\ remote \in Refs
        BY DEF TypeOK
      <4>2. run' = [run EXCEPT ![r].tracked = remote]
        BY <3>2 DEF Fetch
      <4>3. [run[r] EXCEPT !.tracked = remote] \in Run
        BY <4>1 DEF Run
      <4> QED BY <4>1, <4>2, <4>3, SMTT(30)
    <3> QED BY <2>3, <3>1, <3>2, Zenon DEF FetchAndCheck
  <2>4. CASE Push(r)
    <3>1. {r} \in Refs
      BY DEF Refs, Commits
    <3> QED BY <2>4, <3>1 DEF Push, Fail, TypeOK, Run
  <2>5. CASE RemoteBranch(r) \/ Build(r) \/ Publish(r)
    BY <2>5 DEF RemoteBranch, Build, Publish, Fail, TypeOK
  <2> QED BY <2>1, <2>2, <2>3, <2>4, <2>5
<1>3. before' \in [Runs -> Refs]
  BY DEF Plan, FindMergeRequest, RemoteBranch, FetchAndCheck, Build, Push, Publish, Fail, TypeOK
<1>4. base' \in 0..MaxBase /\ remote' \in Refs /\ request' \in Requests /\ pushed' \subseteq Commits
  BY DEF Plan, FindMergeRequest, RemoteBranch, FetchAndCheck, Build, Push, PushedHead, Publish, Fail, world,
         TypeOK, Refs, Commits, Requests
<1> QED BY <1>1, <1>2, <1>3, <1>4 DEF TypeOK

\* The steps of a prune keep the types.
LEMMA PruneTyped ==
    ASSUME TypeOK, NEW r \in Runs,
           ListOpen(r) \/ PruneCheck(r) \/ CloseRequest(r) \/ DeleteBranch(r)
    PROVE  TypeOK'
<1>1. pc' \in [Runs -> Pcs]
  BY PcTyped DEF ListOpen, PruneCheck, CloseRequest, DeleteBranch, Pcs, Ends
<1>2. run' \in [Runs -> Run]
  BY DEF ListOpen, PruneCheck, CloseRequest, DeleteBranch, Fetch, TypeOK, Run
<1>3. /\ before' \in [Runs -> Refs] /\ base' \in 0..MaxBase /\ remote' \in Refs
      /\ request' \in Requests /\ pushed' \subseteq Commits
  BY DEF ListOpen, PruneCheck, CloseRequest, DeleteBranch, world, TypeOK, Refs, Requests
<1> QED BY <1>1, <1>2, <1>3 DEF TypeOK

\* The steps of people and of the base branch keep the types.
LEMMA OthersTyped == ASSUME TypeOK, Others PROVE TypeOK'
<1>1. ASSUME NEW c \in PersonCommits, PersonPushes(c) \/ PersonRewrites(c) PROVE TypeOK'
  BY <1>1 DEF PersonPushes, PersonRewrites, NoRef, TypeOK, Refs, Commits
<1>2. ASSUME NEW c \in PersonCommits, PersonDrops(c) PROVE TypeOK'
  BY <1>2, AbsentIsNoCommit DEF PersonDrops, ForeignAuthors, NoRef, TypeOK, Refs, Commits
<1>3. CASE PersonDeletes \/ PersonCloses \/ PersonReopens
  BY <1>3 DEF PersonDeletes, PersonCloses, PersonReopens, TypeOK, Refs, Requests
<1>4. CASE Merge \/ BaseMoves
  BY <1>4, BaseIsBounded DEF Merge, BaseMoves, TypeOK, Refs, Requests
<1> QED BY <1>1, <1>2, <1>3, <1>4 DEF Others

\* Every ref a run stores is a set of commits or NoRef, and the base stays
\* within its bound.
THEOREM TypeCorrect == Spec => []TypeOK
<1>1. Init => TypeOK
  BY InitTyped
<1>2. TypeOK /\ [Next]_vars => TypeOK'
  <2>1. CASE UNCHANGED vars
    BY <2>1 DEF vars, TypeOK
  <2> QED BY <2>1, PublishTyped, PruneTyped, OthersTyped DEF Next, RunStep
<1> QED BY <1>1, <1>2, PTL DEF Spec

-----------------------------------------------------------------------------
(* People's commits survive a push.                                        *)

\* A person's commit in a run's lease that the author check did not see has
\* left the branch for good.
LeaseIsSafe ==
    \A r \in Runs : pc[r] \in {"checked", "built"} =>
        \A c \in ForeignAuthors(before[r]) : c \in pushed /\ c \notin remote

\* What was ever looked at or is there now has been pushed.
SeenWasPushed ==
    /\ remote # NoRef => remote \subseteq pushed
    /\ \A r \in Runs : before[r] # NoRef => before[r] \subseteq pushed

\* The inductive invariant behind PushKeepsPeople.
PushInv == TypeOK /\ LeaseIsSafe /\ SeenWasPushed

\* A step that leaves the refs runs hold, and their place before a push,
\* alone keeps the invariant if it adds only commits never pushed before.
LEMMA FreshCommitsKeepPushInv ==
    ASSUME PushInv, TypeOK', pc' = pc, before' = before, pushed \subseteq pushed',
           remote' \in {NoRef, remote} \/ (remote' \cap pushed \subseteq remote),
           remote' # NoRef => remote' \subseteq pushed'
    PROVE  PushInv'
<1>1. LeaseIsSafe'
  BY AbsentIsNoCommit DEF PushInv, LeaseIsSafe, ForeignAuthors, NoRef
<1>2. SeenWasPushed'
  BY DEF PushInv, SeenWasPushed
<1> QED BY <1>1, <1>2 DEF PushInv

\* Fresh commits are the only ones people add when nothing is put back.
LEMMA OthersKeepPushInv ==
    ASSUME ~MayPutBack, PushInv, Others PROVE PushInv'
<1>0. TypeOK' /\ TypeOK /\ SeenWasPushed
  BY OthersTyped DEF PushInv
<1>1. ASSUME NEW c \in PersonCommits, PersonPushes(c) PROVE PushInv'
  BY <1>0, <1>1, FreshCommitsKeepPushInv DEF PersonPushes, Fresh, SeenWasPushed
<1>2. ASSUME NEW c \in PersonCommits, PersonRewrites(c) PROVE PushInv'
  BY <1>0, <1>2, FreshCommitsKeepPushInv DEF PersonRewrites, Fresh
<1>3. ASSUME NEW c \in PersonCommits, PersonDrops(c) PROVE PushInv'
  <2>1. remote # NoRef
    BY <1>3, AbsentIsNoCommit DEF PersonDrops, ForeignAuthors, NoRef
  <2> QED BY <1>0, <1>3, <2>1, FreshCommitsKeepPushInv DEF PersonDrops, SeenWasPushed
<1>4. CASE PersonDeletes \/ PersonCloses \/ PersonReopens
  BY <1>0, <1>4, FreshCommitsKeepPushInv
  DEF PersonDeletes, PersonCloses, PersonReopens, SeenWasPushed
<1>5. CASE Merge \/ BaseMoves
  BY <1>0, <1>5, FreshCommitsKeepPushInv DEF Merge, BaseMoves, SeenWasPushed
<1> QED BY <1>1, <1>2, <1>3, <1>4, <1>5 DEF Others

\* A step of r that takes no new lease and does not come to stand before a
\* push keeps the invariant: what it pushes is its own.
LEMMA NoNewLeaseKeepsPushInv ==
    ASSUME PushInv, TypeOK', NEW r \in Runs, UNCHANGED before,
           \A q \in Runs : pc'[q] \in {"checked", "built"} => pc[q] \in {"checked", "built"},
           pushed \subseteq pushed',
           remote' \in {NoRef, remote} \/ remote' \cap PersonCommits = {},
           remote' # NoRef => remote' \subseteq pushed'
    PROVE  PushInv'
<1>1. LeaseIsSafe'
  BY AbsentIsNoCommit DEF PushInv, LeaseIsSafe, ForeignAuthors, NoRef
<1>2. SeenWasPushed'
  BY DEF PushInv, SeenWasPushed
<1> QED BY <1>1, <1>2 DEF PushInv

\* A run's own steps keep the invariant.
LEMMA RunStepsKeepPushInv ==
    ASSUME PushInv, NEW r \in Runs, RunStep(r) PROVE PushInv'
<1>0. /\ TypeOK /\ LeaseIsSafe /\ SeenWasPushed /\ TypeOK'
      /\ pc \in [Runs -> Pcs] /\ before \in [Runs -> Refs]
  BY PublishTyped, PruneTyped DEF PushInv, RunStep, TypeOK
<1> USE <1>0
<1>1. CASE \/ Plan(r) \/ FindMergeRequest(r) \/ Build(r) \/ Push(r) \/ Publish(r)
           \/ ListOpen(r) \/ PruneCheck(r) \/ CloseRequest(r) \/ DeleteBranch(r)
  <2>1. UNCHANGED before
    BY <1>1 DEF Plan, FindMergeRequest, Build, Push, Publish, ListOpen, PruneCheck,
                CloseRequest, DeleteBranch, Fail
  <2>2. \A q \in Runs : pc'[q] \in {"checked", "built"} => pc[q] \in {"checked", "built"}
    BY <1>1 DEF Plan, FindMergeRequest, Build, Push, Publish, ListOpen, PruneCheck,
                CloseRequest, DeleteBranch, Fail, Transition
  <2>3. /\ pushed \subseteq pushed'
        /\ remote' \in {NoRef, remote} \/ remote' \cap PersonCommits = {}
        /\ remote' # NoRef => remote' \subseteq pushed'
    BY <1>1, RunsAndPeople
    DEF Plan, FindMergeRequest, Build, Push, Publish, ListOpen, PruneCheck,
        CloseRequest, DeleteBranch, world, SeenWasPushed, PushedHead
  <2> QED BY <2>1, <2>2, <2>3, NoNewLeaseKeepsPushInv
<1>2. CASE RemoteBranch(r)
  <2>1. CASE Fail(r, "found")
    BY <1>2, <2>1, NoNewLeaseKeepsPushInv
    DEF RemoteBranch, Fail, Transition, world, SeenWasPushed
  <2>2. CASE ~Fail(r, "found")
    <3>1. /\ remote = NoRef => pc'[r] = "checked"
          /\ remote # NoRef => pc'[r] = "looked"
          /\ \A q \in Runs \ {r} : pc'[q] = pc[q] /\ before'[q] = before[q]
          /\ before'[r] = remote /\ UNCHANGED <<remote, pushed>>
      BY <1>2, <2>2 DEF RemoteBranch, Transition, world
    <3>2. LeaseIsSafe'
      BY <3>1, AbsentIsNoCommit DEF LeaseIsSafe, ForeignAuthors, NoRef
    <3>3. SeenWasPushed'
      BY <3>1 DEF SeenWasPushed
    <3> QED BY <3>2, <3>3 DEF PushInv
  <2> QED BY <2>1, <2>2
<1>3. CASE FetchAndCheck(r)
  <2>1. /\ UNCHANGED <<remote, pushed, before>>
        /\ \A q \in Runs \ {r} : pc'[q] = pc[q]
        /\ pc'[r] \in {"checked", "built"} => ForeignAuthors(remote) = {}
    BY <1>3 DEF FetchAndCheck, Fail, Transition, world
  <2>2. LeaseIsSafe'
    <3> SUFFICES ASSUME NEW q \in Runs, pc'[q] \in {"checked", "built"},
                        NEW c \in ForeignAuthors(before[q])
                 PROVE  c \in pushed /\ c \notin remote
      BY <2>1 DEF LeaseIsSafe, ForeignAuthors
    <3>1. CASE q # r
      BY <2>1, <3>1 DEF LeaseIsSafe
    <3>2. CASE q = r
      BY <2>1, <3>2, AbsentIsNoCommit DEF SeenWasPushed, ForeignAuthors, NoRef
    <3> QED BY <3>1, <3>2
  <2>3. SeenWasPushed'
    BY <2>1 DEF SeenWasPushed
  <2> QED BY <2>2, <2>3 DEF PushInv
<1> QED BY <1>1, <1>2, <1>3 DEF RunStep

\* The invariant holds whenever people do not put back what they took off.
THEOREM LeasesAreSafe == ASSUME ~MayPutBack PROVE Spec => []PushInv
<1>1. Init => PushInv
  <2>1. Init => TypeOK
    BY InitTyped
  <2>2. Init => LeaseIsSafe /\ SeenWasPushed
    BY AbsentIsNoCommit DEF Init, LeaseIsSafe, SeenWasPushed, ForeignAuthors, NoRef
  <2> QED BY <2>1, <2>2 DEF PushInv
<1>2. PushInv /\ [Next]_vars => PushInv'
  <2>1. CASE UNCHANGED vars
    BY <2>1 DEF vars, PushInv, TypeOK, LeaseIsSafe, SeenWasPushed, ForeignAuthors
  <2> QED BY <2>1, RunStepsKeepPushInv, OthersKeepPushInv DEF Next
<1> QED BY <1>1, <1>2, PTL DEF Spec

\* No push of any run takes a person's commit off the branch: a push that is
\* accepted replaces exactly the lease, and by LeaseIsSafe the lease then has
\* no commit of a person; without a lease only a fast-forward is accepted.
THEOREM PushNeverTakesPeople == ASSUME ~MayPutBack PROVE Spec => PushKeepsPeople
<1>1. ASSUME PushInv, NEW r \in Runs, Push(r)
      PROVE  ForeignAuthors(remote) \subseteq ForeignAuthors(remote')
  <2>1. CASE remote' = remote
    BY <2>1 DEF ForeignAuthors
  <2>2. CASE PushAccepted(r) /\ remote' = {r}
    <3>1. pc[r] = "built" /\ LeaseIsSafe
      BY <1>1 DEF Push, Fail, Transition, PushInv
    <3>2. CASE remote = NoRef
      BY <3>2, AbsentIsNoCommit DEF ForeignAuthors, NoRef
    <3>3. CASE remote # NoRef /\ before[r] # NoRef
      <4>1. \A c \in ForeignAuthors(before[r]) : c \notin remote
        BY <3>1 DEF LeaseIsSafe
      <4>2. remote = before[r]
        BY <2>2, <3>3 DEF PushAccepted
      <4> QED BY <4>1, <4>2 DEF ForeignAuthors
    <3>4. CASE remote # NoRef /\ before[r] = NoRef
      BY <2>2, <3>4, RunsAndPeople DEF PushAccepted, FastForward, ForeignAuthors
    <3> QED BY <3>2, <3>3, <3>4
  <2> QED BY <1>1, <2>1, <2>2 DEF Push, PushedHead
<1>2. PushInv /\ [Next]_vars =>
        [\A r \in Runs : Push(r) => ForeignAuthors(remote) \subseteq ForeignAuthors(remote')]_vars
  BY <1>1
<1> QED BY <1>2, LeasesAreSafe, PTL DEF Spec, PushKeepsPeople

-----------------------------------------------------------------------------
(* No push of what is there already.                                       *)

\* A run pushes once: what it pushed is behind it.
PushesOnce == \A q \in Runs : q \in pushed => pc[q] \in {"pushed"} \cup Ends

\* Every ref a run holds, and the branch, was pushed, and has the commit of
\* at most one run.
OneBuild(ref) == \A p, q \in Runs : p \in ref /\ q \in ref => p = q
RefsArePushed ==
    /\ remote # NoRef => remote \subseteq pushed
    /\ OneBuild(remote)
    /\ \A r \in Runs :
          /\ before[r] # NoRef => before[r] \subseteq pushed
          /\ run[r].tracked # NoRef => run[r].tracked \subseteq pushed
          /\ OneBuild(run[r].tracked)

\* A run's commit in a lease that the check did not see has left the branch.
LeaseWasSeen ==
    \A r \in Runs : pc[r] \in {"checked", "built"} /\ before[r] # NoRef =>
        /\ run[r].tracked # NoRef
        /\ ForeignAuthors(run[r].tracked) = {}
        /\ \A q \in Runs \cap before[r] : q \in run[r].tracked \/ q \notin remote

\* What was compared with the fetched head still compares the same.
ComparedBefore ==
    \A r \in Runs : pc[r] = "built" => ~NothingToPush(r)

\* The inductive invariant behind NoIdlePush.
IdleInv == TypeOK /\ PushesOnce /\ RefsArePushed /\ LeaseWasSeen /\ ComparedBefore

\* A run's plan is made once, and what it found once.
LEMMA PlansStand ==
    ASSUME TypeOK, NEW r \in Runs, RunStep(r), NEW q \in Runs
    PROVE  /\ pc[q] # "idle" => /\ run'[q].want = run[q].want
                                /\ run'[q].base = run[q].base
                                /\ run'[q].rebase = run[q].rebase
                                /\ pc'[q] # "idle"
           /\ pc[q] \notin {"idle", "planned"} => run'[q].keep = run[q].keep
           /\ pc'[q] \in {"checked", "built"} => pc[q] \notin {"idle", "planned"}
<1>0. /\ pc \in [Runs -> Pcs] /\ run \in [Runs -> Run] /\ before \in [Runs -> Refs]
  BY DEF TypeOK
<1>1. CASE Plan(r)
  BY <1>0, <1>1 DEF Plan, Transition
<1>2. CASE FindMergeRequest(r)
  <2>1. PICK h, k : run' = [run EXCEPT ![r].hasMR = h, ![r].keep = k] \/ run' = run
    BY <1>2 DEF FindMergeRequest, Fail
  <2>2. pc[r] = "planned" /\ (pc' = [pc EXCEPT ![r] = "found"] \/ pc' = [pc EXCEPT ![r] = "failed"])
    BY <1>2 DEF FindMergeRequest, Fail, Transition
  <2>3. run'[q].want = run[q].want /\ run'[q].base = run[q].base /\ run'[q].rebase = run[q].rebase
    BY <1>0, <2>1 DEF Run
  <2>4. q # r => run'[q] = run[q]
    BY <1>0, <2>1 DEF Run
  <2> QED BY <1>0, <2>2, <2>3, <2>4
<1>3. CASE ListOpen(r) \/ CloseRequest(r) \/ DeleteBranch(r) \/ Build(r) \/ Publish(r) \/ RemoteBranch(r)
  BY <1>0, <1>3 DEF ListOpen, CloseRequest, DeleteBranch, Build, Publish, RemoteBranch, Fail, Transition
<1>4. CASE PruneCheck(r) \/ FetchAndCheck(r) \/ Push(r)
  <2>1. PICK t : run' = [run EXCEPT ![r].tracked = t] \/ run' = run
    BY <1>4 DEF PruneCheck, FetchAndCheck, Push, Fetch, Fail
  <2>2. /\ run'[q].want = run[q].want /\ run'[q].base = run[q].base
        /\ run'[q].rebase = run[q].rebase /\ run'[q].keep = run[q].keep
    BY <1>0, <2>1 DEF Run
  <2>3. /\ pc[q] # "idle" => pc'[q] # "idle"
        /\ pc'[q] \in {"checked", "built"} => pc[q] \notin {"idle", "planned"}
    BY <1>0, <1>4 DEF PruneCheck, FetchAndCheck, Push, Fail, Transition
  <2> QED BY <2>2, <2>3
<1> QED BY <1>1, <1>2, <1>3, <1>4 DEF RunStep

\* Steps of others leave the runs alone and bring no commit of a run.
LEMMA OthersKeepIdleInv == ASSUME IdleInv, Others PROVE IdleInv'
<1>0. TypeOK /\ TypeOK' /\ PushesOnce /\ RefsArePushed /\ LeaseWasSeen /\ ComparedBefore
  BY OthersTyped DEF IdleInv
<1>1. /\ UNCHANGED <<pc, before, run>>
      /\ pushed \subseteq pushed' /\ pushed' \cap Runs = pushed \cap Runs
      /\ remote' \cap Runs \subseteq remote
      /\ remote' # NoRef => remote' \subseteq pushed'
  <2>1. ASSUME NEW c \in PersonCommits, PersonPushes(c) \/ PersonRewrites(c)
        PROVE  <1>1!:
    BY <1>0, <2>1, RunsAndPeople DEF PersonPushes, PersonRewrites, RefsArePushed
  <2>2. ASSUME NEW c \in PersonCommits, PersonDrops(c)
        PROVE  <1>1!:
    <3>1. remote # NoRef
      BY <2>2, AbsentIsNoCommit DEF PersonDrops, ForeignAuthors, NoRef
    <3> QED BY <1>0, <2>2, <3>1 DEF PersonDrops, RefsArePushed
  <2>3. CASE PersonDeletes \/ Merge
    BY <1>0, <2>3, AbsentIsNoCommit DEF PersonDeletes, Merge, NoRef
  <2>4. CASE PersonCloses \/ PersonReopens \/ BaseMoves
    BY <1>0, <2>4 DEF PersonCloses, PersonReopens, BaseMoves, RefsArePushed
  <2> QED BY <2>1, <2>2, <2>3, <2>4 DEF Others
<1>2. PushesOnce'
  BY <1>0, <1>1 DEF PushesOnce
<1>3. RefsArePushed'
  BY <1>0, <1>1 DEF RefsArePushed, OneBuild
<1>4. LeaseWasSeen'
  BY <1>0, <1>1 DEF LeaseWasSeen, ForeignAuthors
<1>5. ComparedBefore'
  BY <1>0, <1>1 DEF ComparedBefore, NothingToPush, SameTree, SamePaths
<1> QED BY <1>0, <1>2, <1>3, <1>4, <1>5 DEF IdleInv

\* What a step of a run does to the branch: nothing, its deletion, or a push.
LEMMA BranchAfterStep ==
    ASSUME TypeOK, NEW r \in Runs, RunStep(r)
    PROVE  \/ UNCHANGED <<remote, pushed>>
           \/ remote' = NoRef /\ UNCHANGED pushed
           \/ /\ pc[r] = "built" /\ pc'[r] = "pushed"
              /\ remote' = {r} /\ pushed' = pushed \cup {r}
<1>0. pc \in [Runs -> Pcs]
  BY DEF TypeOK
<1>1. CASE Push(r)
  BY <1>0, <1>1 DEF Push, PushedHead, Transition
<1>2. CASE \/ Plan(r) \/ FindMergeRequest(r) \/ RemoteBranch(r) \/ FetchAndCheck(r)
           \/ Build(r) \/ Publish(r) \/ ListOpen(r) \/ PruneCheck(r) \/ CloseRequest(r)
           \/ DeleteBranch(r)
  BY <1>2 DEF Plan, FindMergeRequest, RemoteBranch, FetchAndCheck, Build, Publish, ListOpen,
              PruneCheck, CloseRequest, DeleteBranch, world
<1> QED BY <1>1, <1>2 DEF RunStep

\* What a step of a run does to the refs runs hold.
LEMMA RefsAfterStep ==
    ASSUME TypeOK, NEW r \in Runs, RunStep(r)
    PROVE  /\ \A q \in Runs \ {r} : pc'[q] = pc[q] /\ before'[q] = before[q] /\ run'[q] = run[q]
           /\ before'[r] \in {before[r], remote}
           /\ \/ run'[r].tracked \in {run[r].tracked, remote}
              \/ run'[r].tracked = {r} /\ r \in pushed'
           /\ pc[r] \in {"pushed"} \cup Ends => pc'[r] \in {"pushed"} \cup Ends
<1>0. /\ pc \in [Runs -> Pcs] /\ run \in [Runs -> Run] /\ before \in [Runs -> Refs]
  BY DEF TypeOK
<1>1. CASE Plan(r)
  BY <1>0, <1>1 DEF Plan, Transition, Ends
<1>2. CASE FindMergeRequest(r)
  <2>1. PICK h, k : run' = [run EXCEPT ![r].hasMR = h, ![r].keep = k] \/ run' = run
    BY <1>2 DEF FindMergeRequest, Fail
  <2>2. /\ run'[r].tracked = run[r].tracked
        /\ \A q \in Runs \ {r} : run'[q] = run[q]
    BY <1>0, <2>1 DEF Run
  <2>3. before' = before /\ pc[r] = "planned" /\ \A q \in Runs \ {r} : pc'[q] = pc[q]
    BY <1>0, <1>2 DEF FindMergeRequest, Fail, Transition
  <2> QED BY <2>2, <2>3 DEF Ends
<1>3. CASE ListOpen(r) \/ CloseRequest(r) \/ DeleteBranch(r) \/ Build(r) \/ Publish(r) \/ RemoteBranch(r)
  BY <1>0, <1>3 DEF ListOpen, CloseRequest, DeleteBranch, Build, Publish, RemoteBranch, Fail, Transition, Ends
<1>4. CASE PruneCheck(r) \/ FetchAndCheck(r) \/ Push(r)
  BY <1>0, <1>4 DEF PruneCheck, FetchAndCheck, Push, Fetch, Fail, Transition, Ends, Run
<1> QED BY <1>1, <1>2, <1>3, <1>4 DEF RunStep

\* A run comes to stand before a push with a checked lease or without one.
LEMMA LeaseAfterStep ==
    ASSUME TypeOK, NEW r \in Runs, RunStep(r),
           pc'[r] \in {"checked", "built"}, before'[r] # NoRef
    PROVE  /\ before' = before
           /\ \/ pc[r] \in {"checked", "built"} /\ run' = run
              \/ /\ run'[r].tracked = remote
                 /\ remote # NoRef
                 /\ ForeignAuthors(remote) = {}
           /\ UNCHANGED <<remote, pushed>>
<1>0. /\ pc \in [Runs -> Pcs] /\ run \in [Runs -> Run] /\ before \in [Runs -> Refs]
  BY DEF TypeOK
<1>1. CASE RemoteBranch(r)
  BY <1>0, <1>1 DEF RemoteBranch, Fail, Transition
<1>2. CASE FetchAndCheck(r)
  BY <1>0, <1>2 DEF FetchAndCheck, FetchAccepted, FastForward, Fetch, Fail, Transition, world, Run
<1>3. CASE Build(r)
  BY <1>0, <1>3 DEF Build, Fail, Transition, world
<1>4. CASE Plan(r) \/ FindMergeRequest(r) \/ Push(r) \/ Publish(r)
  BY <1>0, <1>4 DEF Plan, FindMergeRequest, Push, Publish, Fail, Transition
<1>5. CASE ListOpen(r) \/ PruneCheck(r) \/ CloseRequest(r) \/ DeleteBranch(r)
  BY <1>0, <1>5 DEF ListOpen, PruneCheck, CloseRequest, DeleteBranch, Transition
<1> QED BY <1>1, <1>2, <1>3, <1>4, <1>5 DEF RunStep

\* A run goes on to push only what it compared.
LEMMA BuiltAfterStep ==
    ASSUME TypeOK, NEW r \in Runs, RunStep(r), pc'[r] = "built"
    PROVE  ~NothingToPush(r) /\ UNCHANGED <<before, run>>
<1>0. pc \in [Runs -> Pcs]
  BY DEF TypeOK
<1>1. CASE Build(r)
  BY <1>0, <1>1 DEF Build, Fail, Transition
<1>2. CASE \/ Plan(r) \/ FindMergeRequest(r) \/ RemoteBranch(r) \/ FetchAndCheck(r)
           \/ Push(r) \/ Publish(r)
  BY <1>0, <1>2 DEF Plan, FindMergeRequest, RemoteBranch, FetchAndCheck, Push, Publish, Fail, Transition
<1>3. CASE ListOpen(r) \/ PruneCheck(r) \/ CloseRequest(r) \/ DeleteBranch(r)
  BY <1>0, <1>3 DEF ListOpen, PruneCheck, CloseRequest, DeleteBranch, Transition
<1> QED BY <1>1, <1>2, <1>3 DEF RunStep

\* A run's own steps keep the invariant.
LEMMA RunStepsKeepIdleInv == ASSUME IdleInv, NEW r \in Runs, RunStep(r) PROVE IdleInv'
<1>0. /\ TypeOK /\ TypeOK' /\ PushesOnce /\ RefsArePushed /\ LeaseWasSeen /\ ComparedBefore
  BY PublishTyped, PruneTyped DEF IdleInv, RunStep
<1>1. PushesOnce'
  BY <1>0, BranchAfterStep, RefsAfterStep DEF PushesOnce
<1>2. RefsArePushed'
  <2>1. /\ remote' # NoRef => remote' \subseteq pushed'
        /\ OneBuild(remote') /\ pushed \subseteq pushed'
    BY <1>0, BranchAfterStep, AbsentIsNoCommit DEF RefsArePushed, OneBuild, NoRef
  <2>2. ASSUME NEW q \in Runs
        PROVE  /\ before'[q] # NoRef => before'[q] \subseteq pushed'
               /\ run'[q].tracked # NoRef => run'[q].tracked \subseteq pushed'
               /\ OneBuild(run'[q].tracked)
    <3>1. before'[q] \in {before[q], remote}
      BY RefsAfterStep, <1>0
    <3>2. \/ run'[q].tracked \in {run[q].tracked, remote}
          \/ run'[q].tracked = {q} /\ q \in pushed'
      BY RefsAfterStep, <1>0
    <3>3. OneBuild({q})
      BY DEF OneBuild
    <3> QED BY <1>0, <2>1, <3>1, <3>2, <3>3 DEF RefsArePushed
  <2> QED BY <2>1, <2>2 DEF RefsArePushed, OneBuild
<1>3. LeaseWasSeen'
  <2> SUFFICES ASSUME NEW p \in Runs, pc'[p] \in {"checked", "built"}, before'[p] # NoRef
               PROVE  /\ run'[p].tracked # NoRef
                      /\ ForeignAuthors(run'[p].tracked) = {}
                      /\ \A q \in Runs \cap before'[p] : q \in run'[p].tracked \/ q \notin remote'
    BY DEF LeaseWasSeen, ForeignAuthors, NoRef
  <2>1. CASE p # r
    <3>1. pc'[p] = pc[p] /\ before'[p] = before[p] /\ run'[p] = run[p]
      BY <1>0, <2>1, RefsAfterStep
    <3>2. \A q \in Runs \cap before[p] : q \in remote' => q \in remote
      <4>1. before[p] \subseteq pushed
        BY <1>0, <3>1 DEF RefsArePushed
      <4>2. r \in before[p] => pc[r] # "built"
        BY <1>0, <4>1 DEF PushesOnce, Ends
      <4> QED BY <1>0, <4>2, BranchAfterStep, AbsentIsNoCommit DEF NoRef
    <3> QED BY <1>0, <3>1, <3>2 DEF LeaseWasSeen
  <2>2. CASE p = r
    BY <1>0, <2>2, LeaseAfterStep DEF LeaseWasSeen
  <2> QED BY <2>1, <2>2
<1>4. ComparedBefore'
  <2> SUFFICES ASSUME NEW p \in Runs, pc'[p] = "built" PROVE ~NothingToPush(p)'
    BY DEF ComparedBefore
  <2>1. /\ ~NothingToPush(p) /\ before'[p] = before[p] /\ run'[p] = run[p]
    <3>1. CASE p # r
      BY <1>0, <3>1, RefsAfterStep DEF ComparedBefore
    <3>2. CASE p = r
      BY <1>0, <3>2, BuiltAfterStep
    <3> QED BY <3>1, <3>2
  <2>2. \A q \in Runs : run[p].tracked = {q} =>
            run'[q].want = run[q].want /\ run'[q].base = run[q].base
    <3> SUFFICES ASSUME NEW q \in Runs, run[p].tracked = {q}
                 PROVE  run'[q].want = run[q].want /\ run'[q].base = run[q].base
      OBVIOUS
    <3>1. {q} # NoRef
      BY AbsentIsNoCommit DEF NoRef
    <3>2. q \in pushed
      BY <1>0, <3>1 DEF RefsArePushed
    <3>3. pc[q] # "idle"
      BY <1>0, <3>2 DEF PushesOnce, Ends
    <3> QED BY <1>0, <3>3, PlansStand
  <2> QED BY <2>1, <2>2 DEF NothingToPush, SameTree, SamePaths
<1> QED BY <1>0, <1>1, <1>2, <1>3, <1>4 DEF IdleInv

\* Every run pushes once, its lease was looked at and what it is about to push
\* differs from what it looked at, whatever people put back on the branch.
THEOREM PushesAreCompared == Spec => []IdleInv
<1>1. Init => IdleInv
  <2>1. ASSUME Init PROVE PushesOnce /\ LeaseWasSeen /\ ComparedBefore
    BY <2>1 DEF Init, PushesOnce, LeaseWasSeen, ComparedBefore
  <2>2. ASSUME Init PROVE RefsArePushed
    BY <2>2, AbsentIsNoCommit DEF Init, RefsArePushed, OneBuild, NoRef
  <2> QED BY <2>1, <2>2, InitTyped DEF IdleInv
<1>2. IdleInv /\ [Next]_vars => IdleInv'
  <2>1. CASE UNCHANGED vars
    BY <2>1 DEF vars, IdleInv, TypeOK, PushesOnce, RefsArePushed, OneBuild, LeaseWasSeen,
                ComparedBefore, NothingToPush, SameTree, SamePaths, ForeignAuthors
  <2> QED BY <2>1, RunStepsKeepIdleInv, OthersKeepIdleInv DEF Next
<1> QED BY <1>1, <1>2, PTL DEF Spec

\* NoIdlePush: the lease that holds is the head the run compared with, for any
\* number of overlapping runs (runner.go, Execute and pushBranch).
THEOREM NoPushIsIdle == Spec => NoIdlePush
<1>1. ASSUME IdleInv, NEW r \in Runs, NEW q \in Runs,
             Push(r), remote = {q}, remote' # remote, ~run[r].rebase
      PROVE  \/ run[q].want # run[r].want
             \/ run[q].base # run[r].base /\ ~run[r].keep
  <2>0. /\ TypeOK /\ PushesOnce /\ RefsArePushed /\ LeaseWasSeen /\ ComparedBefore
        /\ run \in [Runs -> Run]
    BY <1>1 DEF IdleInv, TypeOK
  <2>1. PushAccepted(r) /\ pc[r] = "built" /\ remote' = {r} /\ q # r
    BY <1>1 DEF Push, PushedHead, Transition
  <2>2. before[r] = {q} /\ before[r] # NoRef
    BY <1>1, <2>1, AbsentIsNoCommit DEF PushAccepted, FastForward, NoRef
  <2>3. run[r].tracked # NoRef /\ ForeignAuthors(run[r].tracked) = {} /\ q \in run[r].tracked
    BY <1>1, <2>0, <2>1, <2>2 DEF LeaseWasSeen
  <2>4. run[r].tracked = {q}
    <3>1. run[r].tracked \subseteq Commits
      BY <2>0, <2>3 DEF Run, Refs
    <3>2. \A c \in run[r].tracked : c \in Runs
      BY <2>3, <3>1 DEF ForeignAuthors, Commits
    <3> QED BY <2>0, <2>3, <3>2 DEF RefsArePushed, OneBuild
  <2>5. ~NothingToPush(r)
    BY <2>0, <2>1 DEF ComparedBefore
  <2> QED BY <1>1, <2>2, <2>4, <2>5 DEF NothingToPush, SameTree, SamePaths
<1>2. IdleInv /\ [Next]_vars =>
        [\A r, q \in Runs :
           Push(r) /\ remote = {q} /\ remote' # remote /\ ~run[r].rebase
             => \/ run[q].want # run[r].want
                \/ run[q].base # run[r].base /\ ~run[r].keep]_vars
  BY <1>1
<1> QED BY <1>2, PushesAreCompared, PTL DEF Spec, NoIdlePush
=============================================================================
