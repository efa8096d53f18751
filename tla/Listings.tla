----------------------------- MODULE Listings ------------------------------
(***************************************************************************)
(* How requests and projects are listed, page by page, while people go on   *)
(* working (listPulls and ListProjects of platform/github,                  *)
(* listMergeRequests and ListProjects of platform/gitlab).                  *)
(*                                                                         *)
(* shots: what the platform holds when the first, second, ... page is asked *)
(* for, the newest request first.  A request is [number, branch, own,       *)
(* state, created, updated, merged]: own for a branch of the repository     *)
(* itself, merged 0 where it was not; a branch is [name, bot].  A project   *)
(* is [path, archived, member, push].                                      *)
(***************************************************************************)
EXTENDS Naturals, Sequences, FiniteSets

LOCAL INSTANCE SequencesExt

Query(state, branch, since) == [state |-> state, branch |-> branch, since |-> since]

\* ---------------------------------------------------------- external: hosts
\* GitHub's closed ones include the merged and have no time filter; GitLab
\* knows a branch by its name, in forks as well.
Admits(kind, q, m) ==
  /\ CASE kind = "github" -> (q.state = "open" => m.state = "open") /\ (q.state = "merged" => m.state /= "open")
       [] kind = "gitlab" -> (q.state /= "all" => m.state = q.state) /\ m.updated >= q.since
  /\ q.branch /= {} => m.branch.name \in q.branch /\ (kind = "github" => m.own)
ByUpdate(kind, q, ms) == IF kind = "github" /\ q.state = "merged" THEN SortSeq(ms, LAMBDA a, b : a.updated > b.updated) ELSE ms
Shown(kind, q, shot) == ByUpdate(kind, q, SelectSeq(shot, LAMBDA m : Admits(kind, q, m)))
At(shots, k) == shots[IF k <= Len(shots) THEN k ELSE Len(shots)]
More(list, k, size) == Len(list) > k * size
Page(list, k, size) == SubSeq(list, (k - 1) * size + 1, IF More(list, k, size) THEN k * size ELSE Len(list))

\* ------------------------------------------------------------------ walking
\* Page after page while the answer names a next one; the merged of GitHub
\* until one last updated before the time of interest.
Early(kind, q, m) == kind = "github" /\ q.state = "merged" /\ m.updated < q.since
Stops(kind, q, page) == \E i \in DOMAIN page : Early(kind, q, page[i])
UpTo(kind, q, page) == SelectSeq([i \in DOMAIN page |-> [m |-> page[i], at |-> i]], LAMBDA x : \A j \in 1 .. x.at : ~Early(kind, q, page[j]))
PagesRead(kind, q, shots, size) ==
  {k \in 1 .. 5 : \A j \in 1 .. k - 1 : LET list == Shown(kind, q, At(shots, j)) IN More(list, j, size) /\ ~Stops(kind, q, Page(list, j, size))}
ListPulls(kind, q, w) ==
  LET read == PagesRead(kind, q, w.shots, w.size)
      kept(k) == UpTo(kind, q, Page(Shown(kind, q, At(w.shots, k)), k, w.size))
  IN IF w.fails \in read THEN [err |-> TRUE, items |-> <<>>]
     ELSE [err |-> FALSE, items |-> FlattenSeq([k \in 1 .. Cardinality(read) |-> [i \in DOMAIN kept(k) |-> kept(k)[i].m]])]

ToPublish(m) == [number |-> m.number, branch |-> m.branch, state |-> CASE m.state = "open" -> "opened" [] m.merged > 0 -> "merged" [] OTHER -> "closed"]
Published(items) == [i \in DOMAIN items |-> ToPublish(items[i])]
OpenMergeRequests(kind, w) ==
  LET all == ListPulls(kind, Query("open", {}, 0), w) IN [all EXCEPT !.items = Published(SelectSeq(@, LAMBDA m : m.branch.bot))]
\* GitLab's merged ones count where the time of the merge is missing.
InTime(kind, m, since) == (kind = "gitlab" \/ m.merged > 0) /\ (m.merged = 0 \/ m.merged >= since)
MergedMergeRequests(kind, w, since) ==
  LET all == ListPulls(kind, Query("merged", {}, since), w)
  IN [all EXCEPT !.items = Published(SelectSeq(@, LAMBDA m : m.branch.bot /\ InTime(kind, m, since)))]
FindMergeRequest(kind, w, branch) ==
  LET all == ListPulls(kind, Query("open", {branch}, 0), w) IN [all EXCEPT !.items = IF @ = <<>> THEN <<>> ELSE <<ToPublish(Head(@))>>]
History(kind, w, branch) == LET all == ListPulls(kind, Query("all", {branch}, 0), w) IN [all EXCEPT !.items = Published(@)]

\* GitLab is asked for the member's live projects, GitHub's are sorted out.
ServedProjects(kind, projects) == SelectSeq(projects, LAMBDA p : p.member /\ (kind = "gitlab" => ~p.archived))
Kept(kind, projects) == SelectSeq(projects, LAMBDA p : kind = "github" => ~p.archived /\ p.push)
Sorted(projects) == SortSeq([i \in DOMAIN projects |-> projects[i].path], LAMBDA a, b : a < b)
ListProjects(kind, w) ==
  LET seen == ServedProjects(kind, w.projects)
      pages == {k \in 1 .. 5 : k = 1 \/ (k - 1) * w.size < Len(seen)}
  IN IF w.fails \in pages THEN [err |-> TRUE, items |-> <<>>] ELSE [err |-> FALSE, items |-> Sorted(Kept(kind, seen))]

\* ---------------------------------------------------------------- reference
Numbers(list) == {list[i].number : i \in DOMAIN list}
Open(shot) == {m \in ToSet(shot) : m.state = "open"}
\* Nothing left the list between the pages: what is open stayed so.
OnlyArrived(shots) == \A j, k \in DOMAIN shots : j < k => Open(shots[j]) \subseteq Open(shots[k])
Still(shots) == \A j, k \in DOMAIN shots : shots[j] = shots[k]
Times(list, n) == Cardinality({i \in DOMAIN list : list[i].number = n})

\* What is listed was there when its page was read; what was there from the
\* first page to the last is listed when nothing left meanwhile, and once
\* when nothing arrived.
OpenIsListed(w, got) ==
  ~got.err =>
    /\ \A i \in DOMAIN got.items : \E k \in DOMAIN w.shots : \E m \in Open(w.shots[k]) : m.branch.bot /\ ToPublish(m) = got.items[i]
    /\ OnlyArrived(w.shots) => {m.number : m \in {m \in Open(Head(w.shots)) : m.branch.bot}} \subseteq Numbers(got.items)
    /\ Still(w.shots) => \A n \in Numbers(got.items) : Times(got.items, n) = 1
MergedIsListed(w, since, got) ==
  ~got.err /\ Still(w.shots) =>
    Numbers(got.items) = {m.number : m \in {m \in ToSet(Head(w.shots)) : m.state = "merged" /\ m.branch.bot /\ m.merged >= since}}
\* The request of a branch is the newest open one; its history begins with
\* the newest.
BranchIsKnown(kind, w, branch, found, history) ==
  /\ ~found.err /\ found.items /= <<>> => found.items[1].state = "opened" /\ found.items[1].branch.name = branch
       /\ (kind = "github" => \E k \in DOMAIN w.shots : \E m \in Open(w.shots[k]) : m.own /\ m.number = found.items[1].number)
  /\ ~found.err /\ found.items = <<>> => \E k \in DOMAIN w.shots : \A m \in Open(w.shots[k]) : m.own => m.branch.name /= branch
  /\ ~history.err => \A i, j \in DOMAIN history.items : i < j => history.items[i].number >= history.items[j].number
  /\ ~history.err => {m.number : m \in {m \in ToSet(Head(w.shots)) : m.own /\ m.branch.name = branch}} \subseteq Numbers(history.items)
ProjectsAreListed(w, got) ==
  ~got.err =>
    /\ \A p \in ToSet(w.projects) : p.path \in ToSet(got.items) => ~p.archived
    /\ \A p \in ToSet(w.projects) : p.member /\ p.push /\ ~p.archived => p.path \in ToSet(got.items)
    /\ \A i, j \in DOMAIN got.items : i < j => got.items[i] < got.items[j]
ListsHold(kind, w) ==
  /\ OpenIsListed(w, OpenMergeRequests(kind, w))
  /\ \A since \in 1 .. 3 : MergedIsListed(w, since, MergedMergeRequests(kind, w, since))
  /\ BranchIsKnown(kind, w, "b", FindMergeRequest(kind, w, "b"), History(kind, w, "b"))
  /\ ProjectsAreListed(w, ListProjects(kind, w))
=============================================================================
