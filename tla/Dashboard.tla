------------------------------ MODULE Dashboard ------------------------------
(***************************************************************************)
(* The dashboard: one issue per repository that says what is held and why   *)
(* and takes instructions back as ticked boxes (report/dashboard.go, the    *)
(* issues of platform/gitlab and platform/github).                          *)
(*                                                                         *)
(* A plan is [branches, updates, deps, warnings, unmanaged]; a branch is    *)
(* [name, hold, keys], its hold "" or the reason of SuppressedBy; an update *)
(* [key, dep, type, fix, value, blocks <<[reason, until]>>], a dependency   *)
(* [key, cves, withdrawn <<[id, fixed]>>, skip, upToDate, heldBack].  A run *)
(* is [plan, states (branch -> action), open (branches with a request)].    *)
(* A page is a sequence of lines [section, about, says, box, ticked], box   *)
(* is {} or {[marker, branch]}; the wording is left out.                    *)
(***************************************************************************)
EXTENDS Naturals, Sequences, FiniteSets

LOCAL INSTANCE SequencesExt

\* ------------------------------------------------------------ what is read
\* The boxes ticked on a page; the three without a branch speak for all.
Ticked(page, marker) == {b.branch : b \in {b \in UNION {page[i].box : i \in {i \in DOMAIN page : page[i].ticked}} : b.marker = marker}}
ParseChecks(page) ==
  [approve |-> Ticked(page, "approve-branch"), unschedule |-> Ticked(page, "unschedule-branch"),
   approvePr |-> Ticked(page, "approvePr-branch"), rebase |-> Ticked(page, "rebase-branch"), retry |-> Ticked(page, "retry-branch"),
   approveAll |-> Ticked(page, "approve-all-pending-prs") /= {}, createAll |-> Ticked(page, "create-all-awaiting-schedule-prs") /= {},
   rebaseAll |-> Ticked(page, "rebase-all-open-prs") /= {}]
AnyTicked(c) == c.approveAll \/ c.createAll \/ c.rebaseAll \/ c.approve \cup c.unschedule \cup c.approvePr \cup c.rebase \cup c.retry /= {}
Lifted(c, branch, reason) ==
  CASE reason = "dashboardApproval" -> c.approveAll \/ branch \in c.approve
    [] reason = "schedule" -> c.createAll \/ branch \in c.unschedule
    [] reason = "minimumReleaseAge" -> branch \in c.approvePr
    [] OTHER -> FALSE
RebaseSet(c) == c.rebase \cup c.retry \cup (IF c.rebaseAll THEN {"*"} ELSE {})

\* --------------------------------------------------------- what is written
Action(run, br) == IF br.name \in DOMAIN run.states THEN run.states[br.name] ELSE "none"
Opened(run, br) == br.name \in run.open /\ br.hold = ""

\* A maintenance that found the lock current is listed nowhere.
SectionOf(run, br) ==
  CASE Opened(run, br) -> "open"
    [] ~Opened(run, br) /\ Action(run, br) = "failed" -> "errored"
    [] ~Opened(run, br) /\ Action(run, br) /= "failed" /\ br.hold = "" -> "planned"
    [] OTHER -> CASE br.hold = "nothingToRefresh" -> "none" [] br.hold = "dashboardApproval" -> "pending" [] br.hold = "schedule" -> "scheduled"
                  [] br.hold = "minimumReleaseAge" -> "aged" [] OTHER -> "held"
SortBranches(run, section) == SelectSeq(run.plan.branches, LAMBDA br : SectionOf(run, br) = section)

UpdatesOf(plan, br) == {plan.updates[i] : i \in {i \in DOMAIN plan.updates : plan.updates[i].key \in ToSet(br.keys)}}
Update(plan, key) == {u \in ToSet(plan.updates) : u.key = key}

\* The first block that names the hold; none states no time.
BlocksNaming(plan, br) ==
  FlattenSeq([i \in DOMAIN br.keys |->
    FlattenSeq([u \in 1 .. Len(plan.updates) |->
      IF plan.updates[u].key = br.keys[i] THEN SelectSeq(plan.updates[u].blocks, LAMBDA b : b.reason = br.hold) ELSE <<>>])])
FirstBlock(plan, br) == LET all == BlocksNaming(plan, br) IN IF all = <<>> THEN [reason |-> br.hold, until |-> 0] ELSE Head(all)

Line(section, about, says, box) == [section |-> section, about |-> about, says |-> says, box |-> box, ticked |-> FALSE]
Box(marker, branch) == {[marker |-> marker, branch |-> branch]}
Row(run, section, marker, br) == Line(section, br.name, <<Action(run, br), FirstBlock(run.plan, br).until>>, IF marker = "" THEN {} ELSE Box(marker, br.name))
Rows(run, section, marker) == LET brs == SortBranches(run, section) IN [i \in DOMAIN brs |-> Row(run, section, marker, brs[i])]
Boxed(run, section, marker, all) ==
  IF SortBranches(run, section) = <<>> THEN <<>>
  ELSE Rows(run, section, marker) \o (IF all = "" THEN <<>> ELSE <<Line(section, "", <<"", 0>>, Box(all, ""))>>)

Pending(run) == Boxed(run, "pending", "approve-branch", "approve-all-pending-prs")
MutScheduled(run) == Boxed(run, "scheduled", "approve-branch", "create-all-awaiting-schedule-prs")
Scheduled(run) == Boxed(run, "scheduled", "unschedule-branch", "create-all-awaiting-schedule-prs")
Aged(run) == Boxed(run, "aged", "approvePr-branch", "")
OtherHeld(run) == Rows(run, "held", "")
Errored(run) == Rows(run, "errored", "retry-branch")
OpenedRows(run) == Boxed(run, "open", "rebase-branch", "rebase-all-open-prs")
Actionable(run) == Rows(run, "planned", "")

\* A list is cut, and says by how many.
Cut(section, items, shown, rest) ==
  [i \in 1 .. (IF Len(items) > shown THEN shown ELSE Len(items)) |-> Line(section, "", <<items[i], 0>>, {})]
  \o (IF Len(items) > shown THEN <<Line(section, "more", <<"", rest>>, {})>> ELSE <<>>)
Problems(run) ==
  Cut("problems", SelectSeq(run.plan.warnings, LAMBDA w : w /= "has no effect"), 20, Len(run.plan.warnings) - 20)
Unmanaged(run) == Cut("unmanaged", run.plan.unmanaged, 30, Len(run.plan.unmanaged) - 30)

\* Exploited: the branches with a fix for one, then the dependencies no fix
\* branch covers.
FixesOf(plan, br) == {u \in UpdatesOf(plan, br) : u.fix}
ExploitedCVEs(plan, key) == UNION {d.cves : d \in {d \in ToSet(plan.deps) : d.key = key}}
CVEsOf(plan, br) == UNION {ExploitedCVEs(plan, u.dep) : u \in FixesOf(plan, br)}
Standing(run, br) ==
  CASE Opened(run, br) -> "open" [] ~Opened(run, br) /\ Action(run, br) = "failed" -> "failed"
    [] OTHER -> IF br.hold /= "" THEN "held" ELSE "planned"
Covered(plan) == {u.dep : u \in UNION {FixesOf(plan, br) : br \in ToSet(plan.branches)}}
MajorFix(plan, br) == \E u \in FixesOf(plan, br) : u.type = "major" /\ ExploitedCVEs(plan, u.dep) /= {}
Exploited(run) ==
  LET brs == SelectSeq(run.plan.branches, LAMBDA br : CVEsOf(run.plan, br) /= {})
      deps == SelectSeq(run.plan.deps, LAMBDA d : d.cves /= {} /\ d.key \notin Covered(run.plan))
  IN [i \in DOMAIN brs |-> Line("exploited", brs[i].name, <<Standing(run, brs[i]), IF MajorFix(run.plan, brs[i]) THEN 1 ELSE 0>>, {})]
     \o [i \in DOMAIN deps |-> Line("exploited", deps[i].key, <<IF deps[i].skip = "" THEN "no fix planned" ELSE deps[i].skip, 0>>, {})]

\* Every dependency, with the values proposed for it or why there are none,
\* and that its version was withdrawn.
WithdrawnNote(d) == IF d.withdrawn = <<>> THEN "" ELSE IF Last(d.withdrawn).fixed = "" THEN "withdrawn" ELSE Last(d.withdrawn).fixed
Proposed(plan, d) == {u.value : u \in {u \in ToSet(plan.updates) : u.dep = d.key}}
Why(plan, d) == IF Proposed(plan, d) /= {} THEN d.heldBack ELSE IF d.upToDate THEN "" ELSE d.skip
Detected(run) ==
  [i \in DOMAIN run.plan.deps |->
     Line("detected", run.plan.deps[i].key,
          <<Why(run.plan, run.plan.deps[i]), Cardinality(Proposed(run.plan, run.plan.deps[i])), WithdrawnNote(run.plan.deps[i])>>, {})]

Page(run) ==
  Problems(run) \o Exploited(run) \o Unmanaged(run) \o Pending(run) \o Scheduled(run) \o Aged(run) \o OtherHeld(run)
  \o Errored(run) \o OpenedRows(run) \o Actionable(run) \o Detected(run)

\* ---------------------------------------------------------------- the issue
\* An issue is [author, bot, title, body, labels, pull], a tracker [host,
\* user (whether the token has one), fails, sticks, issues]: open issues only.
Self == "pinup"
Mine(t, is) ==
  IF t.host = "gitlab" THEN is.author = Self
  ELSE ~is.pull /\ (IF t.user THEN is.author = Self ELSE is.bot)
Titled(t, title) == SelectSeq([i \in DOMAIN t.issues |-> i], LAMBDA i : Mine(t, t.issues[i]) /\ t.issues[i].title = title)
Found(t, title) ==
  IF t.fails \/ (t.host = "github" /\ Len(Titled(t, title)) > 1) THEN [err |-> TRUE, at |-> 0]
  ELSE [err |-> FALSE, at |-> IF Titled(t, title) = <<>> THEN 0 ELSE Head(Titled(t, title))]
ReadIssue(t, title) ==
  LET f == Found(t, title) IN [err |-> f.err, body |-> IF f.err \/ f.at = 0 THEN <<>> ELSE t.issues[f.at].body]

SameSet(a, b) == Len(a) = Len(b) /\ ToSet(b) \subseteq ToSet(a)
Shows(is, page, labels) == is.body = page /\ SameSet(is.labels, labels)
Brought(t, is, page, labels) == IF t.sticks THEN [is EXCEPT !.body = page, !.labels = labels] ELSE is
UpsertAt(t, title, at, page, labels) ==
  IF at = 0
    THEN [err |-> FALSE, changed |-> TRUE, tracker |->
            [t EXCEPT !.issues = Append(@, [author |-> Self, bot |-> ~t.user, title |-> title, body |-> page, labels |-> labels, pull |-> FALSE])]]
  ELSE IF Shows(t.issues[at], page, labels)
    THEN [err |-> FALSE, changed |-> FALSE, tracker |-> t]
  ELSE [err |-> t.host = "gitlab" /\ ~Shows(Brought(t, t.issues[at], page, labels), page, labels), changed |-> TRUE,
        tracker |-> [t EXCEPT !.issues[at] = Brought(t, @, page, labels)]]
UpsertIssue(t, title, page, labels) ==
  LET f == Found(t, title)
  IN IF f.err THEN [err |-> TRUE, changed |-> FALSE, tracker |-> t] ELSE UpsertAt(t, title, f.at, page, labels)

\* ---------------------------------------------------------------- reference
BoxesOf(page) == UNION {page[i].box : i \in DOMAIN page}
Tick(page, boxes) == [i \in DOMAIN page |-> [page[i] EXCEPT !.ticked = page[i].box /= {} /\ page[i].box \subseteq boxes]]
Liftable == {"dashboardApproval", "schedule", "minimumReleaseAge"}
HeldBy(run, reason) == {br.name : br \in {br \in ToSet(run.plan.branches) : br.hold = reason}}

\* What a ticked box says to the reader, and what it does.  The box for all
\* open requests is the exception: the runner looks up a branch's name, never
\* "*" (README).
AsksFor(run, box) ==
  CASE box.marker \in {"approve-branch", "unschedule-branch", "approvePr-branch", "rebase-branch", "retry-branch"} -> {box.branch}
    [] box.marker = "approve-all-pending-prs" -> HeldBy(run, "dashboardApproval")
    [] box.marker = "create-all-awaiting-schedule-prs" -> HeldBy(run, "schedule")
    [] OTHER -> {}
Lifts(run, c) == {br.name : br \in {br \in ToSet(run.plan.branches) : Lifted(c, br.name, br.hold)}}
Pushes(run, c) == {br.name : br \in {br \in ToSet(run.plan.branches) : br.name \in RebaseSet(c)}}
Listed(page, name) == {i \in DOMAIN page : page[i].about = name /\ page[i].section \notin {"exploited", "detected"}}

BoxesMeanWhatTheySay(run, page) ==
  /\ ~AnyTicked(ParseChecks(page))
  /\ \A boxes \in {b \in SUBSET BoxesOf(page) : Cardinality(b) \in 1 .. 2} :
       LET c == ParseChecks(Tick(page, boxes))
       IN Lifts(run, c) \cup Pushes(run, c) = UNION {AsksFor(run, b) : b \in boxes}
NothingIsHidden(run, page) ==
  /\ \A br \in ToSet(run.plan.branches) :
       /\ Cardinality(Listed(page, br.name)) = (IF br.hold = "nothingToRefresh" /\ Action(run, br) /= "failed" THEN 0 ELSE 1)
       /\ br.hold \in Liftable /\ Action(run, br) /= "failed" =>
            \E box \in BoxesOf(page) : Lifted(ParseChecks(Tick(page, {box})), br.name, br.hold) /\ box.branch = br.name
  /\ \A d \in ToSet(run.plan.deps) : d.cves /= {} =>
       \E i \in DOMAIN page : page[i].section = "exploited" /\
         (page[i].about = d.key \/ \E br \in ToSet(run.plan.branches) : br.name = page[i].about /\ \E u \in UpdatesOf(run.plan, br) : u.dep = d.key)
  /\ \A s \in {"problems", "unmanaged"} :
       LET all == SelectSeq(IF s = "problems" THEN run.plan.warnings ELSE run.plan.unmanaged, LAMBDA w : w /= "has no effect")
           shown == {i \in DOMAIN page : page[i].section = s /\ page[i].about = ""}
           more == {page[i].says[2] : i \in {i \in DOMAIN page : page[i].section = s /\ page[i].about = "more"}}
       IN Cardinality(shown) + (IF more = {} THEN 0 ELSE CHOOSE m \in more : TRUE) >= Len(all)

\* Another account's issue is not the dashboard; a token without a user knows
\* only that a bot wrote it.
Strangers(t, title) == {i \in DOMAIN t.issues : t.issues[i].title = title /\ (t.issues[i].author /= Self \/ t.issues[i].pull)}
Recognised(t, title) == t.host = "gitlab" \/ t.user \/ \A i \in Strangers(t, title) : ~t.issues[i].bot \/ t.issues[i].pull
Kept(t, after, title) ==
  \A i \in DOMAIN t.issues : t.issues[i].title /= title \/ i \in Strangers(t, title) => after.issues[i] = t.issues[i]

\* One page, a person's ticks on it, the next run: it reads those ticks and no
\* others, and its own page has none.
AnsweredBy(t, title, page, boxes, next, first) ==
  LET at == Found(first.tracker, title).at
      ticked == [first.tracker EXCEPT !.issues[at].body = Tick(@, boxes)]
      second == UpsertIssue(ticked, title, next, <<"pinup">>)
  IN ~first.err /\ (t.host = "gitlab" \/ t.sticks) =>
       /\ at /= 0 /\ ReadIssue(first.tracker, title).body = page
       /\ ~UpsertIssue(first.tracker, title, page, <<"pinup">>).changed
       /\ Kept(t, first.tracker, title)
       /\ ParseChecks(ReadIssue(ticked, title).body) = ParseChecks(Tick(page, boxes))
       /\ ~second.err => ~AnyTicked(ParseChecks(ReadIssue(second.tracker, title).body)) /\ Len(second.tracker.issues) = Len(first.tracker.issues)
AnsweredOnce(t, title, page, boxes, next) == AnsweredBy(t, title, page, boxes, next, UpsertIssue(t, title, page, <<"pinup">>))

(***************************************************************************)
(* Every branch is on the page once, under what stands in its way; every    *)
(* hold a person may lift has a box; a ticked box does for the next run     *)
(* what it says, for those branches and no others, and is cleared by it;    *)
(* nobody else's issue is written.                                          *)
(***************************************************************************)
TakenOn(run, next, t, title, page) ==
  /\ BoxesMeanWhatTheySay(run, page)
  /\ NothingIsHidden(run, page)
  /\ Recognised(t, title) => \A boxes \in {{}, BoxesOf(page)} : AnsweredOnce(t, title, page, boxes, Page(next))
TakesInstructions(run, next, t, title) == TakenOn(run, next, t, title, Page(run))
=============================================================================
