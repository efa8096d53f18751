------------------------------ MODULE Branching ------------------------------
(***************************************************************************)
(* From updates to branches: planner/policy.go (Decide), planner/branch.go  *)
(* (Compose) and the lifts and holds of cmd/pinup/whatif.go.  An update     *)
(* carries its place in the plan and the sequence of the reasons it is held *)
(* for; a branch carries its members, the reason it is held for ("" for     *)
(* none) and, when one member's window or approval holds the others, that   *)
(* reason (heldWith).                                                       *)
(***************************************************************************)
EXTENDS Integers, Sequences, FiniteSets, SequencesExt

Unheld == -1       \* no release time is known
NoBranch == [members |-> <<>>, suppressedBy |-> "", heldWith |-> "", automerge |-> FALSE]

Blocked(u) == u.blocks /= <<>>
If(c, b) == IF c THEN <<b>> ELSE <<>>

\* What a loop that appends the elements it keeps makes of a sequence.
Kept(s, places) ==
  LET kept[k \in 0..Len(s)] ==
        IF k = 0 THEN <<>> ELSE IF k \in places THEN Append(kept[k - 1], s[k]) ELSE kept[k - 1]
  IN kept[Len(s)]

-----------------------------------------------------------------------------
\* Decide: the order is the order a reader wants to know.  The age concerns
\* versions only; with no time known it holds unless it is optional.
Ageless == {"lockFileMaintenance", "digest", "pinDigest"}

MutTooYoung(u, p, now) == u.time /= Unheld /\ now < u.time + p.age
TooYoung(u, p, now) ==
  /\ p.age > 0 /\ ~u.waived /\ u.type \notin Ageless
  /\ IF u.time = Unheld THEN ~p.optional ELSE now < u.time + p.age

Decide(u, p, now, windowOpen) ==
  [u EXCEPT !.blocks =
     Kept(@, {k \in DOMAIN @ : @[k] = "pluginRequired"})
     \o If(u.type = "majorAvailable", "rollingMajor")
     \o If(~p.enabled, "disabled")
     \o If(p.approval, "approval")
     \o If(TooYoung(u, p, now), "age")
     \o If(p.scheduled /\ ~windowOpen, "schedule")]

\* applyUpdateRules: a security fix travels under vulnerabilityAlerts, a fix
\* of an exploited hole waits for no age and no approval, a project's own age
\* raises the policy's, and a major fix is never merged unread.
MutPolicyOf(p, alerts, u, exploited, floor) == IF u.fix THEN alerts ELSE p
PolicyOf(p, alerts, u, exploited, floor) ==
  LET own == IF u.fix THEN [alerts EXCEPT !.automerge = @ /\ u.type /= "major"] ELSE p
      kev == IF u.fix /\ exploited THEN [own EXCEPT !.age = 0, !.approval = FALSE] ELSE own
  IN [kev EXCEPT !.age = IF floor > @ THEN floor ELSE @]

\* The automerge a matchEffective rule set on a label milder than the declared
\* one stays off unless the label is trusted.
Relaxes(automerge, byEffective, effective, declared, trusted) ==
  automerge /\ (effective /= 0 /\ effective < declared /\ byEffective => trusted)

\* Stricter: the higher of two risks, unknown (0) losing to everything.
Stricter(a, b) == IF a > b THEN a ELSE b
AutomergeRisk(declared, effective, trust) ==
  IF trust /\ effective /= 0 THEN effective ELSE Stricter(declared, effective)

-----------------------------------------------------------------------------
\* The first block that is decided for the branch rather than the member.
BranchLevelBlock(u) ==
  LET level == {k \in DOMAIN u.blocks : u.blocks[k] \in {"schedule", "approval"}}
  IN IF level = {} THEN "" ELSE u.blocks[Min(level)]

CarriesSecurityRefresh(members) ==
  \E i \in DOMAIN members : LET u == members[i]
                            IN u.fix /\ u.type = "lockFileMaintenance" /\ ~Blocked(u)

\* One actionable update per dependency: the highest bucket, the first of it.
Rank(type) == CASE type = "major" -> 3 [] type = "minor" -> 2 [] type = "patch" -> 1 [] OTHER -> 0
Ranked(u) == ~Blocked(u) /\ Rank(u.type) > 0
OneUpdatePerDependency(us) ==
  LET Beaten(i) == \E j \in DOMAIN us : /\ Ranked(us[j]) /\ us[j].dep = us[i].dep
                                        /\ \/ Rank(us[j].type) > Rank(us[i].type)
                                           \/ Rank(us[j].type) = Rank(us[i].type) /\ j < i
  IN Kept(us, {i \in DOMAIN us : Ranked(us[i]) => ~Beaten(i)})

ActionableFirst(us) ==
  LET blocked == {i \in DOMAIN us : Blocked(us[i])} IN Kept(us, DOMAIN us \ blocked) \o Kept(us, blocked)

Join(b, u) == [b EXCEPT !.members = Append(@, u), !.automerge = @ /\ u.automerge]

\* A held update joins a held branch; a branch that acts is held with it for a
\* window or an approval, and goes without it for anything else.
MutAddMember(b, u) ==
  IF b = NoBranch
    THEN [members |-> <<u>>, suppressedBy |-> IF Blocked(u) THEN u.blocks[1] ELSE "",
          heldWith |-> "", automerge |-> u.automerge]
  ELSE Join(b, u)
AddMember(b, u) ==
  LET level == BranchLevelBlock(u)
  IN IF b = NoBranch
       THEN [members |-> <<u>>, suppressedBy |-> IF Blocked(u) THEN u.blocks[1] ELSE "",
             heldWith |-> "", automerge |-> u.automerge]
     ELSE IF ~Blocked(u) THEN Join(b, u)
     ELSE IF level = "schedule" /\ ~u.fix /\ CarriesSecurityRefresh(b.members) THEN b
     ELSE IF b.suppressedBy /= "" THEN Join(b, u)
     ELSE IF level = "" THEN b
     ELSE [Join(b, u) EXCEPT !.suppressedBy = level, !.heldWith = level]

\* One branch, of the updates that share its name.
Compose(us) == FoldLeft(AddMember, NoBranch, OneUpdatePerDependency(ActionableFirst(us)))

-----------------------------------------------------------------------------
\* lift: the reason leaves every member, and the branch is held for the first
\* reason of the member that is still held and first in the plan.
Without(u, reason) == [u EXCEPT !.blocks = Kept(@, {k \in DOMAIN @ : @[k] /= reason})]
Lift(b, reason) ==
  LET ms == [i \in DOMAIN b.members |-> Without(b.members[i], reason)]
      held == {ms[i] : i \in {j \in DOMAIN ms : Blocked(ms[j])}}
  IN [b EXCEPT !.members = ms, !.heldWith = "",
               !.suppressedBy = IF held = {} THEN ""
                                ELSE (CHOOSE u \in held : \A w \in held : u.at <= w.at).blocks[1]]

\* liftByDashboard: ticked reasons, and a schedule behind a ticked one.  Each
\* round takes a reason off every member, so there are no more rounds than
\* reasons.
MutLiftByDashboard(b, ticks) ==
  IF b.suppressedBy \in ticks
    THEN [b EXCEPT !.members = [i \in DOMAIN @ |-> [@[i] EXCEPT !.blocks = <<>>]], !.suppressedBy = "", !.heldWith = ""]
  ELSE b
LiftByDashboard(b, ticks) ==
  LET round[k \in 0..4] ==
        IF k = 0 THEN [branch |-> b, ticked |-> FALSE]
        ELSE LET r == round[k - 1]
                 why == r.branch.suppressedBy
             IN IF why /= "" /\ (why \in ticks \/ (r.ticked /\ why = "schedule"))
                THEN [branch |-> Lift(r.branch, why), ticked |-> TRUE] ELSE r
  IN round[4].branch

\* liftForOpen: the window gates creation, not the request that exists.
MutLiftForOpen(b, isOpen) == IF b.suppressedBy = "schedule" THEN Lift(b, "schedule") ELSE b
LiftForOpen(b, isOpen) == IF isOpen /\ b.suppressedBy = "schedule" THEN Lift(b, "schedule") ELSE b

\* holdBranch: every member that acts gets the reason, the branch no edits.
HoldBranch(b, reason) ==
  [b EXCEPT !.members = [i \in DOMAIN @ |-> IF Blocked(@[i]) THEN @[i] ELSE [@[i] EXCEPT !.blocks = <<reason>>]],
            !.suppressedBy = reason]

\* realise: a branch held with a member gives the others that reason; one
\* whose edit, lock or task is refused is held as a whole.
Realise(b, refused) ==
  IF b.suppressedBy /= "" THEN (IF b.heldWith /= "" THEN HoldBranch(b, b.heldWith) ELSE b)
  ELSE IF refused /= "" /\ b.members /= <<>> THEN HoldBranch(b, refused) ELSE b

Acts(b) == b.members /= <<>> /\ b.suppressedBy = ""
=============================================================================
