-------------------------------- MODULE Token --------------------------------
(***************************************************************************)
(* `pinup token rotate` (platform/gitlab/rotate.go, token.go): a daily job  *)
(* asks each of the bot's tokens for its expiry, rehearses the writes of    *)
(* the CI/CD variables they live in, rotates what is due and stores the new *)
(* values.  GitLab revokes the old value as it issues the new one, so the   *)
(* new value is held by the job alone until the first store.  A token value *)
(* is its generation.  Jobs may overlap, die at any call, lose an answer;   *)
(* people may take the bot's role away and repair what was stranded.        *)
(***************************************************************************)
EXTENDS Integers, Sequences, FiniteSets

CONSTANTS Jobs,        \* pipeline jobs that run the command on one day
          Self,        \* the token the command authenticates with
          Others,      \* sequence of the further tokens (--also)
          TargetsOf,   \* token -> sequence of the variables that store it
          Threshold, Lifetime, Retries,
          MaxDay, MaxDrops, MaxCrashes, MaxRoles     \* bounds of the model

Tokens == {Self} \cup {Others[i] : i \in DOMAIN Others}
Targets == UNION {{TargetsOf[t][k] : k \in DOMAIN TargetsOf[t]} : t \in Tokens}

\* cmdToken refuses a lifetime that does not exceed the threshold.
ASSUME LifetimeExceeds == Lifetime \in Nat /\ Threshold \in Nat /\ Lifetime > Threshold
ASSUME RetriesSome == Retries \in Nat \ {0}

\* Every token has a variable it is stored in, and a variable stores one
\* token: rehearse refuses one that holds another value.
ASSUME TargetsAssumption ==
    /\ Others \in Seq(Tokens)
    /\ \A t \in Tokens : TargetsOf[t] \in Seq(Targets) \ {<<>>}
    /\ \A t, u \in Tokens : \A k \in DOMAIN TargetsOf[t], l \in DOMAIN TargetsOf[u] :
          TargetsOf[t][k] = TargetsOf[u][l] => t = u

VARIABLES day,        \* whole days: due truncates now to the day
          issued,     \* token -> its only accepted generation
          expires,    \* token -> the day it stops being accepted
          stored,     \* variable -> the generation it holds
          mayWrite,   \* the bot's role allows it to write variables
          job,        \* the jobs of the day
          badDays,    \* days without a job that went through
          mishaps,    \* what went wrong from outside, so far
          drops, roles, crashes        \* bounded counts of the same
vars == <<day, issued, expires, stored, mayWrite, job, badDays, mishaps, drops, roles, crashes>>
outside == <<badDays, mishaps, drops, roles, crashes>>

\* The order of asking and rehearsing, and the order of rotating.
AskOrder == <<Self>> \o Others
RotateOrder == Others \o <<Self>>

NoJob == [pc |-> "idle", env |-> [t \in Tokens |-> 0], due |-> {}, at |-> 1, k |-> 1, tries |-> 0, fresh |-> 0, dry |-> FALSE]
Running(j) == job[j].pc \notin {"idle", "done", "failed", "stranded"}
Accepted(t, g) == g = issued[t] /\ day < expires[t]

Init == /\ day = 0
        /\ issued = [t \in Tokens |-> 1]
        /\ expires \in [Tokens -> {Threshold, Lifetime}]
        /\ stored = [v \in Targets |-> 1]
        /\ mayWrite \in BOOLEAN
        /\ job = [j \in Jobs |-> NoJob]
        /\ badDays = 0 /\ mishaps = {} /\ drops = 0 /\ roles = 0 /\ crashes = 0

\* A job that has ended forgets everything but how it ended.
Ended == {"done", "failed", "stranded"}
Goto(j, s) == job' = [job EXCEPT ![j] = IF s.pc \in Ended THEN [NoJob EXCEPT !.pc = s.pc, !.dry = s.dry] ELSE s]
End(j, how) == Goto(j, [job[j] EXCEPT !.pc = how])
Server == <<day, issued, expires, stored, mayWrite>>

-----------------------------------------------------------------------------
\* The job starts with the values of the variables as the pipeline sees them.
Start(j) ==
  /\ job[j].pc = "idle"
  /\ \E dry \in BOOLEAN :
       Goto(j, [NoJob EXCEPT !.pc = "ask", !.dry = dry,
                             !.env = [t \in Tokens |-> stored[TargetsOf[t][1]]]])
  /\ mishaps' = mishaps \cup IF \E i \in Jobs : Running(i) THEN {"overlap"} ELSE {}
  /\ UNCHANGED <<Server, badDays, drops, roles, crashes>>

MutDue(t) == expires[t] - day < Threshold

\* due: close enough to its expiry, the threshold's last day included.
Due(t) == expires[t] - day <= Threshold

\* After an answer: the next token, or what all the answers come to.
Asked(s) ==
  LET t == AskOrder[s.at]
      due == s.due \cup IF Due(t) THEN {t} ELSE {}
  IN IF s.at < Len(AskOrder) THEN [s EXCEPT !.at = @ + 1, !.due = due]
     ELSE IF due = {} /\ ~s.dry THEN [s EXCEPT !.pc = "done"]
     ELSE [s EXCEPT !.pc = "read", !.at = 1, !.k = 1, !.due = due]

\* One token answers for itself; a token that is not accepted ends the run.
Ask(j) ==
  LET s == job[j]
      t == AskOrder[s.at]
  IN /\ s.pc = "ask"
     /\ Goto(j, IF Accepted(t, s.env[t]) THEN Asked(s) ELSE [s EXCEPT !.pc = "failed"])
     /\ UNCHANGED <<Server, outside>>

\* rehearse, first half: every variable of the token holds the value the run has.
Read(s) == IF s.k < Len(TargetsOf[AskOrder[s.at]]) THEN [s EXCEPT !.k = @ + 1]
           ELSE [s EXCEPT !.pc = "rewrite", !.k = 1]

ReadVariable(j) ==
  LET s == job[j]
      t == AskOrder[s.at]
      good == Accepted(Self, s.env[Self]) /\ stored[TargetsOf[t][s.k]] = s.env[t]
  IN /\ s.pc = "read"
     /\ Goto(j, IF good THEN Read(s) ELSE [s EXCEPT !.pc = "failed"])
     /\ UNCHANGED <<Server, outside>>

\* What the rehearsal proves before anything irreversible: token and role.
MutMayRewrite(s) == Accepted(Self, s.env[Self])
MayRewrite(s) == Accepted(Self, s.env[Self]) /\ mayWrite

\* rehearse, second half: the value is written over itself.  The last write
\* ends a dry run and lets any other run rotate.
Rewritten(s) ==
  IF s.k < Len(TargetsOf[AskOrder[s.at]]) THEN [s EXCEPT !.k = @ + 1]
  ELSE IF s.at < Len(AskOrder) THEN [s EXCEPT !.pc = "read", !.at = @ + 1, !.k = 1]
  ELSE [s EXCEPT !.pc = IF s.dry THEN "done" ELSE "rotate", !.at = 1, !.k = 1]

Rehearse(j) ==
  LET s == job[j]
      t == AskOrder[s.at]
  IN /\ s.pc = "rewrite"
     /\ Goto(j, IF MayRewrite(s) THEN Rewritten(s) ELSE [s EXCEPT !.pc = "failed"])
     /\ stored' = IF MayRewrite(s) THEN [stored EXCEPT ![TargetsOf[t][s.k]] = s.env[t]] ELSE stored
     /\ UNCHANGED <<day, issued, expires, mayWrite, outside>>

\* The next token, after this one was not due or went through.
Advance(s) == IF s.at < Len(RotateOrder) THEN [s EXCEPT !.pc = "rotate", !.at = @ + 1, !.k = 1, !.tries = 0]
              ELSE [s EXCEPT !.pc = "done"]

NotDue(j) ==
  /\ job[j].pc = "rotate"
  /\ RotateOrder[job[j].at] \notin job[j].due
  /\ Goto(j, Advance(job[j]))
  /\ UNCHANGED <<Server, outside>>

\* RotateByID speaks with the run's own token and names the other by the id
\* its value answered to; RotateSelf is the case in which both are the same.
MayRotate(s, t) == Accepted(Self, s.env[Self]) /\ Accepted(t, s.env[t])

Issue(t) == /\ issued' = [issued EXCEPT ![t] = @ + 1]
            /\ expires' = [expires EXCEPT ![t] = day + Lifetime]

\* RotateByID and RotateSelf: refused with a dead token, otherwise the old
\* value is dead from here on - whether the answer arrives or not.
Rotate(j) ==
  LET s == job[j]
      t == RotateOrder[s.at]
  IN /\ s.pc = "rotate" /\ t \in s.due
     /\ \/ /\ ~MayRotate(s, t)
           /\ End(j, "failed")
           /\ UNCHANGED <<Server, outside>>
        \/ /\ MayRotate(s, t)
           /\ Issue(t)
           /\ \/ /\ Goto(j, [s EXCEPT !.pc = "store", !.k = 1, !.tries = 0, !.fresh = issued[t] + 1])
                 /\ UNCHANGED outside
              \/ /\ drops < MaxDrops /\ drops' = drops + 1
                 /\ mishaps' = mishaps \cup {"answer"}
                 /\ End(j, "failed")
                 /\ UNCHANGED <<badDays, roles, crashes>>
           /\ UNCHANGED <<day, stored, mayWrite>>

\* The token a store speaks with: its own new value when the run's own token
\* was rotated, the run's otherwise.
Speaks(s) == LET t == RotateOrder[s.at]
             IN IF t = Self THEN Accepted(Self, s.fresh) ELSE Accepted(Self, s.env[Self])

\* A failed write is tried again, the last one strands the token.
Again(s) == IF s.tries + 1 < Retries THEN [s EXCEPT !.tries = @ + 1] ELSE [s EXCEPT !.pc = "stranded"]

MutWritten(s) == [s EXCEPT !.pc = "verify"]

\* After a write that went through: the next variable, or the check.
Written(s) == LET t == RotateOrder[s.at]
              IN IF s.k < Len(TargetsOf[t]) THEN [s EXCEPT !.k = @ + 1, !.tries = 0]
                 ELSE [s EXCEPT !.pc = "verify"]

Store(j) ==
  LET s == job[j]
      t == RotateOrder[s.at]
  IN /\ s.pc = "store"
     /\ \/ /\ Speaks(s) /\ mayWrite
           /\ stored' = [stored EXCEPT ![TargetsOf[t][s.k]] = s.fresh]
           /\ Goto(j, Written(s))
           /\ UNCHANGED outside
        \/ /\ ~(Speaks(s) /\ mayWrite)
           /\ Goto(j, Again(s))
           /\ UNCHANGED <<stored, outside>>
        \/ /\ drops < MaxDrops /\ drops' = drops + 1
           /\ Goto(j, Again(s))
           /\ UNCHANGED <<stored, badDays, mishaps, roles, crashes>>
     /\ UNCHANGED <<day, issued, expires, mayWrite>>

\* The new token answers for itself.
Verify(j) ==
  LET s == job[j]
  IN /\ s.pc = "verify"
     /\ Goto(j, IF Accepted(RotateOrder[s.at], s.fresh) THEN Advance(s) ELSE [s EXCEPT !.pc = "failed"])
     /\ UNCHANGED <<Server, outside>>

JobStep(j) == Start(j) \/ Ask(j) \/ ReadVariable(j) \/ Rehearse(j) \/ NotDue(j) \/ Rotate(j) \/ Store(j) \/ Verify(j)

-----------------------------------------------------------------------------
\* A job dies between two calls.
Crash(j) ==
  /\ Running(j) /\ crashes < MaxCrashes
  /\ End(j, "failed")
  /\ crashes' = crashes + 1 /\ mishaps' = mishaps \cup {"crash"}
  /\ UNCHANGED <<Server, badDays, drops, roles>>

\* A person changes the role of the bot.
ChangeRole ==
  /\ roles < MaxRoles /\ roles' = roles + 1
  /\ mayWrite' = ~mayWrite
  /\ mishaps' = mishaps \cup IF \E j \in Jobs : Running(j) THEN {"role"} ELSE {}
  /\ UNCHANGED <<day, issued, expires, stored, job, badDays, drops, crashes>>

\* The token lives in some variable, or the job that rotated it still holds it.
Holds(j, t) == Running(j) /\ job[j].pc \in {"store", "verify"}
               /\ RotateOrder[job[j].at] = t /\ job[j].fresh = issued[t]
Held(t) == \/ \E k \in DOMAIN TargetsOf[t] : stored[TargetsOf[t][k]] = issued[t]
           \/ \E j \in Jobs : Holds(j, t)
InStep(t) == \A k \in DOMAIN TargetsOf[t] : stored[TargetsOf[t][k]] = issued[t]

\* The day ends when every job of it has; a job that went through and was no
\* dry run makes it a good one.
Good(j) == job[j].pc = "done" /\ ~job[j].dry
Tick ==
  /\ day < MaxDay
  /\ \E j \in Jobs : job[j].pc /= "idle"
  /\ \A j \in Jobs : ~Running(j)
  /\ day' = day + 1
  /\ badDays' = IF \E j \in Jobs : Good(j) THEN 0 ELSE badDays + 1
  /\ job' = [j \in Jobs |-> NoJob]
  /\ UNCHANGED <<issued, expires, stored, mayWrite, mishaps, drops, roles, crashes>>

Next == \/ \E j \in Jobs : JobStep(j) \/ Crash(j)
        \/ ChangeRole
        \/ Tick
Spec == Init /\ [][Next]_vars

-----------------------------------------------------------------------------
Pcs == {"idle", "ask", "read", "rewrite", "rotate", "store", "verify"} \cup Ended
Job == [pc : Pcs, env : [Tokens -> Nat], due : SUBSET Tokens, at : DOMAIN AskOrder,
        k : Nat \ {0}, tries : 0 .. Retries - 1, fresh : Nat, dry : BOOLEAN]

TypeOK ==
  /\ day \in Nat /\ badDays \in Nat
  /\ issued \in [Tokens -> Nat]
  /\ expires \in [Tokens -> Nat]
  /\ stored \in [Targets -> Nat]
  /\ mayWrite \in BOOLEAN
  /\ job \in [Jobs -> Job]
  /\ \A j \in Jobs : /\ job[j].pc \in {"read", "rewrite"} => job[j].k \in DOMAIN TargetsOf[AskOrder[job[j].at]]
                     /\ job[j].pc = "store" => job[j].k \in DOMAIN TargetsOf[RotateOrder[job[j].at]]
  /\ mishaps \subseteq {"overlap", "answer", "crash", "role"}
  /\ {drops, roles, crashes} \subseteq Nat

\* Without a crash, a lost answer, a role taken away while a job runs, or as
\* many dropped writes as there are retries, no token is stranded; the run's
\* own token not even when two jobs overlap.
OneHolder ==
  drops < Retries =>
    /\ mishaps \subseteq {"overlap"} => Held(Self)
    /\ mishaps = {} => \A t \in Tokens : Held(t)

\* In a history without a crash, a lost answer, a role taken away or two jobs at
\* a time, and with fewer dropped writes than there are retries, a job that ends
\* well and did not only rehearse leaves every token far from its expiry and in
\* every variable that stores it: no reader is left behind with a revoked value.
\* (After a half-written store a run with nothing due does not look.)
DoneIsRenewed ==
  [][\A j \in Jobs : job[j].pc /= "done" /\ job'[j].pc = "done" /\ ~job[j].dry /\ mishaps = {} /\ drops < Retries
        => \A t \in Tokens : ~Due(t)' /\ InStep(t)']_vars

\* The threshold is a reserve of days: as long as fewer days in a row than it
\* passed without a job that went through, no token has expired.
InTime == badDays < Threshold => \A t \in Tokens : day < expires[t]
=============================================================================
