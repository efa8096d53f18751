---------------------------- MODULE Token_proofs ----------------------------
(***************************************************************************)
(* Proofs about Token for every set of jobs, of tokens and of variables,    *)
(* every threshold and lifetime, and without a bound on days, crashes, lost *)
(* answers or changes of the role.                                          *)
(*                                                                         *)
(* Three invariants carry them.  Deadlines: what a job has found out about  *)
(* expiries stays true while it runs, because an expiry only ever moves     *)
(* away.  Speaking: the job that may store can, because what the rehearsal  *)
(* proved still holds.  Kept: each token is in step with its variables, or  *)
(* one job carries its only value and has failed no oftener than an answer  *)
(* was lost.                                                                *)
(***************************************************************************)
EXTENDS Token, TLAPS

-----------------------------------------------------------------------------
(* The two orders name every token and nothing else.                       *)

\* A position of either order is a token's.
LEMMA OrdersTyped ==
    /\ DOMAIN AskOrder = 1 .. Len(Others) + 1 /\ Len(AskOrder) = Len(Others) + 1
    /\ DOMAIN RotateOrder = 1 .. Len(Others) + 1 /\ Len(RotateOrder) = Len(Others) + 1
    /\ Len(Others) \in Nat
    /\ \A i \in DOMAIN AskOrder : AskOrder[i] \in Tokens
    /\ \A i \in DOMAIN RotateOrder : RotateOrder[i] \in Tokens
<1>1. Others \in Seq(Tokens) /\ Self \in Tokens
  BY TargetsAssumption DEF Tokens
<1> QED BY <1>1 DEF AskOrder, RotateOrder

\* Every token is asked, and has its turn to be rotated.
LEMMA OrdersComplete ==
    ASSUME NEW t \in Tokens
    PROVE  /\ \E i \in DOMAIN AskOrder : AskOrder[i] = t
           /\ \E i \in DOMAIN RotateOrder : RotateOrder[i] = t
<1>0. Others \in Seq(Tokens)
  BY TargetsAssumption
<1>1. CASE t = Self
  <2>1. AskOrder[1] = t /\ 1 \in DOMAIN AskOrder
    BY <1>0, <1>1 DEF AskOrder
  <2>2. RotateOrder[Len(Others) + 1] = t /\ Len(Others) + 1 \in DOMAIN RotateOrder
    BY <1>0, <1>1 DEF RotateOrder
  <2> QED BY <2>1, <2>2
<1>2. CASE t # Self
  <2>1. PICK i \in DOMAIN Others : Others[i] = t
    BY <1>2 DEF Tokens
  <2>2. AskOrder[i + 1] = t /\ i + 1 \in DOMAIN AskOrder
    BY <1>0, <2>1, <1>2 DEF AskOrder
  <2>3. RotateOrder[i] = t /\ i \in DOMAIN RotateOrder
    BY <1>0, <2>1, <1>2 DEF RotateOrder
  <2> QED BY <2>2, <2>3
<1> QED BY <1>1, <1>2

\* Every variable of a token is one of the variables.
LEMMA TargetsTyped ==
    ASSUME NEW t \in Tokens
    PROVE  /\ TargetsOf[t] \in Seq(Targets) /\ Len(TargetsOf[t]) \in Nat \ {0}
           /\ DOMAIN TargetsOf[t] = 1 .. Len(TargetsOf[t])
           /\ 1 \in DOMAIN TargetsOf[t]
           /\ \A k \in DOMAIN TargetsOf[t] : TargetsOf[t][k] \in Targets
BY TargetsAssumption

-----------------------------------------------------------------------------
(* Type correctness.                                                       *)

\* A job that writes a variable is at one of its token's variables.
Placed(s) ==
    /\ s.pc \in {"read", "rewrite"} => s.k \in DOMAIN TargetsOf[AskOrder[s.at]]
    /\ s.pc = "store" => s.k \in DOMAIN TargetsOf[RotateOrder[s.at]]

\* The state before a job starts is a job's.
LEMMA NoJobTyped == NoJob \in Job /\ Placed(NoJob)
<1>1. 1 \in DOMAIN AskOrder /\ 0 \in 0 .. Retries - 1
  BY OrdersTyped, RetriesSome
<1>2. [t \in Tokens |-> 0] \in [Tokens -> Nat]
  OBVIOUS
<1> QED BY <1>1, <1>2 DEF NoJob, Job, Pcs, Ended, Placed

\* Goto changes one job: to what it is told, or to how it ended.
LEMMA GotoJob ==
    ASSUME job \in [Jobs -> Job], NEW j \in Jobs, NEW s \in Job, Placed(s), Goto(j, s)
    PROVE  /\ job' \in [Jobs -> Job]
           /\ \A i \in Jobs \ {j} : job'[i] = job[i]
           /\ job'[j].pc = s.pc /\ job'[j].dry = s.dry
           /\ s.pc \notin Ended => job'[j] = s
           /\ Placed(job'[j])
<1>1. CASE s.pc \in Ended
  <2>1. [NoJob EXCEPT !.pc = s.pc, !.dry = s.dry] \in Job
    BY NoJobTyped DEF Job
  <2>2. job' = [job EXCEPT ![j] = [NoJob EXCEPT !.pc = s.pc, !.dry = s.dry]]
    BY <1>1 DEF Goto
  <2>3. job'[j].pc = s.pc /\ job'[j].dry = s.dry
    BY <2>2, NoJobTyped DEF Job
  <2> QED BY <1>1, <2>1, <2>2, <2>3 DEF Placed, Ended
<1>2. CASE s.pc \notin Ended
  BY <1>2 DEF Goto
<1> QED BY <1>1, <1>2

\* A job and its token where a step finds them.
LEMMA JobTyped ==
    ASSUME TypeOK, NEW j \in Jobs
    PROVE  /\ job[j] \in Job /\ Placed(job[j])
           /\ AskOrder[job[j].at] \in Tokens /\ RotateOrder[job[j].at] \in Tokens
           /\ job[j].at \in 1 .. Len(AskOrder) /\ Len(AskOrder) = Len(RotateOrder) /\ Len(AskOrder) \in Nat
BY OrdersTyped DEF TypeOK, Job, Placed

\* A job may end wherever it is.
LEMMA EndTyped ==
    ASSUME NEW s \in Job, NEW how \in Ended
    PROVE  [s EXCEPT !.pc = how] \in Job /\ Placed([s EXCEPT !.pc = how])
BY DEF Job, Pcs, Ended, Placed

\* The way to the next token is a job's.
LEMMA AdvanceTyped ==
    ASSUME NEW s \in Job
    PROVE  Advance(s) \in Job /\ Placed(Advance(s)) /\ Advance(s).pc \in {"rotate", "done"}
<1>1. s.at \in 1 .. Len(RotateOrder) /\ Len(RotateOrder) \in Nat /\ DOMAIN AskOrder = 1 .. Len(RotateOrder)
      /\ 0 \in 0 .. Retries - 1
  BY OrdersTyped, RetriesSome DEF Job
<1>2. CASE s.at < Len(RotateOrder)
  <2>1. s.at + 1 \in DOMAIN AskOrder
    BY <1>1, <1>2
  <2>2. Advance(s) = [s EXCEPT !.pc = "rotate", !.at = s.at + 1, !.k = 1, !.tries = 0]
    BY <1>2 DEF Advance, Job
  <2>3. Advance(s) \in Job
    <3>1. "rotate" \in Pcs /\ 1 \in Nat \ {0} /\ 0 \in 0 .. Retries - 1
      BY <1>1 DEF Pcs
    <3> QED BY <2>1, <2>2, <3>1 DEF Job
  <2>4. Advance(s).pc = "rotate"
    BY <2>2 DEF Job
  <2> QED BY <2>3, <2>4 DEF Placed
<1>3. CASE ~(s.at < Len(RotateOrder))
  BY <1>3 DEF Advance, Job, Pcs, Ended, Placed
<1> QED BY <1>2, <1>3

\* So is a write tried again, and what follows one that went through.
LEMMA AgainTyped ==
    ASSUME NEW s \in Job, Placed(s), s.pc = "store"
    PROVE  Again(s) \in Job /\ Placed(Again(s))
BY RetriesSome DEF Again, Job, Pcs, Ended, Placed

LEMMA WrittenTyped ==
    ASSUME NEW s \in Job, Placed(s), s.pc = "store"
    PROVE  Written(s) \in Job /\ Placed(Written(s))
<1>1. RotateOrder[s.at] \in Tokens /\ 0 \in 0 .. Retries - 1
  BY OrdersTyped, RetriesSome DEF Job
<1>2. s.k < Len(TargetsOf[RotateOrder[s.at]]) => s.k + 1 \in DOMAIN TargetsOf[RotateOrder[s.at]]
  BY <1>1, TargetsTyped DEF Job
<1>3. CASE s.k < Len(TargetsOf[RotateOrder[s.at]])
  <2>1. Written(s) = [s EXCEPT !.k = @ + 1, !.tries = 0]
    BY <1>3 DEF Written
  <2>2. s.k + 1 \in Nat \ {0}
    BY DEF Job
  <2>3. Written(s) \in Job
    BY <1>1, <2>1, <2>2 DEF Job
  <2>4. Written(s).pc = s.pc /\ Written(s).at = s.at /\ Written(s).k = s.k + 1
    BY <2>1 DEF Job
  <2> QED BY <1>2, <1>3, <2>3, <2>4 DEF Placed
<1>4. CASE ~(s.k < Len(TargetsOf[RotateOrder[s.at]]))
  BY <1>4 DEF Written, Job, Pcs, Placed
<1> QED BY <1>3, <1>4

\* So is what follows an answer, a reading and a rehearsed write.
LEMMA AskedTyped ==
    ASSUME NEW s \in Job, s.pc = "ask"
    PROVE  Asked(s) \in Job /\ Placed(Asked(s))
<1> DEFINE t == AskOrder[s.at]
           due == s.due \cup IF Due(t) THEN {t} ELSE {}
<1>1. t \in Tokens /\ s.at \in 1 .. Len(AskOrder) /\ Len(AskOrder) \in Nat
      /\ DOMAIN AskOrder = 1 .. Len(AskOrder) /\ 1 \in DOMAIN AskOrder
  BY OrdersTyped DEF Job
<1>2. due \in SUBSET Tokens
  BY <1>1 DEF Job
<1>3. Asked(s) = IF s.at < Len(AskOrder) THEN [s EXCEPT !.at = s.at + 1, !.due = due]
                 ELSE IF due = {} /\ ~s.dry THEN [s EXCEPT !.pc = "done"]
                 ELSE [s EXCEPT !.pc = "read", !.at = 1, !.k = 1, !.due = due]
  BY DEF Asked, Job
<1> HIDE DEF due
<1>4. CASE s.at < Len(AskOrder)
  <2>1. s.at + 1 \in DOMAIN AskOrder
    BY <1>1, <1>4
  <2>2. Asked(s) = [s EXCEPT !.at = s.at + 1, !.due = due]
    BY <1>3, <1>4
  <2>3. Asked(s) \in Job /\ Asked(s).pc = s.pc /\ Asked(s).k = s.k /\ Asked(s).at = s.at + 1
    BY <1>2, <2>1, <2>2 DEF Job
  <2> QED BY <2>3 DEF Placed
<1>5. CASE ~(s.at < Len(AskOrder)) /\ due = {} /\ ~s.dry
  BY <1>3, <1>5, EndTyped DEF Ended
<1>6. CASE ~(s.at < Len(AskOrder)) /\ ~(due = {} /\ ~s.dry)
  <2>1. Asked(s) = [s EXCEPT !.pc = "read", !.at = 1, !.k = 1, !.due = due]
    BY <1>3, <1>6, Zenon
  <2>2. "read" \in Pcs /\ 1 \in Nat \ {0} /\ 1 \in DOMAIN AskOrder
    BY <1>1 DEF Pcs
  <2>3. Asked(s) \in Job
    BY <1>2, <2>1, <2>2 DEF Job
  <2>4. AskOrder[1] \in Tokens
    BY <1>1, OrdersTyped
  <2>5. Asked(s).pc = "read" /\ Asked(s).k = 1 /\ Asked(s).at = 1
    BY <2>1 DEF Job
  <2> QED BY <2>3, <2>4, <2>5, TargetsTyped DEF Placed
<1> QED BY <1>4, <1>5, <1>6

LEMMA ReadTyped ==
    ASSUME NEW s \in Job, Placed(s), s.pc = "read"
    PROVE  Read(s) \in Job /\ Placed(Read(s))
<1>1. AskOrder[s.at] \in Tokens
  BY OrdersTyped DEF Job
<1>2. CASE s.k < Len(TargetsOf[AskOrder[s.at]])
  <2>1. s.k + 1 \in DOMAIN TargetsOf[AskOrder[s.at]] /\ s.k + 1 \in Nat \ {0}
    BY <1>1, <1>2, TargetsTyped DEF Job
  <2>2. Read(s) = [s EXCEPT !.k = s.k + 1]
    BY <1>2 DEF Read, Job
  <2> QED BY <2>1, <2>2 DEF Job, Placed
<1>3. CASE ~(s.k < Len(TargetsOf[AskOrder[s.at]]))
  <2>1. Read(s) = [s EXCEPT !.pc = "rewrite", !.k = 1]
    BY <1>3 DEF Read
  <2>2. "rewrite" \in Pcs /\ 1 \in Nat \ {0} /\ 1 \in DOMAIN TargetsOf[AskOrder[s.at]]
    BY <1>1, TargetsTyped DEF Pcs
  <2> QED BY <2>1, <2>2 DEF Job, Placed
<1> QED BY <1>2, <1>3

LEMMA RewrittenTyped ==
    ASSUME NEW s \in Job, Placed(s), s.pc = "rewrite"
    PROVE  Rewritten(s) \in Job /\ Placed(Rewritten(s)) /\ Rewritten(s).dry = s.dry
<1>1. AskOrder[s.at] \in Tokens /\ s.at \in 1 .. Len(AskOrder) /\ Len(AskOrder) \in Nat
      /\ DOMAIN AskOrder = 1 .. Len(AskOrder) /\ 1 \in DOMAIN AskOrder
  BY OrdersTyped DEF Job
<1>2. CASE s.k < Len(TargetsOf[AskOrder[s.at]])
  <2>1. s.k + 1 \in DOMAIN TargetsOf[AskOrder[s.at]] /\ s.k + 1 \in Nat \ {0}
    BY <1>1, <1>2, TargetsTyped DEF Job
  <2>2. Rewritten(s) = [s EXCEPT !.k = s.k + 1]
    BY <1>2 DEF Rewritten, Job
  <2> QED BY <2>1, <2>2 DEF Job, Placed
<1>3. CASE ~(s.k < Len(TargetsOf[AskOrder[s.at]])) /\ s.at < Len(AskOrder)
  <2>1. Rewritten(s) = [s EXCEPT !.pc = "read", !.at = s.at + 1, !.k = 1]
    BY <1>3 DEF Rewritten, Job
  <2>2. "read" \in Pcs /\ 1 \in Nat \ {0} /\ s.at + 1 \in DOMAIN AskOrder
    BY <1>1, <1>3 DEF Pcs
  <2>3. Rewritten(s) \in Job
    BY <2>1, <2>2 DEF Job
  <2>4. AskOrder[s.at + 1] \in Tokens
    BY <2>2, OrdersTyped
  <2>5. Rewritten(s).pc = "read" /\ Rewritten(s).k = 1 /\ Rewritten(s).at = s.at + 1 /\ Rewritten(s).dry = s.dry
    BY <2>1 DEF Job
  <2> QED BY <2>3, <2>4, <2>5, TargetsTyped DEF Placed
<1>4. CASE ~(s.k < Len(TargetsOf[AskOrder[s.at]])) /\ ~(s.at < Len(AskOrder))
  <2>1. PICK pc \in {"done", "rotate"} : Rewritten(s) = [s EXCEPT !.pc = pc, !.at = 1, !.k = 1]
    BY <1>4 DEF Rewritten
  <2>2. pc \in Pcs /\ 1 \in Nat \ {0} /\ 1 \in DOMAIN AskOrder
    BY <1>1 DEF Pcs, Ended
  <2>3. Rewritten(s) \in Job /\ Rewritten(s).pc \in {"done", "rotate"} /\ Rewritten(s).dry = s.dry
    BY <2>1, <2>2 DEF Job
  <2> QED BY <2>3 DEF Placed
<1> QED BY <1>2, <1>3, <1>4

\* What remains for a step of a job that goes to a job's state.
LEMMA JobStepTyped ==
    ASSUME TypeOK, NEW j \in Jobs, NEW s \in Job, Placed(s), Goto(j, s),
           day' \in Nat /\ badDays' \in Nat /\ mayWrite' \in BOOLEAN,
           issued' \in [Tokens -> Nat], expires' \in [Tokens -> Nat],
           stored' \in [Targets -> Nat],
           mishaps' \subseteq {"overlap", "answer", "crash", "role"}, {drops', roles', crashes'} \subseteq Nat
    PROVE  TypeOK'
<1>1. job' \in [Jobs -> Job] /\ \A i \in Jobs : Placed(job'[i])
  BY GotoJob DEF TypeOK, Placed
<1> QED BY <1>1 DEF TypeOK, Placed

\* The steps that only look keep the types.
LEMMA LookTyped ==
    ASSUME TypeOK, NEW j \in Jobs, Ask(j) \/ ReadVariable(j) \/ NotDue(j) \/ Verify(j)
    PROVE  TypeOK'
<1> DEFINE s == job[j]
<1>1. UNCHANGED <<Server, outside>>
  BY DEF Ask, ReadVariable, NotDue, Verify
<1>2. s \in Job /\ Placed(s)
  BY JobTyped
<1>3. \E u \in Job : Placed(u) /\ Goto(j, u)
  <2>1. [s EXCEPT !.pc = "failed"] \in Job /\ Placed([s EXCEPT !.pc = "failed"])
    BY <1>2, EndTyped DEF Ended
  <2>2. CASE Ask(j)
    BY <2>1, <2>2, <1>2, AskedTyped DEF Ask
  <2>3. CASE ReadVariable(j)
    BY <2>1, <2>3, <1>2, ReadTyped DEF ReadVariable
  <2>4. CASE NotDue(j)
    BY <2>4, <1>2, AdvanceTyped DEF NotDue
  <2>5. CASE Verify(j)
    BY <2>1, <2>5, <1>2, AdvanceTyped DEF Verify
  <2> QED BY <2>2, <2>3, <2>4, <2>5
<1>4. PICK u \in Job : Placed(u) /\ Goto(j, u)
  BY <1>3
<1>5. /\ day' = day /\ badDays' = badDays /\ mayWrite' = mayWrite /\ issued' = issued
      /\ expires' = expires /\ stored' = stored /\ mishaps' = mishaps
      /\ drops' = drops /\ roles' = roles /\ crashes' = crashes
  BY <1>1 DEF Server, outside
<1> QED BY <1>4, <1>5, JobStepTyped DEF TypeOK

\* A job starts with a generation of every token, or dies.
LEMMA StartTyped == ASSUME TypeOK, NEW j \in Jobs, Start(j) \/ Crash(j) PROVE TypeOK'
<1>1. CASE Start(j)
  <2> DEFINE env == [t \in Tokens |-> stored[TargetsOf[t][1]]]
  <2>1. PICK dry \in BOOLEAN : Goto(j, [NoJob EXCEPT !.pc = "ask", !.dry = dry, !.env = env])
    BY <1>1 DEF Start
  <2>2. env \in [Tokens -> Nat]
    BY TargetsTyped DEF TypeOK
  <2> HIDE DEF env
  <2>3. "ask" \in Pcs
    BY DEF Pcs
  <2>4. [NoJob EXCEPT !.pc = "ask", !.dry = dry, !.env = env] \in Job
    BY <2>2, <2>3, NoJobTyped DEF Job
  <2>5. [NoJob EXCEPT !.pc = "ask", !.dry = dry, !.env = env].pc = "ask"
    BY NoJobTyped DEF Job
  <2>6. Placed([NoJob EXCEPT !.pc = "ask", !.dry = dry, !.env = env])
    BY <2>5 DEF Placed
  <2>7. /\ day' = day /\ badDays' = badDays /\ mayWrite' = mayWrite /\ issued' = issued
        /\ expires' = expires /\ stored' = stored /\ mishaps' \subseteq mishaps \cup {"overlap"}
        /\ drops' = drops /\ roles' = roles /\ crashes' = crashes
    BY <1>1 DEF Start, Server
  <2> QED BY <2>1, <2>4, <2>6, <2>7, JobStepTyped DEF TypeOK
<1>2. CASE Crash(j)
  <2>1. [job[j] EXCEPT !.pc = "failed"] \in Job /\ Placed([job[j] EXCEPT !.pc = "failed"])
    BY JobTyped, EndTyped DEF Ended
  <2> QED BY <1>2, <2>1, JobStepTyped DEF Crash, End, Server, TypeOK
<1> QED BY <1>1, <1>2

\* A rehearsed write stores a generation.
LEMMA RehearseTyped == ASSUME TypeOK, NEW j \in Jobs, Rehearse(j) PROVE TypeOK'
<1> DEFINE s == job[j]
           t == AskOrder[s.at]
<1>1. s \in Job /\ Placed(s) /\ t \in Tokens /\ s.pc = "rewrite"
  BY JobTyped DEF Rehearse
<1>2. PICK u \in Job : Placed(u) /\ Goto(j, u)
  <2>1. [s EXCEPT !.pc = "failed"] \in Job /\ Placed([s EXCEPT !.pc = "failed"])
    BY <1>1, EndTyped DEF Ended
  <2> QED BY <1>1, <2>1, RewrittenTyped DEF Rehearse
<1>3. stored' \in [Targets -> Nat]
  BY <1>1 DEF Rehearse, TypeOK, Job
<1> QED BY <1>2, <1>3, JobStepTyped DEF Rehearse, outside, TypeOK

\* A rotation issues the next generation; a job that lost the answer fails.
LEMMA RotateTyped == ASSUME TypeOK, NEW j \in Jobs, Rotate(j) PROVE TypeOK'
<1> DEFINE s == job[j]
           t == RotateOrder[s.at]
<1>1. s \in Job /\ Placed(s) /\ t \in Tokens
  BY JobTyped
<1>2. [s EXCEPT !.pc = "failed"] \in Job /\ Placed([s EXCEPT !.pc = "failed"])
  BY <1>1, EndTyped DEF Ended
<1>3. CASE ~MayRotate(s, t)
  <2>1. Goto(j, [s EXCEPT !.pc = "failed"]) /\ UNCHANGED <<Server, outside>>
    BY <1>3 DEF Rotate, End
  <2> QED BY <1>2, <2>1, JobStepTyped DEF Server, outside, TypeOK
<1>4. CASE MayRotate(s, t)
  <2>1. issued' \in [Tokens -> Nat] /\ expires' \in [Tokens -> Nat]
        /\ day' = day /\ stored' = stored /\ mayWrite' = mayWrite
    BY <1>1, <1>4, LifetimeExceeds DEF Rotate, Issue, TypeOK
  <2>2. \/ UNCHANGED outside /\ Goto(j, [s EXCEPT !.pc = "store", !.k = 1, !.tries = 0, !.fresh = issued[t] + 1])
        \/ /\ drops' = drops + 1 /\ mishaps' = mishaps \cup {"answer"} /\ UNCHANGED <<badDays, roles, crashes>>
           /\ Goto(j, [s EXCEPT !.pc = "failed"])
    BY <1>4 DEF Rotate, End
  <2>3. CASE UNCHANGED outside /\ Goto(j, [s EXCEPT !.pc = "store", !.k = 1, !.tries = 0, !.fresh = issued[t] + 1])
    <3> DEFINE fresh == issued[t] + 1
               u == [s EXCEPT !.pc = "store", !.k = 1, !.tries = 0, !.fresh = fresh]
    <3>1. fresh \in Nat /\ "store" \in Pcs /\ 1 \in Nat \ {0} /\ 0 \in 0 .. Retries - 1
      BY <1>1, RetriesSome DEF Pcs, TypeOK
    <3> HIDE DEF fresh
    <3>2. u \in Job
      BY <1>1, <3>1 DEF Job
    <3>3. u.k = 1 /\ u.at = s.at /\ u.pc = "store"
      BY <1>1 DEF Job
    <3>4. Placed(u)
      BY <1>1, <3>3, TargetsTyped DEF Placed
    <3>5. Goto(j, u)
      BY <2>3 DEF fresh
    <3> HIDE DEF u
    <3> QED BY <2>1, <2>3, <3>2, <3>4, <3>5, JobStepTyped DEF outside, TypeOK
  <2>4. CASE /\ drops' = drops + 1 /\ mishaps' = mishaps \cup {"answer"} /\ UNCHANGED <<badDays, roles, crashes>>
             /\ Goto(j, [s EXCEPT !.pc = "failed"])
    BY <1>2, <2>1, <2>4, JobStepTyped DEF TypeOK
  <2> QED BY <2>2, <2>3, <2>4
<1> QED BY <1>3, <1>4

\* A store writes a generation, or is tried again.
LEMMA StoreTyped == ASSUME TypeOK, NEW j \in Jobs, Store(j) PROVE TypeOK'
<1> DEFINE s == job[j]
           t == RotateOrder[s.at]
<1>1. s \in Job /\ Placed(s) /\ t \in Tokens /\ s.pc = "store"
  BY JobTyped DEF Store
<1>2. PICK u \in Job : Placed(u) /\ Goto(j, u)
  BY <1>1, AgainTyped, WrittenTyped DEF Store
<1>3. TargetsOf[t][s.k] \in Targets /\ s.fresh \in Nat
  BY <1>1, TargetsTyped DEF Placed, Job
<1>4. stored' \in [Targets -> Nat]
  BY <1>1, <1>3 DEF Store, TypeOK
<1>5. /\ day' = day /\ badDays' = badDays /\ mayWrite' = mayWrite /\ issued' = issued /\ expires' = expires
      /\ mishaps' = mishaps /\ drops' \in {drops, drops + 1} /\ roles' = roles /\ crashes' = crashes
  BY DEF Store, outside
<1> QED BY <1>2, <1>4, <1>5, JobStepTyped DEF TypeOK

\* A change of the role and the end of a day keep the types.
LEMMA OutsideTyped == ASSUME TypeOK, ChangeRole \/ Tick PROVE TypeOK'
<1>1. CASE ChangeRole
  BY <1>1 DEF ChangeRole, TypeOK
<1>2. CASE Tick
  <2>1. job' = [j \in Jobs |-> NoJob]
    BY <1>2 DEF Tick
  <2>2. job' \in [Jobs -> Job] /\ \A j \in Jobs : Placed(job'[j])
    BY <2>1, NoJobTyped
  <2>3. /\ day' = day + 1 /\ badDays' \in {0, badDays + 1}
        /\ UNCHANGED <<issued, expires, stored, mayWrite, mishaps, drops, roles, crashes>>
    BY <1>2 DEF Tick
  <2> QED BY <2>2, <2>3 DEF TypeOK, Placed
<1> QED BY <1>1, <1>2

\* Every job is at a token and a variable it can name, and every variable
\* holds a generation.
THEOREM TypeCorrect == Spec => []TypeOK
<1>1. Init => TypeOK
  <2> SUFFICES ASSUME Init PROVE TypeOK
    OBVIOUS
  <2>1. job \in [Jobs -> Job] /\ \A j \in Jobs : Placed(job[j])
    BY NoJobTyped DEF Init
  <2> QED BY <2>1, LifetimeExceeds DEF Init, TypeOK, Placed
<1>2. TypeOK /\ [Next]_vars => TypeOK'
  <2> SUFFICES ASSUME TypeOK, [Next]_vars PROVE TypeOK'
    OBVIOUS
  <2>1. ASSUME NEW j \in Jobs, JobStep(j) \/ Crash(j) PROVE TypeOK'
    BY <2>1, LookTyped, StartTyped, RehearseTyped, RotateTyped, StoreTyped DEF JobStep
  <2>2. CASE UNCHANGED vars
    BY <2>2 DEF vars, TypeOK
  <2> QED BY <2>1, <2>2, OutsideTyped DEF Next
<1> QED BY <1>1, <1>2, PTL DEF Spec

-----------------------------------------------------------------------------
(* The threshold is a reserve.                                             *)

DueTokens == {t \in Tokens : Due(t)}

\* What a job at s has found out or done about the tokens due.
Knows(s, due) ==
    /\ s.pc = "ask" => \A i \in 1 .. s.at - 1 : AskOrder[i] \in due => AskOrder[i] \in s.due
    /\ s.pc \in {"read", "rewrite", "rotate", "store", "verify"} => due \subseteq s.due
    /\ s.pc \in {"rotate", "store", "verify"} => \A i \in 1 .. s.at - 1 : RotateOrder[i] \notin due
    /\ s.pc \in {"store", "verify"} => RotateOrder[s.at] \notin due
    /\ s.pc = "done" /\ ~s.dry => due = {}

\* Every day without a job that went through costs at most one of the days
\* the last one left.
Reserve == \A t \in Tokens :
    /\ expires[t] <= day + Lifetime
    /\ expires[t] + badDays >= day + Threshold

Deadlines == TypeOK /\ Reserve /\ \A j \in Jobs : Knows(job[j], DueTokens)

\* A job that has ended knows no more than how, one that has not begun nothing.
LEMMA EndKnows ==
    ASSUME NEW s \in Job, NEW due, s.pc \in {"idle", "failed", "stranded"}
    PROVE  Knows(s, due)
BY DEF Knows

LEMMA FailedKnows ==
    ASSUME NEW s \in Job, NEW due
    PROVE  Knows([s EXCEPT !.pc = "failed"], due)
<1>1. [s EXCEPT !.pc = "failed"].pc = "failed"
  BY DEF Job
<1> QED BY <1>1 DEF Knows

\* What is known of the tokens due is known of fewer.
LEMMA FewerDue ==
    ASSUME NEW s \in Job, NEW due, NEW fewer \in SUBSET due, Knows(s, due)
    PROVE  Knows(s, fewer)
BY DEF Knows

\* The job knows as much after each of its own moves.
LEMMA AskedKnows ==
    ASSUME NEW s \in Job, s.pc = "ask", Knows(s, DueTokens)
    PROVE  Knows(Asked(s), DueTokens)
<1> DEFINE t == AskOrder[s.at]
           due == s.due \cup IF Due(t) THEN {t} ELSE {}
<1>1. t \in Tokens /\ s.at \in 1 .. Len(AskOrder) /\ Len(AskOrder) \in Nat
      /\ DOMAIN AskOrder = 1 .. Len(AskOrder)
  BY OrdersTyped DEF Job
<1>2. Asked(s) = IF s.at < Len(AskOrder) THEN [s EXCEPT !.at = s.at + 1, !.due = due]
                 ELSE IF due = {} /\ ~s.dry THEN [s EXCEPT !.pc = "done"]
                 ELSE [s EXCEPT !.pc = "read", !.at = 1, !.k = 1, !.due = due]
  BY DEF Asked, Job
<1>3. \A i \in 1 .. s.at : AskOrder[i] \in DueTokens => AskOrder[i] \in due
  <2> TAKE i \in 1 .. s.at
  <2>1. CASE i = s.at
    BY <2>1 DEF DueTokens
  <2>2. CASE i # s.at
    <3>1. i \in 1 .. s.at - 1
      BY <1>1, <2>2
    <3> QED BY <3>1 DEF Knows
  <2> QED BY <2>1, <2>2
<1> HIDE DEF due
<1>4. CASE s.at < Len(AskOrder)
  <2>1. Asked(s).pc = "ask" /\ Asked(s).at = s.at + 1 /\ Asked(s).due = due
    BY <1>2, <1>4 DEF Job
  <2>2. 1 .. Asked(s).at - 1 = 1 .. s.at
    BY <1>1, <2>1
  <2> QED BY <1>3, <2>1, <2>2 DEF Knows
<1>5. CASE ~(s.at < Len(AskOrder))
  <2>1. DueTokens \subseteq due
    <3> SUFFICES ASSUME NEW u \in DueTokens PROVE u \in due
      OBVIOUS
    <3>1. PICK i \in DOMAIN AskOrder : AskOrder[i] = u
      BY OrdersComplete DEF DueTokens
    <3>2. i \in 1 .. s.at
      BY <1>1, <1>5
    <3> QED BY <1>3, <3>1, <3>2
  <2>2. CASE due = {} /\ ~s.dry
    <3>1. Asked(s) = [s EXCEPT !.pc = "done"]
      BY <1>2, <1>5, <2>2
    <3>2. Asked(s).pc = "done"
      BY <3>1 DEF Job
    <3> QED BY <2>1, <2>2, <3>2 DEF Knows
  <2>3. CASE ~(due = {} /\ ~s.dry)
    <3>1. Asked(s) = [s EXCEPT !.pc = "read", !.at = 1, !.k = 1, !.due = due]
      BY <1>2, <1>5, <2>3
    <3>2. Asked(s).pc = "read" /\ Asked(s).due = due
      BY <3>1 DEF Job
    <3> QED BY <2>1, <3>2 DEF Knows
  <2> QED BY <2>2, <2>3
<1> QED BY <1>4, <1>5

LEMMA RehearsedKnows ==
    ASSUME NEW s \in Job, NEW due, Knows(s, due)
    PROVE  /\ s.pc = "read" => Knows(Read(s), due)
           /\ s.pc = "rewrite" => Knows(Rewritten(s), due)
<1>1. ASSUME s.pc = "read" PROVE Knows(Read(s), due)
  <2>1. Read(s).pc \in {"read", "rewrite"} /\ Read(s).due = s.due
    BY <1>1 DEF Read, Job
  <2> QED BY <1>1, <2>1 DEF Knows
<1>2. ASSUME s.pc = "rewrite" PROVE Knows(Rewritten(s), due)
  <2>1. /\ Rewritten(s).due = s.due /\ Rewritten(s).dry = s.dry
        /\ Rewritten(s).pc \in {"rewrite", "read", "rotate", "done"}
        /\ Rewritten(s).pc = "done" => s.dry
        /\ Rewritten(s).pc = "rotate" => Rewritten(s).at = 1
    BY <1>2 DEF Rewritten, Job
  <2>2. 1 .. 1 - 1 = {}
    OBVIOUS
  <2> QED BY <1>2, <2>1, <2>2 DEF Knows
<1> QED BY <1>1, <1>2

\* A token that is not due has its turn behind it.
LEMMA AdvanceKnows ==
    ASSUME NEW s \in Job, NEW due \in SUBSET Tokens, Knows(s, due),
           s.pc \in {"rotate", "verify"}, RotateOrder[s.at] \notin due
    PROVE  Knows(Advance(s), due)
<1>1. s.at \in 1 .. Len(RotateOrder) /\ Len(RotateOrder) \in Nat
      /\ DOMAIN RotateOrder = 1 .. Len(RotateOrder)
  BY OrdersTyped DEF Job
<1>2. \A i \in 1 .. s.at : RotateOrder[i] \notin due
  <2> TAKE i \in 1 .. s.at
  <2>1. i = s.at \/ i \in 1 .. s.at - 1
    BY <1>1
  <2> QED BY <2>1 DEF Knows
<1>3. CASE s.at < Len(RotateOrder)
  <2>1. Advance(s) = [s EXCEPT !.pc = "rotate", !.at = s.at + 1, !.k = 1, !.tries = 0]
    BY <1>3 DEF Advance, Job
  <2>2. Advance(s).pc = "rotate" /\ Advance(s).at = s.at + 1 /\ Advance(s).due = s.due
    BY <2>1 DEF Job
  <2>3. 1 .. Advance(s).at - 1 = 1 .. s.at
    BY <1>1, <2>2
  <2> QED BY <1>2, <2>2, <2>3 DEF Knows
<1>4. CASE ~(s.at < Len(RotateOrder))
  <2>1. Advance(s).pc = "done"
    BY <1>4 DEF Advance, Job
  <2>2. due = {}
    <3> SUFFICES ASSUME NEW u \in due PROVE FALSE
      OBVIOUS
    <3>1. PICK i \in DOMAIN RotateOrder : RotateOrder[i] = u
      BY OrdersComplete
    <3>2. i \in 1 .. s.at
      BY <1>1, <1>4
    <3> QED BY <1>2, <3>1, <3>2
  <2> QED BY <2>1, <2>2 DEF Knows
<1> QED BY <1>3, <1>4

LEMMA StoredKnows ==
    ASSUME NEW s \in Job, NEW due, Knows(s, due), s.pc = "store"
    PROVE  Knows(Again(s), due) /\ Knows(Written(s), due)
<1>1. /\ Again(s).pc \in {"store", "stranded"} /\ Again(s).due = s.due /\ Again(s).at = s.at
      /\ Written(s).pc \in {"store", "verify"} /\ Written(s).due = s.due /\ Written(s).at = s.at
  BY DEF Again, Written, Job
<1> QED BY <1>1 DEF Knows

\* What every job knows survives a step that leaves no more tokens due, if
\* the job that moved goes to a state in which it is known as well.
LEMMA KnownOn ==
    ASSUME TypeOK, \A i \in Jobs : Knows(job[i], DueTokens),
           NEW j \in Jobs, NEW s \in Job, Placed(s), Goto(j, s),
           DueTokens' \subseteq DueTokens, Knows(s, DueTokens')
    PROVE  \A i \in Jobs : Knows(job'[i], DueTokens')
<1>1. /\ \A i \in Jobs \ {j} : job'[i] = job[i]
      /\ job'[j].pc = s.pc /\ job'[j].dry = s.dry /\ (s.pc \notin Ended => job'[j] = s)
  BY GotoJob DEF TypeOK
<1>2. Knows(job'[j], DueTokens')
  <2>1. CASE s.pc \in Ended
    BY <1>1, <2>1 DEF Knows, Ended
  <2>2. CASE s.pc \notin Ended
    BY <1>1, <2>2
  <2> QED BY <2>1, <2>2
<1>3. ASSUME NEW i \in Jobs \ {j} PROVE Knows(job'[i], DueTokens')
  BY <1>1, FewerDue DEF TypeOK
<1> QED BY <1>2, <1>3

\* A job that lets day and expiries be goes on knowing.
LEMMA QuietKnown ==
    ASSUME Deadlines, TypeOK', NEW j \in Jobs, NEW s \in Job, Placed(s), Goto(j, s),
           Knows(s, DueTokens), UNCHANGED <<day, expires, badDays>>
    PROVE  Deadlines'
<1>1. DueTokens' = DueTokens
  BY DEF DueTokens, Due
<1>2. \A i \in Jobs : Knows(job'[i], DueTokens')
  BY <1>1, KnownOn DEF Deadlines
<1>3. Reserve'
  BY DEF Deadlines, Reserve
<1> QED BY <1>2, <1>3 DEF Deadlines

\* A rotation moves an expiry away, past the threshold.
LEMMA RotateKnown ==
    ASSUME Deadlines, TypeOK', NEW j \in Jobs, Rotate(j)
    PROVE  Deadlines'
<1> DEFINE s == job[j]
           t == RotateOrder[s.at]
<1>1. s \in Job /\ Placed(s) /\ t \in Tokens /\ Knows(s, DueTokens) /\ s.pc = "rotate" /\ TypeOK
  BY JobTyped DEF Deadlines, Rotate
<1>2. [s EXCEPT !.pc = "failed"] \in Job /\ Placed([s EXCEPT !.pc = "failed"])
      /\ [s EXCEPT !.pc = "failed"].pc = "failed"
  BY <1>1, EndTyped DEF Ended, Job
<1>3. CASE ~MayRotate(s, t)
  <2>1. Goto(j, [s EXCEPT !.pc = "failed"]) /\ UNCHANGED <<day, expires, badDays>>
    BY <1>3 DEF Rotate, End, Server, outside
  <2>2. Knows([s EXCEPT !.pc = "failed"], DueTokens)
    BY <1>1, FailedKnows
  <2> QED BY <1>2, <2>1, <2>2, QuietKnown
<1>4. CASE MayRotate(s, t)
  <2>1. day' = day /\ badDays' = badDays /\ expires' = [expires EXCEPT ![t] = day + Lifetime]
    BY <1>4 DEF Rotate, Issue, outside
  <2>2. DueTokens' = DueTokens \ {t}
    BY <1>1, <2>1, LifetimeExceeds DEF DueTokens, Due, TypeOK
  <2>3. Reserve'
    BY <1>1, <2>1, LifetimeExceeds DEF Reserve, Deadlines, TypeOK
  <2>4. PICK u \in Job : Placed(u) /\ Goto(j, u) /\ Knows(u, DueTokens')
    <3>1. CASE Goto(j, [s EXCEPT !.pc = "failed"])
      BY <1>1, <1>2, <3>1, FailedKnows
    <3>2. CASE Goto(j, [s EXCEPT !.pc = "store", !.k = 1, !.tries = 0, !.fresh = issued[t] + 1])
      <4> DEFINE fresh == issued[t] + 1
                 u == [s EXCEPT !.pc = "store", !.k = 1, !.tries = 0, !.fresh = fresh]
      <4>1. fresh \in Nat /\ "store" \in Pcs /\ 1 \in Nat \ {0} /\ 0 \in 0 .. Retries - 1
        BY <1>1, RetriesSome DEF Pcs, TypeOK
      <4> HIDE DEF fresh
      <4>2. u \in Job
        BY <1>1, <4>1 DEF Job
      <4>3. u.k = 1 /\ u.at = s.at /\ u.pc = "store" /\ u.due = s.due
        BY <1>1 DEF Job
      <4>4. Placed(u)
        BY <1>1, <4>3, TargetsTyped DEF Placed
      <4>5. Goto(j, u)
        BY <3>2 DEF fresh
      <4>6. Knows(u, DueTokens')
        BY <1>1, <2>2, <4>3 DEF Knows
      <4> QED BY <4>2, <4>4, <4>5, <4>6
    <3> QED BY <1>4, <3>1, <3>2 DEF Rotate, End
  <2>5. \A i \in Jobs : Knows(job'[i], DueTokens')
    BY <1>1, <2>2, <2>4, KnownOn DEF Deadlines
  <2> QED BY <2>3, <2>5 DEF Deadlines
<1> QED BY <1>3, <1>4

\* Every other step of a job leaves the expiries alone.
LEMMA JobKnown ==
    ASSUME Deadlines, TypeOK', NEW j \in Jobs, JobStep(j) \/ Crash(j)
    PROVE  Deadlines'
<1> DEFINE s == job[j]
           f == [s EXCEPT !.pc = "failed"]
<1>1. s \in Job /\ Placed(s) /\ Knows(s, DueTokens) /\ TypeOK
      /\ RotateOrder[s.at] \in Tokens /\ AskOrder[s.at] \in Tokens
  BY JobTyped DEF Deadlines
<1>2. f \in Job /\ Placed(f) /\ Knows(f, DueTokens)
  <2>1. f \in Job /\ Placed(f)
    BY <1>1, EndTyped DEF Ended
  <2> QED BY <1>1, <2>1, FailedKnows
<1> HIDE DEF f
<1>3. CASE Rotate(j)
  BY <1>3, RotateKnown
<1>4. CASE Start(j)
  <2> DEFINE env == [t \in Tokens |-> stored[TargetsOf[t][1]]]
  <2>1. PICK dry \in BOOLEAN : Goto(j, [NoJob EXCEPT !.pc = "ask", !.dry = dry, !.env = env])
    BY <1>4 DEF Start
  <2> DEFINE u == [NoJob EXCEPT !.pc = "ask", !.dry = dry, !.env = env]
  <2>2. env \in [Tokens -> Nat]
    BY <1>1, TargetsTyped DEF TypeOK
  <2> HIDE DEF env
  <2>3. "ask" \in Pcs
    BY DEF Pcs
  <2>4. u \in Job
    BY <2>2, <2>3, NoJobTyped DEF Job
  <2>5. u.pc = "ask" /\ u.at = 1
    BY NoJobTyped DEF Job, NoJob
  <2>6. Placed(u) /\ Knows(u, DueTokens)
    <3>1. 1 .. u.at - 1 = {}
      BY <2>5
    <3> QED BY <2>5, <3>1 DEF Placed, Knows
  <2>7. UNCHANGED <<day, expires, badDays>>
    BY <1>4 DEF Start, Server
  <2> HIDE DEF u
  <2> QED BY <2>1, <2>4, <2>6, <2>7, QuietKnown DEF u
<1>5. CASE Crash(j)
  <2>1. Goto(j, f) /\ UNCHANGED <<day, expires, badDays>>
    BY <1>5 DEF Crash, End, Server, f
  <2> QED BY <1>2, <2>1, QuietKnown
<1>6. CASE Ask(j) \/ ReadVariable(j) \/ Rehearse(j) \/ NotDue(j) \/ Store(j) \/ Verify(j)
  <2>1. UNCHANGED <<day, expires, badDays>>
    BY <1>6 DEF Ask, ReadVariable, Rehearse, NotDue, Store, Verify, Server, outside
  <2>2. \E u \in Job : Placed(u) /\ Goto(j, u) /\ Knows(u, DueTokens)
    <3>1. CASE Ask(j)
      BY <1>1, <1>2, <3>1, AskedTyped, AskedKnows DEF Ask, f
    <3>2. CASE ReadVariable(j)
      BY <1>1, <1>2, <3>2, ReadTyped, RehearsedKnows DEF ReadVariable, f
    <3>3. CASE Rehearse(j)
      BY <1>1, <1>2, <3>3, RewrittenTyped, RehearsedKnows DEF Rehearse, f
    <3>4. CASE NotDue(j)
      <4>1. RotateOrder[s.at] \notin DueTokens /\ s.pc = "rotate"
        BY <1>1, <3>4 DEF NotDue, Knows
      <4>2. DueTokens \in SUBSET Tokens
        BY DEF DueTokens
      <4> QED BY <1>1, <3>4, <4>1, <4>2, AdvanceTyped, AdvanceKnows DEF NotDue
    <3>5. CASE Store(j)
      BY <1>1, <3>5, AgainTyped, WrittenTyped, StoredKnows DEF Store
    <3>6. CASE Verify(j)
      <4>1. RotateOrder[s.at] \notin DueTokens /\ s.pc = "verify"
        BY <1>1, <3>6 DEF Verify, Knows
      <4>2. DueTokens \in SUBSET Tokens
        BY DEF DueTokens
      <4>3. Goto(j, Advance(s)) \/ Goto(j, f)
        BY <3>6 DEF Verify, f
      <4> QED BY <1>1, <1>2, <4>1, <4>2, <4>3, AdvanceTyped, AdvanceKnows
    <3> QED BY <1>6, <3>1, <3>2, <3>3, <3>4, <3>5, <3>6
  <2> QED BY <2>1, <2>2, QuietKnown
<1> QED BY <1>3, <1>4, <1>5, <1>6 DEF JobStep

\* The day that ends with a job that went through leaves more than the
\* threshold; any other day takes one day of the reserve.
LEMMA TickKnown == ASSUME Deadlines, TypeOK', Tick PROVE Deadlines'
<1>1. TypeOK /\ day' = day + 1 /\ expires' = expires /\ job' = [j \in Jobs |-> NoJob]
  BY DEF Tick, Deadlines
<1>2. CASE \E j \in Jobs : Good(j)
  <2>1. DueTokens = {} /\ badDays' = 0
    BY <1>2 DEF Tick, Good, Deadlines, Knows
  <2>2. \A t \in Tokens : expires[t] - day > Threshold
    BY <1>1, <2>1, LifetimeExceeds DEF DueTokens, Due, TypeOK
  <2>3. Reserve'
    BY <1>1, <2>1, <2>2, LifetimeExceeds DEF Deadlines, Reserve, TypeOK
  <2> QED BY <1>1, <2>3, NoJobTyped, EndKnows DEF Deadlines, NoJob
<1>3. CASE ~\E j \in Jobs : Good(j)
  <2>1. badDays' = badDays + 1
    BY <1>3 DEF Tick
  <2>2. Reserve'
    BY <1>1, <2>1, LifetimeExceeds DEF Deadlines, Reserve, TypeOK
  <2> QED BY <1>1, <2>2, NoJobTyped, EndKnows DEF Deadlines, NoJob
<1> QED BY <1>2, <1>3

\* What the jobs know of the expiries is true, and the reserve shrinks by no
\* more than a day for each day without a job that went through.
THEOREM DeadlinesKnown == Spec => []Deadlines
<1>1. Init /\ TypeOK => Deadlines
  <2> SUFFICES ASSUME Init, TypeOK PROVE Deadlines
    OBVIOUS
  <2>1. \A j \in Jobs : Knows(job[j], DueTokens)
    BY NoJobTyped, EndKnows DEF Init, NoJob
  <2>2. Reserve
    BY LifetimeExceeds DEF Init, Reserve
  <2> QED BY <2>1, <2>2 DEF Deadlines
<1>2. Deadlines /\ TypeOK' /\ [Next]_vars => Deadlines'
  <2> SUFFICES ASSUME Deadlines, TypeOK', [Next]_vars PROVE Deadlines'
    OBVIOUS
  <2>1. CASE UNCHANGED vars
    <3>1. DueTokens' = DueTokens /\ job' = job
      BY <2>1 DEF vars, DueTokens, Due
    <3>2. Reserve'
      BY <2>1 DEF vars, Deadlines, Reserve
    <3> QED BY <3>1, <3>2 DEF Deadlines
  <2>2. CASE ChangeRole
    <3>1. DueTokens' = DueTokens /\ job' = job
      BY <2>2 DEF ChangeRole, DueTokens, Due
    <3>2. Reserve'
      BY <2>2 DEF ChangeRole, Deadlines, Reserve
    <3> QED BY <3>1, <3>2 DEF Deadlines
  <2> QED BY <2>1, <2>2, JobKnown, TickKnown DEF Next
<1> QED BY <1>1, <1>2, TypeCorrect, PTL DEF Spec

\* As long as fewer days in a row than the threshold passed without a job that
\* went through, every token is still accepted by its date (rotate.go, due):
\* whatever crashed, overlapped or was refused in between.
THEOREM RotatedInTime == Spec => []InTime
<1>1. Deadlines => InTime
  BY LifetimeExceeds DEF Deadlines, Reserve, InTime, TypeOK
<1> QED BY <1>1, DeadlinesKnown, PTL

-----------------------------------------------------------------------------
(* What a step does, seen from outside.                                    *)

Early == {"ask", "read", "rewrite"}
Late == {"rotate", "store", "verify"}

\* Where a job comes from when a step leaves it at p: the pairs of places
\* and the fields that go with them.
LEMMA JobMoves ==
    ASSUME TypeOK, NEW j \in Jobs, JobStep(j) \/ Crash(j)
    PROVE  LET s == job[j]
               p == job'[j]
               t == RotateOrder[s.at]
           IN /\ job' \in [Jobs -> Job] /\ \A i \in Jobs \ {j} : job'[i] = job[i]
              /\ Start(j) \/ Running(j)
              /\ p.pc \in Early => \/ Start(j) /\ p.env = [u \in Tokens |-> stored[TargetsOf[u][1]]]
                                   \/ p.env = s.env /\ s.pc \in Early
              /\ p.pc = "rotate" => s.pc \in Late \/ MayRewrite(s)
              /\ p.pc = "store" =>
                    \/ Rotate(j) /\ p.fresh = issued[t] + 1 /\ p.k = 1 /\ p.tries = 0 /\ p.at = s.at /\ p.env = s.env
                    \/ Store(j) /\ p.fresh = s.fresh /\ p.at = s.at /\ p.env = s.env
              /\ p.pc = "verify" => Store(j) /\ p.fresh = s.fresh /\ p.at = s.at
              /\ p.pc = "done" => p.dry = s.dry /\ (Ask(j) \/ s.dry \/ NotDue(j) \/ Verify(j))
<1> DEFINE s == job[j]
           t == RotateOrder[s.at]
<1>1. s \in Job /\ Placed(s) /\ t \in Tokens /\ job \in [Jobs -> Job] /\ s.at \in 1 .. Len(RotateOrder)
  BY JobTyped DEF TypeOK
<1>2. ASSUME NEW how \in Ended \ {"done"}, Goto(j, [s EXCEPT !.pc = how])
      PROVE  job'[j].pc = how /\ job' \in [Jobs -> Job] /\ \A i \in Jobs \ {j} : job'[i] = job[i]
  <2>1. [s EXCEPT !.pc = how] \in Job /\ Placed([s EXCEPT !.pc = how]) /\ [s EXCEPT !.pc = how].pc = how
    BY <1>1, EndTyped DEF Job
  <2> QED BY <1>1, <1>2, <2>1, GotoJob
<1>3. ASSUME Goto(j, [s EXCEPT !.pc = "failed"])
      PROVE  job'[j].pc = "failed" /\ job' \in [Jobs -> Job] /\ \A i \in Jobs \ {j} : job'[i] = job[i]
  BY <1>2, <1>3 DEF Ended
<1>4. CASE Start(j)
  <2> DEFINE env == [u \in Tokens |-> stored[TargetsOf[u][1]]]
  <2>1. PICK dry \in BOOLEAN : Goto(j, [NoJob EXCEPT !.pc = "ask", !.dry = dry, !.env = env])
    BY <1>4 DEF Start
  <2> DEFINE u == [NoJob EXCEPT !.pc = "ask", !.dry = dry, !.env = env]
  <2>2. env \in [Tokens -> Nat]
    BY <1>1, TargetsTyped DEF TypeOK
  <2> HIDE DEF env
  <2>3. "ask" \in Pcs
    BY DEF Pcs
  <2>4. u \in Job
    BY <2>2, <2>3, NoJobTyped DEF Job
  <2>5. u.pc = "ask" /\ u.env = env
    BY NoJobTyped DEF Job, NoJob
  <2>6. Placed(u)
    BY <2>5 DEF Placed
  <2> HIDE DEF u
  <2>7. job'[j] = u /\ job' \in [Jobs -> Job] /\ \A i \in Jobs \ {j} : job'[i] = job[i]
    BY <1>1, <2>1, <2>4, <2>5, <2>6, GotoJob DEF Ended, u
  <2> QED BY <1>4, <2>5, <2>7 DEF Early, env
<1>5. CASE Crash(j)
  BY <1>3, <1>5 DEF Crash, End, Early
<1>6. CASE Ask(j)
  <2>1. CASE Goto(j, Asked(s))
    <3>1. s.pc = "ask" /\ Asked(s) \in Job /\ Placed(Asked(s))
      BY <1>1, <1>6, AskedTyped DEF Ask
    <3>2. Asked(s).pc \in {"ask", "read", "done"} /\ Asked(s).env = s.env /\ Asked(s).dry = s.dry
      BY <1>1, <3>1 DEF Asked, Job
    <3>3. /\ job'[j].pc = Asked(s).pc /\ job'[j].dry = s.dry
          /\ job'[j].pc # "done" => job'[j].env = s.env
          /\ job' \in [Jobs -> Job] /\ \A i \in Jobs \ {j} : job'[i] = job[i]
      BY <1>1, <2>1, <3>1, <3>2, GotoJob DEF Ended
    <3> QED BY <1>6, <3>1, <3>2, <3>3 DEF Early, Running
  <2>2. CASE Goto(j, [s EXCEPT !.pc = "failed"])
    BY <1>3, <1>6, <2>2 DEF Ask, Early, Running
  <2> QED BY <1>6, <2>1, <2>2 DEF Ask
<1>7. CASE ReadVariable(j)
  <2>1. CASE Goto(j, Read(s))
    <3>1. s.pc = "read" /\ Read(s) \in Job /\ Placed(Read(s))
      BY <1>1, <1>7, ReadTyped DEF ReadVariable
    <3>2. Read(s).pc \in {"read", "rewrite"} /\ Read(s).env = s.env
      BY <1>1, <3>1 DEF Read, Job
    <3>3. /\ job'[j] = Read(s)
          /\ job' \in [Jobs -> Job] /\ \A i \in Jobs \ {j} : job'[i] = job[i]
      BY <1>1, <2>1, <3>1, <3>2, GotoJob DEF Ended
    <3> QED BY <1>7, <3>1, <3>2, <3>3 DEF Early, Running
  <2>2. CASE Goto(j, [s EXCEPT !.pc = "failed"])
    BY <1>3, <1>7, <2>2 DEF ReadVariable, Early, Running
  <2> QED BY <1>7, <2>1, <2>2 DEF ReadVariable
<1>8. CASE Rehearse(j)
  <2>1. CASE MayRewrite(s)
    <3>1. s.pc = "rewrite" /\ Rewritten(s) \in Job /\ Placed(Rewritten(s)) /\ Goto(j, Rewritten(s))
      BY <1>1, <1>8, <2>1, RewrittenTyped DEF Rehearse
    <3>2. /\ Rewritten(s).pc \in {"rewrite", "read", "done", "rotate"} /\ Rewritten(s).env = s.env
          /\ Rewritten(s).dry = s.dry /\ (Rewritten(s).pc = "done" => s.dry)
      BY <1>1, <3>1 DEF Rewritten, Job
    <3>3. /\ job'[j].pc = Rewritten(s).pc /\ job'[j].dry = s.dry
          /\ job'[j].pc # "done" => job'[j].env = s.env
          /\ job' \in [Jobs -> Job] /\ \A i \in Jobs \ {j} : job'[i] = job[i]
      BY <1>1, <3>1, <3>2, GotoJob DEF Ended
    <3> QED BY <2>1, <3>1, <3>2, <3>3 DEF Early, Running
  <2>2. CASE ~MayRewrite(s)
    BY <1>3, <1>8, <2>2 DEF Rehearse, Early, Running
  <2> QED BY <2>1, <2>2
<1>9. CASE NotDue(j) \/ Verify(j)
  <2>1. CASE Goto(j, Advance(s))
    <3>1. s.pc \in Late /\ Advance(s) \in Job /\ Placed(Advance(s)) /\ Advance(s).pc \in {"rotate", "done"}
      BY <1>1, <1>9, AdvanceTyped DEF NotDue, Verify, Late
    <3>2. Advance(s).dry = s.dry
      BY <1>1 DEF Advance, Job
    <3>3. /\ job'[j].pc = Advance(s).pc /\ job'[j].dry = s.dry
          /\ job' \in [Jobs -> Job] /\ \A i \in Jobs \ {j} : job'[i] = job[i]
      BY <1>1, <2>1, <3>1, <3>2, GotoJob
    <3> QED BY <1>9, <3>1, <3>3 DEF Early, Late, Running
  <2>2. CASE Goto(j, [s EXCEPT !.pc = "failed"]) /\ Verify(j)
    BY <1>3, <2>2 DEF Verify, Early, Running
  <2> QED BY <1>9, <2>1, <2>2 DEF NotDue, Verify
<1>10. CASE Rotate(j)
  <2>1. CASE Goto(j, [s EXCEPT !.pc = "store", !.k = 1, !.tries = 0, !.fresh = issued[t] + 1])
    <3> DEFINE fresh == issued[t] + 1
               u == [s EXCEPT !.pc = "store", !.k = 1, !.tries = 0, !.fresh = fresh]
    <3>1. fresh \in Nat /\ "store" \in Pcs /\ 1 \in Nat \ {0} /\ 0 \in 0 .. Retries - 1
      BY <1>1, RetriesSome DEF Pcs, TypeOK
    <3> HIDE DEF fresh
    <3>2. u \in Job
      BY <1>1, <3>1 DEF Job
    <3>3. u.k = 1 /\ u.at = s.at /\ u.pc = "store" /\ u.tries = 0 /\ u.fresh = fresh /\ u.env = s.env
      BY <1>1 DEF Job
    <3>4. Placed(u)
      BY <1>1, <3>3, TargetsTyped DEF Placed
    <3>5. Goto(j, u)
      BY <2>1 DEF fresh
    <3> HIDE DEF u
    <3>6. job'[j] = u /\ job' \in [Jobs -> Job] /\ \A i \in Jobs \ {j} : job'[i] = job[i]
      BY <1>1, <3>2, <3>3, <3>4, <3>5, GotoJob DEF Ended
    <3>7. Running(j)
      BY <1>10 DEF Rotate, Running
    <3> QED BY <1>10, <3>3, <3>6, <3>7 DEF Early, fresh
  <2>2. CASE Goto(j, [s EXCEPT !.pc = "failed"])
    BY <1>3, <1>10, <2>2 DEF Rotate, Early, Running
  <2> QED BY <1>10, <2>1, <2>2 DEF Rotate, End
<1>11. CASE Store(j)
  <2>1. PICK u \in {Again(s), Written(s)} : Goto(j, u)
    BY <1>11 DEF Store
  <2>2. s.pc = "store" /\ u \in Job /\ Placed(u)
    BY <1>1, <1>11, AgainTyped, WrittenTyped DEF Store
  <2>3. /\ u.pc \in {"store", "stranded", "verify"} /\ u.at = s.at /\ u.fresh = s.fresh /\ u.env = s.env
    <3>1. CASE u = Again(s)
      BY <1>1, <2>2, <3>1 DEF Again, Job
    <3>2. CASE u = Written(s)
      BY <1>1, <2>2, <3>2 DEF Written, Job
    <3> QED BY <2>1, <3>1, <3>2
  <2>4. /\ job'[j].pc = u.pc /\ (u.pc # "stranded" => job'[j] = u)
        /\ job' \in [Jobs -> Job] /\ \A i \in Jobs \ {j} : job'[i] = job[i]
    BY <1>1, <2>1, <2>2, <2>3, GotoJob DEF Ended
  <2> QED BY <1>11, <2>2, <2>3, <2>4 DEF Early, Running
<1> QED BY <1>4, <1>5, <1>6, <1>7, <1>8, <1>9, <1>10, <1>11 DEF JobStep

\* What a job's step does to GitLab and to what went wrong.
LEMMA ServerMoves ==
    ASSUME TypeOK, NEW j \in Jobs, JobStep(j) \/ Crash(j)
    PROVE  LET s == job[j]
               t == RotateOrder[s.at]
           IN /\ day' = day /\ mayWrite' = mayWrite /\ mishaps \subseteq mishaps'
              /\ drops' \in {drops, drops + 1}
              /\ \/ issued' = issued /\ expires' = expires
                 \/ Rotate(j) /\ MayRotate(s, t) /\ Issue(t)
              /\ \/ stored' = stored
                 \/ /\ Rehearse(j) /\ MayRewrite(s)
                    /\ stored' = [stored EXCEPT ![TargetsOf[AskOrder[s.at]][s.k]] = s.env[AskOrder[s.at]]]
                 \/ /\ Store(j) /\ Speaks(s) /\ mayWrite
                    /\ stored' = [stored EXCEPT ![TargetsOf[t][s.k]] = s.fresh]
              /\ Start(j) => mishaps' = mishaps \cup IF \E i \in Jobs : Running(i) THEN {"overlap"} ELSE {}
<1>1. CASE Start(j)
  BY <1>1 DEF Start, Server
<1>2. CASE Crash(j)
  BY <1>2 DEF Crash, Server, Start, End, Running
<1>3. CASE Ask(j) \/ ReadVariable(j) \/ NotDue(j) \/ Verify(j)
  BY <1>3 DEF Ask, ReadVariable, NotDue, Verify, Server, outside, Start
<1>4. CASE Rehearse(j)
  BY <1>4 DEF Rehearse, outside, Start
<1>5. CASE Rotate(j)
  BY <1>5 DEF Rotate, Server, outside, Start
<1>6. CASE Store(j)
  BY <1>6 DEF Store, outside, Start
<1> QED BY <1>1, <1>2, <1>3, <1>4, <1>5, <1>6 DEF JobStep

-----------------------------------------------------------------------------
(* What the rehearsal proved still holds when the new value is stored.     *)

\* A value a job got is at most the newest; the newest is accepted today.
Fresh == \A j \in Jobs : job[j].pc \in {"store", "verify"} =>
    /\ job[j].fresh <= issued[RotateOrder[job[j].at]]
    /\ job[j].fresh = issued[RotateOrder[job[j].at]] => day < expires[RotateOrder[job[j].at]]

\* Unless the role was taken away under a job, one past the rehearsal has it.
Role == mishaps \subseteq {"overlap"} => \A j \in Jobs : job[j].pc \in Late => mayWrite

Alone == mishaps = {} => \A i, j \in Jobs : Running(i) /\ Running(j) => i = j

Speaking == TypeOK /\ Fresh /\ Role /\ Alone

\* Only a rotation issues, and what it issues lives to a later day.
LEMMA FreshKept ==
    ASSUME TypeOK, Fresh, NEW j \in Jobs, JobStep(j) \/ Crash(j)
    PROVE  Fresh'
<1> DEFINE s == job[j]
           t == RotateOrder[s.at]
<1>1. t \in Tokens /\ s \in Job /\ day \in Nat /\ issued \in [Tokens -> Nat] /\ expires \in [Tokens -> Nat]
  BY JobTyped DEF TypeOK
<1>2. day' = day
  BY ServerMoves
<1>3. CASE issued' = issued /\ expires' = expires
  <2> SUFFICES ASSUME NEW i \in Jobs, job'[i].pc \in {"store", "verify"}
               PROVE  /\ job'[i].fresh <= issued'[RotateOrder[job'[i].at]]
                      /\ job'[i].fresh = issued'[RotateOrder[job'[i].at]] => day' < expires'[RotateOrder[job'[i].at]]
    BY DEF Fresh
  <2>1. CASE i # j
    <3>1. job'[i] = job[i]
      BY <2>1, JobMoves
    <3>2. job[i].pc \in {"store", "verify"}
      BY <3>1
    <3> QED BY <1>2, <1>3, <3>1, <3>2 DEF Fresh
  <2>2. CASE i = j
    <3>1. CASE Store(j) /\ job'[j].fresh = s.fresh /\ job'[j].at = s.at
      <4>1. s.pc = "store"
        BY <3>1 DEF Store
      <4> QED BY <1>2, <1>3, <2>2, <3>1, <4>1 DEF Fresh
    <3>2. CASE Rotate(j) /\ job'[j].fresh = issued[t] + 1 /\ job'[j].pc = "store"
      <4>1. MayRotate(s, t)
        <5>1. CASE ~MayRotate(s, t)
          <6>1. Goto(j, [s EXCEPT !.pc = "failed"])
            BY <3>2, <5>1 DEF Rotate, End
          <6>2. [s EXCEPT !.pc = "failed"] \in Job /\ Placed([s EXCEPT !.pc = "failed"])
                /\ [s EXCEPT !.pc = "failed"].pc = "failed"
            BY <1>1, EndTyped DEF Ended, Job
          <6>3. job'[j].pc = "failed"
            BY <6>1, <6>2, GotoJob DEF TypeOK
          <6> QED BY <3>2, <6>3
        <5> QED BY <5>1
      <4>2. Issue(t)
        BY <3>2, <4>1 DEF Rotate
      <4>3. issued'[t] = issued[t] + 1
        BY <1>1, <4>2 DEF Issue
      <4> QED BY <1>1, <1>3, <4>3
    <3> QED BY <2>2, <3>1, <3>2, JobMoves
  <2> QED BY <2>1, <2>2
<1>4. CASE Rotate(j) /\ Issue(t)
  <2>0. day < day + Lifetime
    BY <1>1, LifetimeExceeds
  <2>1. issued' = [issued EXCEPT ![t] = issued[t] + 1] /\ expires' = [expires EXCEPT ![t] = day + Lifetime]
    BY <1>4 DEF Issue
  <2> SUFFICES ASSUME NEW i \in Jobs, job'[i].pc \in {"store", "verify"}
               PROVE  /\ job'[i].fresh <= issued'[RotateOrder[job'[i].at]]
                      /\ job'[i].fresh = issued'[RotateOrder[job'[i].at]] => day' < expires'[RotateOrder[job'[i].at]]
    BY DEF Fresh
  <2>2. CASE i # j
    <3>1. job'[i] = job[i]
      BY <2>2, JobMoves
    <3>2. job[i] \in Job /\ RotateOrder[job[i].at] \in Tokens /\ job[i].fresh \in Nat
      BY JobTyped DEF Job
    <3>3. /\ job[i].fresh <= issued[RotateOrder[job[i].at]]
          /\ job[i].fresh = issued[RotateOrder[job[i].at]] => day < expires[RotateOrder[job[i].at]]
      BY <3>1 DEF Fresh
    <3>4. CASE RotateOrder[job[i].at] = t
      BY <1>1, <1>2, <2>0, <2>1, <3>1, <3>2, <3>3, <3>4
    <3>5. CASE RotateOrder[job[i].at] # t
      BY <1>1, <1>2, <2>1, <3>1, <3>2, <3>3, <3>5
    <3> QED BY <3>4, <3>5
  <2>3. CASE i = j
    <3>1. ~Store(j)
      BY <1>4 DEF Rotate, Store
    <3>2. job'[j].fresh = issued[t] + 1 /\ job'[j].at = s.at
      BY <2>3, <3>1, JobMoves
    <3> QED BY <1>1, <1>2, <2>0, <2>1, <2>3, <3>2
  <2> QED BY <2>2, <2>3
<1> QED BY <1>3, <1>4, ServerMoves

LEMMA RoleKept ==
    ASSUME TypeOK, Role, NEW j \in Jobs, JobStep(j) \/ Crash(j)
    PROVE  Role'
<1> SUFFICES ASSUME mishaps' \subseteq {"overlap"}, NEW i \in Jobs, job'[i].pc \in Late
             PROVE  mayWrite'
  BY DEF Role
<1>1. mishaps \subseteq {"overlap"} /\ mayWrite' = mayWrite
  BY ServerMoves
<1>2. CASE i # j
  BY <1>1, <1>2, JobMoves DEF Role
<1>3. CASE i = j
  <2>1. job[j].pc \in Late \/ MayRewrite(job[j])
    BY <1>3, JobMoves DEF Late, Rotate, Store
  <2> QED BY <1>1, <2>1 DEF Role, MayRewrite
<1> QED BY <1>2, <1>3

LEMMA AloneKept ==
    ASSUME TypeOK, Alone, NEW j \in Jobs, JobStep(j) \/ Crash(j)
    PROVE  Alone'
<1> SUFFICES ASSUME mishaps' = {}, NEW i \in Jobs, NEW k \in Jobs, Running(i)', Running(k)'
             PROVE  i = k
  BY DEF Alone
<1>1. mishaps = {}
  BY ServerMoves
<1>2. \A l \in Jobs \ {j} : Running(l)' => Running(l)
  BY JobMoves DEF Running
<1>3. CASE Start(j)
  <2>1. \A l \in Jobs : ~Running(l)
    BY <1>3, ServerMoves
  <2> QED BY <1>2, <2>1
<1>4. CASE Running(j)
  BY <1>1, <1>2, <1>4 DEF Alone
<1> QED BY <1>3, <1>4, JobMoves

\* The role and the day change only while no job depends on them unnoticed.
LEMMA SpeakingElse ==
    ASSUME Speaking, ChangeRole \/ Tick \/ UNCHANGED vars
    PROVE  (Fresh /\ Role /\ Alone)'
<1>1. CASE ChangeRole
  <2>1. job' = job /\ issued' = issued /\ expires' = expires /\ day' = day /\ mishaps \subseteq mishaps'
    BY <1>1 DEF ChangeRole
  <2>2. Fresh'
    BY <2>1 DEF Fresh, Speaking
  <2>3. Alone'
    BY <2>1 DEF Alone, Speaking, Running
  <2>4. Role'
    <3> SUFFICES ASSUME mishaps' \subseteq {"overlap"}, NEW j \in Jobs, job[j].pc \in Late
                 PROVE  FALSE
      BY <2>1 DEF Role
    <3>1. Running(j)
      BY DEF Running, Late
    <3>2. "role" \in mishaps'
      BY <1>1, <3>1 DEF ChangeRole
    <3> QED BY <3>2
  <2> QED BY <2>2, <2>3, <2>4
<1>2. CASE Tick
  <2>1. \A j \in Jobs : job'[j].pc = "idle"
    BY <1>2, NoJobTyped DEF Tick, NoJob
  <2> QED BY <2>1 DEF Fresh, Role, Alone, Running, Late
<1>3. CASE UNCHANGED vars
  BY <1>3 DEF vars, Fresh, Role, Alone, Running, Speaking
<1> QED BY <1>1, <1>2, <1>3

\* A job that holds a new value is accepted with it and allowed to write,
\* unless something was taken from it from outside.
THEOREM HolderMaySpeak == Spec => []Speaking
<1>1. Init /\ TypeOK => Speaking
  BY NoJobTyped DEF Init, Speaking, Fresh, Role, Alone, Running, NoJob, Late
<1>2. Speaking /\ TypeOK' /\ [Next]_vars => Speaking'
  <2> SUFFICES ASSUME Speaking, TypeOK', [Next]_vars PROVE Speaking'
    OBVIOUS
  <2>1. ASSUME NEW j \in Jobs, JobStep(j) \/ Crash(j) PROVE (Fresh /\ Role /\ Alone)'
    BY <2>1, FreshKept, RoleKept, AloneKept DEF Speaking
  <2> QED BY <2>1, SpeakingElse DEF Next, Speaking
<1> QED BY <1>1, <1>2, TypeCorrect, PTL DEF Spec

-----------------------------------------------------------------------------
(* No token is stranded.                                                   *)

\* The one job that has a token's value: what it has not written yet is all
\* that is missing, and every failed write was a lost call.
Carries(j, t) ==
    /\ job[j].pc = "store" /\ RotateOrder[job[j].at] = t /\ job[j].fresh = issued[t]
    /\ \A k \in 1 .. job[j].k - 1 : stored[TargetsOf[t][k]] = issued[t]
    /\ job[j].tries <= drops
Safe(t) == InStep(t) \/ \E j \in Jobs : Carries(j, t)

SelfSafe == mishaps \subseteq {"overlap"} /\ drops < Retries => Safe(Self)
AllSafe == mishaps = {} /\ drops < Retries => \A t \in Tokens : Safe(t)

\* A job that works alone has the values the variables had and GitLab accepts.
Current == mishaps = {} => \A j \in Jobs :
    /\ job[j].pc \in Early /\ drops < Retries => \A t \in Tokens : job[j].env[t] = issued[t]
    /\ job[j].pc = "store" => /\ job[j].fresh = issued[RotateOrder[job[j].at]]
                              /\ RotateOrder[job[j].at] # Self => job[j].env[Self] = issued[Self] /\ day < expires[Self]

Kept == Speaking /\ Current /\ SelfSafe /\ AllSafe

\* A variable belongs to one token.
LEMMA VariablesApart ==
    /\ \A v \in Tokens : \A l \in DOMAIN TargetsOf[v] : TargetsOf[v][l] \in Targets
    /\ \A v, w \in Tokens : v # w => \A k \in DOMAIN TargetsOf[v], l \in DOMAIN TargetsOf[w] :
         TargetsOf[v][k] # TargetsOf[w][l]
BY TargetsTyped, TargetsAssumption

\* Where nothing is issued and the variables keep what they have or get the
\* accepted value, a token in step stays so, and a job that stands still
\* carries on.
LEMMA StillSafe ==
    ASSUME TypeOK, NEW t \in Tokens, NEW g, issued[t] = g, issued'[t] = g,
           drops' \in Nat, drops <= drops',
           \A k \in DOMAIN TargetsOf[t] : stored'[TargetsOf[t][k]] \in {stored[TargetsOf[t][k]], g}
    PROVE  /\ InStep(t) => InStep(t)'
           /\ \A i \in Jobs : job'[i] = job[i] /\ Carries(i, t) => Carries(i, t)'
<1>1. InStep(t) => InStep(t)'
  BY DEF InStep
<1>2. ASSUME NEW i \in Jobs, job'[i] = job[i], Carries(i, t) PROVE Carries(i, t)'
  <2>1. job[i] \in Job /\ Placed(job[i]) /\ job[i].pc = "store" /\ RotateOrder[job[i].at] = t
    BY <1>2, JobTyped DEF Carries
  <2>2. 1 .. job[i].k - 1 \subseteq DOMAIN TargetsOf[t]
    BY <2>1, TargetsTyped DEF Placed, Job
  <2>3. job[i].tries <= drops'
    <3>1. job[i].tries \in Nat /\ drops \in Nat /\ job[i].tries <= drops
      BY <1>2, <2>1, RetriesSome DEF Carries, Job, TypeOK
    <3> QED BY <3>1
  <2> QED BY <1>2, <2>1, <2>2, <2>3 DEF Carries
<1> QED BY <1>1, <1>2

\* One step of a job, if what is written to the token's variables is its
\* accepted value and the job that carries it can speak.
LEMMA SafeKept ==
    ASSUME TypeOK, TypeOK', NEW t \in Tokens, Safe(t), drops' < Retries, mishaps' \subseteq {"overlap"},
           NEW j \in Jobs, JobStep(j) \/ Crash(j),
           Rehearse(j) /\ AskOrder[job[j].at] = t /\ MayRewrite(job[j]) => job[j].env[t] = issued[t],
           Store(j) /\ RotateOrder[job[j].at] = t /\ Speaks(job[j]) => job[j].fresh = issued[t],
           Carries(j, t) => Speaks(job[j]) /\ mayWrite
    PROVE  Safe(t)'
<1> DEFINE s == job[j]
           u == RotateOrder[s.at]
<1>0. drops \in Nat /\ drops' \in {drops, drops + 1}
  BY ServerMoves DEF TypeOK
<1>1. s \in Job /\ Placed(s) /\ u \in Tokens /\ issued \in [Tokens -> Nat]
      /\ drops \in Nat /\ drops' \in Nat /\ drops <= drops'
  <2>1. s \in Job /\ Placed(s) /\ u \in Tokens
    BY JobTyped
  <2>2. issued \in [Tokens -> Nat]
    BY DEF TypeOK
  <2>3. drops' \in Nat /\ drops <= drops'
    BY <1>0
  <2> QED BY <1>0, <2>1, <2>2, <2>3
<1>2. \A i \in Jobs \ {j} : job'[i] = job[i]
  BY JobMoves
<1>3. CASE Rotate(j)
  <2>1. stored' = stored
    BY <1>3 DEF Rotate, Server
  <2>2. CASE issued'[t] = issued[t]
    <3>1. InStep(t)' \/ \E i \in Jobs : Carries(i, t) /\ i # j
      <4>1. ~Carries(j, t)
        BY <1>3 DEF Rotate, Carries
      <4>2. InStep(t) => InStep(t)'
        BY <2>1, <2>2 DEF InStep
      <4> QED BY <4>1, <4>2 DEF Safe
    <3>2. ASSUME NEW i \in Jobs, Carries(i, t), i # j PROVE Carries(i, t)'
      BY <1>1, <1>2, <2>1, <2>2, <3>2, StillSafe
    <3> QED BY <3>1, <3>2 DEF Safe
  <2>3. CASE issued'[t] # issued[t]
    <3>1. MayRotate(s, u) /\ Issue(u)
      BY <1>3, <2>3 DEF Rotate, Server
    <3>2. u = t /\ issued'[t] = issued[t] + 1
      BY <1>1, <2>3, <3>1 DEF Issue
    <3>3. mishaps' # mishaps \cup {"answer"}
      OBVIOUS
    <3>4. Goto(j, [s EXCEPT !.pc = "store", !.k = 1, !.tries = 0, !.fresh = issued[u] + 1])
      BY <1>3, <3>1, <3>3 DEF Rotate
    <3>5. job'[j].pc = "store"
      <4> DEFINE fresh == issued[u] + 1
                 p == [s EXCEPT !.pc = "store", !.k = 1, !.tries = 0, !.fresh = fresh]
      <4>1. fresh \in Nat /\ "store" \in Pcs /\ 1 \in Nat \ {0} /\ 0 \in 0 .. Retries - 1
        BY <1>1, RetriesSome DEF Pcs
      <4>2. Goto(j, p)
        BY <3>4
      <4> HIDE DEF fresh
      <4>3. p \in Job /\ p.pc = "store" /\ p.k = 1 /\ p.at = s.at
        BY <1>1, <4>1 DEF Job
      <4>4. Placed(p)
        BY <1>1, <4>3, TargetsTyped DEF Placed
      <4> HIDE DEF p
      <4> QED BY <4>2, <4>3, <4>4, GotoJob DEF TypeOK
    <3>6. job'[j].fresh = issued[u] + 1 /\ job'[j].k = 1 /\ job'[j].tries = 0 /\ job'[j].at = s.at
      <4>1. ~Store(j)
        BY <1>3 DEF Rotate, Store
      <4> QED BY <3>5, <4>1, JobMoves
    <3>7. 1 .. job'[j].k - 1 = {} /\ job'[j].tries <= drops'
      BY <1>1, <3>6 DEF TypeOK
    <3>8. Carries(j, t)'
      BY <3>2, <3>5, <3>6, <3>7 DEF Carries
    <3> QED BY <3>8 DEF Safe
  <2> QED BY <2>2, <2>3
<1>4. CASE Store(j)
  <2>1. issued' = issued /\ s.pc = "store"
    BY <1>4 DEF Store
  <2>2. s.k \in DOMAIN TargetsOf[u] /\ DOMAIN TargetsOf[u] = 1 .. Len(TargetsOf[u]) /\ Len(TargetsOf[u]) \in Nat
        /\ DOMAIN TargetsOf[t] = 1 .. Len(TargetsOf[t])
    BY <1>1, <2>1, TargetsTyped DEF Placed
  <2>3. \A k \in DOMAIN TargetsOf[t] : stored'[TargetsOf[t][k]] \in {stored[TargetsOf[t][k]], issued[t]}
    <3>1. CASE stored' = stored
      BY <3>1
    <3>2. CASE stored' = [stored EXCEPT ![TargetsOf[u][s.k]] = s.fresh] /\ Speaks(s)
      <4> DEFINE k == s.k
                 g == s.fresh
      <4>1. u = t => g = issued[t]
        BY <1>4, <3>2
      <4>2. k \in DOMAIN TargetsOf[u] /\ stored' = [stored EXCEPT ![TargetsOf[u][k]] = g] /\ u \in Tokens
        BY <1>1, <2>2, <3>2
      <4> HIDE DEF k, g, u
      <4>3. \A l \in DOMAIN TargetsOf[t] :
              stored'[TargetsOf[t][l]] = stored[TargetsOf[t][l]] \/ (t = u /\ stored'[TargetsOf[t][l]] = g)
        BY <4>2, VariablesApart DEF TypeOK
      <4> QED BY <4>1, <4>3
    <3> QED BY <1>4, <3>1, <3>2, ServerMoves DEF Rehearse, Store
  <2>4. CASE InStep(t) \/ \E i \in Jobs \ {j} : Carries(i, t)
    BY <1>1, <1>2, <2>1, <2>3, <2>4, StillSafe DEF Safe
  <2>5. CASE Carries(j, t) /\ ~InStep(t)
    <3>1. u = t /\ s.fresh = issued[t] /\ Speaks(s) /\ mayWrite /\ s.tries <= drops /\ s.tries \in Nat
          /\ \A k \in 1 .. s.k - 1 : stored[TargetsOf[t][k]] = issued[t]
      BY <1>1, <2>5 DEF Carries, Job
    <3>2. CASE Goto(j, Written(s)) /\ stored' = [stored EXCEPT ![TargetsOf[u][s.k]] = s.fresh]
      <4>1. \A k \in 1 .. s.k : stored'[TargetsOf[t][k]] = issued[t]
        <5> TAKE k \in 1 .. s.k
        <5>1. k \in DOMAIN TargetsOf[t]
          BY <2>2, <3>1
        <5>2. CASE k = s.k
          <6> DEFINE g == s.fresh
          <6>1. k \in DOMAIN TargetsOf[u] /\ stored' = [stored EXCEPT ![TargetsOf[u][k]] = g] /\ u \in Tokens
            BY <1>1, <2>2, <3>2, <5>2
          <6>2. g = issued[t] /\ u = t
            BY <3>1
          <6> HIDE DEF g, u
          <6>3. stored'[TargetsOf[u][k]] = g
            BY <6>1, VariablesApart DEF TypeOK
          <6> QED BY <6>2, <6>3
        <5>3. CASE k # s.k
          <6>1. k \in 1 .. s.k - 1
            BY <2>2, <5>3
          <6> QED BY <2>3, <3>1, <5>1, <6>1
        <5> QED BY <5>2, <5>3
      <4>2. CASE s.k < Len(TargetsOf[u])
        <5>1. Written(s) = [s EXCEPT !.k = s.k + 1, !.tries = 0]
          BY <1>1, <4>2 DEF Written, Job
        <5>2. Written(s).pc = "store" /\ Written(s).at = s.at /\ Written(s).fresh = s.fresh
              /\ Written(s).k = s.k + 1 /\ Written(s).tries = 0
          BY <1>1, <2>1, <5>1 DEF Job
        <5>3. job'[j] = Written(s)
          <6>1. Written(s) \in Job /\ Placed(Written(s)) /\ Written(s).pc \notin Ended
            BY <1>1, <2>1, <5>2, WrittenTyped DEF Ended
          <6> QED BY <3>2, <6>1, GotoJob DEF TypeOK
        <5>4. 1 .. job'[j].k - 1 = 1 .. s.k /\ job'[j].tries <= drops'
          <6>1. s.k \in Nat /\ s.k + 1 - 1 = s.k
            BY <1>1 DEF Job
          <6>2. job'[j].k = s.k + 1 /\ job'[j].tries = 0
            BY <5>2, <5>3
          <6>3. job'[j].k - 1 = s.k
            BY <6>1, <6>2
          <6> QED BY <1>1, <6>2, <6>3
        <5>5. Carries(j, t)'
          BY <2>1, <3>1, <4>1, <5>2, <5>3, <5>4 DEF Carries
        <5> QED BY <5>5 DEF Safe
      <4>3. CASE ~(s.k < Len(TargetsOf[u]))
        <5>1. DOMAIN TargetsOf[t] \subseteq 1 .. s.k
          BY <2>2, <3>1, <4>3
        <5>2. InStep(t)'
          BY <2>1, <4>1, <5>1 DEF InStep
        <5> QED BY <5>2 DEF Safe
      <4> QED BY <4>2, <4>3
    <3>3. CASE drops' = drops + 1 /\ Goto(j, Again(s)) /\ stored' = stored
      <4>1. s.tries + 1 < Retries /\ s.tries + 1 <= drops'
        BY <1>1, <3>1, <3>3, RetriesSome
      <4>2. Again(s) = [s EXCEPT !.tries = s.tries + 1]
        BY <1>1, <4>1 DEF Again, Job
      <4>3. Again(s).pc = "store" /\ Again(s).at = s.at /\ Again(s).fresh = s.fresh /\ Again(s).k = s.k
            /\ Again(s).tries = s.tries + 1
        BY <1>1, <2>1, <4>2 DEF Job
      <4>4. job'[j] = Again(s)
        BY <1>1, <2>1, <3>3, <4>3, AgainTyped, GotoJob DEF TypeOK, Ended
      <4>5. Carries(j, t)'
        BY <2>1, <3>1, <3>3, <4>1, <4>3, <4>4 DEF Carries
      <4> QED BY <4>5 DEF Safe
    <3> QED BY <1>4, <3>1, <3>2, <3>3 DEF Store
  <2> QED BY <2>4, <2>5 DEF Safe
<1>5. CASE Rehearse(j)
  <2> DEFINE a == AskOrder[s.at]
  <2>1. issued' = issued /\ ~Carries(j, t) /\ s.pc = "rewrite"
    BY <1>5 DEF Rehearse, Carries
  <2>2. s.k \in DOMAIN TargetsOf[a] /\ a \in Tokens
    BY <2>1, JobTyped DEF Placed
  <2>3. \A k \in DOMAIN TargetsOf[t] : stored'[TargetsOf[t][k]] \in {stored[TargetsOf[t][k]], issued[t]}
    <3>1. CASE stored' = stored
      BY <3>1
    <3>2. CASE stored' = [stored EXCEPT ![TargetsOf[a][s.k]] = s.env[a]] /\ MayRewrite(s)
      <4> DEFINE k == s.k
                 g == s.env[a]
      <4>1. a = t => g = issued[t]
        BY <1>5, <3>2
      <4>2. k \in DOMAIN TargetsOf[a] /\ stored' = [stored EXCEPT ![TargetsOf[a][k]] = g] /\ a \in Tokens
        BY <2>2, <3>2
      <4> HIDE DEF k, g, a
      <4>3. \A l \in DOMAIN TargetsOf[t] :
              stored'[TargetsOf[t][l]] = stored[TargetsOf[t][l]] \/ (t = a /\ stored'[TargetsOf[t][l]] = g)
        BY <4>2, VariablesApart DEF TypeOK
      <4> QED BY <4>1, <4>3
    <3> QED BY <1>5, <3>1, <3>2 DEF Rehearse
  <2> QED BY <1>1, <1>2, <2>1, <2>3, StillSafe DEF Safe
<1>6. CASE Crash(j)
  BY <1>6 DEF Crash
<1>7. CASE Start(j) \/ Ask(j) \/ ReadVariable(j) \/ NotDue(j) \/ Verify(j)
  <2>1. issued' = issued /\ stored' = stored /\ ~Carries(j, t)
    BY <1>7 DEF Start, Ask, ReadVariable, NotDue, Verify, Server, Carries
  <2> QED BY <1>1, <1>2, <2>1, StillSafe DEF Safe
<1> QED BY <1>3, <1>4, <1>5, <1>6, <1>7 DEF JobStep

\* A job goes from a rotation to the stores only with a new value issued.
LEMMA RotateIssues ==
    ASSUME TypeOK, NEW j \in Jobs, Rotate(j), job'[j].pc = "store"
    PROVE  LET t == RotateOrder[job[j].at] IN MayRotate(job[j], t) /\ Issue(t)
<1> DEFINE s == job[j]
           t == RotateOrder[s.at]
<1>1. CASE ~MayRotate(s, t)
  <2>1. Goto(j, [s EXCEPT !.pc = "failed"])
    BY <1>1 DEF Rotate, End
  <2>2. s \in Job /\ Placed(s)
    BY JobTyped
  <2>3. [s EXCEPT !.pc = "failed"] \in Job /\ Placed([s EXCEPT !.pc = "failed"])
        /\ [s EXCEPT !.pc = "failed"].pc = "failed"
    BY <2>2, EndTyped DEF Ended, Job
  <2>4. job'[j].pc = "failed"
    BY <2>1, <2>3, GotoJob DEF TypeOK
  <2> QED BY <2>4
<1>2. CASE MayRotate(s, t)
  BY <1>2 DEF Rotate
<1> QED BY <1>1, <1>2

\* What a lone job has stays what GitLab accepts: nobody else issues.
LEMMA CurrentKept ==
    ASSUME Kept, NEW j \in Jobs, JobStep(j) \/ Crash(j)
    PROVE  Current'
<1> SUFFICES ASSUME mishaps' = {}, NEW i \in Jobs
             PROVE  /\ job'[i].pc \in Early /\ drops' < Retries => \A t \in Tokens : job'[i].env[t] = issued'[t]
                    /\ job'[i].pc = "store" =>
                          /\ job'[i].fresh = issued'[RotateOrder[job'[i].at]]
                          /\ RotateOrder[job'[i].at] # Self => job'[i].env[Self] = issued'[Self] /\ day' < expires'[Self]
  BY DEF Current
<1> DEFINE s == job[j]
           t == RotateOrder[s.at]
<1>0. TypeOK /\ Alone /\ Current
  BY DEF Kept, Speaking
<1>1. mishaps = {} /\ day' = day
  BY <1>0, ServerMoves
<1>2. s \in Job /\ Placed(s) /\ t \in Tokens /\ issued \in [Tokens -> Nat] /\ expires \in [Tokens -> Nat]
      /\ Self \in Tokens
  BY <1>0, JobTyped DEF TypeOK, Tokens
<1>3. Start(j) => \A k \in Jobs : ~Running(k)
  BY <1>0, ServerMoves
<1>4. CASE i # j
  <2>1. job'[i] = job[i]
    BY <1>0, <1>4, JobMoves
  <2>2. ~Running(i)
    <3>1. Start(j) \/ Running(j)
      BY <1>0, JobMoves
    <3>2. Running(j) /\ Running(i) => i = j
      BY <1>0, <1>1 DEF Alone
    <3> QED BY <1>3, <1>4, <3>1, <3>2
  <2> QED BY <2>1, <2>2 DEF Running, Early
<1>5. CASE i = j
  <2>1. ASSUME job'[j].pc \in Early, drops' < Retries PROVE \A u \in Tokens : job'[j].env[u] = issued'[u]
    <3>1. drops < Retries
      <4>1. drops \in Nat /\ drops' \in {drops, drops + 1} /\ Retries \in Nat
        BY <1>0, ServerMoves, RetriesSome DEF TypeOK
      <4> QED BY <2>1, <4>1
    <3>2. CASE Start(j) /\ job'[j].env = [u \in Tokens |-> stored[TargetsOf[u][1]]]
      <4>1. \A u \in Tokens : InStep(u)
        <5>1. \A u \in Tokens : Safe(u)
          BY <1>1, <3>1 DEF Kept, AllSafe
        <5>2. \A k \in Jobs : job[k].pc # "store"
          <6>1. \A k \in Jobs : ~Running(k)
            BY <1>3, <3>2
          <6> QED BY <6>1 DEF Running
        <5> QED BY <5>1, <5>2 DEF Safe, Carries
      <4>2. \A u \in Tokens : 1 \in DOMAIN TargetsOf[u]
        BY TargetsTyped
      <4>3. issued' = issued
        BY <3>2 DEF Start, Server
      <4>4. \A u \in Tokens : stored[TargetsOf[u][1]] = issued[u]
        BY <4>1, <4>2 DEF InStep
      <4> QED BY <3>2, <4>3, <4>4
    <3>3. CASE job'[j].env = s.env /\ s.pc \in Early
      <4>1. issued' = issued
        BY <1>0, <3>3, ServerMoves DEF Rotate, Early
      <4> QED BY <1>0, <1>1, <3>1, <3>3, <4>1 DEF Current
    <3> QED BY <1>0, <2>1, <3>2, <3>3, JobMoves
  <2>2. ASSUME job'[j].pc = "store"
        PROVE  /\ job'[j].fresh = issued'[RotateOrder[job'[j].at]]
               /\ RotateOrder[job'[j].at] # Self => job'[j].env[Self] = issued'[Self] /\ day' < expires'[Self]
    <3>1. CASE Rotate(j) /\ job'[j].fresh = issued[t] + 1 /\ job'[j].at = s.at /\ job'[j].env = s.env
      <4>1. MayRotate(s, t) /\ Issue(t)
        BY <1>0, <2>2, <3>1, RotateIssues
      <4>2. /\ issued' = [issued EXCEPT ![t] = issued[t] + 1] /\ expires' = [expires EXCEPT ![t] = day + Lifetime]
            /\ s.env[Self] = issued[Self] /\ day < expires[Self]
        BY <4>1 DEF Issue, MayRotate, Accepted
      <4> HIDE DEF t
      <4>3. issued'[t] = issued[t] + 1
        BY <1>2, <4>2
      <4>4. t # Self => issued'[Self] = issued[Self] /\ expires'[Self] = expires[Self]
        BY <1>2, <4>2
      <4> QED BY <1>1, <3>1, <4>2, <4>3, <4>4 DEF t
    <3>2. CASE Store(j) /\ job'[j].fresh = s.fresh /\ job'[j].at = s.at /\ job'[j].env = s.env
      <4>1. s.pc = "store" /\ issued' = issued /\ expires' = expires
        BY <3>2 DEF Store
      <4>2. s.fresh = issued[t] /\ (t # Self => s.env[Self] = issued[Self] /\ day < expires[Self])
        BY <1>0, <1>1, <4>1 DEF Current
      <4> QED BY <1>1, <3>2, <4>1, <4>2
    <3> QED BY <1>0, <2>2, <3>1, <3>2, JobMoves
  <2> QED BY <1>5, <2>1, <2>2
<1> QED BY <1>4, <1>5

\* The run's own token stays safe beside another job, every token without one.
LEMMA SafesKept ==
    ASSUME Kept, TypeOK', NEW j \in Jobs, JobStep(j) \/ Crash(j)
    PROVE  SelfSafe' /\ AllSafe'
<1> DEFINE s == job[j]
           u == RotateOrder[s.at]
           a == AskOrder[s.at]
<1>0. TypeOK /\ Fresh /\ Role /\ Alone /\ Current /\ SelfSafe /\ AllSafe
  BY DEF Kept, Speaking
<1>1. mishaps \subseteq mishaps' /\ (drops' < Retries => drops < Retries)
  <2>1. mishaps \subseteq mishaps' /\ drops \in Nat /\ drops' \in {drops, drops + 1} /\ Retries \in Nat
    BY <1>0, ServerMoves, RetriesSome DEF TypeOK
  <2> QED BY <2>1
<1>2. s \in Job /\ Self \in Tokens
  BY <1>0, JobTyped DEF Tokens
<1>3. ASSUME NEW t \in Tokens, Carries(j, t), mishaps \subseteq {"overlap"}
      PROVE  day < expires[t] /\ s.fresh = issued[t] /\ mayWrite /\ u = t
  BY <1>0, <1>3 DEF Carries, Fresh, Role, Late
<1>4. SelfSafe'
  <2> SUFFICES ASSUME mishaps' \subseteq {"overlap"}, drops' < Retries PROVE Safe(Self)'
    BY DEF SelfSafe
  <2>1. Safe(Self)
    BY <1>0, <1>1 DEF SelfSafe
  <2>2. MayRewrite(s) => s.env[Self] = issued[Self]
    BY DEF MayRewrite, Accepted
  <2>3. u = Self /\ Speaks(s) => s.fresh = issued[Self]
    BY DEF Speaks, Accepted
  <2>4. Carries(j, Self) => Speaks(s) /\ mayWrite
    BY <1>1, <1>2, <1>3 DEF Speaks, Accepted
  <2> QED BY <1>0, <1>2, <2>1, <2>2, <2>3, <2>4, SafeKept
<1>5. AllSafe'
  <2> SUFFICES ASSUME mishaps' = {}, drops' < Retries, NEW t \in Tokens PROVE Safe(t)'
    BY DEF AllSafe
  <2>0. mishaps = {}
    BY <1>1
  <2>1. Safe(t)
    BY <1>0, <1>1, <2>0 DEF AllSafe
  <2>2. Rehearse(j) => s.env[t] = issued[t]
    BY <1>0, <1>1, <2>0 DEF Rehearse, Current, Early
  <2>3. Store(j) => s.fresh = issued[u]
    BY <1>0, <2>0 DEF Store, Current
  <2>4. Carries(j, t) => Speaks(s) /\ mayWrite
    <3> SUFFICES ASSUME Carries(j, t) PROVE Speaks(s) /\ mayWrite
      OBVIOUS
    <3>1. day < expires[t] /\ s.fresh = issued[t] /\ mayWrite /\ u = t
      BY <1>3, <2>0
    <3>2. u # Self => s.env[Self] = issued[Self] /\ day < expires[Self]
      BY <1>0, <2>0 DEF Current, Carries
    <3> QED BY <3>1, <3>2 DEF Speaks, Accepted
  <2>5. mishaps' \subseteq {"overlap"}
    OBVIOUS
  <2> QED BY <1>0, <2>1, <2>2, <2>3, <2>4, <2>5, SafeKept
<1> QED BY <1>4, <1>5

\* The role and the day change only where nothing is half-written.
LEMMA KeptElse ==
    ASSUME Kept, ChangeRole \/ Tick \/ UNCHANGED vars
    PROVE  (Current /\ SelfSafe /\ AllSafe)'
<1>0. Speaking /\ Current /\ SelfSafe /\ AllSafe
  BY DEF Kept
<1>1. CASE ChangeRole \/ UNCHANGED vars
  <2>1. /\ UNCHANGED <<job, issued, expires, stored, day, drops>> /\ mishaps \subseteq mishaps'
    BY <1>1 DEF ChangeRole, vars
  <2>2. Current'
    BY <1>0, <2>1 DEF Current
  <2>3. \A t \in Tokens : Safe(t) => Safe(t)'
    BY <2>1 DEF Safe, InStep, Carries
  <2>4. Self \in Tokens
    BY DEF Tokens
  <2>5. SelfSafe'
    BY <1>0, <2>1, <2>3, <2>4 DEF SelfSafe
  <2>6. AllSafe'
    BY <1>0, <2>1, <2>3 DEF AllSafe
  <2> QED BY <2>2, <2>5, <2>6
<1>2. CASE Tick
  <2>1. UNCHANGED <<issued, stored, drops, mishaps>> /\ \A j \in Jobs : ~Running(j)
    BY <1>2 DEF Tick
  <2>2. \A j \in Jobs : job'[j].pc = "idle"
    BY <1>2, NoJobTyped DEF Tick, NoJob
  <2>3. \A j \in Jobs : job[j].pc # "store"
    BY <2>1 DEF Running
  <2>4. \A t \in Tokens : Safe(t) => Safe(t)'
    BY <2>1, <2>3 DEF Safe, Carries, InStep
  <2>5. Self \in Tokens
    BY DEF Tokens
  <2>6. Current'
    BY <2>2 DEF Current, Early
  <2>7. SelfSafe'
    BY <1>0, <2>1, <2>4, <2>5 DEF SelfSafe
  <2>8. AllSafe'
    BY <1>0, <2>1, <2>4 DEF AllSafe
  <2> QED BY <2>6, <2>7, <2>8
<1> QED BY <1>1, <1>2

\* A token is in every variable that stores it, or a job that can still write
\* it has written all but the rest (token.go, rotateOne).
THEOREM NothingStranded == Spec => []Kept
<1>1. Init /\ Speaking => Kept
  <2> SUFFICES ASSUME Init, Speaking PROVE Kept
    OBVIOUS
  <2>1. \A t \in Tokens : InStep(t)
    BY VariablesApart DEF Init, InStep
  <2>2. Self \in Tokens
    BY DEF Tokens
  <2>3. \A j \in Jobs : job[j].pc = "idle"
    BY NoJobTyped DEF Init, NoJob
  <2>4. Current
    BY <2>3 DEF Current, Early
  <2> QED BY <2>1, <2>2, <2>4 DEF Kept, SelfSafe, AllSafe, Safe
<1>2. Kept /\ Speaking' /\ [Next]_vars => Kept'
  <2> SUFFICES ASSUME Kept, Speaking', [Next]_vars PROVE Kept'
    OBVIOUS
  <2>1. TypeOK'
    BY DEF Speaking
  <2>2. ASSUME NEW j \in Jobs, JobStep(j) \/ Crash(j) PROVE (Current /\ SelfSafe /\ AllSafe)'
    BY <2>1, <2>2, CurrentKept, SafesKept
  <2> QED BY <2>2, KeptElse DEF Next, Kept
<1> QED BY <1>1, <1>2, HolderMaySpeak, PTL DEF Spec

\* Unless a job died, an answer was lost, the role was taken under a job or as
\* many writes were dropped as there are retries, every token's value is in a
\* variable or in a job that still holds it; the run's own one even when two
\* jobs overlap.
THEOREM OneHolderAlways == Spec => []OneHolder
<1>1. Kept => OneHolder
  <2> SUFFICES ASSUME Kept PROVE OneHolder
    OBVIOUS
  <2>1. \A t \in Tokens : Safe(t) => Held(t)
    <3> SUFFICES ASSUME NEW t \in Tokens, Safe(t) PROVE Held(t)
      OBVIOUS
    <3>1. 1 \in DOMAIN TargetsOf[t]
      BY TargetsTyped
    <3>2. CASE InStep(t)
      BY <3>1, <3>2 DEF InStep, Held
    <3>3. ASSUME NEW j \in Jobs, Carries(j, t) PROVE Held(t)
      BY <3>3 DEF Carries, Held, Holds, Running
    <3> QED BY <3>2, <3>3 DEF Safe
  <2>2. Self \in Tokens
    BY DEF Tokens
  <2> QED BY <2>1, <2>2 DEF Kept, SelfSafe, AllSafe, OneHolder
<1> QED BY <1>1, NothingStranded, PTL

\* In a history without a crash, a lost answer, a role taken away or two jobs at
\* a time, and with fewer dropped writes than there are retries, a job that ends
\* well and did not only rehearse leaves every token far from its expiry and in
\* every variable that stores it (rotate.go:263), for any number of tokens,
\* variables and jobs.  It says nothing of a store whose last attempt failed.
THEOREM DoneRenews == Spec => DoneIsRenewed
<1> DEFINE Renews(j) == job[j].pc /= "done" /\ job'[j].pc = "done" /\ ~job[j].dry /\ mishaps = {} /\ drops < Retries
                           => \A t \in Tokens : ~Due(t)' /\ InStep(t)'
<1>1. ASSUME Kept, Deadlines', Next, NEW j \in Jobs PROVE Renews(j)
  <2> SUFFICES ASSUME job[j].pc /= "done", job'[j].pc = "done", ~job[j].dry, mishaps = {}, drops < Retries,
                      NEW t \in Tokens
               PROVE  ~Due(t)' /\ InStep(t)'
    OBVIOUS
  <2>0. TypeOK /\ Alone /\ AllSafe
    BY <1>1 DEF Kept, Speaking
  <2>1. JobStep(j) \/ Crash(j)
    <3>1. ASSUME NEW i \in Jobs, JobStep(i) \/ Crash(i) PROVE i = j
      BY <2>0, <3>1, JobMoves
    <3>2. ~ChangeRole
      BY DEF ChangeRole
    <3>3. ~Tick
      BY NoJobTyped DEF Tick, NoJob
    <3> QED BY <1>1, <3>1, <3>2, <3>3 DEF Next
  <2>2. job'[j].dry = job[j].dry /\ (Ask(j) \/ NotDue(j) \/ Verify(j))
    BY <2>0, <2>1, JobMoves
  <2>3. Running(j) /\ job[j].pc # "store" /\ stored' = stored /\ issued' = issued
    BY <2>2 DEF Ask, NotDue, Verify, Running, Server
  <2>4. \A i \in Jobs : job[i].pc # "store"
    BY <2>0, <2>3 DEF Alone, Running
  <2>5. InStep(t)
    BY <2>0, <2>4 DEF AllSafe, Safe, Carries
  <2>6. InStep(t)'
    BY <2>3, <2>5 DEF InStep
  <2>7. Knows(job'[j], DueTokens')
    BY <1>1 DEF Deadlines
  <2>8. DueTokens' = {}
    BY <2>2, <2>7 DEF Knows
  <2>9. ~Due(t)'
    BY <2>8 DEF DueTokens
  <2> QED BY <2>6, <2>9
<1>2. Kept /\ Deadlines' /\ [Next]_vars => [\A j \in Jobs : Renews(j)]_vars
  BY <1>1
<1> QED BY <1>2, NothingStranded, DeadlinesKnown, PTL DEF Spec, DoneIsRenewed
=============================================================================
