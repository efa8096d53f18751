----------------------------- MODULE Schedules ------------------------------
(***************************************************************************)
(* Package sched: whether a schedule is open at an instant and when it next *)
(* opens.  An expression is                                                 *)
(*   [kind |-> "any"]                                 "at any time"         *)
(*   [kind |-> "cron", fields |-> <<f1, .., f5>>]     five cron fields      *)
(*   [kind |-> "words", clauses |-> <<c1, ..>>]       natural language      *)
(* A cron field is a set of parts [star, lo, hi, step].  A clause is        *)
(* <<"after", m>>, <<"before", m>> (minutes from midnight), <<"weekday">>,  *)
(* <<"weekend">>, <<"on", days>>, or <<"dayofmonth", n>>, in the order      *)
(* written.  An instant is local: [minute, hour, dom, month, dow].          *)
(***************************************************************************)
EXTENDS Integers, Sequences, FiniteSets

Error == [ok |-> FALSE]

\* -------------------------------------------------------------------- cron
Low == <<0, 0, 1, 1, 0>>
High == <<59, 23, 31, 12, 6>>

Every(lo, hi, step) == {v \in lo .. hi : (v - lo) % step = 0}

\* Cron takes 7 for Sunday as well as 0.
Sunday(i, part) == i = 5 /\ ~part.star /\ part.hi = 7
PartIsValid(i, part) ==
    /\ part.step > 0
    /\ part.star \/ Sunday(i, part) \/ (Low[i] <= part.lo /\ part.lo <= part.hi /\ part.hi <= High[i])
    /\ Sunday(i, part) => part.lo \in 0 .. 7
Selected(i, part) ==
    IF part.star THEN Every(Low[i], High[i], part.step)
    ELSE IF Sunday(i, part) THEN {0} \cup Every(part.lo, 6, part.step)
    ELSE Every(part.lo, part.hi, part.step)
FillField(i, field) == UNION {Selected(i, part) : part \in field}

\* A plain star anywhere in the field restricts nothing.
Restricted(field) == \A part \in field : ~(part.star /\ part.step = 1)

CronIsValid(fields) == \A i \in 1 .. 5 : \A part \in fields[i] : PartIsValid(i, part)

\* If day of month and day of week are both restricted, either is enough.
CronActive(fields, t) ==
    LET In(i, v) == v \in FillField(i, fields[i])
    IN /\ In(1, t.minute) /\ In(2, t.hour) /\ In(4, t.month)
       /\ IF Restricted(fields[3]) /\ Restricted(fields[5])
          THEN In(3, t.dom) \/ In(5, t.dow)
          ELSE (Restricted(fields[3]) => In(3, t.dom)) /\ (Restricted(fields[5]) => In(5, t.dow))

\* ----------------------------------------------------------------- natural
Weekdays == 1 .. 5
Weekend == {0, 6}

\* "12am" is midnight, "1pm" 13:00; a bare number is an hour.
ParseClock(hour, minute, half) ==
    LET h == CASE half = "am" /\ hour = 12 -> 0
               [] half = "pm" /\ hour # 12 -> hour + 12
               [] OTHER -> hour
    IN IF h > 24 \/ minute > 59 THEN Error ELSE [ok |-> TRUE, at |-> 60 * h + minute]

Places(clauses, word) == {i \in DOMAIN clauses : clauses[i][1] = word}
First(S) == CHOOSE i \in S : \A j \in S : i <= j

\* What stands before the first "on <days>": the rest of the phrase goes with it.
Kept(clauses) ==
    LET on == Places(clauses, "on") IN IF on = {} THEN clauses ELSE SubSeq(clauses, 1, First(on) - 1)

Days(clauses) ==
    LET on == Places(clauses, "on")
    IN IF on # {} THEN clauses[First(on)][2]
       ELSE IF Places(clauses, "weekend") # {} THEN Weekend
       ELSE IF Places(clauses, "weekday") # {} THEN Weekdays
       ELSE 0 .. 6

(***************************************************************************)
(* The window, the days and the day of the month a phrase asks for; an      *)
(* error for a phrase with words left over or with nothing in it.           *)
(***************************************************************************)
MutWraps(after, before) == FALSE
Wraps(after, before) == after > before

ParseNatural(clauses) ==
    LET kept == Kept(clauses)
        monthday == {clauses[i][2] : i \in Places(clauses, "dayofmonth")}
        after == Places(kept, "after")
        before == Places(kept, "before")
        leftover == \/ Cardinality(after) > 1 \/ Cardinality(before) > 1
                    \/ Cardinality(monthday) > 1 \/ \E n \in monthday : n \notin 1 .. 4
                    \/ Places(clauses, "weekend") # {} /\ Places(clauses, "weekday") # {}
        from == IF after = {} THEN 0 ELSE kept[First(after)][2]
        until == IF before = {} THEN 24 * 60 ELSE kept[First(before)][2]
    IN IF leftover \/ clauses = <<>> THEN Error
       ELSE [ok |-> TRUE, days |-> Days(clauses), monthday |-> monthday,
             window |-> after # {} \/ before # {}, from |-> from, until |-> until,
             wraps |-> after # {} /\ before # {} /\ Wraps(from, until)]

MinuteOf(t) == 60 * t.hour + t.minute
NaturalActive(n, t) ==
    /\ t.dow \in n.days
    /\ n.monthday # {} => t.dom \in n.monthday
    /\ n.window => LET m == MinuteOf(t)
                   IN IF n.wraps THEN m >= n.from \/ m < n.until ELSE m >= n.from /\ m < n.until

\* ---------------------------------------------------------------- schedules
Valid(e) ==
    CASE e.kind = "any" -> TRUE
      [] e.kind = "cron" -> CronIsValid(e.fields)
      [] OTHER -> ParseNatural(e.clauses).ok
Active(e, t) ==
    CASE e.kind = "any" -> TRUE
      [] e.kind = "cron" -> CronActive(e.fields, t)
      [] OTHER -> NaturalActive(ParseNatural(e.clauses), t)

Parses(schedule) == \A e \in schedule : Valid(e)

\* Open when any expression is; no expressions is no schedule.
IsActive(schedule, t) == schedule = {} \/ \E e \in schedule : Active(e, t)

(***************************************************************************)
(* The first minute of clock, from n on and within the horizon, that is     *)
(* open; 0 when there is none.  clock[i] is the local time of minute i, so  *)
(* an hour the clocks skip is simply not there.                             *)
(***************************************************************************)
NextOpen(schedule, clock, n, horizon) ==
    LET open == {i \in n .. n + horizon - 1 : i \in DOMAIN clock /\ IsActive(schedule, clock[i])}
    IN IF open = {} THEN 0 ELSE First(open)

\* ---------------------------------------------------------------- reference
\* What a phrase says, clause by clause; after and before make one window.
Says(clauses, t) ==
    LET m == MinuteOf(t)
        after == {clauses[i][2] : i \in Places(clauses, "after")}
        before == {clauses[i][2] : i \in Places(clauses, "before")}
        Later == \A a \in after : m >= a
        Sooner == \A b \in before : m < b
    IN /\ IF \E a \in after, b \in before : a > b THEN Later \/ Sooner ELSE Later /\ Sooner
       /\ Places(clauses, "weekend") # {} => t.dow \in Weekend
       /\ Places(clauses, "weekday") # {} => t.dow \in Weekdays
       /\ \A i \in Places(clauses, "on") : t.dow \in clauses[i][2]
       /\ \A i \in Places(clauses, "dayofmonth") : t.dom = clauses[i][2]

\* The same schedule in cron's words, for whole hours.
Star == [star |-> TRUE, lo |-> 0, hi |-> 0, step |-> 1]
From(lo, hi) == [star |-> FALSE, lo |-> lo, hi |-> hi, step |-> 1]
Hours(n) == IF ~n.window THEN {Star}
            ELSE IF n.wraps THEN {From(n.from \div 60, 23), From(0, n.until \div 60 - 1)}
            ELSE {From(n.from \div 60, n.until \div 60 - 1)}
AsCron(n) == <<{Star}, Hours(n), IF n.monthday = {} THEN {Star} ELSE {From(d, d) : d \in n.monthday}, {Star},
               IF n.days = 0 .. 6 THEN {Star} ELSE {From(d, d) : d \in n.days}>>

\* cron joins a day of the month and a day of the week by "or", a phrase by "and".
SaysLikeCron(n, cron, t) ==
    CronIsValid(cron) /\ ~(Restricted(cron[3]) /\ Restricted(cron[5])) => (CronActive(cron, t) <=> NaturalActive(n, t))
Agree(n, clauses, t) == n.ok => (NaturalActive(n, t) <=> Says(clauses, t)) /\ SaysLikeCron(n, AsCron(n), t)
=============================================================================
