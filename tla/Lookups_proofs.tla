--------------------------- MODULE Lookups_proofs ---------------------------
(***************************************************************************)
(* Proofs about what is known of versions and how it is asked for: the ages *)
(* Planning keeps, for every set of dependencies, releases and bounds, and  *)
(* the callers of Calls, for every load of HTTP calls and every set of      *)
(* lookups.                                                                 *)
(*                                                                          *)
(* Ages.  What the planner holds back rests on cache.Store's first sights:  *)
(* they must neither claim a version has been known for longer than it has  *)
(* been public, nor forget.  A first sight outlives the release set it came *)
(* with, is carried off in a copy of the file and comes back by an import,  *)
(* possibly into a file that was lost and filled again in the meantime; so  *)
(* the invariant speaks of the copy as well: what it knows is true, and it  *)
(* knows it no later than the file does.                                    *)
(*                                                                          *)
(* HTTP calls.  A step moves one call, so the invariant is one of each call *)
(* and of the gates: a caller enters when a slot of its gate is free, keeps *)
(* it through its waits, and whoever shares the gate shares its width.      *)
(*                                                                          *)
(* Lookups.  A step moves one lookup and what lies outside with it, or the  *)
(* outside alone.  The tags that were there all along only ever become      *)
(* fewer, so a lookup that has read all of them up to the end of a page     *)
(* keeps having read them, whatever is pushed or deleted between two pages; *)
(* a token that is taken away leaves a trace a failed lookup may point to.  *)
(*                                                                          *)
(* Versions.  A comparison looks for the first place two versions differ    *)
(* at.  Sequences ordered by it and by their lengths are in a strict order  *)
(* again, so each scheme orders what it reads, and a finite set has ends.   *)
(*                                                                          *)
(* The plan.  Planner and Branching build sequences with recursive          *)
(* functions: what they hold follows by climbing to their length (Climb).   *)
(* Decide gives a reason for each hold; a composed branch that is held for  *)
(* nothing holds no held member, and a lift takes away the reasons it names *)
(* and no other, so what acts was not too young unless the age was lifted.  *)
(*                                                                          *)
(* The members.  That an aged member keeps its place says that a release    *)
(* once offered is offered again, whatever was published since.  The        *)
(* invariant says what a member stands for: a release above the base, of a  *)
(* type that is proposed, whose value the updater would write.  The base    *)
(* may rise under it, but no further than the range admits, and what a      *)
(* comparator admits is convex, so the release stays above it; a newer one  *)
(* of its bucket moves the value at least as far.  All of it needs          *)
(* dependencies that no fix, digest or bump moves (MembersAreSteady).       *)
(***************************************************************************)
EXTENDS Planning, Calls, FiniteSetTheorems, NaturalsInduction, TLAPS

\* Ages of all the versions of all the dependencies.
Aged(ages) ==
  /\ ages = [i \in Dep |-> ages[i]]
  /\ \A i \in Dep : ages[i] \in [Versioned(i) -> Never..Age(i)]

\* A release set as it is stored.
Stored(i) == [held : {TRUE}, fresh : BOOLEAN, versions : SUBSET Versioned(i), withdrawn : SUBSET Versioned(i)]

\* The types of what the registries and the cache hold.
CacheTyped ==
  /\ Aged(public) /\ Aged(seen)
  /\ withdrawn \in [Dep -> SUBSET UNION {Versioned(i) : i \in Dep}]
  /\ \A i \in Dep : withdrawn[i] \subseteq Published(i)
  /\ \A i \in Dep : cache[i] = Nothing \/ cache[i] \in Stored(i)
  /\ snapshot = Nothing \/ (snapshot = [held |-> TRUE, seen |-> snapshot.seen] /\ Aged(snapshot.seen))

\* No first sight is older than the version.
SightsAreTrue ==
  \A i \in Dep : \A v \in Versioned(i) :
    /\ seen[i][v] <= public[i][v]
    /\ snapshot # Nothing => snapshot.seen[i][v] <= public[i][v]

\* What the file stores was published.
AnswersArePublic ==
  \A i \in Dep : cache[i] # Nothing => cache[i].versions \subseteq Published(i)

\* A copy knows what it knows for at least as long as the file does.
CopyIsOlder ==
  snapshot # Nothing =>
    \A i \in Dep : \A v \in Versioned(i) :
      snapshot.seen[i][v] = Never \/ snapshot.seen[i][v] >= seen[i][v]

\* The inductive invariant.
AgesInv == CacheTyped /\ SightsAreTrue /\ AnswersArePublic /\ CopyIsOlder

-----------------------------------------------------------------------------
(* The ages.                                                               *)

\* An age is a number of days up to the one asked for, or Never.
LEMMA AgeIsNat == \A i \in Dep : Age(i) \in Nat
BY AgesAreNat DEF Age, Dep

\* A day keeps an age in its range, never lessens it and keeps the order.
LEMMA OlderKeepsOrder ==
  ASSUME NEW i \in Dep, NEW a \in Never..Age(i), NEW b \in Never..Age(i)
  PROVE  /\ Older(i, a) \in Never..Age(i)
         /\ Older(i, a) >= a
         /\ Older(i, a) = Never <=> a = Never
         /\ a <= b => Older(i, a) <= Older(i, b)
BY AgeIsNat DEF Older, Never

\* A day for all of them.
LEMMA OlderAllAged ==
  ASSUME NEW ages, Aged(ages)
  PROVE  /\ Aged(OlderAll(ages))
         /\ \A i \in Dep : \A v \in Versioned(i) : OlderAll(ages)[i][v] = Older(i, ages[i][v])
<1>1. \A i \in Dep : \A v \in Versioned(i) : ages[i][v] \in Never..Age(i)
  BY DEF Aged
<1>2. \A i \in Dep : \A v \in Versioned(i) : Older(i, ages[i][v]) \in Never..Age(i)
  BY <1>1, OlderKeepsOrder
<1> QED BY <1>2 DEF Aged, OlderAll

\* A value read from a table of ages.
LEMMA AgedAt ==
  ASSUME NEW ages, Aged(ages), NEW i \in Dep, NEW v \in Versioned(i)
  PROVE  ages[i][v] \in Never..Age(i)
BY DEF Aged

\* What a lookup answers that is stored for the first time, or again.
LEMMA AnswerTyped ==
  ASSUME AgesInv, NEW i \in Dep, NEW how
  PROVE  /\ Asked(i) \in Stored(i) /\ Asked(i).versions = Published(i) /\ Asked(i) # Nothing
         /\ how = "asked" \/ (how = "cached" /\ cache[i] # Nothing)
              => Answered(i, how).versions \subseteq Published(i)
<1>1. Published(i) \subseteq Versioned(i) /\ withdrawn[i] \subseteq Versioned(i)
  BY DEF AgesInv, CacheTyped, Published
<1>2. Asked(i).held = TRUE /\ Nothing.held = FALSE
  BY DEF Asked, Nothing
<1>3. Asked(i) \in Stored(i) /\ Asked(i).versions = Published(i)
  BY <1>1 DEF Asked, Stored
<1> QED BY <1>2, <1>3 DEF AgesInv, AnswersArePublic, Answered

\* FirstSeenAll adds a sight of what was answered and takes none away.
LEMMA SightKeeps ==
  ASSUME AgesInv, NEW i \in Dep, NEW how,
         how = "cached" => cache[i] # Nothing,
         NEW v \in Versioned(i)
  PROVE  /\ Sight(i, how)[v] \in Never..Age(i)
         /\ Sight(i, how)[v] >= seen[i][v]
         /\ Sight(i, how)[v] <= public[i][v]
         /\ Sight(i, how)[v] = seen[i][v] \/ Sight(i, how)[v] = 0
<1>1. /\ seen[i][v] \in Never..Age(i) /\ public[i][v] \in Never..Age(i)
      /\ seen[i][v] <= public[i][v] /\ Age(i) \in Nat
  BY AgedAt, AgeIsNat DEF AgesInv, CacheTyped, SightsAreTrue
<1>2. CASE how \in {"cached", "asked"} /\ seen[i][v] = Never /\ v \in Answered(i, how).versions
  <2>1. v \in Published(i)
    BY <1>2, AnswerTyped
  <2>2. public[i][v] # Never /\ Sight(i, how)[v] = 0
    BY <1>2, <2>1 DEF Published, Sight
  <2> QED BY <1>1, <1>2, <2>2 DEF Never
<1>3. CASE ~(how \in {"cached", "asked"} /\ seen[i][v] = Never /\ v \in Answered(i, how).versions)
  <2>1. Sight(i, how)[v] = seen[i][v]
    BY <1>3 DEF Sight
  <2> QED BY <1>1, <2>1 DEF Never
<1> QED BY <1>2, <1>3

-----------------------------------------------------------------------------
(* The steps.                                                              *)

\* What no step but a lost file may do to a first sight.
SightsStay == \A i \in Dep : \A v \in Versioned(i) : seen'[i][v] >= seen[i][v]

\* A step that leaves the registries and the cache alone.
LEMMA RestKeepsAges ==
  ASSUME AgesInv, UNCHANGED <<public, withdrawn, cache, seen, snapshot>>
  PROVE  AgesInv' /\ SightsStay
<1>1. AgesInv'
  BY DEF AgesInv, CacheTyped, SightsAreTrue, AnswersArePublic, CopyIsOlder, Aged, Published
<1>2. \A i \in Dep : \A v \in Versioned(i) : seen[i][v] >= seen[i][v]
  BY AgedAt, AgeIsNat DEF AgesInv, CacheTyped, Never
<1> QED BY <1>1, <1>2 DEF SightsStay

\* A run stores what the registries answered and when it saw it first.
LEMMA RunKeepsAges ==
  ASSUME AgesInv, NEW silent, NEW knowsOpen, NEW refused, Run(silent, knowsOpen, refused)
  PROVE  AgesInv' /\ SightsStay
<1> DEFINE how == [i \in Dep |-> Fetched(i, silent)]
<1>0. /\ CacheTyped /\ SightsAreTrue /\ AnswersArePublic /\ CopyIsOlder
  BY DEF AgesInv
<1>1. /\ cache' = [i \in Dep |-> IF how[i] = "asked" THEN Asked(i) ELSE cache[i]]
      /\ seen' = [i \in Dep |-> Sight(i, how[i])]
      /\ UNCHANGED <<public, withdrawn, snapshot>>
  BY DEF Run, RunWith, Looked
<1>2. \A i \in Dep : how[i] = "cached" => cache[i] # Nothing
  BY DEF Fetched
<1> HIDE DEF how
<1>3. ASSUME NEW i \in Dep, NEW v \in Versioned(i)
      PROVE  /\ seen'[i][v] \in Never..Age(i)
             /\ seen'[i][v] >= seen[i][v]
             /\ seen'[i][v] <= public[i][v]
             /\ seen'[i][v] = seen[i][v] \/ seen'[i][v] = 0
  <2>1. seen'[i] = Sight(i, how[i])
    BY <1>1
  <2> QED BY <1>2, <2>1, SightKeeps
<1>4. Aged(seen)'
  <2>1. \A i \in Dep : seen'[i] = [v \in Versioned(i) |-> seen'[i][v]]
    BY <1>1 DEF Sight
  <2>2. seen' = [i \in Dep |-> seen'[i]]
    BY <1>1
  <2>3. \A i \in Dep : \A v \in Versioned(i) : seen'[i][v] \in Never..Age(i)
    BY <1>3
  <2>4. \A i \in Dep : seen'[i] \in [Versioned(i) -> Never..Age(i)]
    BY <2>1, <2>3
  <2> QED BY <2>2, <2>4 DEF Aged
<1>5. CacheTyped'
  <2>1. \A i \in Dep : cache'[i] = Nothing \/ cache'[i] \in Stored(i)
    BY <1>0, <1>1, AnswerTyped DEF CacheTyped
  <2>2. Aged(public)'
    BY <1>0, <1>1 DEF CacheTyped, Aged
  <2>3. /\ (withdrawn \in [Dep -> SUBSET UNION {Versioned(i) : i \in Dep}])'
        /\ (\A i \in Dep : withdrawn[i] \subseteq Published(i))'
    BY <1>0, <1>1 DEF CacheTyped, Published
  <2>4. (snapshot = Nothing \/ (snapshot = [held |-> TRUE, seen |-> snapshot.seen] /\ Aged(snapshot.seen)))'
    BY <1>0, <1>1 DEF CacheTyped, Aged
  <2> QED BY <1>4, <2>1, <2>2, <2>3, <2>4 DEF CacheTyped
<1>6. SightsAreTrue'
  BY <1>0, <1>1, <1>3 DEF SightsAreTrue
<1>7. AnswersArePublic'
  <2>1. \A i \in Dep : cache'[i] # Nothing => cache'[i].versions \subseteq Published(i)
    BY <1>0, <1>1, AnswerTyped DEF AnswersArePublic
  <2> QED BY <1>1, <2>1 DEF AnswersArePublic, Published
<1>8. CopyIsOlder'
  <2> SUFFICES ASSUME snapshot # Nothing, NEW i \in Dep, NEW v \in Versioned(i)
               PROVE  snapshot.seen[i][v] = Never \/ snapshot.seen[i][v] >= seen'[i][v]
    BY <1>1 DEF CopyIsOlder
  <2>1. snapshot.seen[i][v] \in Never..Age(i) /\ Age(i) \in Nat
    BY <1>0, AgedAt, AgeIsNat DEF CacheTyped
  <2>2. snapshot.seen[i][v] = Never \/ snapshot.seen[i][v] >= seen[i][v]
    BY <1>0 DEF CopyIsOlder
  <2>3. seen'[i][v] = seen[i][v] \/ seen'[i][v] = 0
    BY <1>3
  <2> QED BY <2>1, <2>2, <2>3 DEF Never
<1> QED BY <1>3, <1>5, <1>6, <1>7, <1>8 DEF AgesInv, SightsStay

\* A day makes everything known older by a day, what was known since then too.
LEMMA DayKeepsAges == ASSUME AgesInv, Day PROVE AgesInv' /\ SightsStay
<1>0. /\ CacheTyped /\ SightsAreTrue /\ AnswersArePublic /\ CopyIsOlder
      /\ Aged(public) /\ Aged(seen)
  BY DEF AgesInv, CacheTyped
<1>1. /\ public' = OlderAll(public) /\ seen' = OlderAll(seen) /\ withdrawn' = withdrawn
      /\ cache' = [i \in Dep |-> IF cache[i] = Nothing THEN Nothing ELSE [cache[i] EXCEPT !.fresh = FALSE]]
  BY DEF Day
<1>2. /\ Aged(public') /\ Aged(seen')
      /\ \A i \in Dep : \A v \in Versioned(i) : public'[i][v] = Older(i, public[i][v])
      /\ \A i \in Dep : \A v \in Versioned(i) : seen'[i][v] = Older(i, seen[i][v])
  BY <1>0, <1>1, OlderAllAged
<1>3. snapshot # Nothing =>
        /\ snapshot' = [held |-> TRUE, seen |-> OlderAll(snapshot.seen)]
        /\ Aged(snapshot.seen) /\ Aged(OlderAll(snapshot.seen))
        /\ \A i \in Dep : \A v \in Versioned(i) :
             OlderAll(snapshot.seen)[i][v] = Older(i, snapshot.seen[i][v])
  <2> SUFFICES ASSUME snapshot # Nothing PROVE <1>3!2
    OBVIOUS
  <2>1. snapshot = [held |-> TRUE, seen |-> snapshot.seen] /\ Aged(snapshot.seen)
    BY <1>0 DEF CacheTyped
  <2> DEFINE later == OlderAll(snapshot.seen)
  <2>2. snapshot' = [snapshot EXCEPT !.seen = later]
    BY DEF Day
  <2> HIDE DEF later
  <2>3. snapshot' = [held |-> TRUE, seen |-> later]
    <3>1. PICK known : snapshot = [held |-> TRUE, seen |-> known]
      BY <2>1
    <3> QED BY <2>2, <3>1
  <2> QED BY <2>1, <2>3, OlderAllAged DEF later
<1>4. snapshot' # Nothing => snapshot # Nothing /\ snapshot'.seen = OlderAll(snapshot.seen)
  <2>1. snapshot = Nothing => snapshot' = Nothing
    BY DEF Day
  <2> QED BY <1>3, <2>1
<1>5. ASSUME NEW i \in Dep, NEW v \in Versioned(i)
      PROVE  /\ public[i][v] \in Never..Age(i) /\ seen[i][v] \in Never..Age(i)
             /\ public'[i][v] = Never <=> public[i][v] = Never
             /\ seen'[i][v] >= seen[i][v]
             /\ seen'[i][v] <= public'[i][v]
  <2>1. /\ public[i][v] \in Never..Age(i) /\ seen[i][v] \in Never..Age(i)
        /\ seen[i][v] <= public[i][v]
    BY <1>0, AgedAt DEF SightsAreTrue
  <2> QED BY <1>2, <2>1, OlderKeepsOrder
<1>6. \A i \in Dep : Published(i)' = Published(i)
  BY <1>5 DEF Published
<1>7. CacheTyped'
  <2>1. \A i \in Dep : cache'[i] = Nothing \/ cache'[i] \in Stored(i)
    <3> SUFFICES ASSUME NEW i \in Dep, cache[i] # Nothing PROVE cache'[i] \in Stored(i)
      BY <1>1
    <3>1. cache[i] \in Stored(i) /\ cache'[i] = [cache[i] EXCEPT !.fresh = FALSE]
      BY <1>0, <1>1 DEF CacheTyped
    <3> QED BY <3>1 DEF Stored
  <2>2. snapshot' = Nothing \/ (snapshot' = [held |-> TRUE, seen |-> snapshot'.seen] /\ Aged(snapshot'.seen))
    <3>1. CASE snapshot = Nothing
      BY <3>1 DEF Day
    <3>2. CASE snapshot # Nothing
      BY <1>3, <3>2
    <3> QED BY <3>1, <3>2
  <2>3. \A i \in Dep : withdrawn'[i] \subseteq Published(i)'
    BY <1>0, <1>1, <1>6 DEF CacheTyped
  <2>4. withdrawn' \in [Dep -> SUBSET UNION {Versioned(i) : i \in Dep}]
    BY <1>0, <1>1 DEF CacheTyped
  <2> QED BY <1>2, <2>1, <2>2, <2>3, <2>4 DEF CacheTyped, Aged, Stored
<1>8. SightsAreTrue'
  <2> SUFFICES ASSUME NEW i \in Dep, NEW v \in Versioned(i), snapshot' # Nothing
               PROVE  snapshot'.seen[i][v] <= public'[i][v]
    BY <1>5 DEF SightsAreTrue
  <2>1. /\ snapshot.seen[i][v] \in Never..Age(i) /\ snapshot.seen[i][v] <= public[i][v]
    BY <1>0, <1>3, <1>4, AgedAt DEF SightsAreTrue
  <2>2. snapshot'.seen[i][v] = Older(i, snapshot.seen[i][v])
    BY <1>3, <1>4
  <2> QED BY <1>2, <1>5, <2>1, <2>2, OlderKeepsOrder
<1>9. AnswersArePublic'
  <2> SUFFICES ASSUME NEW i \in Dep, cache'[i] # Nothing
               PROVE  cache'[i].versions \subseteq Published(i)
    BY <1>6 DEF AnswersArePublic
  <2>1. cache[i] \in Stored(i) /\ cache'[i] = [cache[i] EXCEPT !.fresh = FALSE] /\ cache[i] # Nothing
    BY <1>0, <1>1 DEF CacheTyped
  <2>2. cache'[i].versions = cache[i].versions
    BY <2>1 DEF Stored
  <2> QED BY <1>0, <2>1, <2>2 DEF AnswersArePublic
<1>10. CopyIsOlder'
  <2> SUFFICES ASSUME NEW i \in Dep, NEW v \in Versioned(i), snapshot' # Nothing
               PROVE  snapshot'.seen[i][v] = Never \/ snapshot'.seen[i][v] >= seen'[i][v]
    BY DEF CopyIsOlder
  <2>1. /\ snapshot.seen[i][v] \in Never..Age(i) /\ Age(i) \in Nat
        /\ snapshot.seen[i][v] = Never \/ snapshot.seen[i][v] >= seen[i][v]
    BY <1>0, <1>3, <1>4, AgedAt, AgeIsNat DEF CopyIsOlder
  <2>2. snapshot'.seen[i][v] = Older(i, snapshot.seen[i][v])
    BY <1>3, <1>4
  <2>3. /\ seen'[i][v] = Older(i, seen[i][v]) /\ seen[i][v] \in Never..Age(i)
    BY <1>2, <1>5
  <2>4. CASE snapshot.seen[i][v] = Never
    BY <2>1, <2>2, <2>4, OlderKeepsOrder
  <2>5. CASE snapshot.seen[i][v] >= seen[i][v]
    <3>1. seen[i][v] <= snapshot.seen[i][v]
      BY <2>1, <2>3, <2>5 DEF Never
    <3>2. Older(i, seen[i][v]) <= Older(i, snapshot.seen[i][v])
      BY <2>1, <2>3, <3>1, OlderKeepsOrder
    <3>3. Older(i, seen[i][v]) \in Never..Age(i) /\ Older(i, snapshot.seen[i][v]) \in Never..Age(i)
      BY <2>1, <2>3, OlderKeepsOrder
    <3> QED BY <2>1, <2>2, <2>3, <3>2, <3>3 DEF Never
  <2> QED BY <2>1, <2>4, <2>5
<1> QED BY <1>5, <1>7, <1>8, <1>9, <1>10 DEF AgesInv, SightsStay

\* A release appears: what was public stays so.
LEMMA PublishesKeepsAges == ASSUME AgesInv, NEW i \in Dep, Publishes(i) PROVE AgesInv' /\ SightsStay
<1>0. /\ CacheTyped /\ SightsAreTrue /\ AnswersArePublic /\ CopyIsOlder
      /\ Aged(public) /\ Aged(seen)
  BY DEF AgesInv, CacheTyped
<1>1. PICK k \in DOMAIN Upcoming[i] :
        /\ public[i][Upcoming[i][k]] = Never
        /\ public' = [public EXCEPT ![i][Upcoming[i][k]] = 0]
  BY DEF Publishes
<1>2. UNCHANGED <<withdrawn, cache, seen, snapshot>>
  BY DEF Publishes
<1> DEFINE w == Upcoming[i][k]
<1>3. w \in Versioned(i)
  BY DEF Versioned
<1> HIDE DEF w
<1>4. /\ public' = [public EXCEPT ![i] = [public[i] EXCEPT ![w] = 0]]
      /\ public[i][w] = Never
  BY <1>1 DEF w
<1>5. [public[i] EXCEPT ![w] = 0] \in [Versioned(i) -> Never..Age(i)]
  <2>1. public[i] \in [Versioned(i) -> Never..Age(i)]
    BY <1>0 DEF Aged
  <2>2. 0 \in Never..Age(i)
    BY AgeIsNat DEF Never
  <2> QED BY <2>1, <2>2
<1>6. Aged(public')
  BY <1>0, <1>4, <1>5 DEF Aged
<1>7. ASSUME NEW j \in Dep, NEW v \in Versioned(j)
      PROVE  \/ public'[j][v] = public[j][v]
             \/ public'[j][v] = 0 /\ public[j][v] = Never
  BY <1>0, <1>3, <1>4 DEF Aged
<1>8. \A j \in Dep : Published(j) \subseteq Published(j)'
  BY <1>7 DEF Published, Never
<1>9. CacheTyped'
  <2>1. \A j \in Dep : withdrawn'[j] \subseteq Published(j)'
    BY <1>0, <1>2, <1>8 DEF CacheTyped
  <2> QED BY <1>0, <1>2, <1>6, <2>1 DEF CacheTyped, Aged, Stored
<1>10. SightsAreTrue'
  <2> SUFFICES ASSUME NEW j \in Dep, NEW v \in Versioned(j)
               PROVE  /\ seen[j][v] <= public'[j][v]
                      /\ snapshot # Nothing => snapshot.seen[j][v] <= public'[j][v]
    BY <1>2 DEF SightsAreTrue
  <2>1. /\ seen[j][v] \in Never..Age(j) /\ public[j][v] \in Never..Age(j) /\ Age(j) \in Nat
        /\ snapshot # Nothing => snapshot.seen[j][v] \in Never..Age(j)
    BY <1>0, AgedAt, AgeIsNat DEF CacheTyped
  <2>2. /\ seen[j][v] <= public[j][v]
        /\ snapshot # Nothing => snapshot.seen[j][v] <= public[j][v]
    BY <1>0 DEF SightsAreTrue
  <2>3. public'[j][v] = public[j][v] \/ (public'[j][v] = 0 /\ public[j][v] = Never)
    BY <1>7
  <2> QED BY <2>1, <2>2, <2>3 DEF Never
<1>11. AnswersArePublic'
  BY <1>0, <1>2, <1>8 DEF AnswersArePublic
<1>12. CopyIsOlder'
  BY <1>0, <1>2 DEF CopyIsOlder
<1>13. SightsStay
  BY <1>0, <1>2, AgedAt, AgeIsNat DEF SightsStay, Never
<1> QED BY <1>9, <1>10, <1>11, <1>12, <1>13 DEF AgesInv

\* A release is withdrawn: nothing is forgotten.
LEMMA WithdrawsKeepsAges ==
  ASSUME AgesInv, NEW i \in Dep, NEW v \in Versioned(i), Withdraws(i, v)
  PROVE  AgesInv' /\ SightsStay
<1>0. /\ CacheTyped /\ SightsAreTrue /\ AnswersArePublic /\ CopyIsOlder
      /\ UNCHANGED <<public, cache, seen, snapshot>>
      /\ withdrawn' = [withdrawn EXCEPT ![i] = {v}] /\ v \in Published(i)
  BY DEF AgesInv, Withdraws, Published
<1>1. CacheTyped'
  <2>1. /\ withdrawn' \in [Dep -> SUBSET UNION {Versioned(j) : j \in Dep}]
        /\ \A j \in Dep : withdrawn'[j] \subseteq Published(j)'
    BY <1>0 DEF CacheTyped, Published
  <2> QED BY <1>0, <2>1 DEF CacheTyped, Aged, Stored
<1>2. SightsAreTrue' /\ AnswersArePublic' /\ CopyIsOlder'
  BY <1>0 DEF SightsAreTrue, AnswersArePublic, CopyIsOlder, Published
<1>3. SightsStay
  BY <1>0, AgedAt, AgeIsNat DEF SightsStay, Never, CacheTyped
<1> QED BY <1>1, <1>2, <1>3 DEF AgesInv

\* The file is lost: whatever a copy knows, it knows better.
LEMMA ResetKeepsAges == ASSUME AgesInv, Reset PROVE AgesInv'
<1>0. /\ CacheTyped /\ SightsAreTrue /\ CopyIsOlder
      /\ UNCHANGED <<public, withdrawn, snapshot>>
      /\ cache' = NoAnswers /\ seen' = Unseen
  BY DEF AgesInv, Reset
<1>1. \A i \in Dep : \A v \in Versioned(i) : seen'[i][v] = Never
  BY <1>0 DEF Unseen
<1>2. Aged(seen')
  BY <1>0, AgeIsNat DEF Unseen, Aged, Never
<1>3. CacheTyped'
  BY <1>0, <1>2 DEF CacheTyped, NoAnswers, Aged, Published, Stored
<1>4. SightsAreTrue'
  BY <1>0, <1>1, AgedAt, AgeIsNat DEF SightsAreTrue, CacheTyped, Never
<1>5. AnswersArePublic'
  BY <1>0 DEF AnswersArePublic, NoAnswers
<1>6. CopyIsOlder'
  <2> SUFFICES ASSUME snapshot # Nothing, NEW i \in Dep, NEW v \in Versioned(i)
               PROVE  snapshot.seen[i][v] = Never \/ snapshot.seen[i][v] >= Never
    BY <1>0, <1>1 DEF CopyIsOlder
  <2>1. snapshot.seen[i][v] \in Never..Age(i) /\ Age(i) \in Nat
    BY <1>0, AgedAt, AgeIsNat DEF CacheTyped
  <2> QED BY <2>1 DEF Never
<1> QED BY <1>3, <1>4, <1>5, <1>6 DEF AgesInv

\* A copy is as old as the file it is taken of.
LEMMA ExportKeepsAges == ASSUME AgesInv, Export PROVE AgesInv' /\ SightsStay
<1>0. /\ CacheTyped /\ SightsAreTrue /\ AnswersArePublic
      /\ UNCHANGED <<public, withdrawn, cache, seen>>
      /\ snapshot' = [held |-> TRUE, seen |-> seen]
  BY DEF AgesInv, Export
<1>1. CacheTyped'
  BY <1>0 DEF CacheTyped, Aged, Published, Stored
<1>2. SightsAreTrue' /\ AnswersArePublic'
  BY <1>0 DEF SightsAreTrue, AnswersArePublic, Published
<1>3. \A i \in Dep : \A v \in Versioned(i) : seen[i][v] >= seen[i][v]
  BY <1>0, AgedAt, AgeIsNat DEF CacheTyped, Never
<1> QED BY <1>0, <1>1, <1>2, <1>3 DEF AgesInv, CopyIsOlder, SightsStay

\* An import brings back what the copy knew, which is never less.
LEMMA ImportKeepsAges == ASSUME AgesInv, Import PROVE AgesInv' /\ SightsStay
<1>0. /\ CacheTyped /\ SightsAreTrue /\ AnswersArePublic /\ CopyIsOlder
      /\ Aged(seen) /\ Aged(snapshot.seen) /\ snapshot # Nothing
      /\ UNCHANGED <<public, withdrawn, cache>>
      /\ seen' = [i \in Dep |-> [v \in Versioned(i) |-> Imported(i, v)]]
      /\ snapshot' = Nothing
  BY DEF AgesInv, CacheTyped, Import
<1>1. ASSUME NEW i \in Dep, NEW v \in Versioned(i)
      PROVE  /\ Imported(i, v) \in Never..Age(i)
             /\ Imported(i, v) >= seen[i][v]
             /\ Imported(i, v) <= public[i][v]
  <2>1. /\ seen[i][v] \in Never..Age(i) /\ snapshot.seen[i][v] \in Never..Age(i) /\ Age(i) \in Nat
    BY <1>0, AgedAt, AgeIsNat
  <2>2. /\ seen[i][v] <= public[i][v] /\ snapshot.seen[i][v] <= public[i][v]
        /\ snapshot.seen[i][v] = Never \/ snapshot.seen[i][v] >= seen[i][v]
    BY <1>0 DEF SightsAreTrue, CopyIsOlder
  <2> QED BY <2>1, <2>2 DEF Imported, Never
<1>2. Aged(seen')
  BY <1>0, <1>1 DEF Aged
<1>3. CacheTyped'
  BY <1>0, <1>2 DEF CacheTyped, Aged, Published, Stored
<1>4. SightsAreTrue' /\ AnswersArePublic' /\ CopyIsOlder'
  BY <1>0, <1>1 DEF SightsAreTrue, AnswersArePublic, CopyIsOlder, Published
<1>5. SightsStay
  BY <1>0, <1>1 DEF SightsStay
<1> QED BY <1>3, <1>4, <1>5 DEF AgesInv

\* Pruning takes release sets only.
LEMMA PruneKeepsAges == ASSUME AgesInv, Prune PROVE AgesInv' /\ SightsStay
<1>0. /\ CacheTyped /\ SightsAreTrue /\ AnswersArePublic /\ CopyIsOlder
      /\ UNCHANGED <<public, withdrawn, seen, snapshot>>
      /\ \A i \in Dep : cache'[i] \in {Nothing, cache[i]}
  BY DEF AgesInv, Prune
<1>1. CacheTyped'
  BY <1>0 DEF CacheTyped, Aged, Published, Stored
<1>2. SightsAreTrue' /\ AnswersArePublic' /\ CopyIsOlder'
  BY <1>0 DEF SightsAreTrue, AnswersArePublic, CopyIsOlder, Published
<1>3. SightsStay
  BY <1>0, AgedAt, AgeIsNat DEF SightsStay, Never, CacheTyped
<1> QED BY <1>1, <1>2, <1>3 DEF AgesInv

\* Every step keeps the invariant, and only a lost file takes a first sight.
LEMMA StepsKeepAges == ASSUME AgesInv, Next PROVE AgesInv' /\ (Reset \/ SightsStay)
<1>1. CASE \E silent \in {{}} \cup Silent, knowsOpen \in BOOLEAN, refused \in {"", "taskRefused"} :
             Run(silent, knowsOpen, refused)
  BY <1>1, RunKeepsAges
<1>2. CASE Publish \/ PublishFails \/ Window \/ PersonTicks \/ PersonMerges
  BY <1>2, RestKeepsAges DEF Publish, PublishFails, Window, PersonTicks, PersonMerges
<1>3. CASE Day
  BY <1>3, DayKeepsAges
<1>4. CASE \E i \in Dep : Publishes(i) \/ \E v \in Versioned(i) : Withdraws(i, v)
  BY <1>4, PublishesKeepsAges, WithdrawsKeepsAges
<1>5. CASE Reset
  BY <1>5, ResetKeepsAges
<1>6. CASE Export \/ Import \/ Prune
  BY <1>6, ExportKeepsAges, ImportKeepsAges, PruneKeepsAges
<1> QED BY <1>1, <1>2, <1>3, <1>4, <1>5, <1>6 DEF Next

\* Lost files are counted.
LEMMA ResetsCounted == ASSUME resets \in Nat, [Next]_vars PROVE resets' \in Nat
<1>1. CASE Reset
  BY <1>1 DEF Reset
<1>2. ~Reset => resets' = resets
  BY DEF Next, vars, Run, Publish, PublishFails, Day, Window, Publishes, Withdraws,
         PersonTicks, PersonMerges, Export, Import, Prune
<1> QED BY <1>1, <1>2

\* The cache never claims to have known a version for longer than the version
\* has been public, nor stores one that is not, and a copy of the file knows
\* what it knows no later than the file (FirstSeenAll, Import, Prune, one).
THEOREM AgesAreTrue == Spec => []AgesInv
<1>1. Init => AgesInv
  <2> SUFFICES ASSUME Init PROVE AgesInv
    OBVIOUS
  <2>1. Aged(public) /\ seen = public /\ snapshot = Nothing /\ cache = NoAnswers
    BY AgeIsNat DEF Init, Aged, Never
  <2>2. CacheTyped
    BY <2>1 DEF Init, CacheTyped, NoAnswers
  <2>3. SightsAreTrue
    BY <2>1, AgedAt, AgeIsNat DEF SightsAreTrue, Never
  <2> QED BY <2>1, <2>2, <2>3 DEF AgesInv, AnswersArePublic, CopyIsOlder, NoAnswers
<1>2. AgesInv /\ [Next]_vars => AgesInv'
  <2>1. CASE UNCHANGED vars
    BY <2>1, RestKeepsAges DEF vars
  <2> QED BY <2>1, StepsKeepAges
<1> QED BY <1>1, <1>2, PTL DEF Spec

\* NeverYounger: nothing but the loss of the file makes a version look younger
\* than it did, neither a later sight nor an import into a file that was lost
\* and filled again nor pruning (FirstSeenAll, Import, Prune).
THEOREM AgesNeverShrink == Spec => NeverYounger
<1>1. Spec => [](resets \in Nat)
  <2>1. Init => resets \in Nat
    BY DEF Init
  <2>2. resets \in Nat /\ [Next]_vars => (resets \in Nat)'
    BY ResetsCounted
  <2> QED BY <2>1, <2>2, PTL DEF Spec
<1>2. AgesInv /\ resets \in Nat /\ [Next]_vars =>
        [resets' = resets => \A i \in Dep : \A v \in Versioned(i) : seen'[i][v] >= seen[i][v]]_vars
  <2>1. ASSUME resets \in Nat, Reset PROVE resets' # resets
    BY <2>1 DEF Reset
  <2> QED BY <2>1, StepsKeepAges DEF SightsStay
<1> QED BY <1>1, <1>2, AgesAreTrue, PTL DEF Spec, NeverYounger

-----------------------------------------------------------------------------
(* HTTP calls.                                                             *)

Fields == {"pc", "verb", "urls", "gate", "attempt", "wait", "canceled", "result", "told"}

\* Where a credential may be seen by a call that was sent to us[1].
MaySee(us, u) ==
  /\ u.host = us[1].host /\ u.port = us[1].port
  /\ u.scheme = "https" \/ u.loopback
  /\ \E k \in DOMAIN HostRules :
       H!Speaks(k, u) /\ ("any" \in HostRules[k].paths \/ (u.path \in HostRules[k].paths /\ ~u.dots))

\* A call r of caller c.
CallOk(load, c, r) ==
  /\ DOMAIN r = Fields
  /\ r.verb = load[c].verb /\ r.urls = load[c].urls /\ r.gate = H!Gate(load[c].urls[1])
  /\ r.pc \in {"waiting", "trying", "asleep", "done"}
  /\ r.attempt \in 0 .. MaxRetries
  /\ r.pc = "asleep" => r.attempt < MaxRetries
  /\ r.pc = "done" /\ r.verb = "get" /\ H!Retryable(r.result) => r.attempt = MaxRetries
  /\ \A u \in r.told : MaySee(load[c].urls, u)

\* A call holds a slot of its gate.
Holds(r) == r.verb = "get" /\ r.pc \in {"trying", "asleep"}
HoldersOf(g) == {c \in Callers : Holds(calls[c]) /\ calls[c].gate = g}

CallsInv ==
  topic = "http" =>
    /\ input \in Loads
    /\ DOMAIN calls = Callers
    /\ \A c \in Callers : CallOk(input, c, calls[c])
    /\ \A c \in Callers : Cardinality(HoldersOf(H!Gate(input[c].urls[1]))) <= H!Width(input[c].urls[1])

\* The modules count alike.
LEMMA SameCardinality == \A S : H!Cardinality(S) = Cardinality(S)
BY DEF H!Cardinality, Cardinality, H!IsFiniteSet, IsFiniteSet

\* The width of a gate is one of its rule, or the default.
LEMMA WidthIsNat == \A u : H!Width(u) \in Nat
<1> SUFFICES ASSUME NEW u PROVE H!Width(u) \in Nat
  OBVIOUS
<1>1. DefaultMax \in Nat /\ \A k \in DOMAIN HostRules : HostRules[k].max \in Int
  BY LoadsAssumption
<1>2. H!RuleFor(u).max \in Int
  BY <1>1 DEF H!RuleFor, H!None
<1> QED BY <1>1, <1>2 DEF H!Width

\* Calls that share a gate share its width.
LEMMA SameGateSameWidth ==
  ASSUME NEW load \in Loads, NEW c \in Callers, NEW d \in Callers,
         H!Gate(load[c].urls[1]) = H!Gate(load[d].urls[1])
  PROVE  H!Width(load[c].urls[1]) = H!Width(load[d].urls[1])
<1> DEFINE u == load[c].urls[1]  v == load[d].urls[1]
<1>1. \A x \in Callers : 1 \in DOMAIN load[x].urls
  BY LoadsAssumption
<1>2. u \in UrlsOf(load, c) /\ v \in UrlsOf(load, d)
  BY <1>1 DEF UrlsOf
<1>3. u.written = v.written /\ u.port = v.port
  BY DEF H!Gate
<1>4. u.host = v.host
  BY <1>2, <1>3, LoadsAssumption
<1> HIDE DEF u, v
<1>5. H!RuleFor(u) = H!RuleFor(v)
  BY <1>3, <1>4 DEF H!RuleFor
<1>6. H!Width(u) = H!Width(v)
  BY <1>5 DEF H!Width
<1> QED BY <1>6 DEF u, v

\* One call moves: it stays in order, and takes a slot only if one is free.
Moves(c) ==
  \E r : /\ CallOk(input, c, r) /\ calls' = [calls EXCEPT ![c] = r]
         /\ Holds(r) => \/ Holds(calls[c])
                        \/ Cardinality(HoldersOf(H!Gate(input[c].urls[1]))) < H!Width(input[c].urls[1])

\* Whatever one call does in order leaves the others and the gates in order.
LEMMA OneCallMoves ==
  ASSUME CallsInv, topic = "http", UNCHANGED <<topic, input>>, NEW c \in Callers, Moves(c)
  PROVE  CallsInv'
<1>1. PICK r : /\ CallOk(input, c, r) /\ calls' = [calls EXCEPT ![c] = r]
               /\ Holds(r) => \/ Holds(calls[c])
                              \/ Cardinality(HoldersOf(H!Gate(input[c].urls[1]))) < H!Width(input[c].urls[1])
  BY DEF Moves
<1>2. /\ input \in Loads /\ DOMAIN calls = Callers
      /\ \A d \in Callers : CallOk(input, d, calls[d])
      /\ \A d \in Callers : Cardinality(HoldersOf(H!Gate(input[d].urls[1]))) <= H!Width(input[d].urls[1])
  BY DEF CallsInv
<1>3. \A d \in Callers : calls'[d] = IF d = c THEN r ELSE calls[d]
  BY <1>1, <1>2
<1>4. \A d \in Callers : CallOk(input, d, calls'[d])
  BY <1>1, <1>2, <1>3
<1>5. ASSUME NEW d \in Callers
      PROVE  Cardinality(HoldersOf(H!Gate(input[d].urls[1]))') <= H!Width(input[d].urls[1])
  <2> DEFINE g == H!Gate(input[d].urls[1])
             old == HoldersOf(g)
             new == {e \in Callers : Holds(calls'[e]) /\ calls'[e].gate = g}
  <2>1. HoldersOf(H!Gate(input[d].urls[1]))' = new
    BY DEF HoldersOf, Holds
  <2>2. IsFiniteSet(old) /\ old \subseteq Callers
    BY LoadsAssumption, FS_Subset DEF HoldersOf
  <2>3. Cardinality(old) \in Nat /\ Cardinality(old) <= H!Width(input[d].urls[1]) /\ H!Width(input[d].urls[1]) \in Nat
    BY <1>2, <2>2, FS_CardinalityType, WidthIsNat
  <2>4. calls[c].gate = H!Gate(input[c].urls[1]) /\ r.gate = H!Gate(input[c].urls[1])
    BY <1>1, <1>2 DEF CallOk
  <2>5. CASE new \subseteq old
    <3>1. Cardinality(new) <= Cardinality(old) /\ Cardinality(new) \in Nat
      BY <2>2, <2>5, FS_Subset, FS_CardinalityType
    <3> QED BY <2>1, <2>3, <3>1
  <2>6. CASE ~(new \subseteq old)
    <3>1. c \in new /\ c \notin old /\ new \subseteq old \cup {c}
      BY <1>3, <2>6 DEF HoldersOf
    <3>2. Holds(r) /\ r.gate = g /\ ~Holds(calls[c])
      BY <1>3, <2>4, <3>1 DEF HoldersOf
    <3>3. g = H!Gate(input[c].urls[1])
      BY <2>4, <3>2
    <3>4. H!Width(input[d].urls[1]) = H!Width(input[c].urls[1])
      BY <1>2, <3>3, SameGateSameWidth
    <3>5. Cardinality(old) < H!Width(input[d].urls[1])
      BY <1>1, <3>2, <3>3, <3>4
    <3>6. IsFiniteSet(old \cup {c}) /\ Cardinality(old \cup {c}) = Cardinality(old) + 1
      BY <2>2, <3>1, FS_AddElement
    <3>7. Cardinality(new) <= Cardinality(old \cup {c}) /\ Cardinality(new) \in Nat
      BY <3>1, <3>6, FS_Subset, FS_CardinalityType
    <3> QED BY <2>1, <2>3, <3>5, <3>6, <3>7
  <2> QED BY <2>5, <2>6
<1>6. DOMAIN calls' = Callers
  BY <1>1, <1>2
<1>7. input' = input /\ topic' = topic
  OBVIOUS
<1>8. \A d \in Callers : (Cardinality(HoldersOf(H!Gate(input[d].urls[1]))) <= H!Width(input[d].urls[1]))'
  BY <1>5, <1>7 DEF HoldersOf, Holds, H!Gate, H!Width, H!RuleFor
<1>9. \A d \in Callers : CallOk(input, d, calls[d])'
  BY <1>4, <1>7 DEF CallOk, MaySee
<1> QED BY <1>2, <1>6, <1>7, <1>8, <1>9 DEF CallsInv

\* A hop that sees the credential is one its rule admits.
LEMMA HopAdmitted ==
  ASSUME NEW u, H!HasRule(u), H!PathAllowed(H!RuleFor(u), u)
  PROVE  /\ u.scheme = "https" \/ u.loopback
         /\ \E k \in DOMAIN HostRules :
              H!Speaks(k, u) /\ ("any" \in HostRules[k].paths \/ (u.path \in HostRules[k].paths /\ ~u.dots))
<1>1. \E k \in DOMAIN HostRules : H!Speaks(k, u) /\ H!RuleFor(u) = HostRules[k]
  <2>1. CASE <<u.host, u.port>> \in DOMAIN HostRules
    BY <2>1 DEF H!RuleFor, H!Speaks
  <2>2. CASE <<u.host, u.port>> \notin DOMAIN HostRules
    <3>1. <<u.host>> \in DOMAIN HostRules /\ H!RuleFor(u) = HostRules[<<u.host>>] /\ H!Speaks(<<u.host>>, u)
      BY <2>2 DEF H!RuleFor, H!HasRule, H!Speaks
    <3> QED BY <3>1
  <2> QED BY <2>1, <2>2
<1> QED BY <1>1 DEF H!PathAllowed

\* Every address told of a credential is one its call may tell.
LEMMA ToldAreAdmitted ==
  ASSUME NEW us, NEW ws, us[1] = ws[1]
  PROVE  \A u \in H!Told(us) : MaySee(ws, u)
<1> SUFFICES ASSUME NEW u \in H!Told(us) PROVE MaySee(ws, u)
  OBVIOUS
<1>1. CASE u = us[1]
  <2>1. H!HasRule(u) /\ H!PathAllowed(H!RuleFor(u), u)
    BY <1>1 DEF H!Told
  <2> QED BY <1>1, <2>1, HopAdmitted DEF MaySee
<1>2. CASE u # us[1]
  <2>1. PICK i \in 2 .. Len(us) : u = us[i] /\ H!CheckRedirect(us, i)
    BY <1>2 DEF H!Told
  <2>2. u.host = us[1].host /\ u.port = us[1].port /\ H!HasRule(u) /\ H!PathAllowed(H!RuleFor(u), u)
    BY <2>1 DEF H!CheckRedirect, H!SameHost
  <2> QED BY <2>2, HopAdmitted DEF MaySee
<1> QED BY <1>1, <1>2

\* What the network saw begins where the call began.
LEMMA ReachedBegins ==
  ASSUME CallsInv, topic = "http", NEW c \in Callers
  PROVE  H!Reached(c)[1] = input[c].urls[1]
<1>1. /\ input \in Loads /\ calls[c].urls = input[c].urls
  BY DEF CallsInv, CallOk
<1>2. input[c].urls \in Seq(UrlsOf(input, c)) /\ input[c].urls # <<>> /\ MaxRedirects \in Nat \ {0}
  BY <1>1, LoadsAssumption
<1> DEFINE us == input[c].urls  S == UrlsOf(input, c)
<1>3. us \in Seq(S) /\ us # <<>>
  BY <1>2
<1> HIDE DEF us, S
<1>4. Len(us) > MaxRedirects => SubSeq(us, 1, MaxRedirects)[1] = us[1]
  BY <1>2, <1>3
<1> QED BY <1>1, <1>4 DEF H!Reached, us

\* The steps of a call.
LEMMA EnterKeeps ==
  ASSUME CallsInv, topic = "http", NEW c \in Callers, H!Enter(c) PROVE Moves(c)
<1> DEFINE r == [calls[c] EXCEPT !.pc = "trying"]
<1>1. CallOk(input, c, calls[c]) /\ calls[c].pc = "waiting" /\ DOMAIN calls = Callers
  BY DEF CallsInv, H!Enter
<1>2. calls' = [calls EXCEPT ![c] = r]
  BY DEF H!Enter
<1>3. CallOk(input, c, r)
  BY <1>1 DEF CallOk, Fields
<1>4. Cardinality(HoldersOf(H!Gate(input[c].urls[1]))) < H!Width(input[c].urls[1])
  <2>1. Cardinality(H!Inside(calls[c].gate)) < H!Width(calls[c].urls[1])
    BY SameCardinality DEF H!Enter
  <2>2. H!Inside(calls[c].gate) = HoldersOf(calls[c].gate)
    BY DEF H!Inside, HoldersOf, Holds
  <2> QED BY <1>1, <2>1, <2>2 DEF CallOk
<1> HIDE DEF r
<1> QED BY <1>2, <1>3, <1>4 DEF Moves

\* A caller gives up at its gate, without a slot.
LEMMA GiveUpKeeps ==
  ASSUME CallsInv, topic = "http", NEW c \in Callers, H!GiveUp(c) PROVE Moves(c)
<1> DEFINE r == [calls[c] EXCEPT !.pc = "done", !.result = "canceled", !.told = calls[c].told \cup {}]
<1>1. CallOk(input, c, calls[c]) /\ calls[c].pc = "waiting" /\ DOMAIN calls = Callers
  BY DEF CallsInv, H!GiveUp
<1>2. calls' = [calls EXCEPT ![c] = r]
  BY <1>1 DEF H!GiveUp, H!Ends, CallOk, Fields
<1>3. CallOk(input, c, r) /\ ~Holds(r)
  BY <1>1 DEF CallOk, Fields, Holds, H!Retryable
<1> HIDE DEF r
<1> QED BY <1>2, <1>3 DEF Moves

\* A call that wakes keeps the slot it slept with.
LEMMA WakeKeeps ==
  ASSUME CallsInv, topic = "http", NEW c \in Callers, H!Wake(c) PROVE Moves(c)
<1> DEFINE r == [calls[c] EXCEPT !.pc = "trying", !.attempt = calls[c].attempt + 1, !.wait = 0]
<1>1. CallOk(input, c, calls[c]) /\ calls[c].pc = "asleep" /\ DOMAIN calls = Callers
  BY DEF CallsInv, H!Wake
<1>2. calls' = [calls EXCEPT ![c] = r]
  BY <1>1 DEF H!Wake, CallOk, Fields
<1>3. CallOk(input, c, r) /\ (Holds(r) => Holds(calls[c]))
  BY <1>1, LoadsAssumption DEF CallOk, Fields, Holds
<1> HIDE DEF r
<1> QED BY <1>2, <1>3 DEF Moves

\* A deadline takes no slot and ends nothing by itself.
LEMMA CancelKeeps ==
  ASSUME CallsInv, topic = "http", NEW c \in Callers, H!Cancel(c) PROVE Moves(c)
<1> DEFINE r == [calls[c] EXCEPT !.canceled = TRUE]
<1>1. CallOk(input, c, calls[c]) /\ DOMAIN calls = Callers
  BY DEF CallsInv
<1>2. calls' = [calls EXCEPT ![c] = r]
  BY DEF H!Cancel
<1>3. CallOk(input, c, r) /\ (Holds(r) => Holds(calls[c]))
  BY <1>1 DEF CallOk, Fields, Holds
<1> HIDE DEF r
<1> QED BY <1>2, <1>3 DEF Moves

\* A round trip ends the call or sends it to sleep, with attempts left.
LEMMA AttemptKeeps ==
  ASSUME CallsInv, topic = "http", NEW c \in Callers, H!Attempt(c) PROVE Moves(c)
<1>1. CallOk(input, c, calls[c]) /\ calls[c].pc = "trying" /\ DOMAIN calls = Callers
  BY DEF CallsInv, H!Attempt
<1>2. PICK a \in Replies :
        LET kind == H!Outcome(c, a) told == H!Told(H!Reached(c))
        IN CASE kind \in H!Success -> H!Ends(c, "ok", told)
             [] calls[c].verb = "get" /\ H!Retryable(kind) /\ ~H!OutOfRetries(c) ->
                  calls' = [calls EXCEPT ![c].pc = "asleep", ![c].wait = H!Wait(kind, a, calls[c].attempt), ![c].told = @ \cup told]
             [] OTHER -> H!Ends(c, kind, told)
  BY DEF H!Attempt
<1> DEFINE kind == H!Outcome(c, a)
           hops == H!Told(H!Reached(c))
           wait == H!Wait(kind, a, calls[c].attempt)
<1>3. \A u \in hops : MaySee(input[c].urls, u)
  BY ReachedBegins, ToldAreAdmitted
<1>4. \/ H!Ends(c, "ok", hops)
      \/ /\ calls[c].verb = "get" /\ H!Retryable(kind) /\ ~H!OutOfRetries(c)
         /\ calls' = [calls EXCEPT ![c].pc = "asleep", ![c].wait = wait, ![c].told = @ \cup hops]
      \/ /\ ~(calls[c].verb = "get" /\ H!Retryable(kind) /\ ~H!OutOfRetries(c))
         /\ H!Ends(c, kind, hops)
  BY <1>2
<1> HIDE DEF kind, hops, wait
<1>5. ASSUME NEW result, H!Ends(c, result, hops),
             calls[c].verb = "get" /\ H!Retryable(result) => calls[c].attempt = MaxRetries
      PROVE  Moves(c)
  <2> DEFINE r == [calls[c] EXCEPT !.pc = "done", !.result = result, !.told = calls[c].told \cup hops]
  <2>1. calls' = [calls EXCEPT ![c] = r]
    BY <1>1, <1>5 DEF H!Ends, CallOk, Fields
  <2>2. CallOk(input, c, r) /\ ~Holds(r)
    BY <1>1, <1>3, <1>5 DEF CallOk, Fields, Holds
  <2> HIDE DEF r
  <2> QED BY <2>1, <2>2 DEF Moves
<1>6. CASE H!Ends(c, "ok", hops)
  BY <1>5, <1>6 DEF H!Retryable
<1>7. CASE /\ calls[c].verb = "get" /\ H!Retryable(kind) /\ ~H!OutOfRetries(c)
           /\ calls' = [calls EXCEPT ![c].pc = "asleep", ![c].wait = wait, ![c].told = @ \cup hops]
  <2> DEFINE r == [calls[c] EXCEPT !.pc = "asleep", !.wait = wait, !.told = calls[c].told \cup hops]
  <2>1. calls' = [calls EXCEPT ![c] = r]
    BY <1>1, <1>7 DEF CallOk, Fields
  <2>2. calls[c].attempt < MaxRetries
    BY <1>1, <1>7, LoadsAssumption DEF H!OutOfRetries, CallOk
  <2>3. CallOk(input, c, r) /\ (Holds(r) => Holds(calls[c]))
    BY <1>1, <1>3, <2>2 DEF CallOk, Fields, Holds
  <2> HIDE DEF r
  <2> QED BY <2>1, <2>3 DEF Moves
<1>8. CASE /\ ~(calls[c].verb = "get" /\ H!Retryable(kind) /\ ~H!OutOfRetries(c))
           /\ H!Ends(c, kind, hops)
  <2>1. calls[c].verb = "get" /\ H!Retryable(kind) => calls[c].attempt = MaxRetries
    BY <1>1, <1>8, LoadsAssumption DEF H!OutOfRetries, CallOk
  <2> QED BY <1>5, <1>8, <2>1
<1> QED BY <1>4, <1>6, <1>7, <1>8

-----------------------------------------------------------------------------
(* Finite sets of numbers.                                                 *)

\* A nonempty set of numbers has a least element.
LEMMA LeastExists ==
  ASSUME NEW S, S \subseteq Nat, S # {}
  PROVE  \E m \in S : \A x \in S : m <= x
<1> DEFINE R == {p \in Nat \X Nat : p[1] < p[2]}
<1>1. IsWellFoundedOn(R, Nat)
  BY NatLessThanWellFounded DEF OpToRel
<1> HIDE DEF R
<1>2. PICK m \in S : \A x \in S : ~(<<x, m>> \in R)
  BY <1>1, WFMin
<1>3. \A x \in S : <<x, m>> \in Nat \X Nat /\ <<x, m>>[1] = x /\ <<x, m>>[2] = m
  OBVIOUS
<1>4. \A x \in S : ~(x < m)
  BY <1>2, <1>3 DEF R
<1>5. \A x \in S : x \in Nat /\ m \in Nat
  OBVIOUS
<1>6. \A x \in S : m <= x
  BY <1>4, <1>5
<1> QED BY <1>6

\* A nonempty finite set of numbers has a greatest: the one with fewest above.
LEMMA GreatestExists ==
  ASSUME NEW S, IsFiniteSet(S), S \subseteq Nat, S # {}
  PROVE  D!Max(S) \in S /\ \A x \in S : x <= D!Max(S)
<1> DEFINE above(x) == {y \in S : y > x}
           counts == {Cardinality(above(x)) : x \in S}
<1>1. \A x \in S : IsFiniteSet(above(x)) /\ Cardinality(above(x)) \in Nat
  BY FS_Subset, FS_CardinalityType
<1>2. counts \subseteq Nat /\ counts # {}
  BY <1>1
<1>3. PICK n \in counts : \A k \in counts : n <= k
  BY <1>2, LeastExists
<1>4. PICK m \in S : n = Cardinality(above(m))
  OBVIOUS
<1>5. \A x \in S : x <= m
  <2> SUFFICES ASSUME NEW x \in S, ~(x <= m) PROVE FALSE
    OBVIOUS
  <2>0. x \in Nat /\ m \in Nat
    OBVIOUS
  <2>1. x \in Nat /\ m \in Nat /\ x > m
    BY <2>0
  <2>2. above(x) \subseteq above(m) /\ x \in above(m) /\ x \notin above(x)
    <3>1. \A y \in S : y \in Nat /\ (y > x => y > m) /\ ~(x > x)
      BY <2>1
    <3> QED BY <2>1, <3>1
  <2>3. Cardinality(above(x)) <= Cardinality(above(m)) /\ Cardinality(above(x)) # Cardinality(above(m))
    BY <1>1, <2>2, FS_Subset
  <2>4. Cardinality(above(m)) <= Cardinality(above(x))
    BY <1>3, <1>4
  <2>5. Cardinality(above(x)) \in Nat /\ Cardinality(above(m)) \in Nat
    BY <1>1
  <2> HIDE DEF above
  <2> QED BY <2>3, <2>4, <2>5
<1>6. \E z \in S : \A y \in S : z >= y
  BY <1>5
<1>7. D!Max(S) \in S /\ \A y \in S : D!Max(S) >= y
  BY <1>6 DEF D!Max
<1> QED BY <1>7

\* The page of n tags of S: those below which fewer than n lie.
Below(S, t) == {u \in S : u < t}
PageOf(n, S, page) == page \subseteq S /\ \A t \in S : t \in page <=> Cardinality(Below(S, t)) < n

\* The tags of S below which fewer than n lie are the first ones: none that
\* is left out comes before one that is not.
LEMMA PageIsPrefix ==
  ASSUME NEW S, IsFiniteSet(S), S \subseteq Nat, NEW n \in Nat \ {0},
         NEW page, PageOf(n, S, page), page # S
  PROVE  /\ D!Max(page) \in page
         /\ \A t \in S : t <= D!Max(page) => t \in page
<1> DEFINE below(t) == Below(S, t)
<1>0. page \subseteq S /\ \A t \in S : t \in page <=> Cardinality(Below(S, t)) < n
  BY DEF PageOf
<1>1. \A t \in S : IsFiniteSet(below(t)) /\ Cardinality(below(t)) \in Nat
  BY FS_Subset, FS_CardinalityType DEF Below
<1>2. PICK m \in S : \A x \in S : m <= x
  BY <1>0, LeastExists
<1>3. below(m) = {}
  <2>1. \A x \in S : x \in Nat /\ m \in Nat /\ ~(x < m)
    BY <1>2
  <2> QED BY <2>1 DEF Below
<1>4. Cardinality(below(m)) < n
  BY <1>3, FS_EmptySet
<1>5. m \in page /\ page \subseteq S /\ IsFiniteSet(page)
  BY <1>0, <1>4, FS_Subset
<1>6. D!Max(page) \in page
  BY <1>5, GreatestExists
<1> DEFINE top == D!Max(page)
<1>7. top \in page /\ top \in S /\ top \in Nat
  BY <1>5, <1>6
<1> HIDE DEF top
<1>8. ASSUME NEW t \in S, t <= top PROVE t \in page
  <2>1. below(t) \subseteq below(top)
    <3>1. \A u \in S : u \in Nat /\ t \in Nat /\ (u < t => u < top)
      BY <1>7, <1>8
    <3> QED BY <3>1 DEF Below
  <2>2. Cardinality(below(t)) <= Cardinality(below(top))
    BY <1>1, <1>7, <2>1, FS_Subset
  <2>3. Cardinality(below(top)) < n
    BY <1>0, <1>7
  <2>4. Cardinality(below(t)) \in Nat /\ Cardinality(below(top)) \in Nat /\ n \in Nat
    BY <1>1, <1>7
  <2> HIDE DEF below
  <2>5. Cardinality(below(t)) < n
    BY <2>2, <2>3, <2>4
  <2> QED BY <1>0, <2>5 DEF below
<1> QED BY <1>6, <1>8 DEF top

\* What a page of a registry is to the tags it is taken from.
LEMMA PagesArePrefixes ==
  \A S, page :
    IsFiniteSet(S) /\ S \subseteq Nat /\ PageOf(PageSize, S, page) /\ page # S =>
      D!Max(page) \in page /\ \A t \in S : t <= D!Max(page) => t \in page
<1> SUFFICES ASSUME NEW S, NEW page,
                    IsFiniteSet(S), S \subseteq Nat, PageOf(PageSize, S, page), page # S
             PROVE  D!Max(page) \in page /\ \A t \in S : t <= D!Max(page) => t \in page
  OBVIOUS
<1>1. PageSize \in Nat \ {0}
  BY LookupsAssumption
<1> QED BY <1>1, PageIsPrefix

-----------------------------------------------------------------------------
(* Lookups at registries.                                                  *)

\* The registry counts alike.
LEMMA SameCount == \A S : D!Cardinality(S) = Cardinality(S)
BY DEF D!Cardinality, Cardinality

LookFields == {"key", "op", "pc", "last", "tags", "token", "answer"}
HubFields == {"tags", "always", "valid", "spent", "sent", "shown", "serial"}

\* What lies outside, in a behaviour of the lookups l.
HubOk(l, h) ==
  /\ DOMAIN h = HubFields /\ h.spent \in Nat
  /\ DOMAIN h.tags = DOMAIN l.tags /\ DOMAIN h.always = DOMAIN l.tags
  /\ \A k \in DOMAIN l.tags :
       /\ IsFiniteSet(h.tags[k]) /\ h.tags[k] \subseteq Nat
       /\ h.always[k] \subseteq h.tags[k] \ {0}
  /\ \A s \in h.sent : s[2] = D!NoToken \/ s[2].key = s[1]
  /\ \A s \in h.shown : s[1] = <<"pull", s[2]>> /\ s[2][1] = l.world.credentials

TokensOk(ts) == \A k \in DOMAIN ts : ts[k].key = k
ListOk(l, v) == v = D!Unread \/ (l.world.list.named /\ v = D!Read(l.world.list))

\* Why a lookup may fail, and what one that succeeds says of the list.
Reason(l, h, key) ==
  \/ key \in l.world.absent \/ h.spent > 0
  \/ key \in l.world.private /\ ~D!Shows(l.world, key)
Heard(l, key, a) ==
  /\ a.tags \cap D!GoneFrom(l.world.list, key) = {} /\ a.withdrawn = D!GoneFrom(l.world.list, key)
  /\ a.listErr <=> l.world.list.named /\ l.world.list.found # "no" /\ ~D!Trusted(l.world.list)
  /\ a.warn => l.world.list.mode = "warn" /\ l.world.list.signature # "good"

\* Every tag that was there all along is read up to where the pages have
\* come, and a token at hand was minted for this lookup.
LookOk(l, h, c, r) ==
  /\ DOMAIN r = LookFields /\ r.key = D!Resolve(l.wants[c].ref) /\ r.last \in Nat
  /\ r.pc \in {"get", "challenged", "retry"} => \A t \in h.always[r.key] : t <= r.last => t \in r.tags
  /\ r.pc = "list" => h.always[r.key] \subseteq r.tags
  /\ r.pc = "retry" =>
       /\ r.token.key = r.key /\ r.token.known = D!Shows(l.world, r.key)
       /\ r.token \in h.valid \/ h.spent > 0
  /\ r.pc = "done" /\ ~r.answer.ok => Reason(l, h, r.key)
  /\ r.pc = "done" /\ r.answer.ok /\ r.op = "tags" =>
       /\ h.always[r.key] \ D!GoneFrom(l.world.list, r.key) \subseteq r.answer.tags
       /\ Heard(l, r.key, r.answer)

LookupsInv ==
  topic = "registry" =>
    /\ input \in Lookups /\ DOMAIN lookups = Seekers
    /\ HubOk(input, hub) /\ TokensOk(tokens) /\ ListOk(input, withdrawals)
    /\ \A c \in Seekers : LookOk(input, hub, c, lookups[c])

\* What others do only takes tags from those that were there all along, and
\* leaves a trace when it takes a token.
Grows(h, g) ==
  /\ \A k \in DOMAIN h.always : g.always[k] \subseteq h.always[k]
  /\ g.spent >= h.spent /\ (h.valid \subseteq g.valid \/ g.spent > 0)

\* A lookup stays in order, whatever happens outside.
LEMMA LooksStay ==
  ASSUME NEW l \in Lookups, NEW h, NEW g, HubOk(l, h), HubOk(l, g), Grows(h, g),
         NEW c \in Seekers, NEW r, LookOk(l, h, c, r)
  PROVE  LookOk(l, g, c, r)
<1>1. r.key \in DOMAIN l.tags
  BY LookupsAssumption DEF LookOk
<1>2. g.always[r.key] \subseteq h.always[r.key]
  BY <1>1 DEF HubOk, Grows
<1>3. h.spent > 0 => g.spent > 0
  BY DEF HubOk, Grows
<1>4. h.valid \subseteq g.valid \/ g.spent > 0
  BY DEF Grows
<1> QED BY <1>1, <1>2, <1>3, <1>4 DEF LookOk, Reason

\* One lookup moves on, and what lies outside with it.
Turns(c) ==
  \E r, h : /\ LookOk(input, h, c, r) /\ HubOk(input, h) /\ Grows(hub, h)
            /\ lookups' = [lookups EXCEPT ![c] = r] /\ hub' = h

\* Whatever one lookup does in order leaves the others in order.
LEMMA OneLookupTurns ==
  ASSUME LookupsInv, topic = "registry", UNCHANGED <<topic, input>>, NEW c \in Seekers, Turns(c),
         TokensOk(tokens)', ListOk(input, withdrawals)'
  PROVE  LookupsInv'
<1>1. PICK r, h : /\ LookOk(input, h, c, r) /\ HubOk(input, h) /\ Grows(hub, h)
                  /\ lookups' = [lookups EXCEPT ![c] = r] /\ hub' = h
  BY DEF Turns
<1>2. /\ input \in Lookups /\ DOMAIN lookups = Seekers /\ HubOk(input, hub)
      /\ \A d \in Seekers : LookOk(input, hub, d, lookups[d])
  BY DEF LookupsInv
<1>3. \A d \in Seekers : lookups'[d] = IF d = c THEN r ELSE lookups[d]
  BY <1>1, <1>2
<1>4. \A d \in Seekers : LookOk(input, h, d, lookups[d])
  BY <1>1, <1>2, LooksStay
<1>5. \A d \in Seekers : LookOk(input, h, d, lookups'[d])
  BY <1>1, <1>3, <1>4
<1>6. input' = input /\ topic' = topic /\ hub' = h /\ DOMAIN lookups' = Seekers
  BY <1>1, <1>2
<1>7. \A d \in Seekers : LookOk(input, hub, d, lookups[d])'
  BY <1>5, <1>6 DEF LookOk, Reason, Heard
<1>8. HubOk(input, hub)'
  BY <1>1, <1>6 DEF HubOk
<1> QED BY <1>2, <1>6, <1>7, <1>8 DEF LookupsInv

\* Something happens outside.
Shifts == \E h : HubOk(input, h) /\ Grows(hub, h) /\ hub' = h

\* So does what happens outside of all of them.
LEMMA OutsideShifts ==
  ASSUME LookupsInv, topic = "registry", UNCHANGED <<topic, input, lookups, tokens, withdrawals>>, Shifts
  PROVE  LookupsInv'
<1>1. PICK h : HubOk(input, h) /\ Grows(hub, h) /\ hub' = h
  BY DEF Shifts
<1>2. /\ input \in Lookups /\ DOMAIN lookups = Seekers /\ HubOk(input, hub)
      /\ TokensOk(tokens) /\ ListOk(input, withdrawals)
      /\ \A d \in Seekers : LookOk(input, hub, d, lookups[d])
  BY DEF LookupsInv
<1>3. \A d \in Seekers : LookOk(input, h, d, lookups[d])
  BY <1>1, <1>2, LooksStay
<1>4. \A d \in Seekers : LookOk(input, hub, d, lookups[d])'
  BY <1>1, <1>3 DEF LookOk, Reason, Heard
<1>5. HubOk(input, hub)' /\ TokensOk(tokens)' /\ ListOk(input, withdrawals)'
  BY <1>1, <1>2 DEF HubOk, TokensOk, ListOk
<1> QED BY <1>2, <1>4, <1>5 DEF LookupsInv

\* A page read after the tag the last one ended with brings what follows it.
LEMMA PageReads ==
  ASSUME LookupsInv, topic = "registry", NEW c \in Seekers,
         lookups[c].pc \in {"get", "retry"},
         NEW page, page = D!PageAfter(lookups[c].key, lookups[c].last),
         NEW more, more = (D!Above(lookups[c].key, lookups[c].last) # page)
  PROVE  /\ more => D!Max(page) \in Nat
         /\ more => \A t \in hub.always[lookups[c].key] : t <= D!Max(page) => t \in lookups[c].tags \cup page
         /\ ~more => hub.always[lookups[c].key] \subseteq lookups[c].tags \cup page
<1> DEFINE key == lookups[c].key
           last == lookups[c].last
           S == D!Above(key, last)
<1>1. /\ input \in Lookups /\ HubOk(input, hub) /\ LookOk(input, hub, c, lookups[c])
  BY DEF LookupsInv
<1>2. key \in DOMAIN input.tags /\ last \in Nat
  BY <1>1, LookupsAssumption DEF LookOk
<1>3. /\ IsFiniteSet(hub.tags[key]) /\ hub.tags[key] \subseteq Nat
      /\ hub.always[key] \subseteq hub.tags[key]
      /\ \A t \in hub.always[key] : t <= last => t \in lookups[c].tags
  BY <1>1, <1>2 DEF HubOk, LookOk
<1> HIDE DEF key, last
<1>4. S = {t \in hub.tags[key] : t > last} /\ IsFiniteSet(S) /\ S \subseteq Nat
  BY <1>3, FS_Subset DEF D!Above
<1>5. /\ page \subseteq S /\ more = (S # page)
      /\ \A t \in S : t \in page <=> Cardinality(Below(S, t)) < PageSize
  BY SameCount DEF D!PageAfter, key, last, Below
<1>7. \A t \in hub.always[key] : t \in lookups[c].tags \/ t \in S
  BY <1>2, <1>3, <1>4
<1> HIDE DEF S
<1>8. CASE more
  <2>1. D!Max(page) \in page /\ \A t \in S : t <= D!Max(page) => t \in page
    <3>1. PICK T : T = S
      OBVIOUS
    <3>2. IsFiniteSet(T) /\ T \subseteq Nat /\ page # T
      BY <1>4, <1>5, <1>8, <3>1
    <3>3. PageOf(PageSize, T, page)
      BY <1>5, <3>1 DEF PageOf
    <3>4. D!Max(page) \in page /\ \A t \in T : t <= D!Max(page) => t \in page
      BY <3>2, <3>3, PagesArePrefixes
    <3> QED BY <3>1, <3>4
  <2>2. page \subseteq S
    BY <1>5
  <2> QED BY <1>4, <1>7, <1>8, <2>1, <2>2 DEF key
<1>9. CASE ~more
  BY <1>5, <1>7, <1>9 DEF key
<1> QED BY <1>8, <1>9

\* The lookup after one request, whatever token went with it.
LEMMA PagedOk ==
  ASSUME LookupsInv, topic = "registry", NEW c \in Seekers,
         lookups[c].pc \in {"get", "retry"}, D!Paged(c)
  PROVE  \E r : LookOk(input, hub, c, r) /\ lookups' = [lookups EXCEPT ![c] = r]
<1>1. input \in Lookups /\ HubOk(input, hub) /\ LookOk(input, hub, c, lookups[c])
  BY DEF LookupsInv
<1>2. CASE lookups[c].op # "tags"
  <2> DEFINE answer == [D!Nothing EXCEPT !.ok = TRUE]
             r == [lookups[c] EXCEPT !.pc = "done", !.answer = answer]
  <2>1. lookups' = [lookups EXCEPT ![c] = r]
    BY <1>2 DEF D!Paged, D!Answered, D!To
  <2>2. answer.ok = TRUE
    BY DEF D!Nothing
  <2> HIDE DEF answer
  <2>3. LookOk(input, hub, c, r)
    BY <1>1, <1>2, <2>2 DEF LookOk, LookFields
  <2> HIDE DEF r
  <2> QED BY <2>1, <2>3
<1>3. CASE lookups[c].op = "tags"
  <2> DEFINE page == D!PageAfter(lookups[c].key, lookups[c].last)
             more == D!Above(lookups[c].key, lookups[c].last) # page
             top == D!Max(page)
             pc == IF more THEN "get" ELSE "list"
             last == IF more THEN top ELSE lookups[c].last
             r == [lookups[c] EXCEPT !.tags = lookups[c].tags \cup page, !.pc = pc,
                                     !.last = last, !.token = D!NoToken]
  <2>1. lookups' = [lookups EXCEPT ![c] = r]
    BY <1>3 DEF D!Paged, D!To
  <2>2. /\ more => top \in Nat
        /\ more => \A t \in hub.always[lookups[c].key] : t <= top => t \in lookups[c].tags \cup page
        /\ ~more => hub.always[lookups[c].key] \subseteq lookups[c].tags \cup page
    BY PageReads
  <2> HIDE DEF page, more, top
  <2>3. LookOk(input, hub, c, r)
    BY <1>1, <1>3, <2>2 DEF LookOk, LookFields
  <2> HIDE DEF r
  <2> QED BY <2>1, <2>3
<1> QED BY <1>2, <1>3

\* A lookup that fails does so for a reason.
LEMMA FailedOk ==
  ASSUME LookupsInv, topic = "registry", NEW c \in Seekers, NEW why, D!Failed(c, why),
         NEW h, HubOk(input, h), Grows(hub, h), Reason(input, h, lookups[c].key)
  PROVE  \E r : LookOk(input, h, c, r) /\ lookups' = [lookups EXCEPT ![c] = r]
<1> DEFINE answer == [D!Nothing EXCEPT !.why = why]
           r == [lookups[c] EXCEPT !.pc = "done", !.answer = answer]
<1>1. input \in Lookups /\ LookOk(input, hub, c, lookups[c])
  BY DEF LookupsInv
<1>2. lookups' = [lookups EXCEPT ![c] = r]
  BY DEF D!Failed, D!Answered, D!To
<1>3. ~answer.ok
  BY DEF D!Nothing
<1> HIDE DEF answer
<1>4. LookOk(input, h, c, r)
  BY <1>1, <1>3 DEF LookOk, LookFields
<1> HIDE DEF r
<1> QED BY <1>2, <1>4

\* What lies outside is as it was, but that something may have failed.
FaultyOrSame(h) ==
  /\ DOMAIN h = HubFields /\ h.tags = hub.tags /\ h.always = hub.always /\ h.valid = hub.valid
  /\ h.sent = hub.sent /\ h.shown = hub.shown /\ h.spent \in Nat /\ h.spent >= hub.spent

\* A request is recorded with the token that went with it.
LEMMA SentOk ==
  ASSUME LookupsInv, topic = "registry", NEW key, NEW t, t = D!NoToken \/ t.key = key,
         NEW h, FaultyOrSame(h)
  PROVE  /\ HubOk(input, D!Sent(h, key, t)) /\ Grows(hub, D!Sent(h, key, t))
         /\ D!Sent(h, key, t).spent = h.spent
         /\ D!Sent(h, key, t).always = hub.always /\ D!Sent(h, key, t).valid = hub.valid
<1>1. HubOk(input, hub)
  BY DEF LookupsInv
<1>2. /\ DOMAIN h = HubFields /\ h.tags = hub.tags /\ h.always = hub.always /\ h.valid = hub.valid
      /\ h.sent = hub.sent /\ h.shown = hub.shown /\ h.spent \in Nat /\ h.spent >= hub.spent
  BY DEF FaultyOrSame
<1> DEFINE g == [h EXCEPT !.sent = h.sent \cup {<<key, t>>}]
<1>3. /\ DOMAIN g = HubFields /\ g.tags = hub.tags /\ g.always = hub.always /\ g.valid = hub.valid
      /\ g.sent = hub.sent \cup {<<key, t>>} /\ g.shown = hub.shown /\ g.spent = h.spent
  BY <1>2 DEF HubFields
<1>4. D!Sent(h, key, t) = g
  BY DEF D!Sent
<1> HIDE DEF g
<1>5. \A s \in g.sent : s[2] = D!NoToken \/ s[2].key = s[1]
  <2>1. \A s \in hub.sent : s[2] = D!NoToken \/ s[2].key = s[1]
    BY <1>1 DEF HubOk
  <2>2. <<key, t>>[1] = key /\ <<key, t>>[2] = t
    OBVIOUS
  <2> QED BY <1>3, <2>1, <2>2
<1>6. HubOk(input, g)
  BY <1>1, <1>2, <1>3, <1>5 DEF HubOk
<1>7. Grows(hub, g)
  BY <1>2, <1>3 DEF Grows
<1> QED BY <1>3, <1>4, <1>6, <1>7

\* Whatever is left after the one retry.
LEMMA ClassifiedTurns ==
  ASSUME LookupsInv, topic = "registry", NEW c \in Seekers,
         lookups[c].pc \in {"get", "retry"},
         NEW t, t = D!NoToken \/ t.key = lookups[c].key,
         D!Classified(input.world, c, t)
  PROVE  Turns(c)
<1> DEFINE key == lookups[c].key
           sent == D!Sent(hub, key, t)
           fault == [hub EXCEPT !.spent = hub.spent + 1]
           failed == D!Sent(fault, key, t)
<1>1. input \in Lookups /\ HubOk(input, hub)
  BY DEF LookupsInv
<1>2. HubOk(input, sent) /\ Grows(hub, sent)
  <2>1. PICK h : h = hub
    OBVIOUS
  <2>2. FaultyOrSame(h)
    BY <1>1, <2>1 DEF HubOk, FaultyOrSame
  <2> QED BY <2>1, <2>2, SentOk
<1>3. /\ HubOk(input, failed) /\ Grows(hub, failed) /\ failed.spent > 0
  <2>1. /\ HubOk(input, failed) /\ Grows(hub, failed) /\ failed.spent = fault.spent
    <3>1. PICK h : h = fault
      OBVIOUS
    <3>2. FaultyOrSame(h)
      BY <1>1, <3>1 DEF HubOk, HubFields, FaultyOrSame
    <3>3. HubOk(input, D!Sent(h, key, t)) /\ Grows(hub, D!Sent(h, key, t)) /\ D!Sent(h, key, t).spent = h.spent
      BY <3>2, SentOk
    <3> QED BY <3>1, <3>3
  <2>2. fault.spent = hub.spent + 1 /\ hub.spent \in Nat
    BY <1>1 DEF HubOk, HubFields
  <2> QED BY <2>1, <2>2
<1>4. \/ D!Paged(c) /\ hub' = sent
      \/ key \in input.world.absent /\ (\E why : D!Failed(c, why)) /\ hub' = sent
      \/ (\E why : D!Failed(c, why)) /\ hub' = failed
  BY DEF D!Classified, D!Fault
<1> HIDE DEF sent, fault, failed
<1>5. CASE D!Paged(c) /\ hub' = sent
  <2>1. PICK r : LookOk(input, hub, c, r) /\ lookups' = [lookups EXCEPT ![c] = r]
    BY <1>5, PagedOk
  <2>2. LookOk(input, sent, c, r)
    BY <1>1, <1>2, <2>1, LooksStay
  <2> QED BY <1>2, <1>5, <2>1, <2>2 DEF Turns
<1>6. CASE key \in input.world.absent /\ (\E why : D!Failed(c, why)) /\ hub' = sent
  <2>1. Reason(input, sent, lookups[c].key)
    BY <1>6 DEF Reason
  <2>2. PICK h : h = sent
    OBVIOUS
  <2>3. PICK why : D!Failed(c, why)
    BY <1>6
  <2>4. \E r : LookOk(input, h, c, r) /\ lookups' = [lookups EXCEPT ![c] = r]
    BY <1>2, <2>1, <2>2, <2>3, FailedOk
  <2> QED BY <1>2, <1>6, <2>2, <2>4 DEF Turns
<1>7. CASE (\E why : D!Failed(c, why)) /\ hub' = failed
  <2>1. Reason(input, failed, lookups[c].key)
    BY <1>3 DEF Reason
  <2>2. PICK h : h = failed
    OBVIOUS
  <2>3. PICK why : D!Failed(c, why)
    BY <1>7
  <2>4. \E r : LookOk(input, h, c, r) /\ lookups' = [lookups EXCEPT ![c] = r]
    BY <1>3, <2>1, <2>2, <2>3, FailedOk
  <2> QED BY <1>3, <1>7, <2>2, <2>4 DEF Turns
<1> QED BY <1>4, <1>5, <1>6, <1>7

\* The first request, with the token the cache holds for the repository.
LEMMA GetTurns ==
  ASSUME LookupsInv, topic = "registry", NEW c \in Seekers, D!Get(input.world, c)
  PROVE  Turns(c)
<1>1. /\ input \in Lookups /\ HubOk(input, hub) /\ TokensOk(tokens)
      /\ LookOk(input, hub, c, lookups[c]) /\ lookups[c].pc = "get"
  BY DEF LookupsInv, D!Get
<1>2. PICK t : t = D!TokenFor(lookups[c].key)
  OBVIOUS
<1>3. t = D!NoToken \/ t.key = lookups[c].key
  BY <1>1, <1>2 DEF D!TokenFor, D!TokenKey, TokensOk
<1>4. CASE D!Classified(input.world, c, t)
  BY <1>1, <1>3, <1>4, ClassifiedTurns
<1>5. CASE /\ D!To(c, [lookups[c] EXCEPT !.pc = "challenged"])
           /\ hub' = D!Sent(hub, lookups[c].key, t)
  <2> DEFINE r == [lookups[c] EXCEPT !.pc = "challenged"]
             sent == D!Sent(hub, lookups[c].key, t)
  <2>1. HubOk(input, sent) /\ Grows(hub, sent)
    <3>1. PICK h : h = hub
      OBVIOUS
    <3>2. FaultyOrSame(h)
      BY <1>1, <3>1 DEF HubOk, FaultyOrSame
    <3> QED BY <1>3, <3>1, <3>2, SentOk
  <2>2. lookups' = [lookups EXCEPT ![c] = r] /\ hub' = sent
    BY <1>5 DEF D!To
  <2>3. LookOk(input, hub, c, r)
    BY <1>1 DEF LookOk, LookFields
  <2> HIDE DEF r, sent
  <2>4. LookOk(input, sent, c, r)
    BY <1>1, <2>1, <2>3, LooksStay
  <2> QED BY <2>1, <2>2, <2>4 DEF Turns
<1> QED BY <1>2, <1>4, <1>5 DEF D!Get

\* The second request: one that is refused again was refused for a reason.
LEMMA RetryTurns ==
  ASSUME LookupsInv, topic = "registry", NEW c \in Seekers, D!Retry(input.world, c)
  PROVE  Turns(c)
<1>1. /\ input \in Lookups /\ HubOk(input, hub) /\ LookOk(input, hub, c, lookups[c])
      /\ lookups[c].pc = "retry"
  BY DEF LookupsInv, D!Retry
<1>2. PICK t : t = lookups[c].token
  OBVIOUS
<1>3. /\ t.key = lookups[c].key /\ t.known = D!Shows(input.world, lookups[c].key)
      /\ t \in hub.valid \/ hub.spent > 0
  BY <1>1, <1>2 DEF LookOk
<1>4. CASE D!Classified(input.world, c, t)
  BY <1>1, <1>3, <1>4, ClassifiedTurns
<1>5. CASE /\ ~D!Serves(input.world, lookups[c].key, t) /\ D!Failed(c, "authentication")
           /\ hub' = D!Sent(hub, lookups[c].key, t)
  <2>1. PICK h : h = D!Sent(hub, lookups[c].key, t)
    OBVIOUS
  <2>2. HubOk(input, h) /\ Grows(hub, h) /\ h.spent = hub.spent
    <3>1. PICK g : g = hub
      OBVIOUS
    <3>2. FaultyOrSame(g)
      BY <1>1, <3>1 DEF HubOk, FaultyOrSame
    <3> QED BY <1>3, <2>1, <3>1, <3>2, SentOk
  <2>3. Reason(input, h, lookups[c].key)
    BY <1>3, <1>5, <2>2 DEF Reason, D!Serves
  <2>4. \E r : LookOk(input, h, c, r) /\ lookups' = [lookups EXCEPT ![c] = r]
    BY <1>5, <2>2, <2>3, FailedOk
  <2> QED BY <1>5, <2>1, <2>2, <2>4 DEF Turns
<1> QED BY <1>2, <1>4, <1>5 DEF D!Retry

\* A new token is for the repository looked up, and known if credentials
\* could be shown.
LEMMA AuthenticateTurns ==
  ASSUME LookupsInv, topic = "registry", NEW c \in Seekers, D!Authenticate(input.world, c)
  PROVE  Turns(c) /\ TokensOk(tokens)'
<1> DEFINE key == lookups[c].key
           t == D!Minted(input.world, key)
<1>1. /\ input \in Lookups /\ HubOk(input, hub) /\ TokensOk(tokens)
      /\ LookOk(input, hub, c, lookups[c]) /\ lookups[c].pc = "challenged"
  BY DEF LookupsInv, D!Authenticate
<1>2. t.key = key /\ t.known = D!Shows(input.world, key)
  BY DEF D!Minted
<1>3. \/ /\ D!SetToken(key, t)
         /\ D!To(c, [lookups[c] EXCEPT !.pc = "retry", !.token = t])
         /\ hub' = [hub EXCEPT !.valid = @ \cup {t}, !.serial = @ + 1,
                               !.shown = @ \cup (IF D!Shows(input.world, key) THEN {<<D!WantScope(key), key>>} ELSE {})]
      \/ D!Failed(c, "no token") /\ hub' = D!Fault(input.world) /\ UNCHANGED tokens
  BY DEF D!Authenticate
<1> HIDE DEF t
<1>4. ASSUME D!SetToken(key, t),
             D!To(c, [lookups[c] EXCEPT !.pc = "retry", !.token = t]),
             hub' = [hub EXCEPT !.valid = @ \cup {t}, !.serial = @ + 1,
                                !.shown = @ \cup (IF D!Shows(input.world, key) THEN {<<D!WantScope(key), key>>} ELSE {})]
      PROVE  Turns(c) /\ TokensOk(tokens)'
  <2> DEFINE r == [lookups[c] EXCEPT !.pc = "retry", !.token = t]
             shown == IF D!Shows(input.world, key) THEN {<<D!WantScope(key), key>>} ELSE {}
             h == [hub EXCEPT !.valid = hub.valid \cup {t}, !.serial = hub.serial + 1, !.shown = hub.shown \cup shown]
  <2>1. lookups' = [lookups EXCEPT ![c] = r]
    BY <1>4 DEF D!To
  <2>2. \A s \in shown : s[1] = <<"pull", s[2]>> /\ s[2][1] = input.world.credentials
    BY DEF D!Shows, D!WantScope
  <2> HIDE DEF shown
  <2>3. /\ DOMAIN h = HubFields /\ h.tags = hub.tags /\ h.always = hub.always /\ h.spent = hub.spent
        /\ h.valid = hub.valid \cup {t} /\ h.sent = hub.sent /\ h.shown = hub.shown \cup shown
    BY <1>1 DEF HubOk, HubFields
  <2>4. hub' = h
    <3>1. DOMAIN hub = HubFields
      BY <1>1 DEF HubOk
    <3> QED BY <1>4, <3>1 DEF shown, HubFields
  <2> HIDE DEF h
  <2>5. HubOk(input, h) /\ Grows(hub, h)
    BY <1>1, <2>2, <2>3 DEF HubOk, Grows
  <2>6. DOMAIN r = LookFields /\ r.key = key /\ r.last = lookups[c].last /\ r.tags = lookups[c].tags
        /\ r.pc = "retry" /\ r.token = t
    BY <1>1 DEF LookOk, LookFields
  <2> HIDE DEF r
  <2>7. LookOk(input, h, c, r)
    BY <1>1, <1>2, <2>3, <2>6 DEF LookOk
  <2>8. Turns(c)
    BY <2>1, <2>4, <2>5, <2>7 DEF Turns
  <2>9. TokensOk(tokens)'
    BY <1>1, <1>2, <1>4 DEF TokensOk, D!SetToken, D!TokenKey
  <2> QED BY <2>8, <2>9
<1>5. ASSUME D!Failed(c, "no token"), hub' = D!Fault(input.world), UNCHANGED tokens
      PROVE  Turns(c) /\ TokensOk(tokens)'
  <2>1. PICK h : h = [hub EXCEPT !.spent = hub.spent + 1]
    OBVIOUS
  <2>2. hub' = h
    BY <1>5, <2>1 DEF D!Fault
  <2>3. /\ DOMAIN h = HubFields /\ h.tags = hub.tags /\ h.always = hub.always /\ h.spent = hub.spent + 1
        /\ h.valid = hub.valid /\ h.sent = hub.sent /\ h.shown = hub.shown /\ hub.spent \in Nat
    BY <1>1, <2>1 DEF HubOk, HubFields
  <2>4. HubOk(input, h) /\ Grows(hub, h) /\ h.spent > 0
    BY <1>1, <2>3 DEF HubOk, Grows
  <2>5. Reason(input, h, lookups[c].key)
    BY <2>4 DEF Reason
  <2>6. \E r : LookOk(input, h, c, r) /\ lookups' = [lookups EXCEPT ![c] = r]
    BY <1>5, <2>4, <2>5, FailedOk
  <2> QED BY <1>1, <1>5, <2>2, <2>4, <2>6 DEF Turns, TokensOk
<1> QED BY <1>3, <1>4, <1>5

\* What the list reads as, and what it is worth.
LEMMA ListRead ==
  ASSUME NEW l \in Lookups, l.world.list.named, NEW key
  PROVE  LET v == D!Read(l.world.list)
         IN /\ v.err <=> l.world.list.found # "no" /\ ~D!Trusted(l.world.list)
            /\ v.err => D!GoneFrom(l.world.list, key) = {}
            /\ ~v.err => {e[2] : e \in {e \in v.gone : e[1] = key}} = D!GoneFrom(l.world.list, key)
            /\ v.warn => l.world.list.mode = "warn" /\ l.world.list.signature # "good"
<1> DEFINE list == l.world.list
           v == D!Read(list)
<1>1. list.found \in {"yes", "no", "unreadable"} /\ list.mode \in {"off", "warn", "require"}
  BY LookupsAssumption
<1>2. CASE list.found = "no"
  <2>1. v = [D!Unread EXCEPT !.read = TRUE]
    BY <1>2 DEF D!Read
  <2>2. v.err = FALSE /\ v.warn = FALSE /\ v.gone = {}
    BY <2>1 DEF D!Unread
  <2>3. D!GoneFrom(list, key) = {}
    BY <1>2 DEF D!GoneFrom, D!Trusted
  <2> QED BY <1>2, <2>2, <2>3
<1>3. CASE list.found = "unreadable" \/ (list.found = "yes" /\ D!Doubted(list) /\ list.mode = "require")
  <2>1. v = [D!Unread EXCEPT !.read = TRUE, !.err = TRUE]
    BY <1>3 DEF D!Read
  <2>2. v.err = TRUE /\ v.warn = FALSE
    BY <2>1 DEF D!Unread
  <2>3. ~D!Trusted(list) /\ D!GoneFrom(list, key) = {}
    BY <1>3 DEF D!GoneFrom, D!Trusted, D!Doubted
  <2> QED BY <1>3, <2>2, <2>3
<1>4. CASE list.found = "yes" /\ ~(D!Doubted(list) /\ list.mode = "require")
  <2>1. v = [read |-> TRUE, err |-> FALSE, warn |-> D!Doubted(list), gone |-> list.entries, hosts |-> {e[1][1] : e \in list.entries}]
    BY <1>4 DEF D!Read
  <2>2. v.err = FALSE /\ v.warn = D!Doubted(list) /\ v.gone = list.entries
    BY <2>1
  <2>3. D!Trusted(list)
    BY <1>4 DEF D!Trusted, D!Doubted
  <2>4. D!GoneFrom(list, key) = {e[2] : e \in {e \in list.entries : e[1] = key}}
    BY <2>3 DEF D!GoneFrom
  <2>5. D!Doubted(list) => list.mode = "warn" /\ list.signature # "good"
    BY <1>1, <1>4 DEF D!Doubted
  <2> QED BY <2>2, <2>3, <2>4, <2>5
<1> QED BY <1>1, <1>2, <1>3, <1>4

\* The list as a lookup finds it: kept from the first to ask, its failure too.
ListFound == IF withdrawals.read \/ ~input.world.list.named THEN withdrawals ELSE D!Read(input.world.list)

\* What a lookup that has read all pages says, with the list as it was found.
LEMMA ReleasesOk ==
  ASSUME LookupsInv, topic = "registry", NEW c \in Seekers, lookups[c].pc = "list",
         NEW v, v = ListFound, NEW a, a = D!Releases(input.world, c, v)
  PROVE  /\ ListOk(input, v) /\ a.ok = TRUE
         /\ hub.always[lookups[c].key] \ D!GoneFrom(input.world.list, lookups[c].key) \subseteq a.tags
         /\ Heard(input, lookups[c].key, a)
<1> DEFINE list == input.world.list
           key == lookups[c].key
           gone == {e[2] : e \in {e \in v.gone : e[1] = key}}
<1>1. input \in Lookups /\ ListOk(input, withdrawals) /\ LookOk(input, hub, c, lookups[c])
  BY DEF LookupsInv
<1>2. hub.always[key] \subseteq lookups[c].tags
  BY <1>1 DEF LookOk
<1>3. (~list.named /\ v = D!Unread) \/ (list.named /\ v = D!Read(list))
  <2>1. D!Unread.read = FALSE
    BY DEF D!Unread
  <2>2. v = ListFound
    OBVIOUS
  <2> QED BY <1>1, <2>1, <2>2 DEF ListOk, ListFound
<1>4. /\ v.err <=> list.named /\ list.found # "no" /\ ~D!Trusted(list)
      /\ v.err => D!GoneFrom(list, key) = {}
      /\ ~v.err => gone = D!GoneFrom(list, key)
      /\ v.warn => list.mode = "warn" /\ list.signature # "good"
  <2>1. ASSUME ~list.named, v = D!Unread
        PROVE  v.err = FALSE /\ v.warn = FALSE /\ gone = {} /\ D!GoneFrom(list, key) = {}
    <3>1. v.err = FALSE /\ v.warn = FALSE /\ v.gone = {}
      BY <2>1 DEF D!Unread
    <3>2. D!GoneFrom(list, key) = {}
      BY <2>1 DEF D!GoneFrom, D!Trusted
    <3> QED BY <3>1, <3>2
  <2>2. ASSUME list.named, v = D!Read(list)
        PROVE  /\ v.err <=> list.found # "no" /\ ~D!Trusted(list)
               /\ v.err => D!GoneFrom(list, key) = {}
               /\ ~v.err => gone = D!GoneFrom(list, key)
               /\ v.warn => list.mode = "warn" /\ list.signature # "good"
    BY <1>1, <2>2, ListRead
  <2> QED BY <1>3, <2>1, <2>2
<1>5. ListOk(input, v)
  BY <1>3 DEF ListOk
<1>6. CASE v.err
  <2>1. a = [D!Nothing EXCEPT !.ok = TRUE, !.tags = lookups[c].tags, !.listErr = TRUE]
    BY <1>6 DEF D!Releases
  <2>2. a.ok = TRUE /\ a.tags = lookups[c].tags /\ a.withdrawn = {} /\ a.listErr = TRUE /\ a.warn = FALSE
    BY <2>1 DEF D!Nothing
  <2> QED BY <1>2, <1>4, <1>5, <1>6, <2>2 DEF Heard
<1>7. CASE ~v.err
  <2>1. a.ok = TRUE /\ a.tags = lookups[c].tags \ gone /\ a.withdrawn = gone /\ a.listErr = FALSE /\ a.warn = v.warn
    BY <1>7 DEF D!Nothing, D!Releases
  <2> HIDE DEF gone
  <2> QED BY <1>2, <1>4, <1>5, <1>7, <2>1 DEF Heard
<1> QED BY <1>6, <1>7

\* A lookup ends with the list applied, and the list is kept as it was read.
LEMMA WithdrawalsTurns ==
  ASSUME LookupsInv, topic = "registry", NEW c \in Seekers, D!Withdrawals(input.world, c),
         UNCHANGED input
  PROVE  Turns(c) /\ ListOk(input, withdrawals)'
<1>1. /\ input \in Lookups /\ HubOk(input, hub) /\ LookOk(input, hub, c, lookups[c])
      /\ lookups[c].pc = "list"
  BY DEF LookupsInv, D!Withdrawals
<1>2. PICK v : v = ListFound
  OBVIOUS
<1> DEFINE a == D!Releases(input.world, c, v)
           r == [lookups[c] EXCEPT !.pc = "done", !.answer = a]
<1>3. withdrawals' = v /\ lookups' = [lookups EXCEPT ![c] = r] /\ hub' = hub
  BY <1>2 DEF D!Withdrawals, ListFound, D!Answered, D!To
<1>4. /\ ListOk(input, v) /\ a.ok = TRUE
      /\ hub.always[lookups[c].key] \ D!GoneFrom(input.world.list, lookups[c].key) \subseteq a.tags
      /\ Heard(input, lookups[c].key, a)
  <2>1. PICK b : b = a
    OBVIOUS
  <2> QED BY <1>1, <1>2, <2>1, ReleasesOk
<1> HIDE DEF a
<1>5. DOMAIN r = LookFields /\ r.key = lookups[c].key /\ r.last = lookups[c].last /\ r.pc = "done" /\ r.answer = a
  BY <1>1 DEF LookOk, LookFields
<1> HIDE DEF r
<1>6. LookOk(input, hub, c, r)
  BY <1>1, <1>4, <1>5 DEF LookOk
<1>7. Grows(hub, hub)
  BY <1>1 DEF Grows, HubOk
<1>8. ListOk(input, withdrawals)'
  BY <1>3, <1>4 DEF ListOk
<1> QED BY <1>1, <1>3, <1>6, <1>7, <1>8 DEF Turns

\* What others do meanwhile.
LEMMA ExpireShifts ==
  ASSUME LookupsInv, topic = "registry", D!Expire PROVE Shifts
<1>1. HubOk(input, hub)
  BY DEF LookupsInv
<1>2. PICK t \in hub.valid : hub' = [hub EXCEPT !.valid = @ \ {t}, !.spent = @ + 1]
  BY DEF D!Expire
<1> DEFINE h == [hub EXCEPT !.valid = hub.valid \ {t}, !.spent = hub.spent + 1]
<1>3. hub' = h
  BY <1>1, <1>2 DEF HubOk, HubFields
<1>4. /\ DOMAIN h = HubFields /\ h.tags = hub.tags /\ h.always = hub.always /\ h.spent = hub.spent + 1
      /\ h.sent = hub.sent /\ h.shown = hub.shown /\ hub.spent \in Nat
  BY <1>1 DEF HubOk, HubFields
<1> HIDE DEF h
<1>5. HubOk(input, h) /\ Grows(hub, h)
  BY <1>1, <1>4 DEF HubOk, Grows
<1> QED BY <1>3, <1>5 DEF Shifts

\* A tag pushed meanwhile is not one that was there all along.
LEMMA PushShifts ==
  ASSUME LookupsInv, topic = "registry", D!Push PROVE Shifts
<1>1. HubOk(input, hub)
  BY DEF LookupsInv
<1>2. PICK k \in DOMAIN hub.tags, t \in Fresh : hub' = [hub EXCEPT !.tags[k] = @ \cup {t}, !.spent = @ + 1]
  BY DEF D!Push
<1> DEFINE tags == [hub.tags EXCEPT ![k] = hub.tags[k] \cup {t}]
           h == [hub EXCEPT !.tags = tags, !.spent = hub.spent + 1]
<1>3. hub' = h
  BY <1>1, <1>2 DEF HubOk, HubFields
<1>4. t \in Nat
  BY LookupsAssumption
<1>5. /\ DOMAIN tags = DOMAIN input.tags
      /\ \A j \in DOMAIN input.tags : IsFiniteSet(tags[j]) /\ tags[j] \subseteq Nat /\ hub.tags[j] \subseteq tags[j]
  <2>1. /\ DOMAIN hub.tags = DOMAIN input.tags
        /\ \A j \in DOMAIN input.tags : IsFiniteSet(hub.tags[j]) /\ hub.tags[j] \subseteq Nat
    BY <1>1 DEF HubOk
  <2>2. \A j \in DOMAIN input.tags : tags[j] = IF j = k THEN hub.tags[k] \cup {t} ELSE hub.tags[j]
    BY <2>1
  <2>3. IsFiniteSet(hub.tags[k] \cup {t})
    BY <2>1, FS_AddElement
  <2> QED BY <1>4, <2>1, <2>2, <2>3
<1> HIDE DEF tags
<1>6. /\ DOMAIN h = HubFields /\ h.tags = tags /\ h.always = hub.always /\ h.spent = hub.spent + 1
      /\ h.valid = hub.valid /\ h.sent = hub.sent /\ h.shown = hub.shown /\ hub.spent \in Nat
  BY <1>1 DEF HubOk, HubFields
<1> HIDE DEF h
<1>7. HubOk(input, h) /\ Grows(hub, h)
  BY <1>1, <1>5, <1>6 DEF HubOk, Grows
<1> QED BY <1>3, <1>7 DEF Shifts

\* A tag deleted meanwhile was not there all along.
LEMMA DeleteShifts ==
  ASSUME LookupsInv, topic = "registry", D!Delete PROVE Shifts
<1>1. HubOk(input, hub)
  BY DEF LookupsInv
<1>2. PICK k \in DOMAIN hub.tags : \E t \in hub.tags[k] :
        hub' = [hub EXCEPT !.tags[k] = @ \ {t}, !.always[k] = @ \ {t}, !.spent = @ + 1]
  BY DEF D!Delete
<1>3. PICK t : hub' = [hub EXCEPT !.tags[k] = @ \ {t}, !.always[k] = @ \ {t}, !.spent = @ + 1]
  BY <1>2
<1> DEFINE tags == [hub.tags EXCEPT ![k] = hub.tags[k] \ {t}]
           always == [hub.always EXCEPT ![k] = hub.always[k] \ {t}]
           h == [hub EXCEPT !.tags = tags, !.always = always, !.spent = hub.spent + 1]
<1>4. hub' = h
  BY <1>1, <1>3 DEF HubOk, HubFields
<1>5. /\ DOMAIN tags = DOMAIN input.tags /\ DOMAIN always = DOMAIN input.tags
      /\ \A j \in DOMAIN input.tags :
           /\ IsFiniteSet(tags[j]) /\ tags[j] \subseteq Nat
           /\ always[j] \subseteq tags[j] \ {0} /\ always[j] \subseteq hub.always[j]
  <2>1. /\ DOMAIN hub.tags = DOMAIN input.tags /\ DOMAIN hub.always = DOMAIN input.tags
        /\ \A j \in DOMAIN input.tags : IsFiniteSet(hub.tags[j]) /\ hub.tags[j] \subseteq Nat /\ hub.always[j] \subseteq hub.tags[j] \ {0}
    BY <1>1 DEF HubOk
  <2>2. \A j \in DOMAIN input.tags : /\ tags[j] = IF j = k THEN hub.tags[k] \ {t} ELSE hub.tags[j]
                                     /\ always[j] = IF j = k THEN hub.always[k] \ {t} ELSE hub.always[j]
    BY <2>1
  <2>3. IsFiniteSet(hub.tags[k] \ {t})
    BY <2>1, FS_Subset
  <2> QED BY <2>1, <2>2, <2>3
<1> HIDE DEF tags, always
<1>6. /\ DOMAIN h = HubFields /\ h.tags = tags /\ h.always = always /\ h.spent = hub.spent + 1
      /\ h.valid = hub.valid /\ h.sent = hub.sent /\ h.shown = hub.shown /\ hub.spent \in Nat
  BY <1>1 DEF HubOk, HubFields
<1> HIDE DEF h
<1>7. HubOk(input, h) /\ Grows(hub, h)
  BY <1>1, <1>5, <1>6 DEF HubOk, Grows
<1> QED BY <1>4, <1>7 DEF Shifts
-----------------------------------------------------------------------------
(* The behaviours.                                                         *)

\* Nothing is remembered before the first lookup.
NothingYet == topic = "none" => tokens = <<>> /\ withdrawals = D!Unread

SharingInv == NothingYet /\ CallsInv /\ LookupsInv

\* Before the first question there is nothing to keep.
LEMMA NoCallsOk == NoCalls => SharingInv
BY DEF NoCalls, SharingInv, NothingYet, CallsInv, LookupsInv

\* Calls start with no slot taken and no credential shown.
LEMMA AskHTTPStarts == ASSUME AskHTTP PROVE CallsInv'
<1>1. PICK l \in Loads : topic' = "http" /\ input' = l /\ calls' = H!Started(l)
  BY DEF AskHTTP
<1>2. \A c \in Callers : calls'[c] = H!Call(l[c].verb, l[c].urls)
  BY <1>1 DEF H!Started
<1>3. DOMAIN calls' = Callers
  BY <1>1 DEF H!Started
<1>4. MaxRetries \in Nat
  BY LoadsAssumption
<1>5. ASSUME NEW c \in Callers PROVE CallOk(l, c, calls'[c])
  <2> DEFINE r == H!Call(l[c].verb, l[c].urls)
  <2>1. /\ DOMAIN r = Fields /\ r.verb = l[c].verb /\ r.urls = l[c].urls /\ r.gate = H!Gate(l[c].urls[1])
        /\ r.pc \in {"waiting", "trying"} /\ r.attempt = 0 /\ r.told = {}
    BY DEF H!Call, Fields
  <2> HIDE DEF r
  <2>2. CallOk(l, c, r)
    BY <1>4, <2>1 DEF CallOk
  <2> QED BY <1>2, <2>2 DEF r
<1>6. ASSUME NEW c \in Callers PROVE ~Holds(calls'[c])
  <2> DEFINE r == H!Call(l[c].verb, l[c].urls)
  <2>1. r.verb = l[c].verb /\ r.pc = IF l[c].verb = "get" THEN "waiting" ELSE "trying"
    BY DEF H!Call
  <2> HIDE DEF r
  <2>2. ~Holds(r)
    BY <2>1 DEF Holds
  <2> QED BY <1>2, <2>2 DEF r
<1>7. ASSUME NEW c \in Callers
      PROVE  (Cardinality(HoldersOf(H!Gate(input[c].urls[1]))) <= H!Width(input[c].urls[1]))'
  <2>1. HoldersOf(H!Gate(input[c].urls[1]))' = {}
    BY <1>6 DEF HoldersOf, Holds
  <2>2. H!Width(l[c].urls[1]) \in Nat
    BY WidthIsNat
  <2>3. H!Width(input[c].urls[1])' = H!Width(l[c].urls[1])
    BY <1>1 DEF H!Width, H!RuleFor, H!None
  <2> QED BY <2>1, <2>2, <2>3, FS_EmptySet
<1>8. \A c \in Callers : CallOk(input, c, calls[c])'
  BY <1>1, <1>5 DEF CallOk, MaySee
<1> QED BY <1>1, <1>3, <1>7, <1>8 DEF CallsInv

\* Lookups start with nothing read and no token.
LEMMA AskRegistryStarts == ASSUME NothingYet, AskRegistry PROVE LookupsInv'
<1>1. PICK l \in Lookups :
        topic' = "registry" /\ input' = l /\ lookups' = D!Looking(l.wants) /\ hub' = D!Outside(l.tags)
  BY DEF AskRegistry
<1>2. tokens' = <<>> /\ withdrawals' = D!Unread
  BY DEF AskRegistry, NothingYet, Open
<1> DEFINE h == D!Outside(l.tags)
<1>3. /\ DOMAIN h = HubFields /\ h.tags = l.tags /\ h.always = l.tags /\ h.spent = 0
      /\ h.sent = {} /\ h.shown = {}
  BY DEF D!Outside, HubFields
<1> HIDE DEF h
<1>4. HubOk(l, h)
  <2>1. \A k \in DOMAIN l.tags : IsFiniteSet(l.tags[k]) /\ l.tags[k] \subseteq Nat \ {0}
    BY LookupsAssumption
  <2> QED BY <1>3, <2>1 DEF HubOk
<1>5. ASSUME NEW c \in Seekers PROVE LookOk(l, h, c, lookups'[c])
  <2> DEFINE r == lookups'[c]
  <2>1. /\ DOMAIN r = LookFields /\ r.key = D!Resolve(l.wants[c].ref) /\ r.last = 0 /\ r.pc = "get"
    BY <1>1 DEF D!Looking, LookFields
  <2>2. r.key \in DOMAIN l.tags
    BY <2>1, LookupsAssumption
  <2>3. \A t \in h.always[r.key] : t \in Nat \ {0}
    BY <1>3, <2>2, LookupsAssumption
  <2>4. \A t \in h.always[r.key] : ~(t <= r.last)
    BY <2>1, <2>3
  <2> HIDE DEF r
  <2>5. LookOk(l, h, c, r)
    BY <2>1, <2>4 DEF LookOk
  <2> QED BY <2>5 DEF r
<1>6. hub' = h /\ DOMAIN lookups' = Seekers
  BY <1>1 DEF h, D!Looking
<1>7. \A c \in Seekers : LookOk(input, hub, c, lookups[c])'
  BY <1>1, <1>5, <1>6 DEF LookOk, Reason, Heard
<1>8. HubOk(input, hub)'
  BY <1>1, <1>4, <1>6 DEF HubOk
<1>9. TokensOk(tokens)' /\ ListOk(input, withdrawals)'
  BY <1>2 DEF TokensOk, ListOk
<1> QED BY <1>1, <1>6, <1>7, <1>8, <1>9 DEF LookupsInv

\* Every step, of the callers or of other questions, keeps the invariant.
LEMMA CallsStep == ASSUME SharingInv, [CallNext \/ Question]_callVars PROVE SharingInv'
<1>1. NothingYet /\ CallsInv /\ LookupsInv
  BY DEF SharingInv
<1>2. CASE AskHTTP
  <2>1. topic' = "http"
    BY <1>2 DEF AskHTTP
  <2> QED BY <1>2, <2>1, AskHTTPStarts DEF SharingInv, NothingYet, LookupsInv
<1>3. ASSUME Running, NEW c \in Callers, Moves(c) PROVE SharingInv'
  <2>1. topic = "http" /\ topic' = "http" /\ UNCHANGED <<topic, input>>
    BY <1>3 DEF Running
  <2>2. CallsInv'
    BY <1>1, <1>3, <2>1, OneCallMoves
  <2> QED BY <2>1, <2>2 DEF SharingInv, NothingYet, LookupsInv
<1>4. CASE Entered
  BY <1>1, <1>3, <1>4, EnterKeeps DEF Entered, Running
<1>5. CASE GaveUp
  BY <1>1, <1>3, <1>5, GiveUpKeeps DEF GaveUp, Running
<1>6. CASE Attempted
  BY <1>1, <1>3, <1>6, AttemptKeeps DEF Attempted, Running
<1>7. CASE Woke
  BY <1>1, <1>3, <1>7, WakeKeeps DEF Woke, Running
<1>8. CASE Canceled
  BY <1>1, <1>3, <1>8, CancelKeeps DEF Canceled, Running
<1>9. CASE AskRegistry
  <2>1. topic' = "registry"
    BY <1>9 DEF AskRegistry
  <2> QED BY <1>1, <1>9, <2>1, AskRegistryStarts DEF SharingInv, NothingYet, CallsInv
<1>10. ASSUME Seeking, LookupsInv' PROVE SharingInv'
  BY <1>10 DEF Seeking, SharingInv, NothingYet, CallsInv
<1>11. ASSUME Seeking, NEW c \in Seekers, Turns(c), TokensOk(tokens)', ListOk(input, withdrawals)'
       PROVE  SharingInv'
  BY <1>1, <1>10, <1>11, OneLookupTurns DEF Seeking
<1>12. ASSUME Seeking PROVE /\ UNCHANGED tokens => TokensOk(tokens)'
                            /\ UNCHANGED withdrawals => ListOk(input, withdrawals)'
  BY <1>1, <1>12 DEF Seeking, LookupsInv, TokensOk, ListOk
<1>13. CASE Got
  <2>1. PICK c \in Seekers : D!Get(input.world, c)
    BY <1>13 DEF Got
  <2>2. Seeking /\ UNCHANGED <<tokens, withdrawals>>
    BY <1>13, <2>1 DEF Got, D!Get
  <2>3. Turns(c)
    BY <1>1, <2>1, <2>2, GetTurns DEF Seeking
  <2> QED BY <1>11, <1>12, <2>2, <2>3
<1>14. CASE Authenticated
  <2>1. PICK c \in Seekers : D!Authenticate(input.world, c)
    BY <1>14 DEF Authenticated
  <2>2. Seeking /\ UNCHANGED withdrawals
    BY <1>14, <2>1 DEF Authenticated, D!Authenticate
  <2>3. Turns(c) /\ TokensOk(tokens)'
    BY <1>1, <2>1, <2>2, AuthenticateTurns DEF Seeking
  <2> QED BY <1>11, <1>12, <2>2, <2>3
<1>15. CASE Retried
  <2>1. PICK c \in Seekers : D!Retry(input.world, c)
    BY <1>15 DEF Retried
  <2>2. Seeking /\ UNCHANGED <<tokens, withdrawals>>
    BY <1>15, <2>1 DEF Retried, D!Retry
  <2>3. Turns(c)
    BY <1>1, <2>1, <2>2, RetryTurns DEF Seeking
  <2> QED BY <1>11, <1>12, <2>2, <2>3
<1>16. CASE WithdrawalsRead
  <2>1. PICK c \in Seekers : D!Withdrawals(input.world, c)
    BY <1>16 DEF WithdrawalsRead
  <2>2. Seeking /\ UNCHANGED tokens /\ UNCHANGED input
    BY <1>16, <2>1 DEF WithdrawalsRead, Seeking, D!Withdrawals
  <2>3. Turns(c) /\ ListOk(input, withdrawals)'
    BY <1>1, <2>1, <2>2, WithdrawalsTurns DEF Seeking
  <2> QED BY <1>11, <1>12, <2>2, <2>3
<1>17. ASSUME Seeking, Shifts, UNCHANGED <<lookups, tokens, withdrawals>> PROVE SharingInv'
  BY <1>1, <1>10, <1>17, OutsideShifts DEF Seeking
<1>18. CASE Expired
  BY <1>1, <1>17, <1>18, ExpireShifts DEF Expired, Seeking, D!Expire
<1>19. CASE Pushed
  BY <1>1, <1>17, <1>19, PushShifts DEF Pushed, Seeking, D!Push
<1>20. CASE Deleted
  BY <1>1, <1>17, <1>20, DeleteShifts DEF Deleted, Seeking, D!Delete
<1>21. CASE Question
  BY <1>1, <1>21 DEF Question, Open, registry, SharingInv, NothingYet, CallsInv, LookupsInv
<1>22. CASE UNCHANGED callVars
  <2>1. /\ topic' = topic /\ input' = input /\ calls' = calls
        /\ lookups' = lookups /\ tokens' = tokens /\ withdrawals' = withdrawals /\ hub' = hub
    BY <1>22 DEF callVars, registry
  <2>2. NothingYet'
    BY <1>1, <2>1 DEF NothingYet
  <2>3. CallsInv'
    <3>1. ASSUME topic = "http" PROVE CallsInv'
      <4>1. /\ input \in Loads /\ DOMAIN calls = Callers
            /\ \A c \in Callers : CallOk(input, c, calls[c])
            /\ \A c \in Callers : Cardinality(HoldersOf(H!Gate(input[c].urls[1]))) <= H!Width(input[c].urls[1])
        BY <1>1, <3>1 DEF CallsInv
      <4>2. \A c \in Callers : CallOk(input, c, calls[c])'
        BY <2>1, <4>1 DEF CallOk, MaySee
      <4>3. \A c \in Callers : (Cardinality(HoldersOf(H!Gate(input[c].urls[1]))) <= H!Width(input[c].urls[1]))'
        BY <2>1, <4>1 DEF HoldersOf, Holds, H!Gate, H!Width, H!RuleFor
      <4> QED BY <2>1, <4>1, <4>2, <4>3 DEF CallsInv
    <3> QED BY <2>1, <3>1 DEF CallsInv
  <2>4. LookupsInv'
    BY <1>1, <2>1 DEF LookupsInv, HubOk, TokensOk, ListOk, LookOk, Reason, Heard
  <2> QED BY <2>2, <2>3, <2>4 DEF SharingInv
<1> QED BY <1>2, <1>4, <1>5, <1>6, <1>7, <1>8, <1>9, <1>13, <1>14, <1>15, <1>16, <1>18,
           <1>19, <1>20, <1>21, <1>22 DEF CallNext

\* Whatever is asked: the invariant holds of every call and every lookup.
LEMMA SharingKeeps == CallSpec => []SharingInv
<1>1. SharingInv /\ [CallNext \/ Question]_callVars => SharingInv'
  BY CallsStep
<1> QED BY <1>1, NoCallsOk, PTL DEF CallSpec

\* Client.Get: however many callers wait for a host, whatever the rules and
\* whatever the servers answer, no more Gets at once ask a host, as it is
\* spelled, than its rule says; a credential is seen only on hops to the host
\* and port it was made for, and there only where the rule that speaks for the
\* hop admits its path (httpx.go:234); and a Get fails only on an answer that
\* will not change or after the last attempt.
THEOREM CallersArePolite == CallSpec => []Polite
<1>1. ASSUME SharingInv PROVE Polite
  <2> SUFFICES ASSUME topic = "http" PROVE H!HostSpared /\ H!CredentialStays /\ H!FailsForAReason
    BY DEF Polite
  <2>1. /\ \A c \in Callers : CallOk(input, c, calls[c])
        /\ \A c \in Callers : Cardinality(HoldersOf(H!Gate(input[c].urls[1]))) <= H!Width(input[c].urls[1])
    BY <1>1 DEF SharingInv, CallsInv
  <2>2. ASSUME NEW c \in Callers PROVE H!Cardinality(H!Inside(calls[c].gate)) <= H!Width(calls[c].urls[1])
    <3>1. H!Inside(calls[c].gate) = HoldersOf(calls[c].gate)
      BY DEF H!Inside, HoldersOf, Holds
    <3>2. calls[c].gate = H!Gate(input[c].urls[1]) /\ calls[c].urls = input[c].urls
      BY <2>1 DEF CallOk
    <3> QED BY <2>1, <3>1, <3>2, SameCardinality
  <2>3. H!HostSpared
    BY <2>2 DEF H!HostSpared
  <2>4. H!CredentialStays
    BY <2>1 DEF H!CredentialStays, CallOk, MaySee
  <2>5. H!FailsForAReason
    BY <2>1 DEF H!FailsForAReason, CallOk
  <2> QED BY <2>3, <2>4, <2>5
<1>2. SharingInv => Polite
  BY <1>1
<1> QED BY <1>2, SharingKeeps, PTL

\* dockerds: whatever the registries hold, push, delete or refuse and however
\* the lookups interleave, a lookup that succeeds lists every tag that was
\* there throughout but those a trusted list withdraws, a token is seen by its
\* own repository alone, and a lookup that fails has a reason.
THEOREM LookupsAreHonest == CallSpec => []SourcesAreHonest
<1>1. ASSUME SharingInv PROVE SourcesAreHonest
  <2> SUFFICES ASSUME topic = "registry"
               PROVE  D!ListedWhole(input.world) /\ D!TokensStayHome(input.world) /\ D!FailsForAReason(input.world)
    BY DEF SourcesAreHonest, D!SourceIsHonest
  <2>1. HubOk(input, hub) /\ \A c \in Seekers : LookOk(input, hub, c, lookups[c])
    BY <1>1 DEF SharingInv, LookupsInv
  <2>2. D!ListedWhole(input.world)
    BY <2>1 DEF D!ListedWhole, D!Done, LookOk, Heard
  <2>3. D!TokensStayHome(input.world)
    BY <2>1 DEF D!TokensStayHome, HubOk
  <2>4. D!FailsForAReason(input.world)
    BY <2>1 DEF D!FailsForAReason, D!Done, LookOk, Reason
  <2> QED BY <2>2, <2>3, <2>4
<1>2. SharingInv => SourcesAreHonest
  BY <1>1
<1> QED BY <1>2, SharingKeeps, PTL

-----------------------------------------------------------------------------
(* Sequences built element by element.                                     *)

\* Induction up to n, by the set of the numbers it holds for.
LEMMA Climb ==
  ASSUME NEW n \in Nat, NEW T, 0 \in T, \A k \in 0..(n - 1) : k \in T => k + 1 \in T
  PROVE  \A k \in 0..n : k \in T
<1> SUFFICES ASSUME {k \in 0..n : k \notin T} # {} PROVE FALSE
  OBVIOUS
<1>1. PICK m \in {k \in 0..n : k \notin T} : \A x \in {k \in 0..n : k \notin T} : m <= x
  <2>1. {k \in 0..n : k \notin T} \subseteq Nat
    OBVIOUS
  <2> QED BY <2>1, LeastExists
<1>2. m # 0 /\ m \in 0..n
  BY <1>1
<1>3. m - 1 \in T
  BY <1>1, <1>2
<1>4. m - 1 \in 0..(n - 1) /\ (m - 1) + 1 = m
  BY <1>2
<1> QED BY <1>1, <1>3, <1>4

\* Nothing that is to be kept is lost.
Keeps(s, places, r) == \A k \in DOMAIN s \cap places : \E i \in DOMAIN r : r[i] = s[k]

\* Kept keeps the elements at the places it is given, all of them and no other.
LEMMA KeptElements ==
  ASSUME NEW A, NEW s \in Seq(A), NEW places
  PROVE  /\ Kept(s, places) \in Seq(A)
         /\ \A i \in DOMAIN Kept(s, places) : \E k \in DOMAIN s \cap places : Kept(s, places)[i] = s[k]
         /\ Keeps(s, places, Kept(s, places))
<1> DEFINE Step(g, k) == IF k = 0 THEN <<>> ELSE IF k \in places THEN Append(g[k - 1], s[k]) ELSE g[k - 1]
           Is(g, m) == g = [k \in 0..m |-> Step(g, k)]
           kept == CHOOSE g : Is(g, Len(s))
           Good(r, m) == /\ r \in Seq(A)
                         /\ \A i \in DOMAIN r : \E k \in (1..m) \cap places : r[i] = s[k]
                         /\ \A k \in (1..m) \cap places : \E i \in DOMAIN r : r[i] = s[k]
<1>0. Len(s) \in Nat /\ DOMAIN s = 1..Len(s)
  OBVIOUS
<1>1. \E g : Is(g, Len(s))
  <2> DEFINE T == {m \in Nat : \E g : Is(g, m)}
  <2>1. 0 \in T
    <3>1. Is([k \in 0..0 |-> <<>>], 0)
      OBVIOUS
    <3> QED BY <3>1
  <2>2. ASSUME NEW m \in 0..(Len(s) - 1), m \in T PROVE m + 1 \in T
    <3>1. PICK g : Is(g, m)
      BY <2>2
    <3> DEFINE h == [k \in 0..(m + 1) |-> IF k = m + 1 THEN Step(g, k) ELSE g[k]]
    <3>2. \A k \in 0..m : h[k] = g[k]
      OBVIOUS
    <3>3. \A k \in 0..(m + 1) : h[k] = Step(h, k)
      <4>1. ASSUME NEW k \in 0..(m + 1) PROVE Step(h, k) = Step(g, k)
        <5>1. k # 0 => k - 1 \in 0..m
          OBVIOUS
        <5>2. k # 0 => h[k - 1] = g[k - 1]
          BY <5>1, <3>2
        <5> HIDE DEF h
        <5> QED BY <5>2
      <4>2. ASSUME NEW k \in 0..(m + 1) PROVE h[k] = Step(g, k)
        <5>1. CASE k = m + 1
          BY <5>1
        <5>2. CASE k \in 0..m
          <6>1. g[k] = Step(g, k)
            BY <3>1, <5>2, Zenon
          <6> HIDE DEF Step
          <6> QED BY <6>1, <3>2, <5>2
        <5> QED BY <5>1, <5>2
      <4> QED BY <4>1, <4>2
    <3>4. Is(h, m + 1)
      <4>1. h = [k \in 0..(m + 1) |-> h[k]]
        OBVIOUS
      <4> HIDE DEF h, Step
      <4> QED BY <3>3, <4>1
    <3> HIDE DEF h, Is
    <3> QED BY <3>4
  <2> HIDE DEF T
  <2>3. \A k \in 0..Len(s) : k \in T
    BY <1>0, <2>1, <2>2, Climb
  <2>4. Len(s) \in T
    BY <1>0, <2>3
  <2> QED BY <2>4 DEF T
<1>2. Is(kept, Len(s))
  <2> HIDE DEF Is
  <2> QED BY <1>1
<1>3. Kept(s, places) = kept[Len(s)]
  BY DEF Kept
<1> HIDE DEF kept
<1>4. \A k \in 0..Len(s) : kept[k] = Step(kept, k)
  BY <1>2, Zenon
<1>5. Good(kept[Len(s)], Len(s))
  <2> DEFINE T == {m \in 0..Len(s) : Good(kept[m], m)}
  <2>1. 0 \in T
    <3>1. kept[0] = <<>>
      BY <1>0, <1>4
    <3>2. Good(<<>>, 0)
      OBVIOUS
    <3> HIDE DEF Good
    <3> QED BY <1>0, <3>1, <3>2
  <2>2. ASSUME NEW m \in 0..(Len(s) - 1), m \in T PROVE m + 1 \in T
    <3>1. kept[m + 1] = IF m + 1 \in places THEN Append(kept[m], s[m + 1]) ELSE kept[m]
      <4>1. m + 1 \in 0..Len(s) /\ m + 1 # 0 /\ (m + 1) - 1 = m
        BY <1>0
      <4> QED BY <1>4, <4>1
    <3>2. Good(kept[m], m)
      BY <2>2
    <3>3. m + 1 \in 1..Len(s) /\ s[m + 1] \in A
      BY <1>0
    <3>4. CASE m + 1 \in places
      <4> DEFINE r == kept[m]  t == Append(r, s[m + 1])
      <4>1. /\ t \in Seq(A) /\ Len(t) = Len(r) + 1 /\ t[Len(r) + 1] = s[m + 1]
            /\ \A i \in 1..Len(r) : t[i] = r[i]
            /\ Len(r) \in Nat
        BY <3>2, <3>3
      <4>2. DOMAIN t = 1..(Len(r) + 1) /\ DOMAIN r = 1..Len(r)
        BY <3>2, <4>1
      <4> HIDE DEF r, t
      <4>3. ASSUME NEW i \in DOMAIN t PROVE \E k \in (1..(m + 1)) \cap places : t[i] = s[k]
        <5>1. CASE i = Len(r) + 1
          BY <3>4, <4>1, <5>1, <3>3
        <5>2. CASE i \in DOMAIN r
          <6>1. PICK k \in (1..m) \cap places : r[i] = s[k]
            BY <3>2, <5>2 DEF r
          <6> QED BY <4>1, <4>2, <5>2, <6>1
        <5> QED BY <4>1, <4>2, <5>1, <5>2
      <4>4. ASSUME NEW k \in (1..(m + 1)) \cap places PROVE \E i \in DOMAIN t : t[i] = s[k]
        <5>1. CASE k = m + 1
          <6>1. Len(r) + 1 \in DOMAIN t
            BY <4>1, <4>2
          <6> QED BY <4>1, <6>1, <5>1
        <5>2. CASE k \in 1..m
          <6>1. PICK i \in DOMAIN r : r[i] = s[k]
            BY <3>2, <5>2 DEF r
          <6>2. i \in DOMAIN t /\ t[i] = r[i]
            BY <4>1, <4>2
          <6> QED BY <6>1, <6>2
        <5> QED BY <5>1, <5>2
      <4>5. Good(t, m + 1)
        BY <4>1, <4>3, <4>4
      <4>6. kept[m + 1] = t
        BY <3>1, <3>4 DEF t, r
      <4> HIDE DEF Good
      <4> QED BY <4>5, <4>6, <3>3
    <3>5. CASE m + 1 \notin places
      <4>1. (1..(m + 1)) \cap places = (1..m) \cap places
        BY <3>5
      <4>2. Good(kept[m], m + 1)
        BY <3>2, <4>1
      <4> HIDE DEF Good
      <4> QED BY <3>1, <3>3, <3>5, <4>2
    <3> QED BY <3>4, <3>5
  <2> HIDE DEF T
  <2>3. \A k \in 0..Len(s) : k \in T
    BY <1>0, <2>1, <2>2, Climb
  <2>4. Len(s) \in T
    BY <1>0, <2>3
  <2> QED BY <2>4 DEF T
<1> QED BY <1>0, <1>3, <1>5 DEF Keeps

\* Two sequences end to end hold what each holds.
LEMMA BothHeld ==
  ASSUME NEW A, NEW s \in Seq(A), NEW t \in Seq(A)
  PROVE  /\ s \o t \in Seq(A)
         /\ Range(s) \subseteq Range(s \o t) /\ Range(t) \subseteq Range(s \o t)
<1>1. /\ s \o t \in Seq(A)
      /\ Len(s \o t) = Len(s) + Len(t) /\ Len(s) \in Nat /\ Len(t) \in Nat
      /\ \A k \in 1..Len(s) : (s \o t)[k] = s[k]
      /\ \A k \in 1..Len(t) : (s \o t)[Len(s) + k] = t[k]
  OBVIOUS
<1>2. DOMAIN (s \o t) = 1..(Len(s) + Len(t)) /\ DOMAIN s = 1..Len(s) /\ DOMAIN t = 1..Len(t)
  BY <1>1
<1>3. ASSUME NEW k \in DOMAIN s PROVE s[k] \in Range(s \o t)
  <2>1. k \in DOMAIN (s \o t) /\ (s \o t)[k] = s[k]
    BY <1>1, <1>2
  <2> QED BY <2>1 DEF Range
<1>4. ASSUME NEW k \in DOMAIN t PROVE t[k] \in Range(s \o t)
  <2>1. Len(s) + k \in DOMAIN (s \o t) /\ (s \o t)[Len(s) + k] = t[k]
    BY <1>1, <1>2
  <2> QED BY <2>1 DEF Range
<1> QED BY <1>1, <1>3, <1>4 DEF Range

\* The sequences of a sequence end to end hold what they hold.
LEMMA FlattenTyped ==
  ASSUME NEW A, NEW q \in Seq(Seq(A))
  PROVE  FlattenSeq(q) \in Seq(A) /\ \A i \in DOMAIN q : Range(q[i]) \subseteq Range(FlattenSeq(q))
<1> DEFINE Step(g, i) == IF i = 1 THEN q[i] ELSE g[i - 1] \o q[i]
           Is(g, m) == g = [i \in 1..m |-> Step(g, i)]
           flat == CHOOSE g : Is(g, Len(q))
<1>0. Len(q) \in Nat /\ DOMAIN q = 1..Len(q) /\ \A i \in 1..Len(q) : q[i] \in Seq(A)
  OBVIOUS
<1>1. \E g : Is(g, Len(q))
  <2> DEFINE T == {m \in Nat : \E g : Is(g, m)}
  <2>1. 0 \in T
    <3>1. Is([i \in 1..0 |-> <<>>], 0)
      OBVIOUS
    <3> QED BY <3>1
  <2>2. ASSUME NEW m \in 0..(Len(q) - 1), m \in T PROVE m + 1 \in T
    <3>1. PICK g : Is(g, m)
      BY <2>2
    <3> DEFINE h == [i \in 1..(m + 1) |-> IF i = m + 1 THEN Step(g, i) ELSE g[i]]
    <3>2. \A i \in 1..m : h[i] = g[i]
      OBVIOUS
    <3>3. \A i \in 1..(m + 1) : h[i] = Step(h, i)
      <4>1. ASSUME NEW i \in 1..(m + 1) PROVE Step(h, i) = Step(g, i)
        <5>1. i # 1 => i - 1 \in 1..m
          OBVIOUS
        <5>2. i # 1 => h[i - 1] = g[i - 1]
          BY <5>1, <3>2
        <5> HIDE DEF h
        <5> QED BY <5>2
      <4>2. ASSUME NEW i \in 1..(m + 1) PROVE h[i] = Step(g, i)
        <5>1. CASE i = m + 1
          BY <5>1
        <5>2. CASE i \in 1..m
          <6>1. g[i] = Step(g, i)
            BY <3>1, <5>2, Zenon
          <6> HIDE DEF Step
          <6> QED BY <6>1, <3>2, <5>2
        <5> QED BY <5>1, <5>2
      <4> QED BY <4>1, <4>2
    <3>4. Is(h, m + 1)
      <4>1. h = [i \in 1..(m + 1) |-> h[i]]
        OBVIOUS
      <4> HIDE DEF h, Step
      <4> QED BY <3>3, <4>1
    <3> HIDE DEF h, Is
    <3> QED BY <3>4
  <2> HIDE DEF T
  <2>3. \A k \in 0..Len(q) : k \in T
    BY <1>0, <2>1, <2>2, Climb
  <2>4. Len(q) \in T
    BY <1>0, <2>3
  <2> QED BY <2>4 DEF T
<1>2. Is(flat, Len(q))
  <2> HIDE DEF Is
  <2> QED BY <1>1
<1>3. FlattenSeq(q) = IF Len(q) = 0 THEN q ELSE flat[Len(q)]
  BY DEF FlattenSeq
<1> HIDE DEF flat
<1>4. \A i \in 1..Len(q) : flat[i] = Step(flat, i)
  BY <1>2, Zenon
<1>5. CASE Len(q) = 0
  BY <1>0, <1>3, <1>5 DEF Range
<1>6. CASE Len(q) # 0
  <2> DEFINE Good(m) == m = 0 \/ (flat[m] \in Seq(A) /\ \A i \in 1..m : Range(q[i]) \subseteq Range(flat[m]))
             T == {m \in 0..Len(q) : Good(m)}
  <2>1. 0 \in T
    BY <1>0
  <2>2. ASSUME NEW m \in 0..(Len(q) - 1), m \in T PROVE m + 1 \in T
    <3>1. m + 1 \in 1..Len(q) /\ (m + 1) - 1 = m
      BY <1>0
    <3>2. flat[m + 1] = IF m + 1 = 1 THEN q[m + 1] ELSE flat[m] \o q[m + 1]
      BY <1>4, <3>1
    <3>3. q[m + 1] \in Seq(A)
      BY <1>0, <3>1
    <3>4. Good(m)
      BY <2>2
    <3>5. CASE m = 0
      <4>1. flat[m + 1] = q[m + 1] /\ 1..(m + 1) = {m + 1}
        BY <3>2, <3>5
      <4>2. Good(m + 1)
        BY <3>3, <4>1
      <4> QED BY <3>1, <4>2
    <3>6. CASE m # 0
      <4> DEFINE r == flat[m]  t == q[m + 1]
      <4>1. r \in Seq(A) /\ t \in Seq(A) /\ \A i \in 1..m : Range(q[i]) \subseteq Range(r)
        BY <3>3, <3>4, <3>6
      <4>2. flat[m + 1] = r \o t /\ \A i \in 1..(m + 1) : i \in 1..m \/ q[i] = t
        <5>1. m \in Nat /\ m + 1 # 1
          BY <3>6
        <5>2. flat[m + 1] = r \o t
          BY <3>2, <5>1
        <5>3. \A i \in 1..(m + 1) : i \in 1..m \/ i = m + 1
          BY <5>1
        <5> QED BY <5>2, <5>3
      <4> HIDE DEF r, t
      <4>3. r \o t \in Seq(A) /\ Range(r) \subseteq Range(r \o t) /\ Range(t) \subseteq Range(r \o t)
        BY <4>1, BothHeld
      <4>4. Good(m + 1)
        BY <4>1, <4>2, <4>3
      <4> QED BY <3>1, <4>4
    <3> QED BY <3>5, <3>6
  <2> HIDE DEF T, Good
  <2>3. \A k \in 0..Len(q) : k \in T
    BY <1>0, <2>1, <2>2, Climb
  <2>4. Len(q) \in T
    BY <1>0, <2>3
  <2> QED BY <1>0, <1>3, <1>6, <2>4 DEF T, Good
<1> QED BY <1>5, <1>6

\* A finite set as a sequence of its elements.
LEMMA SetToSeqTyped ==
  ASSUME NEW S, IsFiniteSet(S)
  PROVE  SetToSeq(S) \in Seq(S) /\ \A x \in S : x \in Range(SetToSeq(S))
<1>1. Cardinality(S) \in Nat /\ ExistsBijection(1..Cardinality(S), S)
  BY FS_CountingElements, FS_NatBijection, FS_CardinalityType
<1>2. PICK f \in [1..Cardinality(S) -> S] : IsInjective(f)
  BY <1>1, Zenon DEF ExistsBijection, Bijection, Injection
<1> DEFINE N == 1..Cardinality(S)  g == SetToSeq(S)
<1>3. g \in [N -> S] /\ IsInjective(g)
  BY <1>2 DEF SetToSeq
<1>4. IsFiniteSet(N) /\ Cardinality(N) = Cardinality(S)
  BY <1>1, FS_Interval
<1> HIDE DEF g, N
<1>5. g \in Surjection(N, S)
  <2>1. g \in Injection(N, S)
    BY <1>3 DEF Injection
  <2> QED BY <1>4, <2>1, FS_Injection
<1>6. \A x \in S : x \in Range(g)
  BY <1>3, <1>5 DEF Surjection, Range
<1> QED BY <1>1, <1>3, <1>6 DEF g, N

-----------------------------------------------------------------------------
(* What a branch carries.                                                  *)

\* The reasons an update is held for.
Reasons == {"pluginRequired", "rollingMajor", "disabled", "approval", "age", "schedule"}

\* Updates as Decide leaves them.
Decidable(T) == \A u \in T : u.blocks \in Seq(Reasons) /\ u.automerge \in BOOLEAN

\* A branch of such updates.
BranchOf(T) == [members : Seq(T), suppressedBy : Reasons \cup {""}, heldWith : Reasons \cup {""}, automerge : BOOLEAN]

\* A branch nothing holds has no member that is held.
HeldByMembers(b) == b.suppressedBy = "" => \A k \in DOMAIN b.members : ~Blocked(b.members[k])

\* No branch has no member.
LEMMA NoBranchIs ==
  /\ \A T : NoBranch \in BranchOf(T)
  /\ HeldByMembers(NoBranch)
  /\ Range(NoBranch.members) = {}
<1>1. NoBranch.members = <<>>
  BY DEF NoBranch
<1>2. DOMAIN <<>> = {} /\ Range(<<>>) = {}
  BY DEF Range
<1>3. \A T : NoBranch \in BranchOf(T)
  BY DEF NoBranch, BranchOf
<1>4. HeldByMembers(NoBranch)
  BY <1>1, <1>2 DEF HeldByMembers
<1> QED BY <1>1, <1>2, <1>3, <1>4

\* The first reason of a held update.
LEMMA FirstReason ==
  ASSUME NEW u, u.blocks \in Seq(Reasons), Blocked(u)
  PROVE  u.blocks[1] \in Reasons /\ u.blocks[1] # ""
<1>1. u.blocks # <<>>
  BY DEF Blocked
<1>2. u.blocks[1] \in Reasons
  BY <1>1
<1>3. "" \notin Reasons
  BY DEF Reasons
<1> QED BY <1>2, <1>3

\* A member that joins.
LEMMA JoinTyped ==
  ASSUME NEW T, Decidable(T), NEW b \in BranchOf(T), NEW u \in T
  PROVE  /\ Join(b, u) \in BranchOf(T)
         /\ Join(b, u).suppressedBy = b.suppressedBy
         /\ HeldByMembers(b) /\ (b.suppressedBy = "" => ~Blocked(u)) => HeldByMembers(Join(b, u))
<1>1. b.members \in Seq(T) /\ u.automerge \in BOOLEAN /\ b.automerge \in BOOLEAN
  BY DEF BranchOf, Decidable
<1>2. Append(b.members, u) \in Seq(T) /\ (b.automerge /\ u.automerge) \in BOOLEAN
  BY <1>1
<1> DEFINE ms == Append(b.members, u)  am == b.automerge /\ u.automerge
<1>3. Join(b, u) = [b EXCEPT !.members = ms, !.automerge = am]
  BY DEF Join
<1>4. \A k \in DOMAIN ms : ms[k] = u \/ (k \in DOMAIN b.members /\ ms[k] = b.members[k])
  BY <1>1
<1>5. ms \in Seq(T) /\ am \in BOOLEAN
  BY <1>2
<1> HIDE DEF ms, am
<1>6. Join(b, u) \in BranchOf(T) /\ Join(b, u).suppressedBy = b.suppressedBy /\ Join(b, u).members = ms
  BY <1>3, <1>5 DEF BranchOf
<1> QED BY <1>4, <1>6 DEF HeldByMembers

\* What a member does to a branch.
LEMMA AddMemberTyped ==
  ASSUME NEW T, Decidable(T), NEW b \in BranchOf(T), HeldByMembers(b), NEW u \in T
  PROVE  AddMember(b, u) \in BranchOf(T) /\ HeldByMembers(AddMember(b, u))
<1> DEFINE level == BranchLevelBlock(u)
<1>0. u.blocks \in Seq(Reasons) /\ u.automerge \in BOOLEAN
  BY DEF Decidable
<1>1. level \in Reasons \cup {""}
  <2> DEFINE at == {k \in DOMAIN u.blocks : u.blocks[k] \in {"schedule", "approval"}}
  <2>1. CASE at = {}
    BY <2>1 DEF BranchLevelBlock
  <2>2. CASE at # {}
    <3>1. at \subseteq Nat
      BY <1>0
    <3>2. PICK m \in at : \A x \in at : m <= x
      BY <2>2, <3>1, LeastExists
    <3>3. \A k \in at : u.blocks[k] \in Reasons
      BY DEF Reasons
    <3>4. level = u.blocks[Min(at)]
      BY <2>2 DEF BranchLevelBlock
    <3> HIDE DEF at, level
    <3>5. Min(at) \in at
      BY <3>2 DEF Min
    <3> QED BY <3>3, <3>4, <3>5
  <2> QED BY <2>1, <2>2
<1> HIDE DEF level
<1>2. CASE b = NoBranch
  <2> DEFINE why == IF Blocked(u) THEN u.blocks[1] ELSE ""
             new == [members |-> <<u>>, suppressedBy |-> why, heldWith |-> "", automerge |-> u.automerge]
  <2>1. AddMember(b, u) = new
    BY <1>2 DEF AddMember
  <2>2. why \in Reasons \cup {""} /\ (Blocked(u) => why # "")
    BY <1>0, FirstReason
  <2>3. <<u>> \in Seq(T) /\ \A k \in DOMAIN <<u>> : <<u>>[k] = u
    OBVIOUS
  <2> HIDE DEF why
  <2>4. new \in BranchOf(T) /\ new.members = <<u>> /\ new.suppressedBy = why
    BY <1>0, <2>2, <2>3 DEF BranchOf
  <2> HIDE DEF new
  <2> QED BY <2>1, <2>2, <2>3, <2>4 DEF HeldByMembers
<1>3. CASE b # NoBranch
  <2> DEFINE held == [Join(b, u) EXCEPT !.suppressedBy = level, !.heldWith = level]
  <2>1. Join(b, u) \in BranchOf(T)
    BY JoinTyped
  <2>2. \/ AddMember(b, u) = b
        \/ AddMember(b, u) = Join(b, u) /\ (Blocked(u) => b.suppressedBy # "")
        \/ AddMember(b, u) = held /\ level # ""
    BY <1>3 DEF AddMember, level
  <2>3. level # "" => held \in BranchOf(T) /\ held.suppressedBy = level
    BY <1>1, <2>1 DEF BranchOf
  <2>4. Join(b, u).suppressedBy = b.suppressedBy
        /\ ((b.suppressedBy = "" => ~Blocked(u)) => HeldByMembers(Join(b, u)))
    BY JoinTyped
  <2>5. level # "" => HeldByMembers(held)
    BY <2>3 DEF HeldByMembers
  <2> HIDE DEF held
  <2> QED BY <2>1, <2>2, <2>3, <2>4, <2>5
<1> QED BY <1>2, <1>3

\* A member that joins is held by the branch with those it had.
LEMMA AddMemberHolds ==
  ASSUME NEW T, Decidable(T), NEW b \in BranchOf(T), NEW u \in T
  PROVE  /\ Range(b.members) \subseteq Range(AddMember(b, u).members)
         /\ ~Blocked(u) => u \in Range(AddMember(b, u).members)
         /\ (\A w \in T : Blocked(w)) /\ (b = NoBranch \/ b.suppressedBy # "")
              => u \in Range(AddMember(b, u).members) /\ AddMember(b, u).suppressedBy # ""
<1>1. b.members \in Seq(T)
  BY DEF BranchOf
<1> DEFINE ms == Append(b.members, u)
<1>2. Range(b.members) \subseteq Range(ms) /\ u \in Range(ms)
  <2>1. Len(ms) = Len(b.members) + 1 /\ ms[Len(b.members) + 1] = u /\ Len(b.members) \in Nat
        /\ \A k \in 1..Len(b.members) : ms[k] = b.members[k]
    BY <1>1
  <2>2. DOMAIN ms = 1..(Len(b.members) + 1) /\ DOMAIN b.members = 1..Len(b.members)
    BY <1>1, <2>1
  <2> HIDE DEF ms
  <2>3. ASSUME NEW k \in DOMAIN b.members PROVE b.members[k] \in Range(ms)
    <3>1. k \in DOMAIN ms /\ ms[k] = b.members[k]
      BY <2>1, <2>2
    <3> QED BY <3>1 DEF Range
  <2>4. u \in Range(ms)
    <3>1. Len(b.members) + 1 \in DOMAIN ms
      BY <2>1, <2>2
    <3> QED BY <2>1, <3>1 DEF Range
  <2> QED BY <2>3, <2>4 DEF Range
<1>3. Join(b, u).members = ms /\ Join(b, u).suppressedBy = b.suppressedBy
  BY DEF Join, BranchOf
<1> HIDE DEF ms
<1>4. CASE b = NoBranch
  <2> DEFINE why == IF Blocked(u) THEN u.blocks[1] ELSE ""
             new == [members |-> <<u>>, suppressedBy |-> why, heldWith |-> "", automerge |-> u.automerge]
  <2>1. AddMember(b, u) = new
    BY <1>4 DEF AddMember
  <2>2. Blocked(u) => why # ""
    BY FirstReason DEF Decidable
  <2>3. new.members = <<u>> /\ new.suppressedBy = why
    OBVIOUS
  <2> HIDE DEF why, new
  <2>4. u \in Range(<<u>>)
    <3>1. 1 \in DOMAIN <<u>> /\ <<u>>[1] = u
      OBVIOUS
    <3> QED BY <3>1 DEF Range
  <2>5. Range(b.members) = {}
    BY <1>4, NoBranchIs
  <2> QED BY <2>1, <2>2, <2>3, <2>4, <2>5
<1>5. CASE b # NoBranch
  <2> DEFINE level == BranchLevelBlock(u)
             held == [Join(b, u) EXCEPT !.suppressedBy = level, !.heldWith = level]
  <2>1. (\A w \in T : Blocked(w)) => ~CarriesSecurityRefresh(b.members)
    BY <1>1 DEF CarriesSecurityRefresh
  <2>2. /\ \/ AddMember(b, u) = b
           \/ AddMember(b, u) = Join(b, u)
           \/ AddMember(b, u) = held
        /\ ~Blocked(u) => AddMember(b, u) = Join(b, u)
        /\ ~CarriesSecurityRefresh(b.members) /\ b.suppressedBy # "" => AddMember(b, u) = Join(b, u)
    BY <1>5 DEF AddMember
  <2>3. held.members = ms
    BY <1>3 DEF Join, BranchOf
  <2> HIDE DEF held
  <2> QED BY <1>2, <1>3, <1>5, <2>1, <2>2, <2>3
<1> QED BY <1>4, <1>5

\* The members one after the other.
Gathered(q) == FoldLeft(AddMember, NoBranch, q)

\* What no member leaves holds in the end, and so does what one member brings.
LEMMA GatheredStays ==
  ASSUME NEW T, NEW q \in Seq(T), NEW S, NEW x, NEW R,
         NoBranch \in S, \A c \in S : \A u \in T : AddMember(c, u) \in S,
         \A c \in S : AddMember(c, x) \in R, \A c \in S \cap R : \A u \in T : AddMember(c, u) \in R
  PROVE  Gathered(q) \in S /\ (x \in Range(q) => Gathered(q) \in R)
<1> DEFINE Step(g, s) == IF s = {} THEN NoBranch ELSE LET y == Max(s) IN AddMember(g[s \ {y}], q[y])
           Is(g, m) == g = [s \in SUBSET (1..m) |-> Step(g, s)]
           iter == CHOOSE g : g = [s \in SUBSET DOMAIN q |-> Step(g, s)]
<1>1. Len(q) \in Nat /\ DOMAIN q = 1..Len(q) /\ \A y \in 1..Len(q) : q[y] \in T
  OBVIOUS
<1>3. Gathered(q) = iter[DOMAIN q]
  BY DEF Gathered, FoldLeft, MapThenFoldSet
<1>5. ASSUME NEW m \in Nat, NEW s \in SUBSET (1..m), s # {}
      PROVE  Max(s) \in s /\ s \ {Max(s)} \in SUBSET (1..(Max(s) - 1))
  <2>1. IsFiniteSet(1..m)
    BY FS_Interval
  <2>2. IsFiniteSet(s) /\ s \subseteq Nat
    <3>1. s \subseteq Nat
      OBVIOUS
    <3> QED BY <2>1, <3>1, FS_Subset, Zenon
  <2>3. PICK z \in s : \A y \in s : y <= z
    BY <1>5, <2>2, GreatestExists
  <2>4. \A y \in s : z >= y
    BY <2>2, <2>3
  <2>5. Max(s) \in s /\ \A y \in s : Max(s) >= y
    BY <2>4 DEF Max
  <2> DEFINE top == Max(s)
  <2> HIDE DEF top
  <2>6. top \in s /\ \A y \in s : top >= y
    BY <2>5 DEF top
  <2>7. s \ {top} \in SUBSET (1..(top - 1))
    BY <2>6
  <2> QED BY <2>6, <2>7 DEF top
<1>6. \E g : Is(g, Len(q))
  <2> DEFINE N == {m \in Nat : \E g : Is(g, m)}
  <2>1. 0 \in N
    <3> DEFINE g == [s \in SUBSET (1..0) |-> NoBranch]
    <3>1. \A s \in SUBSET (1..0) : s = {}
      OBVIOUS
    <3>2. \A s \in SUBSET (1..0) : Step(g, s) = NoBranch
      BY <3>1
    <3> HIDE DEF Step
    <3>3. g = [s \in SUBSET (1..0) |-> Step(g, s)]
      BY <3>2
    <3> QED BY <3>3
  <2>2. ASSUME NEW m \in 0..(Len(q) - 1), m \in N PROVE m + 1 \in N
    <3>1. PICK g : Is(g, m)
      BY <2>2
    <3> DEFINE h == [s \in SUBSET (1..(m + 1)) |-> IF s \in SUBSET (1..m) THEN g[s] ELSE Step(g, s)]
    <3>2. \A s \in SUBSET (1..m) : s \in SUBSET (1..(m + 1)) /\ h[s] = g[s]
      OBVIOUS
    <3>3. \A s \in SUBSET (1..(m + 1)) : s # {} => s \ {Max(s)} \in SUBSET (1..m)
      <4> SUFFICES ASSUME NEW s \in SUBSET (1..(m + 1)), s # {} PROVE s \ {Max(s)} \in SUBSET (1..m)
        OBVIOUS
      <4>1. Max(s) \in s /\ s \ {Max(s)} \in SUBSET (1..(Max(s) - 1))
        <5>1. m + 1 \in Nat
          OBVIOUS
        <5> QED BY <1>5, <5>1
      <4> DEFINE top == Max(s)
      <4> HIDE DEF top
      <4>2. top \in s /\ s \ {top} \in SUBSET (1..(top - 1))
        BY <4>1 DEF top
      <4>3. s \ {top} \in SUBSET (1..m)
        BY <4>2
      <4> QED BY <4>3 DEF top
    <3>4. \A s \in SUBSET (1..(m + 1)) : Step(h, s) = Step(g, s)
      <4>1. \A s \in SUBSET (1..(m + 1)) : s # {} => h[s \ {Max(s)}] = g[s \ {Max(s)}]
        BY <3>2, <3>3
      <4> HIDE DEF h
      <4> QED BY <4>1
    <3>5. \A s \in SUBSET (1..m) : g[s] = Step(g, s)
      BY <3>1, Zenon
    <3> HIDE DEF Step
    <3>6. \A s \in SUBSET (1..(m + 1)) : h[s] = Step(h, s)
      BY <3>2, <3>4, <3>5
    <3>7. h = [s \in SUBSET (1..(m + 1)) |-> h[s]]
      OBVIOUS
    <3> HIDE DEF h
    <3>8. Is(h, m + 1)
      BY <3>6, <3>7
    <3> HIDE DEF Is
    <3> QED BY <3>8
  <2> HIDE DEF N
  <2>3. \A k \in 0..Len(q) : k \in N
    BY <1>1, <2>1, <2>2, Climb
  <2>4. Len(q) \in N
    BY <1>1, <2>3
  <2> QED BY <2>4 DEF N
<1>7. \A s \in SUBSET (1..Len(q)) : iter[s] = Step(iter, s)
  <2> HIDE DEF Step
  <2>1. \E g : g = [s \in SUBSET DOMAIN q |-> Step(g, s)]
    BY <1>1, <1>6
  <2>2. iter = [s \in SUBSET DOMAIN q |-> Step(iter, s)]
    BY <2>1
  <2> HIDE DEF iter
  <2> QED BY <1>1, <2>2, Zenon
<1> HIDE DEF iter
<1> DEFINE at(k) == iter[1..k]
<1>8. at(0) = NoBranch /\ \A k \in 1..Len(q) : at(k) = AddMember(at(k - 1), q[k])
  <2>1. 1..0 = {} /\ 1..0 \in SUBSET (1..Len(q))
    BY <1>1
  <2>2. at(0) = NoBranch
    BY <1>7, <2>1
  <2>3. ASSUME NEW k \in 1..Len(q) PROVE at(k) = AddMember(at(k - 1), q[k])
    <3>1. 1..k \in SUBSET (1..Len(q)) /\ 1..k # {} /\ k \in Nat
      <4>1. k \in Nat /\ k \in 1..k
        BY <1>1
      <4>2. \A y \in 1..k : y \in 1..Len(q)
        BY <1>1
      <4> QED BY <4>1, <4>2
    <3> DEFINE top == Max(1..k)
    <3>2. top \in 1..k /\ (1..k) \ {top} \in SUBSET (1..(top - 1))
      BY <1>5, <3>1
    <3>3. iter[1..k] = AddMember(iter[(1..k) \ {top}], q[top])
      BY <1>7, <3>1
    <3> HIDE DEF top
    <3>4. top = k
      <4>1. k \in 1..k
        BY <3>1
      <4>2. k = top \/ k \in 1..(top - 1)
        BY <3>2, <4>1
      <4> QED BY <3>1, <3>2, <4>2
    <3>5. (1..k) \ {k} = 1..(k - 1)
      BY <3>1
    <3> QED BY <3>3, <3>4, <3>5
  <2> QED BY <2>2, <2>3
<1> HIDE DEF at
<1>9. ASSUME NEW p \in 0..Len(q), p = 0 \/ q[p] = x PROVE at(Len(q)) \in S /\ (p # 0 => at(Len(q)) \in R)
  <2> DEFINE N == {m \in 0..Len(q) : at(m) \in S /\ (p # 0 /\ p <= m => at(m) \in R)}
  <2>1. 0 \in N
    BY <1>1, <1>8, <1>9
  <2>2. ASSUME NEW m \in 0..(Len(q) - 1), m \in N PROVE m + 1 \in N
    <3>1. m + 1 \in 1..Len(q) /\ (m + 1) - 1 = m /\ m + 1 \in 0..Len(q)
      BY <1>1
    <3>2. at(m + 1) = AddMember(at(m), q[m + 1]) /\ q[m + 1] \in T
      BY <1>1, <1>8, <3>1
    <3>3. at(m) \in S /\ (p # 0 /\ p <= m => at(m) \in R)
      BY <2>2
    <3>4. p <= m + 1 => p <= m \/ p = m + 1
      BY <1>1
    <3> QED BY <1>9, <3>1, <3>2, <3>3, <3>4
  <2> HIDE DEF N
  <2>3. \A k \in 0..Len(q) : k \in N
    BY <1>1, <2>1, <2>2, Climb
  <2>4. Len(q) \in N
    BY <1>1, <2>3
  <2> QED BY <1>1, <2>4 DEF N
<1>10. Gathered(q) = at(Len(q))
  BY <1>1, <1>3 DEF at
<1>11. 0 \in 0..Len(q)
  BY <1>1
<1>12. ASSUME x \in Range(q) PROVE \E p \in 0..Len(q) : p # 0 /\ q[p] = x
  <2>1. PICK p \in DOMAIN q : q[p] = x
    BY <1>12 DEF Range
  <2> QED BY <1>1, <2>1
<1> QED BY <1>9, <1>10, <1>11, <1>12

\* A set that no member leaves holds what is gathered.
LEMMA GatheredWithin ==
  ASSUME NEW T, NEW q \in Seq(T), NEW S, NoBranch \in S, \A c \in S : \A u \in T : AddMember(c, u) \in S
  PROVE  Gathered(q) \in S
<1> DEFINE R(x) == S \cup {AddMember(c, x) : c \in S}
<1>1. \A x : /\ \A c \in S : AddMember(c, x) \in R(x)
             /\ \A c \in S \cap R(x) : \A u \in T : AddMember(c, u) \in R(x)
  OBVIOUS
<1> HIDE DEF R
<1>2. \A x : Gathered(q) \in S /\ (x \in Range(q) => Gathered(q) \in R(x))
  <2> SUFFICES ASSUME NEW x PROVE Gathered(q) \in S /\ (x \in Range(q) => Gathered(q) \in R(x))
    OBVIOUS
  <2>1. \A c \in S : AddMember(c, x) \in R(x)
    BY <1>1
  <2>2. \A c \in S \cap R(x) : \A u \in T : AddMember(c, u) \in R(x)
    BY <1>1
  <2> QED BY <2>1, <2>2, GatheredStays
<1> QED BY <1>2

\* Nothing is lost by putting what acts first.
LEMMA FirstHolds ==
  ASSUME NEW T, NEW us \in Seq(T)
  PROVE  ActionableFirst(us) \in Seq(T) /\ Range(us) \subseteq Range(ActionableFirst(us))
<1> DEFINE blocked == {k \in DOMAIN us : Blocked(us[k])}
           s == Kept(us, DOMAIN us \ blocked)  t == Kept(us, blocked)
<1>1. /\ s \in Seq(T) /\ t \in Seq(T)
      /\ Keeps(us, DOMAIN us \ blocked, s) /\ Keeps(us, blocked, t)
  <2> HIDE DEF blocked
  <2> QED BY KeptElements
<1>2. ActionableFirst(us) = s \o t
  BY DEF ActionableFirst
<1>3. \A k \in DOMAIN us : us[k] \in Range(s) \cup Range(t)
  <2>1. \A k \in DOMAIN us : k \in DOMAIN us \ blocked \/ k \in blocked
    OBVIOUS
  <2> HIDE DEF blocked, s, t
  <2> QED BY <1>1, <2>1 DEF Keeps, Range
<1> HIDE DEF s, t
<1>4. s \o t \in Seq(T) /\ Range(s) \subseteq Range(s \o t) /\ Range(t) \subseteq Range(s \o t)
  BY <1>1, BothHeld
<1> QED BY <1>2, <1>3, <1>4 DEF Range

\* So a composed branch is one.
LEMMA ComposeTyped ==
  ASSUME NEW T, Decidable(T), NEW us \in Seq(T)
  PROVE  Compose(us) \in BranchOf(T) /\ HeldByMembers(Compose(us))
<1> DEFINE first == ActionableFirst(us)
           q == OneUpdatePerDependency(first)
           S == {b \in BranchOf(T) : HeldByMembers(b)}
<1>1. first \in Seq(T)
  BY FirstHolds
<1>2. q \in Seq(T)
  <2> HIDE DEF first
  <2> QED BY <1>1, KeptElements DEF OneUpdatePerDependency
<1>3. Compose(us) = Gathered(q)
  BY DEF Compose, Gathered
<1> HIDE DEF q
<1>4. NoBranch \in S /\ \A c \in S : \A u \in T : AddMember(c, u) \in S
  BY AddMemberTyped, NoBranchIs
<1> HIDE DEF S
<1>5. Gathered(q) \in S
  BY <1>2, <1>4, GatheredWithin
<1> QED BY <1>3, <1>5 DEF S

\* Some update of a dependency is left: the one asked about, or one that acts.
LEMMA OneIsLeft ==
  ASSUME NEW T, NEW us \in Seq(T), NEW u \in Range(us)
  PROVE  /\ OneUpdatePerDependency(us) \in Seq(T)
         /\ \E w \in Range(OneUpdatePerDependency(us)) : w \in T /\ w.dep = u.dep /\ (w = u \/ ~Blocked(w))
<1> DEFINE Beaten(i) == \E j \in DOMAIN us : /\ Ranked(us[j]) /\ us[j].dep = us[i].dep
                                             /\ \/ Rank(us[j].type) > Rank(us[i].type)
                                                \/ Rank(us[j].type) = Rank(us[i].type) /\ j < i
           places == {i \in DOMAIN us : Ranked(us[i]) => ~Beaten(i)}
<1>1. OneUpdatePerDependency(us) = Kept(us, places)
  BY DEF OneUpdatePerDependency
<1>2. places \subseteq DOMAIN us /\ DOMAIN us \subseteq Nat /\ \A k \in DOMAIN us : us[k] \in T
  OBVIOUS
<1>3. PICK i \in DOMAIN us : us[i] = u
  BY DEF Range
<1>4. \E k \in places : us[k].dep = u.dep /\ (us[k] = u \/ ~Blocked(us[k]))
  <2>1. CASE i \in places
    BY <1>3, <2>1
  <2>2. CASE i \notin places
    <3> DEFINE C == {j \in DOMAIN us : Ranked(us[j]) /\ us[j].dep = u.dep}
               ranks == {Rank(us[j].type) : j \in C}
    <3>1. C # {}
      BY <1>3, <2>2
    <3>2. ranks \subseteq 0..3
      BY DEF Rank
    <3>3. IsFiniteSet(ranks) /\ ranks \subseteq Nat /\ ranks # {}
      <4>1. IsFiniteSet(0..3)
        <5>1. 0 \in Int /\ 3 \in Int
          OBVIOUS
        <5> QED BY <5>1, FS_Interval, Zenon
      <4>0. 0..3 \subseteq Nat
        OBVIOUS
      <4>2. ranks # {}
        BY <3>1
      <4> HIDE DEF ranks
      <4> QED BY <3>2, <4>0, <4>1, <4>2, FS_Subset
    <3>4. PICK g \in ranks : \A x \in ranks : x <= g
      <4> HIDE DEF ranks
      <4> QED BY <3>3, GreatestExists
    <3> DEFINE best == {j \in C : Rank(us[j].type) = g}
    <3>5. best # {} /\ best \subseteq Nat
      BY <3>4, <1>2
    <3>6. PICK k \in best : \A x \in best : k <= x
      <4> HIDE DEF best
      <4> QED BY <3>5, LeastExists
    <3>7. k \in DOMAIN us /\ Ranked(us[k]) /\ us[k].dep = u.dep /\ Rank(us[k].type) = g
      BY <3>6
    <3>8. ~Beaten(k)
      <4> SUFFICES ASSUME NEW j \in DOMAIN us, Ranked(us[j]), us[j].dep = us[k].dep,
                          Rank(us[j].type) > g \/ (Rank(us[j].type) = g /\ j < k)
                   PROVE  FALSE
        BY <3>7
      <4>1. j \in C /\ Rank(us[j].type) \in ranks
        BY <3>7
      <4>2. Rank(us[j].type) <= g /\ g \in Nat /\ Rank(us[j].type) \in Nat
        <5> HIDE DEF C, ranks
        <5> QED BY <3>3, <3>4, <4>1
      <4>3. j \in best
        BY <4>1, <4>2
      <4>4. k <= j /\ k \in Nat /\ j \in Nat
        BY <1>2, <3>6, <3>7, <4>3
      <4> QED BY <4>2, <4>4
    <3>9. ~Blocked(us[k])
      BY <3>7 DEF Ranked
    <3> HIDE DEF Beaten
    <3> QED BY <3>7, <3>8, <3>9
  <2> QED BY <2>1, <2>2
<1>5. PICK k \in places : us[k].dep = u.dep /\ (us[k] = u \/ ~Blocked(us[k]))
  BY <1>4
<1> HIDE DEF places
<1>6. Kept(us, places) \in Seq(T) /\ Keeps(us, places, Kept(us, places))
  BY KeptElements
<1>7. us[k] \in Range(Kept(us, places)) /\ us[k] \in T
  BY <1>2, <1>5, <1>6 DEF Keeps, Range
<1> QED BY <1>1, <1>5, <1>6, <1>7

\* A branch carries every dependency with an update that acts, and every one
\* of the plan when none acts.
LEMMA ComposeCarries ==
  ASSUME NEW T, Decidable(T), NEW us \in Seq(T), NEW u \in Range(us), ~Blocked(u) \/ \A w \in T : Blocked(w)
  PROVE  \E w \in Range(Compose(us).members) : w.dep = u.dep
<1> DEFINE first == ActionableFirst(us)
           q == OneUpdatePerDependency(first)
           S == {b \in BranchOf(T) : HeldByMembers(b)}
<1>1. first \in Seq(T) /\ u \in Range(first)
  BY FirstHolds
<1> HIDE DEF first
<1>2. q \in Seq(T) /\ \E w \in Range(q) : w \in T /\ w.dep = u.dep /\ (w = u \/ ~Blocked(w))
  BY <1>1, OneIsLeft
<1>3. PICK w \in Range(q) : w \in T /\ w.dep = u.dep /\ (w = u \/ ~Blocked(w))
  BY <1>2
<1>4. Compose(us) = Gathered(q)
  BY DEF Compose, Gathered, first
<1> HIDE DEF q
<1> DEFINE R == {b \in BranchOf(T) : w \in Range(b.members)}
<1>5. NoBranch \in S /\ \A c \in S : \A x \in T : AddMember(c, x) \in S
  <2>1. NoBranch \in BranchOf(T)
    <3>1. <<>> \in Seq(T) /\ "" \in Reasons \cup {""}
      OBVIOUS
    <3> QED BY <3>1 DEF NoBranch, BranchOf
  <2>2. HeldByMembers(NoBranch)
    BY DEF NoBranch, HeldByMembers
  <2> QED BY <2>1, <2>2, AddMemberTyped
<1>6. \A c \in S : \A x \in T : AddMember(c, x) \in BranchOf(T) /\ Range(c.members) \subseteq Range(AddMember(c, x).members)
  BY <1>5, AddMemberHolds
<1>7. CASE ~Blocked(w)
  <2>1. \A c \in S : AddMember(c, w) \in R
    BY <1>3, <1>6, <1>7, AddMemberHolds
  <2>2. \A c \in S \cap R : \A x \in T : AddMember(c, x) \in R
    BY <1>6
  <2> HIDE DEF S, R
  <2>3. Gathered(q) \in R
    BY <1>2, <1>3, <1>5, <2>1, <2>2, GatheredStays
  <2> QED BY <1>3, <1>4, <2>3 DEF R
<1>8. CASE \A x \in T : Blocked(x)
  <2> DEFINE S2 == {b \in S : b = NoBranch \/ b.suppressedBy # ""}
  <2>1. NoBranch \in S2 /\ \A c \in S2 : \A x \in T : AddMember(c, x) \in S2
    BY <1>5, <1>8, AddMemberHolds
  <2>2. \A c \in S2 : AddMember(c, w) \in R
    BY <1>3, <1>6, <1>8, AddMemberHolds
  <2>3. \A c \in S2 \cap R : \A x \in T : AddMember(c, x) \in R
    BY <1>6
  <2> HIDE DEF S2, R, S
  <2>4. Gathered(q) \in R
    BY <1>2, <1>3, <2>1, <2>2, <2>3, GatheredStays
  <2> QED BY <1>3, <1>4, <2>4 DEF R
<1> QED BY <1>3, <1>7, <1>8

-----------------------------------------------------------------------------
(* What the planner offers.                                                *)

\* A reason to plan nothing offers nothing.
LEMMA NothingOffered ==
  ASSUME NEW why
  PROVE  IsFiniteSet(Skip(why).ups) /\ IsFiniteSet(Warned(why).ups) /\ Skip(why).ups = {} /\ Warned(why).ups = {}
BY FS_EmptySet DEF Skip, Warned

\* An offer of one update, and of none or one.
LEMMA OneOffered ==
  ASSUME NEW u, NEW d, NEW from, NEW r
  PROVE  IsFiniteSet(Offer({u}).ups) /\ IsFiniteSet(Build(d, from, r))
<1>1. Offer({u}).ups = {u}
  BY DEF Offer
<1>2. Build(d, from, r) = {} \/ Build(d, from, r) = {BuildUpdate(d, from, r)}
  BY DEF Build
<1>3. IsFiniteSet({u}) /\ IsFiniteSet({BuildUpdate(d, from, r)}) /\ IsFiniteSet({})
  BY FS_EmptySet, FS_Singleton, Zenon
<1> QED BY <1>1, <1>2, <1>3, Zenon

\* A digest that moved is one update.
LEMMA RefreshFinite ==
  ASSUME NEW d, NEW tag, NEW digests
  PROVE  IsFiniteSet(DigestRefresh(d, tag, digests).ups)
<1> DEFINE one == {DigestUpdate(d, d.cur, digests[tag], "digest")}
<1>1. [Offer(one) EXCEPT !.warn = ReleasedTag(tag)].ups = one
  BY DEF Offer
<1>2. IsFiniteSet(one)
  BY FS_Singleton
<1> HIDE DEF one
<1> QED BY <1>1, <1>2, NothingOffered DEF DigestRefresh, one

\* A dependency that only tracks a digest has at most one.
LEMMA DigestOnlyFinite ==
  ASSUME NEW d, NEW digests
  PROVE  IsFiniteSet(DigestOnly(d, digests).ups)
BY NothingOffered, OneOffered, RefreshFinite DEF DigestOnly, PinDigest

\* The finitely many updates with their digests.
LEMMA WithDigestsFinite ==
  ASSUME NEW d, NEW ups, IsFiniteSet(ups), NEW base, NEW digests
  PROVE  IsFiniteSet(WithDigests(d, ups, base, digests).ups)
<1> DEFINE kept == WithDigest(ups, digests)
           known == {u \in kept : u.digest /= 0}
           refresh == DigestRefresh(d, base, digests)
<1>1. IsFiniteSet(kept)
  <2> DEFINE f == [u \in ups |-> IF u.digest /= 0 THEN u ELSE [u EXCEPT !.digest = digests[u.value]]]
  <2>1. f \in Surjection(ups, kept)
    BY DEF WithDigest, Surjection
  <2> QED BY <2>1, FS_Surjection
<1>2. IsFiniteSet(known)
  <2>1. known \subseteq kept
    OBVIOUS
  <2> HIDE DEF known, kept
  <2> QED BY <1>1, <2>1, FS_Subset, Zenon
<1>3. WithDigests(d, ups, base, digests) = KeptOr(kept, known, refresh)
  BY DEF WithDigests
<1> HIDE DEF kept, known
<1>4. \/ KeptOr(kept, known, refresh) = [Offer(known) EXCEPT !.warn = known /= kept]
      \/ KeptOr(kept, known, refresh) = Behind(refresh)
      \/ KeptOr(kept, known, refresh) = refresh
  BY DEF KeptOr
<1>5. [Offer(known) EXCEPT !.warn = known /= kept].ups = known
  BY DEF Offer
<1>6. Behind(refresh).ups = refresh.ups
  <2> DEFINE plain(us, why, warn) == [ups |-> us, skip |-> why, warn |-> warn]
  <2>1. \A us, why, warn : Behind(plain(us, why, warn)).ups = us
    BY DEF Behind
  <2>2. \E us, why, warn : refresh = plain(us, why, warn)
    BY DEF DigestRefresh, Warned, Skip, Offer
  <2>3. \A us, why, warn : plain(us, why, warn).ups = us
    OBVIOUS
  <2> HIDE DEF refresh, plain
  <2> QED BY <2>1, <2>2, <2>3
<1>7. IsFiniteSet(refresh.ups)
  BY RefreshFinite
<1> HIDE DEF refresh
<1> QED BY <1>2, <1>3, <1>4, <1>5, <1>6, <1>7

\* At most one update per bucket, and one for the floor.
LEMMA OrdinaryFinite ==
  ASSUME NEW d, NEW R, NEW base, NEW now
  PROVE  IsFiniteSet(Distinct(Ordinary(d, R, base, now)))
<1> DEFINE free == {r \in Newer(d, R, base) : Allowed(d, r.version)}
           buckets == Buckets(d, base, free)
           waived == AgeWaived(d, buckets, now)
           Of(rs) == {[u EXCEPT !.waived = waived] : u \in Build(d, base, Top(d, R, Bucket(d, rs, now)))}
<1>1. ASSUME NEW rs PROVE IsFiniteSet(Of(rs))
  <2> DEFINE r == Top(d, R, Bucket(d, rs, now))
  <2>1. Build(d, base, r) = {} \/ Build(d, base, r) = {BuildUpdate(d, base, r)}
    BY DEF Build
  <2> HIDE DEF r, waived
  <2>2. Of(rs) = {} \/ Of(rs) = {[BuildUpdate(d, base, r) EXCEPT !.waived = waived]}
    BY <2>1 DEF r
  <2>3. IsFiniteSet({[BuildUpdate(d, base, r) EXCEPT !.waived = waived]}) /\ IsFiniteSet({})
    BY FS_EmptySet, FS_Singleton, Zenon
  <2> QED BY <2>2, <2>3, Zenon
<1>2. NewestOf(d, R, base, buckets, now) \subseteq Of(Others(d, base, free)) \cup Of(Majors(d, base, free))
  BY DEF NewestOf, Buckets
<1> HIDE DEF Of
<1>3. IsFiniteSet(Of(Others(d, base, free)) \cup Of(Majors(d, base, free)))
  BY <1>1, FS_Union
<1>4. IsFiniteSet(NewestOf(d, R, base, buckets, now))
  BY <1>2, <1>3, FS_Subset, Zenon
<1>5. IsFiniteSet(FloorBump(d, R, base))
  BY OneOffered, FS_EmptySet DEF FloorBump
<1>6. Ordinary(d, R, base, now) = FloorBump(d, R, base) \cup NewestOf(d, R, base, buckets, now)
  BY DEF Ordinary
<1> HIDE DEF buckets
<1>7. IsFiniteSet(Ordinary(d, R, base, now))
  BY <1>4, <1>5, <1>6, FS_Union
<1>8. Distinct(Ordinary(d, R, base, now)) \subseteq Ordinary(d, R, base, now)
  BY DEF Distinct
<1> QED BY <1>7, <1>8, FS_Subset, Zenon

\* One dependency has finitely many updates.
LEMMA PlanFinite ==
  ASSUME NEW d, NEW answer, NEW digests, NEW now
  PROVE  IsFiniteSet(PlanOne(d, answer, digests, now).ups)
<1> DEFINE R == answer.releases  base == Base(d, R)
           ups == Distinct(Ordinary(d, R, base, now))
<1>1. IsFiniteSet(SecurityFix(d, R, base).ups)
  BY NothingOffered, OneOffered DEF SecurityFix, FixAmong, LowestFix
<1>2. IsFiniteSet(PinRange(d, R, base).ups)
  BY NothingOffered, OneOffered DEF PinRange
<1>3. IsFiniteSet(Offered(d, R, base, ups, digests).ups)
  <2>1. IsFiniteSet(ups) /\ Offer(ups).ups = ups
    BY OrdinaryFinite DEF Offer
  <2> HIDE DEF ups
  <2> QED BY <2>1, WithDigestsFinite, NothingOffered DEF Offered, NothingNew
<1>4. IsFiniteSet(PlanFrom(d, R, base, digests, now).ups)
  BY <1>1, <1>2, <1>3 DEF PlanFrom
<1> HIDE DEF base
<1> QED BY <1>4, NothingOffered, DigestOnlyFinite DEF PlanOne, base

-----------------------------------------------------------------------------
(* From the plan to the branch.                                            *)

\* An update of dependency i with the reasons bs.
Member(i, u, bs) ==
  [dep |-> i, at |-> i, value |-> u.value, version |-> u.version, type |-> u.type, time |-> u.time,
   waived |-> u.waived, fix |-> u.fix, automerge |-> FALSE, blocks |-> bs]
Young(i, u) == TooYoung(Member(i, u, <<>>), Policy(i), Age(i))
BlocksOf(i, u) ==
  If(u.type = "majorAvailable", "rollingMajor") \o If(Young(i, u), "age") \o If(~windowOpen, "schedule")

\* Two sequences of reasons end to end.
LEMMA Joined ==
  ASSUME NEW s \in Seq(Reasons), NEW t \in Seq(Reasons)
  PROVE  /\ s \o t \in Seq(Reasons)
         /\ s \o <<>> = s /\ <<>> \o s = s
         /\ t # <<>> => s \o t # <<>>
         /\ \A x \in Range(s) \cup Range(t) : x \in Range(s \o t)
<1>1. s \o <<>> = s /\ <<>> \o s = s /\ (t # <<>> => s \o t # <<>>)
  OBVIOUS
<1>2. /\ s \o t \in Seq(Reasons)
      /\ Range(s) \subseteq Range(s \o t) /\ Range(t) \subseteq Range(s \o t)
  BY BothHeld
<1> QED BY <1>1, <1>2

\* A reason for a condition.
LEMMA IfTyped ==
  ASSUME NEW c, NEW x \in Reasons
  PROVE  If(c, x) \in Seq(Reasons) /\ (c => x \in Range(If(c, x)) /\ If(c, x) # <<>>)
<1>1. CASE c
  <2>1. If(c, x) = <<x>>
    BY <1>1 DEF If
  <2>2. <<x>> \in Seq(Reasons) /\ <<x>> # <<>> /\ 1 \in DOMAIN <<x>> /\ <<x>>[1] = x
    OBVIOUS
  <2> QED BY <2>1, <2>2 DEF Range
<1>2. CASE ~c
  BY <1>2 DEF If
<1> QED BY <1>1, <1>2

\* What Decide holds an update for.
LEMMA DecideBlocks ==
  ASSUME NEW i \in Dep, NEW u
  PROVE  /\ Decided(i, u) = Member(i, u, BlocksOf(i, u))
         /\ BlocksOf(i, u) \in Seq(Reasons)
         /\ Young(i, u) => "age" \in Range(BlocksOf(i, u))
         /\ u.type = "majorAvailable" => "rollingMajor" \in Range(BlocksOf(i, u))
         /\ ~windowOpen => BlocksOf(i, u) # <<>>
         /\ windowOpen /\ ~Young(i, u) /\ u.type # "majorAvailable" => BlocksOf(i, u) = <<>>
<1> DEFINE none == Kept(<<>>, {k \in DOMAIN <<>> : <<>>[k] = "pluginRequired"})
           s1 == If(u.type = "majorAvailable", "rollingMajor")
           s2 == If(Young(i, u), "age")
           s3 == If(~windowOpen, "schedule")
<1>1. none = <<>>
  <2>1. <<>> \in Seq({})
    OBVIOUS
  <2>2. none \in Seq({})
    BY <2>1, KeptElements
  <2> QED BY <2>2
<1>2. /\ s1 \in Seq(Reasons) /\ s2 \in Seq(Reasons) /\ s3 \in Seq(Reasons)
      /\ Young(i, u) => "age" \in Range(s2)
      /\ u.type = "majorAvailable" => "rollingMajor" \in Range(s1)
      /\ ~windowOpen => s3 # <<>>
  <2>1. {"rollingMajor", "age", "schedule"} \subseteq Reasons
    BY DEF Reasons
  <2> QED BY <2>1, IfTyped
<1>3. /\ s1 \o s2 \in Seq(Reasons) /\ (s1 \o s2) \o s3 \in Seq(Reasons)
  BY <1>2, Joined
<1>4. Young(i, u) => "age" \in Range((s1 \o s2) \o s3)
  <2> SUFFICES ASSUME Young(i, u) PROVE "age" \in Range((s1 \o s2) \o s3)
    OBVIOUS
  <2>1. "age" \in Range(s2)
    BY <1>2
  <2> HIDE DEF s1, s2, s3
  <2>2. "age" \in Range(s1 \o s2)
    BY <1>2, <2>1, Joined
  <2> QED BY <1>2, <1>3, <2>2, Joined
<1>5. ~windowOpen => (s1 \o s2) \o s3 # <<>>
  <2>1. ~windowOpen => s3 # <<>>
    BY <1>2
  <2> HIDE DEF s1, s2, s3
  <2> QED BY <1>2, <1>3, <2>1, Joined
<1>6. BlocksOf(i, u) = (s1 \o s2) \o s3
  BY DEF BlocksOf
<1>10. u.type = "majorAvailable" => "rollingMajor" \in Range((s1 \o s2) \o s3)
  <2> SUFFICES ASSUME u.type = "majorAvailable" PROVE "rollingMajor" \in Range((s1 \o s2) \o s3)
    OBVIOUS
  <2>1. "rollingMajor" \in Range(s1)
    BY <1>2
  <2> HIDE DEF s1, s2, s3
  <2>2. "rollingMajor" \in Range(s1 \o s2)
    BY <1>2, <2>1, Joined
  <2> QED BY <1>2, <1>3, <2>2, Joined
<1>11. windowOpen /\ ~Young(i, u) /\ u.type # "majorAvailable" => (s1 \o s2) \o s3 = <<>>
  <2>1. windowOpen /\ ~Young(i, u) /\ u.type # "majorAvailable" => s1 = <<>> /\ s2 = <<>> /\ s3 = <<>>
    BY DEF If
  <2>2. <<>> \o <<>> = <<>>
    OBVIOUS
  <2> HIDE DEF s1, s2, s3
  <2> QED BY <2>1, <2>2
<1>7. Decided(i, u) = [Member(i, u, <<>>) EXCEPT !.blocks = none \o s1 \o <<>> \o <<>> \o s2 \o s3]
  <2>1. If(~Policy(i).enabled, "disabled") = <<>> /\ If(Policy(i).approval, "approval") = <<>>
        /\ (Policy(i).scheduled /\ ~windowOpen <=> ~windowOpen)
    BY DEF If, Policy
  <2> QED BY <2>1 DEF Decided, Decide, Member, Young
<1>8. none \o s1 \o <<>> \o <<>> \o s2 \o s3 = BlocksOf(i, u)
  <2> HIDE DEF none, s1, s2, s3
  <2> QED BY <1>1, <1>2, <1>6
<1>9. Decided(i, u) = Member(i, u, BlocksOf(i, u))
  BY <1>7, <1>8 DEF Member
<1> QED BY <1>3, <1>4, <1>5, <1>6, <1>9, <1>10, <1>11

\* What a plan decides.
DecidedAny(how) == UNION {{Decided(i, u) : u \in Updates(i, how[i])} : i \in Dep}

\* It is a sequence of it, each of a dependency's own.
LEMMA PlanTyped ==
  ASSUME NEW how
  PROVE  /\ PlanOf(how) \in Seq(DecidedAny(how))
         /\ Decidable(DecidedAny(how))
         /\ \A i \in Dep : \A u \in Updates(i, how[i]) : Decided(i, u) \in Range(PlanOf(how))
<1>1. ASSUME NEW i \in Dep
      PROVE  /\ DecidedOf(i, how[i]) \in Seq(DecidedAny(how))
             /\ \A u \in Updates(i, how[i]) : Decided(i, u) \in Range(DecidedOf(i, how[i]))
  <2> DEFINE S == {Decided(i, u) : u \in Updates(i, how[i])}
  <2>1. IsFiniteSet(Updates(i, how[i]))
    BY PlanFinite DEF Updates
  <2>2. IsFiniteSet(S)
    <3> DEFINE f == [u \in Updates(i, how[i]) |-> Decided(i, u)]
    <3>1. f \in Surjection(Updates(i, how[i]), S)
      BY DEF Surjection
    <3> HIDE DEF f, S
    <3> QED BY <2>1, <3>1, FS_Surjection
  <2>3. S \subseteq DecidedAny(how)
    BY DEF DecidedAny
  <2>4. DecidedOf(i, how[i]) = SetToSeq(S)
    BY DEF DecidedOf
  <2>6. \A u \in Updates(i, how[i]) : Decided(i, u) \in S
    OBVIOUS
  <2> HIDE DEF S
  <2>5. SetToSeq(S) \in Seq(S) /\ \A x \in S : x \in Range(SetToSeq(S))
    BY <2>2, SetToSeqTyped
  <2>7. SetToSeq(S) \in Seq(DecidedAny(how))
    BY <2>3, <2>5
  <2> QED BY <2>4, <2>5, <2>6, <2>7
<1>2. [i \in Dep |-> DecidedOf(i, how[i])] \in Seq(Seq(DecidedAny(how)))
  BY <1>1, DepsAreListed DEF Dep
<1>3. /\ PlanOf(how) \in Seq(DecidedAny(how))
      /\ \A i \in Dep : Range(DecidedOf(i, how[i])) \subseteq Range(PlanOf(how))
  <2> DEFINE q == [i \in Dep |-> DecidedOf(i, how[i])]
  <2>1. DOMAIN q = Dep /\ \A i \in Dep : q[i] = DecidedOf(i, how[i])
    OBVIOUS
  <2>2. PlanOf(how) = FlattenSeq(q)
    BY DEF PlanOf
  <2>3. q \in Seq(Seq(DecidedAny(how)))
    BY <1>2
  <2> HIDE DEF q
  <2> QED BY <2>1, <2>2, <2>3, FlattenTyped
<1>4. ASSUME NEW u \in DecidedAny(how) PROVE u.blocks \in Seq(Reasons) /\ u.automerge \in BOOLEAN
  <2>1. PICK i \in Dep : \E v \in Updates(i, how[i]) : u = Decided(i, v)
    BY DEF DecidedAny
  <2>2. PICK v \in Updates(i, how[i]) : u = Decided(i, v)
    BY <2>1
  <2>3. u = Member(i, v, BlocksOf(i, v)) /\ BlocksOf(i, v) \in Seq(Reasons)
    BY <2>2, DecideBlocks
  <2> QED BY <2>3 DEF Member
<1>5. \A i \in Dep : \A u \in Updates(i, how[i]) : Decided(i, u) \in Range(PlanOf(how))
  BY <1>1, <1>3
<1> QED BY <1>3, <1>4, <1>5 DEF Decidable

\* A branch that acts is held for nothing before it is realised.
LEMMA ActsUnheld ==
  ASSUME NEW T, NEW b \in BranchOf(T), NEW refused, Acts(Realise(b, refused))
  PROVE  Realise(b, refused) = b /\ b.suppressedBy = "" /\ b.members # <<>>
<1>1. \A why : HoldBranch(b, why).suppressedBy = why
  BY DEF HoldBranch, BranchOf
<1> QED BY <1>1 DEF Acts, Realise

\* The rounds of liftByDashboard lift what is ticked and, after that, a window.
LiftsWithin(S, ticks) ==
  \A c \in S : c.suppressedBy # "" /\ (c.suppressedBy \in ticks \/ (ticks # {} /\ c.suppressedBy = "schedule"))
               => Lift(c, c.suppressedBy) \in S

\* So a set that such lifts do not leave holds what the rounds make of a branch.
LEMMA RoundsStay ==
  ASSUME NEW S, NEW b \in S, NEW ticks, LiftsWithin(S, ticks)
  PROVE  LiftByDashboard(b, ticks) \in S
<1> DEFINE start == [branch |-> b, ticked |-> FALSE]
           After(r) ==
             LET why == r.branch.suppressedBy
             IN IF why /= "" /\ (why \in ticks \/ (r.ticked /\ why = "schedule"))
                THEN [branch |-> Lift(r.branch, why), ticked |-> TRUE] ELSE r
           Step(g, k) == IF k = 0 THEN start ELSE After(g[k - 1])
           Is(g, m) == g = [k \in 0..m |-> Step(g, k)]
           round == CHOOSE g : Is(g, 4)
           R == {r \in [branch : S, ticked : BOOLEAN] : r.ticked => ticks # {}}
<1>1. start \in R
  OBVIOUS
<1>2. \A r \in R : After(r) \in R
  <2> SUFFICES ASSUME NEW r \in R PROVE After(r) \in R
    OBVIOUS
  <2> DEFINE why == r.branch.suppressedBy
             lifts == why /= "" /\ (why \in ticks \/ (r.ticked /\ why = "schedule"))
  <2>1. r.branch \in S /\ (r.ticked => ticks # {})
    OBVIOUS
  <2>2. CASE lifts
    <3>1. Lift(r.branch, why) \in S /\ ticks # {}
      BY <2>1, <2>2 DEF LiftsWithin
    <3>2. After(r) = [branch |-> Lift(r.branch, why), ticked |-> TRUE]
      BY <2>2
    <3> HIDE DEF After
    <3> QED BY <3>1, <3>2
  <2>3. CASE ~lifts
    BY <2>3
  <2> QED BY <2>2, <2>3
<1>3. LiftByDashboard(b, ticks) = round[4].branch
  BY DEF LiftByDashboard
<1> HIDE DEF After, start
<1>4. \E g : Is(g, 4)
  <2> DEFINE T == {m \in Nat : \E g : Is(g, m)}
  <2>1. 0 \in T
    <3>1. Is([k \in 0..0 |-> start], 0)
      OBVIOUS
    <3> QED BY <3>1
  <2>2. ASSUME NEW m \in 0..(4 - 1), m \in T PROVE m + 1 \in T
    <3>1. PICK g : Is(g, m)
      BY <2>2
    <3> DEFINE h == [k \in 0..(m + 1) |-> IF k = m + 1 THEN Step(g, k) ELSE g[k]]
    <3>2. \A k \in 0..m : h[k] = g[k]
      OBVIOUS
    <3>3. \A k \in 0..(m + 1) : h[k] = Step(h, k)
      <4>1. ASSUME NEW k \in 0..(m + 1) PROVE Step(h, k) = Step(g, k)
        <5>1. k # 0 => k - 1 \in 0..m
          OBVIOUS
        <5>2. k # 0 => h[k - 1] = g[k - 1]
          BY <5>1, <3>2
        <5> HIDE DEF h
        <5> QED BY <5>2
      <4>2. ASSUME NEW k \in 0..(m + 1) PROVE h[k] = Step(g, k)
        <5>1. CASE k = m + 1
          BY <5>1
        <5>2. CASE k \in 0..m
          <6>1. g[k] = Step(g, k)
            BY <3>1, <5>2, Zenon
          <6> HIDE DEF Step
          <6> QED BY <6>1, <3>2, <5>2
        <5> QED BY <5>1, <5>2
      <4> QED BY <4>1, <4>2
    <3>4. Is(h, m + 1)
      <4>1. h = [k \in 0..(m + 1) |-> h[k]]
        OBVIOUS
      <4> HIDE DEF h, Step
      <4> QED BY <3>3, <4>1
    <3> HIDE DEF h, Is
    <3> QED BY <3>4
  <2> HIDE DEF T
  <2>3. \A k \in 0..4 : k \in T
    BY <2>1, <2>2, Climb
  <2>4. 4 \in T
    BY <2>3
  <2> QED BY <2>4 DEF T
<1>5. Is(round, 4)
  <2> HIDE DEF Is
  <2> QED BY <1>4
<1> HIDE DEF round
<1>6. \A k \in 0..4 : round[k] = Step(round, k)
  BY <1>5, Zenon
<1>7. round[4] \in R
  <2> DEFINE T == {m \in 0..4 : round[m] \in R}
  <2> HIDE DEF R
  <2>1. 0 \in T
    BY <1>1, <1>6
  <2>2. ASSUME NEW m \in 0..(4 - 1), m \in T PROVE m + 1 \in T
    <3>1. m + 1 \in 0..4 /\ (m + 1) - 1 = m /\ m + 1 # 0
      OBVIOUS
    <3>2. round[m + 1] = After(round[m])
      BY <1>6, <3>1
    <3> QED BY <1>2, <2>2, <3>1, <3>2
  <2> HIDE DEF T
  <2>3. \A k \in 0..4 : k \in T
    BY <2>1, <2>2, Climb
  <2> QED BY <2>3 DEF T
<1> QED BY <1>3, <1>7

\* With the window closed, nothing ticked and no request open, nothing acts.
LEMMA ClosedWindowHolds ==
  ASSUME NEW how, NEW knowsOpen \in BOOLEAN, NEW refused, ~windowOpen, ~box.ticked, request = Closed
  PROVE  ~Acts(Branch(how, knowsOpen, refused))
<1> DEFINE b == Compose(PlanOf(how))
           T == DecidedAny(how)
<1>1. b \in BranchOf(T) /\ HeldByMembers(b)
  BY PlanTyped, ComposeTyped
<1> HIDE DEF b, T
<1>2. LiftByDashboard(b, {}) = b
  <2>1. b \in {b}
    OBVIOUS
  <2>2. LiftByDashboard(b, {}) \in {b}
    BY <2>1, RoundsStay DEF LiftsWithin
  <2> QED BY <2>2
<1>3. Branch(how, knowsOpen, refused) = Realise(b, refused)
  BY <1>2 DEF Branch, b, Ticks, LiftForOpen
<1>4. \A u \in T : Blocked(u)
  <2> SUFFICES ASSUME NEW u \in T PROVE Blocked(u)
    OBVIOUS
  <2>1. PICK i \in Dep : \E v \in Updates(i, how[i]) : u = Decided(i, v)
    BY DEF DecidedAny, T
  <2>2. PICK v \in Updates(i, how[i]) : u = Decided(i, v)
    BY <2>1
  <2>3. u = Member(i, v, BlocksOf(i, v)) /\ BlocksOf(i, v) # <<>>
    BY <2>2, DecideBlocks
  <2> QED BY <2>3 DEF Member, Blocked
<1>5. b.members \in Seq(T)
  BY <1>1 DEF BranchOf
<1>6. b.members # <<>> => 1 \in DOMAIN b.members /\ b.members[1] \in T
  BY <1>5
<1> QED BY <1>1, <1>3, <1>4, <1>6, ActsUnheld DEF HeldByMembers

\* A request is opened inside the window, or because a person ticked a box
\* (Decide, liftByDashboard, liftForOpen).
THEOREM OpenedInWindow == Spec => WindowGatesCreation
<1>1. [Next]_vars => (request = Closed /\ request' /= Closed => windowOpen \/ box.ticked)
  <2> SUFFICES ASSUME [Next]_vars, request = Closed, request' /= Closed, ~windowOpen, ~box.ticked PROVE FALSE
    OBVIOUS
  <2>1. PICK silent \in {{}} \cup Silent, knowsOpen \in BOOLEAN, refused \in {"", "taskRefused"} :
         Run(silent, knowsOpen, refused)
    <3>1. CASE Publish \/ PublishFails \/ Day \/ Window \/ PersonTicks
      BY <3>1 DEF Publish, PublishFails, Day, Window, PersonTicks
    <3>2. CASE Reset \/ Export \/ Import \/ Prune \/ PersonMerges
      BY <3>2 DEF Reset, Export, Import, Prune, PersonMerges
    <3>3. CASE \E i \in Dep : Publishes(i) \/ \E v \in Versioned(i) : Withdraws(i, v)
      BY <3>3 DEF Publishes, Withdraws
    <3>4. CASE UNCHANGED vars
      BY <3>4 DEF vars
    <3> QED BY <3>1, <3>2, <3>3, <3>4, Zenon DEF Next
  <2>2. PICK b, how : b = Branch(how, knowsOpen, refused) /\ Acted(b)
    BY <2>1 DEF Run, RunWith
  <2>3. ~Acts(b)
    BY <2>2, ClosedWindowHolds
  <2> QED BY <2>2, <2>3 DEF Acted
<1> QED BY <1>1, PTL DEF Spec, WindowGatesCreation

-----------------------------------------------------------------------------
(* What an update says of its version.                                     *)

\* A dependency whose updates' ages can be told: no digest moves, no fallback
\* waives the age of a bucket, and what is pinned is held for its missing date.
Told(d) ==
  /\ d.filter /= "flexible" /\ d.digest = 0 /\ ~d.pinDigests
  /\ d.strategy = "pin" => d.age > 0 /\ ~d.optional

\* An update to a release, with the release's date; a pin has none.
Dated(d, R, u) ==
  /\ ~u.waived /\ u.type \notin Ageless
  /\ \/ d.strategy = "pin" /\ u.time = Never
     \/ \E r \in R : u.version = r.version /\ u.time = ReleaseTime(r)

\* A move of a version is never a move of a digest.
LEMMA TypesAged == ASSUME NEW d, NEW from, NEW target PROVE TypeOf(d, from, target) \notin Ageless
<1>1. DockerUpdateType(from, target) \in {"unknown", "compatibility", "rollback", "major", "minor", "patch"}
  BY DEF DockerUpdateType
<1>2. UpdateType(d.scheme, from, target) \in {"unknown", "compatibility", "rollback", "major", "minor", "patch"}
  BY <1>1 DEF UpdateType
<1> QED BY <1>2 DEF TypeOf, Rolling, Ageless

\* What buildUpdate makes of a release.
LEMMA BuiltDated ==
  ASSUME NEW d, NEW R, NEW from, NEW r \in R
  PROVE  /\ Dated(d, R, BuildUpdate(d, from, r))
         /\ Dated(d, R, [BuildUpdate(d, from, r) EXCEPT !.fix = TRUE])
         /\ Dated(d, R, [BuildUpdate(d, from, r) EXCEPT !.waived = FALSE])
         /\ \A u \in Build(d, from, r) : u = BuildUpdate(d, from, r)
<1>1. TypeOf(d, from, r.version) \notin Ageless
  BY TypesAged
<1> DEFINE u == BuildUpdate(d, from, r)
<1>2. /\ u.type = TypeOf(d, from, r.version) /\ u.waived = FALSE
      /\ u.version = r.version /\ u.time = ReleaseTime(r)
      /\ LET w == [u EXCEPT !.fix = TRUE]
         IN w.type = u.type /\ w.waived = u.waived /\ w.version = u.version /\ w.time = u.time
      /\ LET w == [u EXCEPT !.waived = FALSE]
         IN w.type = u.type /\ w.waived = FALSE /\ w.version = u.version /\ w.time = u.time
  BY DEF BuildUpdate
<1>3. \A w \in Build(d, from, r) : w = u
  BY DEF Build
<1> HIDE DEF u
<1> QED BY <1>1, <1>2, <1>3 DEF Dated, u

\* The release of a version that was read.
LEMMA ReleaseFound ==
  ASSUME NEW d, NEW R, NEW v \in {r.version : r \in Readable(d, R)}
  PROVE  ReleaseOf(d, R, v) \in R /\ ReleaseOf(d, R, v).version = v
<1>1. PICK r \in Readable(d, R) : r.version = v
  OBVIOUS
<1>2. ReleaseOf(d, R, v) \in Readable(d, R) /\ ReleaseOf(d, R, v).version = v
  BY <1>1 DEF ReleaseOf
<1> QED BY <1>2 DEF Readable

\* The scheme finds the ends of every set of versions that were read.
Ordered(d, R) ==
  \A V \in SUBSET {r.version : r \in R} : V /= {} => Latest(d.scheme, V) \in V /\ Least(d.scheme, V) \in V

\* Every update planOne offers is dated.
LEMMA OffersDated ==
  ASSUME NEW d, Told(d), NEW answer, Ordered(d, answer.releases), NEW digests, NEW now,
         NEW u \in PlanOne(d, answer, digests, now).ups
  PROVE  Dated(d, answer.releases, u)
<1> DEFINE R == answer.releases  base == Base(d, R)
           versions == {r.version : r \in Readable(d, R)}
<1>0. versions \subseteq {r.version : r \in R}
  BY DEF Readable
<1>1. ASSUME NEW V, V \subseteq versions, V # {}
      PROVE  /\ ReleaseOf(d, R, Latest(d.scheme, V)) \in R
             /\ ReleaseOf(d, R, Least(d.scheme, V)) \in R
  <2>1. Latest(d.scheme, V) \in V /\ Least(d.scheme, V) \in V
    BY <1>0, <1>1 DEF Ordered
  <2>2. Latest(d.scheme, V) \in versions /\ Least(d.scheme, V) \in versions
    BY <1>1, <2>1
  <2> HIDE DEF R
  <2> QED BY <2>2, ReleaseFound
<1>2. ASSUME NEW from, NEW why PROVE Skip(why).ups = {} /\ Warned(why).ups = {} /\ \A S : Offer(S).ups = S
  BY DEF Skip, Warned, Offer
<1>3. ASSUME u \in SecurityFix(d, R, base).ups PROVE Dated(d, R, u)
  <2> DEFINE from == FixFrom(d, R, base)  fixes == Fixes(d, R, base)
             fix == ReleaseOf(d, R, Least(d.scheme, {r.version : r \in fixes}))
  <2>1. fixes \subseteq Readable(d, R)
    BY DEF Fixes
  <2>2. fixes # {} => fix \in R
    <3>1. {r.version : r \in fixes} \subseteq versions /\ (fixes # {} => {r.version : r \in fixes} # {})
      BY <2>1
    <3> HIDE DEF fixes, versions, R
    <3> QED BY <1>1, <3>1
  <2>3. fixes # {} /\ u = [BuildUpdate(d, from, fix) EXCEPT !.fix = TRUE]
    BY <1>3, <1>2 DEF SecurityFix, FixAmong, LowestFix
  <2> HIDE DEF fixes, fix, from, R
  <2> QED BY <2>2, <2>3, BuiltDated
<1>4. ASSUME IsRange(d), RangeStrategy(d.strategy) = "pin", u \in PinRange(d, R, base).ups PROVE Dated(d, R, u)
  <2>1. d.strategy = "pin"
    BY <1>4 DEF RangeStrategy
  <2> DEFINE pin == [value |-> base, version |-> base, digest |-> ReleaseOf(d, R, base).digest, type |-> "pin",
                     time |-> Never, lockOnly |-> FALSE, waived |-> FALSE, fix |-> FALSE]
  <2>2. PinRange(d, R, base) = Skip("") \/ PinRange(d, R, base) = Offer({pin})
    BY DEF PinRange
  <2>3. ~pin.waived /\ pin.type = "pin" /\ pin.time = Never
    OBVIOUS
  <2> HIDE DEF pin, R, base
  <2>4. u = pin
    BY <1>4, <1>2, <2>2
  <2> QED BY <2>1, <2>3, <2>4 DEF Dated, Ageless
<1>5. ASSUME ~(IsRange(d) /\ InRange(d, R) = {}), u \in Ordinary(d, R, base, now) PROVE Dated(d, R, u)
  <2> DEFINE free == {r \in Newer(d, R, base) : Allowed(d, r.version)}
             buckets == Buckets(d, base, free)
  <2>1. CASE u \in FloorBump(d, R, base)
    <3>1. /\ IsRange(d) /\ RangeStrategy(d.strategy) = "bump" /\ base /= d.locked
          /\ u \in Build(d, Floor(d, R), ReleaseOf(d, R, base))
      BY <2>1 DEF FloorBump
    <3>2. base = Latest(d.scheme, InRange(d, R))
      BY <3>1 DEF Base
    <3>3. InRange(d, R) \subseteq versions /\ InRange(d, R) # {}
      BY <1>5, <3>1 DEF InRange, Admitted
    <3> HIDE DEF R, base, versions
    <3>4. ReleaseOf(d, R, base) \in R
      BY <1>1, <3>2, <3>3
    <3> QED BY <3>1, <3>4, BuiltDated
  <2>2. CASE u \in NewestOf(d, R, base, buckets, now)
    <3>1. ~AgeWaived(d, buckets, now)
      BY DEF Told, AgeWaived
    <3>2. PICK rs \in buckets \ {{}} :
            \E w \in Build(d, base, Top(d, R, Bucket(d, rs, now))) : u = [w EXCEPT !.waived = AgeWaived(d, buckets, now)]
      BY <2>2 DEF NewestOf
    <3> DEFINE old == Bucket(d, rs, now)
    <3>3. PICK w \in Build(d, base, Top(d, R, old)) : u = [w EXCEPT !.waived = AgeWaived(d, buckets, now)]
      BY <3>2
    <3>4. rs # {} /\ rs \subseteq Readable(d, R)
      BY <3>2 DEF Buckets, Others, Majors, OfType, Newer
    <3>5. old # {} /\ old \subseteq rs
      BY <3>4 DEF Bucket
    <3>6. {r.version : r \in old} \subseteq versions /\ {r.version : r \in old} # {}
      BY <3>4, <3>5
    <3> HIDE DEF R, base, versions, old, buckets, free
    <3>7. Top(d, R, old) \in R
      BY <1>1, <3>6 DEF Top
    <3>8. w = BuildUpdate(d, base, Top(d, R, old))
      BY <3>3, <3>7, BuiltDated
    <3>9. AgeWaived(d, buckets, now) = FALSE
      BY <3>1 DEF AgeWaived
    <3>10. u = [BuildUpdate(d, base, Top(d, R, old)) EXCEPT !.waived = FALSE]
      BY <3>3, <3>8, <3>9
    <3> QED BY <3>7, <3>10, BuiltDated
  <2> QED BY <1>5, <2>1, <2>2 DEF Ordinary
<1>6. ASSUME ~(IsRange(d) /\ InRange(d, R) = {}), u \in PlanFrom(d, R, base, digests, now).ups PROVE Dated(d, R, u)
  <2>1. CASE u \in SecurityFix(d, R, base).ups
    BY <1>3, <2>1
  <2>2. CASE IsRange(d) /\ RangeStrategy(d.strategy) = "pin" /\ u \in PinRange(d, R, base).ups
    BY <1>4, <2>2
  <2>3. CASE u \in Offered(d, R, base, Distinct(Ordinary(d, R, base, now)), digests).ups
    <3>1. u \in Distinct(Ordinary(d, R, base, now))
      BY <2>3, <1>2 DEF Offered, Told, NothingNew
    <3>2. u \in Ordinary(d, R, base, now)
      BY <3>1 DEF Distinct
    <3> HIDE DEF R, base
    <3> QED BY <1>5, <1>6, <3>2
  <2> QED BY <1>6, <2>1, <2>2, <2>3 DEF PlanFrom
<1>7. DigestOnly(d, digests).ups = {}
  BY <1>2 DEF DigestOnly, Told
<1>8. u \in PlanFrom(d, R, base, digests, now).ups /\ ~(IsRange(d) /\ InRange(d, R) = {})
  BY <1>2, <1>7 DEF PlanOne
<1> HIDE DEF R, base
<1> QED BY <1>6, <1>8 DEF R

-----------------------------------------------------------------------------
(* What lifting leaves.                                                    *)

\* An update is held for its age, or as the major of a rolling one.
HeldFor(i, v, why) == (why = "age" /\ Young(i, v)) \/ (why = "rollingMajor" /\ v.type = "majorAvailable")

\* The updates of a plan, freed of any reasons but one that holds them.
Kin(how, why) ==
  UNION {UNION {{Member(i, v, bs) : bs \in {x \in Seq(Reasons) : HeldFor(i, v, why) => why \in Range(x)}} :
                  v \in Updates(i, how[i])} : i \in Dep}

\* Such an update has a dependency, an offer and reasons.
LEMMA KinIs ==
  ASSUME NEW how, NEW why, NEW u
  PROVE  u \in Kin(how, why) <=>
           \E i \in Dep : \E v \in Updates(i, how[i]) : \E bs \in Seq(Reasons) :
             (HeldFor(i, v, why) => why \in Range(bs)) /\ u = Member(i, v, bs)
<1> DEFINE Of(i, v) == {Member(i, v, bs) : bs \in {x \in Seq(Reasons) : HeldFor(i, v, why) => why \in Range(x)}}
           For(i) == UNION {Of(i, v) : v \in Updates(i, how[i])}
<1>1. ASSUME NEW i, NEW v
      PROVE  u \in Of(i, v) <=> \E bs \in Seq(Reasons) : (HeldFor(i, v, why) => why \in Range(bs)) /\ u = Member(i, v, bs)
  OBVIOUS
<1>2. Kin(how, why) = UNION {For(i) : i \in Dep}
  BY DEF Kin
<1> HIDE DEF Of
<1>3. ASSUME NEW i PROVE u \in For(i) <=> \E v \in Updates(i, how[i]) : u \in Of(i, v)
  OBVIOUS
<1> HIDE DEF For
<1>4. u \in Kin(how, why) <=> \E i \in Dep : u \in For(i)
  BY <1>2
<1> QED BY <1>1, <1>3, <1>4

\* What is decided is of that kind.
LEMMA DecidedKin ==
  ASSUME NEW how, NEW why
  PROVE  DecidedAny(how) \subseteq Kin(how, why) /\ Decidable(Kin(how, why))
<1>1. ASSUME NEW u \in DecidedAny(how) PROVE u \in Kin(how, why)
  <2>1. PICK i \in Dep : \E v \in Updates(i, how[i]) : u = Decided(i, v)
    BY DEF DecidedAny
  <2>2. PICK v \in Updates(i, how[i]) : u = Decided(i, v)
    BY <2>1
  <2> QED BY <2>2, DecideBlocks, KinIs DEF HeldFor
<1>2. ASSUME NEW u \in Kin(how, why) PROVE u.blocks \in Seq(Reasons) /\ u.automerge \in BOOLEAN
  <2>1. PICK i \in Dep : \E v \in Updates(i, how[i]) : \E bs \in Seq(Reasons) : u = Member(i, v, bs)
    BY KinIs
  <2> QED BY <2>1 DEF Member
<1> QED BY <1>1, <1>2 DEF Decidable

\* An update stays of that kind whatever other reason it is freed of.
LEMMA WithoutKin ==
  ASSUME NEW how, NEW why, NEW u \in Kin(how, why), NEW lifted, lifted # why
  PROVE  Without(u, lifted) \in Kin(how, why)
<1>1. PICK i \in Dep : \E v \in Updates(i, how[i]) : \E bs \in Seq(Reasons) :
        (HeldFor(i, v, why) => why \in Range(bs)) /\ u = Member(i, v, bs)
  BY KinIs
<1>2. PICK v \in Updates(i, how[i]) : \E bs \in Seq(Reasons) :
        (HeldFor(i, v, why) => why \in Range(bs)) /\ u = Member(i, v, bs)
  BY <1>1
<1>3. PICK bs \in Seq(Reasons) : (HeldFor(i, v, why) => why \in Range(bs)) /\ u = Member(i, v, bs)
  BY <1>2
<1> DEFINE rest == {k \in DOMAIN bs : bs[k] /= lifted}
           left == Kept(bs, rest)
<1>4. Without(u, lifted) = Member(i, v, left)
  <2>1. Without(u, lifted) = [u EXCEPT !.blocks = Kept(u.blocks, {k \in DOMAIN u.blocks : u.blocks[k] /= lifted})]
    BY DEF Without
  <2>2. u.blocks = bs
    BY <1>3 DEF Member
  <2>3. Without(u, lifted) = [u EXCEPT !.blocks = left]
    BY <2>1, <2>2
  <2> HIDE DEF left
  <2> QED BY <1>3, <2>3 DEF Member
<1>5. /\ left \in Seq(Reasons)
      /\ \A k \in DOMAIN bs \cap rest : \E j \in DOMAIN left : left[j] = bs[k]
  <2> HIDE DEF rest, left
  <2>1. Kept(bs, rest) \in Seq(Reasons)
    BY KeptElements
  <2>2. Keeps(bs, rest, Kept(bs, rest))
    BY KeptElements
  <2> QED BY <2>1, <2>2 DEF left, Keeps
<1>6. HeldFor(i, v, why) => why \in Range(left)
  <2> SUFFICES ASSUME HeldFor(i, v, why) PROVE why \in Range(left)
    OBVIOUS
  <2>1. PICK k \in DOMAIN bs : bs[k] = why
    BY <1>3 DEF Range
  <2>2. k \in DOMAIN bs \cap rest
    BY <2>1
  <2> HIDE DEF left, rest
  <2>3. PICK j \in DOMAIN left : left[j] = bs[k]
    BY <1>5, <2>2
  <2> QED BY <2>1, <2>3 DEF Range
<1> HIDE DEF left
<1> QED BY <1>4, <1>5, <1>6, KinIs

\* A lifted branch is held for what still holds a member, and carries what it
\* carried.
LEMMA LiftKin ==
  ASSUME NEW how, NEW why, NEW b \in BranchOf(Kin(how, why)), NEW lifted, lifted # why
  PROVE  /\ Lift(b, lifted) \in BranchOf(Kin(how, why)) /\ HeldByMembers(Lift(b, lifted))
         /\ \A w \in Range(b.members) : \E x \in Range(Lift(b, lifted).members) : x.dep = w.dep
<1> DEFINE T == Kin(how, why)
           ms == [k \in DOMAIN b.members |-> Without(b.members[k], lifted)]
           held == {ms[k] : k \in {j \in DOMAIN ms : Blocked(ms[j])}}
           first == CHOOSE u \in held : \A w \in held : u.at <= w.at
           now == IF held = {} THEN "" ELSE first.blocks[1]
<1>1. b.members \in Seq(T) /\ b.automerge \in BOOLEAN
  BY DEF BranchOf
<1>2. ms \in Seq(T)
  <2>1. \A k \in DOMAIN b.members : Without(b.members[k], lifted) \in T
    BY <1>1, WithoutKin
  <2> HIDE DEF T
  <2> QED BY <1>1, <2>1
<1>3. Lift(b, lifted) = [b EXCEPT !.members = ms, !.heldWith = "", !.suppressedBy = now]
  BY DEF Lift
<1>8. DOMAIN ms = DOMAIN b.members /\ \A k \in DOMAIN b.members : ms[k].dep = b.members[k].dep
  <2>1. \A k \in DOMAIN b.members : Without(b.members[k], lifted).dep = b.members[k].dep
    <3> SUFFICES ASSUME NEW k \in DOMAIN b.members PROVE Without(b.members[k], lifted).dep = b.members[k].dep
      OBVIOUS
    <3>1. b.members[k] \in T
      BY <1>1
    <3>2. PICK i \in Dep : \E v \in Updates(i, how[i]) : \E bs \in Seq(Reasons) : b.members[k] = Member(i, v, bs)
      BY <3>1, KinIs
    <3> QED BY <3>2 DEF Without, Member
  <2> QED BY <2>1
<1> HIDE DEF ms
<1>4. ASSUME held # {} PROVE now \in Reasons /\ now # ""
  <2>1. \A u \in held : u \in T /\ Blocked(u)
    BY <1>2
  <2>2. \A u \in T : u.at \in Nat /\ u.blocks \in Seq(Reasons)
    <3> SUFFICES ASSUME NEW u \in T PROVE u.at \in Nat /\ u.blocks \in Seq(Reasons)
      OBVIOUS
    <3>1. PICK i \in Dep : \E v \in Updates(i, how[i]) : \E bs \in Seq(Reasons) : u = Member(i, v, bs)
      BY KinIs
    <3>2. i \in Nat
      BY DepsAreListed DEF Dep
    <3> QED BY <3>1, <3>2 DEF Member
  <2> HIDE DEF T, held
  <2>3. {u.at : u \in held} \subseteq Nat /\ {u.at : u \in held} # {}
    BY <1>4, <2>1, <2>2
  <2>4. PICK n \in {u.at : u \in held} : \A x \in {u.at : u \in held} : n <= x
    BY <2>3, LeastExists
  <2>5. \E u \in held : \A w \in held : u.at <= w.at
    BY <2>4
  <2>6. first \in held
    BY <2>5
  <2> HIDE DEF first
  <2>7. first.blocks[1] \in Reasons /\ first.blocks[1] # ""
    BY <2>1, <2>2, <2>6, FirstReason
  <2> QED BY <1>4, <2>7
<1>5. held = {} => now = "" /\ \A k \in DOMAIN ms : ~Blocked(ms[k])
  OBVIOUS
<1> HIDE DEF held, T
<1>6. now \in Reasons \cup {""} /\ (now = "" => \A k \in DOMAIN ms : ~Blocked(ms[k]))
  BY <1>4, <1>5
<1> HIDE DEF now
<1>7. Lift(b, lifted) \in BranchOf(T) /\ Lift(b, lifted).suppressedBy = now /\ Lift(b, lifted).members = ms
  BY <1>1, <1>2, <1>3, <1>6 DEF BranchOf, T
<1>9. \A w \in Range(b.members) : \E x \in Range(ms) : x.dep = w.dep
  BY <1>8 DEF Range
<1> QED BY <1>6, <1>7, <1>9 DEF HeldByMembers, T

\* A member of a request is an update offered that a reason does not hold.
OfferedFree(how, m, why) ==
  \E i \in Dep : \E v \in Updates(i, how[i]) :
    m = [dep |-> i, value |-> v.value, version |-> v.version] /\ ~HeldFor(i, v, why)

\* What acts carries no update that a reason holds, unless it was ticked away.
LEMMA ActsOnFree ==
  ASSUME NEW how, NEW knowsOpen \in BOOLEAN, NEW refused, NEW why, why \notin Ticks, why # "schedule",
         NEW b, b = Branch(how, knowsOpen, refused), Acts(b), NEW m \in Carried(b)
  PROVE  OfferedFree(how, m, why)
<1> DEFINE T == Kin(how, why)
           S == {c \in BranchOf(T) : HeldByMembers(c)}
           b0 == Compose(PlanOf(how))
           b1 == LiftByDashboard(b0, Ticks)
           b2 == LiftForOpen(b1, knowsOpen /\ request /= Closed)
<1>1. b0 \in S
  <2>1. PlanOf(how) \in Seq(T) /\ Decidable(T)
    <3>1. PlanOf(how) \in Seq(DecidedAny(how)) /\ DecidedAny(how) \subseteq T /\ Decidable(T)
      BY PlanTyped, DecidedKin
    <3> HIDE DEF T
    <3> QED BY <3>1
  <2> QED BY <2>1, ComposeTyped
<1>2. \A c \in S : \A lifted : lifted # why => Lift(c, lifted) \in S
  BY LiftKin
<1> HIDE DEF S, b0, T
<1>4. b1 \in S
  <2>1. LiftsWithin(S, Ticks)
    BY <1>2 DEF LiftsWithin
  <2> QED BY <1>1, <2>1, RoundsStay
<1> HIDE DEF b1
<1>5. b2 \in S
  BY <1>2, <1>4 DEF LiftForOpen
<1>6. Branch(how, knowsOpen, refused) = Realise(b2, refused)
  BY DEF Branch, b1, b0
<1> HIDE DEF b2
<1>7. b2 \in BranchOf(T) /\ HeldByMembers(b2)
  BY <1>5 DEF S
<1>8. Branch(how, knowsOpen, refused) = b2 /\ b2.suppressedBy = ""
  BY <1>6, <1>7, ActsUnheld
<1>9. PICK k \in DOMAIN b2.members : m = [dep |-> b2.members[k].dep, value |-> b2.members[k].value,
                                          version |-> b2.members[k].version]
  BY <1>8 DEF Carried
<1> DEFINE u == b2.members[k]
<1>10. u \in Kin(how, why) /\ u.blocks = <<>>
  <2>1. b2.members \in Seq(T)
    BY <1>7 DEF BranchOf
  <2>2. u \in T
    BY <2>1, <1>9
  <2>3. ~Blocked(u)
    BY <1>7, <1>8, <1>9 DEF HeldByMembers
  <2> QED BY <2>2, <2>3 DEF T, Blocked
<1>11. m = [dep |-> u.dep, value |-> u.value, version |-> u.version]
  BY <1>9
<1> HIDE DEF u
<1>13. PICK i \in Dep : \E v \in Updates(i, how[i]) : \E bs \in Seq(Reasons) :
        (HeldFor(i, v, why) => why \in Range(bs)) /\ u = Member(i, v, bs)
  BY <1>10, KinIs
<1>14. PICK v \in Updates(i, how[i]) : \E bs \in Seq(Reasons) :
        (HeldFor(i, v, why) => why \in Range(bs)) /\ u = Member(i, v, bs)
  BY <1>13
<1>15. PICK bs \in Seq(Reasons) : (HeldFor(i, v, why) => why \in Range(bs)) /\ u = Member(i, v, bs)
  BY <1>14
<1>16. u.blocks = bs /\ u.dep = i /\ u.version = v.version /\ u.value = v.value
  BY <1>15 DEF Member
<1>17. why \notin Range(<<>>)
  BY DEF Range
<1> QED BY <1>10, <1>11, <1>15, <1>16, <1>17 DEF OfferedFree

\* An update that nothing but the window may hold.
FreeOffer(i, how, v) == v \in Updates(i, how[i]) /\ ~Young(i, v) /\ v.type # "majorAvailable"

\* Lifting leaves each dependency its place.
LEMMA LiftKeepsDep ==
  ASSUME NEW how, NEW why, NEW b \in BranchOf(Kin(how, why)), NEW lifted, lifted # why,
         NEW i, \E w \in Range(b.members) : w.dep = i
  PROVE  \E x \in Range(Lift(b, lifted).members) : x.dep = i
BY LiftKin

\* A dependency with such an update keeps its place in the request.
LEMMA RunKeepsPlace ==
  ASSUME NEW how, NEW knowsOpen \in BOOLEAN, NEW refused, Acted(Branch(how, knowsOpen, refused)),
         NEW m \in request, m.dep \in Dep, NEW v, FreeOffer(m.dep, how, v)
  PROVE  \E n \in request' : n.dep = m.dep
<1>0. PICK none : none = ""
  OBVIOUS
<1> DEFINE i == m.dep
           T == Kin(how, none)
           Has(c) == \E w \in Range(c.members) : w.dep = i
           S == {c \in BranchOf(T) : Has(c)}
           b0 == Compose(PlanOf(how))
           b1 == LiftByDashboard(b0, Ticks)
           b2 == LiftForOpen(b1, knowsOpen /\ request /= Closed)
           b3 == Realise(b2, refused)
<1>1. b0 \in S
  <2> DEFINE T0 == DecidedAny(how)  u == Decided(i, v)
  <2>1. PlanOf(how) \in Seq(T0) /\ Decidable(T0) /\ u \in Range(PlanOf(how))
    BY PlanTyped DEF FreeOffer
  <2>2. u.dep = i /\ u.blocks = BlocksOf(i, v)
    <3>1. u = Member(i, v, BlocksOf(i, v))
      BY DecideBlocks
    <3> HIDE DEF u
    <3> QED BY <3>1 DEF Member
  <2>3. ASSUME windowOpen PROVE Has(b0)
    <3>1. ~Blocked(u)
      BY <2>2, <2>3, DecideBlocks DEF FreeOffer, Blocked
    <3> HIDE DEF T0, u
    <3> QED BY <2>1, <2>2, <3>1, ComposeCarries
  <2>4. ASSUME ~windowOpen PROVE Has(b0)
    <3>1. \A w \in T0 : Blocked(w)
      <4> SUFFICES ASSUME NEW w \in T0 PROVE Blocked(w)
        OBVIOUS
      <4>1. PICK j \in Dep : \E x \in Updates(j, how[j]) : w = Decided(j, x)
        BY DEF DecidedAny
      <4>2. PICK x \in Updates(j, how[j]) : w = Decided(j, x)
        BY <4>1
      <4>3. w = Member(j, x, BlocksOf(j, x)) /\ BlocksOf(j, x) # <<>>
        BY <2>4, <4>2, DecideBlocks
      <4> QED BY <4>3 DEF Member, Blocked
    <3> HIDE DEF T0, u
    <3> QED BY <2>1, <2>2, <3>1, ComposeCarries
  <2>5. Has(b0)
    BY <2>3, <2>4
  <2>6. b0 \in BranchOf(T)
    <3>1. T0 \subseteq T /\ Decidable(T)
      BY DecidedKin
    <3>2. PlanOf(how) \in Seq(T)
      <4> HIDE DEF T0, T
      <4> QED BY <2>1, <3>1
    <3> QED BY <3>1, <3>2, ComposeTyped
  <2> QED BY <2>5, <2>6
<1>2. \A c \in S : \A lifted : lifted # none => Lift(c, lifted) \in S
  <2> SUFFICES ASSUME NEW c \in S, NEW lifted, lifted # none PROVE Lift(c, lifted) \in S
    OBVIOUS
  <2>1. Lift(c, lifted) \in BranchOf(T)
    BY LiftKin
  <2>2. c \in BranchOf(T) /\ \E w \in Range(c.members) : w.dep = i
    OBVIOUS
  <2>3. \E x \in Range(Lift(c, lifted).members) : x.dep = i
    BY <2>2, LiftKeepsDep
  <2> QED BY <2>1, <2>2, <2>3
<1> HIDE DEF S, b0
<1>3. b1 \in S
  <2>1. LiftsWithin(S, Ticks)
    BY <1>0, <1>2 DEF LiftsWithin
  <2> QED BY <1>1, <2>1, RoundsStay
<1> HIDE DEF b1
<1>4. b2 \in S
  BY <1>0, <1>2, <1>3 DEF LiftForOpen
<1>5. b3 = Branch(how, knowsOpen, refused)
  BY DEF Branch, b1, b0
<1> HIDE DEF b2
<1>6. b2 \in BranchOf(T) /\ \E k \in DOMAIN b2.members : b2.members[k].dep = i
  BY <1>4 DEF S, Range
<1>7. PICK k \in DOMAIN b2.members : b2.members[k].dep = i
  BY <1>6
<1>8. CASE Acts(b3)
  <2>1. b3 = b2
    BY <1>6, <1>8, ActsUnheld
  <2>2. request' = Carried(b2)
    BY <1>5, <1>8, <2>1 DEF Acted
  <2> DEFINE n == [dep |-> b2.members[k].dep, value |-> b2.members[k].value, version |-> b2.members[k].version]
  <2>3. n \in Carried(b2) /\ n.dep = i
    BY <1>7 DEF Carried
  <2> QED BY <2>2, <2>3
<1>9. CASE ~Acts(b3)
  <2>1. DOMAIN b3.members = DOMAIN b2.members
    BY <1>6 DEF Realise, HoldBranch, BranchOf
  <2>2. b3.members # <<>>
    <3>1. k \in DOMAIN b3.members /\ DOMAIN <<>> = {}
      BY <1>7, <2>1
    <3> QED BY <3>1
  <2>3. request' = request
    BY <1>5, <1>9, <2>2 DEF Acted
  <2> QED BY <2>3
<1> QED BY <1>8, <1>9

-----------------------------------------------------------------------------
(* The order of versions.                                                  *)

\* A strict order of A in which any two elements can be told apart.
Orders(A) ==
  {L \in SUBSET (A \X A) :
     /\ \A x \in A : <<x, x>> \notin L
     /\ \A x \in A : \A y \in A : x = y \/ <<x, y>> \in L \/ <<y, x>> \in L
     /\ \A x \in A : \A y \in A : \A z \in A : <<x, y>> \in L /\ <<y, z>> \in L => <<x, z>> \in L}

\* Sequences by their first difference, and by their lengths if there is none.
Before(L, shorter, s, t) ==
  LET i == FirstDiff(s, t)
  IN IF i > 0 THEN <<s[i], t[i]>> \in L
     ELSE IF shorter THEN Len(s) < Len(t) ELSE Len(t) < Len(s)

\* The first difference is one and the first.
LEMMA FirstDiffIs ==
  ASSUME NEW A, NEW s \in Seq(A), NEW t \in Seq(A), NEW i, i = FirstDiff(s, t)
  PROVE  /\ i \in Nat /\ i <= Len(s) /\ i <= Len(t)
         /\ i > 0 => s[i] # t[i]
         /\ \A j \in Nat : 0 < j /\ j <= Len(s) /\ j <= Len(t) /\ (i = 0 \/ j < i) => s[j] = t[j]
<1> DEFINE places == {j \in DOMAIN s \cap DOMAIN t : s[j] /= t[j]}
<1>0. Len(s) \in Nat /\ Len(t) \in Nat /\ DOMAIN s = 1..Len(s) /\ DOMAIN t = 1..Len(t)
  OBVIOUS
<1>1. \A j : j \in places <=> j \in Nat /\ 0 < j /\ j <= Len(s) /\ j <= Len(t) /\ s[j] # t[j]
  BY <1>0
<1>2. i = FirstOf(places)
  BY DEF FirstDiff
<1> HIDE DEF places
<1>3. CASE places = {}
  BY <1>0, <1>1, <1>2, <1>3 DEF FirstOf
<1>4. CASE places # {}
  <2>1. places \subseteq Nat
    BY <1>1
  <2>2. PICK m \in places : \A x \in places : m <= x
    BY <1>4, <2>1, LeastExists
  <2>3. i \in places /\ \A x \in places : i <= x
    BY <1>2, <1>4, <2>2 DEF FirstOf
  <2> QED BY <1>1, <2>1, <2>3
<1> QED BY <1>3, <1>4

\* So it is the same either way.
LEMMA FirstDiffSame ==
  ASSUME NEW A, NEW s \in Seq(A), NEW t \in Seq(A)
  PROVE  FirstDiff(s, t) = FirstDiff(t, s) /\ FirstDiff(s, t) \in Nat
<1>1. {j \in DOMAIN s \cap DOMAIN t : s[j] /= t[j]} = {j \in DOMAIN t \cap DOMAIN s : t[j] /= s[j]}
  OBVIOUS
<1> QED BY <1>1, FirstDiffIs DEF FirstDiff

\* Any two sequences can be told apart.
LEMMA BeforeTotal ==
  ASSUME NEW A, NEW L \in Orders(A), NEW shorter \in BOOLEAN, NEW s \in Seq(A), NEW t \in Seq(A)
  PROVE  /\ s = t \/ Before(L, shorter, s, t) \/ Before(L, shorter, t, s)
         /\ ~Before(L, shorter, s, s)
<1>1. PICK i : i = FirstDiff(s, t) /\ i = FirstDiff(t, s) /\ i \in Nat
  BY FirstDiffSame
<1>2. FirstDiff(s, s) = 0
  <2>1. PICK j : j = FirstDiff(s, s)
    OBVIOUS
  <2> QED BY <2>1, FirstDiffIs
<1>3. ~Before(L, shorter, s, s)
  BY <1>2 DEF Before
<1>4. /\ Len(s) \in Nat /\ Len(t) \in Nat /\ i <= Len(s) /\ i <= Len(t)
      /\ i > 0 => s[i] # t[i]
      /\ \A j \in Nat : 0 < j /\ j <= Len(s) /\ j <= Len(t) /\ (i = 0 \/ j < i) => s[j] = t[j]
  BY <1>1, FirstDiffIs
<1>5. CASE i > 0
  <2>1. s[i] \in A /\ t[i] \in A
    BY <1>1, <1>4, <1>5
  <2> QED BY <1>1, <1>3, <1>4, <1>5, <2>1 DEF Before, Orders
<1>6. CASE i = 0 /\ Len(s) = Len(t)
  <2>1. \A j \in 1..Len(s) : s[j] = t[j]
    BY <1>4, <1>6
  <2>2. s = t
    BY <1>6, <2>1
  <2> QED BY <1>3, <2>2
<1>7. CASE i = 0 /\ Len(s) # Len(t)
  BY <1>1, <1>3, <1>4, <1>7 DEF Before
<1> QED BY <1>1, <1>5, <1>6, <1>7

\* And the order goes on.
LEMMA BeforeTransitive ==
  ASSUME NEW A, NEW L \in Orders(A), NEW shorter \in BOOLEAN,
         NEW s \in Seq(A), NEW t \in Seq(A), NEW u \in Seq(A), Before(L, shorter, s, t), Before(L, shorter, t, u)
  PROVE  Before(L, shorter, s, u)
<1> DEFINE Agree(p, q, i) ==
             /\ i \in Nat /\ i <= Len(p) /\ i <= Len(q)
             /\ i > 0 => p[i] # q[i]
             /\ \A x \in Nat : 0 < x /\ x <= Len(p) /\ x <= Len(q) /\ (i = 0 \/ x < i) => p[x] = q[x]
<1>1. PICK i : i = FirstDiff(s, t)
  OBVIOUS
<1>2. PICK j : j = FirstDiff(t, u)
  OBVIOUS
<1>3. PICK k : k = FirstDiff(s, u)
  OBVIOUS
<1>4. Agree(s, t, i) /\ Agree(t, u, j) /\ Agree(s, u, k)
  BY <1>1, <1>2, <1>3, FirstDiffIs
<1>5. Len(s) \in Nat /\ Len(t) \in Nat /\ Len(u) \in Nat
  OBVIOUS
<1>6. /\ \A x \in Nat : 0 < x /\ x <= Len(s) => s[x] \in A
      /\ \A x \in Nat : 0 < x /\ x <= Len(t) => t[x] \in A
      /\ \A x \in Nat : 0 < x /\ x <= Len(u) => u[x] \in A
  OBVIOUS
<1>7. /\ i > 0 => <<s[i], t[i]>> \in L
      /\ i = 0 => IF shorter THEN Len(s) < Len(t) ELSE Len(t) < Len(s)
      /\ j > 0 => <<t[j], u[j]>> \in L
      /\ j = 0 => IF shorter THEN Len(t) < Len(u) ELSE Len(u) < Len(t)
  BY <1>1, <1>2, <1>4 DEF Before
<1>8. SUFFICES IF k > 0 THEN <<s[k], u[k]>> \in L
               ELSE IF shorter THEN Len(s) < Len(u) ELSE Len(u) < Len(s)
  BY <1>3 DEF Before
<1>9. CASE i > 0 /\ (j = 0 \/ i < j)
  <2>1. t[i] = u[i] \/ i > Len(u)
    BY <1>4, <1>5, <1>9
  <2>2. CASE i <= Len(u)
    <3>1. t[i] = u[i] /\ s[i] # u[i]
      BY <1>4, <1>9, <2>1, <2>2
    <3>2. \A x \in Nat : 0 < x /\ x < i => s[x] = u[x]
      BY <1>4, <1>5, <1>9, <2>2
    <3>3. k = i
      BY <1>4, <1>9, <2>2, <3>1, <3>2
    <3> QED BY <1>7, <1>9, <3>1, <3>3
  <2>3. CASE i > Len(u)
    <3>1. j = 0 /\ ~shorter
      BY <1>4, <1>5, <1>7, <1>9, <2>3
    <3>2. \A x \in Nat : 0 < x /\ x <= Len(u) => s[x] = u[x]
      BY <1>4, <1>5, <1>9, <2>3, <3>1
    <3>3. k = 0 /\ Len(u) < Len(s)
      BY <1>4, <1>5, <2>3, <3>2
    <3> QED BY <3>1, <3>3
  <2> QED BY <1>4, <1>5, <2>2, <2>3
<1>10. CASE j > 0 /\ (i = 0 \/ j < i)
  <2>1. CASE j <= Len(s)
    <3>1. s[j] = t[j] /\ s[j] # u[j]
      BY <1>4, <1>5, <1>10, <2>1
    <3>2. \A x \in Nat : 0 < x /\ x < j => s[x] = u[x]
      BY <1>4, <1>5, <1>10, <2>1
    <3>3. k = j
      BY <1>4, <1>10, <2>1, <3>1, <3>2
    <3> QED BY <1>7, <1>10, <3>1, <3>3
  <2>2. CASE j > Len(s)
    <3>1. i = 0 /\ shorter
      BY <1>4, <1>5, <1>7, <1>10, <2>2
    <3>2. \A x \in Nat : 0 < x /\ x <= Len(s) => s[x] = u[x]
      BY <1>4, <1>5, <1>10, <2>2, <3>1
    <3>3. k = 0 /\ Len(s) < Len(u)
      BY <1>4, <1>5, <2>2, <3>2
    <3> QED BY <3>1, <3>3
  <2> QED BY <1>4, <1>5, <2>1, <2>2
<1>11. CASE i > 0 /\ i = j
  <2>1. s[i] \in A /\ t[i] \in A /\ u[i] \in A
    BY <1>4, <1>6, <1>11
  <2>2. <<s[i], u[i]>> \in L
    BY <1>7, <1>11, <2>1 DEF Orders
  <2>3. s[i] # u[i]
    BY <2>1, <2>2 DEF Orders
  <2>4. \A x \in Nat : 0 < x /\ x < i => s[x] = u[x]
    BY <1>4, <1>5, <1>11
  <2>5. k = i
    BY <1>4, <1>5, <1>11, <2>3, <2>4
  <2> QED BY <1>11, <2>2, <2>5
<1>12. CASE i = 0 /\ j = 0
  <2>1. IF shorter THEN Len(s) < Len(u) ELSE Len(u) < Len(s)
    BY <1>5, <1>7, <1>12
  <2>2. \A x \in Nat : 0 < x /\ x <= Len(s) /\ x <= Len(u) => s[x] = u[x]
    BY <1>4, <1>5, <1>7, <1>12
  <2>3. k = 0
    BY <1>4, <2>2
  <2> QED BY <2>1, <2>3
<1> QED BY <1>4, <1>9, <1>10, <1>11, <1>12

\* A relation that compares any two elements of V and goes on.
Ranks(V, R) ==
  /\ \A x \in V : \A y \in V : <<x, y>> \in R \/ <<y, x>> \in R
  /\ \A x \in V : \A y \in V : \A z \in V : <<x, y>> \in R /\ <<y, z>> \in R => <<x, z>> \in R

\* A finite set has an element none outranks.
LEMMA TopExists ==
  ASSUME NEW X, IsFiniteSet(X), X # {}, NEW R, Ranks(X, R)
  PROVE  \E v \in X : \A w \in X : <<w, v>> \in R
<1> DEFINE Tops(V) == \E v \in V : \A w \in V : <<w, v>> \in R
           T == {m \in Nat : \A V \in SUBSET X : Cardinality(V) = m + 1 => Tops(V)}
<1>1. Cardinality(X) \in Nat /\ Cardinality(X) # 0
  BY FS_CardinalityType, FS_EmptySet
<1>2. PICK n \in Nat : Cardinality(X) = n + 1
  BY <1>1
<1>3. 0 \in T
  <2> SUFFICES ASSUME NEW V \in SUBSET X, Cardinality(V) = 0 + 1 PROVE Tops(V)
    OBVIOUS
  <2>1. IsFiniteSet(V)
    BY FS_Subset
  <2>2. Cardinality(V) = 1
    OBVIOUS
  <2>3. PICK v : V = {v}
    <3>1. \E v : V = {v}
      BY <2>1, <2>2, FS_Singleton, Zenon
    <3> QED BY <3>1
  <2> QED BY <2>3 DEF Ranks
<1>4. ASSUME NEW m \in 0..(n - 1), m \in T PROVE m + 1 \in T
  <2> SUFFICES ASSUME NEW V \in SUBSET X, Cardinality(V) = (m + 1) + 1 PROVE Tops(V)
    OBVIOUS
  <2>1. IsFiniteSet(V)
    BY FS_Subset
  <2>2. V # {}
    BY FS_EmptySet
  <2>3. PICK x \in V : TRUE
    BY <2>2
  <2>4. Cardinality(V \ {x}) = m + 1
    <3>1. Cardinality(V \ {x}) = Cardinality(V) - 1
      BY <2>1, <2>3, FS_RemoveElement
    <3> HIDE DEF T, Tops
    <3> QED BY <3>1
  <2>5. Tops(V \ {x})
    BY <1>4, <2>4
  <2>6. PICK v \in V \ {x} : \A w \in V \ {x} : <<w, v>> \in R
    BY <2>5
  <2>7. CASE <<x, v>> \in R
    BY <2>6, <2>7
  <2>8. CASE <<x, v>> \notin R
    <3>1. <<v, x>> \in R /\ <<x, x>> \in R
      BY <2>8 DEF Ranks
    <3>2. \A w \in V : <<w, x>> \in R
      BY <2>6, <3>1 DEF Ranks
    <3> QED BY <3>2
  <2> QED BY <2>7, <2>8
<1> HIDE DEF T, Tops
<1>5. \A k \in 0..n : k \in T
  BY <1>3, <1>4, Climb
<1>6. n \in T
  BY <1>5
<1>7. Tops(X)
  BY <1>2, <1>6 DEF T
<1> QED BY <1>7 DEF Tops

\* Identifiers of a prerelease: <<0, k>> for a number, <<1, k>> for a word.
Idents == {0, 1} \X Nat
Less == {p \in Nat \X Nat : p[1] < p[2]}
Lower == {p \in Idents \X Idents : p[1][1] < p[2][1] \/ (p[1][1] = p[2][1] /\ p[1][2] < p[2][2])}

\* Numbers and identifiers are ordered.
LEMMA LessOrders == Less \in Orders(Nat) /\ Lower \in Orders(Idents)
<1>1. \A x \in Nat : \A y \in Nat : <<x, y>> \in Less <=> x < y
  BY DEF Less
<1>2. Less \in Orders(Nat)
  <2>1. Less \in SUBSET (Nat \X Nat)
    BY DEF Less
  <2> QED BY <1>1, <2>1 DEF Orders
<1>3. \A x \in Idents : \A y \in Idents : <<x, y>> \in Lower <=> x[1] < y[1] \/ (x[1] = y[1] /\ x[2] < y[2])
  BY DEF Lower
<1>4. \A x \in Idents : x = <<x[1], x[2]>> /\ x[1] \in Nat /\ x[2] \in Nat
  BY DEF Idents
<1>5. Lower \in SUBSET (Idents \X Idents)
  BY DEF Lower
<1>6. \A x \in Idents : <<x, x>> \notin Lower
  BY <1>3, <1>4
<1>7. ASSUME NEW x \in Idents, NEW y \in Idents PROVE x = y \/ <<x, y>> \in Lower \/ <<y, x>> \in Lower
  <2>1. x[1] = y[1] /\ x[2] = y[2] => x = y
    BY <1>4
  <2> QED BY <1>3, <1>4, <2>1
<1>8. ASSUME NEW x \in Idents, NEW y \in Idents, NEW z \in Idents, <<x, y>> \in Lower, <<y, z>> \in Lower
      PROVE  <<x, z>> \in Lower
  BY <1>3, <1>4, <1>8
<1>9. Lower \in Orders(Idents)
  BY <1>5, <1>6, <1>7, <1>8 DEF Orders
<1> QED BY <1>2, <1>9

\* Sign tells which is less.
LEMMA SignIs ==
  ASSUME NEW a \in Nat, NEW b \in Nat
  PROVE  /\ Sign(a, b) \in {-1, 0, 1}
         /\ Sign(a, b) <= 0 <=> a <= b
         /\ Sign(a, b) < 0 <=> a < b
         /\ Sign(a, b) = 0 <=> a = b
BY DEF Sign

\* What a comparison answers by the numbers, and by the rest if they are equal.
NumbersCompare(s, t, shorter, tie) ==
  DecidedAt(FirstDiff(s, t), s, t,
    IF Len(s) # Len(t) THEN (IF shorter THEN Sign(Len(s), Len(t)) ELSE Sign(Len(t), Len(s))) ELSE tie)

\* It tells which numbers are before the others.
LEMMA NumbersCompared ==
  ASSUME NEW s \in Seq(Nat), NEW t \in Seq(Nat), NEW tie \in {-1, 0, 1}, NEW shorter \in BOOLEAN
  PROVE  /\ NumbersCompare(s, t, shorter, tie) \in {-1, 0, 1}
         /\ NumbersCompare(s, t, shorter, tie) <= 0 <=> Before(Less, shorter, s, t) \/ (s = t /\ tie <= 0)
<1>1. PICK i : i = FirstDiff(s, t)
  OBVIOUS
<1>2. /\ i \in Nat /\ i <= Len(s) /\ i <= Len(t)
      /\ i > 0 => s[i] # t[i]
      /\ \A j \in Nat : 0 < j /\ j <= Len(s) /\ j <= Len(t) /\ (i = 0 \/ j < i) => s[j] = t[j]
  BY <1>1, FirstDiffIs
<1>3. Len(s) \in Nat /\ Len(t) \in Nat
  OBVIOUS
<1> DEFINE rest == IF Len(s) # Len(t) THEN (IF shorter THEN Sign(Len(s), Len(t)) ELSE Sign(Len(t), Len(s))) ELSE tie
           c == DecidedAt(i, s, t, rest)
<1>4. SUFFICES c \in {-1, 0, 1} /\ (c <= 0 <=> Before(Less, shorter, s, t) \/ (s = t /\ tie <= 0))
  BY <1>1 DEF NumbersCompare
<1>5. CASE i > 0
  <2>1. s[i] \in Nat /\ t[i] \in Nat /\ s # t
    BY <1>2, <1>3, <1>5
  <2>2. c = Sign(s[i], t[i])
    BY <1>5 DEF DecidedAt
  <2>3. Before(Less, shorter, s, t) <=> <<s[i], t[i]>> \in Less
    BY <1>1, <1>5 DEF Before
  <2>4. <<s[i], t[i]>> \in Less <=> s[i] < t[i]
    BY <2>1 DEF Less
  <2> HIDE DEF c
  <2> QED BY <1>2, <1>5, <2>1, <2>2, <2>3, <2>4, SignIs
<1>6. CASE i = 0 /\ Len(s) = Len(t)
  <2>1. s = t
    <3>1. \A j \in 1..Len(s) : s[j] = t[j]
      BY <1>2, <1>6
    <3> QED BY <1>6, <3>1
  <2>2. c = tie
    BY <1>6 DEF DecidedAt
  <2>3. ~Before(Less, shorter, s, t)
    BY <2>1, BeforeTotal, LessOrders
  <2> QED BY <2>1, <2>2, <2>3
<1>7. CASE i = 0 /\ Len(s) # Len(t)
  <2>1. s # t
    BY <1>7
  <2>2. c = IF shorter THEN Sign(Len(s), Len(t)) ELSE Sign(Len(t), Len(s))
    BY <1>7 DEF DecidedAt
  <2>3. Before(Less, shorter, s, t) <=> IF shorter THEN Len(s) < Len(t) ELSE Len(t) < Len(s)
    BY <1>1, <1>7 DEF Before
  <2> HIDE DEF c
  <2> QED BY <1>3, <1>7, <2>1, <2>2, <2>3, SignIs
<1> QED BY <1>2, <1>5, <1>6, <1>7

\* What a comparison of identifiers answers.
IdentsCompare(p, q) == IdentsFrom(FirstDiff(p, q), p, q, Sign(Len(p), Len(q)))
Tells(c, before, same) == c \in {-1, 0, 1} /\ (c <= 0 <=> before \/ same)

\* It tells whether one is before the other or the same.
LEMMA IdentsCompared ==
  ASSUME NEW p \in Seq(Idents), NEW q \in Seq(Idents)
  PROVE  Tells(IdentsCompare(p, q), Before(Lower, TRUE, p, q), p = q)
<1>1. PICK i \in Nat : i = FirstDiff(p, q)
  BY FirstDiffSame
<1>2. /\ i \in Nat /\ i <= Len(p) /\ i <= Len(q)
      /\ i > 0 => p[i] # q[i]
      /\ \A j \in Nat : 0 < j /\ j <= Len(p) /\ j <= Len(q) /\ (i = 0 \/ j < i) => p[j] = q[j]
  BY <1>1, FirstDiffIs
<1>3. Len(p) \in Nat /\ Len(q) \in Nat
  OBVIOUS
<1>4. CASE i > 0
  <2>1. p[i] \in Idents /\ q[i] \in Idents /\ p # q
    BY <1>2, <1>3, <1>4
  <2>2. PICK x \in Idents, y \in Idents : x = p[i] /\ y = q[i]
    BY <2>1
  <2>3. IdentsCompare(p, q) = CompareIdents(x, y)
    BY <1>1, <1>4, <2>2 DEF IdentsCompare, IdentsFrom
  <2>4. Before(Lower, TRUE, p, q) <=> <<x, y>> \in Lower
    BY <1>1, <1>4, <2>2 DEF Before
  <2>5. <<x, y>> \in Lower <=> x[1] < y[1] \/ (x[1] = y[1] /\ x[2] < y[2])
    BY DEF Lower
  <2>6. x[1] \in Nat /\ x[2] \in Nat /\ y[1] \in Nat /\ y[2] \in Nat
        /\ (x[1] = y[1] /\ x[2] = y[2] => x = y)
    <3>1. \A z \in Idents : z = <<z[1], z[2]>> /\ z[1] \in Nat /\ z[2] \in Nat
      BY DEF Idents
    <3> QED BY <3>1
  <2>7. x # y
    BY <1>2, <1>4, <2>2
  <2>8. CompareIdents(x, y) \in {-1, 0, 1}
        /\ (CompareIdents(x, y) <= 0 <=> x[1] < y[1] \/ (x[1] = y[1] /\ x[2] <= y[2]))
    BY <2>6, SignIs DEF CompareIdents
  <2>9. CompareIdents(x, y) <= 0 <=> <<x, y>> \in Lower
    BY <2>5, <2>6, <2>7, <2>8
  <2> QED BY <2>1, <2>3, <2>4, <2>8, <2>9 DEF Tells
<1>5. CASE i = 0 /\ Len(p) = Len(q)
  <2>1. p = q
    <3>1. \A j \in 1..Len(p) : p[j] = q[j]
      BY <1>2, <1>5
    <3> QED BY <1>5, <3>1
  <2>2. IdentsCompare(p, q) = Sign(Len(p), Len(q))
    BY <1>1, <1>5 DEF IdentsCompare, IdentsFrom
  <2>3. Sign(Len(p), Len(q)) = 0
    BY <1>3, <1>5, SignIs
  <2> QED BY <2>1, <2>2, <2>3 DEF Tells
<1>6. CASE i = 0 /\ Len(p) # Len(q)
  <2>1. IdentsCompare(p, q) = Sign(Len(p), Len(q)) /\ p # q
    BY <1>1, <1>6 DEF IdentsCompare, IdentsFrom
  <2>2. Before(Lower, TRUE, p, q) <=> Len(p) < Len(q)
    BY <1>1, <1>6 DEF Before
  <2>3. Sign(Len(p), Len(q)) \in {-1, 0, 1} /\ (Sign(Len(p), Len(q)) <= 0 <=> Len(p) < Len(q))
    BY <1>3, <1>6, SignIs
  <2> QED BY <2>1, <2>2, <2>3 DEF Tells
<1>7. i > 0 \/ (i = 0 /\ Len(p) = Len(q)) \/ (i = 0 /\ Len(p) # Len(q))
  OBVIOUS
<1> QED BY <1>4, <1>5, <1>6, <1>7, Zenon

\* The order of prereleases: a version without one comes last.
PreBefore(p, q) == IF p = <<>> \/ q = <<>> THEN Len(q) < Len(p) ELSE Before(Lower, TRUE, p, q)

\* It tells any two prereleases apart and goes on.
LEMMA PreOrdered ==
  ASSUME NEW p \in Seq(Idents), NEW q \in Seq(Idents), NEW r \in Seq(Idents)
  PROVE  /\ p = q \/ PreBefore(p, q) \/ PreBefore(q, p)
         /\ PreBefore(p, q) /\ PreBefore(q, r) => PreBefore(p, r)
<1>1. /\ Len(p) \in Nat /\ Len(q) \in Nat /\ Len(r) \in Nat
      /\ (p = <<>> <=> Len(p) = 0) /\ (q = <<>> <=> Len(q) = 0) /\ (r = <<>> <=> Len(r) = 0)
  OBVIOUS
<1>2. p = q \/ Before(Lower, TRUE, p, q) \/ Before(Lower, TRUE, q, p)
  BY BeforeTotal, LessOrders
<1>3. p = q \/ PreBefore(p, q) \/ PreBefore(q, p)
  <2>1. CASE p # <<>> /\ q # <<>>
    BY <1>2, <2>1 DEF PreBefore
  <2>2. CASE p = <<>> \/ q = <<>>
    <3>1. (PreBefore(p, q) <=> Len(q) < Len(p)) /\ (PreBefore(q, p) <=> Len(p) < Len(q))
      BY <2>2 DEF PreBefore
    <3>2. Len(p) = Len(q) => p = q
      BY <1>1, <2>2
    <3> QED BY <1>1, <3>1, <3>2
  <2> QED BY <2>1, <2>2
<1>4. Before(Lower, TRUE, p, q) /\ Before(Lower, TRUE, q, r) => Before(Lower, TRUE, p, r)
  BY BeforeTransitive, LessOrders
<1>5. PreBefore(p, q) /\ PreBefore(q, r) => PreBefore(p, r)
  <2> SUFFICES ASSUME PreBefore(p, q), PreBefore(q, r) PROVE PreBefore(p, r)
    OBVIOUS
  <2>1. q # <<>>
    <3> SUFFICES ASSUME q = <<>> PROVE FALSE
      OBVIOUS
    <3>1. Len(r) < Len(q)
      BY DEF PreBefore
    <3> QED BY <1>1, <3>1
  <2>2. p # <<>>
    <3> SUFFICES ASSUME p = <<>> PROVE FALSE
      OBVIOUS
    <3>1. Len(q) < Len(p)
      BY DEF PreBefore
    <3> QED BY <1>1, <3>1
  <2>3. CASE r = <<>>
    BY <1>1, <2>2, <2>3 DEF PreBefore
  <2>4. CASE r # <<>>
    BY <1>4, <2>1, <2>2, <2>4 DEF PreBefore
  <2> QED BY <2>3, <2>4
<1> QED BY <1>3, <1>5

\* And ComparePre answers by it.
LEMMA PreCompared ==
  ASSUME NEW p \in Seq(Idents), NEW q \in Seq(Idents)
  PROVE  /\ ComparePre(p, q) \in {-1, 0, 1}
         /\ ComparePre(p, q) <= 0 <=> PreBefore(p, q) \/ p = q
<1>1. /\ Len(p) \in Nat /\ Len(q) \in Nat
      /\ (p = <<>> <=> Len(p) = 0) /\ (q = <<>> <=> Len(q) = 0)
  OBVIOUS
<1>2. CASE p = <<>> \/ q = <<>>
  <2>1. ComparePre(p, q) = Sign(Len(q), Len(p)) /\ (PreBefore(p, q) <=> Len(q) < Len(p))
    BY <1>2 DEF ComparePre, PreBefore
  <2>2. p = q <=> Len(p) = Len(q)
    BY <1>1, <1>2
  <2>3. /\ Sign(Len(q), Len(p)) \in {-1, 0, 1}
        /\ Sign(Len(q), Len(p)) <= 0 <=> Len(q) <= Len(p)
    BY <1>1, SignIs
  <2> QED BY <1>1, <2>1, <2>2, <2>3
<1>3. CASE ~(p = <<>> \/ q = <<>>)
  <2>1. ComparePre(p, q) = IdentsCompare(p, q) /\ (PreBefore(p, q) <=> Before(Lower, TRUE, p, q))
    BY <1>3 DEF ComparePre, PreBefore, IdentsCompare
  <2> QED BY <2>1, IdentsCompared DEF Tells
<1> QED BY <1>2, <1>3

-----------------------------------------------------------------------------
\* A version that was read: numbers and identifiers.
Read(v) == v.n \in Seq(Nat) /\ v.pre \in Seq(Idents)

\* The orders of loose and of docker.
LooseBefore(a, b) == Before(Less, TRUE, a.n, b.n) \/ (a.n = b.n /\ PreBefore(a.pre, b.pre))
DockerBefore(a, b) == Before(Less, FALSE, a.n, b.n) \/ (a.n = b.n /\ Before(Lower, TRUE, b.pre, a.pre))
Alike(a, b) == a.n = b.n /\ a.pre = b.pre

\* They tell any two versions apart and go on.
LEMMA LooseOrdered ==
  ASSUME NEW a, NEW b, NEW c, Read(a), Read(b), Read(c)
  PROVE  /\ Alike(a, b) \/ LooseBefore(a, b) \/ LooseBefore(b, a)
         /\ (LooseBefore(a, b) \/ Alike(a, b)) /\ (LooseBefore(b, c) \/ Alike(b, c)) => LooseBefore(a, c) \/ Alike(a, c)
<1>1. /\ a.n \in Seq(Nat) /\ b.n \in Seq(Nat) /\ c.n \in Seq(Nat)
      /\ a.pre \in Seq(Idents) /\ b.pre \in Seq(Idents) /\ c.pre \in Seq(Idents)
  BY DEF Read
<1>2. /\ a.n = b.n \/ Before(Less, TRUE, a.n, b.n) \/ Before(Less, TRUE, b.n, a.n)
      /\ Before(Less, TRUE, a.n, b.n) /\ Before(Less, TRUE, b.n, c.n) => Before(Less, TRUE, a.n, c.n)
  BY <1>1, BeforeTotal, BeforeTransitive, LessOrders
<1>3. /\ a.pre = b.pre \/ PreBefore(a.pre, b.pre) \/ PreBefore(b.pre, a.pre)
      /\ PreBefore(a.pre, b.pre) /\ PreBefore(b.pre, c.pre) => PreBefore(a.pre, c.pre)
  BY <1>1, PreOrdered
<1> QED BY <1>2, <1>3 DEF LooseBefore, Alike

\* The same of the order of docker.
LEMMA DockerOrdered ==
  ASSUME NEW a, NEW b, NEW c, Read(a), Read(b), Read(c)
  PROVE  /\ Alike(a, b) \/ DockerBefore(a, b) \/ DockerBefore(b, a)
         /\ (DockerBefore(a, b) \/ Alike(a, b)) /\ (DockerBefore(b, c) \/ Alike(b, c)) => DockerBefore(a, c) \/ Alike(a, c)
<1>1. /\ a.n \in Seq(Nat) /\ b.n \in Seq(Nat) /\ c.n \in Seq(Nat)
      /\ a.pre \in Seq(Idents) /\ b.pre \in Seq(Idents) /\ c.pre \in Seq(Idents)
  BY DEF Read
<1>2. /\ a.n = b.n \/ Before(Less, FALSE, a.n, b.n) \/ Before(Less, FALSE, b.n, a.n)
      /\ Before(Less, FALSE, a.n, b.n) /\ Before(Less, FALSE, b.n, c.n) => Before(Less, FALSE, a.n, c.n)
  BY <1>1, BeforeTotal, BeforeTransitive, LessOrders
<1>3. /\ a.pre = b.pre \/ Before(Lower, TRUE, a.pre, b.pre) \/ Before(Lower, TRUE, b.pre, a.pre)
      /\ Before(Lower, TRUE, c.pre, b.pre) /\ Before(Lower, TRUE, b.pre, a.pre) => Before(Lower, TRUE, c.pre, a.pre)
  BY <1>1, BeforeTotal, BeforeTransitive, LessOrders
<1> QED BY <1>2, <1>3 DEF DockerBefore, Alike

\* And the schemes answer by them.
LEMMA LooseCompared ==
  ASSUME NEW a, NEW b, Read(a), Read(b)
  PROVE  LooseCompare(a, b) <= 0 <=> LooseBefore(a, b) \/ Alike(a, b)
<1>1. /\ a.n \in Seq(Nat) /\ b.n \in Seq(Nat) /\ a.pre \in Seq(Idents) /\ b.pre \in Seq(Idents)
  BY DEF Read
<1>2. PICK tie \in {-1, 0, 1} : tie = ComparePre(a.pre, b.pre)
  BY <1>1, PreCompared
<1>3. tie <= 0 <=> PreBefore(a.pre, b.pre) \/ a.pre = b.pre
  BY <1>1, <1>2, PreCompared
<1>4. LooseCompare(a, b) = NumbersCompare(a.n, b.n, TRUE, tie)
  BY <1>2 DEF LooseCompare, NumbersCompare
<1>5. LooseCompare(a, b) <= 0 <=> Before(Less, TRUE, a.n, b.n) \/ (a.n = b.n /\ tie <= 0)
  <2>1. NumbersCompare(a.n, b.n, TRUE, tie) <= 0 <=> Before(Less, TRUE, a.n, b.n) \/ (a.n = b.n /\ tie <= 0)
    BY <1>1, NumbersCompared
  <2> QED BY <1>4, <2>1
<1> QED BY <1>3, <1>5 DEF LooseBefore, Alike

\* As the comparison of docker does by its own.
LEMMA DockerCompared ==
  ASSUME NEW a, NEW b, Read(a), Read(b)
  PROVE  DockerCompare(a, b) <= 0 <=> DockerBefore(a, b) \/ Alike(a, b)
<1>1. /\ a.n \in Seq(Nat) /\ b.n \in Seq(Nat) /\ a.pre \in Seq(Idents) /\ b.pre \in Seq(Idents)
  BY DEF Read
<1>2. PICK tie \in {-1, 0, 1} : tie = IdentsCompare(b.pre, a.pre)
  BY <1>1, IdentsCompared DEF Tells
<1>3. tie <= 0 <=> Before(Lower, TRUE, b.pre, a.pre) \/ a.pre = b.pre
  BY <1>1, <1>2, IdentsCompared DEF Tells
<1>4. FirstDiff(a.pre, b.pre) = FirstDiff(b.pre, a.pre)
  BY <1>1, FirstDiffSame
<1>5. DockerCompare(a, b) = NumbersCompare(a.n, b.n, FALSE, tie)
  BY <1>2, <1>4 DEF DockerCompare, IdentsCompare, NumbersCompare
<1>6. DockerCompare(a, b) <= 0 <=> Before(Less, FALSE, a.n, b.n) \/ (a.n = b.n /\ tie <= 0)
  <2>1. NumbersCompare(a.n, b.n, FALSE, tie) <= 0 <=> Before(Less, FALSE, a.n, b.n) \/ (a.n = b.n /\ tie <= 0)
    BY <1>1, NumbersCompared
  <2> QED BY <1>5, <2>1
<1> QED BY <1>3, <1>6 DEF DockerBefore, Alike

\* What a scheme calls no greater.
Weak(V, s) == {p \in V \X V : Compare(s, p[1], p[2]) <= 0}

\* A scheme compares any two versions, and its comparisons go on.
THEOREM SchemesRank ==
  ASSUME NEW s, NEW V, \A v \in V : Read(v), s \in Plain \/ \A v \in V : Full(v)
  PROVE  Ranks(V, Weak(V, s))
<1>1. \A x \in V : \A y \in V : <<x, y>> \in Weak(V, s) <=> Compare(s, x, y) <= 0
  BY DEF Weak
<1>2. CASE s = "docker"
  <2>1. \A x \in V : \A y \in V : Compare(s, x, y) = DockerCompare(x, y)
    BY <1>2 DEF Compare, Plain
  <2>2. \A x \in V : \A y \in V : <<x, y>> \in Weak(V, s) <=> DockerBefore(x, y) \/ Alike(x, y)
    <3> SUFFICES ASSUME NEW x \in V, NEW y \in V PROVE <<x, y>> \in Weak(V, s) <=> DockerBefore(x, y) \/ Alike(x, y)
      OBVIOUS
    <3>1. DockerCompare(x, y) <= 0 <=> DockerBefore(x, y) \/ Alike(x, y)
      BY DockerCompared
    <3>2. <<x, y>> \in Weak(V, s) <=> DockerCompare(x, y) <= 0
      BY <1>1, <2>1
    <3> QED BY <3>1, <3>2
  <2>3. ASSUME NEW x \in V, NEW y \in V PROVE <<x, y>> \in Weak(V, s) \/ <<y, x>> \in Weak(V, s)
    BY <2>2, DockerOrdered
  <2>4. ASSUME NEW x \in V, NEW y \in V, NEW z \in V, <<x, y>> \in Weak(V, s), <<y, z>> \in Weak(V, s)
        PROVE  <<x, z>> \in Weak(V, s)
    BY <2>2, <2>4, DockerOrdered
  <2> QED BY <2>3, <2>4 DEF Ranks
<1>3. CASE s # "docker"
  <2>1. \A x \in V : \A y \in V : Compare(s, x, y) = LooseCompare(x, y)
    <3>1. CASE s = "loose"
      BY <3>1 DEF Compare, Plain
    <3>2. CASE s # "loose"
      <4> SUFFICES ASSUME NEW x \in V, NEW y \in V PROVE Compare(s, x, y) = LooseCompare(x, y)
        OBVIOUS
      <4>1. Full(x) /\ Full(y) /\ s \notin Plain
        BY <1>3, <3>2 DEF Plain
      <4>2. Compare(s, x, y) = CompareVersions(x, y)
        BY <1>3, <3>2, <4>1 DEF Compare
      <4>3. Len(x.n) = Len(y.n)
        BY <4>1 DEF Full
      <4> QED BY <4>2, <4>3 DEF CompareVersions, LooseCompare
    <3> QED BY <3>1, <3>2
  <2>2. \A x \in V : \A y \in V : <<x, y>> \in Weak(V, s) <=> LooseBefore(x, y) \/ Alike(x, y)
    <3> SUFFICES ASSUME NEW x \in V, NEW y \in V PROVE <<x, y>> \in Weak(V, s) <=> LooseBefore(x, y) \/ Alike(x, y)
      OBVIOUS
    <3>1. LooseCompare(x, y) <= 0 <=> LooseBefore(x, y) \/ Alike(x, y)
      BY LooseCompared
    <3>2. <<x, y>> \in Weak(V, s) <=> LooseCompare(x, y) <= 0
      BY <1>1, <2>1
    <3> QED BY <3>1, <3>2
  <2>3. ASSUME NEW x \in V, NEW y \in V PROVE <<x, y>> \in Weak(V, s) \/ <<y, x>> \in Weak(V, s)
    BY <2>2, LooseOrdered
  <2>4. ASSUME NEW x \in V, NEW y \in V, NEW z \in V, <<x, y>> \in Weak(V, s), <<y, z>> \in Weak(V, s)
        PROVE  <<x, z>> \in Weak(V, s)
    BY <2>2, <2>4, LooseOrdered
  <2> QED BY <2>3, <2>4 DEF Ranks
<1> QED BY <1>2, <1>3

\* So among such versions there is one none is greater than, and one none is
\* less than.
LEMMA EndsExist ==
  ASSUME NEW s, NEW V, IsFiniteSet(V), V # {}, \A v \in V : Read(v), s \in Plain \/ \A v \in V : Full(v)
  PROVE  /\ \E v \in V : \A w \in V : Compare(s, w, v) <= 0
         /\ \E v \in V : \A w \in V : Compare(s, v, w) <= 0
<1> DEFINE R == Weak(V, s)
           Back == {p \in V \X V : <<p[2], p[1]>> \in R}
<1>1. Ranks(V, R)
  BY SchemesRank
<1>2. \A x \in V : \A y \in V : <<x, y>> \in R <=> Compare(s, x, y) <= 0
  BY DEF Weak
<1> HIDE DEF R
<1>3. \A x \in V : \A y \in V : <<x, y>> \in Back <=> <<y, x>> \in R
  OBVIOUS
<1> HIDE DEF Back
<1>4. Ranks(V, Back)
  BY <1>1, <1>3 DEF Ranks
<1>5. PICK v \in V : \A w \in V : <<w, v>> \in R
  BY <1>1, TopExists
<1>6. PICK u \in V : \A w \in V : <<w, u>> \in Back
  BY <1>4, TopExists
<1> QED BY <1>2, <1>3, <1>5, <1>6

\* Latest and Least are of the versions they are asked about.
THEOREM EndsFound ==
  ASSUME NEW s, NEW V, IsFiniteSet(V), V # {}, \A v \in V : Read(v)
  PROVE  Latest(s, V) \in V /\ Least(s, V) \in V
<1> DEFINE F == {v \in V : Full(v)}
<1>1. SUFFICES /\ \E v \in V : \A w \in V : Compare(s, w, v) <= 0
               /\ \E v \in V : \A w \in V : Compare(s, v, w) <= 0
  BY DEF Latest, Least
<1>2. CASE s \in Plain \/ F = V
  BY <1>2, EndsExist
<1>3. CASE s \notin Plain /\ F # V
  <2>1. \A a \in V : \A b \in V : ~(Full(a) /\ Full(b)) =>
          Compare(s, a, b) = IF s = "semver-partial" THEN 0
                             ELSE (IF Full(a) THEN 1 ELSE 0) - (IF Full(b) THEN 1 ELSE 0)
    BY <1>3 DEF Compare, Plain
  <2>2. PICK u \in V : ~Full(u)
    BY <1>3
  <2>3. \A w \in V : Compare(s, u, w) <= 0
    BY <2>1, <2>2
  <2>4. CASE F = {}
    <3>1. \A w \in V : Compare(s, w, u) <= 0
      BY <2>1, <2>2, <2>4
    <3> QED BY <2>3, <3>1
  <2>5. CASE F # {}
    <3>1. IsFiniteSet(F) /\ \A v \in F : v \in V /\ Full(v)
      BY FS_Subset
    <3> HIDE DEF F
    <3>2. PICK v \in F : \A w \in F : Compare(s, w, v) <= 0
      BY <2>5, <3>1, EndsExist
    <3>3. ASSUME NEW w \in V PROVE Compare(s, w, v) <= 0
      <4>1. CASE Full(w)
        BY <3>2, <4>1 DEF F
      <4>2. CASE ~Full(w)
        BY <2>1, <3>1, <4>2
      <4> QED BY <4>1, <4>2
    <3> QED BY <2>3, <3>1, <3>3
  <2> QED BY <2>4, <2>5
<1> QED BY <1>2, <1>3

\* So whatever a registry has published has a newest and an oldest version.
LEMMA VersionsAreInOrder ==
  ASSUME NEW i \in Dep, NEW V \in SUBSET Versioned(i), V # {}
  PROVE  Latest(Deps[i].scheme, V) \in V /\ Least(Deps[i].scheme, V) \in V
<1> DEFINE Values == [op : STRING, n : Seq(Nat), pre : Seq({0, 1} \X Nat)]
<1>1. Upcoming[i] \in Seq(Values)
  BY VersionsAreRead DEF Dep
<1>2. Upcoming[i] \in Surjection(DOMAIN Upcoming[i], Versioned(i))
  BY <1>1 DEF Surjection, Versioned
<1>3. IsFiniteSet(DOMAIN Upcoming[i])
  <2>1. DOMAIN Upcoming[i] = 1..Len(Upcoming[i]) /\ Len(Upcoming[i]) \in Nat
    BY <1>1
  <2> QED BY <2>1, FS_Interval
<1>4. IsFiniteSet(V)
  BY <1>2, <1>3, FS_Surjection, FS_Subset
<1>5. ASSUME NEW v \in V PROVE Read(v)
  <2>1. PICK k \in DOMAIN Upcoming[i] : v = Upcoming[i][k]
    BY DEF Versioned
  <2>2. v \in Values
    <3> HIDE DEF Values
    <3> QED BY <1>1, <2>1
  <2> QED BY <2>2 DEF Read, Idents
<1> QED BY <1>4, <1>5, EndsFound

-----------------------------------------------------------------------------
(* What is old enough has been public for long enough.                     *)

\* The dependencies whose release dates the planner can go by: Told, and one
\* that needs no date has one.
AgesAreTold == \A i \in Dep : Told(Deps[i]) /\ (Deps[i].optional => i \in Timed /\ Deps[i].strategy /= "pin")

\* An update old enough is a version public for the age asked of it.
LEMMA OldIsPublic ==
  ASSUME AgesInv, AgesAreTold, NEW i \in Dep, NEW silent, NEW v \in Updates(i, Fetched(i, silent)), ~Young(i, v)
  PROVE  public[i][v.version] >= Age(i)
<1> DEFINE how == Fetched(i, silent)
           d == [Deps[i] EXCEPT !.cur = value[i]]
           answer == LookedUp(i, how)
           R == answer.releases
<1>1. /\ d.filter = Deps[i].filter /\ d.digest = Deps[i].digest /\ d.pinDigests = Deps[i].pinDigests
      /\ d.strategy = Deps[i].strategy /\ d.age = Deps[i].age /\ d.optional = Deps[i].optional
      /\ d.scheme = Deps[i].scheme
  BY DepsAreListed DEF Dep
<1>2. Told(d) /\ (d.optional => i \in Timed /\ d.strategy /= "pin")
  <2> HIDE DEF d
  <2> QED BY <1>1 DEF AgesAreTold, Told
<1>3. v \in PlanOne(d, answer, <<>>, Age(i)).ups
  BY DEF Updates
<1>4. how \in {"cached", "asked", "stale", "failed"} /\ (how \in {"cached", "stale"} => cache[i] # Nothing)
  BY DEF Fetched
<1> HIDE DEF how
<1>5. ASSUME how # "failed" PROVE Answered(i, how).versions \subseteq Published(i)
  BY <1>4, <1>5, AnswerTyped DEF AgesInv, AnswersArePublic, Answered
<1>6. R = IF how = "failed" THEN {} ELSE {Release(i, w, how) : w \in Answered(i, how).versions}
  BY DEF LookedUp
<1>7. ASSUME NEW r \in R
      PROVE  /\ r.version \in Versioned(i) /\ public[i][r.version] \in 0..Age(i)
             /\ r.time = IF i \in Timed THEN Age(i) - public[i][r.version] ELSE Never
             /\ r.seen = Never \/ (r.seen \in Nat /\ r.seen >= Age(i) - public[i][r.version])
  <2>1. how # "failed"
    BY <1>6, <1>7
  <2>2. PICK w \in Answered(i, how).versions : r = Release(i, w, how)
    BY <1>6, <1>7
  <2>3. w \in Versioned(i) /\ public[i][w] # Never
    BY <1>5, <2>1, <2>2 DEF Published
  <2>4. public[i][w] \in Never..Age(i) /\ Age(i) \in Nat
    BY <2>3, AgedAt, AgeIsNat DEF AgesInv, CacheTyped
  <2>5. public[i][w] \in 0..Age(i)
    BY <2>3, <2>4 DEF Never
  <2>6. /\ r.version = w
        /\ r.time = IF i \in Timed THEN Since(i, public[i][w]) ELSE Never
        /\ r.seen = IF how = "stale" THEN Never ELSE Since(i, Sight(i, how)[w])
    BY <2>2 DEF Release
  <2>7. Since(i, public[i][w]) = Age(i) - public[i][w]
    BY <2>3 DEF Since
  <2>8. r.seen = Never \/ (r.seen \in Nat /\ r.seen >= Age(i) - public[i][w])
    <3>1. CASE r.seen = Never
      BY <3>1
    <3>2. CASE r.seen # Never
      <4>1. r.seen = Since(i, Sight(i, how)[w])
        BY <2>6, <3>2
      <4>2. Sight(i, how)[w] \in Never..Age(i) /\ Sight(i, how)[w] <= public[i][w]
        BY <1>4, <2>3, SightKeeps
      <4>3. Sight(i, how)[w] # Never /\ r.seen = Age(i) - Sight(i, how)[w]
        BY <3>2, <4>1 DEF Since
      <4> QED BY <2>4, <2>5, <4>2, <4>3 DEF Never
    <3> QED BY <3>1, <3>2
  <2> QED BY <2>3, <2>5, <2>6, <2>7, <2>8
<1>8. Ordered(d, R)
  <2>1. {r.version : r \in R} \subseteq Versioned(i)
    BY <1>7
  <2> HIDE DEF R, d
  <2> QED BY <1>1, <2>1, VersionsAreInOrder DEF Ordered
<1> HIDE DEF d
<1>9. Dated(d, R, v)
  BY <1>2, <1>3, <1>8, OffersDated
<1>10. /\ Age(i) \in Nat
       /\ ~(Age(i) > 0 /\ IF v.time = Unheld THEN ~d.optional ELSE Age(i) < v.time + Age(i))
  <2>1. ~v.waived /\ v.type \notin Ageless
    BY <1>9 DEF Dated
  <2>2. ~TooYoung(Member(i, v, <<>>), Policy(i), Age(i))
    BY DEF Young
  <2> QED BY <1>1, <2>1, <2>2, AgeIsNat DEF TooYoung, Member, Policy
<1> HIDE DEF R
<1>11. CASE d.strategy = "pin" /\ v.time = Never
  <2>1. Age(i) > 0 /\ ~d.optional
    BY <1>1, <1>2, <1>11 DEF Told, Age
  <2> QED BY <1>10, <1>11, <2>1 DEF Unheld, Never
<1>12. CASE \E r \in R : v.version = r.version /\ v.time = ReleaseTime(r)
  <2>1. PICK r \in R : v.version = r.version /\ v.time = ReleaseTime(r)
    BY <1>12
  <2> DEFINE p == public[i][v.version]
  <2>2. /\ p \in 0..Age(i)
        /\ r.time = IF i \in Timed THEN Age(i) - p ELSE Never
        /\ r.seen = Never \/ (r.seen \in Nat /\ r.seen >= Age(i) - p)
    BY <1>7, <2>1
  <2> HIDE DEF p
  <2>3. v.time = IF r.time # Never THEN r.time ELSE r.seen
    BY <2>1 DEF ReleaseTime
  <2>4. v.time = Never \/ (v.time \in Nat /\ v.time >= Age(i) - p)
    BY <1>10, <2>2, <2>3 DEF Never
  <2>5. d.optional => v.time # Never
    BY <1>2, <1>10, <2>2, <2>3 DEF Never
  <2>6. p >= Age(i)
    BY <1>10, <2>2, <2>4, <2>5 DEF Unheld, Never
  <2> QED BY <2>6 DEF p
<1> QED BY <1>9, <1>11, <1>12 DEF Dated

\* A version newly written has been public for the age asked of it, unless a
\* person ticked the age away.
THEOREM WrittenIsAged == ASSUME AgesAreTold PROVE Spec => AgedWhenWritten
<1>1. AgesInv /\ [Next]_vars =>
        [\A m \in request' \ request :
           public[m.dep][m.version] >= Age(m.dep) \/ (box.ticked /\ box.reason = "age")]_vars
  <2> SUFFICES ASSUME AgesInv, [Next]_vars, NEW m \in request' \ request, ~(box.ticked /\ box.reason = "age")
               PROVE  public[m.dep][m.version] >= Age(m.dep)
    OBVIOUS
  <2>1. PICK silent \in {{}} \cup Silent, knowsOpen \in BOOLEAN, refused \in {"", "taskRefused"} :
         Run(silent, knowsOpen, refused)
    <3>1. CASE Publish \/ PublishFails \/ Day \/ Window \/ PersonTicks
      BY <3>1 DEF Publish, PublishFails, Day, Window, PersonTicks
    <3>2. CASE Reset \/ Export \/ Import \/ Prune \/ PersonMerges
      BY <3>2 DEF Reset, Export, Import, Prune, PersonMerges, Closed
    <3>3. CASE \E i \in Dep : Publishes(i) \/ \E v \in Versioned(i) : Withdraws(i, v)
      BY <3>3 DEF Publishes, Withdraws
    <3>4. CASE UNCHANGED vars
      BY <3>4 DEF vars
    <3> QED BY <3>1, <3>2, <3>3, <3>4, Zenon DEF Next
  <2>2. PICK b, how : /\ b = Branch(how, knowsOpen, refused) /\ Acted(b)
                      /\ how = [i \in Dep |-> Fetched(i, silent)]
    BY <2>1 DEF Run, RunWith
  <2>3. Acts(b) /\ m \in Carried(b)
    BY <2>2 DEF Acted, Closed
  <2>4. OfferedFree(how, m, "age")
    <3>1. "age" \notin Ticks
      BY DEF Ticks
    <3> QED BY <2>2, <2>3, <3>1, ActsOnFree
  <2>5. PICK i \in Dep : \E v \in Updates(i, how[i]) : m.dep = i /\ m.version = v.version /\ ~Young(i, v)
    <3>1. PICK i \in Dep : \E v \in Updates(i, how[i]) :
            m = [dep |-> i, value |-> v.value, version |-> v.version] /\ ~HeldFor(i, v, "age")
      BY <2>4 DEF OfferedFree
    <3>2. PICK v \in Updates(i, how[i]) :
            m = [dep |-> i, value |-> v.value, version |-> v.version] /\ ~HeldFor(i, v, "age")
      BY <3>1
    <3>3. m.dep = i /\ m.version = v.version /\ ~Young(i, v)
      BY <3>2 DEF HeldFor
    <3> QED BY <3>3
  <2>6. how[i] = Fetched(i, silent)
    BY <2>2
  <2> QED BY <2>5, <2>6, OldIsPublic
<1> QED BY <1>1, AgesAreTrue, PTL DEF Spec, AgedWhenWritten

-----------------------------------------------------------------------------
(* What a comparator admits.                                               *)

\* Three numbers, and their order.
Triple(s) == s \in Seq(Nat) /\ Len(s) = 3
Under(s, t) == s[1] < t[1] \/ (s[1] = t[1] /\ (s[2] < t[2] \/ (s[2] = t[2] /\ s[3] < t[3])))

\* Each of them is a number.
LEMMA TripleIs ==
  ASSUME NEW s, Triple(s)
  PROVE  s[1] \in Nat /\ s[2] \in Nat /\ s[3] \in Nat /\ s = <<s[1], s[2], s[3]>>
<1>1. s \in Seq(Nat) /\ Len(s) = 3
  BY DEF Triple
<1>2. \A i \in 1..3 : s[i] \in Nat
  <2>1. s \in Seq(Nat)
    BY <1>1
  <2>2. \A i \in 1..Len(s) : s[i] \in Nat
    BY <2>1
  <2> QED BY <1>1, <2>2
<1>3. 1 \in 1..3 /\ 2 \in 1..3 /\ 3 \in 1..3
  OBVIOUS
<1>4. s = <<s[1], s[2], s[3]>>
  BY <1>1
<1> QED BY <1>2, <1>3, <1>4

\* Two of them compare by the first that differs.
LEMMA TriplesCompared ==
  ASSUME NEW s, NEW t, Triple(s), Triple(t), NEW tie
  PROVE  /\ s # t /\ Under(s, t) => DecidedAt(FirstDiff(s, t), s, t, tie) = -1
         /\ s # t /\ ~Under(s, t) => DecidedAt(FirstDiff(s, t), s, t, tie) = 1
         /\ s = t => DecidedAt(FirstDiff(s, t), s, t, tie) = tie
         /\ s = t <=> ~Under(s, t) /\ ~Under(t, s)
<1>1. PICK i : i = FirstDiff(s, t)
  OBVIOUS
<1>2. /\ i \in Nat /\ i <= 3
      /\ i > 0 => s[i] # t[i]
      /\ \A j \in Nat : 0 < j /\ j <= 3 /\ (i = 0 \/ j < i) => s[j] = t[j]
  <2>1. Len(s) = 3 /\ Len(t) = 3
    BY DEF Triple
  <2>3. s \in Seq(Nat) /\ t \in Seq(Nat)
    BY DEF Triple
  <2>2. /\ i \in Nat /\ i <= Len(s) /\ i <= Len(t)
        /\ i > 0 => s[i] # t[i]
        /\ \A j \in Nat : 0 < j /\ j <= Len(s) /\ j <= Len(t) /\ (i = 0 \/ j < i) => s[j] = t[j]
    BY <1>1, <2>3, FirstDiffIs
  <2> QED BY <2>1, <2>2
<1>3. /\ s[1] \in Nat /\ s[2] \in Nat /\ s[3] \in Nat
      /\ t[1] \in Nat /\ t[2] \in Nat /\ t[3] \in Nat
  BY TripleIs
<1>4. s = t <=> s[1] = t[1] /\ s[2] = t[2] /\ s[3] = t[3]
  BY TripleIs
<1>5. s = t <=> ~Under(s, t) /\ ~Under(t, s)
  BY <1>3, <1>4 DEF Under
<1>6. CASE i = 0
  <2>1. s = t
    BY <1>2, <1>4, <1>6
  <2> QED BY <1>1, <1>5, <1>6, <2>1 DEF DecidedAt
<1>7. CASE i > 0
  <2>1. DecidedAt(FirstDiff(s, t), s, t, tie) = Sign(s[i], t[i])
    BY <1>1, <1>7 DEF DecidedAt
  <2>2. s # t
    BY <1>2, <1>7
  <2>3. i \in {1, 2, 3}
    BY <1>2, <1>7
  <2>4. s[i] < t[i] <=> Under(s, t)
    <3>1. CASE i = 1
      BY <1>2, <1>3, <3>1 DEF Under
    <3>2. CASE i = 2
      <4>1. s[1] = t[1]
        BY <1>2, <3>2
      <4> QED BY <1>2, <1>3, <3>2, <4>1 DEF Under
    <3>3. CASE i = 3
      <4>1. s[1] = t[1] /\ s[2] = t[2]
        BY <1>2, <3>3
      <4> QED BY <1>2, <1>3, <3>3, <4>1 DEF Under
    <3> QED BY <2>3, <3>1, <3>2, <3>3
  <2>5. s[i] \in Nat /\ t[i] \in Nat /\ s[i] # t[i]
    BY <1>2, <1>3, <1>7, <2>3
  <2>6. Sign(s[i], t[i]) = IF s[i] < t[i] THEN -1 ELSE 1
    BY <2>5 DEF Sign
  <2> QED BY <1>5, <2>1, <2>2, <2>4, <2>6
<1> QED BY <1>2, <1>6, <1>7

\* A value as it is read; a stable release is three numbers and nothing after.
Values == [op : STRING, n : Seq(Nat), pre : Seq(Idents)]
Plainly(v) == v \in Values /\ Full(v) /\ v.pre = <<>>

\* Stable releases compare by their numbers, whatever the scheme.
LEMMA PlainlyCompared ==
  ASSUME NEW s, s \notin Plain, NEW a, NEW b, Plainly(a), Plainly(b)
  PROVE  /\ Compare(s, a, b) > 0 <=> Under(b.n, a.n)
         /\ Compare(s, a, b) < 0 <=> Under(a.n, b.n)
         /\ Compare(s, a, b) <= 0 <=> ~Under(b.n, a.n)
         /\ a.n = b.n <=> ~Under(a.n, b.n) /\ ~Under(b.n, a.n)
<1>1. Triple(a.n) /\ Triple(b.n)
  BY DEF Plainly, Full, Triple, Values
<1>2. ComparePre(a.pre, b.pre) = 0
  BY DEF Plainly, ComparePre, Sign
<1>3. Compare(s, a, b) = DecidedAt(FirstDiff(a.n, b.n), a.n, b.n, 0)
  <2>1. Compare(s, a, b) = CompareVersions(a, b)
    BY DEF Compare, Plain, Plainly
  <2> QED BY <1>2, <2>1 DEF CompareVersions
<1>4. ~(Under(a.n, b.n) /\ Under(b.n, a.n))
  BY <1>1 DEF Triple, Under
<1> QED BY <1>1, <1>3, <1>4, TriplesCompared

\* One comparator: an operator and one to three numbers.
Comparators == {"", "=", ">", "<", "<=", ">=", "^", "~"}
Comparator(r) == r \in Values /\ r.op \in Comparators /\ r.pre = <<>> /\ Len(r.n) \in 1..3

\* What is asked of the first numbers.
Begins(s, p) == \A i \in DOMAIN p : s[i] = p[i]
Limits(r, s) ==
  LET z == Padded(r.n)
  IN CASE r.op \in {"", "="} -> Begins(s, r.n)
       [] r.op = ">" -> Under(z, s)
       [] r.op = "<" -> Under(s, z)
       [] r.op = "<=" -> ~Under(z, s)
       [] r.op = ">=" -> ~Under(s, z)
       [] r.op = "^" -> /\ ~Under(s, z)
                        /\ IF z[1] # 0 THEN s[1] = z[1]
                           ELSE IF z[2] # 0 THEN s[1] = 0 /\ s[2] = z[2] ELSE s = z
       [] r.op = "~" -> ~Under(s, z) /\ s[1] = r.n[1] /\ (Len(r.n) >= 2 => s[2] = r.n[2])

\* What is not stated counts as zero.
LEMMA PaddedIs ==
  ASSUME NEW r, Comparator(r)
  PROVE  /\ Triple(Padded(r.n))
         /\ \A i \in 1..3 : Padded(r.n)[i] = IF i <= Len(r.n) THEN r.n[i] ELSE 0
         /\ Zeros(r).n = Padded(r.n) /\ Zeros(r).pre = r.pre
<1>1. \A i \in 1..3 : (IF i <= Len(r.n) THEN r.n[i] ELSE 0) \in Nat
  BY DEF Comparator, Values
<1>2. \A i \in 1..3 : Padded(r.n)[i] = IF i <= Len(r.n) THEN r.n[i] ELSE 0
  BY DEF Padded
<1>3. DOMAIN Padded(r.n) = 1..3 /\ Padded(r.n) = [i \in 1..3 |-> Padded(r.n)[i]]
  BY DEF Padded
<1>4. Padded(r.n) \in Seq(Nat) /\ Len(Padded(r.n)) = 3
  BY <1>1, <1>2, <1>3
<1>5. Zeros(r).n = Padded(r.n) /\ Zeros(r).pre = r.pre
  BY DEF Zeros
<1> QED BY <1>2, <1>4, <1>5 DEF Triple

\* npm and semver-partial admit stable releases by their numbers.
LEMMA AdmittedByNumbers ==
  ASSUME NEW s \in {"semver-partial", "npm"}, NEW r, Comparator(r), NEW v, Plainly(v)
  PROVE  /\ s = "npm" => (Satisfies(s, v, r) <=> Limits(r, v.n))
         /\ s = "semver-partial" => (Satisfies(s, v, r) <=> r.op = "" /\ Begins(v.n, r.n))
<1>1. CASE s = "semver-partial"
  BY <1>1 DEF Satisfies, PartialSatisfies, Plainly, Begins
<1>2. CASE s = "npm"
  <2> DEFINE z == Padded(r.n)
  <2>1. Satisfies(s, v, r) <=> NpmSatisfiesOne(v, r)
    BY <1>2 DEF Satisfies, Plainly
  <2>2. Triple(z) /\ Zeros(r).n = z /\ Zeros(r).pre = <<>> /\ Triple(v.n) /\ v.pre = <<>>
    BY PaddedIs DEF Comparator, Plainly, Full, Triple, Values
  <2> DEFINE c == CompareVersions(v, Zeros(r))
  <2>3. c = DecidedAt(FirstDiff(v.n, z), v.n, z, 0)
    <3>1. ComparePre(<<>>, <<>>) = 0
      BY DEF ComparePre, Sign
    <3> QED BY <2>2, <3>1 DEF CompareVersions
  <2>4. Caret(v, Zeros(r)) <=> (IF z[1] # 0 THEN v.n[1] = z[1]
                                ELSE IF z[2] # 0 THEN v.n[1] = 0 /\ v.n[2] = z[2] ELSE v.n = z)
    BY <2>2 DEF Caret
  <2>6. ~(Under(v.n, z) /\ Under(z, v.n))
    BY <2>2 DEF Triple, Under
  <2> HIDE DEF z, c
  <2>5. /\ c > 0 <=> Under(z, v.n)
        /\ c < 0 <=> Under(v.n, z)
        /\ c <= 0 <=> ~Under(z, v.n)
        /\ c >= 0 <=> ~Under(v.n, z)
    BY <2>2, <2>3, <2>6, TriplesCompared
  <2>7. r.op \in {"", "="} => (NpmSatisfiesOne(v, r) <=> Begins(v.n, r.n))
    BY <2>2 DEF NpmSatisfiesOne, Begins
  <2>8. r.op \notin {"", "="} => (NpmSatisfiesOne(v, r) <=>
          /\ Meets(r.op, c)
          /\ r.op = "^" => Caret(v, Zeros(r))
          /\ r.op = "~" => v.n[1] = r.n[1] /\ (Len(r.n) >= 2 => v.n[2] = r.n[2]))
    BY <2>2 DEF NpmSatisfiesOne, c
  <2>9. r.op \in Comparators
    BY DEF Comparator
  <2>10. NpmSatisfiesOne(v, r) <=> Limits(r, v.n)
    <3>1. CASE r.op \in {"", "="}
      BY <2>7, <3>1 DEF Limits
    <3>2. CASE r.op = ">"
      BY <2>8, <2>5, <3>2 DEF Limits, Meets, z
    <3>3. CASE r.op = "<"
      BY <2>8, <2>5, <3>3 DEF Limits, Meets, z
    <3>4. CASE r.op = "<="
      BY <2>8, <2>5, <3>4 DEF Limits, Meets, z
    <3>5. CASE r.op = ">="
      BY <2>8, <2>5, <3>5 DEF Limits, Meets, z
    <3>6. CASE r.op = "^"
      BY <2>8, <2>5, <2>4, <3>6 DEF Limits, Meets, z
    <3>7. CASE r.op = "~"
      BY <2>8, <2>5, <3>7 DEF Limits, Meets, z
    <3> QED BY <2>9, <3>1, <3>2, <3>3, <3>4, <3>5, <3>6, <3>7 DEF Comparators
  <2> QED BY <1>2, <2>1, <2>10
<1> QED BY <1>1, <1>2

\* What lies between two releases a comparator admits is admitted.
LEMMA LimitsConvex ==
  ASSUME NEW r, Comparator(r), NEW x, NEW y, NEW w, Triple(x), Triple(y), Triple(w),
         ~Under(y, x), ~Under(w, y)
  PROVE  /\ Begins(x, r.n) /\ Begins(w, r.n) => Begins(y, r.n)
         /\ Limits(r, x) /\ Limits(r, w) => Limits(r, y)
<1> DEFINE z == Padded(r.n)
<1>1. Triple(z) /\ \A i \in 1..3 : z[i] = IF i <= Len(r.n) THEN r.n[i] ELSE 0
  BY PaddedIs
<1>2. /\ x[1] \in Nat /\ x[2] \in Nat /\ x[3] \in Nat /\ y[1] \in Nat /\ y[2] \in Nat /\ y[3] \in Nat
      /\ w[1] \in Nat /\ w[2] \in Nat /\ w[3] \in Nat /\ z[1] \in Nat /\ z[2] \in Nat /\ z[3] \in Nat
  BY <1>1, TripleIs
<1>3. /\ DOMAIN r.n = 1..Len(r.n) /\ Len(r.n) \in {1, 2, 3}
      /\ r.n[1] \in Nat /\ (Len(r.n) >= 2 => r.n[2] \in Nat) /\ (Len(r.n) = 3 => r.n[3] \in Nat)
  BY DEF Comparator, Values
<1>4. ASSUME NEW s
      PROVE  Begins(s, r.n) <=> s[1] = r.n[1] /\ (Len(r.n) >= 2 => s[2] = r.n[2]) /\ (Len(r.n) = 3 => s[3] = r.n[3])
  BY <1>3 DEF Begins
<1>5. Begins(x, r.n) /\ Begins(w, r.n) => Begins(y, r.n)
  <2> SUFFICES ASSUME Begins(x, r.n), Begins(w, r.n) PROVE Begins(y, r.n)
    OBVIOUS
  <2>1. /\ x[1] = w[1] /\ x[1] = r.n[1] /\ (Len(r.n) >= 2 => x[2] = w[2] /\ x[2] = r.n[2])
        /\ (Len(r.n) = 3 => x[3] = w[3] /\ x[3] = r.n[3])
    BY <1>4
  <2>2. y[1] = x[1]
    BY <1>2, <2>1 DEF Under
  <2>3. Len(r.n) >= 2 => y[2] = x[2]
    BY <1>2, <2>1, <2>2 DEF Under
  <2>4. Len(r.n) = 3 => y[3] = x[3]
    BY <1>2, <1>3, <2>1, <2>2, <2>3 DEF Under
  <2> QED BY <1>4, <2>1, <2>2, <2>3, <2>4
<1>6. x = z /\ w = z => y = z
  BY TriplesCompared
<1> HIDE DEF z
<1>7. ASSUME Limits(r, x), Limits(r, w) PROVE Limits(r, y)
  <2>1. CASE r.op \in {"", "="}
    BY <1>5, <1>7, <2>1 DEF Limits
  <2>2. CASE r.op = ">"
    <3>1. Under(z, x)
      BY <1>7, <2>2 DEF Limits, z
    <3>2. Under(z, y)
      BY <1>2, <3>1 DEF Under
    <3> QED BY <2>2, <3>2 DEF Limits, z
  <2>3. CASE r.op = "<"
    <3>1. Under(w, z)
      BY <1>7, <2>3 DEF Limits, z
    <3>2. Under(y, z)
      BY <1>2, <3>1 DEF Under
    <3> QED BY <2>3, <3>2 DEF Limits, z
  <2>4. CASE r.op = "<="
    <3>1. ~Under(z, w)
      BY <1>7, <2>4 DEF Limits, z
    <3>2. ~Under(z, y)
      BY <1>2, <3>1 DEF Under
    <3> QED BY <2>4, <3>2 DEF Limits, z
  <2>5. CASE r.op \in {">=", "^", "~"}
    <3>1. ~Under(x, z)
      BY <1>7, <2>5 DEF Limits, z
    <3>2. ~Under(y, z)
      BY <1>2, <3>1 DEF Under
    <3>3. CASE r.op = ">="
      BY <3>2, <3>3 DEF Limits, z
    <3>4. CASE r.op = "^"
      <4>1. CASE z[1] # 0
        <5>1. x[1] = z[1] /\ w[1] = z[1]
          BY <1>7, <3>4, <4>1 DEF Limits, z
        <5>2. y[1] = z[1]
          BY <1>2, <5>1 DEF Under
        <5> QED BY <3>2, <3>4, <4>1, <5>2 DEF Limits, z
      <4>2. CASE z[1] = 0 /\ z[2] # 0
        <5>1. x[1] = 0 /\ w[1] = 0 /\ x[2] = z[2] /\ w[2] = z[2]
          BY <1>7, <3>4, <4>2 DEF Limits, z
        <5>2. y[1] = 0 /\ y[2] = z[2]
          BY <1>2, <5>1 DEF Under
        <5> QED BY <3>2, <3>4, <4>2, <5>2 DEF Limits, z
      <4>3. CASE z[1] = 0 /\ z[2] = 0
        <5>1. x = z /\ w = z
          BY <1>7, <3>4, <4>3 DEF Limits, z
        <5>2. y = z
          BY <1>6, <5>1
        <5> QED BY <3>2, <3>4, <4>3, <5>2 DEF Limits, z
      <4> QED BY <4>1, <4>2, <4>3
    <3>5. CASE r.op = "~"
      <4> DEFINE Within(s) == s[1] = r.n[1] /\ (Len(r.n) >= 2 => s[2] = r.n[2])
      <4>1. Within(x) /\ Within(w)
        BY <1>7, <3>5 DEF Limits, z
      <4>2. Within(y)
        BY <1>2, <1>3, <4>1 DEF Under
      <4> QED BY <3>2, <3>5, <4>2 DEF Limits, z
    <3> QED BY <2>5, <3>3, <3>4, <3>5
  <2> QED BY <2>1, <2>2, <2>3, <2>4, <2>5 DEF Comparator, Comparators
<1> QED BY <1>5, <1>7

-----------------------------------------------------------------------------
(* What a dependency offers whatever else is published.                    *)

\* A dependency that keeps moving up: a version, or a comparator that its
\* updates replace; one whose value says nothing is never planned.
MovesUp(d) ==
  \/ ~IsRange(d) \/ ~IsValid(d.scheme, d.cur)
  \/ /\ d.scheme \in {"semver-partial", "npm"} /\ RangeStrategy(d.strategy) = "replace"
     /\ ~d.unstable /\ Comparator(d.cur)

\* One that offers its aged releases whatever else is published: no digest
\* moves with it, no advisory asks for the lowest fix, and a young release is
\* either held back or not young at all.
Steady(d) ==
  /\ d.digest = 0 /\ ~d.pinDigests /\ d.bound = NoValue
  /\ d.filter \in {"strict", "flexible"} \/ d.age = 0
  /\ MovesUp(d)

\* The versions of some releases.
VersionsOf(R) == {r.version : r \in R}

\* The scheme finds the newest of any of them.
Tops(d, R) ==
  \A V \in SUBSET VersionsOf(Readable(d, R)) : V # {} =>
    Latest(d.scheme, V) \in V /\ \A w \in V : Compare(d.scheme, w, Latest(d.scheme, V)) <= 0

\* Releases as a lookup answers them: read, and one for each version.
Listed(d, R) ==
  /\ \A r \in R : r.version \in Values
  /\ \A r \in R : \A q \in R : r.version = q.version => r = q
  /\ Tops(d, R)

\* What a candidate is compared from, and how it compares.
Leads(d, V, b, v) ==
  IF IsRange(d)
    THEN /\ b \in V /\ IsVersion(d.scheme, b) /\ Satisfies(d.scheme, b, d.cur) /\ Allowed(d, b)
         /\ ~Satisfies(d.scheme, v, d.cur)
    ELSE b = d.cur
Above(d, b, v) ==
  /\ Compare(d.scheme, v, b) > 0 /\ IsCompatible(d.scheme, v, b)
  /\ IsStable(d.scheme, b) /\ ~d.unstable => IsStable(d.scheme, v)
  /\ UpdateType(d.scheme, b, v) \in {"major", "minor", "patch"}
  /\ TypeOf(d, b, v) # "majorAvailable"

\* What a member of a request says of its dependency, given the versions known.
Stands(d, V, m) ==
  /\ m.version \in V /\ IsVersion(d.scheme, m.version) /\ IsValid(d.scheme, d.cur) /\ Allowed(d, m.version)
  /\ m.value = Written(d, m.version) /\ m.value # d.cur
  /\ \E b \in V \cup {d.cur} : Leads(d, V, b, m.version) /\ Above(d, b, m.version)

\* The comparator of a dependency with a range; semver-partial has none but a
\* prefix of numbers.
Replaced(d) ==
  /\ IsRange(d) /\ d.scheme \in {"semver-partial", "npm"} /\ RangeStrategy(d.strategy) = "replace"
  /\ ~d.unstable /\ Comparator(d.cur)
Prefixed(d) == d.scheme = "semver-partial" => d.cur.op = ""

\* What a range admits is a stable release.
LEMMA AdmittedPlainly ==
  ASSUME NEW d, Replaced(d), NEW v \in Values, IsVersion(d.scheme, v)
  PROVE  /\ Satisfies(d.scheme, v, d.cur) => Plainly(v)
         /\ IsStable(d.scheme, v) <=> Plainly(v)
         /\ Plainly(v) => (Satisfies(d.scheme, v, d.cur) <=>
              IF d.scheme = "npm" THEN Limits(d.cur, v.n) ELSE d.cur.op = "" /\ Begins(v.n, d.cur.n))
<1>1. d.scheme \in {"semver-partial", "npm"} /\ Comparator(d.cur) /\ d.cur.pre = <<>>
  BY DEF Replaced, Comparator
<1>2. Full(v)
  BY <1>1 DEF IsVersion, Plain
<1>3. Satisfies(d.scheme, v, d.cur) => v.pre = <<>>
  BY <1>1 DEF Satisfies, PartialSatisfies, NpmSatisfiesOne
<1>4. IsStable(d.scheme, v) <=> v.pre = <<>>
  BY <1>1, <1>2 DEF IsStable, Plain
<1>5. Plainly(v) <=> v.pre = <<>>
  BY <1>2 DEF Plainly
<1>6. Plainly(v) => (Satisfies(d.scheme, v, d.cur) <=>
              IF d.scheme = "npm" THEN Limits(d.cur, v.n) ELSE d.cur.op = "" /\ Begins(v.n, d.cur.n))
  BY <1>1, AdmittedByNumbers
<1> QED BY <1>3, <1>4, <1>5, <1>6

\* The bucket of a stable release above another.
LEMMA BucketOfPlainly ==
  ASSUME NEW s \in {"semver-partial", "npm"}, NEW a, NEW b, Plainly(a), Plainly(b), Under(a.n, b.n)
  PROVE  /\ UpdateType(s, a, b) \in {"major", "minor", "patch"}
         /\ UpdateType(s, a, b) = "major" <=> a.n[1] # b.n[1]
<1>1. Len(a.n) = 3 /\ Len(b.n) = 3 /\ Full(a) /\ Full(b)
  BY DEF Plainly, Full
<1>2. a # b /\ ~(Compare(s, b, a) < 0)
  <2>1. Compare(s, b, a) > 0 /\ a.n # b.n
    BY PlainlyCompared DEF Plain
  <2>2. Compare(s, b, a) \in Int
    <3>1. Compare(s, b, a) = CompareVersions(b, a)
      BY <1>1 DEF Compare, Plain
    <3>2. Triple(a.n) /\ Triple(b.n)
      BY <1>1 DEF Plainly, Triple, Values
    <3>3. ComparePre(b.pre, a.pre) = 0
      BY DEF Plainly, ComparePre, Sign
    <3> QED BY <3>1, <3>2, <3>3, TriplesCompared DEF CompareVersions
  <2> QED BY <2>1, <2>2
<1>3. UpdateType(s, a, b) = IF a.n[1] # b.n[1] THEN "major" ELSE IF a.n[2] # b.n[2] THEN "minor" ELSE "patch"
  <2>1. s # "docker" /\ IsValid(s, a) /\ IsValid(s, b)
    BY DEF IsValid
  <2>2. ~(a = b \/ ~IsValid(s, a) \/ ~IsValid(s, b)) /\ ~(s \notin Plain /\ ~(Full(a) /\ Full(b)))
    BY <1>1, <1>2, <2>1
  <2>3. /\ Differ(a.n, b.n, 1) <=> a.n[1] # b.n[1]
        /\ (Len(a.n) < 2 \/ Len(b.n) < 2 \/ a.n[2] /= b.n[2]) <=> a.n[2] # b.n[2]
    BY <1>1 DEF Differ
  <2>4. s # "docker"
    BY <2>1
  <2>5. UpdateType(s, a, b) = IF Differ(a.n, b.n, 1) THEN "major"
                              ELSE IF Len(a.n) < 2 \/ Len(b.n) < 2 \/ a.n[2] /= b.n[2] THEN "minor" ELSE "patch"
    BY <1>2, <2>2, <2>4 DEF UpdateType
  <2> QED BY <2>3, <2>5
<1> QED BY <1>3

\* How a comparator is written for a release.
LEMMA WrittenFor ==
  ASSUME NEW d, Replaced(d), Prefixed(d), NEW v, Plainly(v)
  PROVE  /\ Comparator(Written(d, v)) /\ Written(d, v).n[1] = v.n[1]
         /\ Written(d, v).op = d.cur.op /\ Len(Written(d, v).n) = Len(d.cur.n)
         /\ Written(d, v) = d.cur <=> Begins(v.n, d.cur.n)
<1>0. PICK k, p : k = Len(d.cur.n) /\ p = SubSeq(v.n, 1, k)
  OBVIOUS
<1>a. k = Len(d.cur.n)
  BY <1>0
<1>b. p = SubSeq(v.n, 1, k)
  BY <1>0
<1>1. /\ d.scheme \in {"semver-partial", "npm"} /\ Comparator(d.cur) /\ RangeStrategy(d.strategy) = "replace"
      /\ ~Full(d.cur) /\ v \in Values /\ v.op = "" /\ v.pre = <<>> /\ Triple(v.n)
  BY DEF Replaced, IsRange, IsVersion, Plain, Plainly, Full, Triple, Values
<1>2. /\ d.cur \in Values
      /\ d.cur.n \in Seq(Nat) /\ k \in 1..3 /\ d.cur.op \in Comparators /\ d.cur.pre = <<>> /\ d.cur.op \in STRING
  BY <1>a, <1>1 DEF Comparator, Values
<1>3. Len(v.n) = 3 /\ v.n \in Seq(Nat)
  BY <1>1 DEF Triple
<1>4. Written(d, v) = NewValue(d.scheme, d.cur, v, "replace")
  BY <1>1 DEF Written, LockOnly
<1>6. p \in Seq(Nat) /\ Len(p) = k /\ \A i \in 1..k : p[i] = v.n[i]
  BY <1>b, <1>2, <1>3
<1>5. Written(d, v) \in Values /\ Written(d, v).op = d.cur.op /\ Written(d, v).n = p /\ Written(d, v).pre = <<>>
  <2>1. CASE d.scheme = "npm"
    <3>1. Written(d, v) = [op |-> d.cur.op, n |-> p, pre |-> <<>>]
      BY <1>a, <1>b, <1>1, <1>4, <2>1 DEF NewValue, NpmNewValue
    <3> QED BY <3>1, <1>2, <1>6 DEF Values
  <2>2. CASE d.scheme = "semver-partial"
    <3>1. d.cur.op = "" /\ k # 3
      BY <1>a, <1>1, <2>2 DEF Full, Prefixed
    <3>2. Len(d.cur.n) < Len(v.n)
      <4>1. k \in 1..3 /\ k # 3
        BY <1>2, <3>1
      <4>2. k < 3
        BY <4>1
      <4> QED BY <1>a, <1>3, <4>2
    <3>3. Written(d, v) = [v EXCEPT !.n = p, !.pre = <<>>]
      BY <1>a, <1>b, <1>4, <2>2, <3>2 DEF NewValue
    <3>4. <<>> \in Seq(Idents)
      OBVIOUS
    <3>5. [v EXCEPT !.n = p, !.pre = <<>>] \in Values
      BY <1>1, <1>6, <3>4 DEF Values
    <3>6. /\ [v EXCEPT !.n = p, !.pre = <<>>].op = v.op /\ [v EXCEPT !.n = p, !.pre = <<>>].n = p
          /\ [v EXCEPT !.n = p, !.pre = <<>>].pre = <<>>
      BY <1>1 DEF Values
    <3> QED BY <1>1, <3>1, <3>3, <3>5, <3>6
  <2> QED BY <1>1, <2>1, <2>2
<1>7. p = d.cur.n <=> Begins(v.n, d.cur.n)
  <2>1. DOMAIN d.cur.n = 1..k
    BY <1>a, <1>2
  <2>3. DOMAIN p = 1..k
    BY <1>6
  <2>4. d.cur.n = [i \in 1..k |-> d.cur.n[i]]
    BY <1>2, <2>1
  <2>5. p = [i \in 1..k |-> p[i]]
    BY <1>6, <2>3
  <2>2. p = d.cur.n <=> \A i \in 1..k : p[i] = d.cur.n[i]
    BY <2>4, <2>5
  <2> QED BY <1>6, <2>1, <2>2 DEF Begins
<1>8. Comparator(Written(d, v))
  <2>1. Written(d, v).op \in Comparators /\ Written(d, v).n \in Seq(Nat) /\ Written(d, v).pre \in {<<>>} /\ Len(Written(d, v).n) \in 1..3
    BY <1>2, <1>5, <1>6
  <2> QED BY <1>5, <2>1 DEF Comparator
<1>9. Written(d, v).n[1] = v.n[1]
  BY <1>2, <1>5, <1>6
<1>10. Written(d, v) = d.cur <=> p = d.cur.n
  BY <1>2, <1>5 DEF Values
<1> QED BY <1>a, <1>5, <1>6, <1>7, <1>8, <1>9, <1>10

\* They are ordered.
LEMMA UnderOrders ==
  ASSUME NEW x, NEW y, NEW z, Triple(x), Triple(y), Triple(z)
  PROVE  /\ ~(Under(x, y) /\ Under(y, x)) /\ ~Under(x, x)
         /\ Under(x, y) /\ ~Under(x, z) => ~Under(y, z)
         /\ Under(x, y) /\ Under(y, z) => Under(x, z)
         /\ Under(x, y) /\ ~Under(z, y) => Under(x, z)
<1>1. /\ x[1] \in Nat /\ x[2] \in Nat /\ x[3] \in Nat /\ y[1] \in Nat /\ y[2] \in Nat /\ y[3] \in Nat
      /\ z[1] \in Nat /\ z[2] \in Nat /\ z[3] \in Nat
  BY TripleIs
<1> QED BY <1>1 DEF Under

\* Above what a comparator other than an equality admits, nothing it refuses
\* is below its own numbers.
LEMMA NotBelow ==
  ASSUME NEW r, Comparator(r), r.op \notin {"", "="}, NEW x, NEW y, Triple(x), Triple(y),
         Limits(r, x), Under(x, y), ~Limits(r, y)
  PROVE  ~Under(y, Padded(r.n))
<1> DEFINE z == Padded(r.n)
<1>1. Triple(z)
  BY PaddedIs
<1> HIDE DEF z
<1>3. ASSUME ~Under(x, z) PROVE ~Under(y, z)
  BY <1>1, <1>3, UnderOrders
<1>4. CASE r.op = ">"
  <2>1. Under(z, x)
    BY <1>4 DEF Limits, z
  <2>2. ~Under(x, z)
    BY <1>1, <2>1, UnderOrders
  <2> QED BY <1>3, <2>2 DEF z
<1>5. CASE r.op = "<"
  <2>1. ~Under(y, z)
    BY <1>5 DEF Limits, z
  <2> QED BY <2>1 DEF z
<1>6. CASE r.op = "<="
  <2>1. Under(z, y)
    BY <1>6 DEF Limits, z
  <2>2. ~Under(y, z)
    BY <1>1, <2>1, UnderOrders
  <2> QED BY <2>2 DEF z
<1>7. CASE r.op \in {">=", "^", "~"}
  <2>1. ~Under(x, z)
    <3>1. CASE r.op = ">="
      BY <3>1 DEF Limits, z
    <3>2. CASE r.op = "^"
      BY <3>2 DEF Limits, z
    <3>3. CASE r.op = "~"
      BY <3>3 DEF Limits, z
    <3> QED BY <1>7, <3>1, <3>2, <3>3
  <2> QED BY <1>3, <2>1 DEF z
<1> QED BY <1>4, <1>5, <1>6, <1>7 DEF Comparator, Comparators

\* What is written for the newest release moves the value when what is written
\* for an older one does.
LEMMA WrittenMoves ==
  ASSUME NEW d, Replaced(d), Prefixed(d), NEW b, NEW v, NEW t, Plainly(b), Plainly(v), Plainly(t),
         Satisfies(d.scheme, b, d.cur), ~Satisfies(d.scheme, v, d.cur), ~Satisfies(d.scheme, t, d.cur),
         Under(b.n, v.n), ~Under(t.n, v.n), Written(d, v) # d.cur
  PROVE  Written(d, t) # d.cur
<1>1. d.scheme \in {"semver-partial", "npm"} /\ Comparator(d.cur)
  BY DEF Replaced
<1>2. Triple(b.n) /\ Triple(v.n) /\ Triple(t.n)
  BY DEF Plainly, Full, Triple, Values
<1>3. ~Begins(v.n, d.cur.n)
  BY WrittenFor
<1>4. SUFFICES ASSUME Begins(t.n, d.cur.n) PROVE FALSE
  BY WrittenFor
<1>5. /\ d.scheme = "npm" => Limits(d.cur, b.n) /\ ~Limits(d.cur, v.n) /\ ~Limits(d.cur, t.n)
      /\ d.scheme = "semver-partial" => ~(d.cur.op = "" /\ Begins(t.n, d.cur.n))
  BY <1>1, AdmittedByNumbers
<1>6. d.scheme = "npm"
  BY <1>1, <1>4, <1>5 DEF Prefixed
<1>7. d.cur.op \notin {"", "="}
  BY <1>4, <1>5, <1>6 DEF Limits
<1> DEFINE z == Padded(d.cur.n)
<1>8. ~Under(v.n, z)
  BY <1>1, <1>2, <1>5, <1>6, <1>7, NotBelow
<1>9. Triple(z) /\ Begins(z, d.cur.n)
  <2>1. Triple(z) /\ \A i \in 1..3 : z[i] = IF i <= Len(d.cur.n) THEN d.cur.n[i] ELSE 0
    BY <1>1, PaddedIs
  <2>2. DOMAIN d.cur.n = 1..Len(d.cur.n) /\ Len(d.cur.n) \in 1..3
    BY <1>1 DEF Comparator, Values
  <2> HIDE DEF z
  <2>3. \A i \in DOMAIN d.cur.n : z[i] = d.cur.n[i]
    BY <2>1, <2>2
  <2> QED BY <2>1, <2>3 DEF Begins
<1> HIDE DEF z
<1>10. Begins(v.n, d.cur.n)
  BY <1>1, <1>2, <1>4, <1>8, <1>9, LimitsConvex
<1> QED BY <1>3, <1>10

-----------------------------------------------------------------------------
(* What a member stands for is offered.                                    *)

\* What a dependency with a range is compared from: the highest release it
\* admits, whatever release a member was compared from.
LEMMA BaseLeads ==
  ASSUME NEW d, MovesUp(d), NEW R, Listed(d, R), NEW m, Stands(d, VersionsOf(R), m)
  PROVE  /\ IsRange(d) => InRange(d, R) # {}
         /\ Leads(d, VersionsOf(R), Base(d, R), m.version) /\ Above(d, Base(d, R), m.version)
<1> DEFINE V == VersionsOf(R)
<1> DEFINE v == m.version
<1> DEFINE base == Base(d, R)
<1>1. PICK b \in V \cup {d.cur} : Leads(d, V, b, v) /\ Above(d, b, v)
  BY DEF Stands
<1>2. v \in V /\ IsVersion(d.scheme, v) /\ IsValid(d.scheme, d.cur)
  BY DEF Stands
<1>3. CASE ~IsRange(d)
  <2>1. base = d.cur /\ b = d.cur
    BY <1>1, <1>3 DEF Base, Leads
  <2> QED BY <1>1, <1>3, <2>1
<1>4. CASE IsRange(d)
  <2>1. Replaced(d)
    BY <1>2, <1>4 DEF MovesUp, Replaced
  <2>2. /\ d.scheme \in {"semver-partial", "npm"} /\ Comparator(d.cur) /\ RangeStrategy(d.strategy) = "replace"
        /\ ~d.unstable
    BY <2>1 DEF Replaced
  <2>3. b \in V /\ IsVersion(d.scheme, b) /\ Satisfies(d.scheme, b, d.cur) /\ Allowed(d, b) /\ ~Satisfies(d.scheme, v, d.cur)
    BY <1>1, <1>4 DEF Leads
  <2>4. b \in InRange(d, R)
    <3>1. PICK r \in R : r.version = b
      BY <2>3 DEF VersionsOf
    <3>2. r \in Readable(d, R)
      BY <2>3, <3>1 DEF Readable
    <3>3. b \in Admitted(d, R)
      BY <2>3, <3>1, <3>2 DEF Admitted
    <3> QED BY <2>3, <3>3 DEF InRange
  <2>5. /\ \A w \in InRange(d, R) : w \in VersionsOf(Readable(d, R))
        /\ \A w \in InRange(d, R) : w \in V /\ IsVersion(d.scheme, w) /\ Satisfies(d.scheme, w, d.cur) /\ Allowed(d, w)
    BY DEF InRange, Admitted, VersionsOf, Readable
  <2>6. base \in InRange(d, R) /\ Compare(d.scheme, b, base) <= 0
    <3>1. base = Latest(d.scheme, InRange(d, R))
      BY <1>4, <2>2 DEF Base, UsesLock
    <3>2. InRange(d, R) \in SUBSET VersionsOf(Readable(d, R)) /\ InRange(d, R) # {}
      BY <2>4, <2>5
    <3> QED BY <2>4, <3>1, <3>2 DEF Listed, Tops
  <2>7. base \in V /\ IsVersion(d.scheme, base) /\ Satisfies(d.scheme, base, d.cur) /\ Allowed(d, base)
    BY <2>5, <2>6
  <2>8. b \in Values /\ v \in Values /\ base \in Values
    BY <1>2, <2>3, <2>7 DEF Listed, VersionsOf
  <2> HIDE DEF base, v, V
  <2>9. Plainly(b) /\ Plainly(base) /\ IsStable(d.scheme, b)
    BY <2>1, <2>3, <2>7, <2>8, AdmittedPlainly
  <2>10. Compare(d.scheme, v, b) > 0 /\ IsStable(d.scheme, v) /\ TypeOf(d, b, v) # "majorAvailable"
    BY <1>1, <2>2, <2>9 DEF Above
  <2>11. Plainly(v)
    BY <1>2, <2>1, <2>8, <2>10, AdmittedPlainly
  <2>12. Under(b.n, v.n) /\ ~Under(base.n, b.n)
    <3>1. d.scheme \notin Plain
      BY <2>2 DEF Plain
    <3> QED BY <2>6, <2>9, <2>10, <2>11, <3>1, PlainlyCompared
  <2>13. Triple(b.n) /\ Triple(v.n) /\ Triple(base.n)
    BY <2>9, <2>11 DEF Plainly, Full, Triple, Values
  <2>14. Under(base.n, v.n)
    <3>1. SUFFICES ASSUME ~Under(base.n, v.n) PROVE FALSE
      OBVIOUS
    <3>2. ~Under(v.n, b.n)
      BY <2>12, <2>13, UnderOrders
    <3>3. /\ Begins(b.n, d.cur.n) /\ Begins(base.n, d.cur.n) => Begins(v.n, d.cur.n)
          /\ Limits(d.cur, b.n) /\ Limits(d.cur, base.n) => Limits(d.cur, v.n)
      BY <2>2, <2>13, <3>1, <3>2, LimitsConvex
    <3>4. Satisfies(d.scheme, v, d.cur)
      BY <2>1, <2>2, <2>3, <2>7, <2>8, <2>9, <2>11, <3>3, <1>2, AdmittedPlainly
    <3> QED BY <2>3, <3>4
  <2>15. Compare(d.scheme, v, base) > 0
    <3>1. d.scheme \notin Plain
      BY <2>2 DEF Plain
    <3> QED BY <2>9, <2>11, <2>14, <3>1, PlainlyCompared
  <2>16. IsCompatible(d.scheme, v, base)
    BY <2>2, <2>11 DEF IsCompatible, IsValid, Plainly
  <2>17. /\ UpdateType(d.scheme, base, v) \in {"major", "minor", "patch"}
         /\ UpdateType(d.scheme, base, v) = "major" <=> base.n[1] # v.n[1]
         /\ UpdateType(d.scheme, b, v) = "major" <=> b.n[1] # v.n[1]
    BY <2>2, <2>9, <2>11, <2>12, <2>14, BucketOfPlainly
  <2>18. TypeOf(d, base, v) # "majorAvailable"
    <3>1. CASE ~IsRollingMajor(d.cur)
      BY <2>17, <3>1 DEF TypeOf, Rolling
    <3>2. CASE IsRollingMajor(d.cur)
      <4>1. d.cur.op = "" /\ Len(d.cur.n) = 1 /\ d.cur.n \in Seq(Nat)
        BY <2>2, <3>2 DEF IsRollingMajor, Comparator, Values
      <4>2. ASSUME NEW w, Plainly(w), w \in Values
            PROVE  Satisfies(d.scheme, w, d.cur) <=> w.n[1] = d.cur.n[1]
        <5>1. \A k : k \in DOMAIN d.cur.n <=> k = 1
          <6>1. PICK n : n = d.cur.n
            OBVIOUS
          <6>2. n \in Seq(Nat) /\ Len(n) = 1
            BY <4>1, <6>1
          <6>3. DOMAIN n = 1..1
            BY <6>2
          <6> QED BY <6>1, <6>3
        <5>2. Begins(w.n, d.cur.n) <=> w.n[1] = d.cur.n[1]
          BY <5>1 DEF Begins
        <5>3. Limits(d.cur, w.n) <=> Begins(w.n, d.cur.n)
          BY <4>1 DEF Limits
        <5> QED BY <2>2, <4>1, <4>2, <5>2, <5>3, AdmittedByNumbers
      <4>3. base.n[1] = d.cur.n[1] /\ b.n[1] = d.cur.n[1] /\ v.n[1] # d.cur.n[1]
        BY <2>3, <2>7, <2>8, <2>9, <2>11, <4>2
      <4>4. UpdateType(d.scheme, b, v) = "major"
        BY <2>17, <4>3
      <4> QED BY <2>10, <3>2, <4>4 DEF TypeOf, Rolling
    <3> QED BY <3>1, <3>2
  <2>19. Above(d, base, v)
    BY <2>10, <2>15, <2>16, <2>17, <2>18 DEF Above
  <2>20. Leads(d, V, base, v)
    BY <1>4, <2>3, <2>7 DEF Leads
  <2> QED BY <2>4, <2>19, <2>20 DEF V, v, base
<1> QED BY <1>3, <1>4

\* The releases above the base that may be offered, and what is made of them.
Free(d, R) == {r \in Newer(d, R, Base(d, R)) : Allowed(d, r.version)}
Aims(d, R, now) == NewestOf(d, R, Base(d, R), Buckets(d, Base(d, R), Free(d, R)), now)

\* A steady dependency is offered the newest of each bucket and nothing else.
LEMMA PlanIs ==
  ASSUME NEW d, Steady(d), NEW answer, answer.made, NEW digests, NEW now, NEW R, R = answer.releases
  PROVE  /\ /\ ~answer.failed /\ IsValid(d.scheme, d.cur) /\ Readable(d, R) # {}
            /\ IsRange(d) => InRange(d, R) # {}
            => PlanOne(d, answer, digests, now).ups = Distinct(Aims(d, R, now))
         /\ \A u \in PlanOne(d, answer, digests, now).ups :
              /\ IsValid(d.scheme, d.cur) /\ (IsRange(d) => InRange(d, R) # {})
              /\ u \in Distinct(Aims(d, R, now))
<1>1. d.digest = 0 /\ ~d.pinDigests /\ d.bound = NoValue
  BY DEF Steady
<1>2. DecidedByDigest(d, R) <=> ~IsValid(d.scheme, d.cur)
  BY <1>1 DEF DecidedByDigest
<1>3. DigestOnly(d, digests).ups = {}
  BY <1>1 DEF DigestOnly, Skip
<1>4. ASSUME IsValid(d.scheme, d.cur)
      PROVE  PlanFrom(d, R, Base(d, R), digests, now).ups = Distinct(Aims(d, R, now))
  <2>1. IsRange(d) => RangeStrategy(d.strategy) = "replace"
    BY <1>4 DEF Steady, MovesUp
  <2>2. PlanFrom(d, R, Base(d, R), digests, now) =
          Offered(d, R, Base(d, R), Distinct(Ordinary(d, R, Base(d, R), now)), digests)
    BY <1>1, <2>1 DEF PlanFrom
  <2>3. Ordinary(d, R, Base(d, R), now) = Aims(d, R, now)
    <3>1. FloorBump(d, R, Base(d, R)) = {}
      BY <2>1 DEF FloorBump
    <3> QED BY <3>1 DEF Ordinary, Aims, Free
  <2>4. ASSUME NEW U PROVE Offered(d, R, Base(d, R), U, digests).ups = U
    BY <1>1 DEF Offered, NothingNew, Skip, Offer
  <2> QED BY <2>2, <2>3, <2>4
<1>5. Readable(d, R) # {} => R # {}
  BY DEF Readable
<1>6. ASSUME NEW why PROVE Skip(why).ups = {}
  BY DEF Skip
<1>7. CASE answer.failed
  BY <1>6, <1>7 DEF PlanOne
<1>8. CASE ~answer.failed /\ ~IsValid(d.scheme, d.cur)
  BY <1>2, <1>3, <1>8 DEF PlanOne
<1>9. CASE ~answer.failed /\ IsValid(d.scheme, d.cur) /\ (R = {} \/ Readable(d, R) = {} \/ (IsRange(d) /\ InRange(d, R) = {}))
  BY <1>2, <1>5, <1>6, <1>9 DEF PlanOne
<1>10. CASE ~answer.failed /\ IsValid(d.scheme, d.cur) /\ R # {} /\ Readable(d, R) # {} /\ (IsRange(d) => InRange(d, R) # {})
  BY <1>2, <1>4, <1>10 DEF PlanOne
<1> QED BY <1>7, <1>8, <1>9, <1>10, <1>5

\* What buildUpdate says of a release, whatever was waived.
LEMMA BuiltIs ==
  ASSUME NEW d, Steady(d), IsValid(d.scheme, d.cur), NEW from, NEW r, NEW w
  PROVE  /\ LET u == [BuildUpdate(d, from, r) EXCEPT !.waived = w]
            IN /\ u.version = r.version /\ u.value = Written(d, r.version) /\ u.type = TypeOf(d, from, r.version)
               /\ u.time = ReleaseTime(r)
         /\ Build(d, from, r) = IF Written(d, r.version) = d.cur THEN {} ELSE {BuildUpdate(d, from, r)}
<1>1. ~LockOnly(d, r.version)
  BY DEF Steady, MovesUp, LockOnly
<1>2. Build(d, from, r) = IF Written(d, r.version) = d.cur THEN {} ELSE {BuildUpdate(d, from, r)}
  BY <1>1 DEF Build, Unchanged
<1>3. LET u == [BuildUpdate(d, from, r) EXCEPT !.waived = w]
      IN /\ u.version = r.version /\ u.value = Written(d, r.version) /\ u.type = TypeOf(d, from, r.version)
         /\ u.time = ReleaseTime(r)
  BY DEF BuildUpdate
<1> QED BY <1>2, <1>3

\* The newest of some releases is one of them.
LEMMA TopIs ==
  ASSUME NEW d, NEW R, Listed(d, R), NEW rs, rs \subseteq Readable(d, R), rs # {}
  PROVE  /\ Top(d, R, rs) \in rs
         /\ \A r \in rs : Compare(d.scheme, r.version, Top(d, R, rs).version) <= 0
<1> DEFINE vs == {r.version : r \in rs}
           top == Latest(d.scheme, vs)
<1>1. vs \in SUBSET VersionsOf(Readable(d, R)) /\ vs # {} /\ \A r \in rs : r.version \in vs
  BY DEF VersionsOf
<1>2. Top(d, R, rs) = ReleaseOf(d, R, top)
  BY DEF Top
<1>3. PICK q \in rs : q.version = top
  <2>1. top \in vs
    <3> HIDE DEF vs
    <3> QED BY <1>1 DEF Listed, Tops
  <2> HIDE DEF top
  <2> QED BY <2>1
<1> HIDE DEF vs
<1>4. \A r \in rs : Compare(d.scheme, r.version, top) <= 0
  BY <1>1 DEF Listed, Tops
<1> HIDE DEF top
<1>5. ReleaseOf(d, R, top) \in Readable(d, R) /\ ReleaseOf(d, R, top).version = top
  BY <1>3 DEF ReleaseOf
<1>6. ReleaseOf(d, R, top) = q
  BY <1>3, <1>5 DEF Listed, Readable
<1> QED BY <1>2, <1>3, <1>4, <1>6

\* A bucket, and what is chosen from it.
LEMMA BucketIs ==
  ASSUME NEW d, NEW R, NEW rs \in Buckets(d, Base(d, R), Free(d, R)), NEW now
  PROVE  /\ rs \subseteq Free(d, R) /\ Free(d, R) \subseteq Newer(d, R, Base(d, R)) /\ Free(d, R) \subseteq Readable(d, R)
         /\ Bucket(d, rs, now) \subseteq rs /\ (rs # {} => Bucket(d, rs, now) # {})
         /\ \/ \A r \in rs : UpdateType(d.scheme, Base(d, R), r.version) = "major"
            \/ \A r \in rs : UpdateType(d.scheme, Base(d, R), r.version) \in {"minor", "patch"}
<1>1. rs = Others(d, Base(d, R), Free(d, R)) \/ rs = Majors(d, Base(d, R), Free(d, R))
  BY DEF Buckets
<1>2. /\ rs \subseteq Free(d, R)
      /\ \/ \A r \in rs : UpdateType(d.scheme, Base(d, R), r.version) = "major"
         \/ \A r \in rs : UpdateType(d.scheme, Base(d, R), r.version) \in {"minor", "patch"}
  BY <1>1 DEF Others, Majors, OfType
<1>3. Free(d, R) \subseteq Newer(d, R, Base(d, R)) /\ Free(d, R) \subseteq Readable(d, R)
  BY DEF Free, Newer
<1>4. Bucket(d, rs, now) \subseteq rs /\ (rs # {} => Bucket(d, rs, now) # {})
  BY DEF Bucket
<1> QED BY <1>2, <1>3, <1>4

\* The base is a version of the releases or the value itself.
LEMMA BaseIs ==
  ASSUME NEW d, Steady(d), IsValid(d.scheme, d.cur), NEW R, Listed(d, R), IsRange(d) => InRange(d, R) # {}
  PROVE  /\ ~IsRange(d) => Base(d, R) = d.cur
         /\ IsRange(d) => /\ Base(d, R) \in VersionsOf(R) /\ IsVersion(d.scheme, Base(d, R))
                          /\ Satisfies(d.scheme, Base(d, R), d.cur) /\ Allowed(d, Base(d, R))
<1>1. CASE ~IsRange(d)
  BY <1>1 DEF Base
<1>2. CASE IsRange(d)
  <2>1. RangeStrategy(d.strategy) = "replace"
    BY <1>2 DEF Steady, MovesUp
  <2>2. Base(d, R) = Latest(d.scheme, InRange(d, R))
    BY <1>2, <2>1 DEF Base, UsesLock
  <2>3. InRange(d, R) \in SUBSET VersionsOf(Readable(d, R)) /\ InRange(d, R) # {}
    BY <1>2 DEF InRange, Admitted, VersionsOf
  <2>4. Base(d, R) \in InRange(d, R)
    BY <2>2, <2>3 DEF Listed, Tops
  <2>5. \A w \in InRange(d, R) : w \in VersionsOf(R) /\ IsVersion(d.scheme, w) /\ Satisfies(d.scheme, w, d.cur) /\ Allowed(d, w)
    BY DEF InRange, Admitted, VersionsOf, Readable
  <2> QED BY <1>2, <2>4, <2>5
<1> QED BY <1>1, <1>2

\* What a steady dependency is offered stands.
LEMMA OffersStand ==
  ASSUME NEW d, Steady(d), NEW answer, answer.made, NEW digests, NEW now, NEW R, R = answer.releases, Listed(d, R),
         NEW u \in PlanOne(d, answer, digests, now).ups, u.type # "majorAvailable"
  PROVE  Stands(d, VersionsOf(R), u)
<1> DEFINE base == Base(d, R)
           buckets == Buckets(d, base, Free(d, R))
<1>1. IsValid(d.scheme, d.cur) /\ (IsRange(d) => InRange(d, R) # {}) /\ u \in Distinct(Aims(d, R, now))
  BY PlanIs
<1>2. u \in Aims(d, R, now)
  BY <1>1 DEF Distinct
<1>3. PICK rs \in buckets \ {{}} :
        \E w \in Build(d, base, Top(d, R, Bucket(d, rs, now))) : u = [w EXCEPT !.waived = AgeWaived(d, buckets, now)]
  BY <1>2 DEF Aims, NewestOf
<1> DEFINE some == Bucket(d, rs, now)
           top == Top(d, R, some)
<1>4. /\ some \subseteq Free(d, R) /\ some \subseteq Readable(d, R) /\ some # {} /\ Free(d, R) \subseteq Newer(d, R, base)
      /\ \A r \in some : UpdateType(d.scheme, base, r.version) \in {"major", "minor", "patch"}
  BY <1>3, BucketIs
<1>5. PICK w \in Build(d, base, top) : u = [w EXCEPT !.waived = AgeWaived(d, buckets, now)]
  BY <1>3
<1> HIDE DEF base, some, buckets
<1>6. top \in some
  BY <1>4, TopIs
<1> HIDE DEF top
<1>7. PICK waived : waived = AgeWaived(d, buckets, now)
  OBVIOUS
<1>8. Written(d, top.version) # d.cur /\ w = BuildUpdate(d, base, top)
  BY <1>1, <1>5, BuiltIs
<1>9. u.version = top.version /\ u.value = Written(d, top.version) /\ u.type = TypeOf(d, base, top.version)
  BY <1>1, <1>5, <1>7, <1>8, BuiltIs
<1>10. /\ top \in Readable(d, R) /\ Allowed(d, top.version)
       /\ Compare(d.scheme, top.version, base) > 0 /\ IsCompatible(d.scheme, top.version, base)
       /\ ~(IsRange(d) /\ Satisfies(d.scheme, top.version, d.cur) /\ RangeStrategy(d.strategy) = "replace")
       /\ (IsStable(d.scheme, base) /\ ~d.unstable) => IsStable(d.scheme, top.version)
  BY <1>4, <1>6 DEF Free, Newer, base
<1>11. top.version \in VersionsOf(R) /\ IsVersion(d.scheme, top.version)
  BY <1>10 DEF Readable, VersionsOf
<1>12. IsRange(d) => ~Satisfies(d.scheme, top.version, d.cur)
  BY <1>1, <1>10 DEF Steady, MovesUp
<1>13. base \in VersionsOf(R) \cup {d.cur} /\ Leads(d, VersionsOf(R), base, top.version)
  BY <1>1, <1>12, BaseIs DEF Leads, base
<1>14. Above(d, base, top.version)
  <2>1. UpdateType(d.scheme, base, top.version) \in {"major", "minor", "patch"}
    BY <1>4, <1>6
  <2> QED BY <1>9, <1>10, <2>1 DEF Above
<1> QED BY <1>1, <1>8, <1>9, <1>10, <1>11, <1>13, <1>14 DEF Stands

\* No version is greater than itself.
LEMMA SelfCompared ==
  ASSUME NEW s, NEW v, Read(v), s \in Plain \/ Full(v)
  PROVE  Compare(s, v, v) = 0
<1>1. ASSUME NEW p PROVE FirstDiff(p, p) = 0
  BY DEF FirstDiff, FirstOf
<1>2. Sign(Len(v.n), Len(v.n)) = 0 /\ Sign(Len(v.pre), Len(v.pre)) = 0
  BY DEF Sign, Read
<1>3. ComparePre(v.pre, v.pre) = 0
  BY <1>1, <1>2 DEF ComparePre, IdentsFrom
<1>4. CompareVersions(v, v) = 0 /\ LooseCompare(v, v) = 0
  BY <1>1, <1>3 DEF CompareVersions, LooseCompare, DecidedAt
<1>5. DockerCompare(v, v) = 0
  BY <1>1, <1>2 DEF DockerCompare, DecidedAt, IdentsFrom
<1>6. CASE s = "docker"
  BY <1>5, <1>6 DEF Compare, Plain
<1>7. CASE s = "loose"
  BY <1>4, <1>7 DEF Compare, Plain
<1>8. CASE s \notin Plain
  BY <1>4, <1>8 DEF Compare, Plain
<1> QED BY <1>6, <1>7, <1>8 DEF Plain

\* A version in the place of a version is written as it is.
LEMMA VersionWritten ==
  ASSUME NEW d, ~IsRange(d), NEW v \in Values, IsVersion(d.scheme, v), IsCompatible(d.scheme, v, d.cur)
  PROVE  Written(d, v) = v
<1>1. PICK how : how = RangeStrategy(d.strategy)
  OBVIOUS
<1>2. Written(d, v) = NewValue(d.scheme, d.cur, v, how)
  BY <1>1 DEF Written, LockOnly
<1>3. IsVersion(d.scheme, d.cur)
  BY DEF IsRange
<1>4. CASE d.scheme \in {"npm", "node"}
  BY <1>2, <1>3, <1>4 DEF NewValue, NpmNewValue, IsVersion, Plain
<1>5. CASE d.scheme = "semver-partial"
  <2>1. Len(d.cur.n) = 3 /\ Len(v.n) = 3
    BY <1>3, <1>5 DEF IsVersion, Plain, Full
  <2>2. ~(Len(d.cur.n) < Len(v.n))
    BY <2>1
  <2> QED BY <1>2, <1>5, <2>2 DEF NewValue
<1>6. CASE d.scheme = "docker" /\ v.pre = <<>>
  <2>1. d.cur.pre = v.pre
    BY <1>6 DEF IsCompatible, DockerCompatible
  <2>2. Written(d, v) = [v EXCEPT !.pre = v.pre]
    BY <1>2, <1>6, <2>1 DEF NewValue
  <2>3. [v EXCEPT !.pre = v.pre] = v
    BY DEF Values
  <2> QED BY <2>2, <2>3
<1>7. CASE d.scheme \notin {"npm", "node", "semver-partial"} /\ ~(d.scheme = "docker" /\ v.pre = <<>>)
  BY <1>2, <1>7 DEF NewValue
<1> QED BY <1>4, <1>5, <1>6, <1>7

\* The releases a range may move to.
LEMMA TargetIs ==
  ASSUME NEW d, Steady(d), IsValid(d.scheme, d.cur), NEW R, Listed(d, R), IsRange(d), InRange(d, R) # {},
         NEW r \in Free(d, R)
  PROVE  /\ Replaced(d) /\ Prefixed(d) /\ Plainly(Base(d, R)) /\ Plainly(r.version)
         /\ Satisfies(d.scheme, Base(d, R), d.cur) /\ ~Satisfies(d.scheme, r.version, d.cur)
         /\ Under(Base(d, R).n, r.version.n)
<1>1. Replaced(d)
  BY DEF Steady, MovesUp, Replaced
<1>2. d.scheme \in {"semver-partial", "npm"} /\ Comparator(d.cur) /\ RangeStrategy(d.strategy) = "replace" /\ ~d.unstable
  BY <1>1 DEF Replaced
<1> DEFINE base == Base(d, R)
           v == r.version
<1>3. base \in VersionsOf(R) /\ IsVersion(d.scheme, base) /\ Satisfies(d.scheme, base, d.cur)
  BY BaseIs
<1>4. /\ r \in Readable(d, R) /\ Compare(d.scheme, v, base) > 0 /\ ~Satisfies(d.scheme, v, d.cur)
      /\ IsStable(d.scheme, base) => IsStable(d.scheme, v)
  BY <1>2 DEF Free, Newer
<1>5. v \in Values /\ base \in Values /\ IsVersion(d.scheme, v)
  BY <1>3, <1>4 DEF Listed, VersionsOf, Readable
<1>6. Prefixed(d)
  BY <1>3 DEF Prefixed, Satisfies, PartialSatisfies
<1> HIDE DEF base, v
<1>7. Plainly(base) /\ Plainly(v)
  BY <1>1, <1>3, <1>4, <1>5, AdmittedPlainly
<1>8. Under(base.n, v.n)
  <2>1. d.scheme \notin Plain
    BY <1>2 DEF Plain
  <2> QED BY <1>4, <1>7, <2>1, PlainlyCompared
<1> QED BY <1>1, <1>3, <1>4, <1>6, <1>7, <1>8 DEF base, v

\* A major update and another one write different values.
LEMMA ValuesApart ==
  ASSUME NEW d, Steady(d), IsValid(d.scheme, d.cur), NEW R, Listed(d, R), IsRange(d) => InRange(d, R) # {},
         NEW r \in Free(d, R), NEW q \in Free(d, R),
         UpdateType(d.scheme, Base(d, R), r.version) = "major",
         UpdateType(d.scheme, Base(d, R), q.version) \in {"minor", "patch"}
  PROVE  Written(d, r.version) # Written(d, q.version)
<1>1. CASE ~IsRange(d)
  <2>1. \A x \in Free(d, R) : x.version \in Values /\ IsVersion(d.scheme, x.version) /\ IsCompatible(d.scheme, x.version, d.cur)
    BY <1>1 DEF Free, Newer, Base, Readable, Listed
  <2>2. Written(d, r.version) = r.version /\ Written(d, q.version) = q.version
    BY <1>1, <2>1, VersionWritten
  <2>3. r.version # q.version
    OBVIOUS
  <2> QED BY <2>2, <2>3
<1>2. CASE IsRange(d)
  <2>1. /\ Replaced(d) /\ Prefixed(d) /\ Plainly(Base(d, R)) /\ Plainly(r.version) /\ Plainly(q.version)
        /\ Under(Base(d, R).n, r.version.n) /\ Under(Base(d, R).n, q.version.n)
    BY <1>2, TargetIs
  <2>2. d.scheme \in {"semver-partial", "npm"}
    BY <2>1 DEF Replaced
  <2>3. Base(d, R).n[1] # r.version.n[1] /\ Base(d, R).n[1] = q.version.n[1]
    <3>1. UpdateType(d.scheme, Base(d, R), q.version) # "major"
      OBVIOUS
    <3> QED BY <2>1, <2>2, <3>1, BucketOfPlainly
  <2>4. Written(d, r.version).n[1] = r.version.n[1] /\ Written(d, q.version).n[1] = q.version.n[1]
    BY <2>1, WrittenFor
  <2> QED BY <2>3, <2>4
<1> QED BY <1>1, <1>2

\* A release a member stands for is one of a bucket, and one the bucket's
\* newest moves the value as far as.
LEMMA StandsInBucket ==
  ASSUME NEW d, Steady(d), NEW R, Listed(d, R), NEW m, Stands(d, VersionsOf(R), m),
         NEW r \in R, r.version = m.version, ~r.deprecated, NEW now, OldEnough(d, r, now)
  PROVE  \E rs \in Buckets(d, Base(d, R), Free(d, R)) :
           /\ r \in Bucket(d, rs, now)
           /\ \A q \in Bucket(d, rs, now) : TypeOf(d, Base(d, R), q.version) # "majorAvailable"
<1> DEFINE base == Base(d, R)
<1>1. /\ Leads(d, VersionsOf(R), base, r.version) /\ Above(d, base, r.version)
      /\ IsVersion(d.scheme, r.version) /\ Allowed(d, r.version) /\ IsValid(d.scheme, d.cur)
  BY BaseLeads DEF Stands, Steady
<1> HIDE DEF base
<1>2. r \in Free(d, R)
  <2>1. r \in Readable(d, R)
    BY <1>1 DEF Readable
  <2>2. Compare(d.scheme, r.version, base) > 0 /\ IsCompatible(d.scheme, r.version, base)
    BY <1>1 DEF Above
  <2>3. (IsStable(d.scheme, base) /\ ~d.unstable) => IsStable(d.scheme, r.version)
    BY <1>1 DEF Above
  <2>4. ~(IsRange(d) /\ Satisfies(d.scheme, r.version, d.cur))
    BY <1>1 DEF Leads
  <2>5. r \in Newer(d, R, base)
    BY <2>1, <2>2, <2>3, <2>4 DEF Newer
  <2> QED BY <1>1, <2>5 DEF Free, base
<1>3. ASSUME NEW rs, r \in rs PROVE r \in Bucket(d, rs, now)
  BY <1>3 DEF Bucket
<1>4. UpdateType(d.scheme, base, r.version) \in {"major", "minor", "patch"} /\ TypeOf(d, base, r.version) # "majorAvailable"
  BY <1>1 DEF Above
<1>5. CASE UpdateType(d.scheme, base, r.version) = "major"
  <2> DEFINE rs == Majors(d, base, Free(d, R))
  <2>1. r \in rs /\ \A q \in rs : UpdateType(d.scheme, base, q.version) = "major"
    BY <1>2, <1>5 DEF Majors, OfType
  <2>2. ~IsRollingMajor(d.cur)
    BY <1>4, <1>5 DEF TypeOf, Rolling
  <2>3. \A q \in rs : TypeOf(d, base, q.version) # "majorAvailable"
    BY <2>1, <2>2 DEF TypeOf, Rolling
  <2>4. rs \in Buckets(d, base, Free(d, R))
    BY DEF Buckets
  <2> HIDE DEF rs
  <2>5. Bucket(d, rs, now) \subseteq rs
    BY DEF Bucket
  <2> QED BY <1>3, <2>1, <2>3, <2>4, <2>5 DEF base
<1>6. CASE UpdateType(d.scheme, base, r.version) \in {"minor", "patch"}
  <2> DEFINE rs == Others(d, base, Free(d, R))
  <2>1. r \in rs /\ \A q \in rs : UpdateType(d.scheme, base, q.version) \in {"minor", "patch"}
    BY <1>2, <1>6 DEF Others, OfType
  <2>3. \A q \in rs : TypeOf(d, base, q.version) # "majorAvailable"
    BY <2>1 DEF TypeOf, Rolling
  <2>4. rs \in Buckets(d, base, Free(d, R))
    BY DEF Buckets
  <2> HIDE DEF rs
  <2>5. Bucket(d, rs, now) \subseteq rs
    BY DEF Bucket
  <2> QED BY <1>3, <2>1, <2>3, <2>4, <2>5 DEF base
<1> QED BY <1>4, <1>5, <1>6

\* The newest of that bucket moves the value too.
LEMMA TopMoves ==
  ASSUME NEW d, Steady(d), NEW R, Listed(d, R), NEW m, Stands(d, VersionsOf(R), m),
         NEW r \in Free(d, R), r.version = m.version, NEW t \in Free(d, R), Compare(d.scheme, r.version, t.version) <= 0
  PROVE  Written(d, t.version) # d.cur
<1>1. IsValid(d.scheme, d.cur) /\ Written(d, r.version) # d.cur /\ (IsRange(d) => InRange(d, R) # {})
  BY BaseLeads DEF Stands, Steady
<1>2. CASE ~IsRange(d)
  <2>1. /\ t.version \in Values /\ IsVersion(d.scheme, t.version) /\ IsCompatible(d.scheme, t.version, d.cur)
        /\ Compare(d.scheme, t.version, d.cur) > 0
    BY <1>2 DEF Free, Newer, Base, Readable, Listed
  <2>2. Written(d, t.version) = t.version
    BY <1>2, <2>1, VersionWritten
  <2>3. Compare(d.scheme, t.version, t.version) = 0
    <3>1. Read(t.version) /\ (d.scheme \in Plain \/ Full(t.version))
      BY <2>1 DEF Read, Values, IsVersion
    <3> QED BY <3>1, SelfCompared
  <2>4. t.version # d.cur
    BY <2>1, <2>3
  <2> QED BY <2>2, <2>4
<1>3. CASE IsRange(d)
  <2> DEFINE base == Base(d, R)
  <2>1. /\ Replaced(d) /\ Prefixed(d) /\ Plainly(base) /\ Plainly(r.version) /\ Plainly(t.version)
        /\ Satisfies(d.scheme, base, d.cur) /\ ~Satisfies(d.scheme, r.version, d.cur) /\ ~Satisfies(d.scheme, t.version, d.cur)
        /\ Under(base.n, r.version.n)
    BY <1>1, <1>3, TargetIs
  <2>2. ~Under(t.version.n, r.version.n)
    <3>1. d.scheme \notin Plain
      BY <2>1 DEF Replaced, Plain
    <3> QED BY <2>1, <3>1, PlainlyCompared
  <2> HIDE DEF base
  <2> QED BY <1>1, <2>1, <2>2, WrittenMoves
<1> QED BY <1>2, <1>3

\* An update for a version whose time it carries.
AgedOffer(d, R, u, now) == d.age > 0 => \E q \in R : u.time = ReleaseTime(q) /\ OldEnough(d, q, now)

\* Where a member stands, and its release is old enough, an update old enough
\* is offered.
LEMMA StandsOffered ==
  ASSUME NEW d, Steady(d), d.age \in Nat, NEW answer, answer.made, ~answer.failed, NEW digests, NEW now,
         NEW R, R = answer.releases, Listed(d, R), NEW m, Stands(d, VersionsOf(R), m),
         NEW r \in R, r.version = m.version, ~r.deprecated, OldEnough(d, r, now)
  PROVE  \E u \in PlanOne(d, answer, digests, now).ups : u.type # "majorAvailable" /\ AgedOffer(d, R, u, now)
<1> DEFINE base == Base(d, R)
           buckets == Buckets(d, base, Free(d, R))
<1>1. IsValid(d.scheme, d.cur) /\ (IsRange(d) => InRange(d, R) # {}) /\ Readable(d, R) # {}
  BY BaseLeads DEF Stands, Steady, Readable
<1>2. PICK rs \in buckets :
        /\ r \in Bucket(d, rs, now)
        /\ \A q \in Bucket(d, rs, now) : TypeOf(d, base, q.version) # "majorAvailable"
  BY StandsInBucket
<1> DEFINE some == Bucket(d, rs, now)
           top == Top(d, R, some)
<1>3. /\ some \subseteq rs /\ rs \subseteq Free(d, R) /\ Free(d, R) \subseteq Readable(d, R) /\ Readable(d, R) \subseteq R
  BY BucketIs DEF Readable
<1>4. d.age > 0 => \A q \in some : OldEnough(d, q, now)
  BY <1>2 DEF Bucket, Filters, Steady
<1>5. rs \in buckets \ {{}}
  BY <1>2, <1>3
<1>6. PICK waived : waived = AgeWaived(d, buckets, now)
  OBVIOUS
<1> DEFINE Made(t) == [BuildUpdate(d, base, t) EXCEPT !.waived = waived]
           TopOf(x) == Top(d, R, Bucket(d, x, now))
<1>7. \A x : x \in Aims(d, R, now) <=>
        \E b \in buckets \ {{}} : Written(d, TopOf(b).version) # d.cur /\ x = Made(TopOf(b))
  <2>1. \A b : Build(d, base, TopOf(b)) = IF Written(d, TopOf(b).version) = d.cur THEN {} ELSE {BuildUpdate(d, base, TopOf(b))}
    <3>1. \A t : Build(d, base, t) = IF Written(d, t.version) = d.cur THEN {} ELSE {BuildUpdate(d, base, t)}
      <4> HIDE DEF base
      <4> QED BY <1>1, BuiltIs
    <3> HIDE DEF base, TopOf
    <3> QED BY <3>1
  <2>2. Aims(d, R, now) = UNION {{[u EXCEPT !.waived = waived] : u \in Build(d, base, TopOf(b))} : b \in buckets \ {{}}}
    BY <1>6 DEF Aims, NewestOf
  <2> HIDE DEF TopOf, buckets
  <2>3. \A b : {[u EXCEPT !.waived = waived] : u \in Build(d, base, TopOf(b))} =
                 IF Written(d, TopOf(b).version) = d.cur THEN {} ELSE {Made(TopOf(b))}
    <3> SUFFICES ASSUME NEW b
                 PROVE  {[u EXCEPT !.waived = waived] : u \in Build(d, base, TopOf(b))} =
                          IF Written(d, TopOf(b).version) = d.cur THEN {} ELSE {Made(TopOf(b))}
      OBVIOUS
    <3>1. CASE Written(d, TopOf(b).version) = d.cur
      BY <2>1, <3>1
    <3>2. CASE Written(d, TopOf(b).version) # d.cur
      BY <2>1, <3>2
    <3> QED BY <3>1, <3>2
  <2> HIDE DEF Made
  <2> QED BY <2>2, <2>3
<1>8. \A b \in buckets \ {{}} : TopOf(b) \in b /\ b \subseteq Free(d, R)
  <2> SUFFICES ASSUME NEW b \in buckets \ {{}} PROVE TopOf(b) \in b /\ b \subseteq Free(d, R)
    OBVIOUS
  <2>1. Bucket(d, b, now) \subseteq b /\ Bucket(d, b, now) # {} /\ b \subseteq Free(d, R) /\ b \subseteq Readable(d, R)
    BY BucketIs
  <2> QED BY <2>1, TopIs
<1>9. /\ top \in some /\ Compare(d.scheme, r.version, top.version) <= 0
  BY <1>2, <1>3, TopIs
<1>10. Written(d, top.version) # d.cur
  BY <1>2, <1>3, <1>9, TopMoves
<1>11. Made(top) \in Aims(d, R, now)
  BY <1>5, <1>7, <1>10
<1>12. \A t : /\ Made(t).version = t.version /\ Made(t).value = Written(d, t.version)
              /\ Made(t).type = TypeOf(d, base, t.version) /\ Made(t).time = ReleaseTime(t)
  BY <1>1, BuiltIs
<1>13. ASSUME NEW x \in Aims(d, R, now), x.value = Made(top).value PROVE x = Made(top)
  <2>1. PICK b \in buckets \ {{}} : x = Made(TopOf(b))
    BY <1>7
  <2>2. CASE b = rs
    BY <2>1, <2>2
  <2>3. CASE b # rs
    <3>1. /\ top \in rs /\ TopOf(b) \in b /\ rs \subseteq Free(d, R) /\ b \subseteq Free(d, R)
      BY <1>3, <1>8, <1>9
    <3>2. Written(d, TopOf(b).version) = Written(d, top.version)
      BY <1>12, <1>13, <2>1
    <3> DEFINE Type(q) == UpdateType(d.scheme, base, q.version)
    <3>3. \/ (\A q \in rs : Type(q) = "major") /\ (\A q \in b : Type(q) \in {"minor", "patch"})
          \/ (\A q \in b : Type(q) = "major") /\ (\A q \in rs : Type(q) \in {"minor", "patch"})
      BY <1>5, <2>1, <2>3 DEF Buckets, Majors, Others, OfType
    <3> HIDE DEF top, TopOf, buckets, some
    <3> QED BY <1>1, <3>1, <3>2, <3>3, ValuesApart DEF base
  <2> QED BY <2>2, <2>3
<1> HIDE DEF Made, top
<1>14. Made(top) \in Distinct(Aims(d, R, now))
  <2>1. Made(top) = CHOOSE w \in Aims(d, R, now) : w.value = Made(top).value /\ w.digest = Made(top).digest
    BY <1>11, <1>13
  <2> QED BY <1>11, <2>1 DEF Distinct
<1>15. Made(top) \in PlanOne(d, answer, digests, now).ups
  BY <1>1, <1>14, PlanIs
<1>16. Made(top).type # "majorAvailable"
  BY <1>2, <1>9, <1>12
<1>17. AgedOffer(d, R, Made(top), now)
  BY <1>3, <1>4, <1>9, <1>12 DEF AgedOffer
<1> QED BY <1>15, <1>16, <1>17

-----------------------------------------------------------------------------
(* The members of the request.                                             *)

\* A registry lists finitely many versions, each as the schemes read them.
LEMMA VersionedRead ==
  ASSUME NEW i \in Dep
  PROVE  IsFiniteSet(Versioned(i)) /\ \A v \in Versioned(i) : v \in Values
<1>1. Upcoming[i] \in Seq(Values)
  BY VersionsAreRead DEF Dep, Values, Idents
<1>2. Upcoming[i] \in Surjection(DOMAIN Upcoming[i], Versioned(i))
  BY <1>1 DEF Surjection, Versioned
<1>3. IsFiniteSet(DOMAIN Upcoming[i])
  <2>1. DOMAIN Upcoming[i] = 1..Len(Upcoming[i]) /\ Len(Upcoming[i]) \in Nat
    BY <1>1
  <2> QED BY <2>1, FS_Interval
<1>4. IsFiniteSet(Versioned(i))
  BY <1>2, <1>3, FS_Surjection
<1>5. ASSUME NEW v \in Versioned(i) PROVE v \in Values
  <2>1. PICK k \in DOMAIN Upcoming[i] : v = Upcoming[i][k]
    BY DEF Versioned
  <2> QED BY <1>1, <2>1
<1> QED BY <1>4, <1>5

\* What a lookup answers is listed, whatever dependency is planned from it.
LEMMA AnswerListed ==
  ASSUME NEW i \in Dep, NEW how, how # "failed" => Answered(i, how).versions \subseteq Versioned(i), NEW d,
         NEW R, R = LookedUp(i, how).releases
  PROVE  /\ Listed(d, R)
         /\ VersionsOf(R) = IF how = "failed" THEN {} ELSE Answered(i, how).versions
         /\ \A r \in R : how # "failed" /\ r.version \in Answered(i, how).versions /\ r = Release(i, r.version, how)
<1>1. R = IF how = "failed" THEN {} ELSE {Release(i, v, how) : v \in Answered(i, how).versions}
  BY DEF LookedUp
<1>2. \A v : Release(i, v, how).version = v
  BY DEF Release
<1>3. \A r \in R : how # "failed" /\ r.version \in Answered(i, how).versions /\ r = Release(i, r.version, how)
  BY <1>1, <1>2
<1>4. VersionsOf(R) = IF how = "failed" THEN {} ELSE Answered(i, how).versions
  BY <1>1, <1>2 DEF VersionsOf
<1>5. \A r \in R : r.version \in Versioned(i)
  BY <1>3
<1>6. \A r \in R : r.version \in Values
  BY <1>5, VersionedRead
<1>7. Tops(d, R)
  <2> SUFFICES ASSUME NEW V \in SUBSET VersionsOf(Readable(d, R)), V # {}
               PROVE  Latest(d.scheme, V) \in V /\ \A w \in V : Compare(d.scheme, w, Latest(d.scheme, V)) <= 0
    BY DEF Tops
  <2>1. \A v \in V : v \in Versioned(i) /\ IsVersion(d.scheme, v)
    BY <1>5 DEF VersionsOf, Readable
  <2>2. IsFiniteSet(V)
    BY <2>1, VersionedRead, FS_Subset
  <2>3. \A v \in V : Read(v)
    BY <2>1, VersionedRead DEF Read, Values
  <2>4. d.scheme \in Plain \/ \A v \in V : Full(v)
    BY <2>1 DEF IsVersion
  <2>5. \E v \in V : \A w \in V : Compare(d.scheme, w, v) <= 0
    BY <2>2, <2>3, <2>4, EndsExist
  <2> QED BY <2>5 DEF Latest
<1> QED BY <1>3, <1>4, <1>6, <1>7 DEF Listed

\* A dependency as the default branch has it.
Current(i) == [Deps[i] EXCEPT !.cur = value[i]]

\* It differs from what was configured in its value alone.
LEMMA CurrentIs ==
  ASSUME NEW i \in Dep, NEW c, NEW d, d = [Deps[i] EXCEPT !.cur = c]
  PROVE  /\ d.cur = c /\ d.digest = Deps[i].digest /\ d.pinDigests = Deps[i].pinDigests /\ d.bound = Deps[i].bound
         /\ d.filter = Deps[i].filter /\ d.age = Deps[i].age /\ d.scheme = Deps[i].scheme
         /\ d.strategy = Deps[i].strategy /\ d.unstable = Deps[i].unstable /\ d.age = Age(i) /\ d.optional = Deps[i].optional
BY DepsAreListed DEF Dep, Age

\* Steadiness is about some of the fields.
LEMMA SteadyBy ==
  ASSUME NEW d, Steady(d), NEW e,
         e.digest = d.digest, e.pinDigests = d.pinDigests, e.bound = d.bound, e.filter = d.filter, e.age = d.age, MovesUp(e)
  PROVE  Steady(e)
BY DEF Steady

\* The dependencies the theorem is about: every one with dated releases is
\* steady.
MembersAreSteady == \A i \in Dep \cap Timed : Steady(Deps[i])

\* A member stands by what is published, and by what is stored.
Stood(m) ==
  /\ Stands(Current(m.dep), Published(m.dep), m)
  /\ cache[m.dep] # Nothing => Stands(Current(m.dep), cache[m.dep].versions, m)

MembersInv ==
  /\ box.reason \in Boxed \cup {""}
  /\ \A i \in Dep : cache[i] # Nothing => cache[i].withdrawn \subseteq withdrawn[i]
  /\ \A i \in Dep \cap Timed : Steady(Current(i))
  /\ \A m \in request : m.dep \in Dep /\ (m.dep \in Timed => Stood(m))

\* With more versions known a member stands no less.
LEMMA StandsOn ==
  ASSUME NEW d, NEW V, NEW W, V \subseteq W, NEW m, NEW n, Stands(d, V, m), n.version = m.version, n.value = m.value
  PROVE  Stands(d, W, n)
<1>1. PICK b \in V \cup {d.cur} : Leads(d, V, b, m.version) /\ Above(d, b, m.version)
  BY DEF Stands
<1>2. Leads(d, W, b, n.version)
  BY <1>1 DEF Leads
<1> QED BY <1>1, <1>2 DEF Stands

\* A merged update leaves a dependency that moves up.
LEMMA MergedMovesUp ==
  ASSUME NEW d, MovesUp(d), NEW V, \A v \in V : v \in Values, NEW m, Stands(d, V, m),
         NEW e, e.cur = m.value, e.scheme = d.scheme, e.strategy = d.strategy, e.unstable = d.unstable
  PROVE  MovesUp(e)
<1>1. PICK b \in V \cup {d.cur} : Leads(d, V, b, m.version) /\ Above(d, b, m.version)
  BY DEF Stands
<1> DEFINE v == m.version
<1>2. v \in V /\ IsVersion(d.scheme, v) /\ IsValid(d.scheme, d.cur) /\ e.cur = Written(d, v) /\ v \in Values
  BY DEF Stands
<1>3. CASE ~IsRange(d)
  <2>1. b = d.cur
    BY <1>1, <1>3 DEF Leads
  <2>2. IsCompatible(d.scheme, v, d.cur)
    BY <1>1, <2>1 DEF Above
  <2>3. e.cur = v
    BY <1>2, <1>3, <2>2, VersionWritten
  <2> QED BY <1>2, <2>3 DEF MovesUp, IsRange
<1>4. CASE IsRange(d)
  <2>1. Replaced(d)
    BY <1>2, <1>4 DEF MovesUp, Replaced
  <2>2. d.scheme \in {"semver-partial", "npm"} /\ Comparator(d.cur) /\ RangeStrategy(d.strategy) = "replace" /\ ~d.unstable
    BY <2>1 DEF Replaced
  <2>3. b \in V /\ b \in Values /\ IsVersion(d.scheme, b) /\ Satisfies(d.scheme, b, d.cur)
    BY <1>1, <1>4 DEF Leads
  <2>4. IsStable(d.scheme, b) /\ (IsStable(d.scheme, b) => IsStable(d.scheme, v))
    <3>1. IsStable(d.scheme, b)
      BY <2>1, <2>3, AdmittedPlainly
    <3>2. IsStable(d.scheme, b) => IsStable(d.scheme, v)
      BY <1>1, <2>2 DEF Above
    <3> QED BY <3>1, <3>2
  <2>5. Plainly(v)
    BY <1>2, <2>1, <2>4, AdmittedPlainly
  <2>6. Prefixed(d)
    BY <2>3 DEF Prefixed, Satisfies, PartialSatisfies
  <2>7. Comparator(e.cur)
    BY <1>2, <2>1, <2>5, <2>6, WrittenFor
  <2> QED BY <2>2, <2>7 DEF MovesUp
<1> QED BY <1>3, <1>4

\* At first there is no member, and the default branch is as configured.
LEMMA MembersInit == ASSUME MembersAreSteady, Init PROVE MembersInv
<1>1. box.reason = "" /\ request = {} /\ \A i \in Dep : cache[i] = Nothing
  BY DEF Init, NoBox, Closed, NoAnswers
<1>2. ASSUME NEW i \in Dep \cap Timed PROVE Steady(Current(i))
  <2>1. Current(i) = [Deps[i] EXCEPT !.cur = Deps[i].cur] /\ Steady(Deps[i])
    BY DEF Init, Current, MembersAreSteady
  <2> DEFINE d == Current(i)
  <2>2. /\ d.cur = Deps[i].cur /\ d.digest = Deps[i].digest /\ d.pinDigests = Deps[i].pinDigests /\ d.bound = Deps[i].bound
        /\ d.filter = Deps[i].filter /\ d.age = Deps[i].age /\ d.scheme = Deps[i].scheme
        /\ d.strategy = Deps[i].strategy /\ d.unstable = Deps[i].unstable
    BY <2>1, CurrentIs
  <2> HIDE DEF d
  <2>3. MovesUp(d)
    BY <2>1, <2>2 DEF MovesUp, Steady, IsRange
  <2>4. Steady(d)
    BY <2>1, <2>2, <2>3, SteadyBy
  <2> QED BY <2>4 DEF d
<1> QED BY <1>1, <1>2 DEF MembersInv

\* What the world may do to members: more is published, what is stored is kept
\* or lost, and no release stored as withdrawn is not.
LEMMA WorldKeepsMembers ==
  ASSUME MembersInv, box'.reason \in Boxed \cup {""}, value' = value, request' = request,
         \A i \in Dep : Published(i) \subseteq Published(i)',
         \A i \in Dep : cache'[i] # Nothing =>
           cache[i] # Nothing /\ cache'[i].versions = cache[i].versions /\ cache'[i].withdrawn \subseteq withdrawn'[i]
  PROVE  MembersInv'
<1>1. \A i : Current(i)' = Current(i)
  BY DEF Current
<1>2. \A i \in Dep \cap Timed : Steady(Current(i)')
  BY <1>1 DEF MembersInv
<1>3. ASSUME NEW m \in request, m.dep \in Dep, m.dep \in Timed
      PROVE  /\ Stands(Current(m.dep)', Published(m.dep)', m)
             /\ cache'[m.dep] # Nothing => Stands(Current(m.dep)', cache'[m.dep].versions, m)
  <2>1. /\ Stands(Current(m.dep), Published(m.dep), m)
        /\ cache[m.dep] # Nothing => Stands(Current(m.dep), cache[m.dep].versions, m)
    BY <1>3 DEF MembersInv, Stood
  <2>2. Stands(Current(m.dep), Published(m.dep)', m)
    BY <1>3, <2>1, StandsOn
  <2> QED BY <1>1, <1>3, <2>1, <2>2
<1>4. \A m \in request' : m.dep \in Dep /\ (m.dep \in Timed => Stood(m)')
  BY <1>3 DEF MembersInv, Stood
<1>5. \A i \in Dep : cache'[i] # Nothing => cache'[i].withdrawn \subseteq withdrawn'[i]
  OBVIOUS
<1> QED BY <1>2, <1>4, <1>5 DEF MembersInv

\* What a run looks up.
Versions(i, how) == IF how = "failed" THEN {} ELSE Answered(i, how).versions

\* It is of the dependency's releases and published; a run that fails stores
\* nothing, and one that does not stores its answer.
LEMMA LookupIs ==
  ASSUME AgesInv, MembersInv, NEW i \in Dep, NEW silent, NEW how, how = Fetched(i, silent),
         NEW stored, stored = IF how = "asked" THEN Asked(i) ELSE cache[i]
  PROVE  /\ how # "failed" => Answered(i, how).versions \subseteq Versioned(i)
         /\ Versions(i, how) \subseteq Published(i)
         /\ how = "failed" <=> stored = Nothing
         /\ how # "failed" => stored = Answered(i, how) /\ stored.withdrawn \subseteq withdrawn[i]
         /\ cache[i] # Nothing => how # "failed"
         /\ how = "asked" \/ stored = cache[i]
<1>1. how \in {"cached", "asked", "stale", "failed"}
  BY DEF Fetched
<1>2. how \in {"cached", "stale"} => cache[i] # Nothing
  BY DEF Fetched
<1>3. how = "failed" => cache[i] = Nothing
  BY DEF Fetched
<1>4. Asked(i) # Nothing /\ Asked(i).versions = Published(i) /\ Asked(i).withdrawn = withdrawn[i]
  BY AnswerTyped DEF Asked
<1>5. cache[i] # Nothing => cache[i].versions \subseteq Published(i) /\ cache[i].withdrawn \subseteq withdrawn[i]
  BY DEF AgesInv, AnswersArePublic, MembersInv
<1>6. how # "failed" => stored = Answered(i, how)
  BY DEF Answered
<1>7. how # "failed" => stored # Nothing /\ stored.versions \subseteq Published(i) /\ stored.withdrawn \subseteq withdrawn[i]
  BY <1>1, <1>2, <1>4, <1>5
<1>8. Published(i) \subseteq Versioned(i)
  BY DEF Published
<1> QED BY <1>1, <1>3, <1>6, <1>7, <1>8 DEF Versions

\* A run leaves members that stand.
LEMMA RunKeepsMembers ==
  ASSUME AgesInv, MembersInv, NEW silent, NEW knowsOpen \in BOOLEAN, NEW refused, Run(silent, knowsOpen, refused)
  PROVE  MembersInv'
<1> DEFINE how == [i \in Dep |-> Fetched(i, silent)]
<1>1. /\ cache' = [i \in Dep |-> IF how[i] = "asked" THEN Asked(i) ELSE cache[i]]
      /\ UNCHANGED <<public, withdrawn, value, box>>
  BY DEF Run, RunWith, Looked
<1>2. \A i \in Dep : how[i] = Fetched(i, silent)
  OBVIOUS
<1>3. PICK b : b = Branch(how, knowsOpen, refused) /\ Acted(b)
  BY DEF Run, RunWith
<1> HIDE DEF how
<1>4. \A i : Current(i)' = Current(i) /\ Published(i)' = Published(i)
  BY <1>1 DEF Current, Published
<1>5. ASSUME NEW i \in Dep
      PROVE  /\ how[i] # "failed" => Answered(i, how[i]).versions \subseteq Versioned(i)
             /\ Versions(i, how[i]) \subseteq Published(i)
             /\ cache'[i] # Nothing => cache'[i].versions = Versions(i, how[i]) /\ cache'[i].withdrawn \subseteq withdrawn'[i]
             /\ how[i] = "asked" \/ cache'[i] = cache[i]
             /\ how[i] = "asked" => Versions(i, how[i]) = Published(i)
  <2>1. cache'[i] = IF how[i] = "asked" THEN Asked(i) ELSE cache[i]
    BY <1>1
  <2>2. how[i] = "asked" => Versions(i, how[i]) = Published(i)
    BY DEF Versions, Answered, Asked
  <2> QED BY <1>1, <1>2, <2>1, <2>2, LookupIs DEF Versions
<1>6. ASSUME NEW m \in request' PROVE m.dep \in Dep /\ (m.dep \in Timed => Stood(m)')
  <2>1. CASE m \in request
    <3>1. m.dep \in Dep /\ (m.dep \in Timed => Stood(m))
      BY <2>1 DEF MembersInv
    <3>2. ASSUME m.dep \in Timed PROVE Stood(m)'
      <4>1. Stands(Current(m.dep), Published(m.dep), m) /\ (cache[m.dep] # Nothing => Stands(Current(m.dep), cache[m.dep].versions, m))
        BY <3>1, <3>2 DEF Stood
      <4>2. cache'[m.dep] # Nothing => Stands(Current(m.dep), cache'[m.dep].versions, m)
        BY <1>5, <3>1, <4>1
      <4> QED BY <1>4, <4>1, <4>2 DEF Stood
    <3> QED BY <3>1, <3>2
  <2>2. CASE m \notin request
    <3>1. Acts(b) /\ m \in Carried(b)
      BY <1>3, <2>2 DEF Acted, Closed
    <3>2. "rollingMajor" \notin Ticks
      BY DEF Ticks, MembersInv, Boxed
    <3>3. OfferedFree(how, m, "rollingMajor")
      BY <1>3, <3>1, <3>2, ActsOnFree
    <3>4. PICK i \in Dep : \E v \in Updates(i, how[i]) :
            m = [dep |-> i, value |-> v.value, version |-> v.version] /\ v.type # "majorAvailable"
      BY <3>3 DEF OfferedFree, HeldFor
    <3>5. PICK v \in Updates(i, how[i]) :
            m = [dep |-> i, value |-> v.value, version |-> v.version] /\ v.type # "majorAvailable"
      BY <3>4
    <3>6. m.dep = i /\ m.value = v.value /\ m.version = v.version
      BY <3>5
    <3>7. ASSUME i \in Timed PROVE Stands(Current(i), Versions(i, how[i]), m)
      <4> DEFINE d == Current(i)
                 answer == LookedUp(i, how[i])
                 R == answer.releases
      <4>1. Steady(d) /\ answer.made
        BY <3>7 DEF MembersInv, LookedUp
      <4>2. Listed(d, R) /\ VersionsOf(R) = Versions(i, how[i])
        <5>1. how[i] # "failed" => Answered(i, how[i]).versions \subseteq Versioned(i)
          BY <1>5
        <5>2. R = LookedUp(i, how[i]).releases
          OBVIOUS
        <5> HIDE DEF d, R, answer
        <5>3. Listed(d, R) /\ VersionsOf(R) = IF how[i] = "failed" THEN {} ELSE Answered(i, how[i]).versions
          BY <5>1, <5>2, AnswerListed
        <5> QED BY <5>3 DEF Versions
      <4>3. v \in PlanOne(d, answer, <<>>, Age(i)).ups
        BY DEF Updates, Current
      <4> HIDE DEF d, answer
      <4>4. Stands(d, VersionsOf(R), v)
        BY <3>5, <4>1, <4>2, <4>3, OffersStand
      <4> QED BY <3>6, <4>2, <4>4, StandsOn DEF d
    <3>8. ASSUME i \in Timed PROVE Stood(m)'
      <4>1. Stands(Current(i), Published(i), m)
        BY <1>5, <3>7, <3>8, StandsOn
      <4>2. cache'[i] # Nothing => Stands(Current(i), cache'[i].versions, m)
        BY <1>5, <3>7, <3>8
      <4> QED BY <1>4, <3>6, <4>1, <4>2 DEF Stood
    <3> QED BY <3>6, <3>8
  <2> QED BY <2>1, <2>2
<1>7. \A i \in Dep \cap Timed : Steady(Current(i)')
  BY <1>4 DEF MembersInv
<1>8. box'.reason \in Boxed \cup {""}
  BY <1>1 DEF MembersInv
<1> QED BY <1>5, <1>6, <1>7, <1>8 DEF MembersInv

\* The member a merge takes for a dependency.
Merged(i) == CHOOSE m \in request : m.dep = i

\* A merge leaves dependencies that are steady, with another value.
LEMMA MergeKeepsMembers ==
  ASSUME MembersInv, PersonMerges
  PROVE  MembersInv' /\ \A m \in request : m.dep \in Timed => value' # value
<1>1. /\ value' = [i \in Dep |-> IF \E m \in request : m.dep = i THEN Merged(i).value ELSE value[i]]
      /\ request' = {} /\ UNCHANGED <<cache, withdrawn, box>>
  BY DEF PersonMerges, Closed, Merged
<1>2. ASSUME NEW i \in Dep \cap Timed, \E m \in request : m.dep = i
      PROVE  /\ Merged(i) \in request /\ Merged(i).dep = i /\ Stands(Current(i), Published(i), Merged(i))
             /\ Merged(i).value # value[i] /\ value'[i] = Merged(i).value
  <2>1. Merged(i) \in request /\ Merged(i).dep = i
    BY <1>2 DEF Merged
  <2>2. Stands(Current(i), Published(i), Merged(i))
    BY <2>1 DEF MembersInv, Stood
  <2>3. Current(i).cur = value[i]
    BY CurrentIs DEF Current
  <2>4. Merged(i).value # value[i]
    BY <2>2, <2>3 DEF Stands
  <2> QED BY <1>1, <1>2, <2>1, <2>2, <2>4
<1>3. ASSUME NEW i \in Dep \cap Timed PROVE Steady([Deps[i] EXCEPT !.cur = value'[i]])
  <2> DEFINE d == Current(i)
             e == [Deps[i] EXCEPT !.cur = value'[i]]
  <2>1. Steady(d)
    BY DEF MembersInv
  <2>2. /\ d.digest = Deps[i].digest /\ d.pinDigests = Deps[i].pinDigests /\ d.bound = Deps[i].bound
        /\ d.filter = Deps[i].filter /\ d.age = Deps[i].age /\ d.scheme = Deps[i].scheme
        /\ d.strategy = Deps[i].strategy /\ d.unstable = Deps[i].unstable /\ d.cur = value[i]
    BY CurrentIs DEF Current
  <2>3. /\ e.digest = Deps[i].digest /\ e.pinDigests = Deps[i].pinDigests /\ e.bound = Deps[i].bound
        /\ e.filter = Deps[i].filter /\ e.age = Deps[i].age /\ e.scheme = Deps[i].scheme
        /\ e.strategy = Deps[i].strategy /\ e.unstable = Deps[i].unstable /\ e.cur = value'[i]
    BY CurrentIs
  <2> HIDE DEF d, e
  <2>4. MovesUp(e)
    <3>1. CASE \E m \in request : m.dep = i
      <4>1. Stands(d, Published(i), Merged(i)) /\ e.cur = Merged(i).value
        BY <1>2, <2>3, <3>1 DEF d
      <4>2. \A v \in Published(i) : v \in Values
        BY VersionedRead DEF Published
      <4>3. MovesUp(d)
        BY <2>1 DEF Steady
      <4> QED BY <2>2, <2>3, <4>1, <4>2, <4>3, MergedMovesUp
    <3>2. CASE ~\E m \in request : m.dep = i
      <4>1. e.cur = d.cur
        BY <1>1, <2>2, <2>3, <3>2
      <4> QED BY <2>1, <2>2, <2>3, <4>1 DEF Steady, MovesUp, IsRange
    <3> QED BY <3>1, <3>2
  <2>5. Steady(e)
    BY <2>1, <2>2, <2>3, <2>4, SteadyBy
  <2> QED BY <2>5 DEF e
<1>4. \A i \in Dep \cap Timed : Steady(Current(i)')
  BY <1>3 DEF Current
<1>5. MembersInv'
  BY <1>1, <1>4 DEF MembersInv
<1>6. ASSUME NEW m \in request, m.dep \in Timed PROVE value' # value
  <2>1. m.dep \in Dep \cap Timed /\ \E x \in request : x.dep = m.dep
    BY <1>6 DEF MembersInv
  <2>2. value'[m.dep] # value[m.dep]
    BY <1>2, <2>1
  <2> QED BY <2>2
<1> QED BY <1>5, <1>6

\* What neither runs nor merges.
Elsewhere ==
  \/ Publish \/ PublishFails \/ Day \/ Window \/ PersonTicks \/ Reset \/ Export \/ Import \/ Prune
  \/ \E i \in Dep : Publishes(i) \/ \E v \in Versioned(i) : Withdraws(i, v)
  \/ UNCHANGED vars

\* None of it moves a member.
LEMMA ElsewhereKeepsMembers ==
  ASSUME AgesInv, MembersInv, Elsewhere
  PROVE  MembersInv' /\ request' = request
<1>1. /\ box.reason \in Boxed \cup {""}
      /\ \A i \in Dep : cache[i] # Nothing => cache[i].withdrawn \subseteq withdrawn[i]
  BY DEF MembersInv
<1>2. CASE Publish \/ PublishFails \/ Window \/ PersonTicks \/ Export \/ Import \/ UNCHANGED vars
  <2>1. UNCHANGED <<public, withdrawn, value, cache, request>>
    BY <1>2 DEF Publish, PublishFails, Window, PersonTicks, Export, Import, vars
  <2>2. box'.reason \in Boxed \cup {""}
    <3>1. CASE Publish
      BY <3>1 DEF Publish, NoBox
    <3>2. CASE PersonTicks
      <4>1. box' = [box EXCEPT !.ticked = TRUE]
        BY <3>2 DEF PersonTicks
      <4>2. box'.reason = box.reason
        BY <4>1
      <4> QED BY <1>1, <4>2
    <3>3. CASE PublishFails \/ Window \/ Export \/ Import \/ UNCHANGED vars
      BY <1>1, <3>3 DEF PublishFails, Window, Export, Import, vars
    <3> QED BY <1>2, <3>1, <3>2, <3>3
  <2>3. \A i \in Dep : Published(i)' = Published(i)
    BY <2>1 DEF Published
  <2> QED BY <1>1, <2>1, <2>2, <2>3, WorldKeepsMembers
<1>3. CASE Day
  <2>1. /\ public' = OlderAll(public) /\ UNCHANGED <<withdrawn, value, request, box>>
        /\ cache' = [i \in Dep |-> IF cache[i] = Nothing THEN Nothing ELSE [cache[i] EXCEPT !.fresh = FALSE]]
    BY <1>3 DEF Day
  <2>2. ASSUME NEW i \in Dep PROVE Published(i) \subseteq Published(i)'
    <3>1. \A v \in Versioned(i) : public[i][v] \in Never..Age(i) /\ public'[i][v] = Older(i, public[i][v])
      BY <2>1, AgedAt, OlderAllAged DEF AgesInv, CacheTyped
    <3>2. \A v \in Versioned(i) : public'[i][v] = Never <=> public[i][v] = Never
      BY <3>1, OlderKeepsOrder
    <3> QED BY <3>2 DEF Published
  <2>3. ASSUME NEW i \in Dep, cache'[i] # Nothing
        PROVE  cache[i] # Nothing /\ cache'[i].versions = cache[i].versions /\ cache'[i].withdrawn \subseteq withdrawn'[i]
    <3>1. cache[i] # Nothing /\ cache'[i] = [cache[i] EXCEPT !.fresh = FALSE]
      BY <2>1, <2>3
    <3>2. cache[i] \in Stored(i)
      BY <3>1 DEF AgesInv, CacheTyped
    <3>3. cache'[i].versions = cache[i].versions /\ cache'[i].withdrawn = cache[i].withdrawn
      BY <3>1, <3>2 DEF Stored
    <3> QED BY <1>1, <2>1, <3>1, <3>3
  <2> QED BY <1>1, <2>1, <2>2, <2>3, WorldKeepsMembers
<1>4. CASE \E i \in Dep : Publishes(i)
  <2>1. PICK i \in Dep : Publishes(i)
    BY <1>4
  <2>2. UNCHANGED <<withdrawn, value, cache, request, box>>
    BY <2>1 DEF Publishes
  <2>3. PICK k \in DOMAIN Upcoming[i] : public' = [public EXCEPT ![i][Upcoming[i][k]] = 0]
    BY <2>1 DEF Publishes
  <2>4. ASSUME NEW j \in Dep PROVE Published(j) \subseteq Published(j)'
    <3>1. Aged(public)
      BY DEF AgesInv, CacheTyped
    <3>2. \A v \in Versioned(j) : public'[j][v] = public[j][v] \/ public'[j][v] = 0
      BY <2>3, <3>1 DEF Aged
    <3> QED BY <3>2 DEF Published, Never
  <2> QED BY <1>1, <2>2, <2>4, WorldKeepsMembers
<1>5. CASE \E i \in Dep : \E v \in Versioned(i) : Withdraws(i, v)
  <2>1. PICK i \in Dep : \E v \in Versioned(i) : Withdraws(i, v)
    BY <1>5
  <2>2. UNCHANGED <<public, value, cache, request, box>> /\ \A j \in Dep : withdrawn[j] = {}
    BY <2>1 DEF Withdraws
  <2>3. \A j \in Dep : cache'[j] # Nothing => cache'[j].withdrawn \subseteq withdrawn'[j]
    BY <1>1, <2>2
  <2>4. \A j \in Dep : Published(j)' = Published(j)
    BY <2>2 DEF Published
  <2> QED BY <1>1, <2>2, <2>3, <2>4, WorldKeepsMembers
<1>6. CASE Reset \/ Prune
  <2>1. UNCHANGED <<public, withdrawn, value, request, box>>
    BY <1>6 DEF Reset, Prune
  <2>2. \A i \in Dep : cache'[i] = Nothing \/ cache'[i] = cache[i]
    BY <1>6 DEF Reset, Prune, NoAnswers
  <2>3. \A i \in Dep : Published(i)' = Published(i)
    BY <2>1 DEF Published
  <2>4. \A i \in Dep : cache'[i] # Nothing =>
          cache[i] # Nothing /\ cache'[i].versions = cache[i].versions /\ cache'[i].withdrawn \subseteq withdrawn'[i]
    BY <1>1, <2>1, <2>2
  <2> QED BY <1>1, <2>1, <2>3, <2>4, WorldKeepsMembers
<1> QED BY <1>2, <1>3, <1>4, <1>5, <1>6 DEF Elsewhere

\* Every step leaves members that stand.
LEMMA StepsKeepMembers == ASSUME AgesInv, MembersInv, [Next]_vars PROVE MembersInv'
<1>1. ASSUME NEW silent, NEW knowsOpen \in BOOLEAN, NEW refused, Run(silent, knowsOpen, refused) PROVE MembersInv'
  BY <1>1, RunKeepsMembers
<1>2. CASE PersonMerges
  BY <1>2, MergeKeepsMembers
<1>3. CASE Elsewhere
  BY <1>3, ElsewhereKeepsMembers
<1> QED BY <1>1, <1>2, <1>3, Zenon DEF Next, Elsewhere

\* The members of the request of a steady project stand.
THEOREM MembersStand == ASSUME MembersAreSteady PROVE Spec => []MembersInv
<1>1. Init => MembersInv
  BY MembersInit
<1>2. AgesInv /\ MembersInv /\ [Next]_vars => MembersInv'
  BY StepsKeepMembers
<1> QED BY <1>1, <1>2, AgesAreTrue, PTL DEF Spec

\* A run leaves an aged member of a dated dependency its place.
LEMMA RunKeepsAged ==
  ASSUME AgesInv, MembersInv, NEW silent, NEW knowsOpen \in BOOLEAN, NEW refused, Run(silent, knowsOpen, refused),
         NEW m \in request, m.dep \in Timed, public[m.dep][m.version] >= Age(m.dep),
         m.version \notin withdrawn[m.dep], cache[m.dep] # Nothing
  PROVE  \E n \in request' : n.dep = m.dep
<1> DEFINE i == m.dep
           all == [j \in Dep |-> Fetched(j, silent)]
           how == Fetched(i, silent)
           d == Current(i)
           answer == LookedUp(i, how)
           R == answer.releases
<1>1. i \in Dep /\ Stood(m) /\ Steady(d) /\ d.age = Age(i) /\ Age(i) \in Nat /\ d.optional = Deps[i].optional
  <2>1. i \in Dep /\ Stood(m) /\ Steady(d)
    BY DEF MembersInv
  <2>2. d.age = Age(i) /\ d.optional = Deps[i].optional
    BY <2>1, CurrentIs DEF Current
  <2> QED BY <2>1, <2>2, AgeIsNat
<1>2. Acted(Branch(all, knowsOpen, refused)) /\ all[i] = how
  BY <1>1 DEF Run, RunWith
<1> DEFINE stored == IF how = "asked" THEN Asked(i) ELSE cache[i]
<1>3. /\ how # "failed" /\ Answered(i, how).versions \subseteq Versioned(i) /\ Answered(i, how).versions \subseteq Published(i)
      /\ stored = Answered(i, how) /\ stored.withdrawn \subseteq withdrawn[i]
      /\ how = "asked" \/ stored = cache[i]
  BY <1>1, LookupIs DEF Versions
<1>4. answer.made /\ (answer.failed <=> how = "failed")
  BY DEF LookedUp
<1> HIDE DEF how, all
<1>5. /\ Listed(d, R) /\ VersionsOf(R) = Answered(i, how).versions
      /\ \A r \in R : r.version \in Answered(i, how).versions /\ r = Release(i, r.version, how)
  <2> HIDE DEF d
  <2>1. R = LookedUp(i, how).releases
    OBVIOUS
  <2> HIDE DEF R
  <2>2. /\ Listed(d, R) /\ VersionsOf(R) = IF how = "failed" THEN {} ELSE Answered(i, how).versions
        /\ \A r \in R : how # "failed" /\ r.version \in Answered(i, how).versions /\ r = Release(i, r.version, how)
    <3>1. i \in Dep /\ (how # "failed" => Answered(i, how).versions \subseteq Versioned(i))
      BY <1>1, <1>3
    <3> HIDE DEF i
    <3> QED BY <2>1, <3>1, AnswerListed
  <2> QED BY <1>3, <2>2
<1> HIDE DEF answer
<1>6. Stands(d, VersionsOf(R), m)
  <2>1. Stands(d, Published(i), m) /\ Stands(d, cache[i].versions, m)
    BY <1>1 DEF Stood
  <2>2. how = "asked" => Answered(i, how).versions = Published(i)
    BY DEF Answered, Asked
  <2> QED BY <1>3, <1>5, <2>1, <2>2
<1>7. ASSUME NEW q \in R
      PROVE  /\ ReleaseTime(q) \in Nat /\ ReleaseTime(q) = Age(i) - public[i][q.version]
             /\ q.deprecated => q.version \in withdrawn[i]
  <2>1. q.version \in Published(i) /\ q = Release(i, q.version, how)
    BY <1>3, <1>5
  <2>2. q.time = Since(i, public[i][q.version]) /\ (q.deprecated => q.version \in Answered(i, how).withdrawn)
    <3>1. ASSUME NEW w
          PROVE  /\ Release(i, w, how).time = Since(i, public[i][w])
                 /\ Release(i, w, how).deprecated => w \in Answered(i, how).withdrawn
      BY DEF Release
    <3> QED BY <2>1, <3>1
  <2>3. public[i][q.version] \in Never..Age(i) /\ public[i][q.version] # Never
    BY <1>1, <2>1, AgedAt DEF Published, AgesInv, CacheTyped
  <2>4. q.time = Age(i) - public[i][q.version] /\ q.time \in Nat /\ q.time # Never
    BY <1>1, <2>2, <2>3 DEF Since, Never
  <2> QED BY <1>3, <2>2, <2>4 DEF ReleaseTime
<1>8. PICK r \in R : r.version = m.version
  BY <1>6 DEF Stands, VersionsOf
<1>9. ~r.deprecated /\ OldEnough(d, r, Age(i))
  <2>1. ~r.deprecated
    BY <1>7, <1>8
  <2>2. /\ ReleaseTime(r) \in Nat /\ ReleaseTime(r) = Age(i) - public[i][m.version]
        /\ public[i][m.version] \in Never..Age(i)
    <3>1. m.version \in Versioned(i)
      BY <1>3, <1>5, <1>8
    <3> QED BY <1>1, <1>7, <1>8, <3>1, AgedAt DEF AgesInv, CacheTyped
  <2>3. public[i][m.version] >= Age(i)
    OBVIOUS
  <2>4. Age(i) >= ReleaseTime(r) + Age(i)
    BY <1>1, <2>2, <2>3 DEF Never
  <2> QED BY <1>1, <2>1, <2>2, <2>4 DEF OldEnough, Never
<1> HIDE DEF R
<1>10. PICK u \in PlanOne(d, answer, <<>>, Age(i)).ups : u.type # "majorAvailable" /\ AgedOffer(d, R, u, Age(i))
  <2> HIDE DEF d
  <2> QED BY <1>1, <1>3, <1>4, <1>5, <1>6, <1>8, <1>9, StandsOffered DEF R
<1>11. u \in Updates(i, how)
  BY <1>10 DEF Updates, Current, answer
<1>12. ~Young(i, u)
  <2>1. CASE Age(i) = 0
    BY <2>1 DEF Young, TooYoung, Policy
  <2>2. CASE Age(i) > 0
    <3>1. PICK q \in R : u.time = ReleaseTime(q) /\ OldEnough(d, q, Age(i))
      BY <1>1, <1>10, <2>2 DEF AgedOffer
    <3>2. u.time \in Nat
      BY <1>7, <3>1
    <3>3. Age(i) >= u.time + Age(i)
      BY <1>1, <3>1, <3>2 DEF OldEnough, Never
    <3>4. u.time # Unheld /\ ~(Age(i) < u.time + Age(i))
      BY <1>1, <3>2, <3>3 DEF Unheld
    <3> QED BY <3>4 DEF Young, TooYoung, Policy, Member
  <2> QED BY <1>1, <2>1, <2>2
<1>13. FreeOffer(i, all, u)
  BY <1>2, <1>10, <1>11, <1>12 DEF FreeOffer
<1> QED BY <1>1, <1>2, <1>13, RunKeepsPlace

\* An aged member of the open request whose registry dates its releases keeps
\* its place.
THEOREM AgedMembersStay == ASSUME MembersAreSteady PROVE Spec => MembersStay
<1>1. AgesInv /\ MembersInv /\ [Next]_vars =>
        [\A m \in request :
           /\ m.dep \in Timed /\ public[m.dep][m.version] >= Age(m.dep)
           /\ m.version \notin withdrawn[m.dep] /\ cache[m.dep] /= Nothing /\ value' = value
           => \E n \in request' : n.dep = m.dep]_vars
  <2> SUFFICES ASSUME AgesInv, MembersInv, [Next]_vars, NEW m \in request, m.dep \in Timed,
                      public[m.dep][m.version] >= Age(m.dep), m.version \notin withdrawn[m.dep],
                      cache[m.dep] # Nothing, value' = value
               PROVE  \E n \in request' : n.dep = m.dep
    OBVIOUS
  <2>1. ASSUME NEW silent, NEW knowsOpen \in BOOLEAN, NEW refused, Run(silent, knowsOpen, refused)
        PROVE  \E n \in request' : n.dep = m.dep
    BY <2>1, RunKeepsAged
  <2>2. CASE PersonMerges
    BY <2>2, MergeKeepsMembers
  <2>3. CASE Elsewhere
    <3>1. request' = request
      BY <2>3, ElsewhereKeepsMembers
    <3> QED BY <3>1
  <2> QED BY <2>1, <2>2, <2>3, Zenon DEF Next, Elsewhere
<1> QED BY <1>1, AgesAreTrue, MembersStand, PTL DEF Spec, MembersStay
=============================================================================
