--------------------------- MODULE WakeChoiceProofs ---------------------------
(***************************************************************************)
(* What ComputeWake returns, for every configuration, calendar, record of  *)
(* the last publication and manual intent: a well-formed result, that      *)
(* carries the given intent or none and is not later than its deadline.    *)
(***************************************************************************)
EXTENDS WakeChoice, FiniteSetTheorems, SequenceTheorems, WellFoundedInduction, TLAPS

-----------------------------------------------------------------------------
\* Logical days.

IsDay(d) == d \in Int /\ DayStart(d) = d

\* Division leaves a remainder.
LEMMA Divided ==
  ASSUME NEW t \in Int
  PROVE  /\ t \div Day \in Int /\ t % Day \in 0..(Day - 1)
         /\ t = Day * (t \div Day) + (t % Day)
<1>1. Day \in Nat /\ Day > 0
  BY ChoiceConstants
<1> QED BY <1>1

\* Multiples of different factors are a whole day apart.
LEMMA Apart ==
  ASSUME NEW a \in Int, NEW b \in Int, a < b
  PROVE  Day * a + Day <= Day * b
<1>1. Day \in Nat
  BY ChoiceConstants
<1>2. PICK k \in Nat : b = a + 1 + k
  <2>1. b - a - 1 \in Nat /\ b = a + 1 + (b - a - 1)
    OBVIOUS
  <2> QED BY <2>1
<1>3. Day * (a + 1 + k) = Day * a + Day + Day * k
  BY <1>1
<1>4. Day * k \in Nat /\ Day * a \in Int
  BY <1>1
<1> QED BY <1>1, <1>2, <1>3, <1>4

\* An instant lies in the day that starts at its start.
LEMMA DayOfInstant ==
  ASSUME NEW t \in Int
  PROVE  /\ DayStart(t) \in Int /\ DayStart(t) <= t /\ t < DayStart(t) + Day
         /\ DayStart(t) = Day * (t \div Day)
<1>1. Day \in Nat /\ Day * (t \div Day) \in Int
  BY ChoiceConstants, Divided
<1> QED BY <1>1, Divided DEF DayStart

\* A multiple of Day is the start of its day.
LEMMA MultipleIsDay ==
  ASSUME NEW q \in Int
  PROVE  IsDay(Day * q)
<1> DEFINE d == Day * q
<1> DEFINE e == d \div Day
<1>1. Day \in Nat /\ Day > 0 /\ d \in Int
  BY ChoiceConstants
<1>2. e \in Int /\ d % Day \in 0..(Day - 1) /\ d = Day * e + (d % Day)
  BY <1>1, Divided
<1>3. Day * e \in Int /\ Day * q \in Int
  BY <1>1, <1>2
<1>4. ~(q < e)
  BY <1>1, <1>2, <1>3, Apart
<1>5. ~(e < q)
  BY <1>1, <1>2, <1>3, Apart
<1>6. q = e
  BY <1>2, <1>4, <1>5
<1>7. d % Day = 0
  BY <1>1, <1>2, <1>3, <1>6
<1> QED BY <1>1, <1>7 DEF IsDay, DayStart

\* The starts of days are days, as are those of the next days.
LEMMA StartIsDay ==
  ASSUME NEW t \in Int
  PROVE  IsDay(DayStart(t))
<1>1. t \div Day \in Int
  BY Divided
<1> QED BY <1>1, DayOfInstant, MultipleIsDay

LEMMA NextDay ==
  ASSUME NEW d, IsDay(d)
  PROVE  IsDay(d + Day)
<1>1. d \in Int /\ d \div Day \in Int /\ d = Day * (d \div Day) /\ Day \in Nat
  BY Divided, DayOfInstant, ChoiceConstants DEF IsDay
<1> DEFINE q == d \div Day
<1>2. q + 1 \in Int /\ Day * (q + 1) = Day * q + Day
  BY <1>1
<1>3. IsDay(Day * (q + 1))
  BY <1>2, MultipleIsDay
<1> QED BY <1>1, <1>2, <1>3

\* Different days do not overlap.
LEMMA DaysApart ==
  ASSUME NEW a, NEW b, IsDay(a), IsDay(b), a < b
  PROVE  a + Day <= b
<1>1. /\ a \in Int /\ a \div Day \in Int /\ a = Day * (a \div Day)
      /\ b \in Int /\ b \div Day \in Int /\ b = Day * (b \div Day) /\ Day \in Nat
  BY Divided, DayOfInstant, ChoiceConstants DEF IsDay
<1> DEFINE p == a \div Day
<1> DEFINE q == b \div Day
<1>2. CASE p < q
  BY <1>1, <1>2, Apart
<1>3. CASE p = q
  BY <1>1, <1>3
<1>4. CASE q < p
  <2>1. Day * q + Day <= Day * p
    BY <1>1, <1>4, Apart
  <2> QED BY <1>1, <2>1
<1> QED BY <1>1, <1>2, <1>3, <1>4

-----------------------------------------------------------------------------
\* Induction over the naturals, for a set instead of a predicate.

\* The order of the naturals is well-founded, as a set of pairs.
LEMMA LessIsWellFounded ==
  IsWellFoundedOn({p \in Nat \X Nat : p[1] < p[2]}, Nat)
<1>1. {p \in Nat \X Nat : p[1] < p[2]} = OpToRel(<, Nat)
  BY DEF OpToRel
<1> QED BY <1>1, NatLessThanWellFounded

\* A set that has 0, and with a number the next one, has every number.
LEMMA SetInduction ==
  ASSUME NEW T, 0 \in T, \A n \in Nat : n \in T => n + 1 \in T
  PROVE  Nat \subseteq T
<1> DEFINE R == {p \in Nat \X Nat : p[1] < p[2]}
<1> DEFINE U == Nat \ T
<1> SUFFICES ASSUME U # {} PROVE FALSE
  OBVIOUS
<1>1. IsWellFoundedOn(R, Nat) /\ U \subseteq Nat
  BY LessIsWellFounded
<1> HIDE DEF R, U
<1>2. PICK x \in U : \A y \in U : ~(<<y, x>> \in R)
  BY <1>1, WFMin
<1>3. x \in Nat /\ x \notin T
  BY <1>2 DEF U
<1>4. x - 1 \in Nat /\ x - 1 < x
  BY <1>3
<1>5. <<x - 1, x>> \in R
  BY <1>3, <1>4 DEF R
<1>6. x - 1 \in T
  BY <1>2, <1>4, <1>5 DEF U
<1>7. x \in T
  BY <1>3, <1>4, <1>6
<1> QED BY <1>3, <1>7

-----------------------------------------------------------------------------
\* The fold over the plans of a day.

\* What makes g the function that WakeForDay defines by recursion.
IsFold(g, c, day, plans, now) ==
  g = [i \in 0..Len(plans) |->
         IF i = 0 THEN NoneBetter(c, day) ELSE Better(c, day, g[i - 1], plans[i], now)]

\* There is one.
LEMMA FoldExists ==
  ASSUME NEW c, NEW day, NEW plans \in Seq(Plans), NEW now
  PROVE  \E g : IsFold(g, c, day, plans, now)
<1> DEFINE F(g, i) == IF i = 0 THEN NoneBetter(c, day)
                      ELSE Better(c, day, g[i - 1], plans[i], now)
<1> DEFINE T == {n \in Nat : \E g : g = [i \in 0..n |-> F(g, i)]}
<1>1. 0 \in T
  <2> DEFINE g == [i \in 0..0 |-> NoneBetter(c, day)]
  <2>1. g = [i \in 0..0 |-> F(g, i)]
    OBVIOUS
  <2> HIDE DEF g, F
  <2> QED BY <2>1
<1>2. ASSUME NEW n \in Nat, n \in T PROVE n + 1 \in T
  <2>1. PICK g : g = [i \in 0..n |-> F(g, i)]
    BY <1>2
  <2> DEFINE h == [i \in 0..(n + 1) |-> IF i = n + 1 THEN F(g, n + 1) ELSE g[i]]
  <2>2. ASSUME NEW i \in 0..(n + 1) PROVE h[i] = F(h, i)
    <3>1. CASE i = n + 1
      <4>1. h[i] = F(g, n + 1) /\ n \in 0..(n + 1) /\ n # n + 1 /\ i - 1 = n
        BY <3>1
      <4>2. h[n] = g[n]
        BY <4>1
      <4> QED BY <3>1, <4>1, <4>2
    <3>2. CASE i # n + 1 /\ i # 0
      <4>1. i \in 0..n /\ i - 1 \in 0..(n + 1) /\ i - 1 # n + 1
        BY <3>2
      <4>2. h[i] = g[i] /\ h[i - 1] = g[i - 1]
        BY <3>2, <4>1
      <4>3. g[i] = F(g, i)
        BY <2>1, <4>1
      <4> QED BY <3>2, <4>2, <4>3
    <3>3. CASE i = 0
      <4>1. i \in 0..n /\ i # n + 1
        BY <3>3
      <4>2. h[i] = g[i] /\ g[i] = F(g, i)
        BY <2>1, <4>1
      <4> QED BY <3>3, <4>2
    <3> QED BY <3>1, <3>2, <3>3
  <2>3. h = [i \in 0..(n + 1) |-> F(h, i)]
    <3> HIDE DEF F
    <3> QED BY <2>2
  <2> HIDE DEF h, F
  <2> QED BY <1>2, <2>3
<1>3. Len(plans) \in T
  <2> HIDE DEF T
  <2>1. Len(plans) \in Nat /\ Nat \subseteq T
    BY <1>1, <1>2, SetInduction
  <2> QED BY <2>1
<1>4. \E g : g = [i \in 0..Len(plans) |-> F(g, i)]
  BY <1>3
<1> QED BY <1>4 DEF IsFold

\* The fold has a property that its start has and every plan keeps.
LEMMA FoldKeeps ==
  ASSUME NEW c, NEW day, NEW plans \in Seq(Plans), NEW now, NEW Good,
         NoneBetter(c, day) \in Good,
         \A b \in Good, p \in Plans : Better(c, day, b, p, now) \in Good
  PROVE  WakeForDay(c, day, plans, now) \in Good
<1> DEFINE best == CHOOSE g : IsFold(g, c, day, plans, now)
<1> DEFINE T == {n \in Nat : n <= Len(plans) => best[n] \in Good}
<1>1. best = [i \in 0..Len(plans) |->
                IF i = 0 THEN NoneBetter(c, day)
                ELSE Better(c, day, best[i - 1], plans[i], now)]
  <2>1. IsFold(best, c, day, plans, now)
    BY FoldExists
  <2> HIDE DEF best
  <2> QED BY <2>1 DEF IsFold
<1>2. Len(plans) \in Nat
  OBVIOUS
<1>3. WakeForDay(c, day, plans, now) = best[Len(plans)]
  BY DEF WakeForDay, IsFold
<1> HIDE DEF best
<1>4. 0 \in T
  BY <1>1, <1>2
<1>5. ASSUME NEW n \in Nat, n \in T PROVE n + 1 \in T
  <2>1. SUFFICES ASSUME n + 1 <= Len(plans) PROVE best[n + 1] \in Good
    BY <1>5
  <2>2. n + 1 \in 0..Len(plans) /\ n + 1 # 0 /\ (n + 1) - 1 = n /\ n + 1 \in 1..Len(plans)
    BY <2>1, <1>2
  <2>3. best[n + 1] = Better(c, day, best[n], plans[n + 1], now)
    BY <1>1, <2>2
  <2>4. best[n] \in Good /\ plans[n + 1] \in Plans
    BY <1>5, <2>1, <2>2, <1>2
  <2> QED BY <2>3, <2>4
<1>6. Len(plans) \in T
  <2> HIDE DEF T
  <2> QED BY <1>2, <1>4, <1>5, SetInduction
<1> QED BY <1>2, <1>3, <1>6

-----------------------------------------------------------------------------
\* The instants of a plan and of a day.

\* A plan's alarms are not later than its event.
LEMMA PlanAlarms ==
  ASSUME NEW c \in Configs, NEW p \in Plans, NEW a \in Nat
  PROVE  /\ WindowDeadline(c, p, a) \in Optional(Int) /\ FirstAlarm(c, p, a) \in Optional(Int)
         /\ WindowDeadline(c, p, a) # None =>
              /\ WindowDeadline(c, p, a) <= p.start
              /\ FirstAlarm(c, p, a) = WindowDeadline(c, p, a) - c.lead
         /\ FirstAlarm(c, p, a) # None => FirstAlarm(c, p, a) <= p.start
<1>1. /\ None \notin Int /\ c.lead \in Nat /\ c.wakeLead \in Nat
      /\ p.start \in Int /\ p.prep \in Optional(Int) /\ p.leave \in Optional(Int)
      /\ p.prep # None => p.prep <= p.start
      /\ p.leave # None => p.leave <= p.start
  BY ChoiceConstants DEF Configs, Plans
<1>2. /\ WindowDeadline(c, p, a) \in Optional(Int)
      /\ WindowDeadline(c, p, a) # None => WindowDeadline(c, p, a) <= p.start
  BY <1>1 DEF WindowDeadline, Optional
<1> QED BY <1>1, <1>2 DEF FirstAlarm, WindowStart, Optional

\* So is what it competes with.
LEMMA CandidateBound ==
  ASSUME NEW c \in Configs, NEW p \in Plans, NEW now
  PROVE  Candidate(c, p, now) \in Int /\ Candidate(c, p, now) <= p.start
<1>1. /\ None \notin Int /\ c.wakeLead \in Nat /\ c.advance \in Nat
      /\ p.start \in Int /\ p.prep \in Optional(Int)
      /\ p.prep # None => p.prep <= p.start
  BY ChoiceConstants DEF Configs, Plans
<1>2. /\ FirstAlarm(c, p, c.advance) \in Optional(Int)
      /\ FirstAlarm(c, p, c.advance) # None => FirstAlarm(c, p, c.advance) <= p.start
  BY <1>1, PlanAlarms
<1>3. TooImminent(p, now) => p.prep \in Int /\ p.prep <= p.start
  BY <1>1 DEF TooImminent, Optional
<1> QED BY <1>1, <1>2, <1>3 DEF Candidate, Optional

\* The fallback of a day is in that day.
LEMMA FallbackBound ==
  ASSUME NEW c \in Configs, NEW day \in Int
  PROVE  /\ FallbackWake(c, day) \in Int /\ FallbackWake(c, day) < day + Day
         /\ FallbackDeadline(c, day) \in Optional(Int)
         /\ FallbackDeadline(c, day) # None =>
              FallbackWake(c, day) <= FallbackDeadline(c, day)
<1>1. /\ None \notin Int /\ Day \in Nat /\ c.lead \in Nat /\ c.advance \in Nat
      /\ c.fallback \in 0..(Day - 1) /\ c.startHour \in 0..(Day - 1)
  BY ChoiceConstants DEF Configs
<1>2. FallbackForDay(c, day) \in Int /\ FallbackForDay(c, day) < day + Day
  BY <1>1 DEF FallbackForDay
<1> QED BY <1>1, <1>2 DEF FallbackWake, FallbackDeadline, WindowStart, Optional

-----------------------------------------------------------------------------
\* A day's selection.

\* A wake of that day, of a plan or the fallback.
Chosen(c, day, x) ==
  /\ x.wake \in Int /\ x.wake < day + Day
  /\ x.plan \in Optional(Plans)
  /\ x.plan = None => x.wake = FallbackWake(c, day)

\* wake_for_day chooses such a wake.
LEMMA FirstWake ==
  ASSUME NEW c \in Configs, NEW day \in Int, NEW plans \in Seq(Plans), NEW now
  PROVE  Chosen(c, day, WakeForDay(c, day, plans, now))
<1> DEFINE Good == {b \in [wake : Int, plan : Optional(Plans), deadline : Optional(Int)] :
                      Chosen(c, day, b)}
<1>1. NoneBetter(c, day) \in Good
  BY FallbackBound DEF NoneBetter, Chosen, Optional
<1>2. ASSUME NEW b \in Good, NEW p \in Plans
      PROVE  Better(c, day, b, p, now) \in Good
  <2>1. CASE Better(c, day, b, p, now) = b
    BY <2>1
  <2>2. CASE Better(c, day, b, p, now) # b
    <3> DEFINE n == [wake |-> Candidate(c, p, now), plan |-> p,
                     deadline |-> WindowDeadline(c, p, c.advance)]
    <3>1. DayStart(p.start) = day /\ Better(c, day, b, p, now) = n
      BY <2>2 DEF Better
    <3>2. Candidate(c, p, now) \in Int /\ Candidate(c, p, now) <= p.start
      BY CandidateBound
    <3>3. p.start \in Int /\ c.advance \in Nat /\ p # None /\ Day \in Nat
      BY ChoiceConstants DEF Plans, Configs
    <3>4. p.start < day + Day
      BY <3>1, <3>3, DayOfInstant
    <3>5. WindowDeadline(c, p, c.advance) \in Optional(Int)
      BY <3>3, PlanAlarms
    <3>6. Candidate(c, p, now) < day + Day
      BY <3>2, <3>3, <3>4
    <3>7. n \in Good
      BY <3>2, <3>3, <3>5, <3>6 DEF Chosen, Optional
    <3> QED BY <3>1, <3>7
  <2> QED BY <2>1, <2>2
<1>3. WakeForDay(c, day, plans, now) \in Good
  <2> HIDE DEF Good
  <2> QED BY <1>1, <1>2, FoldKeeps
<1> QED BY <1>3

\* A function has finitely many values on a finite set.
LEMMA FiniteImage ==
  ASSUME NEW S, IsFiniteSet(S), NEW f, f = [x \in S |-> f[x]]
  PROVE  IsFiniteSet({f[x] : x \in S})
<1>1. f \in Surjection(S, {f[x] : x \in S})
  BY DEF Surjection
<1> QED BY <1>1, FS_Surjection

\* The plans of a day are plans, and finitely many.
LEMMA FetchedPlans ==
  ASSUME NEW cal, NEW day, Readable(cal, day)
  PROVE  /\ Listed(cal, day) \in Seq(Plans)
         /\ IsFiniteSet(Fetched(cal, day))
         /\ \A p \in Fetched(cal, day) : p \in Plans /\ DayStart(p.start) = day
<1>1. Listed(cal, day) \in Seq(Plans)
  BY DEF Readable, Listed
<1> DEFINE L == Listed(cal, day)
<1> HIDE DEF L
<1>2. L \in Seq(Plans) /\ Len(L) \in Nat
  BY <1>1 DEF L
<1>3. IsFiniteSet({L[i] : i \in 1..Len(L)})
  <2>1. IsFiniteSet(1..Len(L))
    BY <1>2, 1 \in Int, Len(L) \in Int, FS_Interval
  <2>2. L \in [1..Len(L) -> Plans]
    BY <1>2, LenProperties
  <2>3. L = [i \in 1..Len(L) |-> L[i]]
    BY <2>2
  <2> QED BY <2>1, <2>3, FiniteImage
<1>4. /\ Fetched(cal, day) \subseteq {L[i] : i \in 1..Len(L)}
      /\ \A p \in Fetched(cal, day) : DayStart(p.start) = day
  BY DEF Fetched, L
<1>5. \A i \in 1..Len(L) : L[i] \in Plans
  BY <1>2
<1> QED BY <1>1, <1>3, <1>4, <1>5, FS_Subset

\* Integers that have a lower bound have a least one.
LEMMA LeastAbove ==
  ASSUME NEW S \in SUBSET Int, S # {}, NEW b \in Int, \A x \in S : b <= x
  PROVE  \E m \in S : \A x \in S : m <= x
<1> DEFINE R == {p \in Nat \X Nat : p[1] < p[2]}
<1> DEFINE N == {n \in Nat : b + n \in S}
<1>1. PICK x \in S : TRUE
  OBVIOUS
<1>2. x - b \in N
  <2>1. x - b \in Nat /\ b + (x - b) = x
    BY <1>1
  <2> QED BY <2>1
<1>3. IsWellFoundedOn(R, Nat) /\ N \subseteq Nat /\ N # {}
  BY <1>2, LessIsWellFounded
<1> HIDE DEF R, N
<1>4. PICK n \in N : \A y \in N : ~(<<y, n>> \in R)
  BY <1>3, WFMin
<1>5. n \in Nat /\ b + n \in S
  BY <1>4 DEF N
<1>6. ASSUME NEW y \in S PROVE b + n <= y
  <2>1. y - b \in Nat /\ b + (y - b) = y
    BY <1>6
  <2>2. y - b \in N
    BY <2>1 DEF N
  <2>3. ~(y - b < n)
    BY <1>4, <1>5, <2>1, <2>2 DEF R
  <2> QED BY <1>5, <2>1, <2>3
<1> QED BY <1>5, <1>6

\* Every finite set of integers has a lower bound.
LEMMA FiniteIsBounded ==
  ASSUME NEW S \in SUBSET Int, IsFiniteSet(S)
  PROVE  \E b \in Int : \A x \in S : b <= x
<1>1. PICK f \in Seq(S) : \A x \in S : \E i \in 1..Len(f) : f[i] = x
  BY DEF IsFiniteSet
<1> DEFINE T == {n \in Nat : n <= Len(f) => \E b \in Int : \A i \in 1..n : b <= f[i]}
<1>2. 0 \in T
  BY 0 \in Int
<1>3. ASSUME NEW n \in Nat, n \in T PROVE n + 1 \in T
  <2>1. SUFFICES ASSUME n + 1 <= Len(f)
                 PROVE  \E b \in Int : \A i \in 1..(n + 1) : b <= f[i]
    OBVIOUS
  <2>2. PICK b \in Int : \A i \in 1..n : b <= f[i]
    BY <1>3, <2>1
  <2>3. f[n + 1] \in Int /\ \A i \in 1..n : f[i] \in Int
    <3>1. Len(f) \in Nat /\ \A i \in 1..Len(f) : f[i] \in Int
      BY <1>1, LenProperties
    <3>2. n + 1 \in 1..Len(f) /\ 1..n \subseteq 1..Len(f)
      BY <2>1, <3>1
    <3> QED BY <3>1, <3>2
  <2>4. CASE b <= f[n + 1]
    <3>1. \A i \in 1..(n + 1) : i \in 1..n \/ i = n + 1
      OBVIOUS
    <3>2. \A i \in 1..(n + 1) : b <= f[i]
      BY <2>2, <2>4, <3>1
    <3> QED BY <3>2
  <2>5. CASE ~(b <= f[n + 1])
    <3>1. \A i \in 1..(n + 1) : f[n + 1] <= f[i]
      BY <2>2, <2>3, <2>5
    <3> QED BY <2>3, <3>1
  <2> QED BY <2>4, <2>5
<1>4. Len(f) \in T
  <2>1. Len(f) \in Nat
    OBVIOUS
  <2> HIDE DEF T
  <2> QED BY <1>2, <1>3, <2>1, SetInduction
<1>5. PICK b \in Int : \A i \in 1..Len(f) : b <= f[i]
  <2>1. Len(f) \in Nat /\ Len(f) <= Len(f)
    BY <1>1, LenProperties
  <2> QED BY <1>4, <2>1
<1> QED BY <1>1, <1>5

\* The cap on naps is an instant, if there is one.
LEMMA NapCapType ==
  ASSUME NEW c \in Configs, NEW plans \in SUBSET Plans, IsFiniteSet(plans), NEW now \in Int
  PROVE  NapCap(c, plans, now) \in Optional(Int)
<1> DEFINE ahead == {q \in plans : IsHealthy(q) /\ q.prep # None /\ q.prep > now}
<1> DEFINE caps == {FirstAlarm(c, p, 0) : p \in ahead}
<1>1. IsFiniteSet(ahead)
  BY FS_Subset
<1>2. IsFiniteSet(caps)
  <2> DEFINE f == [p \in ahead |-> FirstAlarm(c, p, 0)]
  <2> HIDE DEF ahead
  <2>1. IsFiniteSet({f[p] : p \in ahead})
    BY <1>1, FiniteImage
  <2> QED BY <2>1
<1>3. ASSUME NEW p \in ahead PROVE FirstAlarm(c, p, 0) \in Int
  <2>1. FirstAlarm(c, p, 0) \in Optional(Int)
    BY PlanAlarms
  <2>2. /\ p.prep \in Int /\ c.wakeLead \in Nat /\ c.lead \in Nat /\ None \notin Int
        /\ p.leave \in Optional(Int)
    BY ChoiceConstants DEF Plans, Configs, Optional
  <2>3. FirstAlarm(c, p, 0) # None
    BY <2>2 DEF FirstAlarm, WindowDeadline, WindowStart, Optional
  <2> QED BY <2>1, <2>3 DEF Optional
<1>4. caps \in SUBSET Int
  BY <1>3
<1>5. NapCap(c, plans, now) = IF caps = {} THEN None ELSE MinOf(caps)
  BY DEF NapCap
<1> HIDE DEF caps
<1>6. caps # {} => MinOf(caps) \in caps
  BY <1>2, <1>4, FiniteIsBounded, LeastAbove DEF MinOf
<1> QED BY <1>4, <1>5, <1>6 DEF Optional

\* Among departures still ahead one is the earliest.
LEMMA EarliestExists ==
  ASSUME NEW c, NEW plans, NEW now \in Int,
         NEW S \in SUBSET Departures(c, plans, now), S # {},
         \A p \in S : WindowDeadline(c, p, c.advance) \in Int
  PROVE  EarliestDeparture(c, S) \in S
<1> DEFINE D == {WindowDeadline(c, p, c.advance) : p \in S}
<1>1. D \in SUBSET Int /\ D # {} /\ \A x \in D : now <= x
  BY DEF Departures
<1>2. PICK m \in D : \A x \in D : m <= x
  <2> HIDE DEF D
  <2> QED BY <1>1, LeastAbove
<1>3. \E p \in S : \A q \in S :
        WindowDeadline(c, p, c.advance) <= WindowDeadline(c, q, c.advance)
  BY <1>2
<1> QED BY <1>3 DEF EarliestDeparture

\* Under a window, and ahead of the clock, departures have deadlines.
LEMMA EarlierFound ==
  ASSUME NEW c \in Configs, NEW cal, NEW day \in Int, Readable(cal, day),
         NEW manual, NEW now \in Int, Conflict(c, cal, day, manual, now)
  PROVE  LET p == EarliestDeparture(c, EarlierDepartures(c, Fetched(cal, day), manual, now))
         IN  /\ p \in Plans /\ DayStart(p.start) = day
             /\ WindowDeadline(c, p, c.advance) \in Int
             /\ WindowDeadline(c, p, c.advance) < manual.deadline
<1> DEFINE S == EarlierDepartures(c, Fetched(cal, day), manual, now)
<1>1. S # {} /\ S \subseteq Departures(c, Fetched(cal, day), now)
  BY DEF Conflict, EarlierDepartures
<1>2. c.advance \in Nat
  BY DEF Configs
<1>3. ASSUME NEW p \in S
      PROVE  /\ p \in Plans /\ DayStart(p.start) = day
             /\ WindowDeadline(c, p, c.advance) \in Int
             /\ WindowDeadline(c, p, c.advance) < manual.deadline
  <2>1. p \in Fetched(cal, day) /\ WindowDeadline(c, p, c.advance) # None
    BY <1>3 DEF EarlierDepartures, Departures
  <2>2. p \in Plans /\ DayStart(p.start) = day
    BY <2>1, FetchedPlans
  <2>3. WindowDeadline(c, p, c.advance) \in Optional(Int)
    BY <1>2, <2>2, PlanAlarms
  <2> QED BY <2>1, <2>2, <2>3, <1>3 DEF Optional, EarlierDepartures
<1> HIDE DEF S
<1>4. EarliestDeparture(c, S) \in S
  BY <1>1, <1>3, EarliestExists
<1> QED BY <1>3, <1>4 DEF S

\* Manual intent rings by its deadline.
LEMMA ManualBound ==
  ASSUME NEW c \in Configs, NEW counts \in SUBSET Nat, NEW manual \in Intended(counts)
  PROVE  /\ ManualFirstAlarm(c, manual) \in Int
         /\ ManualFirstAlarm(c, manual) <= manual.deadline
<1>1. /\ manual.deadline \in Int /\ manual.snoozes \in Optional(counts)
      /\ c.lead \in Nat /\ SnoozeLen \in Nat
  BY ChoiceConstants DEF Intended, Configs
<1>2. CASE manual.snoozes = None
  BY <1>1, <1>2 DEF ManualFirstAlarm, WindowStart
<1>3. CASE manual.snoozes # None
  <2> DEFINE n == manual.snoozes
  <2>1. n \in Nat
    BY <1>1, <1>3 DEF Optional
  <2>2. n * SnoozeLen \in Nat
    BY <1>1, <2>1
  <2> QED BY <1>1, <1>3, <2>2 DEF ManualFirstAlarm
<1> QED BY <1>2, <1>3

\* Without manual intent, the plans or the fallback decide.
LEMMA UsualSound ==
  ASSUME NEW c \in Configs, NEW cal, NEW day \in Int, Readable(cal, day), NEW now \in Int
  PROVE  Chosen(c, day, Usual(c, cal, day, now))
<1>1. Listed(cal, day) \in Seq(Plans)
  BY FetchedPlans
<1>2. Chosen(c, day, WakeForDay(c, day, Listed(cal, day), now))
  BY <1>1, FirstWake
<1>3. CASE \E p \in Fetched(cal, day) : Unusable(p, now)
  <2>1. Usual(c, cal, day, now) = [wake |-> FallbackWake(c, day), plan |-> None]
    BY <1>3 DEF Usual
  <2> QED BY <2>1, FallbackBound DEF Chosen, Optional
<1>4. CASE ~\E p \in Fetched(cal, day) : Unusable(p, now)
  <2> DEFINE first == WakeForDay(c, day, Listed(cal, day), now)
  <2>1. Usual(c, cal, day, now) = [wake |-> first.wake, plan |-> first.plan]
    BY <1>4 DEF Usual
  <2> QED BY <1>2, <2>1 DEF Chosen
<1> QED BY <1>3, <1>4

\* What is selected while manual intent competes.
ChosenBy(c, day, manual, x) ==
  /\ x.wake \in Int /\ x.wake < day + Day /\ x.wake <= manual.deadline
  /\ x.plan = None => x.wake = ManualFirstAlarm(c, manual)
  /\ x.plan # None => x.plan \in Plans /\ x.wake = FirstAlarm(c, x.plan, c.advance)

\* With it, its own wake or an earlier departure's, both by its deadline.
LEMMA CompetingSound ==
  ASSUME NEW c \in Configs, NEW cal, NEW day \in Int, Readable(cal, day), NEW now \in Int,
         NEW counts \in SUBSET Nat, NEW manual \in Intended(counts),
         Competes(manual, day, now)
  PROVE  ChosenBy(c, day, manual, Select(c, cal, day, manual, now))
<1>1. /\ manual.deadline \in Int /\ DayStart(manual.deadline) = day
      /\ c.advance \in Nat /\ c.lead \in Nat /\ Day \in Nat
  BY ChoiceConstants DEF Intended, Configs, Competes
<1>2. manual.deadline < day + Day
  BY <1>1, DayOfInstant
<1>3. CASE Conflict(c, cal, day, manual, now) /\ ~manual.force
  <2> DEFINE p == EarliestDeparture(c, EarlierDepartures(c, Fetched(cal, day), manual, now))
  <2>1. Select(c, cal, day, manual, now) = [wake |-> FirstAlarm(c, p, c.advance), plan |-> p]
    BY <1>3 DEF Select, FromDeparture
  <2>2. /\ p \in Plans /\ WindowDeadline(c, p, c.advance) \in Int
        /\ WindowDeadline(c, p, c.advance) < manual.deadline
    BY <1>3, EarlierFound
  <2> HIDE DEF p
  <2>3. WindowDeadline(c, p, c.advance) # None /\ p # None
    BY <2>2, ChoiceConstants
  <2>4. FirstAlarm(c, p, c.advance) = WindowDeadline(c, p, c.advance) - c.lead
    BY <1>1, <2>2, <2>3, PlanAlarms
  <2> QED BY <1>1, <1>2, <2>1, <2>2, <2>3, <2>4 DEF ChosenBy
<1>4. CASE ~(Conflict(c, cal, day, manual, now) /\ ~manual.force)
  <2>1. Select(c, cal, day, manual, now) = [wake |-> ManualFirstAlarm(c, manual), plan |-> None]
    BY <1>4 DEF Select, Conflict
  <2>2. ManualFirstAlarm(c, manual) \in Int /\ ManualFirstAlarm(c, manual) <= manual.deadline
    BY ManualBound
  <2> QED BY <1>1, <1>2, <2>1, <2>2 DEF ChosenBy
<1> QED BY <1>3, <1>4
-----------------------------------------------------------------------------
\* Results.

\* A result that may be published: of its day, and by its deadline.
Sound(counts, r) ==
  /\ r \in Results(counts)
  /\ IsDay(r.day) /\ r.wake < r.day + Day
  /\ r.deadline # None => r.wake <= r.deadline

\* It is about the given intent or none.
Carries(r, manual) ==
  /\ r.manualDeadline # None => manual # None /\ r.manualDeadline = manual.deadline
  /\ r.snoozes # None => manual # None /\ r.snoozes = manual.snoozes

\* The days whose calendars a computation may read are days.
LEMMA Days3AreDays ==
  ASSUME NEW now \in Int, NEW d \in Days3(now)
  PROVE  IsDay(d) /\ d \in Int
<1>1. IsDay(DayStart(now)) /\ IsDay(DayStart(now) + Day) /\ IsDay((DayStart(now) + Day) + Day)
  BY StartIsDay, NextDay
<1>2. DayStart(now) \in Int /\ Day \in Nat
  BY DayOfInstant, ChoiceConstants
<1>3. (DayStart(now) + Day) + Day = DayStart(now) + 2 * Day
  BY <1>2
<1> QED BY <1>1, <1>2, <1>3 DEF Days3, IsDay

\* The day chosen is not later than the intent's.
LEMMA ChosenIsTimely ==
  ASSUME NEW c, NEW cal, NEW now \in Int, NEW manual
  PROVE  LET day == ChosenDay(c, cal, manual, now)
         IN  /\ day \in Days3(now)
             /\ Live(manual, now) /\ manual.deadline \in Int =>
                  \/ DayStart(manual.deadline) = day
                  \/ day + Day <= DayStart(manual.deadline)
<1> DEFINE today == DayStart(now)
<1> DEFINE D == DayStart(manual.deadline)
<1> DEFINE day == ChosenDay(c, cal, manual, now)
<1>1. IsDay(today) /\ today \in Int /\ Day \in Nat /\ Day > 0 /\ today <= now
  <2>1. Day \in Nat /\ Day > 0
    BY ChoiceConstants
  <2>2. today \in Int /\ today <= now
    BY DayOfInstant
  <2> QED BY <2>1, <2>2, StartIsDay
<1>2. day \in {today, today + Day, today + 2 * Day}
  BY DEF ChosenDay
<1>3. ASSUME Live(manual, now), manual.deadline \in Int
      PROVE  D = day \/ day + Day <= D
  <2>1. IsDay(D) /\ D \in Int /\ manual.deadline < D + Day /\ now < manual.deadline
    BY <1>3, StartIsDay, DayOfInstant DEF Live
  <2>2. ~(D < today)
    <3>1. SUFFICES ASSUME D < today PROVE FALSE
      OBVIOUS
    <3>2. D + Day <= today
      BY <1>1, <2>1, <3>1, DaysApart
    <3> HIDE DEF D, today
    <3> QED BY <1>1, <1>3, <2>1, <3>2
  <2>3. D = today => day = today
    BY <1>3 DEF ChosenDay, DayUsable, Usable, Competes
  <2>4. D = today + Day => day \in {today, today + Day}
    BY <1>3 DEF ChosenDay, DayUsable, Usable, Competes
  <2>5. today < D => today + Day <= D
    BY <1>1, <2>1, DaysApart
  <2>6. today + Day < D => today + Day + Day <= D
    BY <1>1, <2>1, NextDay, DaysApart
  <2>7. IsDay(today + 2 * Day)
    BY Days3AreDays DEF Days3
  <2>8. today + 2 * Day < D => today + 2 * Day + Day <= D
    BY <1>1, <2>1, <2>7, DaysApart
  <2> HIDE DEF today, D, day
  <2> QED BY <1>1, <1>2, <2>1, <2>2, <2>3, <2>4, <2>5, <2>6, <2>8
<1> QED BY <1>2, <1>3 DEF Days3

\* What a chosen wake leaves as a result.
LEMMA ResultSound ==
  ASSUME NEW c \in Configs, NEW cal, NEW day, IsDay(day), Readable(cal, day),
         NEW now \in Int, NEW counts \in SUBSET Nat,
         NEW manual, manual = None \/ manual \in Intended(counts),
         NEW warning \in {"none", "conflict", "degraded"}, NEW cap \in Optional(Int)
  PROVE  LET bound == IF Competes(manual, day, now) THEN manual ELSE None
             r == ResultFor(c, day, Select(c, cal, day, manual, now), bound, warning, cap)
         IN  /\ Sound(counts, r) /\ Carries(r, manual)
             /\ r.day = day /\ r.warning = warning
             /\ bound # None => r.wake <= manual.deadline /\ r.source # "fallback"
<1> DEFINE bound == IF Competes(manual, day, now) THEN manual ELSE None
<1> DEFINE x == Select(c, cal, day, manual, now)
<1> DEFINE r == ResultFor(c, day, x, bound, warning, cap)
<1> DEFINE Goal == /\ Sound(counts, r) /\ Carries(r, manual)
                   /\ r.day = day /\ r.warning = warning
                   /\ bound # None => r.wake <= manual.deadline /\ r.source # "fallback"
<1> SUFFICES Goal
  OBVIOUS
<1>1. /\ day \in Int /\ c.advance \in Nat /\ c.lead \in Nat
      /\ None \notin Int /\ None \notin Plans
  BY ChoiceConstants DEF IsDay, Configs
<1>2. ASSUME NEW p \in Plans
      PROVE  LET d == WindowDeadline(c, p, c.advance) IN
             d \in Optional(Int) /\ (d # None => FirstAlarm(c, p, c.advance) <= d)
  <2>1. /\ WindowDeadline(c, p, c.advance) \in Optional(Int)
        /\ WindowDeadline(c, p, c.advance) # None =>
             FirstAlarm(c, p, c.advance) = WindowDeadline(c, p, c.advance) - c.lead
    BY <1>1, PlanAlarms
  <2> QED BY <1>1, <2>1 DEF Optional
<1>3. CASE Competes(manual, day, now)
  <2>1. manual # None /\ manual \in Intended(counts) /\ bound = manual
    BY <1>3 DEF Competes, Live
  <2>2. manual.deadline \in Int /\ manual.snoozes \in Optional(counts)
    BY <2>1 DEF Intended
  <2>3. /\ x.wake \in Int /\ x.wake < day + Day /\ x.wake <= manual.deadline
        /\ x.plan = None => x.wake = ManualFirstAlarm(c, manual)
        /\ x.plan # None => x.plan \in Plans /\ x.wake = FirstAlarm(c, x.plan, c.advance)
    <3>1. ChosenBy(c, day, manual, x)
      BY <1>1, <1>3, <2>1, CompetingSound
    <3> HIDE DEF x
    <3> QED BY <3>1 DEF ChosenBy
  <2> HIDE DEF x, bound
  <2>4. CASE x.plan = None
    <3>1. r = [wake |-> x.wake, day |-> day, source |-> "manual",
               deadline |-> manual.deadline, origin |-> "manual", cap |-> cap,
               manualDeadline |-> manual.deadline, snoozes |-> manual.snoozes,
               warning |-> warning]
      BY <1>1, <2>1, <2>2, <2>4 DEF ResultFor
    <3> HIDE DEF r
    <3>2. r \in Results(counts)
      BY <1>1, <2>2, <2>3, <3>1 DEF Results, Optional
    <3> QED BY <1>1, <2>1, <2>2, <2>3, <3>1, <3>2 DEF Sound, Carries
  <2>5. CASE x.plan # None
    <3> DEFINE d == WindowDeadline(c, x.plan, c.advance)
    <3>1. d \in Optional(Int) /\ (d # None => x.wake <= d)
      BY <1>2, <2>3, <2>5
    <3> HIDE DEF d
    <3>2. r = [wake |-> x.wake, day |-> day, source |-> "calendar", deadline |-> d,
               origin |-> IF d = None THEN None ELSE "calendar", cap |-> cap,
               manualDeadline |-> manual.deadline, snoozes |-> None, warning |-> warning]
      BY <2>1, <2>3, <2>5 DEF ResultFor, d
    <3> HIDE DEF r
    <3>3. r \in Results(counts)
      BY <1>1, <2>2, <2>3, <3>1, <3>2 DEF Results, Optional
    <3> QED BY <1>1, <2>1, <2>2, <2>3, <3>1, <3>2, <3>3 DEF Sound, Carries
  <2> QED BY <2>4, <2>5
<1>4. CASE ~Competes(manual, day, now)
  <2>1. bound = None /\ x = Usual(c, cal, day, now)
    BY <1>4 DEF Select, Conflict
  <2>2. Chosen(c, day, x)
    BY <1>1, <2>1, UsualSound
  <2> HIDE DEF x, bound
  <2>3. CASE x.plan = None
    <3> DEFINE d == FallbackDeadline(c, day)
    <3>1. x.wake = FallbackWake(c, day) /\ d \in Optional(Int) /\ (d # None => x.wake <= d)
      BY <1>1, <2>2, <2>3, FallbackBound DEF Chosen
    <3> HIDE DEF d
    <3>2. r = [wake |-> x.wake, day |-> day, source |-> "fallback", deadline |-> d,
               origin |-> IF d = None THEN None ELSE "fallback", cap |-> cap,
               manualDeadline |-> None, snoozes |-> None, warning |-> warning]
      BY <2>1, <2>3 DEF ResultFor, d
    <3> HIDE DEF r
    <3>3. r \in Results(counts)
      BY <1>1, <2>2, <3>1, <3>2 DEF Results, Optional, Chosen
    <3> QED BY <1>1, <2>1, <2>2, <3>1, <3>2, <3>3 DEF Sound, Carries, Chosen
  <2>4. CASE x.plan # None
    <3> DEFINE d == IF FirstAlarm(c, x.plan, c.advance) = x.wake
                    THEN WindowDeadline(c, x.plan, c.advance) ELSE None
    <3>1. x.plan \in Plans
      BY <2>2, <2>4 DEF Chosen, Optional
    <3>2. d \in Optional(Int) /\ (d # None => x.wake <= d)
      BY <1>2, <3>1 DEF Optional
    <3>3. r = [wake |-> x.wake, day |-> day, source |-> "calendar", deadline |-> d,
               origin |-> IF d = None THEN None ELSE "calendar", cap |-> cap,
               manualDeadline |-> None, snoozes |-> None, warning |-> warning]
      BY <2>1, <2>4 DEF ResultFor
    <3> HIDE DEF r, d
    <3>4. r \in Results(counts)
      BY <1>1, <2>2, <3>2, <3>3 DEF Results, Optional, Chosen
    <3> QED BY <1>1, <2>1, <2>2, <3>2, <3>3, <3>4 DEF Sound, Carries, Chosen
  <2> QED BY <2>3, <2>4
<1> QED BY <1>3, <1>4

\* The cap on naps over all the days read.
LEMMA CapOfDays ==
  ASSUME NEW c \in Configs, NEW now \in Int, NEW cal,
         \A d \in Days3(now) : Readable(cal, d), NEW day \in Days3(now)
  PROVE  NapCap(c, AllPlans(cal, day, now), now) \in Optional(Int)
<1> DEFINE F == [d \in FetchedDays(day, now) |-> Fetched(cal, d)]
<1>1. FetchedDays(day, now) \subseteq Days3(now) /\ IsFiniteSet(FetchedDays(day, now))
  <2>1. /\ IsFiniteSet({DayStart(now)}) /\ IsFiniteSet({DayStart(now) + Day})
        /\ IsFiniteSet({day})
    BY FS_Singleton
  <2>2. IsFiniteSet(({DayStart(now)} \cup {DayStart(now) + Day}) \cup {day})
    BY <2>1, FS_Union
  <2>3. FetchedDays(day, now) = ({DayStart(now)} \cup {DayStart(now) + Day}) \cup {day}
    BY DEF FetchedDays
  <2> QED BY <2>2, <2>3 DEF Days3
<1>2. \A d \in FetchedDays(day, now) :
        IsFiniteSet(Fetched(cal, d)) /\ Fetched(cal, d) \subseteq Plans
  BY <1>1, FetchedPlans
<1>3. IsFiniteSet({F[d] : d \in FetchedDays(day, now)})
  BY <1>1, FiniteImage
<1>4. {F[d] : d \in FetchedDays(day, now)} = {Fetched(cal, d) : d \in FetchedDays(day, now)}
  OBVIOUS
<1>5. AllPlans(cal, day, now) = UNION {Fetched(cal, d) : d \in FetchedDays(day, now)}
  BY DEF AllPlans
<1>6. IsFiniteSet(AllPlans(cal, day, now))
  BY <1>2, <1>3, <1>4, <1>5, FS_UNION
<1>7. AllPlans(cal, day, now) \in SUBSET Plans
  BY <1>2, <1>5
<1> QED BY <1>6, <1>7, NapCapType

\* A finished computation.
LEMMA ComputedSound ==
  ASSUME NEW c \in Configs, NEW now \in Int, NEW cal,
         \A d \in Days3(now) : Readable(cal, d),
         NEW counts \in SUBSET Nat,
         NEW manual, manual = None \/ manual \in Intended(counts)
  PROVE  LET r == Computed(c, cal, manual, now, ChosenDay(c, cal, manual, now))
         IN  r # None =>
               /\ Sound(counts, r) /\ Carries(r, manual)
               /\ Live(manual, now) => r.wake <= manual.deadline
               /\ r.source = "fallback" => r.warning = "none"
<1> DEFINE day == ChosenDay(c, cal, manual, now)
<1> DEFINE bound == IF Competes(manual, day, now) THEN manual ELSE None
<1> DEFINE warning == Warning(c, cal, day, manual, now)
<1> DEFINE cap == NapCap(c, AllPlans(cal, day, now), now)
<1> DEFINE x == Select(c, cal, day, manual, now)
<1> DEFINE r == ResultFor(c, day, x, bound, warning, cap)
<1> DEFINE Goal == /\ Sound(counts, r) /\ Carries(r, manual)
                   /\ Live(manual, now) => r.wake <= manual.deadline
                   /\ r.source = "fallback" => r.warning = "none"
<1>1. Computed(c, cal, manual, now, day) =
        IF ~DayUsable(c, cal, day, manual, now) \/ (warning # "none" /\ bound = None)
        THEN None ELSE r
  BY DEF Computed
<1> SUFFICES ASSUME ~(warning # "none" /\ bound = None) PROVE Goal
  BY <1>1
<1>2. day \in Days3(now)
  BY ChosenIsTimely
<1>3. IsDay(day) /\ day \in Int /\ Readable(cal, day) /\ Day \in Nat
  BY <1>2, Days3AreDays, ChoiceConstants
<1>4. cap \in Optional(Int)
  BY <1>2, CapOfDays
<1>5. warning \in {"none", "conflict", "degraded"}
  BY DEF Warning
<1>6. /\ Sound(counts, r) /\ Carries(r, manual) /\ r.day = day /\ r.warning = warning
      /\ bound # None => r.wake <= manual.deadline /\ r.source # "fallback"
  <2> HIDE DEF day, warning, cap
  <2> QED BY SMTT(30), <1>3, <1>4, <1>5, ResultSound
<1>7. ASSUME Live(manual, now) PROVE r.wake <= manual.deadline
  <2>1. manual # None /\ manual \in Intended(counts) /\ manual.deadline \in Int
    BY <1>7 DEF Live, Intended
  <2>2. DayStart(manual.deadline) = day \/ day + Day <= DayStart(manual.deadline)
    BY <1>7, <2>1, ChosenIsTimely
  <2>3. CASE DayStart(manual.deadline) = day
    <3>1. bound # None
      BY <1>7, <2>1, <2>3 DEF Competes
    <3> QED BY <1>6, <3>1
  <2>4. CASE day + Day <= DayStart(manual.deadline)
    <3>1. /\ DayStart(manual.deadline) \in Int
          /\ DayStart(manual.deadline) <= manual.deadline
      BY <2>1, DayOfInstant
    <3>2. r.wake \in Int /\ r.wake < day + Day
      BY <1>6 DEF Sound, Results
    <3> HIDE DEF r, day
    <3> QED BY <1>3, <2>1, <2>4, <3>1, <3>2
  <2> QED BY <2>2, <2>3, <2>4
<1> HIDE DEF r, bound, warning
<1> QED BY <1>6, <1>7

\* The last publication may stand in: it was for the intent or an earlier day,
\* or for a departure before its deadline.
LEMMA RetainedSound ==
  ASSUME NEW c \in Configs, NEW now \in Int, NEW counts \in SUBSET Nat,
         NEW manual, manual = None \/ manual \in Intended(counts),
         NEW last, Sound(counts, last), MayRetain(c, last, manual, now)
  PROVE  LET r == RetainedResult(last, manual, now)
         IN  /\ Sound(counts, r) /\ Carries(r, manual)
             /\ Live(manual, now) => r.wake <= manual.deadline
             /\ r.source = "retained"
<1> DEFINE r == RetainedResult(last, manual, now)
<1> DEFINE md == IF Competes(manual, last.day, now) THEN manual.deadline
                 ELSE last.manualDeadline
<1> DEFINE Goal == /\ Sound(counts, r) /\ Carries(r, manual)
                   /\ Live(manual, now) => r.wake <= manual.deadline
                   /\ r.source = "retained"
<1> SUFFICES Goal
  OBVIOUS
<1>1. /\ last \in Results(counts) /\ IsDay(last.day) /\ last.wake < last.day + Day
      /\ last.deadline # None => last.wake <= last.deadline
  BY DEF Sound
<1>2. /\ Retainable(c, last, manual, now) /\ ~Outweighed(last, manual, now)
      /\ None \notin Int
  BY ChoiceConstants DEF MayRetain
<1>3. r = [last EXCEPT !.source = "retained", !.warning = "degraded",
                       !.manualDeadline = md]
  BY DEF RetainedResult
<1>4. Competes(manual, last.day, now) => manual # None /\ manual.deadline \in Int
  BY DEF Competes, Live, Intended
<1>5. md \in Optional(Int) /\ (md # None => manual # None /\ md = manual.deadline)
  BY <1>1, <1>2, <1>4 DEF Retainable, Results, Optional
<1> HIDE DEF md, r
<1>6. /\ r \in Results(counts) /\ r.day = last.day /\ r.wake = last.wake
      /\ r.deadline = last.deadline /\ r.manualDeadline = md /\ r.snoozes = last.snoozes
      /\ r.source = "retained"
  BY <1>1, <1>3, <1>5 DEF Results, Optional
<1>7. Sound(counts, r)
  BY <1>1, <1>6 DEF Sound
<1>8. Carries(r, manual)
  BY <1>2, <1>5, <1>6 DEF Carries, Retainable
<1>9. ASSUME Live(manual, now) PROVE last.wake <= manual.deadline
  <2> DEFINE D == DayStart(manual.deadline)
  <2>1. manual.deadline \in Int /\ last.wake \in Int /\ last.day \in Int /\ Day \in Nat
    BY <1>1, <1>9, ChoiceConstants DEF Live, Intended, Results
  <2>2. D \in Int /\ D <= manual.deadline /\ IsDay(D)
    BY <2>1, DayOfInstant, StartIsDay
  <2>3. CASE last.day < D
    <3>1. last.day + Day <= D
      BY <1>1, <2>2, <2>3, DaysApart
    <3> HIDE DEF D
    <3> QED BY <1>1, <2>1, <2>2, <3>1
  <2>4. CASE last.day = D
    <3>1. last.deadline # None /\ ~(last.deadline >= manual.deadline)
      BY <1>2, <1>9, <2>4 DEF Outweighed
    <3>2. last.deadline \in Int /\ last.wake <= last.deadline
      BY <1>1, <3>1 DEF Results, Optional
    <3> QED BY <2>1, <3>1, <3>2
  <2>5. ~(last.day > D)
    BY <1>2, <1>9 DEF Outweighed
  <2> HIDE DEF D
  <2> QED BY <2>1, <2>2, <2>3, <2>4, <2>5
<1> QED BY <1>6, <1>7, <1>8, <1>9

\* With neither computation nor record: the intent, or tomorrow's fallback
\* when the intent is for a day after that.
LEMMA FallbackSound ==
  ASSUME NEW c \in Configs, NEW now \in Int, NEW counts \in SUBSET Nat,
         NEW manual, manual = None \/ manual \in Intended(counts)
  PROVE  LET tomorrow == DayStart(now) + Day
             r == IF Live(manual, now) /\ DayStart(manual.deadline) <= tomorrow
                  THEN ManualFallback(c, manual) ELSE TomorrowFallback(c, tomorrow)
         IN  /\ Sound(counts, r) /\ Carries(r, manual)
             /\ Live(manual, now) => /\ r.wake <= manual.deadline
                                     /\ r.source = "fallback" =>
                                          DayStart(manual.deadline) > tomorrow
<1> DEFINE tomorrow == DayStart(now) + Day
<1>1. DayStart(now) \in Int /\ Day \in Nat /\ IsDay(tomorrow) /\ tomorrow \in Int
      /\ None \notin Int
  <2>1. IsDay(tomorrow)
    BY StartIsDay, NextDay
  <2> QED BY <2>1, DayOfInstant, ChoiceConstants
<1>2. ASSUME Live(manual, now)
      PROVE  /\ manual # None /\ manual \in Intended(counts) /\ manual.deadline \in Int
             /\ manual.snoozes \in Optional(counts)
             /\ DayStart(manual.deadline) \in Int /\ IsDay(DayStart(manual.deadline))
             /\ DayStart(manual.deadline) <= manual.deadline
             /\ manual.deadline < DayStart(manual.deadline) + Day
  <2>1. manual # None /\ manual \in Intended(counts) /\ manual.deadline \in Int
    BY <1>2 DEF Live, Intended
  <2> QED BY <2>1, DayOfInstant, StartIsDay DEF Intended
<1>3. CASE Live(manual, now) /\ DayStart(manual.deadline) <= tomorrow
  <2> DEFINE r == ManualFallback(c, manual)
  <2>1. ManualFirstAlarm(c, manual) \in Int /\ ManualFirstAlarm(c, manual) <= manual.deadline
    BY <1>2, <1>3, ManualBound
  <2>2. r = [wake |-> ManualFirstAlarm(c, manual), day |-> DayStart(manual.deadline),
             source |-> "manual", deadline |-> manual.deadline, origin |-> "manual",
             cap |-> None, manualDeadline |-> manual.deadline, snoozes |-> manual.snoozes,
             warning |-> "degraded"]
    BY DEF ManualFallback
  <2> HIDE DEF r
  <2>3. r \in Results(counts)
    BY <1>2, <1>3, <2>1, <2>2 DEF Results, Optional
  <2>4. Sound(counts, r) /\ Carries(r, manual) /\ r.wake <= manual.deadline
        /\ r.source # "fallback"
    BY <1>1, <1>2, <1>3, <2>1, <2>2, <2>3 DEF Sound, Carries
  <2> QED BY <1>3, <2>4 DEF r
<1>4. CASE ~(Live(manual, now) /\ DayStart(manual.deadline) <= tomorrow)
  <2> DEFINE r == TomorrowFallback(c, tomorrow)
  <2> DEFINE d == FallbackDeadline(c, tomorrow)
  <2>1. /\ FallbackWake(c, tomorrow) \in Int /\ FallbackWake(c, tomorrow) < tomorrow + Day
        /\ d \in Optional(Int) /\ (d # None => FallbackWake(c, tomorrow) <= d)
    BY <1>1, FallbackBound
  <2>2. r = [wake |-> FallbackWake(c, tomorrow), day |-> tomorrow, source |-> "fallback",
             deadline |-> d, origin |-> IF c.window THEN "fallback" ELSE None, cap |-> None,
             manualDeadline |-> None, snoozes |-> None, warning |-> "degraded"]
    BY DEF TomorrowFallback
  <2> HIDE DEF r, d, tomorrow
  <2>3. r \in Results(counts)
    BY <1>1, <2>1, <2>2 DEF Results, Optional
  <2>4. Sound(counts, r) /\ Carries(r, manual)
    BY <1>1, <2>1, <2>2, <2>3 DEF Sound, Carries
  <2>5. ASSUME Live(manual, now)
        PROVE  r.wake <= manual.deadline /\ DayStart(manual.deadline) > tomorrow
    <3>1. tomorrow < DayStart(manual.deadline)
      BY <1>1, <1>2, <1>4, <2>5
    <3>2. tomorrow + Day <= DayStart(manual.deadline)
      BY <1>1, <1>2, <2>5, <3>1, DaysApart
    <3> QED BY <1>1, <1>2, <2>1, <2>2, <2>5, <3>1, <3>2
  <2> QED BY <1>4, <2>4, <2>5 DEF r, tomorrow
<1> QED BY <1>3, <1>4

\* compute_wake: whatever the calendars say, whether or not they can be read,
\* and whatever was published before, the wake is well formed, of its day and
\* by its own deadline; it is about the given intent or none; and a live
\* intent's deadline is not overslept.  In distress, a fallback is chosen over
\* a live intent only if that intent is for a day after tomorrow.
THEOREM WakeIsSound ==
  ASSUME NEW c \in Configs, NEW now \in Int, NEW cal,
         \A d \in Days3(now) : Readable(cal, d),
         NEW counts \in SUBSET Nat,
         NEW manual, manual = None \/ manual \in Intended(counts),
         NEW last, last = None \/ Sound(counts, last)
  PROVE  LET r == ComputeWake(c, cal, last, manual, now)
         IN  /\ Sound(counts, r) /\ Carries(r, manual)
             /\ Live(manual, now) => r.wake <= manual.deadline
             /\ Live(manual, now) /\ r.source = "fallback" /\ r.warning # "none" =>
                  DayStart(manual.deadline) > DayStart(now) + Day
<1> DEFINE Fine(r) ==
      /\ Sound(counts, r) /\ Carries(r, manual)
      /\ Live(manual, now) => r.wake <= manual.deadline
      /\ Live(manual, now) /\ r.source = "fallback" /\ r.warning # "none" =>
           DayStart(manual.deadline) > DayStart(now) + Day
<1> DEFINE result == Computed(c, cal, manual, now, ChosenDay(c, cal, manual, now))
<1>1. result # None => Fine(result)
  <2>1. result # None =>
          /\ Sound(counts, result) /\ Carries(result, manual)
          /\ Live(manual, now) => result.wake <= manual.deadline
          /\ result.source = "fallback" => result.warning = "none"
    BY ComputedSound
  <2> HIDE DEF result
  <2> QED BY <2>1
<1>2. MayRetain(c, last, manual, now) => Fine(RetainedResult(last, manual, now))
  <2>1. SUFFICES ASSUME MayRetain(c, last, manual, now)
                 PROVE  Fine(RetainedResult(last, manual, now))
    OBVIOUS
  <2>2. last # None
    BY <2>1 DEF MayRetain, Retainable
  <2> DEFINE r == RetainedResult(last, manual, now)
  <2>3. /\ Sound(counts, r) /\ Carries(r, manual)
        /\ Live(manual, now) => r.wake <= manual.deadline
        /\ r.source = "retained"
    BY <2>1, <2>2, RetainedSound
  <2> HIDE DEF r
  <2>4. Fine(r)
    BY <2>3
  <2> QED BY <2>4 DEF r
<1>3. Fine(WithoutComputation(c, last, manual, now))
  <2> DEFINE tomorrow == DayStart(now) + Day
  <2> DEFINE r == IF Live(manual, now) /\ DayStart(manual.deadline) <= tomorrow
                  THEN ManualFallback(c, manual) ELSE TomorrowFallback(c, tomorrow)
  <2>1. WithoutComputation(c, last, manual, now) =
          IF MayRetain(c, last, manual, now) THEN RetainedResult(last, manual, now) ELSE r
    BY DEF WithoutComputation
  <2>2. /\ Sound(counts, r) /\ Carries(r, manual)
        /\ Live(manual, now) => /\ r.wake <= manual.deadline
                                /\ r.source = "fallback" =>
                                     DayStart(manual.deadline) > tomorrow
    BY FallbackSound
  <2> HIDE DEF r
  <2>3. Fine(r)
    BY <2>2
  <2> HIDE DEF Fine
  <2> QED BY <1>2, <2>1, <2>3
<1>4. ComputeWake(c, cal, last, manual, now) =
        IF result = None THEN WithoutComputation(c, last, manual, now)
        ELSE IF result.warning = "degraded" /\ MayRetain(c, last, manual, now)
             THEN RetainedResult(last, manual, now) ELSE result
  BY DEF ComputeWake, SafeResult
<1>5. Fine(ComputeWake(c, cal, last, manual, now))
  <2> HIDE DEF Fine, result
  <2> QED BY <1>1, <1>2, <1>3, <1>4
<1> QED BY <1>5
=============================================================================
