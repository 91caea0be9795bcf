------------------------- MODULE DelayPipelineProofs -------------------------
(***************************************************************************)
(* The delay pipeline, for every timetable, every feed and any number of   *)
(* refreshing processes: the index moves forward, padding is current, and  *)
(* a plan is padded for its own train only.                                *)
(*                                                                         *)
(* The invariant has four parts.  Held: at most one process works on the   *)
(* index, and what it brings is not older than what is there.  Read: what  *)
(* was read from the feeds is well formed.  Planned: a leg with an         *)
(* identity is the one train of its timetable that departs then, and a     *)
(* refresh has the stored plan's leg in hand.  OwnTrainOnly itself.        *)
(* The types need one fact more: the usable feeds counted so far are fewer *)
(* than the next feed to fetch, and a cached count is at most the number   *)
(* of feeds (Counted).                                                     *)
(***************************************************************************)
EXTENDS DelayPipeline, FiniteSetTheorems, TLAPS

Held ==
  /\ now \in Nat
  /\ file # None => file.zip \in DOMAIN Zips /\ file.at \in Nat /\ file.at <= now
  /\ jobs \in [Refreshers -> [pc : {"out", "download", "import"}, kind : Int,
                             zip : DOMAIN Zips \cup {None}, at : Nat \cup {None}]]
  /\ \A r \in Refreshers :
       /\ jobs[r].pc # "out" => lock = r
       /\ jobs[r].pc = "import" =>
            /\ jobs[r].zip \in DOMAIN Zips /\ jobs[r].at \in Nat /\ jobs[r].at <= now
            /\ file # None => file.at <= jobs[r].at

Stamps == Nat \cup {None}
Predictions == [feed : Feeds, header : Stamps, report : DOMAIN Reports, fresh : BOOLEAN]

Read ==
  /\ feeds \in [Feeds -> [header : Stamps, full : BOOLEAN, reports : SUBSET DOMAIN Reports]]
  /\ next \in Nat \ {0}
  /\ result.predictions \subseteq Predictions
  /\ cache # None => cache.result.predictions \subseteq Predictions

Identified(l) ==
  /\ l = Leg(l.step, l.id, l.approximate) /\ l.step \in DOMAIN Steps
  /\ l.id # None =>
       /\ l.id.dep \in Int /\ l.id.platform = l.id.rt.dir
       /\ Trains(Steps[l.step], Zips[l.id.zip]) = {<<l.id.rt, l.id.date>>}

Near == DeparturesNear(Zips[handle.zip], Steps[leg.step].line, Steps[leg.step].dep)

Planned ==
  /\ run # "idle" => Identified(leg)
  /\ run \in {"join", "verify"} => handle.zip \in DOMAIN Zips
  /\ run = "verify" => OnlyBoarding(Steps[leg.step], Near) /\ board \in Near
  /\ again => run \in {"ask", "fetch", "measure"} /\ plan # None /\ leg = plan.leg
  /\ routes # None => Identified(routes)
  /\ plan # None =>
       /\ plan = [leg |-> plan.leg, minutes |-> plan.minutes, basis |-> plan.basis,
                  boarded |-> plan.boarded]
       /\ plan.minutes \in Nat /\ Identified(plan.leg)

IInv == Held /\ Read /\ Planned /\ OwnTrainOnly

-----------------------------------------------------------------------------
\* Lemmas on the operators.

\* Days of service are integers.
LEMMA DaysAreInt ==
  ASSUME NEW z \in DOMAIN Zips, NEW d \in ServiceDays(Zips[z])
  PROVE  d \in Int
<1>1. PICK s \in Zips[z].trips : d \in s.days
  BY DEF ServiceDays
<1>2. s.days \subseteq Int
  BY PipelineConstants
<1> QED BY <1>1, <1>2

\* The candidates of the bridge are the departures of a file: finitely many.
LEMMA NearFinite ==
  ASSUME NEW z \in DOMAIN Zips, NEW line, NEW t
  PROVE  IsFiniteSet(DeparturesNear(Zips[z], line, t))
<1>1. IsFiniteSet(Matched(Zips[z]))
  BY PipelineConstants, FS_Subset DEF Matched
<1>2. IsFiniteSet(Matched(Zips[z]) \X ServiceDays(Zips[z]))
  BY <1>1, PipelineConstants, FS_Product
<1>3. DeparturesNear(Zips[z], line, t) \subseteq Matched(Zips[z]) \X ServiceDays(Zips[z])
  BY DEF DeparturesNear
<1> QED BY <1>2, <1>3, FS_Subset

\* What departs in the window by the index is what departs by the timetable.
LEMMA NearIsTrains ==
  ASSUME NEW z \in DOMAIN Zips, NEW n \in DOMAIN Steps, Steps[n].line \in Lines
  PROVE  DeparturesNear(Zips[z], Steps[n].line, Steps[n].dep) =
           {b \in Zips[z].trips \X ServiceDays(Zips[z]) :
              /\ b[1].line = Steps[n].line /\ b[1].platform # None /\ b[2] \in b[1].days
              /\ ServiceInstant(b[2], b[1].offset) - Steps[n].dep \in (-Window)..Window}
<1> DEFINE D == DeparturesNear(Zips[z], Steps[n].line, Steps[n].dep)
<1> DEFINE T == {b \in Zips[z].trips \X ServiceDays(Zips[z]) :
              /\ b[1].line = Steps[n].line /\ b[1].platform # None /\ b[2] \in b[1].days
              /\ ServiceInstant(b[2], b[1].offset) - Steps[n].dep \in (-Window)..Window}
<1>1. ASSUME NEW s \in Zips[z].trips, NEW d \in ServiceDays(Zips[z])
      PROVE  <<s, d>> \in D <=> <<s, d>> \in T
  <2>1. d \in Int /\ s.offset \in Int /\ Steps[n].dep \in Int /\ DayLength \in Int /\ Window \in Int
    BY PipelineConstants, DaysAreInt
  <2>2. ServiceInstant(d, s.offset) - Steps[n].dep \in Int
    BY <2>1 DEF ServiceInstant
  <2>3. Covers(Zips[z], d)
    BY <2>1 DEF Covers
  <2>4. Active(Zips[z], s, d) <=> d \in s.days
    BY <2>3 DEF Active
  <2>5. ServiceInstant(d, s.offset) - Steps[n].dep \in (-Window)..Window
          <=> /\ ServiceInstant(d, s.offset) - Steps[n].dep <= Window
              /\ -(ServiceInstant(d, s.offset) - Steps[n].dep) <= Window
    BY <2>1, <2>2
  <2>6. <<s, d>> \in D <=>
          /\ s \in Matched(Zips[z]) /\ s.line = Steps[n].line /\ d \in s.days
          /\ ServiceInstant(d, s.offset) - Steps[n].dep <= Window
          /\ -(ServiceInstant(d, s.offset) - Steps[n].dep) <= Window
    BY <2>4 DEF DeparturesNear
  <2> QED BY <2>5, <2>6 DEF Matched
<1>2. D \subseteq Zips[z].trips \X ServiceDays(Zips[z])
  BY DEF DeparturesNear, Matched
<1>3. T \subseteq Zips[z].trips \X ServiceDays(Zips[z])
  OBVIOUS
<1> HIDE DEF D, T
<1>4. D = T
  BY <1>1, <1>2, <1>3
<1> QED BY <1>4 DEF D, T

\* One candidate is the one train that departs then.
LEMMA OneTrain ==
  ASSUME NEW z \in DOMAIN Zips, NEW n \in DOMAIN Steps,
         NEW b \in DeparturesNear(Zips[z], Steps[n].line, Steps[n].dep),
         OnlyBoarding(Steps[n], DeparturesNear(Zips[z], Steps[n].line, Steps[n].dep))
  PROVE  /\ Trains(Steps[n], Zips[z]) = {<<b[1].rt, b[2]>>}
         /\ b[1] \in Zips[z].trips /\ b[2] \in Int /\ b[1].offset \in Int
<1> DEFINE D == DeparturesNear(Zips[z], Steps[n].line, Steps[n].dep)
<1>1. Steps[n].line \in Lines /\ Cardinality(D) = 1
  BY DEF OnlyBoarding, Admitted
<1>2. IsFiniteSet(D)
  BY NearFinite
<1>3. D = {b}
  BY <1>1, <1>2, FS_Singleton
<1>4. b \in Zips[z].trips \X ServiceDays(Zips[z])
  BY DEF DeparturesNear, Matched
<1>5. b[1] \in Zips[z].trips /\ b[2] \in Int /\ b[1].offset \in Int
  BY <1>4, PipelineConstants, DaysAreInt
<1>6. Trains(Steps[n], Zips[z]) = {<<c[1].rt, c[2]>> : c \in D}
  BY <1>1, NearIsTrains DEF Trains
<1> HIDE DEF D
<1>7. {<<c[1].rt, c[2]>> : c \in D} = {<<b[1].rt, b[2]>>}
  BY <1>3
<1> QED BY <1>5, <1>6, <1>7

\* More minutes are more seconds.
LEMMA MoreMinutes ==
  ASSUME NEW a \in Nat, NEW b \in Nat, a <= b, NEW m \in Nat
  PROVE  m * a <= m * b
<1>1. PICK k \in Nat : b = a + k
  <2>1. b - a \in Nat /\ b = a + (b - a)
    OBVIOUS
  <2> QED BY <2>1
<1>2. m * (a + k) = m * a + m * k
  OBVIOUS
<1>3. m * k \in Nat /\ m * a \in Nat
  OBVIOUS
<1> QED BY <1>1, <1>2, <1>3

\* Division leaves a remainder.
LEMMA Divided ==
  ASSUME NEW d \in Nat, NEW m \in Nat \ {0}
  PROVE  /\ d \div m \in Nat /\ d % m \in 0..(m - 1)
         /\ d = m * (d \div m) + (d % m)
  OBVIOUS

\* Rounding to minutes is off by half a minute at most.
LEMMA RoundedIsNear ==
  ASSUME NEW d \in Nat, Minute \in Nat \ {0}
  PROVE  Rounded(d) \in Nat /\ LateBy(d, Rounded(d))
<1> DEFINE q == d \div Minute
<1> DEFINE r == d % Minute
<1>1. q \in Nat /\ r \in Nat /\ r < Minute /\ d = Minute * q + r
  BY Divided
<1>2. Minute * (q + 1) = Minute * q + Minute /\ Minute * q \in Nat
  BY <1>1
<1>3. CASE Rounded(d) = q
  BY <1>1, <1>2, <1>3 DEF LateBy
<1>4. CASE Rounded(d) = q + 1 /\ 2 * r >= Minute
  BY <1>1, <1>2, <1>4 DEF LateBy
<1>5. Rounded(d) = q \/ (Rounded(d) = q + 1 /\ 2 * r >= Minute)
  BY <1>1 DEF Rounded
<1> QED BY <1>3, <1>4, <1>5

\* No delay is no minutes.
LEMMA RoundedZero ==
  ASSUME Minute \in Nat \ {0}
  PROVE  Rounded(0) = 0
<1>1. 0 \div Minute = 0 /\ 0 % Minute = 0
  OBVIOUS
<1> QED BY <1>1 DEF Rounded

\* Padding is a natural number, at most the delay it stands for.
LEMMA PaddingBounds ==
  ASSUME NEW d \in Int
  PROVE  Padding(d) \in Nat /\ (Padding(d) > 0 => LateBy(d, Padding(d)))
<1> DEFINE e == IF d > 0 THEN d ELSE 0
<1>1. Minute \in Nat \ {0} /\ MaxBuffer \in Nat /\ MinDelay \in Int
  BY PipelineConstants
<1>2. Late(d) \in Nat /\ LateBy(e, Late(d))
  BY <1>1, RoundedIsNear DEF Late
<1>3. CASE Padding(d) = Late(d)
  <2>1. Padding(d) > 0 => d > 0
    BY <1>1, <1>3, RoundedZero DEF Late
  <2> QED BY <1>2, <1>3, <2>1
<1>4. CASE Padding(d) # Late(d)
  <2>1. Padding(d) = 0 \/ (Padding(d) = MaxBuffer /\ MaxBuffer <= Late(d))
    BY <1>1, <1>2, <1>4 DEF Padding
  <2>2. ASSUME Padding(d) = MaxBuffer, MaxBuffer <= Late(d), MaxBuffer > 0
        PROVE  LateBy(d, MaxBuffer)
    <3>1. Minute * MaxBuffer <= Minute * Late(d)
      BY <1>1, <1>2, <2>2, MoreMinutes
    <3>2. d > 0
      BY <1>1, <2>2, RoundedZero DEF Late
    <3> QED BY <1>1, <1>2, <3>1, <3>2 DEF LateBy
  <2> QED BY <1>1, <2>1, <2>2
<1> QED BY <1>3, <1>4

\* Padding never exceeds the configured buffer.
LEMMA PaddingCapped ==
  ASSUME NEW d \in Int
  PROVE  Padding(d) \in 0..MaxBuffer
<1>1. MaxBuffer \in Nat /\ Minute \in Nat \ {0}
  BY PipelineConstants
<1>2. Late(d) \in Nat
  BY <1>1, RoundedIsNear DEF Late
<1> QED BY <1>1, <1>2 DEF Padding

\* What an observation that pads says of its report.
LEMMA Observed ==
  ASSUME NEW id, id.dep \in Int, NEW res, res.predictions \subseteq Predictions,
         NEW t \in Nat, Observation(id, res, t).minutes # 0
  PROVE  LET o == Observation(id, res, t)
             r == Reports[o.basis.report]
         IN /\ o.minutes \in 0..MaxBuffer
            /\ o.basis.report \in DOMAIN Reports /\ o.basis.header \in Nat
            /\ Fresh(o.basis.header, r.lag, t)
            /\ r.rt = id.rt /\ r.date = id.date /\ r.platform = id.platform
            /\ r.trip = "scheduled" /\ r.stop = "scheduled"
            /\ r.nyct = None \/ r.nyct.assigned
            /\ r.dep # None /\ LateBy(r.dep - id.dep, o.minutes)
<1> DEFINE own == {p \in res.predictions :
                /\ Reports[p.report].platform \in {id.platform, None}
                /\ Reports[p.report].line = id.line
                /\ StillFresh(p, t) /\ Matches(Reports[p.report], id)}
<1> DEFINE p == CHOOSE p \in own : TRUE
<1> DEFINE r == Reports[p.report]
<1> DEFINE d == Measured(r, id)
<1> DEFINE o == Observation(id, res, t)
<1>1. Cardinality(own) = 1
  BY DEF Observation, Unknown
<1>2. p \in own
  <2> HIDE DEF own
  <2>1. own # {}
    BY <1>1, FS_EmptySet
  <2> QED BY <2>1
<1>3. /\ p \in Predictions /\ p.report \in DOMAIN Reports /\ StillFresh(p, t)
      /\ Matches(r, id)
  BY <1>2 DEF Predictions
<1>4. /\ r.trip = "scheduled" /\ r.stop = "scheduled" /\ d # None
      /\ o = [status |-> "observed", minutes |-> Padding(d),
              basis |-> [header |-> p.header, report |-> p.report]]
  <2>1. o = IF res.usable = 0 \/ Cardinality(own) # 1 THEN Unknown
            ELSE CASE r.trip = "cancelled" -> [Unknown EXCEPT !.status = "cancelled"]
               [] r.trip = "scheduled" /\ r.stop = "skipped" ->
                    [Unknown EXCEPT !.status = "skipped"]
               [] r.trip = "scheduled" /\ r.stop = "scheduled" /\ d # None ->
                    [status |-> "observed", minutes |-> Padding(d),
                     basis |-> [header |-> p.header, report |-> p.report]]
               [] OTHER -> Unknown
    BY DEF Observation
  <2> HIDE DEF own, p, r, d, o
  <2>2. o.minutes # 0
    BY DEF o
  <2> QED BY <2>1, <2>2 DEF Unknown
<1> HIDE DEF own, p, d, o
<1>5. {r.dep, r.delay, r.lag} \subseteq Int \cup {None}
  BY <1>3, PipelineConstants
<1>6. Fresh(p.header, r.lag, t) /\ p.header \in Nat
  BY <1>3 DEF StillFresh, Fresh, Predictions, Stamps
<1>7. r.rt = id.rt /\ r.date = id.date /\ r.platform = id.platform
  BY <1>3, <1>4 DEF Matches, SameBoarding, NyctSameBoarding, SameTrip, TripCancelled
<1>8. r.dep # None /\ d \in Int /\ d = r.dep - id.dep /\ (r.nyct = None \/ r.nyct.assigned)
  <2>1. CASE IsNyct(r)
    BY <2>1, <1>4, <1>5, PipelineConstants DEF d, Measured, NyctDelay
  <2>2. CASE ~IsNyct(r)
    BY <2>2, <1>4, <1>5, PipelineConstants DEF d, Measured, GenericDelay, IsNyct
  <2> QED BY <2>1, <2>2
<1>9. o.minutes \in 0..MaxBuffer /\ o.minutes # 0 /\ o.minutes = Padding(d)
  BY <1>4, <1>8, PaddingCapped DEF o
<1>10. LateBy(r.dep - id.dep, o.minutes)
  BY <1>8, <1>9, PaddingBounds, PipelineConstants
<1>11. o.basis.report = p.report /\ o.basis.header = p.header
  BY <1>4
<1> QED BY <1>3, <1>4, <1>6, <1>7, <1>8, <1>9, <1>10, <1>11 DEF o

\* Whatever is observed, a plan is padded by the buffer at most.
LEMMA MinutesCapped ==
  ASSUME NEW id, id.dep \in Int, NEW res, res.predictions \subseteq Predictions, NEW t \in Nat
  PROVE  Observation(id, res, t).minutes \in 0..MaxBuffer
  BY Observed, PipelineConstants

-----------------------------------------------------------------------------
\* The invariant.

\* The invariant holds at the start.
LEMMA InitInv == Init => IInv
<1> SUFFICES ASSUME Init PROVE IInv
  OBVIOUS
<1>1. Held
  BY PipelineConstants DEF Init, Held, Idle, Imported
<1>2. Read
  BY DEF Init, Read, NoFeed, NoResult, Stamps
<1>3. Planned
  BY DEF Init, Planned
<1>4. OwnTrainOnly
  BY DEF Init, OwnTrainOnly
<1> QED BY <1>1, <1>2, <1>3, <1>4 DEF IInv

\* The refreshing processes keep the index in order.
LEMMA HeldStep == IInv /\ [Next]_vars => Held'
<1> SUFFICES ASSUME IInv, [Next]_vars PROVE Held'
  OBVIOUS
<1> USE PipelineConstants DEF IInv, Held
<1> DEFINE JobStates == [pc : {"out", "download", "import"}, kind : Int,
                         zip : DOMAIN Zips \cup {None}, at : Nat \cup {None}]
<1>0. Idle \in JobStates /\ Trying(1) \in JobStates
  BY DEF Idle, Trying
<1>1. ASSUME NEW r \in Refreshers, Acquire(r) PROVE Held'
  BY <1>0, <1>1 DEF Acquire, LockFree, Job, Trying, Occurs
<1>2. ASSUME NEW r \in Refreshers, Download(r) PROVE Held'
  <2> DEFINE job(z) == [jobs[r] EXCEPT !.pc = "import", !.zip = z, !.at = now]
  <2>1. PICK z \in DOMAIN Zips : jobs' = [jobs EXCEPT ![r] = job(z)]
    BY <1>2 DEF Download
  <2>3. jobs[r] \in JobStates
    OBVIOUS
  <2>2. /\ job(z) \in JobStates /\ job(z).pc = "import" /\ job(z).zip = z /\ job(z).at = now
    BY <2>3
  <2> HIDE DEF job
  <2> QED BY <1>2, <2>1, <2>2 DEF Download, Job
<1>3. ASSUME NEW r \in Refreshers, TryNext(r), UNCHANGED <<now, file>>, jobs[r].pc # "out"
      PROVE Held'
  <2>1. CASE jobs[r].kind < Len(Kinds)
    <3>1. jobs[r].kind + 1 \in Int
      OBVIOUS
    <3>2. /\ Trying(jobs[r].kind + 1) \in JobStates
          /\ Trying(jobs[r].kind + 1).pc = "download"
      BY <3>1 DEF Trying
    <3>3. jobs' = [jobs EXCEPT ![r] = Trying(jobs[r].kind + 1)] /\ lock' = lock
      BY <1>3, <2>1 DEF TryNext
    <3> QED BY <1>3, <3>2, <3>3
  <2>2. CASE ~(jobs[r].kind < Len(Kinds))
    <3>1. jobs' = [jobs EXCEPT ![r] = Idle] /\ lock = r
      BY <1>3, <2>2 DEF TryNext
    <3>2. \A q \in Refreshers \ {r} : jobs[q].pc = "out"
      BY <3>1
    <3>3. Idle.pc = "out"
      BY DEF Idle
    <3> QED BY <1>0, <1>3, <3>1, <3>2, <3>3
  <2> QED BY <2>1, <2>2
<1>4. ASSUME NEW r \in Refreshers, DownloadFails(r) \/ ImportFails(r) PROVE Held'
  BY <1>3, <1>4 DEF DownloadFails, ImportFails, Job
<1>5. ASSUME NEW r \in Refreshers, Import(r) PROVE Held'
  <2>1. \A q \in Refreshers \ {r} : jobs[q].pc = "out"
    BY <1>5 DEF Import, Job
  <2> QED BY <1>0, <1>5, <2>1 DEF Import, Job, Release, Idle, Imported
<1>6. ASSUME NEW r \in Refreshers, Dies(r) PROVE Held'
  BY <1>0, <1>6 DEF Dies, Release, Idle
<1>7. CASE Running
  BY <1>7 DEF Running, Else, refresh, Ends, PlanLive, Join, Verify, CacheRoute, PlanOffline,
     RefreshPlan, AskInVain, Apply, Ask, Receive, FeedFails, FetchStep, Fetched, Measure
<1>8. ASSUME NEW f \in Feeds, Publish(f) PROVE Held'
  BY <1>8 DEF Publish, refresh
<1>9. CASE Tick
  BY <1>9 DEF Tick, refresh
<1>10. CASE UNCHANGED vars
  BY <1>10 DEF vars, refresh
<1> QED BY <1>1, <1>2, <1>4, <1>5, <1>6, <1>7, <1>8, <1>9, <1>10 DEF Next, Refreshing

\* What is read stays well formed.
LEMMA ReadStep == IInv /\ [Next]_vars => Read'
<1> SUFFICES ASSUME IInv, [Next]_vars PROVE Read'
  OBVIOUS
<1> USE PipelineConstants DEF IInv, Read
<1>1. ASSUME NEW r \in Refreshers, Refreshing(r) PROVE Read'
  BY <1>1 DEF Refreshing, Acquire, Download, DownloadFails, Import, ImportFails, Dies, Occurs,
     process, fetch, world
<1>2. CASE Ends
  BY <1>2 DEF Ends, Else, world, NoResult
<1>3. CASE (\E step \in DOMAIN Steps \ Estimates : PlanLive(step)) \/ Join \/ Verify \/ CacheRoute \/ PlanOffline
           \/ RefreshPlan \/ AskInVain
  BY <1>3 DEF PlanLive, Join, Verify, CacheRoute, PlanOffline, RefreshPlan, AskInVain, Apply,
     Else, world, fetch
<1>4. CASE Ask
  BY <1>4 DEF Ask, CacheHit, Else, world, NoResult
<1>5. CASE Receive
  <2>1. next \in Feeds /\ next + 1 \in Nat \ {0}
    BY <1>5 DEF Receive, Fetching, Feeds
  <2>2. Parsed(next, feeds[next], now) \subseteq Predictions
    <3>1. feeds[next] \in [header : Stamps, full : BOOLEAN, reports : SUBSET DOMAIN Reports]
      BY <2>1
    <3>2. ASSUME NEW r \in feeds[next].reports
          PROVE  [feed |-> next, header |-> feeds[next].header, report |-> r,
                  fresh |-> feeds[next].full /\ Fresh(feeds[next].header, Reports[r].lag, now)]
                 \in Predictions
      BY <2>1, <3>1 DEF Predictions
    <3> QED BY <3>2 DEF Parsed
  <2> QED BY <1>5, <2>1, <2>2 DEF Receive, FetchStep, Else, world
<1>6. CASE FeedFails
  BY <1>6 DEF FeedFails, Fetching, FetchStep, Else, world
<1>7. CASE Fetched
  BY <1>7 DEF Fetched, Else, world, fetch
<1>8. CASE Measure
  BY <1>8 DEF Measure, Apply, Else, world, NoResult
<1>9. ASSUME NEW f \in Feeds, Publish(f) PROVE Read'
  <2>1. PICK d \in Datasets :
          feeds' = [feeds EXCEPT ![f] = [header |-> now, full |-> d.full, reports |-> d.reports]]
    BY <1>9 DEF Publish
  <2>2. now \in Stamps /\ d.full \in BOOLEAN /\ d.reports \in SUBSET DOMAIN Reports
    BY PipelineConstants DEF Held, Stamps
  <2> QED BY <1>9, <2>1, <2>2 DEF Publish, process, fetch
<1>10. CASE Tick \/ UNCHANGED vars
  BY <1>10 DEF Tick, vars, world, process, fetch
<1> QED BY <1>1, <1>2, <1>3, <1>4, <1>5, <1>6, <1>7, <1>8, <1>9, <1>10 DEF Next, Running

\* What a process may leave alone without touching the legs and the plan.
planning == <<run, handle, leg, board, again, stored>>

\* The legs and the plan: what Planned and OwnTrainOnly speak of is unchanged.
LEMMA PlannedUnchanged == IInv /\ UNCHANGED planning => Planned' /\ OwnTrainOnly'
<1> SUFFICES ASSUME IInv, UNCHANGED planning PROVE Planned' /\ OwnTrainOnly'
  OBVIOUS
<1> USE DEF IInv, planning, stored
<1>1. Planned'
  BY SMTT(20) DEF Planned, Near, Identified, Trains
<1>2. OwnTrainOnly'
  BY SMTT(20) DEF OwnTrainOnly, Trains
<1> QED BY <1>1, <1>2

\* A leg without identity is identified trivially.
LEMMA Anonymous ==
  ASSUME NEW n \in DOMAIN Steps, NEW a
  PROVE  Identified(Leg(n, None, a))
  BY DEF Identified, Leg

\* Planning, joining and stripping keep every identity that of the one train.
LEMMA PlannedStep ==
  ASSUME IInv,
         \/ \E step \in DOMAIN Steps \ Estimates : PlanLive(step)
         \/ Ends \/ Join \/ Verify \/ CacheRoute \/ PlanOffline \/ RefreshPlan
         \/ Ask \/ Receive \/ FeedFails \/ Fetched
  PROVE  Planned' /\ OwnTrainOnly'
<1> USE DEF IInv, Planned
<1>0. ASSUME UNCHANGED plan PROVE OwnTrainOnly'
  BY <1>0 DEF OwnTrainOnly, Trains
<1>1. ASSUME NEW step \in DOMAIN Steps \ Estimates, PlanLive(step) PROVE Planned' /\ OwnTrainOnly'
  <2>1. leg' = Leg(step, None, FALSE) /\ Identified(leg')
    BY <1>1, Anonymous DEF PlanLive
  <2>2. run' = "join" => file # None /\ handle' = file
    BY <1>1 DEF PlanLive, At, Usable
  <2> QED BY <1>0, <1>1, <2>1, <2>2 DEF PlanLive, At, stored, Held, Identified, Trains
<1>2. CASE Ends
  BY <1>0, <1>2 DEF Ends, stored, Identified, Trains
<1>3. CASE Join
  <2>1. CASE run' = "verify"
    <3>1. /\ OnlyBoarding(Steps[leg.step], Near) /\ board' = (CHOOSE b \in Near : TRUE)
          /\ UNCHANGED <<handle, leg, again, stored>>
      BY <1>3, <2>1 DEF Join, Rows, Near
    <3>2. handle.zip \in DOMAIN Zips /\ Near # {}
      <4>1. Cardinality(Near) = 1
        BY <3>1 DEF OnlyBoarding
      <4> QED BY <4>1, <1>3, FS_EmptySet DEF Join
    <3>3. board' \in Near
      BY <3>1, <3>2
    <3>4. Near' = Near
      BY <3>1 DEF Near
    <3> QED BY <1>0, <1>3, <2>1, <3>1, <3>2, <3>3, <3>4 DEF Join, stored
  <2>2. CASE run' = "route"
    BY <1>0, <1>3, <2>2 DEF Join, stored, Identified, Trains
  <2> QED BY <1>3, <2>1, <2>2 DEF Join
<1>4. CASE Verify
  <2> DEFINE id == IdentityOf(board[1], board[2], handle.zip)
  <2>1. /\ handle.zip \in DOMAIN Zips /\ Identified(leg) /\ leg.step \in DOMAIN Steps
        /\ OnlyBoarding(Steps[leg.step], Near) /\ board \in Near
    BY <1>4 DEF Verify, At, Identified
  <2>2. /\ Trains(Steps[leg.step], Zips[handle.zip]) = {<<board[1].rt, board[2]>>}
        /\ board[2] \in Int /\ board[1].offset \in Int
    BY <2>1, OneTrain DEF Near
  <2>3. CASE Confirmed(Steps[leg.step], Rows(handle), board[1], board[2])
    <3>1. board[1].platform = board[1].rt.dir
      BY <2>3 DEF Confirmed, DirectionsAgree
    <3>2. /\ id.dep \in Int /\ id.platform = id.rt.dir /\ id.rt = board[1].rt
          /\ id.date = board[2] /\ id.zip = handle.zip
      BY <2>2, <3>1, PipelineConstants DEF IdentityOf, ServiceInstant
    <3> HIDE DEF id
    <3>3. leg' = [leg EXCEPT !.id = id]
      BY <1>4, <2>3 DEF Verify, id
    <3>4. leg' = Leg(leg.step, id, leg.approximate)
      BY <2>1, <3>3 DEF Identified, Leg
    <3>5. leg'.step = leg.step /\ leg'.id = id /\ leg'.approximate = leg.approximate
      BY <3>4 DEF Leg
    <3>6. Identified(leg')
      BY <2>1, <2>2, <3>2, <3>4, <3>5 DEF Identified
    <3> QED BY <1>0, <1>4, <3>6 DEF Verify, At, stored, Identified, Trains
  <2>4. CASE ~Confirmed(Steps[leg.step], Rows(handle), board[1], board[2])
    BY <1>0, <1>4, <2>4 DEF Verify, At, stored, Identified, Trains
  <2> QED BY <2>3, <2>4
<1>5. CASE CacheRoute
  BY <1>0, <1>5 DEF CacheRoute, At, Identified, Trains
<1>6. CASE PlanOffline
  <2>1. ASSUME NEW l, Identified(l) PROVE Identified(Stripped(l))
    <3>1. l = Leg(l.step, l.id, l.approximate) /\ l.step \in DOMAIN Steps
      BY <2>1 DEF Identified
    <3>2. Stripped(l) = Leg(l.step, None, TRUE)
      BY DEF Stripped
    <3> QED BY <3>1, <3>2, Anonymous
  <2>2. Identified(leg')
    <3>1. CASE routes # None /\ leg' = Stripped(routes)
      BY <2>1, <3>1
    <3>2. ASSUME NEW step \in Estimates, leg' = Leg(step, None, TRUE)
          PROVE  Identified(leg')
      <4>1. step \in DOMAIN Steps
        BY PipelineConstants
      <4> QED BY <3>2, <4>1, Anonymous
    <3> QED BY <1>6, <3>1, <3>2 DEF PlanOffline
  <2> QED BY <1>0, <1>6, <2>2 DEF PlanOffline, At, stored, Identified, Trains
<1>7. CASE RefreshPlan
  BY <1>0, <1>7 DEF RefreshPlan, At, stored, Identified, Trains
<1>8. CASE Ask
  BY ZenonT(30), <1>0, <1>8 DEF Ask, stored, Identified, Trains
<1>9. CASE Receive \/ FeedFails
  BY <1>9, PlannedUnchanged DEF Receive, FeedFails, FetchStep, planning
<1>10. CASE Fetched
  BY <1>0, <1>10 DEF Fetched, At, stored, Identified, Trains
<1> QED BY <1>1, <1>2, <1>3, <1>4, <1>5, <1>6, <1>7, <1>8, <1>9, <1>10

\* What is measured pads the train of the leg, by a report that is fresh; what a
\* replan retains stays with the train it was measured on.
LEMMA MeasureStep ==
  ASSUME IInv, AskInVain \/ Measure
  PROVE  /\ Planned' /\ OwnTrainOnly'
         /\ plan' # plan /\ plan'.minutes > 0 /\ ~CarriesOver =>
              /\ plan'.basis.report \in DOMAIN Reports /\ plan'.basis.header \in Nat
              /\ Fresh(plan'.basis.header, Reports[plan'.basis.report].lag, now)
<1> USE DEF IInv
<1> DEFINE o == IF Measure /\ leg.id # None THEN Observation(leg.id, result, now) ELSE Unknown
<1>1. /\ run' = "idle" /\ again' = FALSE /\ routes' = routes
      /\ \/ plan' = plan \/ plan' = Made(o)
         \/ /\ plan # None /\ plan' = [plan EXCEPT !.leg = leg]
            /\ SameJourney(plan.leg, leg)
  BY DEF AskInVain, Measure, Apply, Retained
<1>2. Identified(leg)
  BY DEF Planned, AskInVain, Measure
<1>3. o.minutes \in Nat
  <2>1. CASE Measure /\ leg.id # None
    <3>1. /\ leg.id.dep \in Int /\ result.predictions \subseteq Predictions /\ now \in Nat
      BY <1>2, <2>1 DEF Identified, Read, Held
    <3>2. Observation(leg.id, result, now).minutes \in 0..MaxBuffer
      BY <3>1, MinutesCapped
    <3>3. o.minutes = Observation(leg.id, result, now).minutes
      BY <2>1
    <3>4. MaxBuffer \in Nat
      BY PipelineConstants
    <3> HIDE DEF o
    <3> QED BY <3>2, <3>3, <3>4
  <2>2. CASE ~(Measure /\ leg.id # None)
    BY <2>2 DEF Unknown
  <2> QED BY <2>1, <2>2
<1>4. ASSUME o.minutes > 0
      PROVE  LET id == leg.id
                 r == Reports[o.basis.report]
             IN /\ o.basis.report \in DOMAIN Reports /\ o.basis.header \in Nat
                /\ Fresh(o.basis.header, r.lag, now)
                /\ Trains(Steps[leg.step], Zips[id.zip]) = {<<r.rt, r.date>>}
                /\ r.trip = "scheduled" /\ r.stop = "scheduled" /\ r.platform = r.rt.dir
                /\ r.nyct = None \/ r.nyct.assigned
                /\ r.dep # None /\ LateBy(r.dep - id.dep, o.minutes)
  <2>1. Measure /\ leg.id # None /\ o = Observation(leg.id, result, now)
    BY <1>4 DEF Unknown
  <2>2. /\ leg.id.dep \in Int /\ result.predictions \subseteq Predictions /\ now \in Nat
        /\ leg.id.platform = leg.id.rt.dir
        /\ Trains(Steps[leg.step], Zips[leg.id.zip]) = {<<leg.id.rt, leg.id.date>>}
    BY <1>2, <2>1 DEF Identified, Read, Held
  <2> DEFINE r == Reports[o.basis.report]
  <2>3. /\ o.basis.report \in DOMAIN Reports /\ o.basis.header \in Nat
        /\ Fresh(o.basis.header, r.lag, now)
        /\ r.rt = leg.id.rt /\ r.date = leg.id.date /\ r.platform = leg.id.platform
        /\ r.trip = "scheduled" /\ r.stop = "scheduled"
        /\ r.nyct = None \/ r.nyct.assigned
        /\ r.dep # None /\ LateBy(r.dep - leg.id.dep, o.minutes)
    BY <1>3, <1>4, <2>1, <2>2, Observed
  <2>4. r.dep \in Int
    BY <2>3, PipelineConstants
  <2> HIDE DEF o, r
  <2> QED BY <1>3, <2>2, <2>3, <2>4 DEF r
<1> HIDE DEF o
<1>5. CASE plan' = plan
  <2>1. OwnTrainOnly'
    BY <1>5 DEF OwnTrainOnly, Trains
  <2> QED BY ZenonT(30), <1>1, <1>5, <2>1 DEF Planned, Identified, Trains
<1>6. CASE plan' = Made(o)
  <2>1. /\ plan' = [leg |-> leg, minutes |-> o.minutes, basis |-> o.basis, boarded |-> leg]
        /\ plan'.leg = leg /\ plan'.minutes = o.minutes /\ plan'.basis = o.basis
        /\ plan'.boarded = leg
    BY <1>6 DEF Made
  <2>2. Planned'
    BY <1>1, <1>2, <1>3, <2>1 DEF Planned, Identified, Trains
  <2>3. OwnTrainOnly'
    BY <1>4, <2>1 DEF OwnTrainOnly, Trains
  <2> QED BY <1>4, <2>1, <2>2, <2>3
<1>7. CASE /\ plan # None /\ plan' = [plan EXCEPT !.leg = leg]
           /\ SameJourney(plan.leg, leg)
  <2>1. /\ plan' = [leg |-> leg, minutes |-> plan.minutes, basis |-> plan.basis,
                    boarded |-> plan.boarded]
        /\ plan'.leg = leg /\ plan'.minutes = plan.minutes /\ plan'.basis = plan.basis
        /\ plan'.boarded = plan.boarded /\ plan.minutes \in Nat
    BY <1>7 DEF Planned
  <2>2. Planned'
    BY <1>1, <1>2, <2>1 DEF Planned, Identified, Trains
  <2>3. Steps[leg.step].journey = Steps[plan.leg.step].journey
    BY <1>7 DEF SameJourney
  <2>4. OwnTrainOnly'
    BY <1>7, <2>1, <2>3 DEF OwnTrainOnly, Trains
  <2>5. CarriesOver
    BY <1>7, <2>1 DEF CarriesOver
  <2> QED BY <2>2, <2>4, <2>5
<1> QED BY <1>1, <1>5, <1>6, <1>7

\* The invariant is inductive.
LEMMA StepInv == IInv /\ [Next]_vars => IInv'
<1> SUFFICES ASSUME IInv, [Next]_vars PROVE Planned' /\ OwnTrainOnly'
  BY HeldStep, ReadStep DEF IInv
<1>1. ASSUME NEW r \in Refreshers, Refreshing(r) PROVE Planned' /\ OwnTrainOnly'
  <2>1. UNCHANGED planning
    BY <1>1 DEF Refreshing, Acquire, Download, DownloadFails, Import, ImportFails, Dies, process,
       planning
  <2> QED BY <2>1, PlannedUnchanged
<1>2. CASE Running
  BY <1>2, PlannedStep, MeasureStep DEF Running
<1>3. ASSUME NEW f \in Feeds, Publish(f) PROVE Planned' /\ OwnTrainOnly'
  BY <1>3, PlannedUnchanged DEF Publish, process, planning
<1>4. CASE Tick \/ UNCHANGED vars
  BY <1>4, PlannedUnchanged DEF Tick, vars, process, planning
<1> QED BY <1>1, <1>2, <1>3, <1>4 DEF Next

-----------------------------------------------------------------------------
\* Types and bounds.

\* Feeds are counted once each: what makes the bound on their number inductive.
Counted ==
  /\ run = "fetch" => result.usable < next
  /\ cache # None => cache.result.usable \in 0..NFeeds

TypeInv == TypeOK /\ Counted

\* The types hold at the start.
LEMMA InitTypes == Init => TypeInv
<1> SUFFICES ASSUME Init PROVE TypeInv
  OBVIOUS
<1>1. file \in {None} \cup [zip : DOMAIN Zips, at : Times]
  BY PipelineConstants DEF Init, Times, Imported
<1>2. Idle \in [pc : {"out", "download", "import"}, kind : 1..2,
               zip : DOMAIN Zips \cup {None}, at : Times \cup {None}]
  BY DEF Idle
<1>3. next \in 1..(NFeeds + 1) /\ result.usable \in 0..NFeeds
  BY PipelineConstants DEF Init, NoResult
<1>4. /\ now = 0 /\ events = 0 /\ lock = None /\ run = "idle" /\ again = FALSE
      /\ cache = None /\ plan = None /\ jobs = [r \in Refreshers |-> Idle]
  BY DEF Init
<1>5. now \in Times /\ events \in 0..MaxEvents
  BY <1>4, PipelineConstants DEF Times
<1>6. jobs \in [Refreshers -> [pc : {"out", "download", "import"}, kind : 1..2,
                              zip : DOMAIN Zips \cup {None}, at : Times \cup {None}]]
  BY <1>2, <1>4
<1> QED BY <1>1, <1>3, <1>4, <1>5, <1>6 DEF TypeInv, TypeOK, Counted

\* A refreshing process keeps the types of the index, its lock and the processes.
LEMMA RefreshTypes ==
  ASSUME IInv, TypeInv, NEW r \in Refreshers, Refreshing(r)
  PROVE  TypeInv'
<1> USE PipelineConstants DEF TypeInv, TypeOK, Times
<1> DEFINE JobStates == [pc : {"out", "download", "import"}, kind : 1..2,
                         zip : DOMAIN Zips \cup {None}, at : Times \cup {None}]
<1>1. Idle \in JobStates /\ Trying(1) \in JobStates
  BY DEF Idle, Trying
<1>2. jobs[r] \in JobStates
  OBVIOUS
<1>3. /\ UNCHANGED <<now, run, again, next, result, cache, plan>>
      /\ events' \in 0..MaxEvents
  <2>1. events' = events \/ Occurs
    BY DEF Refreshing, Acquire, Download, DownloadFails, Import, ImportFails, Dies, world
  <2>2. events' \in 0..MaxEvents
    BY <2>1 DEF Occurs
  <2> QED BY <2>2 DEF Refreshing, Acquire, Download, DownloadFails, Import, ImportFails, Dies,
     process, fetch, stored
<1>4. Counted'
  BY <1>3 DEF Counted
<1>5. ASSUME TryNext(r), UNCHANGED file PROVE TypeInv'
  <2>1. CASE jobs[r].kind < Len(Kinds)
    <3>1. jobs[r].kind + 1 \in 1..2
      BY <1>2, <2>1 DEF Kinds
    <3>2. Trying(jobs[r].kind + 1) \in JobStates
      BY <3>1 DEF Trying
    <3> HIDE DEF JobStates
    <3>3. jobs' = [jobs EXCEPT ![r] = Trying(jobs[r].kind + 1)] /\ lock' = lock
      BY <1>5, <2>1 DEF TryNext
    <3>4. jobs' \in [Refreshers -> JobStates]
      BY <3>2, <3>3 DEF JobStates
    <3> QED BY <1>3, <1>4, <1>5, <3>3, <3>4 DEF JobStates
  <2>2. CASE ~(jobs[r].kind < Len(Kinds))
    <3>1. jobs' = [jobs EXCEPT ![r] = Idle] /\ lock' \in {lock, None}
      BY <1>5, <2>2 DEF TryNext, Release
    <3> QED BY <1>1, <1>3, <1>4, <1>5, <3>1
  <2> QED BY <2>1, <2>2
<1>6. CASE Acquire(r)
  BY <1>1, <1>3, <1>4, <1>6 DEF Acquire
<1>7. CASE Download(r)
  <2> DEFINE job(z) == [jobs[r] EXCEPT !.pc = "import", !.zip = z, !.at = now]
  <2>1. PICK z \in DOMAIN Zips : jobs' = [jobs EXCEPT ![r] = job(z)]
    BY <1>7 DEF Download
  <2>2. job(z) \in JobStates
    BY <1>2
  <2> HIDE DEF job
  <2> QED BY <1>3, <1>4, <1>7, <2>1, <2>2 DEF Download
<1>8. CASE DownloadFails(r) \/ ImportFails(r)
  BY <1>5, <1>8 DEF DownloadFails, ImportFails
<1>9. CASE Import(r)
  <2>1. jobs[r].zip \in DOMAIN Zips /\ jobs[r].at \in Times
    BY <1>2, <1>9 DEF Import, Job, IInv, Held
  <2> QED BY <1>1, <1>3, <1>4, <1>9, <2>1 DEF Import, Release, Imported
<1>10. CASE Dies(r)
  BY <1>1, <1>3, <1>4, <1>10 DEF Dies, Release
<1> QED BY <1>6, <1>7, <1>8, <1>9, <1>10 DEF Refreshing

\* A planning run keeps its own types, the counts of what it fetched among them.
LEMMA RunTypes ==
  ASSUME IInv, TypeInv, Running
  PROVE  TypeInv'
<1> USE PipelineConstants DEF TypeInv, TypeOK, Counted, Times
<1>1. Else
  BY DEF Running, Ends, PlanLive, Join, Verify, CacheRoute, PlanOffline, RefreshPlan, AskInVain,
     Apply, Ask, Receive, FeedFails, FetchStep, Fetched, Measure
<1>2. CASE Ends
  <2>1. /\ run' = "idle" /\ again' = FALSE /\ cache' = None /\ next' = 1
        /\ result'.usable = 0 /\ plan' = plan
    BY <1>2 DEF Ends, stored, NoResult
  <2>2. next' \in 1..(NFeeds + 1) /\ result'.usable \in 0..NFeeds
    BY <2>1
  <2> QED BY <1>1, <2>1, <2>2 DEF Else, world, refresh
<1>3. CASE (\E step \in DOMAIN Steps \ Estimates : PlanLive(step)) \/ Join \/ Verify \/ CacheRoute
           \/ PlanOffline \/ RefreshPlan
  BY <1>3, <1>1 DEF PlanLive, Join, Verify, CacheRoute, PlanOffline, RefreshPlan, At, Else,
     world, refresh, stored, fetch
<1>4. CASE Ask
  BY <1>4, <1>1 DEF Ask, CacheHit, Else, world, refresh, stored, NoResult
<1>5. CASE Receive
  <2> DEFINE one == IF UsableFeed(feeds[next], now) THEN 1 ELSE 0
  <2>1. next' = next + 1 /\ next \in 1..NFeeds /\ run = "fetch" /\ result.usable < next
    BY <1>5 DEF Receive, Fetching
  <2>2. result'.usable = result.usable + one /\ one \in 0..1
    BY <1>5 DEF Receive
  <2> HIDE DEF one
  <2>3. result'.usable \in 0..NFeeds /\ result'.usable < next' /\ next' \in 1..(NFeeds + 1)
    BY <2>1, <2>2
  <2> QED BY <1>1, <1>5, <2>3 DEF Receive, FetchStep, Else, world, refresh, stored
<1>6. CASE FeedFails
  BY <1>6, <1>1 DEF FeedFails, Fetching, FetchStep, Else, world, refresh, stored
<1>7. CASE Fetched
  BY <1>7, <1>1 DEF Fetched, At, Else, world, refresh, stored, fetch
<1>8. CASE AskInVain \/ Measure
  <2> DEFINE o == IF Measure /\ leg.id # None THEN Observation(leg.id, result, now) ELSE Unknown
  <2>1. o.minutes \in 0..MaxBuffer
    <3>1. CASE Measure /\ leg.id # None
      <4>1. leg.id.dep \in Int /\ result.predictions \subseteq Predictions /\ now \in Nat
        BY <3>1 DEF Measure, IInv, Planned, Identified, Read, Held
      <4> QED BY <3>1, <4>1, MinutesCapped
    <3>2. CASE ~(Measure /\ leg.id # None)
      BY <3>2 DEF Unknown
    <3> QED BY <3>1, <3>2
  <2>2. /\ run' = "idle" /\ again' = FALSE /\ cache' = cache
        /\ \/ plan' = plan \/ plan'.minutes = o.minutes
           \/ plan # None /\ plan'.minutes = plan.minutes
    <3>1. /\ run' = "idle" /\ again' = FALSE /\ cache' = cache
          /\ \/ plan' = plan \/ plan' = Made(o)
             \/ plan # None /\ plan' = [plan EXCEPT !.leg = leg]
      BY <1>8 DEF AskInVain, Measure, Apply, Retained
    <3>2. plan # None => [plan EXCEPT !.leg = leg].minutes = plan.minutes
      BY DEF IInv, Planned
    <3>3. Made(o).minutes = o.minutes
      BY DEF Made
    <3> QED BY <3>1, <3>2, <3>3
  <2>3. next' \in 1..(NFeeds + 1) /\ result'.usable \in 0..NFeeds
    BY <1>8 DEF AskInVain, Measure, fetch, NoResult
  <2> HIDE DEF o
  <2> QED BY <1>1, <2>1, <2>2, <2>3 DEF Else, world, refresh
<1> QED BY <1>2, <1>3, <1>4, <1>5, <1>6, <1>7, <1>8 DEF Running

\* The types and the counts are inductive, given the invariant.
LEMMA TypeStep == IInv /\ TypeInv /\ [Next]_vars => TypeInv'
<1> SUFFICES ASSUME IInv, TypeInv, [Next]_vars PROVE TypeInv'
  OBVIOUS
<1>1. ASSUME NEW f \in Feeds, Publish(f) PROVE TypeInv'
  BY <1>1, PipelineConstants DEF Publish, Occurs, refresh, process, fetch, stored, TypeInv,
     TypeOK, Counted, Times
<1>2. CASE Tick
  BY <1>2, PipelineConstants DEF Tick, world, refresh, process, fetch, stored, TypeInv, TypeOK,
     Counted, Times
<1>3. CASE UNCHANGED vars
  BY <1>3 DEF vars, world, refresh, process, fetch, stored, TypeInv, TypeOK, Counted, Times
<1> QED BY <1>1, <1>2, <1>3, RefreshTypes, RunTypes DEF Next

-----------------------------------------------------------------------------
\* The theorems.

\* The invariant holds in every reachable state.
THEOREM InvHolds == Spec => []IInv
  BY InitInv, StepInv, PTL DEF Spec

\* Every variable keeps its type: no more feeds are counted than there are, and no
\* plan is padded beyond the configured buffer.
THEOREM PipelineTypeOK == Spec => []TypeOK
<1>1. TypeInv => TypeOK
  BY DEF TypeInv
<1> QED BY <1>1, InvHolds, InitTypes, TypeStep, PTL DEF Spec

\* A plan is padded for its own train only, whatever is swapped in or reported.
THEOREM OwnTrainOnlyHolds == Spec => []OwnTrainOnly
<1>1. IInv => OwnTrainOnly
  BY DEF IInv
<1> QED BY <1>1, InvHolds, PTL

\* The file is replaced by the process that holds the lock, with what it read since.
THEOREM IndexMovesForwardHolds == Spec => IndexMovesForward
<1>1. IInv /\ [Next]_vars => [file # None => file'.at >= file.at]_file
  <2> SUFFICES ASSUME IInv, Next, file' # file, file # None PROVE file'.at >= file.at
    BY DEF vars, refresh
  <2>1. PICK r \in Refreshers : Import(r)
    BY DEF Next, Refreshing, Acquire, Download, DownloadFails, ImportFails, Dies, Running, Else,
       refresh, Ends, PlanLive, Join, Verify, CacheRoute, PlanOffline, RefreshPlan, AskInVain,
       Apply, Ask, Receive, FeedFails, FetchStep, Fetched, Measure, Publish, Tick
  <2>2. jobs[r].at \in Nat /\ file.at \in Nat /\ file.at <= jobs[r].at
    BY <2>1 DEF Import, Job, IInv, Held
  <2> QED BY <2>1, <2>2 DEF Import, Imported
<1> QED BY <1>1, InvHolds, PTL DEF Spec, IndexMovesForward

\* What a plan is padded by was fresh when it was measured.
THEOREM PaddingIsCurrentHolds == Spec => PaddingIsCurrent
<1> DEFINE Current ==
      plan' # None /\ plan'.minutes > 0 /\ ~CarriesOver =>
        LET lag   == Reports[plan'.basis.report].lag
            stamp == plan'.basis.header - (IF lag = None THEN 0 ELSE lag)
        IN now - stamp <= MaxAge /\ stamp - now <= MaxSkew
<1>1. IInv /\ [Next]_vars => [Current]_plan
  <2> SUFFICES ASSUME IInv, Next, plan' # plan, plan' # None, plan'.minutes > 0,
                      ~CarriesOver
        PROVE  Current
    BY DEF vars, stored
  <2>1. AskInVain \/ Measure
    BY DEF Next, Refreshing, Acquire, Download, DownloadFails, Import, ImportFails, Dies, Running,
       stored, Ends, PlanLive, Join, Verify, CacheRoute, PlanOffline, RefreshPlan, Ask, Receive,
       FeedFails, FetchStep, Fetched, Publish, Tick
  <2>2. /\ plan'.basis.report \in DOMAIN Reports /\ plan'.basis.header \in Nat
        /\ Fresh(plan'.basis.header, Reports[plan'.basis.report].lag, now)
    BY <2>1, MeasureStep
  <2>3. Reports[plan'.basis.report].lag \in Int \cup {None} /\ now \in Nat
    BY <2>2, PipelineConstants DEF IInv, Held
  <2> QED BY <2>2, <2>3, PipelineConstants DEF Fresh, Recent
<1> HIDE DEF Current
<1>2. Spec => [][Current]_plan
  BY <1>1, InvHolds, PTL DEF Spec
<1> QED BY <1>2 DEF PaddingIsCurrent, Current
=============================================================================
