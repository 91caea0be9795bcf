---------------------------- MODULE DelayPipeline ----------------------------
(***************************************************************************)
(* From timetable and feeds to the padding of a plan: gtfs-refresh imports *)
(* the static timetable under its job lock and swaps the index file while  *)
(* a run (morning or poll) plans a journey, joins it with the index,       *)
(* caches its route, reads the feeds through the cache of its process and  *)
(* measures the delay of the train it boards.  Any process may die at any  *)
(* point; servers and producers change what they hold meanwhile.           *)
(*                                                                         *)
(* A step of Directions has, besides what StaticIndex says, a journey: all *)
(* that _same_journey compares but the times (the destination, the         *)
(* durations, and the lines and stops of every leg).                       *)
(***************************************************************************)
EXTENDS Integers, Sequences, FiniteSets

CONSTANTS
  None, Zips, Lines, DayLength, MaxIndexAge, IndexSkew, Window,
  MaxAge, MaxSkew, Minute, MinDelay, MaxBuffer,
  FeedTTL,      \* _FEED_TTL_SECONDS
  NFeeds,       \* configured feeds of the subway, fetched in this order
  Installed,    \* the zip in the index at the start, or None
  Refreshers,   \* gtfs-refresh processes
  Steps,        \* what Directions may answer, and estimates, by name
  Estimates,    \* the names of the estimates
  Reports,      \* what producers may publish of a train, by name
  Datasets,     \* what a producer may publish at a time: records of full, reports
  MaxTime, MaxEvents  \* bounds on the clock, and on refreshes and publications

INSTANCE StaticIndex
INSTANCE RealtimeDelay

\* Instants are integers, and files hold finitely many trips and days.
ASSUME PipelineConstants ==
  /\ {DayLength, Minute} \subseteq Nat \ {0}
  /\ {Window, MaxBuffer, MaxTime, MaxEvents, NFeeds} \subseteq Nat
  /\ {MaxAge, MaxSkew, MinDelay} \subseteq Int
  /\ None \notin Int /\ None \notin Refreshers
  /\ Installed \in DOMAIN Zips \cup {None}
  /\ \A z \in DOMAIN Zips :
       /\ IsFiniteSet(Zips[z].trips) /\ IsFiniteSet(ServiceDays(Zips[z]))
       /\ \A s \in Zips[z].trips : s.offset \in Int /\ s.days \subseteq Int
  /\ \A n \in DOMAIN Steps : Steps[n].dep \in Int
  /\ Estimates \subseteq DOMAIN Steps
  /\ \A r \in DOMAIN Reports :
       {Reports[r].dep, Reports[r].delay, Reports[r].lag} \subseteq Int \cup {None}
  /\ Datasets \subseteq [full : BOOLEAN, reports : SUBSET DOMAIN Reports]

Feeds == 1..NFeeds
Kinds == <<"supplemented", "regular">>   \* FEED_URLS, tried in this order

NoFeed == [header |-> None, full |-> TRUE, reports |-> {}]
NoResult == [usable |-> 0, predictions |-> {}]

VARIABLES
  now,
  file, lock, jobs,   \* gtfs.db, its job lock, and the refreshing processes
  feeds,              \* what each producer serves
  run, handle, leg, board,   \* the planning process: next step, open index, leg, candidate
  again,              \* it refreshes a stored plan
  result, next,       \* _fetch_predictions
  cache,              \* _feed_cache of the process
  routes, plan,       \* the stored route, the stored plan
  events

refresh == <<file, lock, jobs>>
fetch   == <<result, next>>
process == <<run, handle, leg, board, again, fetch, cache>>
stored  == <<routes, plan>>
world   == <<feeds, events>>
vars    == <<now, world, refresh, process, stored>>

Idle == [pc |-> "out", kind |-> 1, zip |-> None, at |-> None]
Trying(kind) == [pc |-> "download", kind |-> kind, zip |-> None, at |-> None]

Init ==
  /\ now = 0
  /\ feeds = [f \in Feeds |-> NoFeed]
  /\ file = IF Installed = None THEN None ELSE Imported(Installed, 0)
  /\ lock = None /\ jobs = [r \in Refreshers |-> Idle]
  /\ run = "idle" /\ handle = None /\ leg = None /\ board = None /\ again = FALSE
  /\ result = NoResult /\ next = 1 /\ cache = None
  /\ routes = None /\ plan = None /\ events = 0

-----------------------------------------------------------------------------
\* gtfs-refresh (cli.py, joblock.py, gtfs_index.refresh).

Occurs == events < MaxEvents /\ events' = events + 1

Job(r, from) == jobs[r].pc = from

\* Variant: the lock file is opened, not locked.
LockIgnored == TRUE

LockFree == lock = None

\* JobLock.acquire: not blocking; a run that finds it held exits.
Acquire(r) ==
  /\ Job(r, "out") /\ LockFree
  /\ lock' = r /\ jobs' = [jobs EXCEPT ![r] = Trying(1)]
  /\ Occurs /\ UNCHANGED <<now, feeds, file, process, stored>>

Release(r) == lock' = IF lock = r THEN None ELSE lock

\* The next feed, or the end of the run.
TryNext(r) ==
  IF jobs[r].kind < Len(Kinds)
  THEN jobs' = [jobs EXCEPT ![r] = Trying(jobs[r].kind + 1)] /\ UNCHANGED lock
  ELSE jobs' = [jobs EXCEPT ![r] = Idle] /\ Release(r)

\* The server may hold any zip, and another one next time.  The import begins at once.
Download(r) ==
  /\ Job(r, "download")
  /\ \E z \in DOMAIN Zips :
       jobs' = [jobs EXCEPT ![r] = [@ EXCEPT !.pc = "import", !.zip = z, !.at = now]]
  /\ UNCHANGED <<now, world, file, lock, process, stored>>

DownloadFails(r) ==
  /\ Job(r, "download") /\ TryNext(r)
  /\ UNCHANGED <<now, world, file, process, stored>>

\* The end of import_feed.  The rows went to a temporary file, dated when it began;
\* until that replaces the index nothing of it is seen.
Import(r) ==
  /\ Job(r, "import") /\ Importable(Zips[jobs[r].zip])
  /\ file' = Imported(jobs[r].zip, jobs[r].at)
  /\ jobs' = [jobs EXCEPT ![r] = Idle] /\ Release(r)
  /\ UNCHANGED <<now, world, process, stored>>

ImportFails(r) ==
  /\ Job(r, "import") /\ ~Importable(Zips[jobs[r].zip]) /\ TryNext(r)
  /\ UNCHANGED <<now, world, file, process, stored>>

\* Killed: the kernel drops the lock, a temporary file stays behind unused.
Dies(r) ==
  /\ jobs[r].pc # "out"
  /\ jobs' = [jobs EXCEPT ![r] = Idle] /\ Release(r)
  /\ UNCHANGED <<now, world, file, process, stored>>

-----------------------------------------------------------------------------
\* The planning run.

At(from, to) == run = from /\ run' = to
Else == UNCHANGED <<now, world, refresh>>

\* A run that ends or is killed takes its cache with it, and another one starts.
Ends ==
  /\ run # "idle" \/ cache # None
  /\ run' = "idle"
  /\ handle' = None /\ leg' = None /\ board' = None /\ again' = FALSE /\ cache' = None
  /\ result' = NoResult /\ next' = 1
  /\ Else /\ UNCHANGED stored

Leg(step, id, approximate) == [step |-> step, id |-> id, approximate |-> approximate]

\* plan_event with a live route; _attach_bridge_identity opens the index.
PlanLive(step) ==
  /\ At("idle", IF Usable(file, now) THEN "join" ELSE "route")
  /\ leg' = Leg(step, None, FALSE)
  /\ handle' = IF Usable(file, now) THEN file ELSE None
  /\ Else /\ UNCHANGED <<board, again, fetch, cache, stored>>

\* Variant: every query opens the file anew.
RowsByPath(h) == Zips[file.zip]

\* The connection keeps the file it opened.
Rows(h) == Zips[h.zip]

\* validate_leg up to the candidates; without exactly one there is no identity.
Join ==
  /\ run = "join"
  /\ LET step == Steps[leg.step]
         near == DeparturesNear(Rows(handle), step.line, step.dep)
     IN IF OnlyBoarding(step, near)
        THEN run' = "verify" /\ board' = (CHOOSE b \in near : TRUE) /\ UNCHANGED handle
        ELSE run' = "route" /\ handle' = None /\ UNCHANGED board
  /\ Else /\ UNCHANGED <<leg, again, fetch, cache, stored>>

Verify ==
  /\ At("verify", "route")
  /\ leg' = IF Confirmed(Steps[leg.step], Rows(handle), board[1], board[2])
            THEN [leg EXCEPT !.id = IdentityOf(board[1], board[2], handle.zip)] ELSE leg
  /\ handle' = None /\ board' = None
  /\ Else /\ UNCHANGED <<again, fetch, cache, stored>>

\* The live route is cached as it is, identity included.
CacheRoute ==
  /\ At("route", "ask") /\ routes' = leg
  /\ Else /\ UNCHANGED <<handle, leg, board, again, fetch, cache, plan>>

\* Without Directions: the cached route stripped of identity, or an estimate, when
\* nothing is cached for the place the user is at.
Stripped(l) == Leg(l.step, None, TRUE)

PlanOffline ==
  /\ At("idle", "ask")
  /\ \/ routes # None /\ leg' = Stripped(routes)
     \/ \E step \in Estimates : leg' = Leg(step, None, TRUE)
  /\ Else /\ UNCHANGED <<handle, board, again, fetch, cache, stored>>

\* poll refreshes a stored plan from its own route.
RefreshPlan ==
  /\ At("idle", "ask") /\ plan # None /\ leg' = plan.leg /\ again' = TRUE
  /\ Else /\ UNCHANGED <<handle, board, fetch, cache, stored>>

\* _same_journey.  Times count only when both routes have them from a timetable:
\* a cached or estimated route has none, nor has a step without a schedule.
Explicit(l) == ~l.approximate /\ Steps[l.step].trusted

SameJourney(old, new) ==
  LET a == Steps[old.step]
      b == Steps[new.step]
  IN /\ a.journey = b.journey
     /\ Explicit(old) /\ Explicit(new) =>
          /\ a.dep = b.dep
          /\ a.arrival = b.arrival \/ None \in {a.arrival, b.arrival}

\* plan_event: the padding is what was observed for the leg of the plan.  boarded,
\* the leg it was observed for, is history: the code keeps a text of the reason.
Made(o) == [leg |-> leg, minutes |-> o.minutes, basis |-> o.basis, boarded |-> leg]

\* _retain_replan_safety: on the same journey the larger padding is kept, with its
\* reason, even if the new leg has no identity or another one.
Retained(o) ==
  IF SameJourney(plan.leg, leg) /\ plan.minutes > o.minutes
  THEN [plan EXCEPT !.leg = leg] ELSE Made(o)

\* The padding of a plan refreshed only grows.  morning and the plan command save the
\* new plan as it is.  poll's replan, for an alert or the location, saves it with
\* what it retains, or drops it: insignificant, or the stored plan changed.  The
\* stored plan does not change during a run, so which of them it was may be left open.
Apply(o) ==
  /\ run' = "idle" /\ leg' = None /\ again' = FALSE
  /\ IF again THEN plan' = IF o.minutes > plan.minutes THEN Made(o) ELSE plan
     ELSE plan' \in {Made(o)} \cup (IF plan = None THEN {} ELSE {plan, Retained(o)})
  /\ Else /\ UNCHANGED <<handle, board, routes>>

\* realtime_delay: a leg that cannot match ends the question before the feeds are read.
AskInVain ==
  /\ run = "ask" /\ (leg.approximate \/ ~Steps[leg.step].trusted)
  /\ Apply(Unknown) /\ UNCHANGED <<fetch, cache>>

CacheHit == cache # None /\ now - cache.at < FeedTTL

Ask ==
  /\ run = "ask" /\ ~leg.approximate /\ Steps[leg.step].trusted
  /\ IF CacheHit
     THEN run' = "measure" /\ result' = cache.result /\ UNCHANGED next
     ELSE run' = "fetch" /\ result' = NoResult /\ next' = 1
  /\ Else /\ UNCHANGED <<handle, leg, board, again, cache, stored>>

FetchStep == Else /\ UNCHANGED <<run, handle, leg, board, again, cache, stored>>

Fetching == run = "fetch" /\ next <= NFeeds

Receive ==
  /\ Fetching /\ next' = next + 1
  /\ result' = [usable |-> result.usable + (IF UsableFeed(feeds[next], now) THEN 1 ELSE 0),
                predictions |-> result.predictions \cup Parsed(next, feeds[next], now)]
  /\ FetchStep

\* Of a feed that fails, its second attempt included, that does not parse to its end,
\* or whose turn comes after the budget, nothing is left.
FeedFails ==
  /\ Fetching /\ next' = next + 1 /\ UNCHANGED result
  /\ FetchStep

Fetched ==
  /\ At("fetch", "measure") /\ next > NFeeds
  /\ cache' = [at |-> now, result |-> result]
  /\ Else /\ UNCHANGED <<handle, leg, board, again, fetch, stored>>

Measure ==
  /\ run = "measure"
  /\ Apply(IF leg.id = None THEN Unknown ELSE Observation(leg.id, result, now))
  /\ result' = NoResult /\ next' = 1 /\ UNCHANGED cache

-----------------------------------------------------------------------------
\* The world outside.

\* A producer that does not say when it made a feed is like one that says nothing.
Publish(f) ==
  /\ Occurs
  /\ \E d \in Datasets :
       feeds' = [feeds EXCEPT ![f] = [header |-> now, full |-> d.full, reports |-> d.reports]]
  /\ UNCHANGED <<now, refresh, process, stored>>

\* The five seconds that feeds are read for are far shorter than a unit of the clock.
Tick ==
  /\ now < MaxTime /\ now' = now + 1 /\ run # "fetch"
  /\ UNCHANGED <<world, refresh, process, stored>>

Refreshing(r) ==
  Acquire(r) \/ Download(r) \/ DownloadFails(r) \/ Import(r) \/ ImportFails(r)
  \/ Dies(r)

Running ==
  \/ Ends \/ (\E step \in DOMAIN Steps \ Estimates : PlanLive(step)) \/ Join \/ Verify \/ CacheRoute
  \/ PlanOffline \/ RefreshPlan \/ AskInVain \/ Ask \/ Receive \/ FeedFails
  \/ Fetched \/ Measure

Next ==
  \/ \E r \in Refreshers : Refreshing(r)
  \/ Running
  \/ \E f \in Feeds : Publish(f)
  \/ Tick

Spec == Init /\ [][Next]_vars

-----------------------------------------------------------------------------
Times == 0..MaxTime

TypeOK ==
  /\ now \in Times /\ events \in 0..MaxEvents
  /\ file \in {None} \cup [zip : DOMAIN Zips, at : Times]
  /\ lock \in Refreshers \cup {None}
  /\ jobs \in [Refreshers -> [pc : {"out", "download", "import"}, kind : 1..2,
                             zip : DOMAIN Zips \cup {None}, at : Times \cup {None}]]
  /\ run \in {"idle", "join", "verify", "route", "ask", "fetch", "measure"}
  /\ again \in BOOLEAN /\ next \in 1..(NFeeds + 1)
  /\ result.usable \in 0..NFeeds
  /\ plan # None => plan.minutes \in 0..MaxBuffer

\* The index never goes back to an older import: refreshing runs exclude one
\* another, so that the one replacing the file is the last to have read a server,
\* and a run that fails or dies leaves the file as it was (gtfs_index.refresh).
IndexMovesForward ==
  [][file # None => file'.at >= file.at]_file

\* The trains that depart when and where the step says, by one timetable.
Trains(step, zip) ==
  {<<b[1].rt, b[2]>> : b \in
     {b \in zip.trips \X ServiceDays(zip) :
        /\ b[1].line = step.line /\ b[1].platform # None /\ b[2] \in b[1].days
        /\ ServiceInstant(b[2], b[1].offset) - step.dep \in (-Window)..Window}}

\* A delay is that many minutes, to the nearest.
LateBy(d, minutes) == 2 * (Minute * minutes) <= 2 * d + Minute

\* A plan is padded only for its own train: by the one timetable that its
\* provenance names no other train departs then, whatever was swapped in
\* meanwhile, and the report the padding rests on is of that train on that day,
\* running, tracked, from the platform it departs from (validate_leg, _compute).
\* That is the train of the leg it was observed for.  A replan of poll may put
\* another leg in its place, without identity even, but through any number of
\* replans one of the same lines, stops and durations (_retain_replan_safety).
OwnTrainOnly ==
  plan # None /\ plan.minutes > 0 =>
    LET own == plan.boarded
        id  == own.id
        r   == Reports[plan.basis.report]
    IN /\ Steps[plan.leg.step].journey = Steps[own.step].journey
       /\ Trains(Steps[own.step], Zips[id.zip]) = {<<r.rt, r.date>>}
       /\ r.trip = "scheduled" /\ r.stop = "scheduled" /\ r.platform = r.rt.dir
       /\ r.nyct = None \/ r.nyct.assigned
       /\ r.dep # None /\ LateBy(r.dep - id.dep, plan.minutes)

\* The plan changed, but not its padding: it is carried over to the same journey.
CarriesOver ==
  /\ plan # None /\ plan' = [plan EXCEPT !.leg = plan'.leg]
  /\ SameJourney(plan.leg, plan'.leg)

\* No padding is stored that rests on an old observation, though the observation may
\* have waited in the cache of the process or on the way (_fresh, _cached_fetch);
\* but a replan of the same journey keeps padding already stored, however old.
PaddingIsCurrent ==
  [][plan' # None /\ plan'.minutes > 0 /\ ~CarriesOver =>
       LET lag   == Reports[plan'.basis.report].lag
           stamp == plan'.basis.header - (IF lag = None THEN 0 ELSE lag)
       IN now - stamp <= MaxAge /\ stamp - now <= MaxSkew]_plan
=============================================================================
