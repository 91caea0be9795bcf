----------------------------- MODULE WakeChoice -----------------------------
(***************************************************************************)
(* Which instant to wake at (alarm.py).  Pure: from the configuration, the *)
(* clock, what the calendars of three logical days say, the manual intent  *)
(* and the last publication, ComputeWake returns the wake to publish.      *)
(*                                                                         *)
(* Time is an integer; logical days start at multiples of Day.  A          *)
(* configuration c has the fields window, lead, advance, wakeLead,         *)
(* fallback (wall clock) and startHour (wall clock of a day's start).      *)
(***************************************************************************)
EXTENDS Integers, Sequences

CONSTANTS
  Day,        \* length of a logical day
  SnoozeLen,  \* MANUAL_SNOOZE_SECONDS
  None,       \* Python's None
  Failed      \* a day whose calendar fetch or planning failed

Optional(S) == S \cup {None}

\* The leads are not negative, the two wall clocks within a day (config.py).
Configs == [window : BOOLEAN, lead : Nat, advance : Nat, wakeLead : Nat,
            fallback : 0..(Day - 1), startHour : 0..(Day - 1)]

\* Who prepares to leave does so before leaving, and leaves before it starts.
Plans == {p \in [start : Int, prep : Optional(Int), leave : Optional(Int), error : STRING] :
            /\ p.prep # None => p.prep <= p.start
            /\ p.leave # None => p.leave <= p.start}

\* A manual intent as it is loaded, its counted snoozes among counts.
Intended(counts) == [deadline : Int, force : BOOLEAN, snoozes : Optional(counts),
                     version : Nat]

\* What is published.
Results(counts) ==
  [wake : Int, day : Int, source : {"manual", "calendar", "fallback", "retained"},
   deadline : Optional(Int), origin : Optional({"manual", "calendar", "fallback"}),
   cap : Optional(Int), manualDeadline : Optional(Int), snoozes : Optional(counts),
   warning : {"none", "conflict", "degraded"}]

ASSUME ChoiceConstants ==
  /\ {Day, SnoozeLen} \subseteq Nat \ {0}
  /\ None \notin Int \cup Plans

DayStart(t) == t - (t % Day)

\* A plan for an event; error "ok" stands for none.
IsHealthy(p) == p.error = "ok"

MinOf(S) == CHOOSE x \in S : \A y \in S : x <= y

-----------------------------------------------------------------------------
\* First alarms and deadlines of one plan, of a day's fallback, of manual intent.

WindowStart(c, deadline) == deadline - c.lead

\* advance is c.advance for waking and 0 for the nap cap.
WindowDeadline(c, p, advance) ==
  IF c.window /\ IsHealthy(p) /\ p.leave # None THEN p.leave - advance ELSE None

FirstAlarm(c, p, advance) ==
  IF WindowDeadline(c, p, advance) # None
  THEN WindowStart(c, WindowDeadline(c, p, advance))
  ELSE IF p.prep = None THEN None ELSE p.prep - c.wakeLead

\* A fallback earlier than the day's first hour belongs to the next date.
FallbackForDay(c, day) ==
  LET candidate == day - c.startHour + c.fallback
  IN IF candidate < day THEN candidate + Day ELSE candidate

FallbackDeadline(c, day) ==
  IF c.window THEN FallbackForDay(c, day) - c.advance ELSE None

FallbackWake(c, day) ==
  IF c.window THEN WindowStart(c, FallbackDeadline(c, day)) ELSE FallbackForDay(c, day)

ManualFirstAlarm(c, manual) ==
  IF manual.snoozes = None THEN WindowStart(c, manual.deadline)
  ELSE manual.deadline - manual.snoozes * SnoozeLen

\* _earliest_alarm_plan: the unadvanced alarm that caps naps.
NapCap(c, plans, now) ==
  LET caps == {FirstAlarm(c, p, 0) : p \in
                {q \in plans : IsHealthy(q) /\ q.prep # None /\ q.prep > now}}
  IN IF caps = {} THEN None ELSE MinOf(caps)

-----------------------------------------------------------------------------
\* wake_for_day: one day's first wake, or the report that a plan is unusable.

\* A departure already past still tells when the day's first wake was.
TooImminent(p, now) ==
  /\ p.error = "too_imminent" /\ p.prep # None /\ p.leave # None
  /\ p.prep <= p.leave /\ p.leave <= now /\ p.leave <= p.start

Unusable(p, now) ==
  /\ ~IsHealthy(p) \/ p.prep = None
  /\ ~TooImminent(p, now)
  /\ p.start > now

Candidate(c, p, now) ==
  IF IsHealthy(p) /\ FirstAlarm(c, p, c.advance) # None THEN FirstAlarm(c, p, c.advance)
  ELSE (IF TooImminent(p, now) THEN p.prep ELSE p.start) - c.wakeLead

\* Final deadlines are compared where both have one, first alarms otherwise.
Precedes(candidate, deadline, best) ==
  IF deadline # None /\ best.deadline # None THEN deadline < best.deadline
  ELSE candidate < best.wake

\* A plan takes the place of the best one before it, plans of other days aside.
Better(c, day, best, p, now) ==
  IF /\ DayStart(p.start) = day
     /\ Precedes(Candidate(c, p, now), WindowDeadline(c, p, c.advance), best)
  THEN [wake |-> Candidate(c, p, now), plan |-> p,
        deadline |-> WindowDeadline(c, p, c.advance)]
  ELSE best

NoneBetter(c, day) ==
  [wake |-> FallbackWake(c, day), plan |-> None, deadline |-> FallbackDeadline(c, day)]

WakeForDay(c, day, plans, now) ==
  LET best[i \in 0..Len(plans)] ==
        IF i = 0 THEN NoneBetter(c, day) ELSE Better(c, day, best[i - 1], plans[i], now)
  IN best[Len(plans)]

-----------------------------------------------------------------------------
\* _compute_wake: a day's selection, and the first of three days still usable.

Days3(now) == {DayStart(now), DayStart(now) + Day, DayStart(now) + 2 * Day}

Readable(cal, day) == cal[day] = Failed \/ cal[day] \in Seq(Plans)

Listed(cal, day) == IF cal[day] = Failed THEN <<>> ELSE cal[day]

Fetched(cal, day) ==
  {p \in {Listed(cal, day)[i] : i \in 1..Len(Listed(cal, day))} : DayStart(p.start) = day}

DayDegraded(cal, day, now) ==
  cal[day] = Failed \/ \E p \in Fetched(cal, day) : Unusable(p, now)

Live(manual, now) == manual # None /\ manual.deadline > now

\* The manual intent competes on its own logical day only.
Competes(manual, day, now) == Live(manual, now) /\ DayStart(manual.deadline) = day

\* Departures still ahead; prep-only alarms do not compete with manual intent.
Departures(c, plans, now) ==
  {p \in plans : /\ WindowDeadline(c, p, c.advance) # None
                 /\ WindowDeadline(c, p, c.advance) > now}

EarlierDepartures(c, plans, manual, now) ==
  {p \in Departures(c, plans, now) :
     WindowDeadline(c, p, c.advance) < manual.deadline}

Conflict(c, cal, day, manual, now) ==
  Competes(manual, day, now) /\ EarlierDepartures(c, Fetched(cal, day), manual, now) # {}

EarliestDeparture(c, departures) ==
  CHOOSE p \in departures : \A q \in departures :
    WindowDeadline(c, p, c.advance) <= WindowDeadline(c, q, c.advance)

Usual(c, cal, day, now) ==
  LET first == WakeForDay(c, day, Listed(cal, day), now)
  IN IF \E p \in Fetched(cal, day) : Unusable(p, now)
     THEN [wake |-> FallbackWake(c, day), plan |-> None]
     ELSE [wake |-> first.wake, plan |-> first.plan]

FromDeparture(c, p) == [wake |-> FirstAlarm(c, p, c.advance), plan |-> p]

Select(c, cal, day, manual, now) ==
  CASE ~Competes(manual, day, now) -> Usual(c, cal, day, now)
    [] Conflict(c, cal, day, manual, now) /\ ~manual.force ->
         FromDeparture(c, EarliestDeparture(c,
           EarlierDepartures(c, Fetched(cal, day), manual, now)))
    [] OTHER -> [wake |-> ManualFirstAlarm(c, manual), plan |-> None]

\* Variant: an intent whose first alarm has passed is passed over.
UsableByWake(wake, day, manual, now) == wake > now

Usable(wake, day, manual, now) == wake > now \/ Competes(manual, day, now)

DayUsable(c, cal, day, manual, now) ==
  Usable(Select(c, cal, day, manual, now).wake, day, manual, now)

\* today, else tomorrow, else the third logical day
ChosenDay(c, cal, manual, now) ==
  LET today == DayStart(now)
  IN IF DayUsable(c, cal, today, manual, now) THEN today
     ELSE IF DayUsable(c, cal, today + Day, manual, now) THEN today + Day
     ELSE today + 2 * Day

FetchedDays(day, now) == {DayStart(now), DayStart(now) + Day, day}

AllPlans(cal, day, now) == UNION {Fetched(cal, d) : d \in FetchedDays(day, now)}

Warning(c, cal, day, manual, now) ==
  IF \E d \in FetchedDays(day, now) : DayDegraded(cal, d, now) THEN "degraded"
  ELSE IF Conflict(c, cal, day, manual, now) THEN "conflict" ELSE "none"

\* The published result for a day and what was selected there.
ResultFor(c, day, chosen, bound, warning, cap) ==
  LET manual  == bound # None /\ chosen.plan = None
      planned == /\ chosen.plan # None
                 /\ FirstAlarm(c, chosen.plan, c.advance) = chosen.wake
      deadline == CASE manual  -> bound.deadline
                    [] planned -> WindowDeadline(c, chosen.plan, c.advance)
                    [] ~manual /\ chosen.plan = None -> FallbackDeadline(c, day)
                    [] OTHER   -> None
      source == CASE manual             -> "manual"
                  [] chosen.plan # None -> "calendar"
                  [] OTHER              -> "fallback"
  IN [wake |-> chosen.wake, day |-> day, source |-> source, deadline |-> deadline,
      origin |-> IF deadline = None THEN None ELSE source, cap |-> cap,
      manualDeadline |-> IF bound = None THEN None ELSE bound.deadline,
      snoozes |-> IF manual THEN bound.snoozes ELSE None, warning |-> warning]

\* None: the computation raised an AlarmError.
Computed(c, cal, manual, now, day) ==
  LET bound == IF Competes(manual, day, now) THEN manual ELSE None
      warning == Warning(c, cal, day, manual, now)
  IN IF ~DayUsable(c, cal, day, manual, now) \/ (warning # "none" /\ bound = None)
     THEN None
     ELSE ResultFor(c, day, Select(c, cal, day, manual, now), bound,
                    warning, NapCap(c, AllPlans(cal, day, now), now))

-----------------------------------------------------------------------------
\* compute_wake: the computation, or what is safe when it is degraded or fails.

\* _stored_result: what a confirmed publication leaves for later runs.
Stored(r) ==
  [r EXCEPT !.warning = "none",
            !.origin = IF @ # None THEN @ ELSE IF r.source = "retained" THEN None ELSE r.source]

PublishedLead(c, last) ==
  IF last.snoozes # None THEN last.snoozes * SnoozeLen ELSE c.lead

\* Variant: only the counted snoozes of the intent are compared.
RetainableByCount(c, last, manual, now) ==
  /\ last # None
  /\ last.origin = "manual" /\ manual # None => manual.snoozes = last.snoozes
  /\ last.snoozes # None => manual # None /\ manual.snoozes = last.snoozes
  /\ last.wake > now \/ (last.snoozes # None /\ last.manualDeadline > now)
  /\ last.deadline # None => last.deadline - last.wake = PublishedLead(c, last)

\* _retained: whether the last publication may stand in for a computation.
Retainable(c, last, manual, now) ==
  /\ last # None
  /\ last.origin = "manual" /\ manual # None => manual.snoozes = last.snoozes
  /\ last.snoozes # None =>
       /\ manual # None /\ manual.snoozes = last.snoozes /\ last.origin = "manual"
       /\ last.manualDeadline = manual.deadline
  /\ last.wake > now \/ (last.snoozes # None /\ last.manualDeadline > now)
  /\ last.source = "manual" => last.manualDeadline # None
  /\ last.manualDeadline # None =>
       manual # None /\ last.manualDeadline = manual.deadline /\ last.manualDeadline > now
  /\ last.deadline # None => last.deadline - last.wake = PublishedLead(c, last)
  /\ last.snoozes # None => last.deadline = last.manualDeadline

\* prefer_retained: on its own day, manual intent yields only to an earlier
\* calendar deadline, and to none when forced.
Outweighed(last, manual, now) ==
  /\ Live(manual, now)
  /\ \/ last.day > DayStart(manual.deadline)
     \/ /\ last.day = DayStart(manual.deadline)
        /\ \/ manual.force \/ last.origin # "calendar"
           \/ last.deadline = None \/ last.deadline >= manual.deadline

MayRetain(c, last, manual, now) ==
  Retainable(c, last, manual, now) /\ ~Outweighed(last, manual, now)

RetainedResult(last, manual, now) ==
  [last EXCEPT !.source = "retained", !.warning = "degraded",
               !.manualDeadline = IF Competes(manual, last.day, now)
                                  THEN manual.deadline ELSE @]

ManualFallback(c, manual) ==
  [wake |-> ManualFirstAlarm(c, manual), day |-> DayStart(manual.deadline),
   source |-> "manual", deadline |-> manual.deadline, origin |-> "manual", cap |-> None,
   manualDeadline |-> manual.deadline, snoozes |-> manual.snoozes, warning |-> "degraded"]

TomorrowFallback(c, day) ==
  [wake |-> FallbackWake(c, day), day |-> day, source |-> "fallback",
   deadline |-> FallbackDeadline(c, day),
   origin |-> IF c.window THEN "fallback" ELSE None, cap |-> None,
   manualDeadline |-> None, snoozes |-> None, warning |-> "degraded"]

WithoutComputation(c, last, manual, now) ==
  LET tomorrow == DayStart(now) + Day
  IN IF MayRetain(c, last, manual, now) THEN RetainedResult(last, manual, now)
     ELSE IF Live(manual, now) /\ DayStart(manual.deadline) <= tomorrow
     THEN ManualFallback(c, manual)
     ELSE TomorrowFallback(c, tomorrow)

SafeResult(c, result, last, manual, now) ==
  IF result = None THEN WithoutComputation(c, last, manual, now)
  ELSE IF result.warning = "degraded" /\ MayRetain(c, last, manual, now)
       THEN RetainedResult(last, manual, now)
       ELSE result

ComputeWake(c, cal, last, manual, now) ==
  SafeResult(c, Computed(c, cal, manual, now, ChosenDay(c, cal, manual, now)),
             last, manual, now)
=============================================================================
