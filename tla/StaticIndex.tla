----------------------------- MODULE StaticIndex -----------------------------
(***************************************************************************)
(* The static timetable: what gtfs_index.py imports from a zip, what its   *)
(* queries return, and the join of a Directions step with it               *)
(* (gtfs_bridge.py).  Pure.                                                *)
(*                                                                         *)
(* A zip has the fields readable, fits (the allowlist agrees with its      *)
(* stops) and trips.  A trip has rt (the realtime id: a record of name,    *)
(* dir, the direction its text shows, and strict, whether the text is of   *)
(* NYCT shape), line, dir (direction_id), shape, days of service, regular  *)
(* (no repeated stop, no malformed time) and, at the station that the      *)
(* allowlist knows, platform (None elsewhere), offset, seq and arrival at  *)
(* the alighting stop.  Offsets count from the start of the service day    *)
(* and may exceed its length.                                              *)
(***************************************************************************)
EXTENDS Integers, FiniteSets

CONSTANTS
  None,         \* Python's None
  Zips,         \* zip contents by name
  Lines,        \* routes the allowlist admits at the station
  DayLength,    \* of a service day
  MaxIndexAge,  \* MAX_INDEX_AGE
  IndexSkew,    \* _FUTURE_SKEW
  Window        \* the 30 s of the bridge

ServiceInstant(day, offset) == day * DayLength + offset
DayOf(t) == t \div DayLength

-----------------------------------------------------------------------------
\* gtfs_index.py

ServiceDays(zip) == UNION {s.days : s \in zip.trips}
Covers(zip, day) == \E a, b \in ServiceDays(zip) : a <= day /\ day <= b
Active(zip, s, day) == Covers(zip, day) /\ day \in s.days

\* The trips with a row of their own in the index.
Matched(zip) == {s \in zip.trips : s.line \in Lines /\ s.platform # None}

\* One irregular trip refuses the zip: left out, it could make another look unique.
Importable(zip) ==
  /\ zip.readable /\ zip.fits /\ ServiceDays(zip) # {}
  /\ Matched(zip) # {} /\ \A s \in Matched(zip) : s.regular

\* What gtfs.db holds: an import at an instant, of one zip as a whole.
Imported(name, t) == [zip |-> name, at |-> t]

Usable(index, t) ==
  /\ index # None
  /\ t - index.at <= MaxIndexAge /\ index.at - t <= IndexSkew
  /\ Covers(Zips[index.zip], DayOf(t))

DeparturesNear(zip, line, t) ==
  {b \in Matched(zip) \X ServiceDays(zip) :
     LET s == b[1]
         off == ServiceInstant(b[2], s.offset) - t
     IN s.line = line /\ Active(zip, s, b[2]) /\ off <= Window /\ -off <= Window}

RtTripIdUnique(zip, rt, day) ==
  Cardinality({s \in zip.trips : s.rt = rt /\ Active(zip, s, day)}) = 1

-----------------------------------------------------------------------------
\* gtfs_bridge.py: a step of Directions has dep, arrival (None without a number of
\* stops), line, trusted (an explicit schedule), subway (vehicle and agency), station
\* (name and coordinates are those of exactly one allowlisted station).

Admitted(step) == step.trusted /\ step.subway /\ step.line \in Lines /\ step.station

DirectionsAgree(s) ==
  s.dir # None /\ s.platform = s.dir /\ s.rt.dir = s.dir /\ s.shape = s.dir

\* Variant: of several departures in the window one is taken.
AnyBoarding(step, near) == near # {}

OnlyBoarding(step, near) == Admitted(step) /\ Cardinality(near) = 1

\* The checks on the one trip that departs then.
Confirmed(step, zip, s, day) ==
  /\ DirectionsAgree(s) /\ RtTripIdUnique(zip, s.rt, day) /\ s.regular
  /\ step.arrival \in {None, ServiceInstant(day, s.arrival)}

\* The identity the leg gets, with the provenance of the index it was checked in.
IdentityOf(s, day, source) ==
  [rt |-> s.rt, line |-> s.line, date |-> day, dir |-> s.dir, platform |-> s.platform,
   seq |-> s.seq, dep |-> ServiceInstant(day, s.offset), zip |-> source]
=============================================================================
