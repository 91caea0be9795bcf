---------------------------- MODULE RealtimeDelay ----------------------------
(***************************************************************************)
(* realtime.py: from the predictions of a set of feeds, the delay of the   *)
(* one train a leg boards.  Pure.                                          *)
(*                                                                         *)
(* A report of a producer has rt, line, date, dirId, platform (None on a   *)
(* trip-level cancellation), seq, dep, delay, each None when absent; trip  *)
(* and stop, the schedule relationships; nyct, the extension of a subway   *)
(* trip: None or a record of assigned, dir and malformed; and lag, how     *)
(* much older than the feed's header its own timestamp is, or None.        *)
(* Parsed, it also has header, and fresh as it was at that time.           *)
(***************************************************************************)
EXTENDS Integers, FiniteSets

CONSTANTS
  None,
  Reports,    \* what producers may report, by name
  MaxAge,     \* _MAX_OBSERVATION_AGE_SECONDS
  MaxSkew,    \* _MAX_FUTURE_SKEW_SECONDS
  Minute,     \* 60 seconds
  MinDelay,   \* min_delay_minutes
  MaxBuffer   \* max_buffer_minutes

Recent(stamp, t) == t - stamp <= MaxAge /\ stamp - t <= MaxSkew

Fresh(header, lag, t) ==
  header # None /\ Recent(header, t) /\ (lag # None => Recent(header - lag, t))

\* _accumulate: what becomes of a feed read at t; full datasets only.
Parsed(f, feed, t) ==
  {[feed |-> f, header |-> feed.header, report |-> r,
    fresh |-> feed.full /\ Fresh(feed.header, Reports[r].lag, t)] : r \in feed.reports}

UsableFeed(feed, t) == feed.full /\ Fresh(feed.header, None, t)

-----------------------------------------------------------------------------
\* Whose report it is.

IsNyct(r) == r.nyct # None \/ r.rt.strict

SameTrip(r, id) == r.rt = id.rt /\ r.line = id.line /\ r.date = id.date

TripCancelled(r) == r.trip = "cancelled" /\ r.platform = None

SameBoarding(r, id) ==
  /\ SameTrip(r, id) /\ r.dirId = id.dir
  /\ TripCancelled(r) \/ (r.platform = id.platform /\ r.seq = id.seq)

\* dirId is never consulted.
NyctDirectionAgrees(r, id) ==
  /\ r.rt.strict /\ r.rt.dir = id.dir
  /\ r.platform # None => r.platform = r.rt.dir
  /\ r.nyct # None => ~r.nyct.malformed /\ r.nyct.dir \in {None, r.rt.dir}

NyctSameBoarding(r, id) ==
  /\ SameTrip(r, id) /\ NyctDirectionAgrees(r, id)
  /\ TripCancelled(r) \/ (r.seq \in {None, id.seq} /\ r.platform = id.platform)

Matches(r, id) == IF IsNyct(r) THEN NyctSameBoarding(r, id) ELSE SameBoarding(r, id)

-----------------------------------------------------------------------------
\* The delay a report measures against the schedule of the leg, or None.

GenericDelay(r, id) ==
  IF r.dep # None /\ r.delay # None /\ r.dep - r.delay = id.dep THEN r.delay ELSE None

NyctDelay(r, id) ==
  IF /\ r.nyct # None /\ r.nyct.assigned
     /\ r.dep # None /\ r.delay \in {None, r.dep - id.dep}
  THEN r.dep - id.dep ELSE None

Measured(r, id) == IF IsNyct(r) THEN NyctDelay(r, id) ELSE GenericDelay(r, id)

\* round(d / 60.0): to the nearest, halves to the even one.
Rounded(d) ==
  LET q == d \div Minute
      r == d % Minute
  IN IF 2 * r > Minute \/ (2 * r = Minute /\ q % 2 = 1) THEN q + 1 ELSE q

Late(d) == Rounded(IF d > 0 THEN d ELSE 0)

\* Variant: the cap is forgotten.
PaddingUncapped(d) == IF Late(d) < MinDelay THEN 0 ELSE Late(d)

Padding(d) ==
  IF Late(d) < MinDelay THEN 0 ELSE IF Late(d) < MaxBuffer THEN Late(d) ELSE MaxBuffer

\* Variant: what was fresh when it was parsed is fresh now.
FreshWhenParsed(p, t) == p.fresh

StillFresh(p, t) == p.fresh /\ Fresh(p.header, Reports[p.report].lag, t)

Unknown == [status |-> "unknown", minutes |-> 0, basis |-> None]

\* _compute for a leg with identity id, from the predictions read.  "unknown" stands
\* for unavailable and unmatched, which planner and poll treat alike.
Observation(id, result, t) ==
  LET own == {p \in result.predictions :
                /\ Reports[p.report].platform \in {id.platform, None}
                /\ Reports[p.report].line = id.line
                /\ StillFresh(p, t) /\ Matches(Reports[p.report], id)}
  IN IF result.usable = 0 \/ Cardinality(own) # 1 THEN Unknown
     ELSE LET p == CHOOSE p \in own : TRUE
              r == Reports[p.report]
              d == Measured(r, id)
          IN CASE r.trip = "cancelled" -> [Unknown EXCEPT !.status = "cancelled"]
               [] r.trip = "scheduled" /\ r.stop = "skipped" ->
                    [Unknown EXCEPT !.status = "skipped"]
               [] r.trip = "scheduled" /\ r.stop = "scheduled" /\ d # None ->
                    [status |-> "observed", minutes |-> Padding(d),
                     basis |-> [header |-> p.header, report |-> p.report]]
               [] OTHER -> Unknown
=============================================================================
