--------------------------- MODULE MCDelayPipeline ---------------------------
\* A small instance: trains that depart after the end of their service day, of
\* which the first runs on two days under one realtime id, and timetables in which
\* they have changed places and another departs with one, or one has a repeated stop.
EXTENDS DelayPipeline, TLC

RtA == [name |-> "a", dir |-> "N", strict |-> TRUE]
RtB == [name |-> "b", dir |-> "N", strict |-> FALSE]
RtC == [name |-> "c", dir |-> "N", strict |-> TRUE]

Trip(rt, days, offset) ==
  [rt |-> rt, line |-> "Q", dir |-> "N", shape |-> "N", platform |-> "N", days |-> days,
   offset |-> offset, seq |-> 1, arrival |-> offset + 1, regular |-> TRUE]

Zip(trips) == [readable |-> TRUE, fits |-> TRUE, trips |-> trips]

MCZips ==
  [base  |-> Zip({Trip(RtA, {0, 1}, 3), Trip(RtB, {0}, 4)}),
   moved |-> Zip({Trip(RtA, {0, 1}, 4), Trip(RtB, {0}, 3), Trip(RtC, {0}, 4)}),
   loops |-> Zip({Trip(RtA, {0, 1}, 3), [Trip(RtB, {0}, 3) EXCEPT !.regular = FALSE]})]

\* Two departures of one journey, and an estimate of another.
Express ==
  [dep |-> 3, arrival |-> 4, line |-> "Q", trusted |-> TRUE, subway |-> TRUE,
   station |-> TRUE, journey |-> "Q"]

MCSteps ==
  [express |-> Express,
   later   |-> [Express EXCEPT !.dep = 4, !.arrival = 5],
   guess   |-> [Express EXCEPT !.trusted = FALSE, !.station = FALSE, !.journey = "bus"]]

Tracked == [assigned |-> TRUE, dir |-> None, malformed |-> FALSE]

\* Train a of day 0, a minute and a half late.
LateA ==
  [rt |-> RtA, line |-> "Q", date |-> 0, dirId |-> None, platform |-> "N", seq |-> None,
   dep |-> 6, delay |-> None, trip |-> "scheduled", stop |-> "scheduled",
   nyct |-> Tracked, lag |-> None]

\* Train b, whose id is not of NYCT shape, as late by its own account, where it
\* departs at 3, with a timestamp older than its feed's.
LateB ==
  [LateA EXCEPT !.rt = RtB, !.dirId = "N", !.seq = 1, !.dep = 6, !.delay = 3,
                !.nyct = None, !.lag = 1]

MCReports ==
  [lateA |-> LateA,
   lateB |-> LateB,
   otherDay |-> [LateB EXCEPT !.date = 1],
   untracked |-> [LateA EXCEPT !.nyct.assigned = FALSE]]

MCDatasets ==
  [full : {TRUE}, reports : {{"lateA", "otherDay"}, {"lateB", "untracked"}}]

Order == Permutations(Refreshers)
=============================================================================
