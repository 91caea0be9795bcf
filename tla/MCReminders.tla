----------------------------- MODULE MCReminders -----------------------------
(***************************************************************************)
(* Small instances of Reminders.  Time 0..MaxTime counts the smallest      *)
(* difference poll calls significant (five minutes).                       *)
(***************************************************************************)
EXTENDS ReminderRefinement

Trip(prep, leave, start) ==
  [prep |-> prep, leave |-> leave, start |-> start, error |-> "ok", pad |-> 0]

\* A commute, the same event reached by a later departure, a video call, a
\* planning failure.
EarlyTrip == Trip(0, 1, 3)
LateTrip  == Trip(1, 2, 3)
VideoCall == Trip(1, None, 3)
Outage    == [Trip(None, None, 3) EXCEPT !.error = "transient"]

JobOffers == {EarlyTrip, LateTrip, VideoCall, Outage}
TwoTrips   == {EarlyTrip, LateTrip}
WithOutage == {EarlyTrip, LateTrip, Outage}
WithCall   == {EarlyTrip, LateTrip, VideoCall}
=============================================================================
