-------------------------- MODULE ScheduleContract --------------------------
(***************************************************************************)
(* The wire contract v1 between the publisher and Home Assistant           *)
(* (alarm_contract.py).  A snapshot is what the helper holds: identity,    *)
(* issue time, kind, wake, deadline, nap cap and the counted snoozes.  A    *)
(* value that is no canonical snapshot is Garbage, an unset helper Empty.  *)
(***************************************************************************)
EXTENDS Integers

CONSTANTS
  FirstLead,  \* first_lead_seconds, on which both sides must agree
  CountedLen, \* MANUAL_SNOOZE_SECONDS
  MaxCount,   \* MAX_MANUAL_SNOOZES
  NoValue,    \* a null field
  Empty,      \* "", "unknown" or "unavailable"
  Garbage     \* any string that parse_schedule rejects

KindRule(s) ==
  CASE s.kind = "manual" ->
         /\ s.snoozes # NoValue /\ s.snoozes \in 0..MaxCount
         /\ s.wake # NoValue /\ s.deadline # NoValue
         /\ s.deadline - s.wake = s.snoozes * CountedLen
    [] s.kind = "none" ->
         /\ s.snoozes = NoValue /\ s.wake = NoValue
         /\ s.deadline = NoValue /\ s.cap = NoValue
    [] s.kind = "legacy" ->
         s.snoozes = NoValue /\ s.wake # NoValue /\ s.deadline = NoValue
    [] s.kind = "commute" ->
         /\ s.snoozes = NoValue /\ s.wake # NoValue /\ s.deadline # NoValue
         /\ s.deadline - s.wake = FirstLead

\* parse_schedule: the exact canonical string of a valid snapshot.
Parses(raw) == raw \notin {Empty, Garbage} /\ KindRule(raw)

CompareSchedules(current, incoming) ==
  IF incoming.id = current.id
  THEN IF incoming = current THEN "same" ELSE "conflict"
  ELSE IF incoming.issued = current.issued THEN "conflict"
  ELSE IF incoming.issued > current.issued THEN "newer" ELSE "stale"

\* Variant: a readable schedule with another identity is always replaced.
CommitAnyOther(current, incoming) ==
  IF ~Parses(incoming) THEN "invalid"
  ELSE IF current = incoming THEN "already_committed"
  ELSE IF current # Empty /\ (~Parses(current) \/ incoming.id = current.id)
       THEN "stale_or_conflict"
       ELSE "commit"

\* The decision of the publish script on one call.
DecideCommit(current, incoming) ==
  IF ~Parses(incoming) THEN "invalid"
  ELSE IF current = incoming THEN "already_committed"
  ELSE IF current = Empty THEN "commit"
  ELSE IF ~Parses(current) THEN "stale_or_conflict"
  ELSE IF CompareSchedules(current, incoming) = "newer" THEN "commit"
  ELSE "stale_or_conflict"
=============================================================================
