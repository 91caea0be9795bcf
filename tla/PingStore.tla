------------------------------ MODULE PingStore ------------------------------
(***************************************************************************)
(* The part of the SQLite store (store.py) that keeps one event's plan and *)
(* its prep / leave reminder rows.  Every operator below is the body of    *)
(* one transaction: the store opens it with BEGIN IMMEDIATE, so a          *)
(* transaction is a single step, and everything the jobs and the CLI do    *)
(* between two transactions may interleave with the other processes.       *)
(*                                                                         *)
(* A row is one GENERATION of a reminder.  Rows are never deleted: a       *)
(* generation is claimed (fired), handed back (released) or superseded     *)
(* (retired), and the history stays.                                       *)
(***************************************************************************)
EXTENDS Integers

CONSTANTS
  Ids,       \* identities of reminder rows (uuid4 in the code)
  None       \* SQL NULL, Python None, an absent row

Kinds  == {"prep", "leave"}
Errors == {"ok", "too_imminent", "transient"}

OptTime == Int \cup {None}

\* A row of the pings table; a plan as far as reminders depend on it.
Row  == [kind : Kinds, at : Int, fired : BOOLEAN, retired : BOOLEAN, attempts : Nat]
Plan == [prep : OptTime, leave : OptTime, start : Int, error : Errors, pad : Nat]

ASSUME NoneIsNoValue == None \notin Int /\ None \notin Row /\ None \notin Plan
ASSUME NoneIsNoId == None \notin Ids

VARIABLES
  plan,      \* the event's row in plans, or None
  rows,      \* the event's rows in pings
  muted      \* the event has an unexpired row in event_mutes

storeVars == <<plan, rows, muted>>

Max2(a, b) == IF a >= b THEN a ELSE b
Min2(a, b) == IF a <= b THEN a ELSE b

-----------------------------------------------------------------------------
\* Reading the pings table.

Fresh(r)      == {i \in Ids : r[i] = None}
LiveOf(r, k)  == {i \in Ids : r[i] # None /\ r[i].kind = k /\ ~r[i].retired}
Pending(r, k) == {i \in Ids : r[i] # None /\ r[i].kind = k /\ ~r[i].fired}
Due(r, t)     == {i \in Ids : r[i] # None /\ ~r[i].fired /\ r[i].at <= t}

\* The bound on the history: a transaction that may insert keeps two spare rows.
Spare(r) == \E a, b \in Fresh(r) : a # b

\* Plausible slip: looking only at departures still pending.
ObsoleteWhenDue(p, r, t) ==
  \/ p # None /\ p.error = "too_imminent"
  \/ \E i \in LiveOf(r, "leave") : ~r[i].fired /\ r[i].at <= t

\* Departure already reached or announced: a prep reminder is pointless.
ObsoletePrep(p, r, t) ==
  \/ p # None /\ p.error = "too_imminent"
  \/ \E i \in LiveOf(r, "leave") : r[i].fired \/ r[i].at <= t

-----------------------------------------------------------------------------
\* Writing it.

NewRow(k, t) ==
  [kind |-> k, at |-> t, fired |-> FALSE, retired |-> FALSE, attempts |-> 0]

Insert(r, k, t) == [r EXCEPT ![CHOOSE i \in Ids : r[i] = None] = NewRow(k, t)]

\* Plausible slip: superseding only the generations still pending.
RetirePendingOnly(r, ks) ==
  [i \in Ids |->
     IF r[i] # None /\ r[i].kind \in ks /\ ~r[i].retired /\ ~r[i].fired
     THEN [r[i] EXCEPT !.retired = TRUE, !.fired = TRUE]
     ELSE r[i]]

\* Retirement consumes a generation for good, claimed or not.
RetirePings(r, ks) ==
  [i \in Ids |->
     IF r[i] # None /\ r[i].kind \in ks /\ ~r[i].retired
     THEN [r[i] EXCEPT !.retired = TRUE, !.fired = TRUE]
     ELSE r[i]]

SchedulePing(k, t) == rows' = Insert(RetirePings(rows, {k}), k, t)

MarkFired(i) == rows' = [rows EXCEPT ![i].fired = TRUE]

-----------------------------------------------------------------------------
\* Poll's replan transaction: compare-and-swap on the whole plan, then each
\* kind's pending rows follow the deadline, keeping the offset a snooze gave.

\* Plausible slip: clamping every row to now.
UnsafeTime(at, shifted, t) == Max2(t, shifted)

\* A row already due is never postponed; another never moves into the past.
SafeTime(at, shifted, t) == IF at <= t THEN Min2(at, shifted) ELSE Max2(t, shifted)

NeedsPing(r, k, deadline) == deadline # None /\ LiveOf(r, k) = {}

ReplanKind(r, k, old, new, t) ==
  IF new = None THEN r
  ELSE IF LiveOf(r, k) = {} THEN Insert(r, k, Max2(t, new))
  ELSE [i \in Ids |->
          IF i \in LiveOf(r, k) /\ ~r[i].fired
          THEN [r[i] EXCEPT !.at =
                  SafeTime(@, IF old = None THEN new ELSE @ + (new - old), t)]
          ELSE r[i]]

ReplanRows(r, old, new, t) ==
  ReplanKind(ReplanKind(r, "prep", old.prep, new.prep, t), "leave", old.leave, new.leave, t)

ReplanAccepted(expected, updated, t) ==
  plan # None /\ plan = expected /\ expected.start > t /\ updated.start > t

\* What the caller learns under the same lock: is there something to dispatch?
ActionableDue(p, r, t) ==
  \E i \in Due(r, t) : r[i].kind = "leave" \/ ~ObsoletePrep(p, r, t)

LeaveConsumed(r, t) == \E i \in LiveOf(r, "leave") : r[i].fired /\ r[i].at <= t

\* Realtime refresh: a larger delay moves the deadlines and every pending row
\* earlier, never later; an imminent row is clamped to now.
BufferAccepted(expected, minutes, t) ==
  /\ plan # None /\ plan = expected
  /\ plan.error = "ok" /\ plan.leave # None
  /\ plan.start > t /\ minutes > plan.pad

BufferedPlan(p, minutes) ==
  LET delta == minutes - p.pad
      Advance(v) == IF v = None THEN None ELSE v - delta
  IN  [p EXCEPT !.leave = Advance(@), !.prep = Advance(@), !.pad = minutes]

BufferedRows(r, delta, t) ==
  [i \in Ids |-> IF r[i] # None /\ ~r[i].fired
                 THEN [r[i] EXCEPT !.at = Min2(@, Max2(t, @ - delta))]
                 ELSE r[i]]

-----------------------------------------------------------------------------
\* Morning's reconciliation.

MorningKind(r, k, new, old, p, t) ==
  LET unchanged == new # None /\ new = old
      obsolete  == p.start <= t \/ new = None \/ (k = "prep" /\ p.error = "too_imminent")
  IN  IF obsolete \/ (~unchanged /\ new < t) THEN RetirePings(r, {k})
      ELSE IF (unchanged /\ LiveOf(r, k) # {}) \/ new < t THEN r
      ELSE Insert(RetirePings(r, {k}), k, new)

MorningRows(r, p, old, t) ==
  MorningKind(
    MorningKind(r, "prep", p.prep, IF old = None THEN None ELSE old.prep, p, t),
    "leave", p.leave, IF old = None THEN None ELSE old.leave, p, t)

\* A transient planning failure keeps the last good plan and its reminders.
ReconcileMorning(p, old, t) ==
  LET outage == p.error = "transient" /\ p.start > t
  IN  /\ plan' = IF outage /\ old # None THEN plan ELSE p
      /\ rows' = IF outage THEN rows ELSE MorningRows(rows, p, old, t)

RemovePlan == plan' = None /\ rows' = RetirePings(rows, Kinds)

-----------------------------------------------------------------------------
\* Claiming a row before it is sent, and handing it back when the send failed.

\* Quiet hours hold back everything but departures.
Eligible(i, t, quiet) ==
  /\ rows[i] # None /\ ~rows[i].fired /\ rows[i].at <= t
  /\ quiet => rows[i].kind = "leave"

\* Plausible slip: deferring past the start of the event.
DeferredForever(t, present) == present /\ plan # None /\ ~muted

\* At the venue nothing is announced, until the event starts or while muted.
Deferred(t, present) == present /\ plan # None /\ t < plan.start /\ ~muted

Claimable(i, t, quiet, present) == Eligible(i, t, quiet) /\ ~Deferred(t, present)

\* Plausible slip: not looking at the kind of the row.
SuppressedAny(i, t) == ObsoletePrep(plan, rows, t)

Suppressed(i, t) == rows[i].kind = "prep" /\ ObsoletePrep(plan, rows, t)

\* Plausible slip: trusting the newest-pending test alone.
ReleaseIfNewest(i) ==
  /\ rows[i].fired
  /\ \A j \in Ids \ {i} : rows[j] # None => ~(rows[j].kind = rows[i].kind /\ ~rows[j].fired)

ReleaseAllowed(i) ==
  /\ rows[i].fired /\ ~rows[i].retired
  /\ \A j \in Ids \ {i} : rows[j] # None => ~(rows[j].kind = rows[i].kind /\ ~rows[j].fired)

ReleasePing(i) ==
  rows' = IF ReleaseAllowed(i)
          THEN [rows EXCEPT ![i].fired = FALSE, ![i].attempts = @ + 1]
          ELSE rows

-----------------------------------------------------------------------------

StoreTypeOK ==
  /\ plan \in Plan \cup {None}
  /\ rows \in [Ids -> Row \cup {None}]
  /\ muted \in BOOLEAN

\* At most one generation of a kind is in force, and a retired one is spent.
\* The partial unique index on unfired rows rests on it.
OneGeneration ==
  /\ \A i \in Ids : rows[i] # None /\ rows[i].retired => rows[i].fired
  /\ \A k \in Kinds : \A i, j \in LiveOf(rows, k) : i = j
=============================================================================
