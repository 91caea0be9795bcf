----------------------------- MODULE AlarmStep ------------------------------
(***************************************************************************)
(* The pure state machine of the alarm daemon (alarm_daemon.py, _step and  *)
(* the helpers it calls): one poll maps the daemon's persisted state s,    *)
(* the wall clock now and one reading i of Home Assistant to a new state   *)
(* and to what the poll must do with the audio.                            *)
(*                                                                         *)
(* Instants are integers, None is Python's None; a phase or a kind that is *)
(* the empty string there is "none" here.  What is left out of the         *)
(* state: the identities and the revision of the exported status, which no *)
(* transition reads, and ring volume profiles.  Home Assistant publishes   *)
(* schedules by the v1 contract, so a reading knows wake, deadline, cap    *)
(* and manual count together or not at all.                                *)
(***************************************************************************)
EXTENDS Integers, FiniteSets

CONSTANTS
  FirstLead,      \* window.first_lead: first ring to deadline
  DeadlineLead,   \* window.deadline_lead
  WindowSnooze,   \* window.snooze
  ManualSnooze,   \* MANUAL_SNOOZE_SECONDS
  Snooze,         \* settings.snooze, legacy alarms
  MaxSnoozes,     \* settings.max_snoozes, legacy alarms
  MaxRing,        \* settings.max_ring
  StaleLimit,     \* settings.stale_limit
  WindowOn,       \* settings.window is not None
  DayLength       \* length of a civil day

ASSUME StepAssumption ==
  /\ {FirstLead, WindowSnooze, ManualSnooze, Snooze, MaxRing, DayLength} \subseteq Nat \ {0}
  /\ {DeadlineLead, MaxSnoozes, StaleLimit} \subseteq Nat
  /\ DeadlineLead <= FirstLead
  /\ WindowOn \in BOOLEAN

None == -1

Instants == Nat \cup {None}

Day(t) == t \div DayLength

After(ts, ref) == ts # None /\ ref # None /\ ts > ref

-----------------------------------------------------------------------------
(* The persisted state.  session, ring, ended_* and revision are left out. *)

FreshState ==
  [mode |-> "idle", enabled |-> TRUE, active |-> None, active_kind |-> "none",
   ring_started |-> None, snooze_until |-> None, snoozes |-> 0,
   deadline |-> None, phase |-> "none", manual_snoozes |-> None,
   accepted_control_at |-> None, prep_threshold |-> None,
   pending |-> None, pending_kind |-> "none", pending_deadline |-> None,
   pending_manual_snoozes |-> None, done |-> {},
   window_done_pending |-> None, audio_failed |-> FALSE]

\* Variant: a session's end forgets its window.
IdleKeepsWindow(s) ==
  [s EXCEPT !.mode = "idle", !.active = None, !.active_kind = "none",
            !.ring_started = None, !.snooze_until = None, !.snoozes = 0,
            !.manual_snoozes = None, !.accepted_control_at = None]

Idle(s) ==
  [s EXCEPT !.mode = "idle", !.active = None, !.active_kind = "none",
            !.ring_started = None, !.snooze_until = None, !.snoozes = 0,
            !.deadline = None, !.phase = "none", !.manual_snoozes = None,
            !.accepted_control_at = None]

\* A poll's outcome: the state, the instant whose playback starts (or None),
\* whether playing audio is stopped, and whether a window was dismissed.
Outcome(s, start, stop, windowDone) ==
  [state |-> s, start |-> start, stop |-> stop, windowDone |-> windowDone]

Keep(s) == Outcome(s, None, FALSE, FALSE)

End(s) == Outcome(Idle(s), None, s.mode = "ringing", FALSE)

Ring(s, now) ==
  Outcome([s EXCEPT !.mode = "ringing", !.ring_started = now, !.snooze_until = None],
          s.active, FALSE, FALSE)

Hush(s, until) ==
  Outcome([s EXCEPT !.mode = "snoozed", !.snooze_until = until, !.snoozes = @ + 1],
          None, TRUE, FALSE)

\* A window's final alarm: manual deadlines ignore the configured lead.
FinalOf(deadline, manual) == IF manual = None THEN deadline - DeadlineLead ELSE deadline

-----------------------------------------------------------------------------
(* What Home Assistant's helpers say about an instant.                     *)

Cancelled(t, kind, i, preserveRollover, preserveActive) ==
  LET helper == IF kind = "nap" THEN i.nap_at ELSE i.wake_at
      known  == IF kind = "nap" THEN i.nap_known ELSE i.known
      owned  == /\ kind = "wake"
                /\ helper # None
                /\ preserveActive \/ (preserveRollover /\ Day(helper) > Day(t))
  IN  /\ i.ha_ok
      /\ i.skipped_at = t \/ (known /\ helper # t /\ ~owned)

\* Variant: a replacement publication ends the window.
ReplacementCancels(s, i) ==
  /\ i.ha_ok
  /\ s.active # None
  /\ i.skipped_at = s.active \/ (i.known /\ i.wake_at # s.active)

WindowCancelled(s, i) ==
  /\ i.ha_ok
  /\ s.active # None
  /\ i.skipped_at = s.active \/ (i.known /\ i.wake_at = None)

ActiveCancelled(s, i) ==
  /\ s.active # None
  /\ IF s.phase # "none" THEN WindowCancelled(s, i)
                     ELSE Cancelled(s.active, s.active_kind, i, FALSE, TRUE)

\* Variant: the cached policy is not consulted.
ManualCountLive(t, kind, i, s) ==
  IF /\ kind = "wake" /\ i.ha_ok /\ t = i.wake_at
     /\ i.deadline_at # None /\ i.manual_snoozes # None
     /\ i.deadline_at - t = i.manual_snoozes * ManualSnooze
  THEN i.manual_snoozes ELSE None

ManualCount(t, kind, i, s) ==
  IF kind # "wake" THEN None
  ELSE IF t = s.pending /\ s.pending_manual_snoozes # None /\ s.pending_deadline # None
       THEN s.pending_manual_snoozes
  ELSE IF /\ i.ha_ok /\ t = i.wake_at /\ i.deadline_at # None /\ i.manual_snoozes # None
          /\ i.deadline_at - t = i.manual_snoozes * ManualSnooze
       THEN i.manual_snoozes
  ELSE None

CommuteDeadline(t, kind, i, s) ==
  LET count   == ManualCount(t, kind, i, s)
      sources == {s.pending_deadline} \cup (IF i.ha_ok /\ i.known THEN {i.deadline_at} ELSE {})
  IN  IF kind # "wake" THEN None
      ELSE IF count # None
           THEN IF /\ t = s.pending /\ s.pending_manual_snoozes = count
                   /\ s.pending_deadline # None
                THEN s.pending_deadline ELSE i.deadline_at
      ELSE IF WindowOn /\ t + FirstLead \in sources THEN t + FirstLead
      ELSE None

-----------------------------------------------------------------------------
(* One poll of an active session.                                          *)

\* Variant: a replan on the same day moves the deadline either way.
TightenedEitherWay(s, i) ==
  IF /\ s.manual_snoozes = None /\ i.manual_snoozes = None
     /\ i.ha_ok /\ i.known /\ i.deadline_at # None
     /\ Day(i.deadline_at) = Day(s.deadline)
  THEN [s EXCEPT !.deadline = i.deadline_at]
  ELSE s

\* Variant: any replan moves the deadline.
TightenedAnyDay(s, i) ==
  IF s.manual_snoozes = None /\ i.ha_ok /\ i.known /\ i.deadline_at # None
  THEN [s EXCEPT !.deadline = i.deadline_at]
  ELSE s

\* A same-day replan may pull an uncounted window's deadline earlier.
Tightened(s, i) ==
  IF /\ s.manual_snoozes = None /\ i.manual_snoozes = None
     /\ i.ha_ok /\ i.known /\ i.deadline_at # None
     /\ i.deadline_at < s.deadline /\ Day(i.deadline_at) = Day(s.deadline)
  THEN [s EXCEPT !.deadline = i.deadline_at]
  ELSE s

Sooner(a, b) == IF a <= b THEN a ELSE b

\* Variant: a snooze may run past the final alarm.
SnoozeUncapped(s, now) ==
  now + (IF s.manual_snoozes # None THEN ManualSnooze ELSE WindowSnooze)

SnoozeUntil(s, now) ==
  Sooner(now + (IF s.manual_snoozes # None THEN ManualSnooze ELSE WindowSnooze),
         FinalOf(s.deadline, s.manual_snoozes))

MaySnooze(s) ==
  IF s.phase = "none" THEN s.snoozes < MaxSnoozes
  ELSE s.manual_snoozes = None \/ s.snoozes < s.manual_snoozes

\* A tightened deadline also bounds the snooze in progress.
Bounded(s) ==
  IF s.snooze_until = None THEN s
  ELSE [s EXCEPT !.snooze_until = Sooner(@, FinalOf(s.deadline, s.manual_snoozes))]

\* The presses that have not been honoured yet; stop counts as snooze.
Presses(s, i) ==
  {p \in {i.snooze_pressed_at, i.stop_pressed_at} :
     /\ After(p, s.ring_started)
     /\ s.accepted_control_at = None \/ p > s.accepted_control_at}

Accept(s, presses) ==
  [s EXCEPT !.accepted_control_at = CHOOSE p \in presses : \A q \in presses : q <= p]

\* The final alarm of a window is due.
EnterFinal(s, now) ==
  IF s.mode = "ringing" THEN Keep([s EXCEPT !.phase = "final"])
  ELSE IF now - FinalOf(s.deadline, s.manual_snoozes) > StaleLimit THEN End(s)
  ELSE Ring([s EXCEPT !.phase = "final"], now)

WindowAct(s, now, i) ==
  IF i.activity_at # None
  THEN Outcome([Idle(s) EXCEPT !.window_done_pending = now], None, s.mode = "ringing", TRUE)
  ELSE IF s.phase = "final" THEN Keep(s)
  ELSE IF FinalOf(s.deadline, s.manual_snoozes) <= now THEN EnterFinal(s, now)
  ELSE IF s.mode = "ringing"
  THEN IF Presses(s, i) # {} /\ MaySnooze(s)
       THEN Hush(Accept(s, Presses(s, i)), SnoozeUntil(s, now))
       ELSE IF s.manual_snoozes = None /\ now - s.ring_started >= MaxRing
       THEN Hush(s, SnoozeUntil(s, now))
       ELSE Keep(s)
  ELSE IF s.snooze_until <= now THEN Ring(s, now)
  ELSE Keep(s)

WindowStep(s, now, i) == WindowAct(Bounded(Tightened(s, i)), now, i)

Stopped(s, i) == \/ After(i.stop_pressed_at, s.ring_started)
                 \/ After(i.activity_at, s.ring_started)

\* A legacy snooze never runs past the published cap.
Capped(s, t) == IF s.prep_threshold # None THEN Sooner(s.prep_threshold, t) ELSE t

RingingStep(s, now, i) ==
  IF Stopped(s, i) THEN End(s)
  ELSE IF /\ After(i.snooze_pressed_at, s.ring_started)
          /\ MaySnooze(s)
          /\ Capped(s, now + Snooze) > now
       THEN Hush(s, Capped(s, now + Snooze))
  ELSE IF now - s.ring_started >= MaxRing THEN End(s)
  ELSE Keep(s)

Wakened(s, now) ==
  IF s.snooze_until > now THEN Keep(s)
  ELSE IF now - s.snooze_until > StaleLimit THEN End(s)
  ELSE Ring(s, now)

SnoozedStep(s, now, i) ==
  IF Stopped(s, i) THEN End(s)
  ELSE Wakened([s EXCEPT !.snooze_until = Capped(s, @)], now)

SessionStep(s, now, i) ==
  IF s.mode = "idle" THEN Keep(s)
  ELSE IF s.phase # "none" THEN WindowStep(s, now, i)
  ELSE IF s.mode = "ringing" THEN RingingStep(s, now, i)
  ELSE SnoozedStep(s, now, i)

-----------------------------------------------------------------------------
(* Choosing the next instant, and ringing what has fallen due.             *)

Candidates(s, i) ==
  LET cached == IF s.pending = None THEN {}
                ELSE {[at |-> s.pending, kind |-> s.pending_kind, rank |-> 0]}
      wake   == IF i.known /\ i.wake_at # None
                THEN {[at |-> i.wake_at, kind |-> "wake", rank |-> 1]} ELSE {}
      nap    == IF i.nap_known /\ i.nap_at # None
                THEN {[at |-> i.nap_at, kind |-> "nap", rank |-> 2]} ELSE {}
      live   == IF i.ha_ok
                THEN {c \in wake \cup nap : ~Cancelled(c.at, c.kind, i, FALSE, FALSE)}
                ELSE {}
  IN  {c \in cached \cup live : c.at \notin s.done}

\* The candidates are sorted by instant, stably.
First(cs) == CHOOSE c \in cs : \A e \in cs : c.at < e.at \/ (c.at = e.at /\ c.rank <= e.rank)

\* The window anchors are kept per instant: the last candidate's entry wins.
LastAt(cs, t) == CHOOSE c \in cs : c.at = t /\ \A e \in cs : e.at = t => e.rank <= c.rank

\* A due candidate with its window, if it opens one.
Anchored(c, due, i, s) ==
  [at |-> c.at, kind |-> c.kind, rank |-> c.rank,
   anchor |-> CommuteDeadline(c.at, LastAt(due, c.at).kind, i, s),
   count  |-> ManualCount(c.at, LastAt(due, c.at).kind, i, s)]

Expires(c) == IF c.anchor = None THEN c.at ELSE FinalOf(c.anchor, c.count)

\* The first ring of candidate c.
Begin(s, c, now) ==
  LET rung == [s EXCEPT !.mode = "ringing", !.active = c.at, !.active_kind = c.kind,
                        !.ring_started = now, !.snoozes = 0]
  IN  IF c.anchor = None THEN rung
      ELSE [rung EXCEPT !.deadline = c.anchor, !.manual_snoozes = c.count,
                        !.accepted_control_at = None,
                        !.phase = IF Expires(c) <= now THEN "final" ELSE "window"]

PendingAt(s, c, i) ==
  [s EXCEPT !.pending = c.at, !.pending_kind = c.kind,
            !.pending_deadline = CommuteDeadline(c.at, c.kind, i, s),
            !.pending_manual_snoozes = ManualCount(c.at, c.kind, i, s)]

\* The earliest future candidate becomes the pending one.
Pended(s, future, i) ==
  IF future # {} THEN PendingAt(s, First(future), i)
  ELSE [s EXCEPT !.pending = None, !.pending_kind = "none", !.pending_deadline = None,
                 !.pending_manual_snoozes = None]

\* Of the due candidates, the first that is not stale rings, if nothing else does;
\* all of them are done.
Fall(o, s, ripe, now) ==
  IF ripe = {} \/ s.mode # "idle" THEN [o EXCEPT !.state = s]
  ELSE [o EXCEPT !.state = Begin(s, First(ripe), now), !.start = First(ripe).at]

Allot(o, due, future, now, i) ==
  Fall(o, [Pended(o.state, future, i) EXCEPT !.done = @ \cup {c.at : c \in due}],
       {c \in {Anchored(c, due, i, o.state) : c \in due} : now - Expires(c) <= StaleLimit},
       now)

\* _step from "candidates" on, appended to the outcome o of the session's step.
Schedule(o, now, i) ==
  LET cs == Candidates(o.state, i)
  IN  Allot(o, {c \in cs : c.at <= now}, {c \in cs : c.at > now}, now, i)

-----------------------------------------------------------------------------

Settings(s, i) ==
  [s EXCEPT !.enabled = IF i.ha_ok /\ i.enabled # "unknown" THEN i.enabled = "on" ELSE @,
            !.prep_threshold = IF i.ha_ok /\ i.known THEN i.prep_threshold ELSE @]

\* A cancelled pending instant counts as handled.
DropPending(s, now, i) ==
  IF /\ s.pending # None
     /\ Cancelled(s.pending, s.pending_kind, i,
                  /\ s.pending <= now
                  /\ now - s.pending <= StaleLimit \/ s.pending_deadline # None,
                  FALSE)
  THEN [s EXCEPT !.done = @ \cup {s.pending}, !.pending = None, !.pending_kind = "none"]
  ELSE s

\* An explicit skip or clear ends the active alarm before anything else.
CancelActive(s, i) == IF ActiveCancelled(s, i) THEN End(s) ELSE Keep(s)

\* The session's step, after the outcome o of its cancellation.
Carry(o, now, i) ==
  [SessionStep(DropPending(o.state, now, i), now, i) EXCEPT !.stop = @ \/ o.stop]

StepSet(s, now, i) ==
  IF s.enabled THEN Schedule(Carry(CancelActive(s, i), now, i), now, i)
  ELSE [End(s) EXCEPT !.state.pending = None, !.state.pending_kind = "none"]

Step(s, now, i) == StepSet(Settings(s, i), now, i)
=============================================================================
