------------------------- MODULE AlarmDaemonProofs --------------------------
(***************************************************************************)
(* The safety of the alarm daemon, for every window, snooze and staleness  *)
(* setting, every set of schedules and naps, and every clock bound.        *)
(*                                                                         *)
(* The argument has two halves.  The first is about the state machine      *)
(* alone (AlarmStep): a state is Sane when its session, its window, its    *)
(* snooze and what is pending fit together; each step of a session carries *)
(* one Sane state to another (Carried), dropping what was cancelled keeps  *)
(* it (Advanced), ringing what fell due keeps it (Scheduled), and together *)
(* they are a poll (Progressed).  Two facts about data are needed: the     *)
(* candidates have a first one and a last one per instant, because the     *)
(* naturals are well-ordered, and a pending nap that Home Assistant shows  *)
(* is among the live ones, so that a window is only opened for a wake.     *)
(*                                                                         *)
(* The second half is about the daemon: the invariant Inv says that the    *)
(* state is Sane and saved, which instants are done, what the process owes *)
(* after a restart, what is heard between polls and what the acts of a     *)
(* poll will make of it.  A poll does what Polled says; every other step   *)
(* is Calm.  Both keep Inv, and the theorems at the end follow from it.    *)
(***************************************************************************)
EXTENDS AlarmDaemon, WellFoundedInduction, TLAPS

Modes == {"idle", "ringing", "snoozed"}
Phases == {"none", "window", "final"}
Kinds == {"none", "wake", "nap"}

States ==
  [mode : Modes, enabled : BOOLEAN, active : Instants, active_kind : Kinds,
   ring_started : Instants, snooze_until : Int, snoozes : Nat, deadline : Instants,
   phase : Phases, manual_snoozes : Instants, accepted_control_at : Instants,
   prep_threshold : Instants, pending : Instants, pending_kind : Kinds,
   pending_deadline : Instants, pending_manual_snoozes : Instants, done : SUBSET Nat,
   window_done_pending : Instants, audio_failed : BOOLEAN]

Readings ==
  [ha_ok : BOOLEAN, enabled : {"on", "off", "unknown"}, known : BOOLEAN, nap_known : BOOLEAN,
   wake_at : Instants, deadline_at : Instants, prep_threshold : Instants,
   manual_snoozes : Instants, nap_at : Instants, skipped_at : Instants,
   stop_pressed_at : Instants, snooze_pressed_at : Instants, activity_at : Instants]

\* What every poll keeps in order, whatever the session does.
Stored(s, t) ==
  /\ s \in States
  /\ s.pending # None =>
       /\ s.pending_kind # "none" /\ s.pending \notin s.done
       /\ s.pending_manual_snoozes # None => s.pending_deadline # None /\ s.pending_kind = "wake"
  /\ s.window_done_pending # None => s.window_done_pending <= t

\* A session has its alarm, which is done; a window has its deadline.
Session(s, t) ==
  /\ s.mode = "idle" <=> s.active = None
  /\ s.mode # "idle" =>
       /\ s.active \in s.done /\ s.active <= t
       /\ s.active_kind # "none" /\ s.ring_started # None /\ s.ring_started <= t
  /\ s.phase # "none" <=> s.deadline # None
  /\ s.phase # "none" => s.mode # "idle" /\ s.active_kind = "wake"
  /\ s.phase = "none" => s.manual_snoozes = None

\* Only what is snoozed wakes again, and a final alarm is not snoozed.
Snoozing(s) ==
  /\ s.snooze_until \in Instants /\ (s.mode = "snoozed" <=> s.snooze_until # None)
  /\ s.phase = "final" => s.mode = "ringing"

Whole(s, t) == Stored(s, t) /\ Session(s, t) /\ Snoozing(s)

WithinWindow(s) ==
  s.phase # "none" /\ s.mode = "snoozed" => s.snooze_until <= FinalOf(s.deadline, s.manual_snoozes)

Sane(s, t) == Whole(s, t) /\ WithinWindow(s)

\* The fields no session step touches.
SameRest(s, u) ==
  /\ u.enabled = s.enabled /\ u.prep_threshold = s.prep_threshold /\ u.done = s.done
  /\ u.pending = s.pending /\ u.pending_kind = s.pending_kind
  /\ u.pending_deadline = s.pending_deadline
  /\ u.pending_manual_snoozes = s.pending_manual_snoozes /\ u.audio_failed = s.audio_failed

Locked(s, u) ==
  u.phase # "none" /\ u.deadline <= s.deadline /\ u.manual_snoozes = s.manual_snoozes

\* What becomes of the sound: a start is of the alarm that rings, an alarm that rings
\* without one rang before, and one that no longer rings is stopped.
Audible(s, o) ==
  IF o.start # None THEN o.start = o.state.active /\ o.state.mode = "ringing"
  ELSE IF o.state.mode = "ringing"
  THEN s.mode = "ringing" /\ s.active = o.state.active /\ ~o.stop
  ELSE o.stop \/ s.mode # "ringing"

\* An outcome of the session's part of a poll at t.
Carried(s, o, t) ==
  /\ o = Outcome(o.state, o.start, o.stop, o.windowDone) /\ o.stop \in BOOLEAN
  /\ Sane(o.state, t) /\ SameRest(s, o.state)
  /\ o.state.window_done_pending \in {s.window_done_pending, t}
  /\ o.state.active \in {s.active, None}
  /\ s.phase # "none" /\ o.state.active = s.active => Locked(s, o.state)
  /\ Audible(s, o)

-----------------------------------------------------------------------------
\* The steps of a session.

\* What the steps write has its type.
LEMMA Literals ==
  /\ None \in Instants /\ None \in Int /\ Instants \subseteq Int /\ Nat \subseteq Instants
  /\ {"idle", "ringing", "snoozed"} \subseteq Modes /\ {"none", "wake", "nap"} \subseteq Kinds
  /\ {"none", "window", "final"} \subseteq Phases
  /\ \A x \in Instants : x # None => x \in Nat
  /\ \A x \in Nat : x # None
  BY DEF Instants, None, Modes, Kinds, Phases

\* The instants of a state are integers.
LEMMA FieldTypes ==
  ASSUME NEW s \in States
  PROVE  /\ s.active \in Int /\ s.ring_started \in Int /\ s.snooze_until \in Int
         /\ s.deadline \in Int /\ s.window_done_pending \in Int /\ s.snoozes \in Nat
         /\ FinalOf(s.deadline, s.manual_snoozes) \in Int
<1>1. s.deadline \in Int
  BY Literals DEF States
<1>2. FinalOf(s.deadline, s.manual_snoozes) \in Int
  BY <1>1, StepAssumption DEF FinalOf
<1> QED BY <1>1, <1>2, Literals DEF States

\* A session that ends leaves nothing of its window.
LEMMA IdleFields ==
  ASSUME NEW s \in States
  PROVE  /\ Idle(s) \in States /\ SameRest(s, Idle(s))
         /\ Idle(s).mode = "idle" /\ Idle(s).active = None /\ Idle(s).snooze_until = None
         /\ Idle(s).deadline = None /\ Idle(s).phase = "none" /\ Idle(s).manual_snoozes = None
         /\ Idle(s).window_done_pending = s.window_done_pending
<1>1. Idle(s) \in States
  BY Literals DEF Idle, States
<1> QED BY <1>1 DEF Idle, States, SameRest

\* What is stored depends on the rest only.
LEMMA StoredStays ==
  ASSUME NEW t \in Nat, NEW s, Stored(s, t), NEW u \in States, SameRest(s, u),
         u.window_done_pending \in {s.window_done_pending, t}
  PROVE  Stored(u, t)
<1>1. s.window_done_pending \in Int /\ u.window_done_pending \in Int
  BY FieldTypes DEF Stored
<1>2. u.window_done_pending # None => u.window_done_pending <= t
  BY <1>1 DEF Stored
<1> QED BY <1>1, <1>2 DEF Stored, SameRest

\* What makes an outcome one of a session.
LEMMA Carries ==
  ASSUME NEW t, NEW s, NEW u, NEW start, NEW stop \in BOOLEAN, NEW windowDone,
         Sane(u, t), SameRest(s, u), u.window_done_pending \in {s.window_done_pending, t},
         u.active \in {s.active, None}, s.phase # "none" /\ u.active = s.active => Locked(s, u),
         IF start # None THEN start = u.active /\ u.mode = "ringing"
         ELSE IF u.mode = "ringing" THEN s.mode = "ringing" /\ s.active = u.active /\ ~stop
         ELSE stop \/ s.mode # "ringing"
  PROVE  Carried(s, Outcome(u, start, stop, windowDone), t)
<1> DEFINE o == Outcome(u, start, stop, windowDone)
<1>1. o.state = u /\ o.start = start /\ o.windowDone = windowDone
  BY DEF Outcome
<1>2. o.stop = stop
  BY DEF Outcome
<1>3. o = Outcome(o.state, o.start, o.stop, o.windowDone)
  BY <1>1, <1>2
<1> HIDE DEF o
<1>4. Audible(s, o)
  BY Zenon, <1>1, <1>2 DEF Audible
<1>5. o.stop \in BOOLEAN
  BY <1>2
<1> QED BY Zenon, <1>1, <1>3, <1>4, <1>5 DEF Carried, o

\* An ended session is in order.
LEMMA IdleSane ==
  ASSUME NEW t \in Nat, NEW s, Stored(s, t)
  PROVE  Sane(Idle(s), t)
<1>1. s \in States
  BY DEF Stored
<1>2. Stored(Idle(s), t)
  BY <1>1, IdleFields, StoredStays
<1> QED BY <1>1, <1>2, IdleFields, Literals DEF Sane, Whole, Session, Snoozing, WithinWindow

\* A session that ends is stopped.
LEMMA EndCarried ==
  ASSUME NEW t \in Nat, NEW s, Stored(s, t), Session(s, t)
  PROVE  Carried(s, End(s), t)
<1>1. s \in States /\ (s.mode = "idle" <=> s.active = None) /\ (s.phase # "none" => s.mode # "idle")
  BY DEF Stored, Session
<1>2. s.phase # "none" => Idle(s).active # s.active
  BY <1>1, IdleFields
<1> QED BY <1>1, <1>2, IdleFields, IdleSane, Carries DEF End

\* Nothing happens to a session in order.
LEMMA KeepCarried ==
  ASSUME NEW t \in Nat, NEW s, Sane(s, t)
  PROVE  Carried(s, Keep(s), t)
<1>1. s \in States
  BY DEF Sane, Whole, Stored
<1>2. s.deadline \in Int
  BY <1>1, FieldTypes
<1>3. SameRest(s, s) /\ (s.phase # "none" => Locked(s, s))
  BY <1>2 DEF SameRest, Locked
<1> QED BY <1>3, Carries DEF Keep

\* A session rings again.
LEMMA RingCarried ==
  ASSUME NEW t \in Nat, NEW s, Stored(s, t), Session(s, t), s.mode # "idle"
  PROVE  Carried(s, Ring(s, t), t)
<1> DEFINE u == [s EXCEPT !.mode = "ringing", !.ring_started = t, !.snooze_until = None]
<1>1. s \in States
  BY DEF Stored
<1>2. u \in States
  BY <1>1, Literals DEF States
<1>3. /\ u.mode = "ringing" /\ u.ring_started = t /\ u.snooze_until = None
      /\ u.active = s.active /\ u.active_kind = s.active_kind /\ u.deadline = s.deadline
      /\ u.phase = s.phase /\ u.manual_snoozes = s.manual_snoozes
      /\ u.window_done_pending = s.window_done_pending /\ SameRest(s, u)
  BY <1>1 DEF States, SameRest
<1>4. u.deadline \in Int /\ s.deadline \in Int /\ s.active \in Int /\ s.ring_started \in Int
  BY <1>1, <1>2, FieldTypes
<1>5. Ring(s, t) = Outcome(u, s.active, FALSE, FALSE)
  BY DEF Ring
<1> HIDE DEF u
<1>6. s.phase # "none" => Locked(s, u)
  BY <1>3, <1>4 DEF Locked
<1>7. Stored(u, t)
  BY <1>2, <1>3, StoredStays
<1>8. Session(u, t) /\ Snoozing(u) /\ WithinWindow(u)
  <2>1. u.done = s.done
    BY <1>3 DEF SameRest
  <2>2. t # None /\ FinalOf(u.deadline, u.manual_snoozes) \in Int /\ u.snooze_until \in Int
        /\ u.active \in Int /\ u.ring_started \in Int
    BY <1>2, FieldTypes, Literals
  <2>3. Session(u, t)
    BY <1>3, <1>4, <2>1, <2>2 DEF Session
  <2> QED BY <1>3, <2>2, <2>3, Literals DEF Snoozing, WithinWindow
<1>9. s.active # None
  BY DEF Session
<1>10. Sane(u, t)
  BY <1>7, <1>8 DEF Sane, Whole
<1> QED BY <1>3, <1>5, <1>6, <1>9, <1>10, Carries

\* A session is snoozed, a window no further than to its final alarm.
LEMMA HushCarried ==
  ASSUME NEW t \in Nat, NEW s, Stored(s, t), Session(s, t), s.mode # "idle", s.phase # "final",
         NEW until \in Nat, FinalOf(s.deadline, s.manual_snoozes) \in Int,
         s.phase # "none" => until <= FinalOf(s.deadline, s.manual_snoozes)
  PROVE  Carried(s, Hush(s, until), t)
<1> DEFINE u == [s EXCEPT !.mode = "snoozed", !.snooze_until = until, !.snoozes = @ + 1]
<1>1. s \in States
  BY DEF Stored
<1>2. u \in States
  <2>1. s.snoozes + 1 \in Nat
    BY <1>1, FieldTypes
  <2> QED BY <1>1, <2>1, Literals DEF States
<1>3. /\ u.mode = "snoozed" /\ u.ring_started = s.ring_started /\ u.snooze_until = until
      /\ u.active = s.active /\ u.active_kind = s.active_kind /\ u.deadline = s.deadline
      /\ u.phase = s.phase /\ u.manual_snoozes = s.manual_snoozes
      /\ u.window_done_pending = s.window_done_pending /\ SameRest(s, u)
  BY <1>1 DEF States, SameRest
<1>4. u.deadline \in Int /\ s.deadline \in Int /\ s.active \in Int /\ s.ring_started \in Int
  BY <1>1, <1>2, FieldTypes
<1>5. Hush(s, until) = Outcome(u, None, TRUE, FALSE)
  BY DEF Hush
<1> HIDE DEF u
<1>6. s.phase # "none" => Locked(s, u)
  BY <1>3, <1>4 DEF Locked
<1>7. Stored(u, t)
  BY <1>2, <1>3, StoredStays
<1>8. Session(u, t) /\ Snoozing(u) /\ WithinWindow(u)
  <2>1. u.done = s.done
    BY <1>3 DEF SameRest
  <2>2. until # None /\ u.snooze_until \in Int /\ u.active \in Int /\ u.ring_started \in Int
        /\ FinalOf(u.deadline, u.manual_snoozes) \in Int
    BY <1>2, FieldTypes, Literals
  <2>3. Session(u, t)
    BY <1>3, <1>4, <2>1, <2>2 DEF Session
  <2> QED BY <1>3, <2>2, <2>3, Literals DEF Snoozing, WithinWindow
<1>9. Sane(u, t)
  BY <1>7, <1>8 DEF Sane, Whole
<1> QED BY <1>3, <1>5, <1>6, <1>9, Carries

\* The same session but for when it wakes, and perhaps a nearer deadline.
Alike(s, u) ==
  /\ u \in States /\ SameRest(s, u) /\ u.window_done_pending = s.window_done_pending
  /\ u.mode = s.mode /\ u.active = s.active /\ u.active_kind = s.active_kind
  /\ u.ring_started = s.ring_started /\ u.phase = s.phase
  /\ s.phase # "none" => Locked(s, u)

\* What carries the one carries the other.
LEMMA AlikeCarried ==
  ASSUME NEW t \in Nat, NEW s \in States, NEW u, Alike(s, u), NEW o, Carried(u, o, t)
  PROVE  Carried(s, o, t)
<1>1. s.phase # "none" /\ o.state.active = s.active => Locked(s, o.state)
  <2>1. o.state \in States /\ u \in States
    BY DEF Carried, Sane, Whole, Stored, Alike
  <2>2. o.state.deadline \in Int /\ u.deadline \in Int /\ s.deadline \in Int
    BY <2>1, FieldTypes
  <2>3. s.phase # "none" /\ o.state.active = s.active => Locked(s, u) /\ Locked(u, o.state)
    BY DEF Alike, Carried
  <2> QED BY <2>2, <2>3 DEF Locked
<1>2. Audible(s, o)
  BY Zenon DEF Carried, Audible, Alike
<1>3. SameRest(s, o.state) /\ o.state.window_done_pending \in {s.window_done_pending, t}
  BY Zenon DEF Alike, Carried, SameRest
<1> QED BY Zenon, <1>1, <1>2, <1>3 DEF Carried, Alike

\* A replan only brings the deadline nearer, and changes nothing else.
LEMMA TightenedWhole ==
  ASSUME NEW t \in Nat, NEW s, Whole(s, t), NEW i \in Readings, s.phase # "none"
  PROVE  Whole(Tightened(s, i), t) /\ Alike(s, Tightened(s, i))
<1> DEFINE u == [s EXCEPT !.deadline = i.deadline_at]
<1>1. s \in States
  BY DEF Whole, Stored
<1>2. s.deadline \in Int /\ s.active \in Int /\ s.ring_started \in Int /\ s.snooze_until \in Int
  BY <1>1, FieldTypes
<1>3. CASE Tightened(s, i) = s
  BY <1>1, <1>2, <1>3 DEF Alike, SameRest, Locked
<1>4. CASE Tightened(s, i) # s
  <2>1. /\ Tightened(s, i) = u /\ i.deadline_at # None /\ s.manual_snoozes = None
        /\ i.deadline_at < s.deadline /\ i.deadline_at \in Instants
    BY <1>4 DEF Tightened, Readings
  <2>2. u \in States
    BY <1>1, <2>1 DEF States
  <2>3. /\ u.mode = s.mode /\ u.ring_started = s.ring_started /\ u.snooze_until = s.snooze_until
        /\ u.active = s.active /\ u.active_kind = s.active_kind /\ u.deadline = i.deadline_at
        /\ u.phase = s.phase /\ u.manual_snoozes = s.manual_snoozes
        /\ u.window_done_pending = s.window_done_pending /\ SameRest(s, u)
    BY <1>1 DEF States, SameRest
  <2> HIDE DEF u
  <2>4. Stored(u, t)
    BY <2>2, <2>3, StoredStays DEF Whole
  <2>5. i.deadline_at \in Int
    BY <2>1, Literals
  <2>6. Session(u, t)
    BY <1>2, <2>1, <2>3 DEF Session, Whole, SameRest
  <2>7. Snoozing(u)
    BY <2>3 DEF Snoozing, Whole
  <2>8. Locked(s, u)
    BY <1>2, <2>1, <2>3, <2>5 DEF Locked
  <2> QED BY <2>1, <2>2, <2>3, <2>4, <2>6, <2>7, <2>8 DEF Whole, Alike
<1> QED BY <1>3, <1>4

\* Of two instants, the sooner.
LEMMA SoonerIs ==
  ASSUME NEW a \in Int, NEW b \in Int
  PROVE  Sooner(a, b) \in {a, b} /\ Sooner(a, b) <= a /\ Sooner(a, b) <= b
  BY DEF Sooner

\* Bounding a snooze changes nothing else, and leaves a session in order while the
\* final alarm is still ahead, or ringing.
LEMMA BoundedSane ==
  ASSUME NEW t \in Nat, NEW s, Whole(s, t), s.phase # "none"
  PROVE  /\ Alike(s, Bounded(s)) /\ Stored(Bounded(s), t) /\ Session(Bounded(s), t)
         /\ Bounded(s).deadline = s.deadline /\ Bounded(s).manual_snoozes = s.manual_snoozes
         /\ s.phase = "final" \/ FinalOf(s.deadline, s.manual_snoozes) > t => Sane(Bounded(s), t)
         /\ s.mode = "ringing" => Bounded(s) = s /\ Sane(s, t)
<1> DEFINE F == FinalOf(s.deadline, s.manual_snoozes)
<1> DEFINE u == [s EXCEPT !.snooze_until = Sooner(@, F)]
<1>1. s \in States /\ Stored(s, t) /\ Session(s, t) /\ Snoozing(s)
  BY DEF Whole, Stored
<1>2. /\ s.deadline \in Int /\ s.active \in Int /\ s.ring_started \in Int
      /\ s.snooze_until \in Int /\ F \in Int
  BY <1>1, FieldTypes
<1>3. CASE s.snooze_until = None
  <2>1. Bounded(s) = s /\ s.mode # "snoozed"
    BY <1>1, <1>3 DEF Bounded, Snoozing
  <2>2. WithinWindow(s)
    BY <1>2, <2>1 DEF WithinWindow
  <2> QED BY <1>1, <1>2, <2>1, <2>2 DEF Alike, SameRest, Locked, Sane, Whole
<1>4. CASE s.snooze_until # None
  <2>1. Bounded(s) = u /\ s.mode = "snoozed" /\ s.phase # "final"
    BY <1>1, <1>4 DEF Bounded, Snoozing
  <2>2. Sooner(s.snooze_until, F) \in Int
    BY <1>2, SoonerIs
  <2>3. u \in States
    BY <1>1, <2>2 DEF States
  <2>4. /\ u.mode = s.mode /\ u.ring_started = s.ring_started
        /\ u.snooze_until = Sooner(s.snooze_until, F)
        /\ u.active = s.active /\ u.active_kind = s.active_kind /\ u.deadline = s.deadline
        /\ u.phase = s.phase /\ u.manual_snoozes = s.manual_snoozes
        /\ u.window_done_pending = s.window_done_pending /\ SameRest(s, u)
    BY <1>1 DEF States, SameRest
  <2> HIDE DEF u
  <2>5. Stored(u, t)
    BY <1>1, <2>3, <2>4, StoredStays
  <2>6. Session(u, t) /\ Locked(s, u)
    BY <1>1, <1>2, <2>4 DEF Session, SameRest, Locked
  <2>7. ASSUME F > t PROVE Sane(u, t)
    <3>1. s.snooze_until \in Nat
      BY <1>1, <1>4, Literals DEF Snoozing
    <3>2. u.snooze_until \in Nat /\ u.snooze_until <= F
      BY <1>2, <2>4, <2>7, <3>1, SoonerIs
    <3>3. Snoozing(u)
      BY <2>1, <2>4, <3>2, Literals DEF Snoozing
    <3>4. WithinWindow(u)
      BY <1>2, <2>4, <3>2 DEF WithinWindow
    <3> QED BY <2>5, <2>6, <3>3, <3>4 DEF Sane, Whole
  <2> QED BY <2>1, <2>3, <2>4, <2>5, <2>6, <2>7 DEF Alike
<1> QED BY <1>3, <1>4

\* A button's press that counts is an instant, the latest of them too.
LEMMA AcceptAlike ==
  ASSUME NEW t \in Nat, NEW s, Sane(s, t), NEW i \in Readings, Presses(s, i) # {}
  PROVE  LET u == Accept(s, Presses(s, i))
         IN Alike(s, u) /\ Sane(u, t) /\ u.deadline = s.deadline /\ u.manual_snoozes = s.manual_snoozes
<1> DEFINE P == Presses(s, i)
<1> DEFINE last == CHOOSE p \in P : \A q \in P : q <= p
<1> DEFINE u == [s EXCEPT !.accepted_control_at = last]
<1>1. s \in States
  BY DEF Sane, Whole, Stored
<1>2. PICK a \in Instants, b \in Instants : P \subseteq {a, b}
  BY DEF Presses, Readings
<1>3. a \in Int /\ b \in Int
  BY Literals
<1>4. \E p \in P : \A q \in P : q <= p
  <2> HIDE DEF P
  <2>1. P \subseteq {a, b} /\ P # {}
    BY <1>2 DEF P
  <2>2. CASE a <= b
    <3>1. CASE b \in P
      BY <1>3, <2>1, <2>2, <3>1
    <3>2. CASE b \notin P
      <4>1. P = {a}
        BY <2>1, <3>2
      <4> QED BY <1>3, <4>1
    <3> QED BY <3>1, <3>2
  <2>3. CASE b <= a
    <3>1. CASE a \in P
      BY <1>3, <2>1, <2>3, <3>1
    <3>2. CASE a \notin P
      <4>1. P = {b}
        BY <2>1, <3>2
      <4> QED BY <1>3, <4>1
    <3> QED BY <3>1, <3>2
  <2> QED BY <1>3, <2>2, <2>3
<1>5. last \in Instants
  <2> HIDE DEF P
  <2>1. last \in P
    BY <1>4
  <2> QED BY <1>2, <2>1
<1> HIDE DEF last
<1>6. u \in States
  BY <1>1, <1>5 DEF States
<1>7. /\ u.mode = s.mode /\ u.ring_started = s.ring_started /\ u.snooze_until = s.snooze_until
      /\ u.active = s.active /\ u.active_kind = s.active_kind /\ u.deadline = s.deadline
      /\ u.phase = s.phase /\ u.manual_snoozes = s.manual_snoozes
      /\ u.window_done_pending = s.window_done_pending /\ SameRest(s, u)
  BY <1>1 DEF States, SameRest
<1>8. Accept(s, Presses(s, i)) = u
  BY DEF Accept, last
<1> HIDE DEF u
<1>9. /\ s.deadline \in Int /\ s.active \in Int /\ s.ring_started \in Int /\ s.snooze_until \in Int
      /\ u.snooze_until \in Int /\ FinalOf(u.deadline, u.manual_snoozes) \in Int
  BY <1>1, <1>6, FieldTypes
<1>10. Stored(u, t)
  BY <1>6, <1>7, StoredStays DEF Sane, Whole
<1>11. (Session(u, t) /\ Locked(s, u)) \/ (s.phase = "none" /\ Session(u, t))
  BY <1>7, <1>9 DEF Session, SameRest, Locked, Sane, Whole
<1>12. Snoozing(u) /\ WithinWindow(u)
  BY <1>7, <1>9 DEF Snoozing, WithinWindow, Sane, Whole
<1> QED BY <1>6, <1>7, <1>8, <1>10, <1>11, <1>12 DEF Alike, Sane, Whole

\* A window snoozes up to its final alarm.
LEMMA SnoozeUntilIs ==
  ASSUME NEW t \in Nat, NEW s \in States, FinalOf(s.deadline, s.manual_snoozes) > t
  PROVE  /\ SnoozeUntil(s, t) \in Nat
         /\ SnoozeUntil(s, t) <= FinalOf(s.deadline, s.manual_snoozes)
<1> DEFINE F == FinalOf(s.deadline, s.manual_snoozes)
<1> DEFINE n == t + (IF s.manual_snoozes # None THEN ManualSnooze ELSE WindowSnooze)
<1>1. F \in Int
  BY FieldTypes
<1>2. n \in Nat
  BY StepAssumption
<1>3. SnoozeUntil(s, t) = Sooner(n, F)
  BY DEF SnoozeUntil
<1> HIDE DEF F, n
<1>4. F > t
  BY DEF F
<1>5. Sooner(n, F) \in {n, F} /\ Sooner(n, F) <= F
  BY <1>1, <1>2, SoonerIs
<1> QED BY <1>1, <1>2, <1>3, <1>4, <1>5 DEF F

\* The final alarm of a window that is due: it rings, unless that is long past.
LEMMA EnterFinalCarried ==
  ASSUME NEW t \in Nat, NEW s, Stored(s, t), Session(s, t), s.phase # "none",
         s.mode = "ringing" => Sane(s, t)
  PROVE  Carried(s, EnterFinal(s, t), t)
<1> DEFINE u == [s EXCEPT !.phase = "final"]
<1>1. s \in States /\ s.mode # "idle" /\ s.deadline # None /\ s.active_kind = "wake"
  BY DEF Stored, Session
<1>2. u \in States
  BY <1>1, Literals DEF States
<1>3. /\ u.mode = s.mode /\ u.ring_started = s.ring_started /\ u.snooze_until = s.snooze_until
      /\ u.active = s.active /\ u.active_kind = s.active_kind /\ u.deadline = s.deadline
      /\ u.phase = "final" /\ u.manual_snoozes = s.manual_snoozes
      /\ u.window_done_pending = s.window_done_pending /\ SameRest(s, u)
  BY <1>1 DEF States, SameRest
<1> HIDE DEF u
<1>4. /\ s.deadline \in Int /\ s.active \in Int /\ s.ring_started \in Int /\ s.snooze_until \in Int
      /\ u.snooze_until \in Int /\ FinalOf(u.deadline, u.manual_snoozes) \in Int
      /\ u.active \in Int /\ u.ring_started \in Int
  BY <1>1, <1>2, FieldTypes
<1>5. Stored(u, t)
  BY <1>2, <1>3, StoredStays
<1>6. Session(u, t) /\ Locked(s, u)
  BY <1>1, <1>3, <1>4 DEF Session, SameRest, Locked
<1>7. CASE s.mode = "ringing"
  <2>1. EnterFinal(s, t) = Keep(u)
    BY <1>7 DEF EnterFinal, u
  <2>2. Sane(u, t)
    BY <1>3, <1>4, <1>5, <1>6, <1>7 DEF Sane, Whole, Snoozing, WithinWindow
  <2>3. Carried(u, Keep(u), t)
    BY <2>2, KeepCarried
  <2>4. s.phase = "final" \/ s.phase # "final"
    OBVIOUS
  <2>5. SameRest(s, u) /\ Keep(u) = Outcome(u, None, FALSE, FALSE)
    BY <1>3 DEF Keep
  <2> QED BY <1>3, <1>6, <1>7, <2>1, <2>2, <2>5, Carries
<1>8. CASE s.mode # "ringing"
  <2>1. ASSUME t - FinalOf(s.deadline, s.manual_snoozes) > StaleLimit
        PROVE  Carried(s, EnterFinal(s, t), t)
    <3>1. EnterFinal(s, t) = End(s)
      BY <1>8, <2>1 DEF EnterFinal
    <3> QED BY <3>1, EndCarried
  <2>2. ASSUME ~(t - FinalOf(s.deadline, s.manual_snoozes) > StaleLimit)
        PROVE  Carried(s, EnterFinal(s, t), t)
    <3>1. EnterFinal(s, t) = Ring(u, t)
      BY <1>8, <2>2 DEF EnterFinal, u
    <3>2. Carried(u, Ring(u, t), t)
      BY <1>1, <1>3, <1>5, <1>6, RingCarried
    <3>3. Carried(s, Ring(u, t), t)
      <4>1. Ring(u, t).state.active = s.active => Locked(s, Ring(u, t).state)
        <5>1. Ring(u, t).state \in States
          BY <3>2 DEF Carried, Sane, Whole, Stored
        <5>2. Ring(u, t).state.deadline \in Int /\ u.deadline \in Int
          BY <1>2, <5>1, FieldTypes
        <5>3. Ring(u, t).state.active = s.active => Locked(u, Ring(u, t).state)
          BY <1>3, <3>2 DEF Carried
        <5> QED BY <1>3, <5>2, <5>3 DEF Locked
      <4>2. Audible(s, Ring(u, t))
        BY Zenon, <1>3, <3>2 DEF Carried, Audible
      <4>3. SameRest(s, Ring(u, t).state)
        BY Zenon, <1>3, <3>2 DEF Carried, SameRest
      <4> QED BY Zenon, <1>3, <3>2, <4>1, <4>2, <4>3 DEF Carried
    <3> QED BY <3>1, <3>3
  <2> QED BY <2>1, <2>2
<1> QED BY <1>7, <1>8

\* One poll of a window.
LEMMA WindowActCarried ==
  ASSUME NEW t \in Nat, NEW s, Stored(s, t), Session(s, t), s.phase # "none", NEW i \in Readings,
         s.mode = "ringing" => Sane(s, t),
         s.phase = "final" => Sane(s, t),
         FinalOf(s.deadline, s.manual_snoozes) \in Int,
         FinalOf(s.deadline, s.manual_snoozes) > t => Sane(s, t)
  PROVE  Carried(s, WindowAct(s, t, i), t)
<1> DEFINE o == WindowAct(s, t, i)
<1> DEFINE F == FinalOf(s.deadline, s.manual_snoozes)
<1>1. s \in States /\ s.mode # "idle" /\ s.active # None
  BY DEF Stored, Session
<1>2. CASE i.activity_at # None
  <2> DEFINE u == [Idle(s) EXCEPT !.window_done_pending = t]
  <2>1. o = Outcome(u, None, s.mode = "ringing", TRUE)
    BY <1>2 DEF WindowAct
  <2>2. Idle(s) \in States /\ Sane(Idle(s), t)
    BY <1>1, IdleFields, IdleSane
  <2>3. u \in States
    BY <2>2, Literals DEF States
  <2>4. /\ u.mode = "idle" /\ u.active = None /\ u.snooze_until = None /\ u.deadline = None
        /\ u.phase = "none" /\ u.manual_snoozes = None /\ u.window_done_pending = t
        /\ SameRest(s, u)
    <3>1. /\ u.mode = Idle(s).mode /\ u.active = Idle(s).active
          /\ u.snooze_until = Idle(s).snooze_until /\ u.deadline = Idle(s).deadline
          /\ u.phase = Idle(s).phase /\ u.manual_snoozes = Idle(s).manual_snoozes
          /\ u.window_done_pending = t /\ SameRest(Idle(s), u)
      BY <2>2 DEF States, SameRest
    <3> HIDE DEF u
    <3>2. SameRest(s, u)
      BY ZenonT(30), <1>1, <3>1, IdleFields DEF SameRest
    <3> QED BY <1>1, <3>1, <3>2, IdleFields
  <2> HIDE DEF u
  <2>5. Stored(u, t)
    BY <2>3, <2>4, StoredStays
  <2>6. Sane(u, t)
    BY <2>4, <2>5, Literals DEF Sane, Whole, Session, Snoozing, WithinWindow
  <2> HIDE DEF o
  <2>7. Carried(s, Outcome(u, None, s.mode = "ringing", TRUE), t)
    BY <1>1, <2>4, <2>6, Carries
  <2> QED BY <2>1, <2>7 DEF o
<1>3. CASE i.activity_at = None /\ s.phase = "final"
  BY <1>3, KeepCarried DEF WindowAct
<1>4. CASE i.activity_at = None /\ s.phase # "final" /\ F <= t
  BY <1>4, EnterFinalCarried DEF WindowAct
<1>5. CASE i.activity_at = None /\ s.phase # "final" /\ ~(F <= t)
  <2>1. F > t /\ Sane(s, t)
    BY <1>5
  <2>2. SnoozeUntil(s, t) \in Nat /\ SnoozeUntil(s, t) <= F
    BY <1>1, <2>1, SnoozeUntilIs
  <2>3. CASE s.mode = "ringing" /\ Presses(s, i) # {} /\ MaySnooze(s)
    <3> DEFINE u == Accept(s, Presses(s, i))
    <3>1. o = Hush(u, SnoozeUntil(s, t))
      BY <1>5, <2>3 DEF WindowAct
    <3>2. Alike(s, u) /\ Sane(u, t) /\ u.deadline = s.deadline /\ u.manual_snoozes = s.manual_snoozes
      BY <2>1, <2>3, AcceptAlike
    <3> HIDE DEF u, o
    <3>3. u.mode # "idle" /\ u.phase # "final" /\ Stored(u, t) /\ Session(u, t)
      BY <1>1, <1>5, <3>2 DEF Alike, Sane, Whole
    <3>4. Carried(u, Hush(u, SnoozeUntil(s, t)), t)
      BY <2>2, <3>2, <3>3, HushCarried
    <3> QED BY <1>1, <3>1, <3>2, <3>4, AlikeCarried DEF o
  <2>4. CASE /\ s.mode = "ringing" /\ ~(Presses(s, i) # {} /\ MaySnooze(s))
             /\ s.manual_snoozes = None /\ t - s.ring_started >= MaxRing
    <3>1. o = Hush(s, SnoozeUntil(s, t))
      BY <1>5, <2>4 DEF WindowAct
    <3> QED BY <1>1, <1>5, <2>2, <3>1, HushCarried
  <2>5. CASE /\ s.mode = "ringing" /\ ~(Presses(s, i) # {} /\ MaySnooze(s))
             /\ ~(s.manual_snoozes = None /\ t - s.ring_started >= MaxRing)
    <3>1. o = Keep(s)
      BY <1>5, <2>5 DEF WindowAct
    <3> QED BY <2>1, <3>1, KeepCarried
  <2>6. CASE s.mode # "ringing" /\ s.snooze_until <= t
    <3>1. o = Ring(s, t)
      BY <1>5, <2>6 DEF WindowAct
    <3> QED BY <1>1, <3>1, RingCarried
  <2>7. CASE s.mode # "ringing" /\ ~(s.snooze_until <= t)
    <3>1. o = Keep(s)
      BY <1>5, <2>7 DEF WindowAct
    <3> QED BY <2>1, <3>1, KeepCarried
  <2> QED BY <2>3, <2>4, <2>5, <2>6, <2>7
<1> QED BY <1>2, <1>3, <1>4, <1>5

\* A window is carried on, whatever is read.
LEMMA WindowCarried ==
  ASSUME NEW t \in Nat, NEW s, Whole(s, t), s.phase # "none", NEW i \in Readings
  PROVE  Carried(s, WindowStep(s, t, i), t)
<1> DEFINE u == Tightened(s, i)
<1> DEFINE b == Bounded(u)
<1>1. s \in States /\ Whole(u, t) /\ Alike(s, u)
  BY TightenedWhole DEF Whole, Stored
<1>2. u \in States /\ u.phase # "none"
  BY <1>1 DEF Whole, Stored, Alike
<1>3. WindowStep(s, t, i) = WindowAct(b, t, i)
  BY DEF WindowStep
<1> HIDE DEF u
<1>4. /\ Alike(u, b) /\ Stored(b, t) /\ Session(b, t)
      /\ b.deadline = u.deadline /\ b.manual_snoozes = u.manual_snoozes
      /\ u.phase = "final" \/ FinalOf(u.deadline, u.manual_snoozes) > t => Sane(b, t)
      /\ u.mode = "ringing" => b = u /\ Sane(u, t)
  BY <1>1, <1>2, BoundedSane
<1> HIDE DEF b
<1>5. b.phase # "none" /\ b.phase = u.phase /\ b.mode = u.mode
  BY <1>2, <1>4 DEF Alike
<1>6. FinalOf(b.deadline, b.manual_snoozes) \in Int
  BY <1>4, FieldTypes DEF Stored
<1>7. FinalOf(b.deadline, b.manual_snoozes) > t => Sane(b, t)
  BY <1>4
<1>8. Carried(b, WindowAct(b, t, i), t)
  BY <1>4, <1>5, <1>6, <1>7, WindowActCarried
<1> QED BY <1>1, <1>2, <1>3, <1>4, <1>8, AlikeCarried

\* The earlier of an instant and the published cap.
LEMMA CappedIs ==
  ASSUME NEW s \in States, NEW x \in Nat
  PROVE  Capped(s, x) \in Nat
<1>1. s.prep_threshold \in Instants
  BY DEF States
<1>2. CASE s.prep_threshold = None
  BY <1>2 DEF Capped
<1>3. CASE s.prep_threshold # None
  <2>1. s.prep_threshold \in Nat /\ s.prep_threshold \in Int /\ x \in Int
    BY <1>1, <1>3, Literals
  <2>2. Capped(s, x) = Sooner(s.prep_threshold, x)
    BY <1>3 DEF Capped
  <2> QED BY <2>1, <2>2, SoonerIs
<1> QED BY <1>2, <1>3

\* A legacy alarm that rings.
LEMMA RingingCarried ==
  ASSUME NEW t \in Nat, NEW s, Whole(s, t), s.phase = "none", s.mode = "ringing",
         NEW i \in Readings
  PROVE  Carried(s, RingingStep(s, t, i), t)
<1>1. s \in States /\ Stored(s, t) /\ Session(s, t) /\ Sane(s, t)
  BY DEF Whole, Stored, Sane, WithinWindow
<1>2. Capped(s, t + Snooze) \in Nat /\ FinalOf(s.deadline, s.manual_snoozes) \in Int
  <2>1. t + Snooze \in Nat
    BY StepAssumption
  <2> QED BY <1>1, <2>1, CappedIs, FieldTypes
<1>3. Carried(s, End(s), t) /\ Carried(s, Keep(s), t)
  BY <1>1, EndCarried, KeepCarried
<1>4. Carried(s, Hush(s, Capped(s, t + Snooze)), t)
  BY <1>1, <1>2, HushCarried
<1> QED BY <1>3, <1>4 DEF RingingStep

\* A legacy alarm that is snoozed; the published cap may have moved closer.
LEMMA SnoozedCarried ==
  ASSUME NEW t \in Nat, NEW s, Whole(s, t), s.phase = "none", s.mode = "snoozed",
         NEW i \in Readings
  PROVE  Carried(s, SnoozedStep(s, t, i), t)
<1> DEFINE u == [s EXCEPT !.snooze_until = Capped(s, @)]
<1>1. s \in States /\ Stored(s, t) /\ Session(s, t) /\ Snoozing(s)
  BY DEF Whole, Stored
<1>2. Capped(s, s.snooze_until) \in Nat
  <2>1. s.snooze_until \in Nat
    BY <1>1, Literals DEF Snoozing
  <2> QED BY <1>1, <2>1, CappedIs
<1>3. u \in States
  BY <1>1, <1>2 DEF States
<1>4. /\ u.mode = s.mode /\ u.ring_started = s.ring_started
      /\ u.snooze_until = Capped(s, s.snooze_until)
      /\ u.active = s.active /\ u.active_kind = s.active_kind /\ u.deadline = s.deadline
      /\ u.phase = s.phase /\ u.manual_snoozes = s.manual_snoozes
      /\ u.window_done_pending = s.window_done_pending /\ SameRest(s, u)
  BY <1>1 DEF States, SameRest
<1> HIDE DEF u
<1>5. s.active \in Int /\ s.ring_started \in Int /\ u.active \in Int /\ u.ring_started \in Int
  BY <1>1, <1>3, FieldTypes
<1>6. Stored(u, t) /\ Alike(s, u)
  BY <1>1, <1>3, <1>4, StoredStays DEF Alike
<1>7. Session(u, t)
  BY <1>1, <1>4, <1>5 DEF Session, SameRest
<1>8. Sane(u, t)
  BY <1>2, <1>4, <1>6, <1>7, Literals DEF Sane, Whole, Snoozing, WithinWindow
<1>9. Carried(s, End(s), t)
  BY <1>1, EndCarried
<1>10. Carried(s, Wakened(u, t), t)
  <2>1. Carried(u, Keep(u), t) /\ Carried(u, End(u), t) /\ Carried(u, Ring(u, t), t)
    BY <1>4, <1>6, <1>7, <1>8, KeepCarried, EndCarried, RingCarried
  <2>2. Carried(u, Wakened(u, t), t)
    BY <2>1 DEF Wakened
  <2> QED BY <1>1, <1>6, <2>2, AlikeCarried
<1>11. SnoozedStep(s, t, i) = IF Stopped(s, i) THEN End(s) ELSE Wakened(u, t)
  BY DEF SnoozedStep, u
<1> QED BY <1>9, <1>10, <1>11

\* The session of a poll.
LEMMA SessionCarried ==
  ASSUME NEW t \in Nat, NEW s, Whole(s, t), NEW i \in Readings
  PROVE  Carried(s, SessionStep(s, t, i), t)
<1>1. CASE s.mode = "idle"
  <2>1. s.phase = "none"
    BY <1>1 DEF Whole, Session
  <2>2. Sane(s, t)
    BY <2>1 DEF Sane, WithinWindow
  <2> QED BY <1>1, <2>2, KeepCarried DEF SessionStep
<1>2. CASE s.mode # "idle" /\ s.phase # "none"
  BY <1>2, WindowCarried DEF SessionStep
<1>3. CASE s.mode = "ringing" /\ s.phase = "none"
  BY <1>3, RingingCarried DEF SessionStep
<1>4. CASE s.mode \notin {"idle", "ringing"} /\ s.phase = "none"
  <2>1. s.mode = "snoozed"
    BY <1>4 DEF Whole, Stored, States, Modes
  <2> QED BY <1>4, <2>1, SnoozedCarried DEF SessionStep
<1> QED BY <1>1, <1>2, <1>3, <1>4

-----------------------------------------------------------------------------
\* The steps of a poll around its session.

\* A new reading of the settings leaves the session and what is pending alone.
LEMMA SettingsWhole ==
  ASSUME NEW t \in Nat, NEW s, Whole(s, t), NEW i \in Readings
  PROVE  LET u == Settings(s, i)
         IN /\ Whole(u, t) /\ u.enabled \in BOOLEAN
            /\ u.enabled = (IF i.ha_ok /\ i.enabled # "unknown" THEN i.enabled = "on" ELSE s.enabled)
            /\ u.mode = s.mode /\ u.active = s.active /\ u.active_kind = s.active_kind
            /\ u.phase = s.phase /\ u.deadline = s.deadline /\ u.manual_snoozes = s.manual_snoozes
            /\ u.done = s.done /\ u.pending = s.pending /\ u.pending_kind = s.pending_kind
            /\ u.pending_deadline = s.pending_deadline
            /\ u.pending_manual_snoozes = s.pending_manual_snoozes
            /\ u.window_done_pending = s.window_done_pending /\ u.audio_failed = s.audio_failed
            /\ u.snooze_until = s.snooze_until /\ u.ring_started = s.ring_started
<1> DEFINE e == IF i.ha_ok /\ i.enabled # "unknown" THEN i.enabled = "on" ELSE s.enabled
<1> DEFINE p == IF i.ha_ok /\ i.known THEN i.prep_threshold ELSE s.prep_threshold
<1> DEFINE u == [s EXCEPT !.enabled = e, !.prep_threshold = p]
<1>1. s \in States /\ Settings(s, i) = u
  BY DEF Whole, Stored, Settings
<1>2. e \in BOOLEAN
  <2>1. s.enabled \in BOOLEAN
    BY <1>1 DEF States
  <2> QED BY <2>1
<1>3. p \in Instants
  BY <1>1 DEF States, Readings
<1> HIDE DEF e, p
<1>4. u \in States
  BY <1>1, <1>2, <1>3 DEF States
<1>5. /\ u.enabled = e
      /\ u.mode = s.mode /\ u.active = s.active /\ u.active_kind = s.active_kind
      /\ u.phase = s.phase /\ u.deadline = s.deadline /\ u.manual_snoozes = s.manual_snoozes
      /\ u.done = s.done /\ u.pending = s.pending /\ u.pending_kind = s.pending_kind
      /\ u.pending_deadline = s.pending_deadline
      /\ u.pending_manual_snoozes = s.pending_manual_snoozes
      /\ u.window_done_pending = s.window_done_pending /\ u.audio_failed = s.audio_failed
      /\ u.snooze_until = s.snooze_until /\ u.ring_started = s.ring_started
  BY <1>1 DEF States
<1> HIDE DEF u
<1>6. /\ s.active \in Int /\ s.ring_started \in Int /\ s.window_done_pending \in Int
      /\ u.active \in Int /\ u.ring_started \in Int /\ u.window_done_pending \in Int
  BY <1>1, <1>4, FieldTypes
<1>7. Stored(u, t)
  BY <1>4, <1>5, <1>6 DEF Whole, Stored
<1>8. Session(u, t)
  BY <1>5, <1>6 DEF Whole, Session
<1>9. Snoozing(u)
  BY <1>5 DEF Whole, Snoozing
<1> QED BY <1>1, <1>2, <1>5, <1>7, <1>8, <1>9 DEF Whole, e

\* A pending nap is where the helper says, if Home Assistant shows it at all.
NapStands(s, i) ==
  s.pending # None /\ s.pending_kind = "nap" /\ i.ha_ok /\ i.nap_known =>
    i.nap_at = s.pending /\ i.skipped_at # s.pending

\* A pending instant that is cancelled is done; one that is not stays as it was.
LEMMA DropPendingWhole ==
  ASSUME NEW t \in Nat, NEW s, Whole(s, t), NEW i \in Readings
  PROVE  LET u == DropPending(s, t, i)
         IN /\ Whole(u, t) /\ s.done \subseteq u.done /\ NapStands(u, i)
            /\ u.mode = s.mode /\ u.active = s.active /\ u.active_kind = s.active_kind
            /\ u.phase = s.phase /\ u.deadline = s.deadline /\ u.manual_snoozes = s.manual_snoozes
            /\ u.enabled = s.enabled
            /\ u.window_done_pending = s.window_done_pending /\ u.audio_failed = s.audio_failed
            /\ u.pending_deadline = s.pending_deadline
            /\ u.pending_manual_snoozes = s.pending_manual_snoozes
            /\ \/ u.pending = s.pending /\ u.pending_kind = s.pending_kind
               \/ u.pending = None /\ s.pending \in u.done
            /\ i.ha_ok /\ i.known /\ i.wake_at = None /\ s.pending_kind = "wake"
                 => s.pending = None \/ s.pending \in u.done
<1> DEFINE rolls == /\ s.pending <= t
                    /\ t - s.pending <= StaleLimit \/ s.pending_deadline # None
<1> DEFINE gone == s.pending # None /\ Cancelled(s.pending, s.pending_kind, i, rolls, FALSE)
<1> DEFINE u == [s EXCEPT !.done = @ \cup {s.pending}, !.pending = None, !.pending_kind = "none"]
<1>1. s \in States /\ Stored(s, t) /\ Session(s, t) /\ Snoozing(s)
  BY DEF Whole, Stored
<1>2. DropPending(s, t, i) = IF gone THEN u ELSE s
  BY DEF DropPending
<1>3. CASE gone
  <2>1. s.pending \in Nat /\ s.done \in SUBSET Nat
    BY <1>1, <1>3, Literals DEF States
  <2>2. u \in States
    BY <1>1, <2>1, Literals DEF States
  <2>3. /\ u.done = s.done \cup {s.pending} /\ u.pending = None /\ u.enabled = s.enabled
        /\ u.mode = s.mode /\ u.active = s.active /\ u.active_kind = s.active_kind
        /\ u.phase = s.phase /\ u.deadline = s.deadline /\ u.manual_snoozes = s.manual_snoozes
        /\ u.pending_deadline = s.pending_deadline
        /\ u.pending_manual_snoozes = s.pending_manual_snoozes
        /\ u.window_done_pending = s.window_done_pending /\ u.audio_failed = s.audio_failed
        /\ u.snooze_until = s.snooze_until /\ u.ring_started = s.ring_started
    BY <1>1 DEF States
  <2> HIDE DEF u
  <2>4. /\ s.active \in Int /\ s.ring_started \in Int /\ s.window_done_pending \in Int
        /\ u.active \in Int /\ u.ring_started \in Int /\ u.window_done_pending \in Int
    BY <1>1, <2>2, FieldTypes
  <2>5. Stored(u, t)
    BY <1>1, <2>2, <2>3, <2>4 DEF Stored
  <2>6. Session(u, t)
    BY <1>1, <2>3, <2>4 DEF Session
  <2>7. Snoozing(u) /\ NapStands(u, i)
    BY <1>1, <2>3 DEF Snoozing, NapStands
  <2>8. DropPending(s, t, i) = u
    BY <1>2, <1>3
  <2> HIDE DEF gone
  <2> QED BY <2>3, <2>5, <2>6, <2>7, <2>8 DEF Whole
<1>4. CASE ~gone
  <2>1. DropPending(s, t, i) = s
    BY <1>2, <1>4
  <2>2. NapStands(s, i)
    BY <1>4 DEF NapStands, Cancelled
  <2>3. i.ha_ok /\ i.known /\ i.wake_at = None /\ s.pending_kind = "wake" => s.pending = None
    BY <1>4 DEF Cancelled
  <2> HIDE DEF gone
  <2> QED BY <1>1, <2>1, <2>2, <2>3 DEF Whole
<1> QED BY <1>3, <1>4

-----------------------------------------------------------------------------
\* What a poll may ring.

\* The order of the naturals is well-founded, as a set of pairs.
LEMMA LessIsWellFounded ==
  IsWellFoundedOn({p \in Nat \X Nat : p[1] < p[2]}, Nat)
<1>1. {p \in Nat \X Nat : p[1] < p[2]} = OpToRel(<, Nat)
  BY DEF OpToRel
<1> QED BY <1>1, NatLessThanWellFounded

\* Numbers have a least one.
LEMMA Least ==
  ASSUME NEW S, S \subseteq Nat, S # {}
  PROVE  \E n \in S : \A m \in S : n <= m
<1> DEFINE R == {p \in Nat \X Nat : p[1] < p[2]}
<1>1. IsWellFoundedOn(R, Nat)
  BY LessIsWellFounded
<1> HIDE DEF R
<1>2. PICK n \in S : \A m \in S : ~(<<m, n>> \in R)
  BY <1>1, WFMin
<1>3. ASSUME NEW m \in S PROVE n <= m
  <2>1. n \in Nat /\ m \in Nat
    OBVIOUS
  <2>2. ~(m < n)
    BY <1>2, <2>1 DEF R
  <2> QED BY <2>1, <2>2
<1> QED BY <1>3

\* Ranked candidates have a first one.
LEMMA FirstIs ==
  ASSUME NEW cs, cs # {}, \A c \in cs : c.at \in Nat /\ c.rank \in 0..2
  PROVE  First(cs) \in cs
<1> DEFINE M == {3 * c.at + c.rank : c \in cs}
<1>1. M \subseteq Nat /\ M # {}
  <2>1. ASSUME NEW c \in cs PROVE 3 * c.at + c.rank \in Nat
    <3>1. c.at \in Nat /\ c.rank \in Nat
      OBVIOUS
    <3> QED BY <3>1
  <2> QED BY <2>1
<1>2. PICK n \in M : \A m \in M : n <= m
  <2> HIDE DEF M
  <2> QED BY <1>1, Least
<1>3. PICK c \in cs : n = 3 * c.at + c.rank
  OBVIOUS
<1>4. ASSUME NEW e \in cs PROVE c.at < e.at \/ (c.at = e.at /\ c.rank <= e.rank)
  <2>1. 3 * c.at + c.rank <= 3 * e.at + e.rank
    BY <1>2, <1>3
  <2>2. c.at \in Nat /\ e.at \in Nat /\ c.rank \in 0..2 /\ e.rank \in 0..2
    OBVIOUS
  <2> QED BY <2>1, <2>2
<1> HIDE DEF M
<1> QED BY <1>4 DEF First

\* Of the candidates for one instant one has the last entry.
LEMMA LastIs ==
  ASSUME NEW cs, NEW c \in cs, \A e \in cs : e.rank \in 0..2
  PROVE  /\ LastAt(cs, c.at) \in cs /\ LastAt(cs, c.at).at = c.at
         /\ \A e \in cs : e.at = c.at => e.rank <= LastAt(cs, c.at).rank
<1> DEFINE M == {2 - e.rank : e \in {x \in cs : x.at = c.at}}
<1>1. M \subseteq Nat /\ M # {}
  <2>1. ASSUME NEW e \in cs PROVE 2 - e.rank \in Nat
    <3>1. e.rank \in 0..2
      OBVIOUS
    <3> QED BY <3>1
  <2> QED BY <2>1
<1>2. PICK n \in M : \A m \in M : n <= m
  <2> HIDE DEF M
  <2> QED BY <1>1, Least
<1>3. PICK l \in cs : l.at = c.at /\ n = 2 - l.rank
  OBVIOUS
<1>4. ASSUME NEW e \in cs, e.at = c.at PROVE e.rank <= l.rank
  <2>1. 2 - l.rank <= 2 - e.rank
    BY <1>2, <1>3, <1>4
  <2>2. l.rank \in 0..2 /\ e.rank \in 0..2
    OBVIOUS
  <2> QED BY <2>1, <2>2
<1>5. \E x \in cs : x.at = c.at /\ \A e \in cs : e.at = c.at => e.rank <= x.rank
  BY <1>3, <1>4
<1> HIDE DEF M
<1> QED BY <1>5 DEF LastAt

\* A candidate is a wake or a nap that is not done: what is pending, or what is live.
LEMMA CandidateIs ==
  ASSUME NEW t \in Nat, NEW s, Stored(s, t), NEW i \in Readings, NEW c \in Candidates(s, i)
  PROVE  /\ c.at \in Nat /\ c.rank \in 0..2 /\ c.at \notin s.done
         /\ c.kind \in {"wake", "nap"} /\ c.kind \in Kinds
         /\ c.rank = 0 => c.at = s.pending /\ c.kind = s.pending_kind
         /\ c.rank = 1 => c.kind = "wake" /\ i.ha_ok /\ i.known
         /\ c.rank = 2 => c.kind = "nap" /\ i.ha_ok /\ i.nap_at = c.at
<1>1. s.pending \in Instants /\ s.pending_kind \in Kinds /\ (s.pending # None => s.pending_kind # "none")
  BY DEF Stored, States
<1>2. i.wake_at \in Instants /\ i.nap_at \in Instants
  BY DEF Readings
<1>3. c.at \notin s.done
  BY DEF Candidates
<1>4. \/ s.pending # None /\ c = [at |-> s.pending, kind |-> s.pending_kind, rank |-> 0]
      \/ /\ i.ha_ok /\ i.known /\ i.wake_at # None
         /\ c = [at |-> i.wake_at, kind |-> "wake", rank |-> 1]
      \/ /\ i.ha_ok /\ i.nap_at # None
         /\ c = [at |-> i.nap_at, kind |-> "nap", rank |-> 2]
  BY DEF Candidates
<1>5. CASE s.pending # None /\ c = [at |-> s.pending, kind |-> s.pending_kind, rank |-> 0]
  <2>1. c.at = s.pending /\ c.kind = s.pending_kind /\ c.rank = 0
    BY <1>5
  <2>2. s.pending \in Nat /\ s.pending_kind \in {"wake", "nap"}
    BY <1>1, <1>5, Literals DEF Kinds
  <2> QED BY <1>1, <1>3, <2>1, <2>2
<1>6. CASE /\ i.ha_ok /\ i.known /\ i.wake_at # None
           /\ c = [at |-> i.wake_at, kind |-> "wake", rank |-> 1]
  <2>1. c.at = i.wake_at /\ c.kind = "wake" /\ c.rank = 1
    BY <1>6
  <2>2. c.at \in Nat /\ c.rank \in 0..2
    <3>1. i.wake_at \in Nat
      BY <1>2, <1>6, Literals
    <3>2. c.rank \in 0..2
      BY <2>1
    <3> QED BY <2>1, <3>1, <3>2
  <2>3. c.kind \in {"wake", "nap"} /\ c.kind \in Kinds
    BY <2>1, Literals
  <2>4. c.rank # 0 /\ c.rank # 2
    BY <2>1
  <2> QED BY <1>3, <1>6, <2>1, <2>2, <2>3, <2>4
<1>7. CASE /\ i.ha_ok /\ i.nap_at # None
           /\ c = [at |-> i.nap_at, kind |-> "nap", rank |-> 2]
  <2>1. c.at = i.nap_at /\ c.kind = "nap" /\ c.rank = 2
    BY <1>7
  <2>2. c.at \in Nat /\ c.rank \in 0..2
    <3>1. i.nap_at \in Nat
      BY <1>2, <1>7, Literals
    <3>2. c.rank \in 0..2
      BY <2>1
    <3> QED BY <2>1, <3>1, <3>2
  <2>3. c.kind \in {"wake", "nap"} /\ c.kind \in Kinds
    BY <2>1, Literals
  <2>4. c.rank # 0 /\ c.rank # 1
    BY <2>1
  <2> QED BY <1>3, <1>7, <2>1, <2>2, <2>3, <2>4
<1> QED BY <1>4, <1>5, <1>6, <1>7

\* A pending nap that Home Assistant shows is among the live candidates.
LEMMA NapIsLive ==
  ASSUME NEW s, NEW i \in Readings, i.known = i.nap_known, NapStands(s, i),
         s.pending # None, s.pending_kind = "nap", i.ha_ok, i.known, s.pending \notin s.done
  PROVE  [at |-> s.pending, kind |-> "nap", rank |-> 2] \in Candidates(s, i)
<1>1. i.nap_at = s.pending /\ i.skipped_at # s.pending /\ i.nap_known
  BY DEF NapStands
<1>2. ~Cancelled(i.nap_at, "nap", i, FALSE, FALSE)
  BY <1>1 DEF Cancelled
<1> QED BY <1>1, <1>2 DEF Candidates

\* A count goes with a wake; what is pending brings its own.
LEMMA CountIs ==
  ASSUME NEW t \in Nat, NEW s, Stored(s, t), NEW i \in Readings, NEW x \in Nat, NEW kind
  PROVE  /\ ManualCount(x, kind, i, s) \in Instants /\ CommuteDeadline(x, kind, i, s) \in Instants
         /\ CommuteDeadline(x, kind, i, s) # None => kind = "wake"
         /\ ManualCount(x, kind, i, s) # None =>
              kind = "wake" /\ CommuteDeadline(x, kind, i, s) # None
         /\ kind = "wake" /\ x = s.pending /\ s.pending_manual_snoozes # None =>
              /\ ManualCount(x, kind, i, s) = s.pending_manual_snoozes
              /\ CommuteDeadline(x, kind, i, s) = s.pending_deadline
<1>1. /\ s.pending_deadline \in Instants /\ s.pending_manual_snoozes \in Instants
      /\ x = s.pending /\ s.pending_manual_snoozes # None => s.pending_deadline # None
  BY Literals DEF Stored, States
<1>2. i.deadline_at \in Instants /\ i.manual_snoozes \in Instants
  BY DEF Readings
<1>3. ManualCount(x, kind, i, s) \in Instants
  BY <1>1, <1>2, Literals DEF ManualCount
<1>4. CommuteDeadline(x, kind, i, s) \in Instants
  <2>1. x + FirstLead \in Nat
    BY StepAssumption
  <2> QED BY <1>1, <1>2, <2>1, Literals DEF CommuteDeadline
<1>5. CommuteDeadline(x, kind, i, s) # None => kind = "wake"
  BY DEF CommuteDeadline
<1>6. ManualCount(x, kind, i, s) # None =>
        kind = "wake" /\ CommuteDeadline(x, kind, i, s) # None
  BY DEF CommuteDeadline, ManualCount
<1>7. kind = "wake" /\ x = s.pending /\ s.pending_manual_snoozes # None =>
              /\ ManualCount(x, kind, i, s) = s.pending_manual_snoozes
              /\ CommuteDeadline(x, kind, i, s) = s.pending_deadline
  BY <1>1 DEF CommuteDeadline, ManualCount
<1> QED BY <1>3, <1>4, <1>5, <1>6, <1>7

\* The candidates that have fallen due, and those ahead.
Due(s, t, i) == {c \in Candidates(s, i) : c.at <= t}
Ahead(s, t, i) == {c \in Candidates(s, i) : c.at > t}

\* If the last candidate for an instant is a wake, all of them are: a pending nap that
\* Home Assistant no longer shows at its instant was dropped.
LEMMA WakesAgree ==
  ASSUME NEW t \in Nat, NEW s, Stored(s, t), NEW i \in Readings, i.known = i.nap_known,
         NapStands(s, i), NEW due, NEW e \in due,
         due = Due(s, t, i), LastAt(due, e.at).kind = "wake"
  PROVE  e.kind = "wake"
<1> DEFINE l == LastAt(due, e.at)
<1>1. e \in Candidates(s, i) /\ e.at <= t
  BY DEF Due
<1>2. e.kind \in {"wake", "nap"} /\ e.rank \in 0..2
  BY <1>1, CandidateIs
<1>3. \A x \in due : x \in Candidates(s, i) /\ x.rank \in 0..2
  BY CandidateIs DEF Due
<1>4. l \in due /\ l.at = e.at /\ \A x \in due : x.at = e.at => x.rank <= l.rank
  BY <1>3, LastIs
<1>5. l.rank \in 0..2 /\ l.rank # 2 /\ l.kind = "wake" /\ e.rank <= l.rank
  BY <1>3, <1>4, CandidateIs
<1>6. SUFFICES ASSUME e.kind = "nap" PROVE FALSE
  BY <1>2
<1>7. e.rank # 1 /\ e.rank # 2
  BY <1>1, <1>2, <1>5, <1>6, CandidateIs
<1>8. e.rank = 0
  BY <1>2, <1>7
<1>9. e.at = s.pending /\ s.pending_kind = "nap" /\ e.at \in Nat /\ s.pending \notin s.done
  BY <1>1, <1>6, <1>8, CandidateIs
<1>10. l.rank # 0
  BY <1>3, <1>4, <1>5, <1>9, CandidateIs
<1>11. l.rank = 1
  BY <1>5, <1>10
<1>12. i.ha_ok /\ i.known
  BY <1>3, <1>4, <1>11, CandidateIs
<1>13. s.pending # None
  BY <1>9, Literals
<1> DEFINE n == [at |-> s.pending, kind |-> "nap", rank |-> 2]
<1>14. n \in Candidates(s, i)
  BY <1>9, <1>12, <1>13, NapIsLive
<1>15. n.at = e.at /\ n.rank = 2
  BY <1>9
<1>16. n \in due
  BY <1>1, <1>14, <1>15 DEF Due
<1> HIDE DEF n, l
<1>17. n.rank <= l.rank
  BY <1>4, <1>15, <1>16
<1> QED BY <1>11, <1>15, <1>17

-----------------------------------------------------------------------------
\* What a poll rings, and what it leaves pending.

\* What a state has in common with one that only differs in what is pending and done.
SameSession(s, u) ==
  /\ u.mode = s.mode /\ u.active = s.active /\ u.active_kind = s.active_kind
  /\ u.ring_started = s.ring_started /\ u.snooze_until = s.snooze_until
  /\ u.deadline = s.deadline /\ u.phase = s.phase /\ u.manual_snoozes = s.manual_snoozes
  /\ u.window_done_pending = s.window_done_pending /\ u.enabled = s.enabled
  /\ u.audio_failed = s.audio_failed

\* A session stays in order when only what is pending and done changes around it.
LEMMA SameSessionSane ==
  ASSUME NEW t \in Nat, NEW s, Sane(s, t), NEW u \in States, SameSession(s, u),
         s.done \subseteq u.done,
         u.pending # None =>
           /\ u.pending_kind # "none" /\ u.pending \notin u.done
           /\ u.pending_manual_snoozes # None =>
                u.pending_deadline # None /\ u.pending_kind = "wake"
  PROVE  Sane(u, t)
<1>1. s \in States /\ Stored(s, t) /\ Session(s, t) /\ Snoozing(s) /\ WithinWindow(s)
  BY DEF Sane, Whole, Stored
<1>2. /\ s.active \in Int /\ s.ring_started \in Int /\ s.window_done_pending \in Int
      /\ u.active \in Int /\ u.ring_started \in Int /\ u.window_done_pending \in Int
      /\ s.snooze_until \in Int /\ FinalOf(s.deadline, s.manual_snoozes) \in Int
  BY <1>1, FieldTypes
<1>3. Stored(u, t)
  BY <1>1, <1>2 DEF Stored, SameSession
<1>4. Session(u, t)
  BY <1>1, <1>2 DEF Session, SameSession
<1>5. Snoozing(u) /\ WithinWindow(u)
  BY <1>1, <1>2 DEF Snoozing, WithinWindow, SameSession
<1> QED BY <1>3, <1>4, <1>5 DEF Sane, Whole

\* The instants of candidates.
AtOf(cs) == {c.at : c \in cs}

\* The state that a poll leaves before it rings anything.
Rested(p, due) == [p EXCEPT !.done = @ \cup AtOf(due)]

\* The next pending instant lies ahead and is not done; the session is the same.
LEMMA PendedSane ==
  ASSUME NEW t \in Nat, NEW s, Sane(s, t), NEW i \in Readings, NEW due, NEW future,
         due = Due(s, t, i), future = Ahead(s, t, i),
         NEW u, u = Rested(Pended(s, future, i), due)
  PROVE  Sane(u, t) /\ SameSession(s, u) /\ u.done = s.done \cup AtOf(due)
<1> DEFINE fallen == AtOf(due)
<1> DEFINE p == Pended(s, future, i)
<1>0. u = [p EXCEPT !.done = @ \cup fallen]
  BY DEF Rested
<1>1. s \in States /\ Stored(s, t)
  BY DEF Sane, Whole, Stored
<1>2. \A c \in due : c.at \in Nat /\ c.at <= t
  BY <1>1, CandidateIs DEF Due
<1>3. fallen \in SUBSET Nat /\ \A x \in fallen : x <= t
  BY <1>2 DEF AtOf
<1>4. SUFFICES /\ p \in States /\ SameSession(s, p) /\ p.done = s.done
               /\ p.pending # None =>
                    /\ p.pending_kind # "none" /\ p.pending \notin s.done \cup fallen
                    /\ p.pending_manual_snoozes # None =>
                         p.pending_deadline # None /\ p.pending_kind = "wake"
  <2> HIDE DEF fallen, p
  <2>1. s.done \in SUBSET Nat
    BY <1>1 DEF States
  <2>2. s.done \cup fallen \in SUBSET Nat
    BY <1>3, <2>1
  <2>3. u \in States
    BY <1>0, <1>4, <2>2 DEF States
  <2>4. /\ SameSession(p, u) /\ u.done = s.done \cup fallen /\ u.pending = p.pending
        /\ u.pending_kind = p.pending_kind /\ u.pending_deadline = p.pending_deadline
        /\ u.pending_manual_snoozes = p.pending_manual_snoozes
    BY <1>0, <1>4 DEF States, SameSession
  <2>5. SameSession(s, u)
    BY <1>4, <2>4 DEF SameSession
  <2>6. Sane(u, t)
    BY <1>4, <2>3, <2>4, <2>5, SameSessionSane
  <2> QED BY <2>4, <2>5, <2>6 DEF fallen
<1>5. CASE future = {}
  <2>1. p = [s EXCEPT !.pending = None, !.pending_kind = "none", !.pending_deadline = None,
                      !.pending_manual_snoozes = None]
    BY <1>5 DEF Pended
  <2> HIDE DEF p
  <2>2. p \in States
    BY <1>1, <2>1, Literals DEF States
  <2>3. SameSession(s, p) /\ p.done = s.done /\ p.pending = None
    BY <1>1, <2>1 DEF States, SameSession
  <2> QED BY <2>2, <2>3
<1>6. CASE future # {}
  <2> DEFINE c == First(future)
  <2> DEFINE line == CommuteDeadline(c.at, c.kind, i, s)
  <2> DEFINE count == ManualCount(c.at, c.kind, i, s)
  <2>1. \A x \in future : x \in Candidates(s, i) /\ x.at > t /\ x.at \in Nat /\ x.rank \in 0..2
    BY <1>1, CandidateIs DEF Ahead
  <2>2. c \in future
    BY <1>6, <2>1, FirstIs
  <2>3. c.at \in Nat /\ c.at > t /\ c.at \notin s.done /\ c.kind \in {"wake", "nap"} /\ c.kind \in Kinds
    BY <1>1, <2>1, <2>2, CandidateIs
  <2>4. p = [s EXCEPT !.pending = c.at, !.pending_kind = c.kind, !.pending_deadline = line,
                      !.pending_manual_snoozes = count]
    BY <1>6 DEF Pended, PendingAt
  <2>5. line \in Instants /\ count \in Instants /\ (count # None => c.kind = "wake" /\ line # None)
    BY <1>1, <2>3, CountIs
  <2>6. c.at \notin fallen
    BY <1>3, <2>3
  <2> HIDE DEF c, line, count, fallen, p
  <2>7. p \in States
    <3>1. c.at \in Instants /\ c.kind \in Kinds /\ line \in Instants /\ count \in Instants
      BY <2>3, <2>5, Literals
    <3> QED BY <1>1, <2>4, <3>1 DEF States
  <2>8. /\ SameSession(s, p) /\ p.done = s.done /\ p.pending = c.at /\ p.pending_kind = c.kind
        /\ p.pending_deadline = line /\ p.pending_manual_snoozes = count
    BY <1>1, <2>4 DEF States, SameSession
  <2> QED BY <2>3, <2>5, <2>6, <2>7, <2>8
<1> QED BY <1>5, <1>6

\* The first ring of a candidate puts an idle daemon in order.
LEMMA BeginSane ==
  ASSUME NEW t \in Nat, NEW s, Sane(s, t), s.mode = "idle", NEW c, c.at \in s.done,
         c.at \in Nat, c.at <= t, c.kind \in {"wake", "nap"}, c.anchor \in Instants,
         c.count \in Instants, c.anchor # None => c.kind = "wake"
  PROVE  LET u == Begin(s, c, t)
         IN /\ Sane(u, t) /\ u.mode = "ringing" /\ u.active = c.at /\ u.done = s.done
            /\ u.window_done_pending = s.window_done_pending /\ u.enabled = s.enabled
            /\ u.audio_failed = s.audio_failed
            /\ c.anchor # None => u.deadline = c.anchor /\ u.manual_snoozes = c.count
<1> DEFINE r == [s EXCEPT !.mode = "ringing", !.active = c.at, !.active_kind = c.kind,
                        !.ring_started = t, !.snoozes = 0]
<1> DEFINE ph == IF Expires(c) <= t THEN "final" ELSE "window"
<1> DEFINE w == [r EXCEPT !.deadline = c.anchor, !.manual_snoozes = c.count,
                        !.accepted_control_at = None, !.phase = ph]
<1> DEFINE u == IF c.anchor = None THEN r ELSE w
<1>1. s \in States /\ Stored(s, t) /\ Session(s, t) /\ Snoozing(s)
  BY DEF Sane, Whole, Stored
<1>2. /\ s.snooze_until = None /\ s.phase = "none" /\ s.deadline = None
      /\ s.manual_snoozes = None
  BY <1>1 DEF Session, Snoozing
<1>3. Begin(s, c, t) = u
  BY DEF Begin
<1>4. ph \in {"final", "window"}
  OBVIOUS
<1> HIDE DEF ph
<1>5. ph \in Phases /\ c.at \in Instants /\ t \in Instants /\ c.kind \in Kinds /\ 0 \in Nat
  BY <1>4, Literals
<1>6. r \in States
  BY <1>1, <1>5, Literals DEF States
<1>7. /\ r.mode = "ringing" /\ r.active = c.at /\ r.active_kind = c.kind /\ r.ring_started = t
      /\ r.snooze_until = None /\ r.deadline = None /\ r.phase = "none" /\ r.manual_snoozes = None
      /\ r.window_done_pending = s.window_done_pending /\ SameRest(s, r)
  BY <1>1, <1>2 DEF States, SameRest
<1> HIDE DEF r
<1>8. w \in States
  BY <1>5, <1>6, Literals DEF States
<1>9. /\ w.mode = "ringing" /\ w.active = c.at /\ w.active_kind = c.kind /\ w.ring_started = t
      /\ w.snooze_until = None /\ w.deadline = c.anchor /\ w.phase = ph
      /\ w.manual_snoozes = c.count
      /\ w.window_done_pending = s.window_done_pending /\ SameRest(s, w)
  BY <1>6, <1>7 DEF States, SameRest
<1> HIDE DEF w
<1>10. /\ u \in States /\ u.mode = "ringing" /\ u.active = c.at /\ u.active_kind = c.kind
       /\ u.ring_started = t /\ u.snooze_until = None /\ SameRest(s, u)
       /\ u.window_done_pending = s.window_done_pending
       /\ c.anchor # None => u.deadline = c.anchor /\ u.manual_snoozes = c.count
       /\ u.phase # "none" <=> c.anchor # None
       /\ c.anchor = None => u.deadline = None /\ u.manual_snoozes = None
  BY <1>4, <1>6, <1>7, <1>8, <1>9
<1> HIDE DEF u
<1>11. c.at # None /\ t # None
  BY Literals
<1>12. Stored(u, t)
  BY <1>1, <1>10, StoredStays
<1>13. Session(u, t)
  BY <1>10, <1>11 DEF Session, SameRest
<1>14. Snoozing(u) /\ WithinWindow(u)
  BY <1>10, Literals DEF Snoozing, WithinWindow
<1> QED BY <1>3, <1>10, <1>12, <1>13, <1>14 DEF Sane, Whole, SameRest

\* What a step at t makes of the outcome of a session that stays or ends: the first
\* ring of an instant that was not done, as the window it was pending for.
Scheduled(s, o, i) ==
  \/ SameSession(s, o.state)
  \/ /\ s.mode = "idle" /\ o.state.active \notin s.done
     /\ o.start = o.state.active /\ o.state.mode = "ringing"
     /\ o.state.window_done_pending = s.window_done_pending
     /\ o.state.enabled = s.enabled /\ o.state.audio_failed = s.audio_failed
     /\ /\ o.state.active = s.pending /\ s.pending_manual_snoozes # None
        /\ i.ha_ok => i.nap_at # s.pending
        => /\ o.state.manual_snoozes = s.pending_manual_snoozes
           /\ o.state.deadline = s.pending_deadline

\* What is pending as a counted wake is anchored as it was published.
LEMMA AnchoredIs ==
  ASSUME NEW t \in Nat, NEW s, Stored(s, t), NEW i \in Readings, i.known = i.nap_known,
         NapStands(s, i), NEW due, NEW e \in due, due = Due(s, t, i)
  PROVE  LET c == Anchored(e, due, i, s)
         IN /\ c.at = e.at /\ c.kind = e.kind /\ c.rank = e.rank
            /\ c.anchor \in Instants /\ c.count \in Instants
            /\ c.anchor # None => c.kind = "wake"
            /\ /\ e.at = s.pending /\ s.pending_manual_snoozes # None
               /\ i.ha_ok => i.nap_at # s.pending
               => /\ c.anchor # None /\ c.anchor = s.pending_deadline
                  /\ c.count = s.pending_manual_snoozes
<1> DEFINE l == LastAt(due, e.at)
<1> DEFINE c == Anchored(e, due, i, s)
<1>1. \A x \in due : x \in Candidates(s, i) /\ x.rank \in 0..2
  BY CandidateIs DEF Due
<1>2. l \in due /\ l.at = e.at
  BY <1>1, LastIs
<1>3. e.at \in Nat /\ l \in Candidates(s, i)
  BY <1>1, <1>2, CandidateIs
<1>4. /\ c.at = e.at /\ c.kind = e.kind /\ c.rank = e.rank
      /\ c.anchor = CommuteDeadline(e.at, l.kind, i, s)
      /\ c.count = ManualCount(e.at, l.kind, i, s)
  BY DEF Anchored
<1> HIDE DEF c
<1>5. c.anchor # None => l.kind = "wake"
  <2> HIDE DEF l
  <2> QED BY <1>3, <1>4, CountIs
<1>6. c.anchor # None => e.kind = "wake"
  BY <1>5, WakesAgree
<1> HIDE DEF l
<1>7. ASSUME e.at = s.pending, s.pending_manual_snoozes # None, i.ha_ok => i.nap_at # s.pending
      PROVE  /\ c.anchor # None /\ c.anchor = s.pending_deadline
             /\ c.count = s.pending_manual_snoozes
  <2>1. s.pending # None /\ s.pending_kind = "wake" /\ s.pending_deadline # None
    BY <1>3, <1>7, Literals DEF Stored
  <2>2. l.rank \in 0..2 /\ l.rank # 2
    BY <1>1, <1>2, <1>3, <1>7, CandidateIs
  <2>3. l.rank = 0 \/ l.rank = 1
    BY <2>2
  <2>4. l.kind = "wake"
    BY <1>3, <2>1, <2>3, CandidateIs
  <2> QED BY <1>3, <1>4, <1>7, <2>1, <2>4, CountIs
<1>8. c.anchor \in Instants /\ c.count \in Instants
  BY <1>3, <1>4, CountIs
<1> QED BY <1>4, <1>6, <1>7, <1>8 DEF c

\* An outcome whose state and start are replaced.
Rung(o, u, x) == [o EXCEPT !.state = u, !.start = x]

LEMMA Replaced ==
  ASSUME NEW s, NEW start, NEW stop, NEW windowDone, NEW o,
         o = Outcome(s, start, stop, windowDone), NEW u, NEW x
  PROVE  Rung(o, u, x) = Outcome(u, x, stop, windowDone)
<1> DEFINE r == [o EXCEPT !.state = u]
<1>1. r = [state |-> u, start |-> start, stop |-> stop, windowDone |-> windowDone]
  BY DEF Outcome
<1> HIDE DEF r
<1>2. [r EXCEPT !.start = x] = Outcome(u, x, stop, windowDone)
  BY <1>1 DEF Outcome
<1> QED BY <1>2 DEF r, Rung

\* The rest of a poll rings at most one candidate, none over another alarm.
LEMMA ScheduleIs ==
  ASSUME NEW t \in Nat, NEW o, NEW s, Sane(s, t), NEW start, NEW stop \in BOOLEAN, NEW windowDone,
         o = Outcome(s, start, stop, windowDone), start # None => s.mode = "ringing",
         NEW i \in Readings, i.known = i.nap_known, NapStands(s, i)
  PROVE  LET r == Schedule(o, t, i)
         IN /\ r = Outcome(r.state, r.start, stop, windowDone)
            /\ Sane(r.state, t) /\ s.done \subseteq r.state.done /\ Scheduled(s, r, i)
            /\ r.start = start \/ (s.mode = "idle" /\ r.start = r.state.active /\ r.start # None)
            /\ r.start = start => SameSession(s, r.state)
<1> DEFINE due == Due(s, t, i)
<1> DEFINE future == Ahead(s, t, i)
<1> DEFINE fallen == AtOf(due)
<1> DEFINE u == Rested(Pended(s, future, i), due)
<1> DEFINE ripe == {c \in {Anchored(c, due, i, s) : c \in due} : t - Expires(c) <= StaleLimit}
<1> DEFINE r == Schedule(o, t, i)
<1>1. Stored(s, t) /\ s \in States
  BY DEF Sane, Whole, Stored
<1>2. o.state = s /\ o = [state |-> s, start |-> start, stop |-> stop, windowDone |-> windowDone]
  BY DEF Outcome
<1>3. r = Fall(o, u, ripe, t)
  BY <1>2 DEF Schedule, Allot, AtOf, Due, Ahead, Rested
<1>4. Sane(u, t) /\ SameSession(s, u) /\ u.done = s.done \cup fallen
  <2>1. due = Due(s, t, i) /\ future = Ahead(s, t, i)
    OBVIOUS
  <2> HIDE DEF due, future
  <2>2. u = Rested(Pended(s, future, i), due)
    OBVIOUS
  <2> HIDE DEF u
  <2> QED BY <2>1, <2>2, PendedSane
<1> HIDE DEF u, r
<1>5. CASE ripe = {} \/ u.mode # "idle"
  <2>1. r = [o EXCEPT !.state = u]
    BY <1>3, <1>5 DEF Fall
  <2> HIDE DEF ripe, fallen
  <2>2. r = [state |-> u, start |-> start, stop |-> stop, windowDone |-> windowDone]
    BY <1>2, <2>1
  <2>3. r.state = u /\ r.start = start /\ r = Outcome(u, start, stop, windowDone)
    BY <2>2 DEF Outcome
  <2>4. r = Outcome(r.state, r.start, stop, windowDone)
    BY Zenon, <2>3
  <2>5. Scheduled(s, r, i) /\ s.done \subseteq r.state.done
    BY <1>4, <2>3 DEF Scheduled
  <2> QED BY <1>4, <2>3, <2>4, <2>5 DEF r
<1>6. CASE ripe # {} /\ u.mode = "idle"
  <2> DEFINE c == First(ripe)
  <2>1. \A x \in ripe : x.at \in Nat /\ x.rank \in 0..2
    <3>1. ASSUME NEW e \in due
          PROVE  Anchored(e, due, i, s).at \in Nat /\ Anchored(e, due, i, s).rank \in 0..2
      <4>1. e.at \in Nat /\ e.rank \in 0..2
        BY <1>1, CandidateIs DEF Due
      <4> QED BY <4>1 DEF Anchored
    <3> QED BY <3>1
  <2>2. c \in ripe
    <3> HIDE DEF ripe
    <3> QED BY <1>6, <2>1, FirstIs
  <2>3. PICK e \in due : c = Anchored(e, due, i, s)
    BY <2>2
  <2>4. e.at \in Nat /\ e.at <= t /\ e.at \notin s.done /\ e.kind \in {"wake", "nap"}
    BY <1>1, CandidateIs DEF Due
  <2>5. e.at \in fallen
    BY DEF AtOf
  <2>6. r = Rung(o, Begin(u, c, t), c.at)
    BY <1>3, <1>6 DEF Fall, Rung
  <2> HIDE DEF c, ripe, fallen
  <2>7. /\ c.at = e.at /\ c.kind = e.kind /\ c.anchor \in Instants /\ c.count \in Instants
        /\ c.anchor # None => c.kind = "wake"
        /\ /\ e.at = s.pending /\ s.pending_manual_snoozes # None
           /\ i.ha_ok => i.nap_at # s.pending
           => /\ c.anchor # None /\ c.anchor = s.pending_deadline
              /\ c.count = s.pending_manual_snoozes
    BY <1>1, <2>3, AnchoredIs
  <2> HIDE DEF due, future
  <2> DEFINE b == Begin(u, c, t)
  <2>8. c.at \in u.done
    BY <1>4, <2>5, <2>7
  <2>9. /\ Sane(b, t) /\ b.mode = "ringing" /\ b.active = c.at /\ b.done = u.done
        /\ b.window_done_pending = u.window_done_pending /\ b.enabled = u.enabled
        /\ b.audio_failed = u.audio_failed
        /\ c.anchor # None => b.deadline = c.anchor /\ b.manual_snoozes = c.count
    BY <1>4, <1>6, <2>4, <2>7, <2>8, BeginSane
  <2>10. r = Outcome(b, c.at, stop, windowDone)
    BY <2>6, Replaced
  <2> HIDE DEF b
  <2>11. r.state = b /\ r.start = c.at
    BY <2>10 DEF Outcome
  <2>12. r = Outcome(r.state, r.start, stop, windowDone)
    BY Zenon, <2>10, <2>11
  <2>13. s.mode = "idle" /\ b.active = e.at /\ e.at # None /\ s.done \subseteq b.done
    BY <1>4, <1>6, <2>4, <2>7, <2>9, Literals DEF SameSession
  <2>14. /\ b.window_done_pending = s.window_done_pending /\ b.enabled = s.enabled
         /\ b.audio_failed = s.audio_failed
    BY <1>4, <2>9 DEF SameSession
  <2>15. Scheduled(s, r, i)
    BY <2>4, <2>7, <2>9, <2>11, <2>13, <2>14 DEF Scheduled
  <2>16. start = None
    BY <2>13
  <2>17. r.start = r.state.active /\ r.start # None
    BY <2>7, <2>11, <2>13
  <2> QED BY <2>9, <2>11, <2>12, <2>13, <2>15, <2>16, <2>17 DEF r
<1> QED BY <1>5, <1>6

-----------------------------------------------------------------------------
\* The whole step.

\* A replaced stop.
Quieted(o, stop) == [o EXCEPT !.stop = @ \/ stop]

LEMMA QuietedIs ==
  ASSUME NEW o, o = Outcome(o.state, o.start, o.stop, o.windowDone), NEW stop
  PROVE  LET r == Quieted(o, stop)
         IN /\ r = Outcome(o.state, o.start, o.stop \/ stop, o.windowDone)
            /\ r.state = o.state /\ r.start = o.start /\ r.windowDone = o.windowDone
            /\ r.stop = (o.stop \/ stop)
<1> DEFINE st == o.state
<1> DEFINE sa == o.start
<1> DEFINE so == o.stop
<1> DEFINE w == o.windowDone
<1>1. o = [state |-> st, start |-> sa, stop |-> so, windowDone |-> w]
  BY DEF Outcome
<1>2. Quieted(o, stop) = [o EXCEPT !.stop = so \/ stop]
  BY DEF Quieted
<1> HIDE DEF st, sa, so, w
<1> DEFINE n == so \/ stop
<1>3. Quieted(o, stop) = [o EXCEPT !.stop = n]
  BY <1>2
<1> HIDE DEF n
<1>4. Quieted(o, stop) = [state |-> st, start |-> sa, stop |-> n, windowDone |-> w]
  BY <1>1, <1>3
<1>5. /\ Quieted(o, stop).state = st /\ Quieted(o, stop).start = sa
      /\ Quieted(o, stop).windowDone = w /\ Quieted(o, stop).stop = n
  BY <1>4
<1> QED BY <1>4, <1>5 DEF Outcome, st, sa, so, w, n

\* The session's part of a poll, its cancellation and what is no longer pending included.
Advanced(s, o, t, i) ==
  /\ o = Outcome(o.state, o.start, o.stop, o.windowDone) /\ o.stop \in BOOLEAN
  /\ Sane(o.state, t) /\ s.done \subseteq o.state.done /\ NapStands(o.state, i)
  /\ o.state.window_done_pending \in {s.window_done_pending, t}
  /\ o.state.active \in {s.active, None}
  /\ s.phase # "none" /\ o.state.active = s.active => Locked(s, o.state)
  /\ Audible(s, o)
  /\ o.state.enabled = s.enabled
  /\ o.state.pending_deadline = s.pending_deadline
  /\ o.state.pending_manual_snoozes = s.pending_manual_snoozes
  /\ o.state.pending = s.pending \/ (o.state.pending = None /\ s.pending \in o.state.done)
  /\ i.ha_ok /\ i.known /\ i.wake_at = None /\ s.pending_kind = "wake"
       => s.pending = None \/ s.pending \in o.state.done

LEMMA CarryAdvances ==
  ASSUME NEW t \in Nat, NEW s, Whole(s, t), NEW i \in Readings
  PROVE  Advanced(s, Carry(CancelActive(s, i), t, i), t, i)
<1> DEFINE off == ActiveCancelled(s, i)
<1> DEFINE k == CancelActive(s, i)
<1> DEFINE w == k.state
<1> DEFINE u == DropPending(w, t, i)
<1> DEFINE c == SessionStep(u, t, i)
<1> DEFINE o == Carry(k, t, i)
<1>1. s \in States /\ Stored(s, t) /\ Session(s, t)
  BY DEF Whole, Stored
<1>2. /\ w = IF off THEN Idle(s) ELSE s
      /\ k.stop = IF off THEN s.mode = "ringing" ELSE FALSE
  BY DEF CancelActive, End, Keep, Outcome
<1>3. o = Quieted(c, k.stop)
  BY DEF Carry, Quieted
<1> HIDE DEF off, k, w
<1>4. /\ Whole(w, t) /\ SameRest(s, w) /\ w.window_done_pending = s.window_done_pending
      /\ off => w.mode = "idle" /\ w.active = None /\ w.phase = "none"
      /\ ~off => w = s
  <2>1. CASE off
    <3>1. w = Idle(s)
      BY <1>2, <2>1
    <3> QED BY <1>1, <2>1, <3>1, IdleSane, IdleFields DEF Sane
  <2>2. CASE ~off
    BY <1>1, <1>2, <2>2 DEF SameRest
  <2> QED BY <2>1, <2>2
<1>5. /\ Whole(u, t) /\ w.done \subseteq u.done /\ NapStands(u, i)
      /\ u.mode = w.mode /\ u.active = w.active /\ u.phase = w.phase /\ u.deadline = w.deadline
      /\ u.manual_snoozes = w.manual_snoozes /\ u.enabled = w.enabled
      /\ u.window_done_pending = w.window_done_pending
      /\ u.pending_deadline = w.pending_deadline
      /\ u.pending_manual_snoozes = w.pending_manual_snoozes
      /\ u.pending = w.pending \/ (u.pending = None /\ w.pending \in u.done)
      /\ i.ha_ok /\ i.known /\ i.wake_at = None /\ w.pending_kind = "wake"
           => w.pending = None \/ w.pending \in u.done
  BY <1>4, DropPendingWhole
<1> HIDE DEF u
<1>6. Carried(u, c, t)
  BY <1>5, SessionCarried
<1>7. u.mode = "idle" => c = Keep(u)
  BY DEF SessionStep
<1> HIDE DEF c
<1>8. k.stop \in BOOLEAN /\ (off => k.stop = (s.mode = "ringing")) /\ (~off => k.stop = FALSE)
  BY <1>2
<1>9. c = Outcome(c.state, c.start, c.stop, c.windowDone) /\ c.stop \in BOOLEAN
  BY <1>6 DEF Carried
<1>10. /\ o = Outcome(c.state, c.start, c.stop \/ k.stop, c.windowDone)
       /\ o.state = c.state /\ o.start = c.start /\ o.windowDone = c.windowDone
       /\ o.stop = (c.stop \/ k.stop)
  BY <1>3, <1>9, QuietedIs
<1> HIDE DEF o
<1>11. o = Outcome(o.state, o.start, o.stop, o.windowDone) /\ o.stop \in BOOLEAN
  <2>1. o = Outcome(o.state, o.start, o.stop, o.windowDone)
    BY Zenon, <1>10
  <2>2. o.stop \in BOOLEAN
    BY <1>8, <1>9, <1>10
  <2> QED BY <2>1, <2>2
<1>12. /\ SameRest(u, o.state) /\ Sane(o.state, t)
       /\ o.state.window_done_pending \in {u.window_done_pending, t}
       /\ o.state.active \in {u.active, None}
       /\ u.phase # "none" /\ o.state.active = u.active => Locked(u, o.state)
  BY Zenon, <1>6, <1>10 DEF Carried
<1>13. Audible(s, o)
  <2>1. CASE off
    <3>1. u.mode = "idle"
      BY <1>4, <1>5, <2>1
    <3>2. c.start = None /\ c.state = u
      BY <1>7, <3>1 DEF Keep, Outcome
    <3>3. s.mode = "ringing" => o.stop
      BY <1>8, <1>10, <2>1
    <3>4. o.state.mode # "ringing" /\ o.start = None
      BY <1>10, <3>1, <3>2
    <3> QED BY <3>3, <3>4 DEF Audible
  <2>2. CASE ~off
    <3>1. u.mode = s.mode /\ u.active = s.active
      BY <1>4, <1>5, <2>2
    <3>2. o.stop = c.stop
      BY <1>8, <1>9, <1>10, <2>2
    <3>3. Audible(u, c)
      BY <1>6 DEF Carried
    <3> QED BY Zenon, <1>10, <3>1, <3>2, <3>3 DEF Audible
  <2> QED BY <2>1, <2>2
<1>14. s.phase # "none" /\ o.state.active = s.active => Locked(s, o.state)
  <2>1. CASE off
    <3>1. u.active = None
      BY <1>4, <1>5, <2>1
    <3>2. s.phase # "none" => s.active # None
      BY <1>1 DEF Session
    <3> QED BY <1>12, <3>1, <3>2
  <2>2. CASE ~off
    BY <1>4, <1>5, <1>12, <2>2 DEF Locked
  <2> QED BY <2>1, <2>2
<1>15. /\ s.done \subseteq o.state.done
       /\ o.state.enabled = s.enabled
       /\ o.state.pending_deadline = s.pending_deadline
       /\ o.state.pending_manual_snoozes = s.pending_manual_snoozes
       /\ o.state.window_done_pending \in {s.window_done_pending, t}
  BY <1>4, <1>5, <1>12 DEF SameRest
<1>16. o.state.pending = s.pending \/ (o.state.pending = None /\ s.pending \in o.state.done)
  BY <1>4, <1>5, <1>12 DEF SameRest
<1>17. i.ha_ok /\ i.known /\ i.wake_at = None /\ s.pending_kind = "wake"
         => s.pending = None \/ s.pending \in o.state.done
  BY <1>4, <1>5, <1>12 DEF SameRest
<1>18. NapStands(o.state, i)
  BY <1>5, <1>12 DEF SameRest, NapStands
<1>19. o.state.active \in {s.active, None}
  BY <1>4, <1>5, <1>12
<1> QED BY <1>11, <1>12, <1>13, <1>14, <1>15, <1>16, <1>17, <1>18, <1>19
        DEF Advanced, o, k

\* What a poll at t may make of s.
Progressed(s, o, t, i) ==
  /\ o = Outcome(o.state, o.start, o.stop, o.windowDone) /\ o.stop \in BOOLEAN
  /\ Sane(o.state, t) /\ s.done \subseteq o.state.done
  /\ o.state.window_done_pending \in {s.window_done_pending, t}
  /\ o.state.active \in {s.active, None} \/ o.state.active \notin s.done
  /\ s.phase # "none" /\ o.state.active = s.active => Locked(s, o.state)
  /\ Audible(s, o)
  /\ o.state.enabled = Settings(s, i).enabled
  /\ /\ i.ha_ok /\ i.known /\ i.wake_at = None /\ o.state.enabled
     /\ s.pending_kind = "wake" /\ s.pending # None
     => s.pending \in o.state.done /\ s.pending # o.state.active
  /\ /\ o.state.active = s.pending /\ s.pending \notin {None, s.active}
     /\ s.pending_manual_snoozes # None /\ (i.ha_ok => i.nap_at # s.pending)
     => /\ o.state.manual_snoozes = s.pending_manual_snoozes
        /\ o.state.deadline = s.pending_deadline

\* A poll of an enabled daemon.
LEMMA EnabledStep ==
  ASSUME NEW t \in Nat, NEW s, Whole(s, t), NEW i \in Readings, i.known = i.nap_known,
         s.enabled, Settings(s, i).enabled = s.enabled
  PROVE  Progressed(s, Schedule(Carry(CancelActive(s, i), t, i), t, i), t, i)
<1> DEFINE a == Carry(CancelActive(s, i), t, i)
<1> DEFINE r == Schedule(a, t, i)
<1>1. s \in States /\ Stored(s, t) /\ Session(s, t)
  BY DEF Whole, Stored
<1>2. Advanced(s, a, t, i)
  BY CarryAdvances
<1> HIDE DEF a
<1> DEFINE v == a.state
<1>3. a = Outcome(v, a.start, a.stop, a.windowDone) /\ a.stop \in BOOLEAN /\ Sane(v, t)
      /\ NapStands(v, i) /\ Audible(s, a) /\ s.done \subseteq v.done
  BY <1>2 DEF Advanced
<1>4. a.start # None => v.mode = "ringing"
  BY <1>3 DEF Audible
<1>5. /\ r = Outcome(r.state, r.start, a.stop, a.windowDone)
      /\ Sane(r.state, t) /\ v.done \subseteq r.state.done /\ Scheduled(v, r, i)
      /\ r.start = a.start \/ (v.mode = "idle" /\ r.start = r.state.active /\ r.start # None)
      /\ r.start = a.start => SameSession(v, r.state)
  <2> DEFINE start == a.start
  <2> DEFINE stop == a.stop
  <2> DEFINE windowDone == a.windowDone
  <2>1. a = Outcome(v, start, stop, windowDone) /\ stop \in BOOLEAN
        /\ (start # None => v.mode = "ringing")
    BY <1>3, <1>4
  <2>2. Sane(v, t) /\ NapStands(v, i)
    BY <1>3
  <2> HIDE DEF start, stop, windowDone, v
  <2>3. /\ r = Outcome(r.state, r.start, stop, windowDone)
        /\ Sane(r.state, t) /\ v.done \subseteq r.state.done /\ Scheduled(v, r, i)
        /\ r.start = start \/ (v.mode = "idle" /\ r.start = r.state.active /\ r.start # None)
        /\ r.start = start => SameSession(v, r.state)
    BY <2>1, <2>2, ScheduleIs
  <2> QED BY <2>3 DEF start, stop, windowDone
<1> HIDE DEF r
<1>6. r.stop = a.stop
  BY <1>5 DEF Outcome
<1>7. r = Outcome(r.state, r.start, r.stop, r.windowDone) /\ r.stop \in BOOLEAN
  <2>1. r.windowDone = a.windowDone
    BY <1>5 DEF Outcome
  <2> QED BY Zenon, <1>3, <1>5, <1>6, <2>1
<1> DEFINE u == r.state
<1>8. v.active \in {s.active, None}
  BY <1>2 DEF Advanced
<1>9. s.active \in s.done \/ s.active = None
  BY <1>1 DEF Session
<1>10. u.active # v.active => u.active \notin v.done
  BY <1>5 DEF Scheduled, SameSession
<1>11. u.active = v.active => SameSession(v, u)
  <2>1. v.mode = "idle" <=> v.active = None
    BY <1>3 DEF Sane, Whole, Session
  <2>2. u.mode = "idle" <=> u.active = None
    BY <1>5 DEF Sane, Whole, Session
  <2> QED BY <1>5, <2>1, <2>2 DEF Scheduled
<1>12. u.active \in {s.active, None} \/ u.active \notin s.done
  BY <1>3, <1>8, <1>10
<1>13. u.window_done_pending \in {s.window_done_pending, t} /\ u.enabled = s.enabled
  BY <1>2, <1>5 DEF Advanced, Scheduled, SameSession
<1>14. s.phase # "none" /\ u.active = s.active => Locked(s, u)
  <2>1. SUFFICES ASSUME s.phase # "none", u.active = s.active PROVE Locked(s, u)
    OBVIOUS
  <2>2. s.active \in s.done /\ s.active # None
    BY <1>1, <2>1 DEF Session
  <2>3. SameSession(v, u)
    BY <1>3, <1>10, <1>11, <2>1, <2>2
  <2>4. Locked(s, v)
    BY <1>2, <2>1, <2>3 DEF Advanced, SameSession
  <2> QED BY <2>3, <2>4 DEF Locked, SameSession
<1>15. Audible(s, r)
  <2>1. CASE r.start = a.start
    BY Zenon, <1>3, <1>5, <1>6, <2>1 DEF Audible, SameSession
  <2>2. CASE v.mode = "idle" /\ r.start = u.active /\ r.start # None
    <3>1. v.active = None
      BY <1>3, <2>2 DEF Sane, Whole, Session
    <3>2. u.mode = "ringing"
      BY <1>5, <2>2, <3>1 DEF Scheduled, SameSession
    <3> QED BY <2>2, <3>2 DEF Audible
  <2> QED BY <1>5, <2>1, <2>2
<1>16. ASSUME i.ha_ok, i.known, i.wake_at = None, s.pending_kind = "wake", s.pending # None
       PROVE  s.pending \in u.done /\ s.pending # u.active
  <2>1. s.pending \in v.done
    BY <1>2, <1>16 DEF Advanced
  <2>2. s.pending \notin s.done
    BY <1>1, <1>16 DEF Stored
  <2> QED BY <1>5, <1>8, <1>9, <1>10, <1>16, <2>1, <2>2
<1>17. ASSUME u.active = s.pending, s.pending \notin {None, s.active},
              s.pending_manual_snoozes # None, i.ha_ok => i.nap_at # s.pending
       PROVE  u.manual_snoozes = s.pending_manual_snoozes /\ u.deadline = s.pending_deadline
  <2>1. u.active # v.active
    BY <1>8, <1>17
  <2>2. s.pending \notin v.done
    BY <1>10, <1>17, <2>1
  <2>3. /\ v.pending = s.pending /\ v.pending_deadline = s.pending_deadline
        /\ v.pending_manual_snoozes = s.pending_manual_snoozes
    BY <1>2, <2>2 DEF Advanced
  <2> QED BY <1>5, <1>17, <2>1, <2>3 DEF Scheduled, SameSession
<1>18. s.done \subseteq u.done
  BY <1>3, <1>5
<1>19. Sane(u, t) /\ u.enabled = Settings(s, i).enabled
  BY <1>5, <1>13
<1> QED BY <1>7, <1>12, <1>13, <1>14, <1>15, <1>16, <1>17, <1>18, <1>19 DEF Progressed, r, a

\* What a disabled daemon drops.
Dropped(s) == [s EXCEPT !.pending = None, !.pending_kind = "none"]

\* What becomes of it.
Barred(s) == [End(s) EXCEPT !.state.pending = None, !.state.pending_kind = "none"]

\* A poll of a disabled daemon.
LEMMA DisabledStep ==
  ASSUME NEW t \in Nat, NEW s, Whole(s, t), NEW i \in Readings,
         ~s.enabled, Settings(s, i).enabled = s.enabled, s.enabled \in BOOLEAN
  PROVE  Progressed(s, Barred(s), t, i)
<1> DEFINE r == Barred(s)
<1> DEFINE w == Idle(s)
<1> DEFINE u == Dropped(w)
<1> DEFINE rings == s.mode = "ringing"
<1>1. s \in States /\ Stored(s, t) /\ Session(s, t)
  BY DEF Whole, Stored
<1>2. /\ w \in States /\ SameRest(s, w) /\ w.mode = "idle" /\ w.active = None
      /\ w.window_done_pending = s.window_done_pending /\ Sane(w, t)
  BY <1>1, IdleFields, IdleSane
<1>3. r = Outcome(u, None, rings, FALSE)
  <2> DEFINE f == End(s)
  <2>1. f = [state |-> w, start |-> None, stop |-> rings, windowDone |-> FALSE]
    BY DEF End, Outcome
  <2> DEFINE q == [w EXCEPT !.pending = None]
  <2> DEFINE e == [f EXCEPT !.state = [f.state EXCEPT !.pending = None]]
  <2> DEFINE g == [e EXCEPT !.state = [e.state EXCEPT !.pending_kind = "none"]]
  <2>2. r = g
    BY DEF Barred
  <2>3. u = [q EXCEPT !.pending_kind = "none"]
    BY DEF Dropped
  <2> HIDE DEF w, rings, f, r, u
  <2>4. f.state = w
    BY <2>1
  <2>5. e = [f EXCEPT !.state = q]
    BY <2>4
  <2> HIDE DEF q, e
  <2>6. e = [state |-> q, start |-> None, stop |-> rings, windowDone |-> FALSE]
    BY <2>1, <2>5
  <2>7. e.state = q
    BY <2>6
  <2>8. g = [e EXCEPT !.state = u]
    BY <2>3, <2>7
  <2> HIDE DEF g
  <2>9. g = [state |-> u, start |-> None, stop |-> rings, windowDone |-> FALSE]
    BY <2>6, <2>8
  <2> QED BY <2>2, <2>9 DEF Outcome
<1> HIDE DEF r, w
<1>4. u \in States
  BY <1>2, Literals DEF States, Dropped
<1>5. SameSession(w, u) /\ u.pending = None /\ u.done = w.done
  BY <1>2 DEF States, Dropped, SameSession
<1> HIDE DEF u
<1>6. Sane(u, t)
  BY <1>2, <1>4, <1>5, SameSessionSane
<1> HIDE DEF rings
<1>7. /\ r.state = u /\ r.start = None /\ r.stop = rings /\ r.windowDone = FALSE
      /\ r = Outcome(r.state, r.start, r.stop, r.windowDone)
  <2>1. r.state = u /\ r.start = None /\ r.stop = rings /\ r.windowDone = FALSE
    BY <1>3 DEF Outcome
  <2> QED BY Zenon, <1>3, <2>1
<1>8. r.stop \in BOOLEAN
  BY <1>7 DEF rings
<1>9. u.active = None /\ u.mode = "idle" /\ u.enabled = s.enabled /\ u.done = s.done
      /\ u.window_done_pending = s.window_done_pending
  BY <1>2, <1>5 DEF SameSession, SameRest
<1>10. s.phase # "none" => s.active # None
  BY <1>1 DEF Session
<1>11. Audible(s, r)
  BY <1>7, <1>9 DEF Audible, rings
<1> QED BY <1>6, <1>7, <1>8, <1>9, <1>10, <1>11 DEF Progressed, r

\* Every poll progresses.
LEMMA StepProgresses ==
  ASSUME NEW t \in Nat, NEW s, Whole(s, t), NEW i \in Readings, i.known = i.nap_known
  PROVE  Progressed(s, Step(s, t, i), t, i)
<1> DEFINE v == Settings(s, i)
<1> DEFINE o == Step(s, t, i)
<1>1. /\ Whole(v, t) /\ v.enabled \in BOOLEAN
      /\ v.enabled = (IF i.ha_ok /\ i.enabled # "unknown" THEN i.enabled = "on" ELSE s.enabled)
      /\ v.mode = s.mode /\ v.active = s.active /\ v.phase = s.phase /\ v.deadline = s.deadline
      /\ v.manual_snoozes = s.manual_snoozes
      /\ v.done = s.done /\ v.pending = s.pending /\ v.pending_kind = s.pending_kind
      /\ v.pending_deadline = s.pending_deadline
      /\ v.pending_manual_snoozes = s.pending_manual_snoozes
      /\ v.window_done_pending = s.window_done_pending
  BY SettingsWhole
<1>2. Settings(v, i).enabled = v.enabled
  BY <1>1, SettingsWhole
<1>3. o = IF v.enabled THEN Schedule(Carry(CancelActive(v, i), t, i), t, i)
          ELSE Barred(v)
  BY DEF Step, StepSet, Barred
<1> HIDE DEF v
<1>4. Progressed(v, o, t, i)
  <2>1. CASE v.enabled
    BY <1>1, <1>2, <1>3, <2>1, EnabledStep
  <2>2. CASE ~v.enabled
    BY <1>1, <1>2, <1>3, <2>2, DisabledStep
  <2> QED BY <2>1, <2>2
<1> HIDE DEF o
<1>5. o.state.enabled = Settings(s, i).enabled
  BY <1>2, <1>4 DEF Progressed, v
<1>6. Audible(s, o)
  BY Zenon, <1>1, <1>4 DEF Progressed, Audible
<1>7. s.phase # "none" /\ o.state.active = s.active => Locked(s, o.state)
  BY <1>1, <1>4 DEF Progressed, Locked
<1> QED BY Zenon, <1>1, <1>4, <1>5, <1>6, <1>7 DEF Progressed, o

\* The deadline a reading leaves depends on the window's only.
LEMMA TightenedDeadline ==
  ASSUME NEW s \in States, NEW u \in States, u.deadline = s.deadline,
         u.manual_snoozes = s.manual_snoozes, NEW i
  PROVE  Tightened(u, i).deadline = Tightened(s, i).deadline
<1>1. \A v \in States : [v EXCEPT !.deadline = i.deadline_at].deadline = i.deadline_at
  BY DEF States
<1> QED BY <1>1 DEF Tightened

\* A final alarm that nobody ends goes on ringing, and one restored within the recovery
\* limit rings again.
LEMMA FinalStays ==
  ASSUME NEW t \in Nat, NEW s, Whole(s, t), NEW i \in Readings, i.known = i.nap_known,
         i.activity_at = None, s.phase # "none", ~WindowCancelled(s, i),
         Settings(s, i).enabled,
         \/ s.phase = "final"
         \/ /\ s.phase = "window" /\ s.mode = "snoozed"
            /\ FinalOf(Tightened(s, i).deadline, s.manual_snoozes) <= t
            /\ ~(t - FinalOf(Tightened(s, i).deadline, s.manual_snoozes) > StaleLimit)
  PROVE  Step(s, t, i).state.active = s.active
<1> DEFINE v == Settings(s, i)
<1> DEFINE u == DropPending(v, t, i)
<1> DEFINE y == Tightened(u, i)
<1> DEFINE b == Bounded(y)
<1> DEFINE c == SessionStep(u, t, i)
<1> DEFINE a == Carry(CancelActive(v, i), t, i)
<1> DEFINE F == FinalOf(Tightened(s, i).deadline, s.manual_snoozes)
<1>1. s \in States /\ Session(s, t)
  BY DEF Whole, Stored
<1>2. /\ Whole(v, t) /\ v.mode = s.mode /\ v.active = s.active /\ v.phase = s.phase
      /\ v.deadline = s.deadline /\ v.manual_snoozes = s.manual_snoozes /\ v.enabled
  BY SettingsWhole
<1>3. Step(s, t, i) = Schedule(a, t, i)
  BY <1>2 DEF Step, StepSet
<1> HIDE DEF v
<1>4. CancelActive(v, i) = Keep(v)
  BY <1>2 DEF CancelActive, ActiveCancelled, WindowCancelled
<1>5. a = Quieted(c, FALSE)
  BY <1>4 DEF Carry, Quieted, Keep, Outcome
<1>6. Advanced(v, a, t, i)
  BY <1>2, CarryAdvances
<1> HIDE DEF a
<1>7. /\ Whole(u, t) /\ u.mode = s.mode /\ u.active = s.active /\ u.phase = s.phase
      /\ u.deadline = s.deadline /\ u.manual_snoozes = s.manual_snoozes
  BY <1>2, DropPendingWhole
<1> HIDE DEF u
<1>8. u.mode # "idle"
  BY <1>1, <1>7 DEF Session
<1>9. c = WindowAct(b, t, i) /\ Carried(u, c, t)
  BY <1>7, <1>8, SessionCarried DEF SessionStep, WindowStep
<1> HIDE DEF c
<1>10. y.deadline = Tightened(s, i).deadline
  BY <1>1, <1>7, TightenedDeadline DEF Whole, Stored
<1>11. Whole(y, t) /\ Alike(u, y)
  BY <1>7, TightenedWhole
<1> HIDE DEF y
<1>12. /\ Alike(y, b) /\ b.deadline = y.deadline /\ b.manual_snoozes = y.manual_snoozes
  BY <1>7, <1>11, BoundedSane DEF Alike
<1> HIDE DEF b
<1>13. b.mode = s.mode /\ b.active = s.active /\ b.phase = s.phase /\ b.manual_snoozes = s.manual_snoozes
       /\ b.deadline = Tightened(s, i).deadline /\ b \in States
  BY <1>7, <1>10, <1>11, <1>12 DEF Alike, Locked
<1>14. c.state.active = s.active
  <2>1. Keep(b).state.active = b.active
    BY DEF Keep, Outcome
  <2>2. Ring([b EXCEPT !.phase = "final"], t).state.active = b.active
    BY <1>13 DEF Ring, Outcome, States
  <2>3. CASE s.phase = "final"
    BY <1>9, <1>13, <2>1, <2>3 DEF WindowAct
  <2>4. CASE s.phase # "final"
    <3>1. b.phase # "final" /\ b.mode = "snoozed" /\ FinalOf(b.deadline, b.manual_snoozes) = F
          /\ F <= t /\ ~(t - F > StaleLimit)
      BY <1>13, <2>4
    <3> HIDE DEF F
    <3>2. c = EnterFinal(b, t)
      BY <1>9, <3>1 DEF WindowAct
    <3>3. EnterFinal(b, t) = Ring([b EXCEPT !.phase = "final"], t)
      BY <3>1 DEF EnterFinal
    <3> QED BY <1>13, <2>2, <3>2, <3>3
  <2> QED BY <2>3, <2>4
<1>15. c = Outcome(c.state, c.start, c.stop, c.windowDone)
  BY <1>9 DEF Carried
<1>16. a.state = c.state
  BY <1>5, <1>15, QuietedIs
<1> DEFINE w == a.state
<1> DEFINE start == a.start
<1> DEFINE stop == a.stop
<1> DEFINE windowDone == a.windowDone
<1>17. a = Outcome(w, start, stop, windowDone) /\ stop \in BOOLEAN /\ Sane(w, t) /\ NapStands(w, i)
       /\ (start # None => w.mode = "ringing")
  BY <1>6 DEF Advanced, Audible
<1>18. w.mode # "idle"
  <2>1. s.active # None
    BY <1>1 DEF Session
  <2> QED BY <1>14, <1>16, <1>17, <2>1 DEF Sane, Whole, Session
<1> HIDE DEF w, start, stop, windowDone
<1>19. Scheduled(w, Schedule(a, t, i), i)
  BY <1>17, ScheduleIs
<1>20. Schedule(a, t, i).state.active = w.active
  BY <1>18, <1>19 DEF Scheduled, SameSession
<1> QED BY <1>3, <1>14, <1>16, <1>20 DEF w

-----------------------------------------------------------------------------
\* The daemon and its surroundings.

Healths == {"up", "starting", "down"}

Helpers ==
  [sched : [wake : Instants, deadline : Instants, prep : Instants, count : Instants],
   nap : Instants, skipped : Instants, enabled : {"on", "off"}, stop : Instants,
   snooze : Instants, health : Healths, mode : Modes, window_done : Instants,
   handled : Instants, failed : BOOLEAN]

Memories ==
  [healthy : BOOLEAN, resume : BOOLEAN, restoring : BOOLEAN, reported : SUBSET BOOLEAN,
   handled : Instants, pressed : Instants]

Todos ==
  [busy : BOOLEAN, start : Instants, stop : BOOLEAN, ok : BOOLEAN, all : BOOLEAN,
   retire : SUBSET Instants]

\* What a poll reads.
LEMMA ReadingIs ==
  ASSUME ha \in Helpers, NEW x \in Instants
  PROVE  LET i == Reading(x)
         IN /\ i \in Readings /\ i.known = i.nap_known /\ i.activity_at = x
            /\ i.known = (ha.health = "up") /\ i.ha_ok = (ha.health # "down")
            /\ i.enabled = (IF ha.health = "up" THEN ha.enabled ELSE "unknown")
            /\ i.skipped_at \in {ha.skipped, None} /\ i.nap_at \in {ha.nap, None}
            /\ i.known => /\ i.skipped_at = ha.skipped /\ i.nap_at = ha.nap
                          /\ i.wake_at = ha.sched.wake
            /\ ~i.known => i.skipped_at = None /\ i.nap_at = None /\ i.wake_at = None
<1> DEFINE live == ha.health = "up"
<1>1. /\ ha.nap \in Instants /\ ha.skipped \in Instants /\ ha.enabled \in {"on", "off"}
      /\ ha.stop \in Instants /\ ha.snooze \in Instants
      /\ ha.sched.wake \in Instants /\ ha.sched.deadline \in Instants
      /\ ha.sched.prep \in Instants /\ ha.sched.count \in Instants
  BY DEF Helpers
<1>2. live \in BOOLEAN /\ (ha.health # "down") \in BOOLEAN
  OBVIOUS
<1> DEFINE i == Reading(x)
<1>3. i.known = live /\ i.nap_known = live /\ i.ha_ok = (ha.health # "down")
  BY DEF Reading
<1>4. /\ i.activity_at = x /\ i.enabled = (IF live THEN ha.enabled ELSE "unknown")
      /\ i.skipped_at = (IF live THEN ha.skipped ELSE None)
      /\ i.nap_at = (IF live THEN ha.nap ELSE None)
      /\ i.wake_at = (IF live THEN ha.sched.wake ELSE None)
  BY DEF Reading
<1>5. i \in Readings
  <2> DEFINE seen(y) == IF live THEN y ELSE None
  <2>1. \A y \in Instants : seen(y) \in Instants
    BY Literals
  <2>2. i = [ha_ok |-> ha.health # "down",
             enabled |-> IF live THEN ha.enabled ELSE "unknown",
             known |-> live, nap_known |-> live,
             wake_at |-> seen(ha.sched.wake), deadline_at |-> seen(ha.sched.deadline),
             prep_threshold |-> seen(ha.sched.prep), manual_snoozes |-> seen(ha.sched.count),
             nap_at |-> seen(ha.nap), skipped_at |-> seen(ha.skipped),
             stop_pressed_at |-> seen(ha.stop), snooze_pressed_at |-> seen(ha.snooze),
             activity_at |-> x]
    BY DEF Reading
  <2>3. (IF live THEN ha.enabled ELSE "unknown") \in {"on", "off", "unknown"}
    BY <1>1
  <2> DEFINE en == IF live THEN ha.enabled ELSE "unknown"
  <2> DEFINE ok == ha.health # "down"
  <2> HIDE DEF seen, live, i, en, ok
  <2> QED BY <1>1, <1>2, <2>1, <2>2, <2>3 DEF Readings, en, ok
<1> HIDE DEF i
<1> QED BY <1>3, <1>4, <1>5 DEF i

\* A cached ring is whole, and snoozed until now only if it is a final alarm that is due.
LEMMA RestoredIs ==
  ASSUME NEW t \in Nat, NEW s, Sane(s, t), NEW i \in Readings,
         mem.restoring => s.phase # "none" /\ s.mode = "ringing"
  PROVE  LET p == Restored(s, t, i)
         IN /\ Whole(p, t) /\ SameRest(s, p) /\ p.window_done_pending = s.window_done_pending
            /\ p.active = s.active /\ p.active_kind = s.active_kind
            /\ p.ring_started = s.ring_started /\ p.deadline = s.deadline
            /\ p.manual_snoozes = s.manual_snoozes /\ (p.phase # "none" <=> s.phase # "none")
            /\ \/ p = s
               \/ /\ mem.restoring /\ s.mode = "ringing" /\ p.phase = "window" /\ p.mode = "snoozed"
                  /\ FinalOf(Tightened(s, i).deadline, s.manual_snoozes) <= t
                  /\ \/ mem.resume
                     \/ t - FinalOf(Tightened(s, i).deadline, s.manual_snoozes) > StaleLimit
<1> DEFINE F == FinalOf(Tightened(s, i).deadline, s.manual_snoozes)
<1> DEFINE due == mem.restoring /\ F <= t /\ (mem.resume \/ t - F > StaleLimit)
<1> DEFINE u == [s EXCEPT !.mode = "snoozed", !.phase = "window", !.snooze_until = t]
<1>1. s \in States /\ Stored(s, t) /\ Session(s, t) /\ Snoozing(s)
  BY DEF Sane, Whole, Stored
<1>2. Restored(s, t, i) = IF due THEN u ELSE s
  BY DEF Restored
<1>3. CASE ~due
  <2>1. Restored(s, t, i) = s
    BY <1>2, <1>3
  <2> HIDE DEF due, u
  <2> QED BY <1>1, <2>1 DEF Whole, SameRest
<1>4. CASE due
  <2>1. s.phase # "none" /\ s.mode = "ringing"
    BY <1>4
  <2>2. Restored(s, t, i) = u
    BY <1>2, <1>4
  <2>3. u \in States
    BY <1>1, Literals DEF States
  <2>4. /\ u.mode = "snoozed" /\ u.ring_started = s.ring_started /\ u.snooze_until = t
        /\ u.active = s.active /\ u.active_kind = s.active_kind /\ u.deadline = s.deadline
        /\ u.phase = "window" /\ u.manual_snoozes = s.manual_snoozes
        /\ u.window_done_pending = s.window_done_pending /\ SameRest(s, u)
    BY <1>1 DEF States, SameRest
  <2> HIDE DEF u
  <2>5. /\ s.active \in Int /\ s.ring_started \in Int /\ u.active \in Int
        /\ u.ring_started \in Int
    BY <1>1, <2>3, FieldTypes
  <2>6. Stored(u, t)
    BY <1>1, <2>3, <2>4, StoredStays
  <2>7. Session(u, t)
    BY <1>1, <2>1, <2>4, <2>5 DEF Session, SameRest
  <2>8. Snoozing(u)
    <3>1. t # None /\ t \in Instants
      BY Literals
    <3> QED BY <2>4, <3>1 DEF Snoozing
  <2> QED BY <1>4, <2>1, <2>2, <2>4, <2>6, <2>7, <2>8 DEF Whole
<1> QED BY <1>3, <1>4

\* A resumed ring is sounded again.
LEMMA ResumedIs ==
  ASSUME NEW t \in Nat, Sane(d, t), NEW o, o = Outcome(o.state, o.start, o.stop, o.windowDone),
         Sane(o.state, t)
  PROVE  LET r == Resumed(o)
         IN /\ Sane(r.state, t) /\ SameRest(o.state, r.state) /\ r.state.mode = o.state.mode
            /\ r.state.active = o.state.active /\ r.state.active_kind = o.state.active_kind
            /\ r.state.deadline = o.state.deadline /\ r.state.phase = o.state.phase
            /\ r.state.manual_snoozes = o.state.manual_snoozes
            /\ r.state.window_done_pending = o.state.window_done_pending
            /\ r.state.snooze_until = o.state.snooze_until
            /\ r.stop = o.stop /\ r.windowDone = o.windowDone
            /\ r.start = IF mem.resume /\ o.state.mode = "ringing" /\ o.start = None
                         THEN o.state.active ELSE o.start
<1> DEFINE w == o.state
<1> DEFINE same == mem.resume /\ d.mode = "ringing" /\ w.mode = "ringing" /\ w.active = d.active
<1> DEFINE g == IF same THEN d.ring_started ELSE w.ring_started
<1> DEFINE n == IF mem.resume /\ w.mode = "ringing" /\ o.start = None THEN w.active ELSE o.start
<1> DEFINE u == [w EXCEPT !.ring_started = g]
<1> DEFINE r == Resumed(o)
<1>1. w \in States /\ Stored(w, t) /\ Session(w, t) /\ Snoozing(w) /\ WithinWindow(w)
      /\ d \in States /\ Session(d, t)
  BY DEF Sane, Whole, Stored
<1>2. r = [o EXCEPT !.state = u, !.start = n]
  BY DEF Resumed
<1>3. g \in Instants
  BY <1>1 DEF States
<1>4. w.mode # "idle" => g # None /\ g <= t
  <2>1. d.ring_started \in Int /\ w.ring_started \in Int
    BY <1>1, FieldTypes
  <2> QED BY <1>1, <2>1 DEF Session
<1> DEFINE sa == o.start
<1> DEFINE so == o.stop
<1> DEFINE wd == o.windowDone
<1>5. o = Outcome(w, sa, so, wd)
  OBVIOUS
<1>6. r = Rung(o, u, n)
  BY <1>2 DEF Rung
<1> HIDE DEF g, r, same
<1>7. u \in States
  BY <1>1, <1>3 DEF States
<1>8. /\ SameRest(w, u) /\ u.mode = w.mode /\ u.active = w.active /\ u.active_kind = w.active_kind
      /\ u.ring_started = g /\ u.snooze_until = w.snooze_until /\ u.deadline = w.deadline
      /\ u.phase = w.phase /\ u.manual_snoozes = w.manual_snoozes
      /\ u.window_done_pending = w.window_done_pending
  BY <1>1 DEF States, SameRest
<1> HIDE DEF u, n, w, sa, so, wd
<1>9. r = Outcome(u, n, so, wd)
  BY <1>5, <1>6, Replaced
<1>10. r.state = u /\ r.start = n /\ r.stop = so /\ r.windowDone = wd
  BY <1>9 DEF Outcome
<1>11. u.active \in Int /\ w.active \in Int /\ g \in Int
  BY <1>1, <1>3, <1>7, FieldTypes, Literals
<1>12. Stored(u, t)
  BY <1>1, <1>7, <1>8, StoredStays
<1>13. Session(u, t)
  BY <1>1, <1>4, <1>8, <1>11 DEF Session, SameRest
<1>14. Snoozing(u) /\ WithinWindow(u)
  BY <1>1, <1>8 DEF Snoozing, WithinWindow
<1>15. Sane(u, t)
  BY <1>12, <1>13, <1>14 DEF Sane, Whole
<1> QED BY <1>8, <1>10, <1>15 DEF r, n, w, sa, so, wd

\* The variables have their types.
Types ==
  /\ clock \in Times /\ events \in 0..MaxEvents /\ up \in BOOLEAN /\ polled \in BOOLEAN
  /\ playing \in OptTimes /\ over \subseteq Nat
  /\ ha \in Helpers /\ mem \in Memories /\ todo \in Todos

\* The state is in order, and is what was saved; what was done has ended or is active.
Kept ==
  /\ Sane(d, clock) /\ cache = d
  /\ over \subseteq d.done /\ d.done \subseteq over \cup {d.active} /\ d.active \notin over

\* A restarted daemon owes the resumption of the ring it cached, and a process that is
\* gone leaves nothing else behind.
Owed ==
  /\ mem.resume => d.mode = "ringing" /\ mem.healthy
  /\ mem.restoring => d.phase # "none" /\ d.mode = "ringing" /\ (mem.resume \/ ~mem.healthy)
  /\ ~up => ~todo.busy /\ (d.mode = "ringing" /\ mem.healthy => mem.resume)

\* Between polls the sound is that of the alarm that rings.
Heard ==
  ~todo.busy =>
    /\ todo = Nothing
    /\ playing = IF d.mode = "ringing" /\ mem.healthy /\ ~mem.resume THEN d.active ELSE None

\* What is left to do makes it so, for the state s and the sound on the speakers.
WillSound(s, work) ==
  IF work.start # None THEN work.start = s.active /\ s.mode = "ringing"
  ELSE IF s.mode = "ringing"
  THEN ~work.stop /\ playing = IF mem.healthy THEN s.active ELSE None
  ELSE work.stop \/ playing = None

\* It retires only intent whose wake has ended or is skipped, or any at master-off.
WillRetire(work, ended) == work.all \/ work.retire \subseteq (ended \cup {ha.skipped}) \ {None}

Doing ==
  todo.busy => ~mem.resume /\ ~mem.restoring /\ WillSound(d, todo) /\ WillRetire(todo, over)

Inv == Types /\ Kept /\ Owed /\ Heard /\ Doing

\* The history after a poll.
Ended(s) == over \cup ((s.done \cup {d.active}) \ {s.active, None})

\* What a poll decides.
Polled(r, i) ==
  /\ Sane(r.state, clock) /\ d.done \subseteq r.state.done
  /\ r.state.window_done_pending \in {d.window_done_pending, clock}
  /\ r.state.active \in {d.active, None} \/ r.state.active \notin d.done
  /\ d.phase # "none" /\ r.state.active = d.active => Locked(d, r.state)
  /\ /\ r.state.active = d.pending /\ d.pending \notin {None, d.active}
     /\ d.pending_manual_snoozes # None /\ ha.nap # d.pending
     => /\ r.state.manual_snoozes = d.pending_manual_snoozes
        /\ r.state.deadline = d.pending_deadline
  /\ r.todo \in Todos /\ r.todo.busy
  /\ WillSound(r.state, r.todo) /\ WillRetire(r.todo, Ended(r.state))
  /\ \/ d.phase # "final" \/ r.state.active = d.active
     \/ mem.pressed # None \/ ~r.state.enabled
     \/ ha.health = "up" /\ (ha.skipped = d.active \/ ha.sched.wake = None)
     \/ mem.restoring /\ clock - FinalOf(Tightened(d, i).deadline, d.manual_snoozes) > StaleLimit

LEMMA PollIs ==
  ASSUME Inv, ~todo.busy
  PROVE  LET i == Reading(mem.pressed)
         IN  Polled(RunOnce(clock, i), i)
<1> DEFINE i == Reading(mem.pressed)
<1> DEFINE p == Restored(d, clock, i)
<1> DEFINE o == Step(p, clock, i)
<1> DEFINE q == Resumed(o)
<1> DEFINE r == RunOnce(clock, i)
<1> DEFINE u == r.state
<1>1. /\ clock \in Nat /\ ha \in Helpers /\ mem \in Memories /\ mem.pressed \in Instants
      /\ Sane(d, clock) /\ d \in States /\ Stored(d, clock) /\ Session(d, clock)
  BY DaemonConstants DEF Inv, Types, Kept, Memories, Times, Sane, Whole, Stored
<1>2. /\ i \in Readings /\ i.known = i.nap_known /\ i.activity_at = mem.pressed
      /\ i.known = (ha.health = "up") /\ i.ha_ok = (ha.health # "down")
      /\ i.enabled = (IF ha.health = "up" THEN ha.enabled ELSE "unknown")
      /\ i.skipped_at \in {ha.skipped, None} /\ i.nap_at \in {ha.nap, None}
      /\ i.known => /\ i.skipped_at = ha.skipped /\ i.nap_at = ha.nap
                    /\ i.wake_at = ha.sched.wake
      /\ ~i.known => i.skipped_at = None /\ i.nap_at = None /\ i.wake_at = None
  BY <1>1, ReadingIs
<1>3. r.state = q.state
      /\ r.todo = [busy |-> TRUE, start |-> q.start, stop |-> q.stop, ok |-> i.ha_ok,
                   all |-> WindowOn /\ i.ha_ok /\ i.enabled = "off",
                   retire |-> IF WindowOn THEN Retired(i, d, p, q) ELSE {}]
  BY DEF RunOnce, Decided
<1> HIDE DEF i, r
<1>4. mem.restoring => d.phase # "none" /\ d.mode = "ringing"
  BY DEF Inv, Owed
<1>5. /\ Whole(p, clock) /\ SameRest(d, p) /\ p.window_done_pending = d.window_done_pending
      /\ p.active = d.active /\ p.active_kind = d.active_kind
      /\ p.ring_started = d.ring_started /\ p.deadline = d.deadline
      /\ p.manual_snoozes = d.manual_snoozes /\ (p.phase # "none" <=> d.phase # "none")
      /\ \/ p = d
         \/ /\ mem.restoring /\ d.mode = "ringing" /\ p.phase = "window" /\ p.mode = "snoozed"
            /\ FinalOf(Tightened(d, i).deadline, d.manual_snoozes) <= clock
            /\ \/ mem.resume
               \/ clock - FinalOf(Tightened(d, i).deadline, d.manual_snoozes) > StaleLimit
  BY <1>1, <1>2, <1>4, RestoredIs
<1> HIDE DEF p
<1>6. Progressed(p, o, clock, i)
  BY <1>1, <1>2, <1>5, StepProgresses
<1>7. o = Outcome(o.state, o.start, o.stop, o.windowDone) /\ o.stop \in BOOLEAN
      /\ Sane(o.state, clock)
  BY <1>6 DEF Progressed
<1> HIDE DEF o
<1>8. /\ Sane(q.state, clock) /\ SameRest(o.state, q.state) /\ q.state.mode = o.state.mode
      /\ q.state.active = o.state.active /\ q.state.active_kind = o.state.active_kind
      /\ q.state.deadline = o.state.deadline /\ q.state.phase = o.state.phase
      /\ q.state.manual_snoozes = o.state.manual_snoozes
      /\ q.state.window_done_pending = o.state.window_done_pending
      /\ q.stop = o.stop /\ q.windowDone = o.windowDone
      /\ q.start = IF mem.resume /\ o.state.mode = "ringing" /\ o.start = None
                   THEN o.state.active ELSE o.start
  BY <1>1, <1>7, ResumedIs
<1> HIDE DEF q
<1>9. /\ d.done \subseteq u.done /\ u.window_done_pending \in {d.window_done_pending, clock}
      /\ u.active \in {d.active, None} \/ u.active \notin d.done
  BY <1>3, <1>5, <1>6, <1>8 DEF Progressed, SameRest
<1>10. d.phase # "none" /\ u.active = d.active => Locked(d, u)
  BY <1>3, <1>5, <1>6, <1>8 DEF Progressed, Locked
<1>11. ASSUME u.active = d.pending, d.pending \notin {None, d.active},
              d.pending_manual_snoozes # None, ha.nap # d.pending
       PROVE  /\ u.manual_snoozes = d.pending_manual_snoozes
              /\ u.deadline = d.pending_deadline
  <2>1. i.nap_at # d.pending
    BY <1>2, <1>11
  <2> QED BY <1>3, <1>5, <1>6, <1>8, <1>11, <2>1 DEF Progressed, SameRest
<1>12. WillSound(u, r.todo)
  <2>1. r.todo.start = q.start /\ r.todo.stop = o.stop
    BY <1>3, <1>8
  <2>2. playing = IF d.mode = "ringing" /\ mem.healthy /\ ~mem.resume THEN d.active ELSE None
    BY DEF Inv, Heard
  <2>3. u.mode = o.state.mode /\ u.active = o.state.active
    BY <1>3, <1>8
  <2>4. p.mode = "ringing" => d.mode = "ringing"
    BY <1>5
  <2>5. p.mode # "ringing" => playing = None
    BY <1>5, <2>2 DEF Inv, Owed
  <2>6. u.mode = "ringing" => u.active # None
    BY <1>7, <2>3 DEF Sane, Whole, Session
  <2>7. CASE o.start # None
    BY <1>6, <1>8, <2>1, <2>3, <2>7 DEF Progressed, Audible, WillSound
  <2>8. CASE o.start = None /\ u.mode = "ringing"
    <3>1. p.mode = "ringing" /\ d.mode = "ringing" /\ u.active = d.active /\ ~o.stop
      BY <1>5, <1>6, <2>3, <2>4, <2>8 DEF Progressed, Audible
    <3>2. CASE mem.resume
      BY <1>8, <2>1, <2>3, <2>6, <2>8, <3>2 DEF WillSound
    <3>3. CASE ~mem.resume
      <4>1. r.todo.start = None
        BY <1>8, <2>1, <2>8, <3>3
      <4>2. playing = IF mem.healthy THEN u.active ELSE None
        BY <2>2, <3>1, <3>3
      <4> QED BY <2>1, <2>8, <3>1, <4>1, <4>2 DEF WillSound
    <3> QED BY <3>2, <3>3
  <2>9. CASE o.start = None /\ u.mode # "ringing"
    <3>1. o.stop \/ p.mode # "ringing"
      BY <1>6, <2>3, <2>9 DEF Progressed, Audible
    <3>2. r.todo.start = None
      BY <1>8, <2>1, <2>3, <2>9
    <3> QED BY <2>1, <2>5, <2>9, <3>1, <3>2 DEF WillSound
  <2> QED BY <2>7, <2>8, <2>9
<1> DEFINE ended == Ended(u)
<1>13. Retired(i, d, p, q) \subseteq Instants
  <2>1. i.skipped_at \in Instants /\ d.pending \in Instants /\ p.active \in Instants
    BY <1>1, <1>2, <1>5 DEF Readings, States
  <2> QED BY <2>1 DEF Retired
<1>14. r.todo \in Todos /\ r.todo.busy
  <2>1. q.start \in Instants
    <3>1. u.active \in Instants /\ o.state.active = u.active
      BY <1>3, <1>8 DEF Sane, Whole, Stored, States
    <3>2. o.start \in {None, o.state.active}
      BY <1>6 DEF Progressed, Audible
    <3> QED BY <1>8, <3>1, <3>2, Literals
  <2>2. q.stop \in BOOLEAN /\ i.ha_ok \in BOOLEAN
    BY <1>2, <1>7, <1>8 DEF Readings
  <2> DEFINE all == WindowOn /\ i.ha_ok /\ i.enabled = "off"
  <2> DEFINE gone == IF WindowOn THEN Retired(i, d, p, q) ELSE {}
  <2>3. all \in BOOLEAN /\ gone \in SUBSET Instants
    BY <1>13
  <2>4. r.todo = [busy |-> TRUE, start |-> q.start, stop |-> q.stop, ok |-> i.ha_ok,
                  all |-> all, retire |-> gone]
    BY <1>3
  <2> HIDE DEF all, gone
  <2>5. r.todo.busy
    BY <2>4
  <2> QED BY <2>1, <2>2, <2>3, <2>4, <2>5 DEF Todos
<1>15. WillRetire(r.todo, ended)
  <2>1. CASE ~WindowOn
    BY <1>3, <2>1 DEF WillRetire
  <2>2. CASE WindowOn
    <3> DEFINE cleared == i.ha_ok /\ i.known /\ i.wake_at = None
    <3>1. SUFFICES ASSUME ~r.todo.all, NEW x \in Retired(i, d, p, q)
                   PROVE  x \in (ended \cup {ha.skipped}) \ {None}
      BY <1>3, <2>2 DEF WillRetire
    <3>2. ~(i.ha_ok /\ i.enabled = "off")
      <4> DEFINE all == WindowOn /\ i.ha_ok /\ i.enabled = "off"
      <4> DEFINE work == [busy |-> TRUE, start |-> q.start, stop |-> q.stop, ok |-> i.ha_ok,
                          all |-> all, retire |-> IF WindowOn THEN Retired(i, d, p, q) ELSE {}]
      <4>1. r.todo = work
        BY <1>3
      <4>2. work.all = all
        <5> HIDE DEF all
        <5> QED OBVIOUS
      <4> HIDE DEF work
      <4>3. ~all
        BY <3>1, <4>1, <4>2
      <4> QED BY <2>2, <4>3
    <3>3. \/ i.ha_ok /\ i.skipped_at # None /\ x = i.skipped_at
          \/ cleared /\ d.pending_kind = "wake" /\ x = d.pending /\ x # None
          \/ p.active # None /\ q.state.active # p.active /\ x = p.active
      BY <3>1 DEF Retired
    <3>4. CASE i.ha_ok /\ i.skipped_at # None /\ x = i.skipped_at
      BY <1>2, <3>4
    <3>5. CASE cleared /\ d.pending_kind = "wake" /\ x = d.pending /\ x # None
      <4>1. i.enabled = "on"
        <5>1. i.enabled = ha.enabled /\ ha.enabled \in {"on", "off"}
          BY <1>1, <1>2, <3>5 DEF Helpers
        <5> QED BY <3>2, <3>5, <5>1
      <4>2. Settings(p, i).enabled
        BY <1>2, <1>5, <3>5, <4>1, <1>1, SettingsWhole
      <4>3. d.pending \in o.state.done /\ d.pending # o.state.active
        BY <1>5, <1>6, <3>5, <4>2 DEF Progressed, SameRest
      <4> QED BY <1>3, <1>8, <3>5, <4>3 DEF Ended, SameRest
    <3>6. CASE p.active # None /\ q.state.active # p.active /\ x = p.active
      BY <1>3, <1>5, <3>6 DEF Ended
    <3> QED BY <3>3, <3>4, <3>5, <3>6
  <2>3. WindowOn \in BOOLEAN
    BY StepAssumption
  <2> QED BY <2>1, <2>2
<1>16. \/ d.phase # "final" \/ u.active = d.active
       \/ mem.pressed # None \/ ~u.enabled
       \/ ha.health = "up" /\ (ha.skipped = d.active \/ ha.sched.wake = None)
       \/ mem.restoring /\ clock - FinalOf(Tightened(d, i).deadline, d.manual_snoozes) > StaleLimit
  <2>1. SUFFICES ASSUME d.phase = "final", mem.pressed = None, u.enabled,
                        ~(ha.health = "up" /\ (ha.skipped = d.active \/ ha.sched.wake = None)),
                        ~(mem.restoring /\ clock - FinalOf(Tightened(d, i).deadline, d.manual_snoozes)
                                             > StaleLimit)
                 PROVE  u.active = d.active
    OBVIOUS
  <2>2. d.active # None
    BY <1>1, <2>1 DEF Session
  <2>3. ~WindowCancelled(p, i)
    BY <1>2, <1>5, <2>1, <2>2 DEF WindowCancelled
  <2>4. Settings(p, i).enabled
    BY <1>3, <1>6, <1>8, <2>1 DEF Progressed, SameRest
  <2>5. Tightened(p, i).deadline = Tightened(d, i).deadline
    BY <1>1, <1>5, TightenedDeadline DEF Whole, Stored
  <2>6. p.phase # "none"
    BY <1>5, <2>1
  <2> DEFINE F == FinalOf(Tightened(p, i).deadline, p.manual_snoozes)
  <2>7. F = FinalOf(Tightened(d, i).deadline, d.manual_snoozes)
    BY <1>5, <2>5
  <2> HIDE DEF F
  <2>8. \/ p.phase = "final"
        \/ p.phase = "window" /\ p.mode = "snoozed" /\ F <= clock /\ ~(clock - F > StaleLimit)
    BY <1>5, <2>1, <2>7
  <2>9. o.state.active = p.active
    <3>1. /\ clock \in Nat /\ Whole(p, clock) /\ i \in Readings /\ i.known = i.nap_known
          /\ i.activity_at = None
      BY <1>1, <1>2, <1>5, <2>1
    <3>2. \/ p.phase = "final"
          \/ /\ p.phase = "window" /\ p.mode = "snoozed"
             /\ FinalOf(Tightened(p, i).deadline, p.manual_snoozes) <= clock
             /\ ~(clock - FinalOf(Tightened(p, i).deadline, p.manual_snoozes) > StaleLimit)
      BY <2>8 DEF F
    <3>3. Step(p, clock, i).state.active = p.active
      BY <2>3, <2>4, <2>6, <3>1, <3>2, FinalStays
    <3> QED BY <3>3 DEF o
  <2> QED BY <1>3, <1>5, <1>8, <2>9
<1> QED BY <1>3, <1>8, <1>9, <1>10, <1>11, <1>12, <1>14, <1>15, <1>16 DEF Polled, i, r

-----------------------------------------------------------------------------
\* The actions keep the invariant.

\* What every act but a poll leaves of the state.
SameAlarm(s, u) ==
  /\ u.mode = s.mode /\ u.active = s.active /\ u.phase = s.phase /\ u.deadline = s.deadline
  /\ u.manual_snoozes = s.manual_snoozes /\ u.done = s.done

\* A saved state loads as it was saved.
LEMMA LoadIs ==
  ASSUME NEW t, NEW s, Sane(s, t)
  PROVE  Load(s) = s
<1> DEFINE mode == IF s.active = None THEN "idle"
                   ELSE IF s.mode = "snoozed" /\ s.snooze_until # None THEN "snoozed"
                   ELSE IF s.mode = "ringing" /\ s.ring_started # None THEN "ringing"
                   ELSE "idle"
<1> DEFINE phase == IF s.deadline # None /\ mode # "idle" THEN s.phase ELSE "none"
<1>1. s \in States /\ Session(s, t) /\ Snoozing(s)
  BY DEF Sane, Whole, Stored
<1>2. mode = s.mode
  BY <1>1 DEF States, Modes, Session, Snoozing
<1>3. Load(s) = [s EXCEPT !.mode = mode, !.phase = phase,
                          !.active = IF mode = "idle" THEN None ELSE s.active,
                          !.deadline = IF phase = "none" THEN None ELSE s.deadline,
                          !.manual_snoozes = IF phase = "none" THEN None ELSE s.manual_snoozes]
  BY DEF Load
<1> HIDE DEF mode
<1>4. phase = s.phase
  BY <1>1, <1>2 DEF Session
<1> HIDE DEF phase
<1>5. /\ (IF mode = "idle" THEN None ELSE s.active) = s.active
      /\ (IF phase = "none" THEN None ELSE s.deadline) = s.deadline
      /\ (IF phase = "none" THEN None ELSE s.manual_snoozes) = s.manual_snoozes
  BY <1>1, <1>2, <1>4 DEF Session
<1>6. Load(s) = [s EXCEPT !.mode = s.mode, !.phase = s.phase, !.active = s.active,
                          !.deadline = s.deadline, !.manual_snoozes = s.manual_snoozes]
  BY <1>2, <1>3, <1>4, <1>5
<1> QED BY <1>1, <1>6 DEF States

\* What a process that starts makes of it.
LEMMA MemoryIs ==
  ASSUME NEW s \in States
  PROVE  LET m == Memory(s)
         IN /\ m \in Memories /\ m.healthy = ~s.audio_failed
            /\ m.resume = (s.mode = "ringing" /\ ~s.audio_failed)
            /\ m.restoring = (s.phase # "none" /\ s.mode = "ringing")
<1> DEFINE healthy == ~s.audio_failed
<1> DEFINE resume == s.mode = "ringing" /\ ~s.audio_failed
<1> DEFINE restoring == s.phase # "none" /\ s.mode = "ringing"
<1> DEFINE reported == IF s.audio_failed THEN {} ELSE {FALSE}
<1>1. Memory(s) = [healthy |-> healthy, resume |-> resume, restoring |-> restoring,
                   reported |-> reported, handled |-> None, pressed |-> None]
  BY DEF Memory
<1>2. healthy \in BOOLEAN /\ resume \in BOOLEAN /\ restoring \in BOOLEAN
      /\ reported \in SUBSET BOOLEAN
  OBVIOUS
<1> HIDE DEF healthy, resume, restoring, reported
<1>3. Memory(s) \in Memories
  BY <1>1, <1>2, Literals DEF Memories
<1>4. /\ Memory(s).healthy = healthy /\ Memory(s).resume = resume
      /\ Memory(s).restoring = restoring
  BY <1>1
<1> QED BY <1>3, <1>4 DEF healthy, resume, restoring

\* A write-back leaves the alarm alone.
Patched(s, failed, w) == [s EXCEPT !.audio_failed = failed, !.window_done_pending = w]

LEMMA PatchedSane ==
  ASSUME NEW t \in Nat, NEW s, Sane(s, t), NEW failed, NEW w,
         w \in {s.window_done_pending, None}, NEW u \in States, u = Patched(s, failed, w)
  PROVE  Sane(u, t) /\ SameAlarm(s, u) /\ u.window_done_pending = w
<1>1. s \in States /\ Stored(s, t) /\ Session(s, t) /\ Snoozing(s) /\ WithinWindow(s)
  BY DEF Sane, Whole, Stored
<1>2. w \in Instants
  BY <1>1, Literals DEF States
<1>3. u \in States
  OBVIOUS
<1>4. /\ SameAlarm(s, u) /\ u.window_done_pending = w /\ u.active_kind = s.active_kind
      /\ u.ring_started = s.ring_started /\ u.snooze_until = s.snooze_until
      /\ u.pending = s.pending /\ u.pending_kind = s.pending_kind
      /\ u.pending_deadline = s.pending_deadline
      /\ u.pending_manual_snoozes = s.pending_manual_snoozes
  BY <1>1 DEF States, SameAlarm, Patched
<1>5. /\ s.active \in Int /\ s.ring_started \in Int /\ u.active \in Int /\ u.ring_started \in Int
      /\ s.window_done_pending \in Int /\ w \in Int
  BY <1>1, <1>2, <1>3, FieldTypes, Literals
<1>6. w # None => w <= t
  BY <1>1, <1>5 DEF Stored
<1>7. Stored(u, t)
  BY <1>1, <1>3, <1>4, <1>6 DEF Stored, SameAlarm
<1>8. Session(u, t)
  BY <1>1, <1>4, <1>5 DEF Session, SameAlarm
<1>9. Snoozing(u) /\ WithinWindow(u)
  BY <1>1, <1>4 DEF Snoozing, WithinWindow, SameAlarm
<1> QED BY <1>4, <1>7, <1>8, <1>9 DEF Sane, Whole

\* A state in order stays so as time passes.
LEMMA SaneLater ==
  ASSUME NEW t \in Nat, NEW s, Sane(s, t)
  PROVE  Sane(s, t + 1)
<1>1. s \in States
  BY DEF Sane, Whole, Stored
<1>2. s.active \in Int /\ s.ring_started \in Int /\ s.window_done_pending \in Int
  BY <1>1, FieldTypes
<1>3. Stored(s, t + 1)
  BY <1>2 DEF Sane, Whole, Stored
<1>4. Session(s, t + 1)
  BY <1>2 DEF Sane, Whole, Session
<1> QED BY <1>3, <1>4 DEF Sane, Whole

\* The process dies: what is left is what the next one loads.
LEMMA DieInv ==
  ASSUME Inv, Die(cache), UNCHANGED <<clock, cache, polled, over>>,
         events' \in 0..MaxEvents, ha' \in Helpers
  PROVE  Inv' /\ d' = d
<1>1. Sane(d, clock) /\ cache = d /\ d \in States
  BY DEF Inv, Kept, Sane, Whole, Stored
<1>2. d' = d /\ mem' = Memory(d)
  BY <1>1, LoadIs DEF Die
<1>3. up' = FALSE /\ playing' = None /\ todo' = Nothing
  BY DEF Die
<1>4. /\ mem' \in Memories /\ mem'.healthy = ~d.audio_failed
      /\ mem'.resume = (d.mode = "ringing" /\ ~d.audio_failed)
      /\ mem'.restoring = (d.phase # "none" /\ d.mode = "ringing")
  BY <1>1, <1>2, MemoryIs
<1>5. todo' \in Todos /\ ~todo'.busy
  BY <1>3, Literals DEF Nothing, Todos
<1>6. Types'
  BY <1>3, <1>4, <1>5, Literals DEF Inv, Types, OptTimes, Times
<1>7. Kept'
  BY <1>1, <1>2 DEF Inv, Kept
<1>8. Owed' /\ Heard' /\ Doing'
  BY <1>2, <1>3, <1>4, <1>5 DEF Owed, Heard, Doing
<1> QED BY <1>2, <1>6, <1>7, <1>8 DEF Inv

\* A poll keeps the invariant.
LEMMA PollInv ==
  ASSUME Inv, Poll
  PROVE  Inv' /\ Polled([state |-> d', todo |-> todo'], Reading(mem.pressed))
<1> DEFINE i == Reading(mem.pressed)
<1> DEFINE r == RunOnce(clock, i)
<1>1. /\ up /\ ~todo.busy /\ d' = r.state /\ cache' = r.state /\ todo' = r.todo
      /\ over' = Ended(r.state)
      /\ mem' = [mem EXCEPT !.pressed = None, !.resume = FALSE, !.restoring = FALSE]
      /\ polled' = TRUE
      /\ UNCHANGED <<clock, ha, intent, up, playing, events>>
  BY DEF Poll, Ended
<1>2. Polled(r, i)
  BY <1>1, PollIs
<1> HIDE DEF r, i
<1>3. Polled([state |-> d', todo |-> todo'], i)
  BY <1>1, <1>2 DEF Polled
<1>4. /\ Sane(d', clock) /\ d.done \subseteq d'.done /\ todo' \in Todos /\ todo'.busy
      /\ WillSound(d', todo') /\ WillRetire(todo', over')
      /\ d'.active \in {d.active, None} \/ d'.active \notin d.done
  BY <1>1, <1>2 DEF Polled
<1>5. /\ clock \in Nat /\ mem \in Memories /\ Types /\ Kept
  BY DaemonConstants DEF Inv, Types, Times
<1>6. /\ mem' \in Memories /\ mem'.healthy = mem.healthy /\ ~mem'.resume /\ ~mem'.restoring
  BY <1>1, <1>5, Literals DEF Memories
<1>7. d.done \in SUBSET Nat /\ d'.done \in SUBSET Nat /\ (d.active = None \/ d.active \in d.done)
      /\ (d'.active = None \/ d'.active \in d'.done)
  BY <1>4, <1>5 DEF Kept, Sane, Whole, Stored, Session, States
<1>8. None \notin Nat
  BY Literals
<1>9. over' = over \cup ((d'.done \cup {d.active}) \ {d'.active, None})
  BY <1>1 DEF Ended
<1>10. Types'
  <2>1. over' \subseteq Nat
    BY <1>5, <1>7, <1>9 DEF Types
  <2> QED BY <1>1, <1>4, <1>5, <1>6, <2>1 DEF Types, OptTimes, Times
<1>11. Kept'
  <2>1. over' \subseteq d'.done
    BY <1>4, <1>5, <1>7, <1>9 DEF Kept
  <2>2. d'.done \subseteq over' \cup {d'.active}
    BY <1>7, <1>8, <1>9
  <2>3. d'.active \notin over'
    BY <1>4, <1>5, <1>7, <1>8, <1>9 DEF Kept, Types
  <2> QED BY <1>1, <1>4, <2>1, <2>2, <2>3 DEF Kept
<1>12. Doing'
  BY <1>1, <1>4, <1>6 DEF Doing, WillSound, WillRetire
<1>13. Owed' /\ Heard'
  BY <1>1, <1>4, <1>6 DEF Owed, Heard
<1> QED BY <1>3, <1>10, <1>11, <1>12, <1>13 DEF Inv, i

\* The acts of a poll keep it too; they leave the alarm alone, deliver what they drop,
\* and clear intent only as the poll decided.
LEMMA ActIs ==
  ASSUME Inv, NEW done, NEW healthy \in BOOLEAN, NEW lives \in BOOLEAN,
         Act(done, healthy, lives), events' \in 0..MaxEvents
  PROVE  /\ Inv' /\ SameAlarm(d, d')
         /\ d'.window_done_pending # d.window_done_pending /\ d.window_done_pending # None
              => ha'.window_done = d.window_done_pending
         /\ intent' \in {intent, Retire}
<1> DEFINE sound == Sound(healthy)
<1> DEFINE started == todo.start # None /\ sound.healthy
<1> DEFINE wrote(c) == todo.ok /\ c \in done
<1> DEFINE acked == IF started THEN todo.start ELSE mem.handled
<1> DEFINE handled == IF acked = d.active /\ sound.healthy THEN acked ELSE None
<1> DEFINE known == IF started THEN {} ELSE mem.reported
<1> DEFINE latch == wrote("audio_failed") /\ known # {~sound.healthy}
<1> DEFINE w == IF wrote("window_done") THEN None ELSE d.window_done_pending
<1> DEFINE s == [d EXCEPT !.audio_failed = ~sound.healthy, !.window_done_pending = w]
<1>1. /\ up /\ todo.busy /\ UNCHANGED <<clock, polled, over>>
      /\ intent' = IF "retire" \in done THEN Retire ELSE intent
      /\ ha' = [ha EXCEPT
                  !.mode = IF wrote("mode") THEN d.mode ELSE ha.mode,
                  !.window_done = IF wrote("window_done") /\ d.window_done_pending # None
                                  THEN d.window_done_pending ELSE ha.window_done,
                  !.handled = IF wrote("handled") /\ handled # None THEN handled ELSE ha.handled,
                  !.failed = IF lives /\ latch THEN ~sound.healthy ELSE ha.failed]
  BY DEF Act
<1>2. IF lives
      THEN /\ mem' = [mem EXCEPT
                        !.healthy = sound.healthy,
                        !.handled = IF wrote("handled") THEN None ELSE handled,
                        !.reported = IF latch THEN {~sound.healthy} ELSE known]
           /\ d' = s /\ cache' = s /\ todo' = Nothing /\ playing' = sound.on
           /\ UNCHANGED up
      ELSE Die(cache) /\ UNCHANGED cache
  BY DEF Act
<1>3. /\ clock \in Nat /\ mem \in Memories /\ ha \in Helpers /\ todo \in Todos /\ Types /\ Kept
      /\ Sane(d, clock) /\ d \in States /\ Session(d, clock) /\ WillSound(d, todo)
      /\ ~mem.resume /\ ~mem.restoring
  BY <1>1, DaemonConstants DEF Inv, Types, Kept, Times, Doing, Sane, Whole, Stored
<1>4. sound.healthy \in BOOLEAN /\ mem.healthy \in BOOLEAN
  <2>1. mem.healthy \in BOOLEAN
    BY <1>3 DEF Memories
  <2>2. sound.healthy \in {healthy, FALSE, mem.healthy}
    BY DEF Sound
  <2> QED BY <2>1, <2>2
<1>5. sound.on = IF d.mode = "ringing" /\ sound.healthy THEN d.active ELSE None
  <2>1. CASE todo.start # None
    BY <1>3, <2>1 DEF Sound, WillSound
  <2>2. CASE todo.start = None /\ d.mode = "ringing" /\ mem.healthy /\ ~healthy
    BY <2>2 DEF Sound
  <2>3. CASE todo.start = None /\ ~(d.mode = "ringing" /\ mem.healthy /\ ~healthy)
    <3>1. sound.healthy = mem.healthy /\ sound.on = IF todo.stop THEN None ELSE playing
      BY <2>3 DEF Sound
    <3> QED BY <1>3, <2>3, <3>1 DEF WillSound
  <2> QED BY <2>1, <2>2, <2>3
<1>6. handled \in Instants
  BY <1>3, Literals DEF Memories, Todos
<1>7. ha' \in Helpers /\ ha'.skipped = ha.skipped
      /\ (wrote("window_done") /\ d.window_done_pending # None
            => ha'.window_done = d.window_done_pending)
  <2> DEFINE m == IF wrote("mode") THEN d.mode ELSE ha.mode
  <2> DEFINE wd == IF wrote("window_done") /\ d.window_done_pending # None
                   THEN d.window_done_pending ELSE ha.window_done
  <2> DEFINE h == IF wrote("handled") /\ handled # None THEN handled ELSE ha.handled
  <2> DEFINE f == IF lives /\ latch THEN ~sound.healthy ELSE ha.failed
  <2>1. m \in Modes /\ wd \in Instants /\ h \in Instants
    BY <1>3, <1>6 DEF Helpers, States
  <2>2. f \in BOOLEAN
    BY <1>3, <1>4 DEF Helpers
  <2>3. ha' = [ha EXCEPT !.mode = m, !.window_done = wd, !.handled = h, !.failed = f]
    BY <1>1
  <2>4. wrote("window_done") /\ d.window_done_pending # None => wd = d.window_done_pending
    OBVIOUS
  <2> HIDE DEF m, wd, h, f, wrote
  <2>5. ha' \in Helpers /\ ha'.skipped = ha.skipped /\ ha'.window_done = wd
    BY <1>3, <2>1, <2>2, <2>3 DEF Helpers
  <2> QED BY <2>4, <2>5
<1>8. CASE ~lives
  <2>1. Die(cache) /\ UNCHANGED cache
    BY <1>2, <1>8
  <2>2. Inv' /\ d' = d
    BY <1>1, <1>7, <2>1, DieInv
  <2> QED BY <1>1, <2>2 DEF SameAlarm
<1>9. CASE lives
  <2> DEFINE hd == IF wrote("handled") THEN None ELSE handled
  <2> DEFINE rp == IF latch THEN {~sound.healthy} ELSE known
  <2>1. /\ mem' = [mem EXCEPT !.healthy = sound.healthy, !.handled = hd, !.reported = rp]
        /\ d' = s /\ cache' = s /\ todo' = Nothing /\ playing' = sound.on /\ up' = up
    BY <1>2, <1>9
  <2>2. hd \in Instants /\ rp \in SUBSET BOOLEAN /\ w \in {d.window_done_pending, None}
    BY <1>3, <1>4, <1>6, Literals DEF Memories
  <2>3. w # d.window_done_pending /\ d.window_done_pending # None
          => ha'.window_done = d.window_done_pending
    BY <1>7
  <2> DEFINE failed == ~sound.healthy
  <2>4. failed \in BOOLEAN
    OBVIOUS
  <2>5. s = Patched(d, failed, w)
    BY DEF Patched
  <2> HIDE DEF hd, rp, w, s, failed
  <2>6. Sane(s, clock) /\ SameAlarm(d, s) /\ s.window_done_pending = w
    <3>1. clock \in Nat /\ Sane(d, clock)
      BY <1>3
    <3>2. s \in States
      <4>1. w \in Instants
        BY <1>3, <2>2, Literals DEF States
      <4> QED BY <1>3, <2>4, <2>5, <4>1 DEF States, Patched
    <3> QED BY <2>2, <2>5, <3>1, <3>2, PatchedSane
  <2> HIDE DEF sound
  <2>7. mem' \in Memories /\ mem'.healthy = sound.healthy /\ ~mem'.resume /\ ~mem'.restoring
    BY <1>3, <1>4, <2>1, <2>2 DEF Memories
  <2>8. playing' \in OptTimes
    <3>1. d.active \in Instants
      BY <1>3 DEF States
    <3>2. d.mode = "ringing" => d.active # None /\ d.active <= clock
      BY <1>3 DEF Session
    <3>3. d.mode = "ringing" => d.active \in Nat
      BY <3>1, <3>2, Literals
    <3>4. clock \in 0..MaxTime /\ MaxTime \in Nat
      BY <1>3, DaemonConstants DEF Types, Times
    <3>5. d.mode = "ringing" => d.active \in 0..MaxTime
      BY <3>2, <3>3, <3>4
    <3> QED BY <1>5, <2>1, <3>5 DEF OptTimes, Times
  <2>9. todo' \in Todos /\ ~todo'.busy
    BY <2>1, Literals DEF Nothing, Todos
  <2>10. Types'
    BY <1>1, <1>3, <1>7, <2>1, <2>7, <2>8, <2>9 DEF Types, OptTimes, Times
  <2>11. Kept'
    BY <1>1, <1>3, <2>1, <2>6 DEF Kept, SameAlarm
  <2>12. Owed' /\ Heard' /\ Doing'
    BY <1>1, <1>5, <2>1, <2>6, <2>7, <2>9 DEF Owed, Heard, Doing, SameAlarm
  <2> QED BY <1>1, <2>1, <2>3, <2>6, <2>10, <2>11, <2>12 DEF Inv
<1> QED BY <1>8, <1>9

\* The daemon starts idle.
LEMMA FreshSane == Sane(FreshState, 0)
<1> DEFINE f == FreshState
<1>1. f \in States
  BY Literals DEF FreshState, States
<1>2. /\ f.mode = "idle" /\ f.active = None /\ f.phase = "none" /\ f.deadline = None
      /\ f.manual_snoozes = None /\ f.snooze_until = None /\ f.pending = None
      /\ f.window_done_pending = None
  BY DEF FreshState
<1> HIDE DEF f
<1>3. Stored(f, 0)
  BY <1>1, <1>2 DEF Stored
<1>4. Session(f, 0) /\ Snoozing(f) /\ WithinWindow(f)
  BY <1>2, Literals DEF Session, Snoozing, WithinWindow
<1> QED BY <1>3, <1>4 DEF Sane, Whole, f

LEMMA NoScheduleIs ==
  NoSchedule \in [wake : Instants, deadline : Instants, prep : Instants, count : Instants]
  BY Literals DEF NoSchedule

LEMMA InitInv == Init => Inv
<1> SUFFICES ASSUME Init PROVE Inv
  OBVIOUS
<1>1. /\ clock = 0 /\ d = FreshState /\ cache = FreshState /\ up = TRUE /\ todo = Nothing
      /\ playing = None /\ mem = Memory(FreshState) /\ polled = FALSE /\ over = {} /\ events = 0
  BY DEF Init
<1>2. /\ FreshState.done = {} /\ FreshState.active = None /\ FreshState.mode = "idle"
      /\ FreshState.phase = "none" /\ FreshState.audio_failed = FALSE
  BY DEF FreshState
<1>3. Sane(d, clock) /\ d \in States
  BY <1>1, FreshSane DEF Sane, Whole, Stored
<1>4. /\ mem \in Memories /\ mem.resume = FALSE /\ mem.restoring = FALSE
  BY <1>1, <1>2, <1>3, MemoryIs
<1>5. todo \in Todos /\ ~todo.busy
  BY <1>1, Literals DEF Nothing, Todos
<1>6. ha \in Helpers
  <2>1. PICK s \in Schedules :
          ha = [sched |-> s, nap |-> None, skipped |-> None, enabled |-> "on",
                stop |-> None, snooze |-> None, health |-> "up",
                mode |-> "idle", window_done |-> None, handled |-> None, failed |-> FALSE]
    BY DEF Init
  <2>2. s \in [wake : Instants, deadline : Instants, prep : Instants, count : Instants]
    BY DaemonConstants
  <2>3. "up" \in Healths
    BY DEF Healths
  <2> QED BY <2>1, <2>2, <2>3, Literals DEF Helpers
<1>7. Types
  <2>1. 0 \in Times /\ 0 \in 0..MaxEvents
    BY DaemonConstants DEF Times
  <2> QED BY <1>1, <1>4, <1>5, <1>6, <2>1 DEF Types, OptTimes
<1>8. Kept
  BY <1>1, <1>2, <1>3, Literals DEF Kept
<1>9. Owed /\ Heard /\ Doing
  BY <1>1, <1>2, <1>4, <1>5 DEF Owed, Heard, Doing
<1> QED BY <1>7, <1>8, <1>9 DEF Inv

\* What others do leaves the daemon as it is.
LEMMA OthersInv ==
  ASSUME Inv, UNCHANGED <<clock, mem, polled, daemonVars>>, events' \in 0..MaxEvents,
         ha' \in Helpers, ~todo.busy \/ ha'.skipped = ha.skipped
  PROVE  Inv' /\ d' = d
<1>1. /\ clock' = clock /\ mem' = mem /\ polled' = polled /\ d' = d /\ cache' = cache /\ up' = up
      /\ todo' = todo /\ playing' = playing /\ over' = over
  BY DEF daemonVars
<1>2. Types'
  BY <1>1 DEF Inv, Types, OptTimes, Times
<1>3. Kept' /\ Owed' /\ Heard'
  BY <1>1 DEF Inv, Kept, Owed, Heard
<1>4. Doing'
  BY <1>1 DEF Inv, Doing, WillSound, WillRetire
<1> QED BY <1>1, <1>2, <1>3, <1>4 DEF Inv

\* So do the buttons, and a desktop press is only remembered.
LEMMA ActivityInv ==
  ASSUME Inv, Activity
  PROVE  Inv' /\ d' = d
<1>1. /\ clock' = clock /\ polled' = polled /\ d' = d /\ cache' = cache /\ up' = up
      /\ todo' = todo /\ playing' = playing /\ over' = over /\ ha' = ha
      /\ mem' = [mem EXCEPT !.pressed = clock] /\ events' = events + 1 /\ events < MaxEvents
  BY DEF Activity, Press, Event, daemonVars
<1>2. Types /\ mem \in Memories /\ clock \in Instants /\ events' \in 0..MaxEvents
  BY <1>1, DaemonConstants, Literals DEF Inv, Types, Times
<1>3. /\ mem' \in Memories /\ mem'.healthy = mem.healthy /\ mem'.resume = mem.resume
      /\ mem'.restoring = mem.restoring
  BY <1>1, <1>2 DEF Memories
<1>4. Types'
  BY <1>1, <1>2, <1>3 DEF Types, OptTimes, Times
<1>5. Kept' /\ Owed' /\ Heard'
  BY <1>1, <1>3 DEF Inv, Kept, Owed, Heard
<1>6. Doing'
  BY <1>1, <1>3 DEF Inv, Doing, WillSound, WillRetire
<1> QED BY <1>1, <1>4, <1>5, <1>6 DEF Inv

LEMMA RestartInv ==
  ASSUME Inv, Restart
  PROVE  Inv' /\ d' = d
<1>1. /\ ~up /\ up' = TRUE /\ polled' = FALSE
      /\ UNCHANGED <<clock, ha, intent, d, cache, todo, playing, mem, over, events>>
  BY DEF Restart
<1>2. Types' /\ Kept' /\ Heard'
  BY <1>1 DEF Inv, Types, OptTimes, Times, Kept, Heard
<1>3. Owed' /\ Doing'
  BY <1>1 DEF Inv, Owed, Doing
<1> QED BY <1>1, <1>2, <1>3 DEF Inv

LEMMA TickInv ==
  ASSUME Inv, Tick
  PROVE  Inv' /\ d' = d
<1>1. /\ ~todo.busy /\ clock < MaxTime /\ clock' = clock + 1 /\ polled' = FALSE
      /\ d' = d /\ cache' = cache /\ up' = up /\ todo' = todo /\ playing' = playing /\ over' = over
      /\ ha' = ha /\ intent' = intent /\ mem' = mem /\ events' = events
  BY DEF Tick, Between, daemonVars
<1>2. clock \in Nat /\ clock' \in Times /\ clock \in Times
  BY <1>1, DaemonConstants DEF Inv, Types, Times
<1>3. Sane(d', clock')
  BY <1>1, <1>2, SaneLater DEF Inv, Kept
<1>4. Types'
  BY <1>1, <1>2 DEF Inv, Types, OptTimes, Times
<1>5. Kept'
  BY <1>1, <1>3 DEF Inv, Kept
<1>6. Owed' /\ Heard' /\ Doing'
  BY <1>1 DEF Inv, Owed, Heard, Doing
<1> QED BY <1>1, <1>4, <1>5, <1>6 DEF Inv

\* What any step but a poll may do to the alarm, to a dismissal and to the intent.
Calm ==
  /\ SameAlarm(d, d')
  /\ d'.window_done_pending # d.window_done_pending /\ d.window_done_pending # None
       => ha'.window_done = d.window_done_pending
  /\ intent' = {} /\ intent # {} => todo.busy /\ intent' = Retire

LEMMA CalmWhenKept ==
  ASSUME d' = d, intent' = {} => intent = {}
  PROVE  Calm
  BY DEF Calm, SameAlarm

LEMMA ActSomeInv ==
  ASSUME Inv, ActSome
  PROVE  Inv' /\ Calm
<1>1. events \in 0..MaxEvents /\ MaxEvents \in Nat
  BY DaemonConstants DEF Inv, Types
<1>2. (UNCHANGED events \/ Event) => events' \in 0..MaxEvents
  BY <1>1 DEF Event
<1>3. ASSUME NEW done, NEW healthy \in BOOLEAN, NEW lives \in BOOLEAN,
             Act(done, healthy, lives), UNCHANGED events \/ Event
      PROVE  Inv' /\ Calm
  <2>1. /\ Inv' /\ SameAlarm(d, d')
        /\ d'.window_done_pending # d.window_done_pending /\ d.window_done_pending # None
             => ha'.window_done = d.window_done_pending
        /\ intent' \in {intent, Retire}
    BY <1>2, <1>3, ActIs
  <2>2. todo.busy
    BY <1>3 DEF Act
  <2> QED BY <2>1, <2>2 DEF Calm
<1>4. CASE Act(Callbacks, TRUE, TRUE) /\ UNCHANGED events
  BY <1>3, <1>4
<1>5. CASE Event /\ \E c \in Callbacks : Act(Callbacks \ {c}, TRUE, TRUE)
  BY <1>3, <1>5
<1>6. CASE Event /\ Act({"retire"}, TRUE, TRUE)
  BY <1>3, <1>6
<1>7. CASE Event /\ \E written \in {{"retire"}, Callbacks} : Act(written, FALSE, TRUE)
  BY <1>3, <1>7
<1>8. CASE Event /\ \E written \in {{}, {"retire"}, {"retire", "mode", "window_done"}, Callbacks} :
                      Act(written, TRUE, FALSE)
  BY <1>3, <1>8
<1> QED BY <1>4, <1>5, <1>6, <1>7, <1>8 DEF ActSome

LEMMA DeathInv ==
  ASSUME Inv, Crash \/ Shutdown
  PROVE  Inv' /\ Calm
<1>1. /\ Die(cache) /\ Event /\ UNCHANGED <<clock, intent, cache, polled, over>>
  BY DEF Crash, Shutdown
<1>2. events' \in 0..MaxEvents
  BY <1>1, DaemonConstants DEF Inv, Types, Event
<1>3. ha' \in Helpers
  <2>1. ha \in Helpers /\ d \in States
    BY DEF Inv, Types, Kept, Sane, Whole, Stored
  <2>2. CASE Crash
    BY <2>1, <2>2 DEF Crash
  <2>3. CASE Shutdown
    <3>1. PICK mode \in {ha.mode} \cup (IF ha.health = "up" THEN {d.mode} ELSE {}) :
            ha' = [ha EXCEPT !.mode = mode]
      BY <2>3 DEF Shutdown
    <3>2. mode \in Modes
      BY <2>1, <3>1 DEF Helpers, States
    <3> QED BY <2>1, <3>1, <3>2 DEF Helpers
  <2> QED BY <2>2, <2>3
<1>4. Inv' /\ d' = d
  BY <1>1, <1>2, <1>3, DieInv
<1> QED BY <1>1, <1>4, CalmWhenKept

LEMMA UsersInv ==
  ASSUME Inv, Users
  PROVE  Inv' /\ Calm
<1>1. /\ ha \in Helpers /\ clock \in Instants /\ events \in 0..MaxEvents /\ MaxEvents \in Nat
  BY DaemonConstants, Literals DEF Inv, Types, Times
<1>2. Event => events' \in 0..MaxEvents
  BY <1>1 DEF Event
<1>3. ASSUME Move, ha' \in Helpers, ~todo.busy \/ ha'.skipped = ha.skipped,
             intent' = {} => intent = {}
      PROVE  Inv' /\ Calm
  <2>1. Inv' /\ d' = d
    BY <1>2, <1>3, OthersInv DEF Move
  <2> QED BY <1>3, <2>1, CalmWhenKept
<1>4. ASSUME NEW s \in Schedules \cup {NoSchedule}, Publish(s)
      PROVE  Inv' /\ Calm
  <2>1. s \in [wake : Instants, deadline : Instants, prep : Instants, count : Instants]
    BY DaemonConstants, NoScheduleIs
  <2>2. Move /\ ha' = [ha EXCEPT !.sched = s]
    BY <1>4 DEF Publish
  <2>3. ha' \in Helpers /\ ha'.skipped = ha.skipped
    BY <1>1, <2>1, <2>2 DEF Helpers
  <2>4. intent' = {} => intent = {}
    BY <1>4 DEF Publish
  <2> QED BY <1>3, <2>2, <2>3, <2>4
<1>5. ASSUME SaveIntent PROVE Inv' /\ Calm
  BY <1>1, <1>3, <1>5 DEF SaveIntent
<1>6. ASSUME NEW t \in Naps \cup {None}, SetNap(t) PROVE Inv' /\ Calm
  <2>1. Move /\ ~todo.busy /\ ha' = [ha EXCEPT !.nap = t] /\ intent' = intent
    BY <1>6 DEF SetNap, Between
  <2>2. t \in Instants
    BY DaemonConstants, Literals
  <2>3. ha' \in Helpers
    BY <1>1, <2>1, <2>2 DEF Helpers
  <2> QED BY <1>3, <2>1, <2>3
<1>7. ASSUME NEW t \in {ha.sched.wake, ha.nap, None}, Skip(t) PROVE Inv' /\ Calm
  <2>1. Move /\ ~todo.busy /\ ha' = [ha EXCEPT !.skipped = t] /\ intent' = intent
    BY <1>7 DEF Skip, Between
  <2>2. t \in Instants
    BY <1>1, Literals DEF Helpers
  <2>3. ha' \in Helpers
    BY <1>1, <2>1, <2>2 DEF Helpers
  <2> QED BY <1>3, <2>1, <2>3
<1>8. ASSUME Switch PROVE Inv' /\ Calm
  <2> DEFINE e == IF ha.enabled = "on" THEN "off" ELSE "on"
  <2>1. Move /\ ~todo.busy /\ ha' = [ha EXCEPT !.enabled = e] /\ intent' = intent
    BY <1>8 DEF Switch, Between
  <2>2. e \in {"on", "off"}
    OBVIOUS
  <2> HIDE DEF e
  <2>3. ha' \in Helpers
    BY <1>1, <2>1, <2>2 DEF Helpers
  <2> QED BY <1>3, <2>1, <2>3
<1>9. ASSUME NEW h \in {"up", "starting", "down"}, Health(h) PROVE Inv' /\ Calm
  <2>1. Move /\ ~todo.busy /\ ha' = [ha EXCEPT !.health = h] /\ intent' = intent
    BY <1>9 DEF Health, Between
  <2>2. h \in Healths
    BY DEF Healths
  <2>3. ha' \in Helpers
    BY <1>1, <2>1, <2>2 DEF Helpers
  <2> QED BY <1>3, <2>1, <2>3
<1>10. ASSUME PressStop \/ PressSnooze PROVE Inv' /\ Calm
  <2>1. /\ ~todo.busy /\ Event /\ UNCHANGED <<clock, mem, polled, daemonVars>> /\ intent' = intent
        /\ ha' \in {[ha EXCEPT !.stop = clock], [ha EXCEPT !.snooze = clock]}
    BY <1>10 DEF PressStop, PressSnooze, Press, Between
  <2>2. ha' \in Helpers
    BY <1>1, <2>1 DEF Helpers
  <2> QED BY <1>3, <2>1, <2>2 DEF Move
<1>11. ASSUME Activity PROVE Inv' /\ Calm
  <2>1. Inv' /\ d' = d
    BY <1>11, ActivityInv
  <2>2. intent' = intent
    BY <1>11 DEF Activity, Press
  <2> QED BY <2>1, <2>2, CalmWhenKept
<1> QED BY <1>4, <1>5, <1>6, <1>7, <1>8, <1>9, <1>10, <1>11 DEF Users

\* Every step keeps the invariant, and only a poll does more than the calm ones.
LEMMA StepInv ==
  ASSUME Inv, [Next]_vars
  PROVE  /\ Inv'
         /\ Calm \/ (Poll /\ Polled([state |-> d', todo |-> todo'], Reading(mem.pressed)))
<1>1. CASE Poll
  BY <1>1, PollInv
<1>2. CASE ActSome
  BY <1>2, ActSomeInv
<1>3. CASE Crash \/ Shutdown
  BY <1>3, DeathInv
<1>4. CASE Restart
  <2>1. Inv' /\ d' = d
    BY <1>4, RestartInv
  <2> QED BY <1>4, <2>1, CalmWhenKept DEF Restart
<1>5. CASE Tick
  <2>1. Inv' /\ d' = d
    BY <1>5, TickInv
  <2> QED BY <1>5, <2>1, CalmWhenKept DEF Tick
<1>6. CASE Users
  BY <1>6, UsersInv
<1>7. CASE UNCHANGED vars
  <2>1. Inv'
    BY <1>7 DEF vars, Inv, Types, OptTimes, Times, Kept, Owed, Heard, Doing, WillSound, WillRetire
  <2> QED BY <1>7, <2>1, CalmWhenKept DEF vars
<1> QED BY <1>1, <1>2, <1>3, <1>4, <1>5, <1>6, <1>7 DEF Next

\* The inductive invariant holds in every state of the specification.
THEOREM DaemonInvariant == Spec => []Inv
<1>1. Init => Inv
  BY InitInv
<1>2. Inv /\ [Next]_vars => Inv'
  BY StepInv
<1> QED BY <1>1, <1>2, PTL DEF Spec

-----------------------------------------------------------------------------
\* What every instance guarantees.

\* Every variable has its type, and a session's fields are there exactly when it has
\* one, through every poll, fault and reload: the states that the daemon's cache and
\* its transitions write (AlarmState, _step, AlarmCache.load).
THEOREM DaemonTypeOK == Spec => []TypeOK
<1>1. Inv => TypeOK
  <2> SUFFICES ASSUME Inv PROVE TypeOK
    OBVIOUS
  <2>1. /\ Types /\ Sane(d, clock) /\ cache = d /\ clock \in 0..MaxTime /\ MaxTime \in Nat
        /\ d \in States /\ Stored(d, clock) /\ Session(d, clock) /\ Snoozing(d)
    BY DaemonConstants DEF Inv, Types, Kept, Sane, Whole, Stored, Times
  <2>2. \A x \in Instants : x # None /\ x <= clock => x \in Times
    <3>1. SUFFICES ASSUME NEW x \in Instants, x # None, x <= clock PROVE x \in 0..MaxTime
      BY DEF Times
    <3>2. x \in Nat
      BY <3>1, Literals
    <3> QED BY <2>1, <3>1, <3>2
  <2>3. d.ring_started \in Instants /\ d.window_done_pending \in Instants /\ d.snoozes \in Nat
        /\ d.mode \in Modes /\ d.phase \in Phases /\ d.active_kind \in Kinds
        /\ d.pending_kind \in Kinds /\ d.done \in SUBSET Nat
    BY <2>1 DEF States
  <2>4. d.mode # "idle" => d.ring_started \in Times
    BY <2>1, <2>2, <2>3 DEF Session
  <2>5. d.window_done_pending \in OptTimes
    BY <2>1, <2>2, <2>3 DEF Stored, OptTimes
  <2>6. /\ (d.active = None) <=> (d.mode = "idle")
        /\ (d.snooze_until # None) <=> (d.mode = "snoozed")
        /\ (d.deadline # None) <=> (d.phase # "none")
        /\ d.phase # "none" => d.active_kind = "wake"
    BY <2>1 DEF Session, Snoozing
  <2>7. over \subseteq Int /\ d.done \subseteq Int
    BY <2>1, <2>3 DEF Types
  <2>8. d.mode \in {"idle", "ringing", "snoozed"} /\ d.phase \in {"none", "window", "final"}
        /\ d.active_kind \in {"none", "wake", "nap"} /\ d.pending_kind \in {"none", "wake", "nap"}
    BY <2>3 DEF Modes, Phases, Kinds
  <2> QED BY <2>1, <2>3, <2>4, <2>5, <2>6, <2>7, <2>8 DEF TypeOK, Types
<1> QED BY <1>1, DaemonInvariant, PTL

\* An alarm that has ended, or was consumed without ringing, never sounds again: what
\* is done stays done in the cache, and only what is not done begins.
THEOREM EndedIsSilent == Spec => []EndedStaysSilent
<1>1. Inv => EndedStaysSilent
  <2> SUFFICES ASSUME Inv PROVE EndedStaysSilent
    OBVIOUS
  <2>1. d.active \notin over /\ over \subseteq Nat
    BY DEF Inv, Kept, Types
  <2>2. None \notin over
    BY <2>1, Literals
  <2>3. todo.start \in {None, d.active}
    BY DEF Inv, Heard, Doing, WillSound, Nothing
  <2>4. ~todo.busy => playing \in {None, d.active}
    BY DEF Inv, Heard
  <2> QED BY <2>1, <2>2, <2>3, <2>4 DEF EndedStaysSilent
<1> QED BY <1>1, DaemonInvariant, PTL

\* Between polls the speakers play the active alarm exactly when the daemon says that
\* it rings and the audio works (run_once, once its actions are applied).
THEOREM SoundIsRight == Spec => []SoundMatchesMode
<1>1. Inv => SoundMatchesMode
  BY DEF Inv, Heard, SoundMatchesMode
<1> QED BY <1>1, DaemonInvariant, PTL

\* A snoozed window wakes again no later than its final alarm, though a replan may
\* have brought its deadline nearer and a crash reloaded it (_step's snooze bound).
THEOREM SnoozeIsBounded == Spec => []SnoozeWithinWindow
<1>1. Inv => SnoozeWithinWindow
  BY DEF Inv, Kept, Sane, WithinWindow, SnoozeWithinWindow
<1> QED BY <1>1, DaemonInvariant, PTL

\* A final alarm ends only by desktop activity, master-off, an explicit skip or clear,
\* or the recovery limit after a restart (_step, and the restored window of run_once).
THEOREM FinalIsInsistent == Spec => FinalInsists
<1>1. ASSUME Inv, [Next]_vars, d.phase = "final", d'.active # d.active
      PROVE  \/ mem.pressed # None
             \/ ~d'.enabled
             \/ ha.health = "up" /\ (ha.skipped = d.active \/ ha.sched.wake = None)
             \/ mem.restoring /\ clock - FinalOf(Tightened(d, Reading(None)).deadline,
                                               d.manual_snoozes) > StaleLimit
  <2>1. Polled([state |-> d', todo |-> todo'], Reading(mem.pressed))
    BY <1>1, StepInv DEF Calm, SameAlarm
  <2>2. mem.pressed = None => Reading(mem.pressed) = Reading(None)
    OBVIOUS
  <2> QED BY <1>1, <2>1, <2>2 DEF Polled
<1>2. Inv /\ [Next]_vars =>
        [d.phase = "final" /\ d'.active # d.active =>
             \/ mem.pressed # None
             \/ ~d'.enabled
             \/ ha.health = "up" /\ (ha.skipped = d.active \/ ha.sched.wake = None)
             \/ mem.restoring /\ clock - FinalOf(Tightened(d, Reading(None)).deadline,
                                               d.manual_snoozes) > StaleLimit]_vars
  BY <1>1
<1> QED BY <1>2, DaemonInvariant, PTL DEF Spec, FinalInsists

\* A counted wake keeps the deadline and the count it was published with, at its first
\* ring and while its window lasts (_manual_snooze_count, _commute_deadline).
THEOREM WindowIsLocked == Spec => WindowLocked
<1>1. ASSUME Inv, [Next]_vars
      PROVE  /\ d.phase # "none" /\ d'.active = d.active =>
                  /\ d'.phase # "none"
                  /\ d'.deadline <= d.deadline
                  /\ d'.manual_snoozes = d.manual_snoozes
             /\ FirstRing /\ d.pending_manual_snoozes # None /\ ha.nap # d.pending =>
                  /\ d'.manual_snoozes = d.pending_manual_snoozes
                  /\ d'.deadline = d.pending_deadline
  <2>1. d.deadline \in Int
    BY <1>1, FieldTypes DEF Inv, Kept, Sane, Whole, Stored
  <2>2. CASE Calm
    <3>1. SameAlarm(d, d')
      BY <2>2 DEF Calm
    <3> QED BY <2>1, <3>1 DEF SameAlarm, FirstRing
  <2>3. CASE Polled([state |-> d', todo |-> todo'], Reading(mem.pressed))
    BY <2>3 DEF Polled, Locked, FirstRing
  <2> QED BY <1>1, <2>2, <2>3, StepInv
<1>2. Inv /\ [Next]_vars =>
        [/\ d.phase # "none" /\ d'.active = d.active =>
              /\ d'.phase # "none"
              /\ d'.deadline <= d.deadline
              /\ d'.manual_snoozes = d.manual_snoozes
         /\ FirstRing /\ d.pending_manual_snoozes # None /\ ha.nap # d.pending =>
              /\ d'.manual_snoozes = d.pending_manual_snoozes
              /\ d'.deadline = d.pending_deadline]_vars
  BY <1>1
<1> QED BY <1>2, DaemonInvariant, PTL DEF Spec, WindowLocked

\* The daemon consumes manual intent only at master-off, or when it is bound to a wake
\* that has ended or is skipped (_retire_manual_control).
THEOREM RetirementIsExact == Spec => RetiresOnlyEnded
<1>1. ASSUME Inv, [Next]_vars, intent # {}, intent' = {}
      PROVE  todo.all \/ intent \subseteq (over \cup {ha.skipped}) \ {None}
  <2>1. Calm
    BY <1>1, StepInv DEF Poll
  <2>2. todo.busy /\ intent' = Retire
    BY <1>1, <2>1 DEF Calm
  <2>3. WillRetire(todo, over)
    BY <1>1, <2>2 DEF Inv, Doing
  <2> QED BY <1>1, <2>2, <2>3 DEF Retire, WillRetire
<1>2. Inv /\ [Next]_vars =>
        [intent # {} /\ intent' = {} =>
           todo.all \/ intent \subseteq (over \cup {ha.skipped}) \ {None}]_vars
  BY <1>1
<1> QED BY <1>2, DaemonInvariant, PTL DEF Spec, RetiresOnlyEnded

\* A dismissal leaves the daemon's memory only once Home Assistant has it, or for a
\* later one (window_done_pending).
THEOREM DismissalIsKept == Spec => DismissalKept
<1>1. ASSUME Inv, [Next]_vars, d.window_done_pending \notin {None, d'.window_done_pending}
      PROVE  \/ ha'.window_done = d.window_done_pending
             \/ d'.window_done_pending > d.window_done_pending
  <2>1. CASE Calm
    BY <1>1, <2>1 DEF Calm
  <2>2. CASE Polled([state |-> d', todo |-> todo'], Reading(mem.pressed))
    <3>1. d'.window_done_pending = clock
      BY <1>1, <2>2 DEF Polled
    <3>2. d \in States /\ Stored(d, clock) /\ clock \in Int
      BY <1>1, DaemonConstants DEF Inv, Types, Kept, Sane, Whole, Stored, Times
    <3>3. d.window_done_pending \in Int /\ d.window_done_pending <= clock
      BY <1>1, <3>2, FieldTypes DEF Stored
    <3> QED BY <1>1, <3>1, <3>2, <3>3
  <2> QED BY <1>1, <2>1, <2>2, StepInv
<1>2. Inv /\ [Next]_vars =>
        [d.window_done_pending \notin {None, d'.window_done_pending} =>
           \/ ha'.window_done = d.window_done_pending
           \/ d'.window_done_pending > d.window_done_pending]_vars
  BY <1>1
<1> QED BY <1>2, DaemonInvariant, PTL DEF Spec, DismissalKept

=============================================================================
