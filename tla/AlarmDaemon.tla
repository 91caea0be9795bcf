---------------------------- MODULE AlarmDaemon -----------------------------
(***************************************************************************)
(* The alarm daemon (AlarmDaemon.run_once and its callbacks) against Home  *)
(* Assistant, the desktop user, the disk cache and the clock.              *)
(*                                                                         *)
(* A poll is two steps.  Poll reads Home Assistant, advances the state     *)
(* machine and saves the cache; Act applies the audio actions, retires     *)
(* manual intent, writes back to Home Assistant and saves again.  The      *)
(* process may die before, between, inside and after them; cache survives. *)
(* Reading and deciding are one step: nothing outside sees the reading, so *)
(* a change that lands between them is one that lands after both.          *)
(***************************************************************************)
EXTENDS AlarmStep

CONSTANTS
  Schedules,    \* what the publisher may publish: [wake, deadline, prep, count]
  Naps,         \* instants a nap may be set for
  MaxTime,      \* BOUND: the clock stops here
  MaxEvents     \* BOUND: acts of users, publisher and Home Assistant, and faults

ASSUME DaemonConstants ==
  /\ Schedules \subseteq [wake : Instants, deadline : Instants, prep : Instants, count : Instants]
  /\ Naps \subseteq Nat /\ {MaxTime, MaxEvents} \subseteq Nat

VARIABLES
  clock,
  ha,         \* Home Assistant: helpers and buttons, and what the daemon wrote
  intent,     \* the manual-intent row's bound wake: {} no row, {None} unbound
  d,          \* AlarmDaemon.state
  cache,      \* the saved state
  up,         \* the process runs
  todo,       \* between Poll and Act: what Act does; Nothing otherwise
  playing,    \* the instant being sounded, or None
  mem,        \* process memory: the underscore fields of AlarmDaemon
  polled,     \* the daemon polled since the last tick
  over,       \* history: instants whose alarm has ended or was consumed
  events      \* events so far

vars == <<clock, ha, intent, d, cache, up, todo, playing, mem, polled, over, events>>

Times == 0..MaxTime

NoSchedule == [wake |-> None, deadline |-> None, prep |-> None, count |-> None]

Nothing == [busy |-> FALSE, start |-> None, stop |-> FALSE, ok |-> FALSE,
            all |-> FALSE, retire |-> {}]

-----------------------------------------------------------------------------
(* Readings.  While Home Assistant starts, its helpers are "unavailable".  *)

Reading(activity) ==
  LET live == ha.health = "up"
      seen(t) == IF live THEN t ELSE None
  IN  [ha_ok |-> ha.health # "down",
       enabled |-> IF live THEN ha.enabled ELSE "unknown",
       known |-> live, nap_known |-> live,
       wake_at |-> seen(ha.sched.wake), deadline_at |-> seen(ha.sched.deadline),
       prep_threshold |-> seen(ha.sched.prep), manual_snoozes |-> seen(ha.sched.count),
       nap_at |-> seen(ha.nap), skipped_at |-> seen(ha.skipped),
       stop_pressed_at |-> seen(ha.stop), snooze_pressed_at |-> seen(ha.snooze),
       activity_at |-> activity]

\* Variant: the cache loses an undelivered dismissal.
LoadForgetsDismissal(c) == [c EXCEPT !.window_done_pending = None]

\* AlarmCache.load: a mode needs its instants, a phase needs a deadline.
Load(c) ==
  LET mode == IF c.active = None THEN "idle"
              ELSE IF c.mode = "snoozed" /\ c.snooze_until # None THEN "snoozed"
              ELSE IF c.mode = "ringing" /\ c.ring_started # None THEN "ringing"
              ELSE "idle"
      phase == IF c.deadline # None /\ mode # "idle" THEN c.phase ELSE "none"
  IN  [c EXCEPT !.mode = mode, !.phase = phase,
                !.active = IF mode = "idle" THEN None ELSE @,
                !.deadline = IF phase = "none" THEN None ELSE @,
                !.manual_snoozes = IF phase = "none" THEN None ELSE @]

\* Variant: a cached ring is not resumed.
MemoryWithoutResume(s) ==
  [healthy |-> ~s.audio_failed, resume |-> FALSE,
   restoring |-> s.phase # "none" /\ s.mode = "ringing",
   reported |-> IF s.audio_failed THEN {} ELSE {FALSE},
   handled |-> None, pressed |-> None]

\* Variant: a restarted daemon believes its cached failure was reported.
MemoryTrusting(s) ==
  [healthy |-> ~s.audio_failed,
   resume |-> s.mode = "ringing" /\ ~s.audio_failed,
   restoring |-> s.phase # "none" /\ s.mode = "ringing",
   reported |-> {s.audio_failed},
   handled |-> None, pressed |-> None]

\* __post_init__
Memory(s) ==
  [healthy |-> ~s.audio_failed,
   resume |-> s.mode = "ringing" /\ ~s.audio_failed,
   restoring |-> s.phase # "none" /\ s.mode = "ringing",
   reported |-> IF s.audio_failed THEN {} ELSE {FALSE},
   handled |-> None,
   pressed |-> None]

\* A cached ring is not audible: a restored window is held to the missed-final bound.
Restored(s, now, i) ==
  LET final   == FinalOf(Tightened(s, i).deadline, s.manual_snoozes)
      expired == now - final > StaleLimit
  IN  IF mem.restoring /\ final <= now /\ (mem.resume \/ expired)
      THEN [s EXCEPT !.mode = "snoozed", !.phase = "window", !.snooze_until = now]
      ELSE s

\* _retire_manual_control: the wakes whose bound intent this poll consumes.
Retired(i, before, prev, out) ==
  LET gone == prev.active # None /\ out.state.active # prev.active
      cleared == i.ha_ok /\ i.known /\ i.wake_at = None
      desktop == /\ out.state.enabled /\ ~ActiveCancelled(prev, i)
                 /\ out.windowDone \/ After(i.activity_at, prev.ring_started)
  IN  (IF i.ha_ok /\ i.skipped_at # None THEN {i.skipped_at} ELSE {})
      \cup (IF cleared /\ before.pending_kind = "wake" THEN {before.pending} \ {None} ELSE {})
      \cup (IF /\ gone /\ prev.active_kind = "wake"
               /\ desktop \/ (cleared /\ out.state.enabled)
            THEN {prev.active} ELSE {})

\* A resumed ring keeps its start and is sounded again.
Resumed(out) ==
  LET same == mem.resume /\ d.mode = "ringing" /\ out.state.mode = "ringing"
                /\ out.state.active = d.active
  IN  [out EXCEPT !.state.ring_started = IF same THEN d.ring_started ELSE @,
                  !.start = IF mem.resume /\ out.state.mode = "ringing" /\ @ = None
                            THEN out.state.active ELSE @]

\* What the poll saves, and what it leaves for Act to do.
Decided(prev, out, i) ==
  [state |-> out.state,
   todo |-> [busy |-> TRUE, start |-> out.start, stop |-> out.stop, ok |-> i.ha_ok,
             all |-> WindowOn /\ i.ha_ok /\ i.enabled = "off",
             retire |-> IF WindowOn THEN Retired(i, d, prev, out) ELSE {}]]

\* run_once, up to its first save.
RunOnce(now, i) ==
  LET prev == Restored(d, now, i)
  IN  Decided(prev, Resumed(Step(prev, now, i)), i)

-----------------------------------------------------------------------------
(* The daemon.                                                             *)

\* Variant: the state is not saved before the audio acts on it.
PollUnsaved ==
  /\ up /\ ~todo.busy
  /\ \E r \in {RunOnce(clock, Reading(mem.pressed))} :
         /\ d' = r.state
         /\ todo' = r.todo
         /\ over' = over \cup ((r.state.done \cup {d.active}) \ {r.state.active, None})
  /\ mem' = [mem EXCEPT !.pressed = None, !.resume = FALSE, !.restoring = FALSE]
  /\ polled' = TRUE
  /\ UNCHANGED <<clock, ha, intent, cache, up, playing, events>>

Poll ==
  /\ up /\ ~todo.busy
  /\ \E r \in {RunOnce(clock, Reading(mem.pressed))} :
         /\ d' = r.state
         /\ cache' = r.state
         /\ todo' = r.todo
         /\ over' = over \cup ((r.state.done \cup {d.active}) \ {r.state.active, None})
  /\ mem' = [mem EXCEPT !.pressed = None, !.resume = FALSE, !.restoring = FALSE]
  /\ polled' = TRUE
  /\ UNCHANGED <<clock, ha, intent, up, playing, events>>

\* Variant: a completion clears whatever intent there is.
RetireAny == IF todo.all \/ todo.retire # {} THEN {} ELSE intent

\* clear_manual, or clear_manual_for_wake for each retired wake.
Retire == IF todo.all THEN {} ELSE intent \ todo.retire

\* player.start, player.stop and player.tick: the sound heard, and its health.
Sound(healthy) ==
  IF todo.start # None
  THEN [on |-> IF healthy THEN todo.start ELSE None, healthy |-> healthy]
  ELSE IF d.mode = "ringing" /\ mem.healthy /\ ~healthy
  THEN [on |-> None, healthy |-> FALSE]
  ELSE [on |-> IF todo.stop THEN None ELSE playing, healthy |-> mem.healthy]

Event == events < MaxEvents /\ events' = events + 1

\* The process is gone: what is left of it is what the next one will load.
Die(c) ==
  /\ up' = FALSE /\ playing' = None /\ todo' = Nothing
  /\ d' = Load(c) /\ mem' = Memory(Load(c))

\* Variant: the dismissal's hook is not among the callbacks.
CallbacksWithoutDone == {"retire", "mode", "handled", "audio_failed"}

\* The callbacks of one poll, each of which may fail.
Callbacks == {"retire", "mode", "window_done", "handled", "audio_failed"}

\* The rest of run_once; lives is FALSE when it dies before its second save,
\* which only the write of the failure latch follows.
Act(done, healthy, lives) ==
  LET sound    == Sound(healthy)
      started  == todo.start # None /\ sound.healthy
      wrote(c) == todo.ok /\ c \in done
      acked    == IF started THEN todo.start ELSE mem.handled
      handled  == IF acked = d.active /\ sound.healthy THEN acked ELSE None
      known    == IF started THEN {} ELSE mem.reported
      latch    == wrote("audio_failed") /\ known # {~sound.healthy}
      s        == [d EXCEPT !.audio_failed = ~sound.healthy,
                            !.window_done_pending =
                               IF wrote("window_done") THEN None ELSE @]
  IN  /\ up /\ todo.busy
      /\ intent' = IF "retire" \in done THEN Retire ELSE intent
      /\ ha' = [ha EXCEPT
                  !.mode = IF wrote("mode") THEN d.mode ELSE @,
                  !.window_done = IF wrote("window_done") /\ d.window_done_pending # None
                                  THEN d.window_done_pending ELSE @,
                  !.handled = IF wrote("handled") /\ handled # None THEN handled ELSE @,
                  !.failed = IF lives /\ latch THEN ~sound.healthy ELSE @]
      /\ IF lives
         THEN /\ mem' = [mem EXCEPT
                           !.healthy = sound.healthy,
                           !.handled = IF wrote("handled") THEN None ELSE handled,
                           !.reported = IF latch THEN {~sound.healthy} ELSE known]
              /\ d' = s /\ cache' = s /\ todo' = Nothing /\ playing' = sound.on
              /\ UNCHANGED up
         ELSE Die(cache) /\ UNCHANGED cache
      /\ UNCHANGED <<clock, polled, over>>

\* BOUND: in one poll a callback fails, Home Assistant stops answering, the player
\* fails with or without Home Assistant, or the process dies part of the way.
ActSome ==
  \/ Act(Callbacks, TRUE, TRUE) /\ UNCHANGED events
  \/ /\ Event
     /\ \/ \E c \in Callbacks : Act(Callbacks \ {c}, TRUE, TRUE)
        \/ Act({"retire"}, TRUE, TRUE)
        \/ \E written \in {{"retire"}, Callbacks} : Act(written, FALSE, TRUE)
        \/ \E written \in {{}, {"retire"}, {"retire", "mode", "window_done"}, Callbacks} :
             Act(written, TRUE, FALSE)

Crash ==
  /\ up /\ Event
  /\ Die(cache)
  /\ UNCHANGED <<clock, ha, intent, cache, polled, over>>

\* SIGTERM ends run_forever between polls: the mode is published, never as idle.
Shutdown ==
  /\ up /\ ~todo.busy /\ Event
  /\ Die(cache)
  /\ \E mode \in {ha.mode} \cup (IF ha.health = "up" THEN {d.mode} ELSE {}) :
       ha' = [ha EXCEPT !.mode = mode]
  /\ UNCHANGED <<clock, intent, cache, polled, over>>

Restart ==
  /\ ~up
  /\ up' = TRUE /\ polled' = FALSE
  /\ UNCHANGED <<clock, ha, intent, d, cache, todo, playing, mem, over, events>>

-----------------------------------------------------------------------------
(* Everyone else.                                                          *)

daemonVars == <<d, cache, up, todo, playing, over>>

\* Between Poll and Act only the intent row matters to the daemon; the other acts
\* commute with Act, so they are taken before Poll or after Act.
Move == Event /\ UNCHANGED <<clock, mem, polled, daemonVars>>

Between == ~todo.busy

\* A publication; an existing intent may be bound to the wake it selected.
Publish(s) ==
  /\ Move
  /\ s # ha.sched
  /\ s # NoSchedule => (IF s.deadline = None THEN s.wake ELSE s.deadline) > clock
  /\ ha' = [ha EXCEPT !.sched = s]
  /\ intent' \in {intent} \cup (IF intent # {} /\ s.wake # None THEN {{s.wake}} ELSE {})

SaveIntent == Move /\ intent' = {None} /\ UNCHANGED ha

\* The nap script caps a nap at the published prep instant.
SetNap(t) ==
  /\ Between /\ Move
  /\ t # ha.nap
  /\ t # None => t > clock /\ (ha.sched.prep > clock => t <= ha.sched.prep)
  /\ ha' = [ha EXCEPT !.nap = t]
  /\ UNCHANGED intent

Skip(t) ==
  /\ Between /\ Move
  /\ t # ha.skipped
  /\ ha' = [ha EXCEPT !.skipped = t]
  /\ UNCHANGED intent

Switch ==
  /\ Between /\ Move
  /\ ha' = [ha EXCEPT !.enabled = IF @ = "on" THEN "off" ELSE "on"]
  /\ UNCHANGED intent

Health(h) ==
  /\ Between /\ Move
  /\ h # ha.health
  /\ ha' = [ha EXCEPT !.health = h]
  /\ UNCHANGED intent

Press == /\ Between /\ Event
         /\ UNCHANGED <<clock, intent, polled, daemonVars>>

PressStop == Press /\ ha' = [ha EXCEPT !.stop = clock] /\ UNCHANGED mem

PressSnooze == Press /\ ha' = [ha EXCEPT !.snooze = clock] /\ UNCHANGED mem

\* SIGUSR1 from the activity monitor.
Activity ==
  /\ Press
  /\ up /\ d.mode # "idle"
  /\ mem' = [mem EXCEPT !.pressed = clock]
  /\ UNCHANGED ha

\* Polls are seconds apart and a tick is minutes: a live daemon polls every tick.
Tick ==
  /\ Between /\ clock < MaxTime
  /\ up => polled
  /\ clock' = clock + 1
  /\ polled' = FALSE
  /\ UNCHANGED <<ha, intent, mem, events, daemonVars>>

-----------------------------------------------------------------------------

Init ==
  /\ clock = 0
  /\ \E s \in Schedules :
       ha = [sched |-> s, nap |-> None, skipped |-> None, enabled |-> "on",
             stop |-> None, snooze |-> None, health |-> "up",
             mode |-> "idle", window_done |-> None, handled |-> None, failed |-> FALSE]
  /\ intent = IF ha.sched.count = None THEN {} ELSE {ha.sched.wake}
  /\ d = FreshState /\ cache = FreshState
  /\ up = TRUE /\ todo = Nothing /\ playing = None
  /\ mem = Memory(FreshState)
  /\ polled = FALSE
  /\ over = {}
  /\ events = 0

Users == \/ \E s \in Schedules \cup {NoSchedule} : Publish(s)
         \/ SaveIntent
         \/ \E t \in Naps \cup {None} : SetNap(t)
         \/ \E t \in {ha.sched.wake, ha.nap, None} : Skip(t)
         \/ Switch
         \/ \E h \in {"up", "starting", "down"} : Health(h)
         \/ PressStop \/ PressSnooze \/ Activity

Next == Poll \/ ActSome \/ Crash \/ Shutdown \/ Restart \/ Tick \/ Users

Spec == Init /\ [][Next]_vars

\* Weak fairness of Poll, ActSome and Restart, spelled out: each is enabled exactly
\* until it or Die changes busy or up, so none of them is put off for ever.  Time
\* passes.  The faults of ActSome are bounded, so in the end every poll succeeds.
Fairness ==
  /\ []<>(~up \/ todo.busy)
  /\ []<>(~up \/ ~todo.busy)
  /\ []<>up
  /\ <>(clock = MaxTime)

FairSpec == Spec /\ Fairness

-----------------------------------------------------------------------------
(* Properties.                                                             *)

OptTimes == Times \cup {None}

\* Every variable has its type; a session's fields are there when it has one.
TypeOK ==
  /\ clock \in Times /\ events \in 0..MaxEvents
  /\ up \in BOOLEAN /\ polled \in BOOLEAN
  /\ playing \in OptTimes
  /\ over \subseteq Int /\ d.done \subseteq Int
  /\ \A s \in {d, cache} :
       /\ s.mode \in {"idle", "ringing", "snoozed"}
       /\ s.phase \in {"none", "window", "final"}
       /\ s.active_kind \in {"none", "wake", "nap"} /\ s.pending_kind \in {"none", "wake", "nap"}
       /\ s.snoozes \in Nat
       /\ (s.active = None) <=> (s.mode = "idle")
       /\ s.mode # "idle" => s.ring_started \in Times
       /\ (s.snooze_until # None) <=> (s.mode = "snoozed")
       /\ (s.deadline # None) <=> (s.phase # "none")
       /\ s.phase # "none" => s.active_kind = "wake"
       /\ s.window_done_pending \in OptTimes

\* An alarm that has ended - dismissed, timed out, cancelled, skipped, missed -
\* or was consumed unrung never sounds again: not after a republication of the
\* same instant, an outage, or a crash at any point of a poll.
EndedStaysSilent == todo.start \notin over /\ (~todo.busy => playing \notin over)

\* After a whole poll the speakers play the active alarm exactly when the daemon
\* says it is ringing and audio has not failed; a restarted daemon owes itself
\* the resumption of its cached ring until its first poll.
SoundMatchesMode ==
  up /\ ~todo.busy /\ ~mem.resume =>
    playing = IF d.mode = "ringing" /\ mem.healthy THEN d.active ELSE None

\* A snoozed window wakes again no later than its final alarm.
SnoozeWithinWindow ==
  d.phase # "none" /\ d.mode = "snoozed" =>
    d.snooze_until <= FinalOf(d.deadline, d.manual_snoozes)

\* A final alarm ends only by desktop activity, master-off, an explicit skip or
\* clear, or - after a restart - because the recovery limit of its deadline, as a
\* replan may have tightened it, has passed: neither a button, a timeout, an outage
\* nor a replan of a running daemon ends it.
FinalInsists ==
  [][d.phase = "final" /\ d'.active # d.active =>
       \/ mem.pressed # None
       \/ ~d'.enabled
       \/ ha.health = "up" /\ (ha.skipped = d.active \/ ha.sched.wake = None)
       \/ mem.restoring /\ clock - FinalOf(Tightened(d, Reading(None)).deadline,
                                         d.manual_snoozes) > StaleLimit]_vars

\* The pending instant rings for the first time.
FirstRing == d.pending # None /\ d.active # d.pending /\ d'.active = d.pending

\* A counted wake keeps the deadline and the count it was published with, from the
\* moment it is pending: at its first ring, though by then the helpers may be gone
\* or republished with another policy, and while its window lasts, in which the
\* deadline may only move closer, a crash and reload included.
WindowLocked ==
  [][/\ d.phase # "none" /\ d'.active = d.active =>
          /\ d'.phase # "none"
          /\ d'.deadline <= d.deadline
          /\ d'.manual_snoozes = d.manual_snoozes
     /\ FirstRing /\ d.pending_manual_snoozes # None /\ ha.nap # d.pending =>
          /\ d'.manual_snoozes = d.pending_manual_snoozes
          /\ d'.deadline = d.pending_deadline]_vars

\* The daemon consumes manual intent only on master-off, or when it is bound to a
\* wake that has ended or is skipped: never newer intent saved meanwhile.
RetiresOnlyEnded ==
  [][intent # {} /\ intent' = {} =>
       todo.all \/ intent \subseteq (over \cup {ha.skipped}) \ {None}]_vars

\* A commute wake whose cached deadline opens a window does ring as a window
\* (alarm-design.md, "Window eligibility").
EligibleWindowOpens ==
  [][FirstRing /\ d.pending_deadline # None => d'.phase # "none"]_vars

\* A pre-final window reaches its final alarm or ends, with Home Assistant gone
\* for good and snooze pressed at will.
WindowSettles ==
  \A t \in Times :
    LET window == d.phase = "window" /\ d.active = t
    IN  window /\ d.deadline <= MaxTime ~> ~window

\* A dismissal leaves the daemon's memory only once Home Assistant has it, or for
\* a later dismissal.
DismissalKept ==
  [][d.window_done_pending \notin {None, d'.window_done_pending} =>
       \/ ha'.window_done = d.window_done_pending
       \/ d'.window_done_pending > d.window_done_pending]_vars

Reachable == <>[](ha.health = "up")

\* Once Home Assistant stays reachable, the dismissal of a window is delivered,
\* across crashes and failed writes.
DismissalDelivered ==
  Reachable => (d.window_done_pending # None ~> d.window_done_pending = None)

\* Once Home Assistant stays reachable, a playback failure reaches its dead-man
\* latch, unless playback has recovered.
FailureReported == Reachable => (d.audio_failed ~> ha.failed \/ ~d.audio_failed)
=============================================================================
