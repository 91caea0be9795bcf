------------------------------ MODULE Reminders ------------------------------
(***************************************************************************)
(* The processes that share PingStore for one event: the per-minute poll   *)
(* job (jobs/poll.py), the morning job (jobs/morning.py) and the user's    *)
(* commands (cli.py).  Poll excludes poll and morning excludes morning     *)
(* (one flock file per job name); everything else interleaves between      *)
(* store transactions.  Network work (planning, sending) happens between   *)
(* two transactions, and a process may die between any two steps.          *)
(***************************************************************************)
EXTENDS PingStore, Sequences

CONSTANTS
  Offers,          \* plans the planner may return, before its own clock check
  MaxTime,         \* horizon of the clock
  Grace,           \* _SEND_RETRY_GRACE_SECONDS
  MaxSendAttempts, \* _MAX_SEND_ATTEMPTS
  Horizon,         \* _REALTIME_REFRESH_HORIZON_MINUTES
  Window,          \* home_assistant.replan_window_minutes
  MaxPad,          \* bound on realtime delays; 0: realtime disabled
  QuietTimes,      \* instants inside quiet hours
  Presence,        \* values the arrival evidence may take
  Commands,        \* user commands in play
  Shifts,          \* minutes an adjust or a snooze may ask for
  Keys,            \* idempotency keys a caller may repeat
  MaxEvents        \* bound on what happens around the clock and the poll timer:
                   \* morning runs, replans, user commands, location changes, events

\* What a claim hands out, a row a command is about to write, an entry of adjust_log.
Entry == [id : Ids, kind : Kinds, at : Int, attempts : Nat]
Target == [id : Ids \cup {None}, at : Int]
Logged == [key : Keys \cup {None}, prev : Int, undone : BOOLEAN]

ASSUME ConstantsOK ==
  /\ Offers \subseteq Plan
  /\ MaxTime \in Nat /\ Grace \in Nat /\ Horizon \in Nat /\ Window \in Nat
  /\ MaxSendAttempts \in Nat \ {0} /\ MaxPad \in Nat /\ MaxEvents \in Nat
  /\ QuietTimes \subseteq Int /\ Presence \subseteq BOOLEAN /\ Shifts \subseteq Int
  /\ None \notin Keys /\ None \notin Entry /\ None \notin Target

VARIABLES
  now, present,        \* the clock; arrival evidence at the venue
  pc, phase,           \* poll: where it is, and what comes after a dispatch
  todo, tried,         \* poll: due rows still to visit; rows claimed this run
  held,                \* poll: the entry the last claim returned, or None
  snap, fresh,         \* poll: the plan it read; the plan it computed from it
  mpc, mnow, msnap, mfresh,   \* morning: the same, with its own frozen clock
  cpc, cplan, cping,   \* user command: next step, plan to write, row to write
  log,                 \* adjust_log
  events,              \* how much has happened, for MaxEvents
  acknowledged,           \* history: generations the notifier acknowledged
  skipped              \* history: generations the user skipped

pollVars    == <<pc, phase, todo, tried, held, snap, fresh>>
morningVars == <<mpc, mnow, msnap, mfresh>>
cliVars     == <<cpc, cplan, cping, log>>
history     == <<acknowledged, skipped>>
vars == <<storeVars, now, present, pollVars, morningVars, cliVars, events, history>>

Init ==
  /\ plan = None /\ rows = [i \in Ids |-> None] /\ muted = FALSE
  /\ now = 0 /\ present = FALSE
  /\ pc = "idle" /\ phase = "alert" /\ todo = {} /\ tried = {}
  /\ held = None /\ snap = None /\ fresh = None
  /\ mpc = "idle" /\ mnow = 0 /\ msnap = None /\ mfresh = None
  /\ cpc = "idle" /\ cplan = None /\ cping = None /\ log = <<>>
  /\ events = 0 /\ acknowledged = {} /\ skipped = {}

Occurs == events < MaxEvents /\ events' = events + 1

Quiet(t) == t \in QuietTimes

\* plan_event: a departure already past makes the plan too imminent.
Planned(o, t) ==
  IF o.leave # None /\ o.leave < t THEN [o EXCEPT !.error = "too_imminent"] ELSE o

-----------------------------------------------------------------------------
\* Poll: the job's start and the realtime refresh that precedes dispatch.

\* realtime_refresh_plans: an active plan departing soon with a pending row.
Refreshable ==
  /\ MaxPad > 0 /\ plan # None /\ plan.start > now
  /\ plan.leave # None /\ plan.error = "ok"
  /\ plan.leave >= now - Grace /\ plan.leave <= now + Horizon
  /\ \E i \in Ids : rows[i] # None /\ ~rows[i].fired

PollStart ==
  /\ pc = "idle"
  /\ \/ Refreshable /\ pc' = "observing" /\ snap' = plan
     \/ pc' = "scan" /\ UNCHANGED snap
  /\ tried' = {}
  /\ UNCHANGED <<storeVars, now, present, phase, todo, held, fresh, morningVars, cliVars,
                 events, history>>

BufferWrite(minutes) ==
  IF BufferAccepted(snap, minutes, now)
  THEN /\ plan' = BufferedPlan(plan, minutes)
       /\ rows' = BufferedRows(rows, minutes - plan.pad, now)
  ELSE UNCHANGED <<plan, rows>>

PollObserve ==
  /\ pc = "observing"
  /\ \/ \E minutes \in 1..MaxPad : minutes > snap.pad /\ BufferWrite(minutes)
     \/ UNCHANGED <<plan, rows>>          \* unknown, unmatched or smaller delay
  /\ pc' = "scan" /\ snap' = None
  /\ UNCHANGED <<muted, now, present, phase, todo, tried, held, fresh, morningVars, cliVars,
                 events, history>>

-----------------------------------------------------------------------------
\* Poll: dispatch_due, the claim - send - release cycle.

PollScan ==
  /\ pc = "scan"
  /\ todo' = Due(rows, now) \ tried
  /\ pc' = "dispatch"
  /\ UNCHANGED <<storeVars, now, present, phase, tried, held, snap, fresh, morningVars,
                 cliVars, events, history>>

\* Rows come back ordered by fire_at; a row retired since keeps its place.
NextDue(i) == i \in todo /\ \A j \in todo : rows[i].at <= rows[j].at

\* Plausible slip: handing out the bare row, without its identity.
ClaimBareRow(i) ==
  IF ~Claimable(i, now, Quiet(now), present)
  THEN UNCHANGED <<rows, held, pc, tried>>
  ELSE /\ rows' = [rows EXCEPT ![i].fired = TRUE]
       /\ held' = rows[i] /\ pc' = "claimed" /\ tried' = tried \cup {i}

\* claim_ping_entry: consume and keep the entry, unless it is withheld,
\* suppressed (consumed silently) or its event has started (consumed, unsent).
Claim(i) ==
  IF ~Claimable(i, now, Quiet(now), present)
  THEN UNCHANGED <<rows, held, pc, tried>>
  ELSE /\ rows' = [rows EXCEPT ![i].fired = TRUE]
       /\ IF Suppressed(i, now)
          THEN UNCHANGED <<held, pc, tried>>
          ELSE /\ tried' = tried \cup {i}
               /\ IF plan # None /\ now >= plan.start
                  THEN UNCHANGED <<held, pc>>
                  ELSE /\ held' = [id |-> i, kind |-> rows[i].kind, at |-> rows[i].at,
                                   attempts |-> rows[i].attempts]
                       /\ pc' = "claimed"

PollClaim ==
  /\ pc = "dispatch"
  /\ \E i \in todo : NextDue(i) /\ Claim(i) /\ todo' = todo \ {i}
  /\ UNCHANGED <<plan, muted, now, present, phase, snap, fresh, morningVars, cliVars, events,
                 history>>

MuteCheck ==
  IF muted THEN pc' = "dispatch" /\ held' = None
  ELSE pc' = "sending" /\ UNCHANGED held

PollMuteCheck ==
  /\ pc = "claimed" /\ MuteCheck
  /\ UNCHANGED <<storeVars, now, present, phase, todo, tried, snap, fresh, morningVars,
                 cliVars, events, history>>

\* Plausible slip: a message the notifier acknowledged reported as failed.
SendUncertain ==
  /\ pc = "sending"
  /\ acknowledged' = acknowledged \cup {held.id}
  /\ pc' \in {"dispatch", "failed"}
  /\ held' = IF pc' = "failed" THEN held ELSE None
  /\ UNCHANGED <<storeVars, now, present, phase, todo, tried, snap, fresh, morningVars,
                 cliVars, events, skipped>>

PollSend ==
  /\ pc = "sending"
  /\ \/ /\ acknowledged' = acknowledged \cup {held.id}
        /\ pc' = "dispatch" /\ held' = None
     \/ pc' = "failed" /\ UNCHANGED <<acknowledged, held>>
  /\ UNCHANGED <<storeVars, now, present, phase, todo, tried, snap, fresh, morningVars,
                 cliVars, events, skipped>>

\* Plausible slip: the attempt cap compared with the attempts before this one.
OverRetryable == held.attempts < MaxSendAttempts /\ now - held.at <= Grace

Retryable == held.attempts + 1 < MaxSendAttempts /\ now - held.at <= Grace

PollRelease ==
  /\ pc = "failed"
  /\ IF Retryable THEN ReleasePing(held.id) ELSE UNCHANGED rows
  /\ pc' = "dispatch" /\ held' = None
  /\ UNCHANGED <<plan, muted, now, present, phase, todo, tried, snap, fresh, morningVars,
                 cliVars, events, history>>

-----------------------------------------------------------------------------
\* Poll: alert-driven (phase 4), then location-driven (phase 5) replanning.

\* A dispatch that has visited every row returns to the replan loop.
Ready == pc = "dispatch" /\ todo = {}

\* Alerts come before the location, and either may have nothing to do.
Replannable(mode) ==
  /\ phase = "location" => mode = "location"
  /\ phase # "end"
  /\ plan # None /\ plan.start > now /\ plan.leave # None
  /\ mode = "location" =>
       /\ plan.leave > now /\ plan.leave - now <= Window
       /\ ~present /\ ~Quiet(now)

PollReplanRead ==
  /\ Ready /\ Occurs
  /\ \E mode \in {"alert", "location"} : Replannable(mode) /\ phase' = mode
  /\ pc' = "planning" /\ snap' = plan
  /\ UNCHANGED <<storeVars, now, present, todo, tried, held, fresh, morningVars, cliVars,
                 history>>

AfterPhase == IF phase = "alert" THEN "location" ELSE "end"

\* Same journey: keep the larger padding.  Always keep the user's interval
\* between getting ready and leaving.
Retained(old, new, same) ==
  LET kept == IF same /\ old.pad > new.pad THEN old.pad - new.pad ELSE 0
      Earlier(v) == IF v = None THEN None ELSE v - kept
      padded == [new EXCEPT !.leave = Earlier(@), !.prep = Earlier(@), !.pad = @ + kept]
  IN  IF old.prep # None /\ old.leave # None /\ padded.leave # None
      THEN [padded EXCEPT !.prep = padded.leave - (old.leave - old.prep)]
      ELSE padded

\* A new departure; lines alone count for an alert, never for the location.
Significant(old, new, same) ==
  /\ new.leave # None
  /\ new.leave # old.leave \/ (phase = "alert" /\ ~same)

PollPlan ==
  /\ pc = "planning"
  /\ \E o \in Offers, same \in BOOLEAN :
       LET new == Retained(snap, Planned(o, now), same)
       IN  /\ o.start = snap.start
           /\ IF /\ new.error # "transient" /\ Significant(snap, new, same)
                 /\ ~(phase = "location" /\ present)
              THEN fresh' = new /\ pc' = "planned" /\ UNCHANGED <<phase, snap>>
              ELSE pc' = "dispatch" /\ phase' = AfterPhase /\ snap' = None /\ UNCHANGED fresh
  /\ UNCHANGED <<storeVars, now, present, todo, tried, held, morningVars, cliVars, events,
                 history>>

\* Plausible slip: committing what was planned without the compare-and-swap.
AlwaysAccepted == plan # None

ReplanCurrent == ReplanAccepted(snap, fresh, now)

PollCommit ==
  /\ pc = "planned"
  /\ LET inserts == NeedsPing(rows, "prep", fresh.prep) \/ NeedsPing(rows, "leave", fresh.leave)
         after   == ReplanRows(rows, snap, fresh, now)
     IN  IF ReplanCurrent
         THEN /\ inserts => Spare(rows)
              /\ plan' = fresh /\ rows' = after
              /\ pc' = IF \/ ActionableDue(fresh, after, now)
                          \/ phase = "location" /\ LeaveConsumed(after, now)
                       THEN "scan" ELSE "dispatch"
         ELSE pc' = "dispatch" /\ UNCHANGED <<plan, rows>>
  /\ phase' = AfterPhase /\ snap' = None /\ fresh' = None
  /\ UNCHANGED <<muted, now, present, todo, tried, held, morningVars, cliVars, events, history>>

PollEnd ==
  /\ Ready
  /\ pc' = "idle" /\ phase' = "alert" /\ tried' = {}
  /\ UNCHANGED <<storeVars, now, present, todo, held, snap, fresh, morningVars, cliVars,
                 events, history>>

PollStep ==
  \/ PollStart \/ PollObserve \/ PollScan \/ PollClaim
  \/ PollMuteCheck \/ PollSend \/ PollRelease
  \/ PollReplanRead \/ PollPlan \/ PollCommit \/ PollEnd

-----------------------------------------------------------------------------
\* Morning: snapshot the plans and the clock, fetch the calendar, plan, commit.

MorningDone == mpc' = "idle" /\ mnow' = 0 /\ msnap' = None /\ mfresh' = None

MorningStart ==
  /\ mpc = "idle" /\ Occurs
  /\ mpc' = "fetching" /\ mnow' = now /\ msnap' = plan
  /\ UNCHANGED <<storeVars, now, present, pollVars, mfresh, cliVars, history>>

MorningPlan ==
  /\ mpc = "fetching"
  /\ \/ \E o \in Offers :
          mfresh' = Planned(o, now) /\ mpc' = "planned" /\ UNCHANGED <<mnow, msnap>>
     \/ mpc' = "absent" /\ UNCHANGED <<mnow, msnap, mfresh>>  \* fetched; the event is gone
     \/ MorningDone          \* no calendar, or a dead process: nothing is changed
  /\ UNCHANGED <<storeVars, now, present, pollVars, cliVars, events, history>>

MorningCommit ==
  /\ \/ mpc = "planned" /\ Spare(rows)
        /\ IF plan = msnap THEN ReconcileMorning(mfresh, msnap, mnow)
                           ELSE UNCHANGED <<plan, rows>>
     \/ mpc = "absent"
        /\ IF plan = msnap /\ plan # None THEN RemovePlan ELSE UNCHANGED <<plan, rows>>
  /\ MorningDone
  /\ UNCHANGED <<muted, now, present, pollVars, cliVars, events, history>>

MorningStep == MorningStart \/ MorningPlan \/ MorningCommit

-----------------------------------------------------------------------------
\* The user's commands.  None of them takes a job lock; each is a handful of
\* separate transactions around values read before.

CliRest == <<now, present, pollVars, morningVars>>

\* Plans are written whole, whatever is stored by then (upsert_plan).
SavePlan(next) ==
  /\ plan' = cplan /\ cpc' = next
  /\ UNCHANGED <<rows, muted, log, events, history, CliRest>>

SavePing(step) ==
  /\ cpc = step /\ Spare(rows)
  /\ SchedulePing("prep", cping.at)
  /\ cpc' = "idle" /\ cplan' = None /\ cping' = None
  /\ UNCHANGED <<plan, muted, log, events, history, CliRest>>

\* adjust: read the plan, and log the previous prep time under the caller's key.
\* A key seen before makes the command a no-op.
Adjust ==
  /\ cpc = "idle" /\ Occurs /\ "adjust" \in Commands
  /\ plan # None /\ plan.prep # None
  /\ \E shift \in Shifts, key \in Keys \cup {None} :
       /\ key # None => \A e \in 1..Len(log) : log[e].key # key
       /\ log' = Append(log, [key |-> key, prev |-> plan.prep, undone |-> FALSE])
       /\ cplan' = [plan EXCEPT !.prep = @ - shift]
  /\ cpc' = "adjust.save"
  /\ UNCHANGED <<storeVars, cping, history, CliRest>>

AdjustSave ==
  /\ cpc = "adjust.save"
  /\ LET prep == Max2(cplan.prep, now)
     IN  /\ plan' = [cplan EXCEPT !.prep = prep]
         /\ cplan' = None
         /\ IF prep > now THEN cpc' = "adjust.ping" /\ cping' = [id |-> None, at |-> prep]
                          ELSE cpc' = "idle" /\ UNCHANGED cping
  /\ UNCHANGED <<rows, muted, log, events, history, CliRest>>

AdjustPing == SavePing("adjust.ping")

\* undo: restore the prep time of the latest entry not yet undone.
LastAdjust == {e \in 1..Len(log) : ~log[e].undone /\ \A f \in (e + 1)..Len(log) : log[f].undone}

Undo ==
  /\ cpc = "idle" /\ Occurs /\ "undo" \in Commands
  /\ \E e \in LastAdjust :
       IF plan = None
       THEN /\ log' = [log EXCEPT ![e].undone = TRUE]
            /\ UNCHANGED <<cpc, cplan, cping>>
       ELSE LET prep == Max2(log[e].prev, now)
            IN  /\ cplan' = [plan EXCEPT !.prep = prep]
                /\ cping' = IF prep > now THEN [id |-> None, at |-> prep] ELSE None
                /\ cpc' = "undo.save" /\ UNCHANGED log
  /\ UNCHANGED <<storeVars, history, CliRest>>

UndoSave == cpc = "undo.save" /\ SavePlan("undo.mark") /\ UNCHANGED <<cplan, cping>>

UndoMark ==
  /\ cpc = "undo.mark"
  /\ \E e \in LastAdjust : log' = [log EXCEPT ![e].undone = TRUE]
  /\ cplan' = None
  /\ cpc' = IF cping = None THEN "idle" ELSE "undo.ping"
  /\ UNCHANGED <<storeVars, cping, events, history, CliRest>>

UndoPing == SavePing("undo.ping")

\* snooze: a later (or earlier) generation; snooze --skip: consume the pending one.
Snooze ==
  /\ cpc = "idle" /\ Occurs /\ "snooze" \in Commands
  /\ \E i \in Pending(rows, "prep"), shift \in Shifts :
       cping' = [id |-> i, at |-> rows[i].at + shift]
  /\ cpc' = "snooze.ping"
  /\ UNCHANGED <<storeVars, cplan, log, history, CliRest>>

SnoozePing == SavePing("snooze.ping")

Skip ==
  /\ cpc = "idle" /\ Occurs /\ "skip" \in Commands
  /\ \E i \in Pending(rows, "prep") : cping' = [id |-> i, at |-> rows[i].at]
  /\ cpc' = "skip.mark"
  /\ UNCHANGED <<storeVars, cplan, log, history, CliRest>>

SkipMark ==
  /\ cpc = "skip.mark"
  /\ MarkFired(cping.id)
  /\ skipped' = skipped \cup {cping.id}
  /\ cpc' = "idle" /\ cping' = None
  /\ UNCHANGED <<plan, muted, cplan, log, events, acknowledged, CliRest>>

\* mute: enter the ledger, then cancel what is scheduled.  unmute: leave it.
Mute ==
  /\ cpc = "idle" /\ Occurs /\ "mute" \in Commands /\ plan # None
  /\ muted' = TRUE /\ cpc' = "mute.cancel"
  /\ UNCHANGED <<plan, rows, cplan, cping, log, history, CliRest>>

CancelPings == rows' = RetirePings(rows, Kinds)

MuteCancel ==
  /\ cpc = "mute.cancel"
  /\ CancelPings /\ cpc' = "idle"
  /\ UNCHANGED <<plan, muted, cplan, cping, log, events, history, CliRest>>

Unmute ==
  /\ cpc = "idle" /\ Occurs /\ "mute" \in Commands /\ plan # None
  /\ muted' = FALSE
  /\ UNCHANGED <<plan, rows, cpc, cplan, cping, log, history, CliRest>>

\* plan: replan one event and save it; reminders are left as they are.
PlanCommand ==
  /\ cpc = "idle" /\ Occurs /\ "plan" \in Commands /\ plan # None
  /\ \E o \in Offers : o.start = plan.start /\ cplan' = Planned(o, now)
  /\ cpc' = "plan.save"
  /\ UNCHANGED <<storeVars, cping, log, history, CliRest>>

PlanSave == cpc = "plan.save" /\ SavePlan("idle") /\ cplan' = None /\ UNCHANGED cping

CliStep ==
  \/ Adjust \/ AdjustSave \/ AdjustPing \/ Undo \/ UndoSave \/ UndoMark \/ UndoPing
  \/ Snooze \/ SnoozePing \/ Skip \/ SkipMark \/ Mute \/ MuteCancel \/ Unmute
  \/ PlanCommand \/ PlanSave

-----------------------------------------------------------------------------
\* The clock, the location fix, and processes that die.

Tick ==
  /\ now < MaxTime /\ now' = now + 1
  /\ UNCHANGED <<storeVars, present, pollVars, morningVars, cliVars, events, history>>

Move ==
  /\ Occurs
  /\ \E p \in Presence : p # present /\ present' = p
  /\ UNCHANGED <<storeVars, now, pollVars, morningVars, cliVars, history>>

Crash ==
  /\ Occurs
  /\ \/ /\ pc # "idle" /\ pc' = "idle" /\ phase' = "alert" /\ todo' = {} /\ tried' = {}
        /\ held' = None /\ snap' = None /\ fresh' = None
        /\ UNCHANGED <<cpc, cplan, cping>>
     \/ /\ cpc # "idle" /\ cpc' = "idle" /\ cplan' = None /\ cping' = None
        /\ UNCHANGED pollVars
  /\ UNCHANGED <<storeVars, now, present, morningVars, log, history>>

Next == PollStep \/ MorningStep \/ CliStep \/ Tick \/ Move \/ Crash

Spec == Init /\ [][Next]_vars

\* systemd starts the poll job every minute and time passes; nobody promises
\* that a user types, that morning runs again or that a fix changes.
FairSpec == Spec /\ WF_vars(PollStep) /\ WF_vars(Tick)

-----------------------------------------------------------------------------

HoldingPcs == {"claimed", "sending", "failed"}

PollTypeOK ==
  /\ pc \in {"idle", "observing", "scan", "dispatch", "planning", "planned"} \cup HoldingPcs
  /\ phase \in {"alert", "location", "end"}
  /\ todo \subseteq Ids /\ tried \subseteq Ids
  /\ held \in Entry \cup {None}
  /\ snap \in Plan \cup {None} /\ fresh \in Plan \cup {None}

MorningTypeOK ==
  /\ mpc \in {"idle", "fetching", "planned", "absent"}
  /\ mnow \in Int /\ msnap \in Plan \cup {None} /\ mfresh \in Plan \cup {None}

CliTypeOK ==
  /\ cpc \in {"idle", "adjust.save", "adjust.ping", "undo.save", "undo.mark", "undo.ping",
              "snooze.ping", "skip.mark", "mute.cancel", "plan.save"}
  /\ cplan \in Plan \cup {None}
  /\ cping \in Target \cup {None}
  /\ log \in Seq(Logged)

TypeOK ==
  /\ StoreTypeOK /\ PollTypeOK /\ MorningTypeOK /\ CliTypeOK
  /\ now \in Int /\ present \in BOOLEAN
  /\ events \in Nat /\ acknowledged \subseteq Ids /\ skipped \subseteq Ids

(***************************************************************************)
(* Properties.                                                             *)
(***************************************************************************)

\* A generation the notifier acknowledged is spent for good and is not about to be
\* sent again: no crash, retry, snooze, replan or morning run repeats it.
AcknowledgedOnce ==
  \A i \in acknowledged : /\ rows[i] # None /\ rows[i].fired
                       /\ held # None => held.id # i

\* The retry storm is capped: a generation is handed back fewer than
\* _MAX_SEND_ATTEMPTS times, whatever happens to it between two attempts.
AttemptsBounded == \A i \in Ids : rows[i] # None => rows[i].attempts < MaxSendAttempts

\* A superseded generation is dead.  A send that fails after a snooze, a mute or
\* a morning run retired its row cannot bring the row back, and a dispatch that
\* listed the row before cannot claim it (schedule_ping, release_ping).
SupersededStaysDead ==
  [][\A i \in Ids : rows[i] # None /\ rows[i].retired =>
       /\ rows'[i] # None /\ rows'[i].retired /\ rows'[i].fired
       /\ held' # None /\ held' # held => held'.id # i]_<<rows, held>>

Deadline(p, kind) == IF kind = "prep" THEN p.prep ELSE p.leave

\* adjust, undo and snooze put another get-ready reminder in the place of the one
\* in force; mute cancels every reminder of the event.
UserSupersedes(kind) ==
  \/ cpc \in {"adjust.ping", "undo.ping", "snooze.ping"} /\ kind = "prep"
  \/ cpc = "mute.cancel"

\* A morning run gives a reminder up when the event is gone or has started, or when
\* the deadline it planned is not the one that was stored, or is pointless.
MorningSupersedes(kind) ==
  /\ mpc \in {"planned", "absent"}
  /\ \/ plan = None \/ plan' = None
     \/ plan'.start <= mnow
     \/ Deadline(plan', kind) = None \/ Deadline(plan', kind) # Deadline(plan, kind)
     \/ kind = "prep" /\ plan'.error = "too_imminent"

\* A reminder that is due and unsent is not postponed behind the back of the user.
\* Its own time never moves later, whoever replans or refreshes; and it is put out
\* of force, so that another generation may take its place, neither by the poll
\* job nor by a crash, only by a command of the user or by a morning run for
\* which its deadline changed or lapsed: an unchanged one leaves it to be sent.
DueNeverPostponed ==
  [][\A i \in Due(rows, now) :
       /\ rows'[i].at <= rows[i].at
       /\ rows'[i].retired =>
            \/ cpc' # cpc /\ UserSupersedes(rows[i].kind)
            \/ mpc' # mpc /\ MorningSupersedes(rows[i].kind)]_rows

\* Once a departure in force was announced, its get-ready reminder is not.
NoPrepAfterLeave ==
  [][held' # None /\ held' # held /\ held'.kind = "prep" =>
       LiveOf(rows, "leave") \cap acknowledged = {}]_held

\* A departure reminder is consumed by being handed to the notifier, by its
\* event starting, or by a morning run or a user command retiring it; the claim
\* of anything else, quiet hours or an obsolete prep never swallow it.
DepartureNotSwallowed ==
  [][\A i \in Pending(rows, "leave") : rows'[i].fired =>
       \/ held' # None /\ held'.id = i
       \/ plan # None /\ now >= plan.start
       \/ mpc' # mpc \/ cpc' # cpc]_rows

\* What poll planned from an old snapshot never overwrites a newer plan: a
\* removed plan stays removed, and the interval a user chose between getting
\* ready and leaving survives every replan and refresh of the poll job.
Interval(p) == p.leave - p.prep

PollRespectsNewerPlan ==
  [][pc' # pc =>
       /\ plan = None => plan' = None
       /\ plan # None /\ plan.prep # None /\ plan.leave # None /\ plan'.leave # None =>
            plan'.prep # None /\ Interval(plan') = Interval(plan)]_plan

\* Departure reminders come to rest: in the end each one that fell due is announced,
\* given up or retired and stays so, even with the phone at the venue all the time,
\* a notifier that always fails, and poll runs that die.
LeaveSettles == <>[](\A i \in Due(rows, now) : rows[i].kind # "leave")

\* "Skipped prep ping": a reminder the user skipped stays consumed.
SkipIsFinal == \A i \in skipped : rows[i].fired

\* adjust says "leave_at unchanged": saving an adjusted plan keeps the
\* departure that is stored.
AdjustKeepsLeave ==
  [][cpc = "adjust.save" /\ cpc' # cpc /\ plan # None => plan'.leave = plan.leave]_<<plan, cpc>>
=============================================================================
