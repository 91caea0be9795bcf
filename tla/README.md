# commutecompass in TLA+

commutecompass reads calendar events, plans a commute to each, and makes sure its
user gets ready and leaves in time: reminders through a notifier, service alerts
that change a route, and a wake-up alarm. It is a set of short-lived processes
(systemd timers and a command line) around one SQLite file, and one long-lived
alarm daemon. The models here are about what those processes do to each other
through the database, the clock, the network and their own crashes.

All paths below are relative to `src/src/commutecompass/`.

## 1. Inventory

### Processes and how they interact

| process | started by | job lock | shared state it touches |
|---|---|---|---|
| `jobs/poll.py` | timer, every minute (`pollInterval`), killed after `jobTimeouts.poll` | `poll` | plans, pings, event_mutes, adjust of pads, alerts_seen, alert_processing, alert_notifications, current_location, alarm publication |
| `jobs/morning.py` | timer, daily; by hand | `morning` | plans, pings, alert_notifications, caches |
| `jobs/tomorrow.py` | timer, daily | `tomorrow` | alarm publication |
| `gtfs-refresh` (`cli.py`) | timer, daily; by hand | `gtfs-refresh` | the index file `gtfs.db` |
| CLI commands | the user, a chat skill | none | plans, pings, event_mutes, adjust_log, alarm_state |
| `alarm_daemon.py` | long-lived | none | its own cache file, Home Assistant entities, alarm_state |

`joblock.py` gives each job *name* its own file, so poll excludes poll and morning
excludes morning; poll and morning do run at the same time, and no command takes
a lock. (`cli.py:76` and `joblock.py:1` read as if the two jobs excluded each
other.) All other exclusion is SQLite's: a method of `store.py` opens its
transaction with `BEGIN IMMEDIATE` and so is one atomic step; everything between
two methods interleaves. No lock is held across network calls.

### Components

* **Reminder store** (`store.py`: plans, pings, event_mutes, adjust_log). A row of
  `pings` is a *generation* of a reminder (prep or leave): claimed (`fired`),
  handed back (`release_ping`), or superseded (`retired`). *Hard:* claims against
  concurrent snoozes, replans and morning runs; compare-and-swap on whole plans.
  *Correct if:* one generation is in force; a superseded one is dead; an
  acknowledged one is not repeated; retries are capped; a due reminder is not
  postponed behind the user's back; a departure is never swallowed.
* **Alert ledgers** (`store.py`: alerts_seen, alert_processing,
  alert_notifications). Leases by token and deadline, attempts, expiry. *Hard:*
  lease expiry under a slow sender, take-over after a crash, cancellation,
  the change of the logical day. *Correct if:* one sender per alert and day, an
  expired owner cannot end a new lease, attempts are capped, an alert is marked as
  seen only for the plan that was checked, and a cancelled announcement stays so.
* **Poll job**: realtime refresh; dispatch of due reminders; announcements;
  alert-driven replans (phase 4); location-driven replans (phase 5); alarm
  republish. Reads plans, works on the network for seconds, commits.
* **Morning job**: snapshots plans, fetches the calendar, plans each event,
  reconciles, removes what is absent. Uses one frozen `now`.
* **Reminder commands** (`cli.py`: plan, adjust, undo, snooze, mute, unmute): each
  two to four separate transactions around values read before.
* **Job lock** (`joblock.py`): `flock`, released by the kernel with its process.
* **Planner** (`planner.py`): pure but for caches; may fail, may find a departure
  already past (`too_imminent`).
* **Manual wake intent** (`alarm_state.py`, `store.py`): a deadline the user asked
  for, with a version, later bound to the wake published for it; expiring, single
  use. *Hard:* the CLI, the publishers and the daemon race; an equal intent saved
  twice is two intents. *Correct if:* only the user, its deadline or a wake computed
  from that very intent ends it.
* **Alarm computation** (`alarm.py`): which of the intent, the calendar's plans, the
  fallback and the last publication decides the wake of three logical days.
  *Correct if:* nobody sleeps past an intent, and nothing retained brings one back.
* **Schedule contract v1** (`alarm_contract.py`, `publish_v1`): snapshot, order,
  publish, read back, over a Home Assistant that may lose or delay calls. *Correct
  if:* what counts as published was on show, and the schedule only moves forward.
* **Alarm daemon** (`alarm_daemon.py`): step machine idle / ringing / snoozed, an
  atomic cache file, restarts, a wake window, terminal publications that are
  retried. *Hard:* neither miss an alarm nor ring a dismissed one again.
* **Audio player** (`alarm_daemon.py`): the polling thread and a worker thread over
  one sink and one `pw-play`. *Hard:* each command may fail, in either thread.
  *Correct if:* the user's setting can always be restored, no process plays on
  unheld, and silence is reported.
* **Static index** (`gtfs_index.py`, `gtfs_allowlist.py`): a filtered import of the
  timetable, swapped in with `os.replace` under a job lock. *Hard:* readers hold
  the old file, refreshes overlap, fail or are killed. *Correct if:* it never goes
  back, and an incomplete inventory is never taken for a complete one.
* **Identity bridge** (`gtfs_bridge.py`, `routing.py`): joins the boarding of a live
  route with the one departure of the index. *Correct if:* an ambiguous boarding
  gets no identity.
* **Realtime delay** (`realtime.py`, `gtfs_rt.py`): reads the feeds within a budget,
  keeps them for a minute, and pads a plan by the delay of its own train. *Correct
  if:* the delay is that train's, and recent when it is used.
* **Tomorrow job**, **MTA alerts**, **geocoding, resolver, venues, weather**,
  **calendar**, **Home Assistant client**, **notifier**, **configuration**,
  **selector**, **formatting and LLM**, **monitoring, logging, retry**: no shared
  mutable state beyond the above, or pure I/O. Listed with their reasons in
  `PROJECT.json`.

The hazards, each at its line, are in `PROJECT.json` under `hazards`; they decide
which properties are stated.

## 2. Modules

| module | models |
|---|---|
| `PingStore` | the store's transactions on one event's plan and reminder rows, as operators |
| `Reminders` | poll, morning and the user's commands as processes over `PingStore` |
| `MCReminders` | the plans the planner may return in the small instances |
| `RemindersProofs` | the inductive invariant of `Reminders` and its theorems |
| `ReminderLife` | the abstract life cycle of a reminder's generations |
| `ReminderRefinement`, `ReminderLifeProofs` | the mapping of `Reminders` to it, and the proof |
| `AlertLedger` | the two alert ledgers and the poll runs that use them |
| `MCAlertLedger` | start times, symmetry and a constraint of the small instances |
| `AlertLedgerProofs` | the inductive invariant of the ledgers and its theorems |
| `AlarmStep` | the alarm daemon's pure step machine, as operators |
| `AlarmDaemon` | the daemon process around it: cache, restarts, audio, callbacks, Home Assistant and its users |
| `MCAlarmDaemon` | the schedules published in the small instances |
| `AlarmDaemonProofs` | the state machine's lemmas, the daemon's inductive invariant and theorems |
| `WakeChoice` | `compute_wake` and retention, as operators |
| `WakeChoiceProofs` | what `ComputeWake` returns, for every calendar, record and intent |
| `ScheduleContract` | validity and ordering of snapshots of the contract v1 |
| `WakePublication` | publishers, the intent's row, Home Assistant and the user over them |
| `MCWakePublication` | configuration, intents and calendars of the small instance |
| `WakePublicationProofs` | the inductive invariant of a publication and its theorems |
| `AudioPlayer` | the two threads of `PipeWirePlayer` over the sink and `pw-play` |
| `AudioPlayerProofs` | its inductive invariant and theorems |
| `StaticIndex` | what a timetable imports to, the queries of the index, and the join |
| `RealtimeDelay` | freshness, identity and delay of the reports of the feeds |
| `DelayPipeline` | refreshes, planning runs, feeds and the stored plan over both |
| `MCDelayPipeline` | timetables and reports of the small instance |
| `DelayPipelineProofs` | its inductive invariant and theorems |

`Reminders` composes `PingStore`, `AlarmDaemon` composes `AlarmStep`,
`WakePublication` composes `WakeChoice` and `ScheduleContract`, `DelayPipeline`
composes `StaticIndex` and `RealtimeDelay`. `Reminders` is shown to implement
`ReminderLife`. What one composition leaves open the next decides: the increase of
padding that `Reminders` takes from any observation (`PollObserve`) is what
`DelayPipeline` justifies; the wakes that `AlarmDaemon` finds published are what
`WakePublication` publishes.

### PingStore and Reminders

One event; events share no rows of these tables, so the interleavings that matter
are between processes on one event. `plan`, `rows` and `muted` are the event's
rows in `plans`, `pings` and `event_mutes`. An operator of `PingStore` is the body
of one transaction. In `Reminders` a process is a program counter and the values
it carries from one transaction to the next:

* **poll**: `PollStart` (realtime refresh or not), `PollObserve`
  (`increase_realtime_buffer`), `PollScan`/`PollClaim`/`PollMuteCheck`/`PollSend`/
  `PollRelease` (`dispatch_due`), `PollReplanRead`/`PollPlan`/`PollCommit`
  (phases 4 and 5), `PollEnd`. `tried` is `attempted_ids`, `held` the entry the
  claim returned, `snap` the plan read, `fresh` the plan computed from it.
* **morning**: `MorningStart`, `MorningPlan`, `MorningCommit`; `mnow` is its frozen
  clock, `msnap` the snapshot, `mfresh` the new plan.
* **commands**: `Adjust`, `AdjustSave`, `AdjustPing`, `Undo` ..., `PlanSave`; one
  action per transaction.
* **environment**: `Tick`, `Move` (arrival evidence at the venue), `Crash`.

Data: a time is an integer; a plan keeps prep, leave, start, the error class and
the realtime padding, which is what reminders depend on. A route is represented by
the choice, at a replan, whether the new journey is the *same* as the old one
(`_same_journey`, line sets). Messages are left out. The planner returns any of
`Offers` for the event, with its own clock check (`Planned`).

### AlertLedger

One alert (alerts share no rows), several events, several poll runs: the ledgers
do not rely on the job lock, so the model does not either (the tests state the
ledger's promise on its own: `tests/test_store.py:1454`, "One alert/day has one
active sender; an expired owner cannot ack a new lease"). Claims are
`ClaimNote`/`ClaimEvent`, acknowledgements `AckNote`/`Finish`; `CommitReplan` stores
plan and intent in one transaction as `reconcile_poll_replan` does; `Edit`,
`Mute`+`CancelMuted`, `Remove` and `Crash` disturb them. `Day` is the logical day
an announcement belongs to.

### AlarmStep and AlarmDaemon

`AlarmStep!Step` is `_step` (`alarm_daemon.py:776`): one poll maps the persisted
state, the clock and one reading of Home Assistant to a new state and to what the
poll does with the audio (`Outcome`). Its parts keep the order of the code:
`Settings`, cancellation of the active alarm (`End`), `DropPending`, `SessionStep`
(`WindowStep`, `RingingStep`, `SnoozedStep`), `Schedule`.

`AlarmDaemon` is `run_once` in two steps. `Poll` reads, decides and saves the cache;
`Act` applies the audio actions, retires manual intent, publishes mode, dismissal,
acknowledgement and failure, and saves again. Reading and deciding are one step
because nothing observes a reading before the save that follows it: a change that
lands in between is indistinguishable from one that lands after the decision. Between `Poll` and `Act` the process may die (`Crash`),
the user may save new intent (`SaveIntent`) and the publisher may bind it
(`Publish`); everything else commutes with `Act` and is taken before or after it
(`Between`). `ActSome` is `Act` with its faults: a callback that fails, all of them
failing, playback that fails, a death before, between or after the callbacks.

| variable | code |
|---|---|
| `d` | `AlarmDaemon.state` (`DaemonState`) |
| `cache` | the file of `AlarmCache` |
| `mem` | the underscore fields: audio health, resumption, restored window, failure reported, acknowledgement, activity signal |
| `todo` | what the rest of the poll will do: `actions`, the reading's `ha_ok`, the wakes to retire |
| `playing` | what the speakers sound |
| `ha` | helpers, buttons and the values the daemon wrote |
| `intent` | the manual intent of `alarm_state`: no row, unbound, or bound to a wake |
| `over` | history: instants whose alarm ended or was consumed |

A kind or a phase that is Python's empty string is `"none"` in the model. Readings
follow the v1 contract (`inputs_from_states`): wake, deadline, cap and
count are known together or not at all. Left out, because no transition reads them:
session and ring identities, the revision and the status export, the heartbeat, ring
profiles, and the cap of 32 on `done`.

### ReminderLife

A generation is absent, pending, spent or dead, and moves forward only; giving back
after a failed send is the one way from spent to pending. `ReminderRefinement` maps
a row to a generation, its two flags to the stage, and the entry poll holds to the
generation being sent. `LifeCycle` is the whole abstract specification as a property.

### WakeChoice, ScheduleContract and WakePublication

`ComputeWake` is `compute_wake`: the intent, then the first of three logical days
that has a wake of its own, then retention of the last publication, then the
fallback. `DecideCommit` is the decision of the Home Assistant script that
`publish_v1` calls. In `WakePublication` a publisher is a program counter:
`Begin` (clock), `Load` or `LoadFails` (`load_manual`, which expires an intent),
`Compute`, `CallExecuted`/`AnswerLost`/`CallTimesOut` (one attempt), `ReadBack` or
`NotConfirmed`, `Record`, `Bind`. `ExecuteLate` is a call that timed out and is
executed afterwards. The user saves, clears and skips (`AskSkip`, `EndSkip` around
the answer of Home Assistant); the daemon retires (`Retire`); processes die
(`Crash`). Either contract may be configured; under the legacy one the helper is
overwritten without an order.

### AudioPlayer

`main` and `worker` are the next command of either thread. `start` is a `stop`,
a snapshot of the sink, the first gain, the unmuting and the first process; the
worker's loop steps the gain, polls the process and relaunches it; both restore the
sink with the same three commands (process, volume, mute), of which any may fail.
`goal` is what the main thread is stopping for. Processes are identities that are
reused once reaped.

### StaticIndex, RealtimeDelay and DelayPipeline

`StaticIndex` keeps of a zip the trips with what distinguishes them: realtime id,
directions by each of its four sources, service days, offset from the start of the
service day (which may exceed its length, so that a departure belongs to the day
before), platform, regularity. `Matched`, `DeparturesNear`, `OnlyBoarding`,
`Confirmed` are the import's filter, the query and the two halves of `validate_leg`.
`RealtimeDelay` is `_compute` over the reports read. An `Observation` keeps the
`basis` it rests on, which the code does not: the properties speak of it.

In `DelayPipeline` a refresh is `Acquire`, then `Download`/`DownloadFails` and
`Import`/`ImportFails` for the supplemented and then the regular timetable; `Dies`
may come at any point. The planning process is `PlanLive`, `Join` and `Verify` (the
queries of one leg before and after its candidates are known, between which the
index may be swapped), `CacheRoute`, or `PlanOffline` from the cached route or an
estimate (`Estimates`), or `RefreshPlan` of poll; then `Ask`, `Receive`/`FeedFails`
per feed, `Fetched`, and `Measure`.

`Apply` is what then becomes of the stored plan. A refresh raises its padding. A plan
newly made is saved as it is (`Made`: morning, the plan command), or with what poll
retains of the old one (`Retained`, after `_retain_replan_safety`), or dropped (an
insignificant replan, or one whose commit is refused). `Retained` keeps the larger
padding and its reason when both plans are of the `SameJourney`, so a plan may be
padded although its leg, taken from the cached route, has no identity, or another one.
To speak of that, a plan has a `boarded`, a history variable: the leg for which its
padding was observed. `OwnTrainOnly` is about that leg and its train, and says that the
leg of the plan is of the same journey, through any number of replans;
`PaddingIsCurrent` is about padding the plan did not already have.

| variable | code |
|---|---|
| `file`, `lock`, `jobs` | `gtfs.db`, `.gtfs-refresh.lock`, the refreshing processes |
| `handle` | the connection of `GtfsIndex`, which keeps the file it opened |
| `leg`, `board`, `again` | the first transit leg, its candidate, whether a stored plan is refreshed |
| `result`, `next`, `cache` | `FetchResult`, the next feed, `_feed_cache` |
| `routes`, `plan` | the cached route, the stored plan |
| `feeds` | what each producer serves |

## 3. Runs

Time counts the smallest difference poll calls significant (five minutes);
`Grace` and `Lease` are scaled to keep their order. Deadlock is not checked: the
bounded models stop when the clock and the events are used up.

| run | instance | shows |
|---|---|---|
| `RemindersCommands` | two journeys; adjust, undo, plan, snooze, skip, mute, unmute; 3 events, 4 rows | `TypeOK`, `OneGeneration`, `AcknowledgedOnce`, `SupersededStaysDead`, `PollRespectsNewerPlan` |
| `RemindersJobs` | no commands; outages, delays, quiet hours, presence at the venue, a video call; fairness; 2 events | `DueNeverPostponed`, `NoPrepAfterLeave`, `DepartureNotSwallowed`, `LifeCycle`, `LeaveSettles` |
| `LedgerRuns` | two events, two logical days, two poll runs | `TypeOK`, `PendingHasPlan`, `OneAnnouncement`, `LeaseEndsByOwner`, `SeenMeansVerified` |
| `AlarmWindow` | four schedules, naps, 3 disturbances | `TypeOK`, `EndedStaysSilent`, `SoundMatchesMode`, `SnoozeWithinWindow`, `FinalInsists`, `WindowLocked`, `RetiresOnlyEnded`, `DismissalKept` |
| `AlarmLive` | the same, fairness, 2 disturbances | `WindowSettles`, `DismissalDelivered`, `FailureReported` |
| `WakePublication` | two publishers, either contract, 2 publications, 3 disturbances | `TypeOK`, `ConfirmedIsCommitted`, `NoResurrection`, `IntentNotOverslept`, `IntentOutlivesOthers`, `CommitsMoveForward` |
| `AudioPlayer` | two process identities, 5 faults, the code's limits | `SnapshotKept`, `NoStrayPlayer`, `HealthyIsServed`, `SilenceReported` |
| `DelayPipeline` | two refreshes, two feeds, three timetables, four reports, two departures of one journey, an estimate of another | `TypeOK`, `OwnTrainOnly`, `IndexMovesForward`, `PaddingIsCurrent` |
| `AlarmTie` | violation | `EligibleWindowOpens` |
| `RemindersSkip` | violation | `SkipIsFinal` |
| `RemindersAdjust` | violation | `AdjustKeepsLeave` |
| `LedgerMute` | violation; one event, quiet hours | `MuteSuppresses` |

Bounds and why they are enough:

* `MaxEvents` (3; 2 in `RemindersJobs`, where no commands race) bounds morning runs, replans, user commands, moves and crashes
  together. Three is what a conflict takes: something that creates the
  reminder, and two that race. The timer and the clock are not counted.
* `Ids` has four rows: a generation of each kind and a successor of each. A
  transaction that may insert waits for two free rows (`Spare`).
* `MaxSendAttempts` 2 lets one retry happen; the proof covers every value.
* `MaxTime` reaches past the start of the event, so expiry is explored.
* In `LedgerRuns` one disturbance (`MaxChanges` 1) meets two runs at every point of
  theirs, over two events and the change of the logical day. `MaxAttempts` 2 and
  a `Lease` of 1 let a lease expire and be taken over. `FewRetries` keeps states in
  which all rows are retried at once out; retries of one row with any state of the
  others stay. Symmetry is over poll runs and plan contents, neither of which is
  compared but for equality.
* In `AlarmDaemon` a tick is about a quarter of a window: first lead 4, a final alarm
  2 before the deadline (so that a replan can bring a recovery limit into the past
  while the final rings), a snooze 2
  (1 for counted wakes and naps), the ring timeout 2, the recovery limit 1, a civil
  day 6. A window has room for a snooze that ends before the final alarm and for one
  that would run past it, and presses, timeouts, finals and recoveries meet in every
  order within `MaxTime` 7. `MaxEvents`
  counts publications, presses, naps, skips, switches, outages and faults together;
  polls, ticks and restarts are free. Three is what the properties take: for example
  a publication, an outage and a death. A live daemon polls in every tick
  (its interval is seconds, `poll_seconds`), a dead one may miss any number.
* `WindowSchedules` holds an automatic window, the same replanned earlier, a manual
  wake with two snoozes and tomorrow's window: each of the daemon's rules about
  replans (tightening, rollover, counted policy, replacement) has its publication.
  Naps are legacy alarms, so the legacy path runs too.

Fairness of `AlarmLive`: the service manager restarts the daemon
(`Restart = "always"`, `nix/module.nix:394`; `[]<>up`), the
loop of `run_forever` goes on (`Poll` and `Act` in turn), time passes. It is written as
`[]<>` of states, which says the same as weak fairness here and spares TLC the
evaluation of ENABLED of `Poll`. Deliveries also assume that Home Assistant stays
reachable from some point on (`Reachable`), as a premise of the property.

* In `WakePublication` an hour is the unit and a logical day has four: three logical
  days, a wake window of one, a fallback at two. Two publications are the fewest that
  can overtake one another; three disturbances (commands, faults and deaths together)
  let an intent be replaced while a call is lost and the next one be late. The
  two intents are a counted, forced one of today and a plain one of tomorrow, each in
  conflict with a departure. 1.45 million states.
* `AudioPlayer` has the code's own limits of three relaunches and three failing
  gains; five faults use up either limit and leave some for the cleanup that follows.
  The ramp has three levels. 0.67 million states.
* In `DelayPipeline` a unit of time is the age at which a report is too old; a
  service day has three, and trains depart in the first units after its end. The
  feeds are kept for two units here, longer than a report is fresh: with the code's
  60 and 300 seconds the cache alone cannot make a report too old, but a report may
  be nearly too old when it is read, and this instance has both. A refresh
  or a publication is an event, and two of them are what a swap under a plan takes.
  The timetables are the installed one, one where two trains changed places and
  another departs with one of them, and one where both depart together, the second
  with a repeated stop. The two departures of one journey let padding meet a leg with
  another identity, and the estimate one of another journey. The reports are of either
  train, of another day and not tracked, and one feed repeats or contradicts the
  other; cancelled trips, skipped stops and differential datasets are left to the
  theorems, which hold for every set of reports. A minute is two units of delay, so
  that a minute and a half is rounded, to the even side as `round` does. Symmetry is
  over refreshes. 1.6 million states.

Fairness of `AudioPlayer`: weak fairness of either thread, which the operating system
schedules; nothing is assumed of processes, the user, rings or the ramp's timing.

Fairness of `RemindersJobs`: `WF(PollStep)`, because the poll timer re-arms
itself (`OnUnitActiveSec`, `nix/module.nix:441`) and a run is killed after its
timeout, and `WF(Tick)`. Nothing is assumed of morning, of the user, of the
notifier (sends may fail for ever), of the location, or of crashes (`MaxEvents`
bounds them in this instance).

## 4. Findings

Each is a run that expects a violation; the text in `PROJECT.json` quotes the source.

* `RemindersSkip`: `snooze --skip` marks a row fired without retiring it; a
  send that was failing meanwhile hands it back and the next poll sends it.
* `RemindersAdjust`: `adjust` writes the whole plan it read before; a replan
  committed in between is lost, though the command reports the departure as
  unchanged.
* `LedgerMute`: a route-change announcement of a muted event is still sent.
* `AlarmTie`: a nap set for the instant of the wake's first ring, which is where the
  nap cap puts the latest nap, turns the wake window into a legacy alarm without a
  final.

Also met while reading, without a run: an `adjust` with an idempotency key that
dies after `record_adjust` and before `upsert_plan` makes its own retry a no-op;
the alarm daemon's cache restores `enabled` as on when the key is missing; a daemon
that is killed while it rings loses the snapshot of the volume, so that the ring it
resumes takes the loud volume for the user's; a wake that
falls due while a nap rings or is snoozed is marked as done without a ring of its
own; and the daemon publishes `ringing` while its audio is unhealthy, which
`docs/alarm-design.md:159` excludes.

## 5. Proofs

`RemindersProofs` proves, for all constants that satisfy `ConstantsOK` and
`NoneIsNoValue`, every safety property of `Reminders`: `TypeOK`, `OneGeneration`,
`AcknowledgedOnce`, `SupersededStaysDead`, `AttemptsBounded`, `DueNeverPostponed`,
`NoPrepAfterLeave`, `DepartureNotSwallowed` and `PollRespectsNewerPlan`. Nothing is
assumed of the number of rows, the horizon, the offers or the number of events.

The argument: every transaction of the store but `release_ping` lets rows only
*evolve* (`Evolves`): a row appears fresh and pending, a retired row stays as it is,
a fired row is not un-fired, the time of a due row does not move later, attempts do
not change.
This is proved once per transaction as a lemma. `release_ping` alone goes back, and
it touches only the row poll holds. The inductive invariant `Inv` therefore adds to
`TypeOK` and `OneGeneration` what each process carries:

* `HeldInv`: the entry in poll's hand is a fired, unacknowledged row with the
  attempts it was claimed with. Without it a release could revive a generation
  that was acknowledged, or count past the cap;
* `PollCarries`, `MorningCarries`, `CliCarries`: a snapshot or a target exists
  exactly where the program counter says, and `fresh` has the interval between
  getting ready and leaving of `snap`, which with the compare-and-swap gives
  `PollRespectsNewerPlan`;
* `Consumed`: acknowledged rows are fired and not held;
* `AttemptsBounded`, whose step is the cap in `Retryable` over the held entry.

The action properties follow from `Inv` and the lemmas step by step.
`DueNeverPostponed` needs two facts more, about who retires a due row: the replan and
refresh of poll retire nothing (`ReplanConsumesNone`: a row in their way is moved, and
a due one never to a later time), and morning retires a row only where its deadline changed or
lapsed (`MorningRetires`). That morning may retire a due reminder and insert another
in its place, later perhaps, is what the code does (`reconcile_morning_plan`) when the
plan it makes has another deadline, and the property says so.

`ReminderLifeProofs` proves `LifeCycle`, that `Reminders` implements `ReminderLife`,
from the same invariant: a claim that hands a row out is `Take`, the notifier's
acknowledgement `Deliver`, `release_ping` `GiveBack`; every other transaction is a
`Revise`, which the evolution lemmas give at once, or a stutter.

`AlertLedgerProofs` proves `TypeOK`, `PendingHasPlan`, `OneSender`,
`OneAnnouncement`, `LeaseEndsByOwner` and `SeenMeansVerified` for any events, poll
runs, leases and retries (`LedgerConstants`). A claim needs a day without a leased and
without a delivered row, so a day has one lease at a time; unless a sender outlived
its lease, whoever can still deliver holds that lease (`Timely`), so a day with a
delivered row has no other that is leased (`Announced`). `Working` says what a run
carries between the transactions of one event.

`AudioPlayerProofs` proves `TypeOK`, `SnapshotKept`, `NoStrayPlayer` and
`HealthyIsServed` for any number of levels, process identities, retries and faults
(`AudioConstants`). The key is `Alone`: past the join of `stop` there is no worker, so
sink, snapshot and handle have one writer at a time; `Snapshots`, `Launches` and
`Served` say what holds at each command of either thread.

`DelayPipelineProofs` proves `OwnTrainOnly`, `IndexMovesForward` and
`PaddingIsCurrent` for every timetable with finitely many trips, every set of reports,
and any number of refreshes and feeds (`PipelineConstants`). `Held`: a refresh at work
holds the lock, and what it brings is not older than the file. `Read`: what is in
`result` and `cache` was published. `Planned`: the candidate in hand is the only
departure of the timetable that is open, and the identity of a leg is that of the
only train its provenance has there and then. What is said of the identity is carried
from the leg to the plan's `boarded`, where it stays while replans change the plan's own
leg; that they stay on one journey is the rest of the invariant. The cardinalities are turned into
single trains once (`OneTrain`), which is where finiteness is needed.

It also proves `TypeOK`, which needs that a read counts fewer usable feeds than it
has tried (`Counted`).

`WakeChoiceProofs` is about the operators alone. `WakeIsSound`: for every
configuration, calendar (read or not), last publication and intent, `ComputeWake`
returns a well-formed result (`Sound`: not after its logical day, by its own
deadline) that is about the given intent or about none (`Carries`), and not later than
a live intent's deadline. The parts are lemmas: logical days are disjoint intervals;
the wake a day's plans or its fallback give lies before the day's end and by its own
deadline; the day chosen is not after the intent's own; what is retained passed
`Retainable`. `WakeForDay` is a recursive function over a day's plans; that the function
exists and that its result keeps what the fallback has and every plan preserves
(`FoldExists`, `FoldKeeps`) rests on `SetInduction`, which `WFMin` gives: were there
numbers outside the set, there would be a first one. The assumptions are `ChoiceConstants` (a day and a snooze have a
length; `None` is no number) and, in the lemmas, that plans are `Plans`: getting ready
and leaving are not after the start, which is how `planner.py` computes them.

`WakePublicationProofs` proves `TypeOK`, `ConfirmedIsCommitted`, `NoResurrection`,
`IntentNotOverslept`, `CommitsMoveForward` and `IntentOutlivesOthers` for any
publishers, attempts, intents and calendars (`PublicationConstants`). The invariant says
of each publisher by its program counter what it has in hand (`PublisherOK`): what it
publishes is `Sound` and was computed from the intent it loaded, under v1 its snapshot
parses, and what it is about to record was on show. `BindingComputed` says that a row
is bound only to a wake computed from that version of it, which is what
`IntentOutlivesOthers` needs and an equal deadline would not give. `CallsConverge`
shows of the script's decision alone that repeating a call and swapping two leave the
same schedule, provided that different snapshots differ in identity and time; beside it,
from the invariant, `NewestIsOnShow`: under v1 the helper shows the newest of all it has
held (`NewestOnShow`). An attempt to prove
`IntentNotOverslept` for intents of any day failed, and the model has the
counterexample: with no calendar and no record, an intent for the day after tomorrow
is left to tomorrow's fallback, and a helper that shows a live wake is then kept in that
fallback's place, though it may be later than the intent. The property now names
this exception. It is the code's choice (`_retain_live_on_upgrade` asks nothing of
the intent) and lasts until the first computation that succeeds.

`AlarmDaemonProofs` proves every property of the run `AlarmWindow` for any leads,
snoozes, limits, schedules and naps (`StepAssumption`, `DaemonConstants`): `TypeOK`,
`EndedStaysSilent`, `SoundMatchesMode`, `SnoozeWithinWindow`, `FinalInsists`,
`WindowLocked`, `RetiresOnlyEnded` and `DismissalKept`. The first half is about the
state machine. A state is `Sane` when its session, its window, its snooze and what is
pending fit together; each kind of session step takes a sane state to a sane one and
says what becomes of the sound (`Carried`), so does the ringing of what fell due
(`Scheduled`), and together they are a poll (`Progressed`). Two facts about data carry
this: the candidates of a poll have a first instant and each instant a last entry, since
the naturals are well-ordered; and a pending nap that Home Assistant still shows is
among the live ones, so a window is only ever opened for a wake. The second half is the
daemon. Its inductive invariant is five parts: `Types`; `Kept`, the state in memory is
sane and is what the cache holds (so that a crash and a load change nothing that
matters: `Load` is the identity on it), and what is done has ended or is active; `Owed`,
what a restarted process still has to resume; `Heard`, between polls the speakers sound
the alarm that rings; `Doing`, what is left of a poll in progress agrees with the
state it saved, in what it will sound and in which intent it will retire. A poll does
what `Polled` says, every other step is `Calm`. `SnoozeWithinWindow` turned out to
hold without the exception for restarts it used to have; `FinalInsists` turned out to
be false as it stood once a final alarm begins before its deadline: after a restart the
recovery limit is counted from the deadline as a replan met by that very poll has
tightened it. The run has `DeadlineLead` 2 since, so that this happens in it.

Induction over data is done through sets: the library's induction theorems cannot be
used here, but their consequences can that speak of a set (the least element of a set of
naturals).

Only model-checked: `LeaveSettles`, `SilenceReported`, `WindowSettles`,
`DismissalDelivered` and `FailureReported`, which are liveness properties and outside the
prover. Every invariant and action property of a passing run is a theorem.

## 6. Not modelled, and limits

* One alert replan per poll run in `Reminders`; several alerts of one run are in
  `AlertLedger` only as several events.
* Idempotency keys of `adjust` are in the model (`Keys`) but empty in the runs.
* `--today` mutes and mute expiry: `muted` is on or off.
* `delete_old_plans` has no caller.
* Delivery by the additive Home Assistant alarm is best effort and changes no state.
* `AlarmDaemon` models the v1 contract only; the legacy helpers' partial readings and
  schedules without a deadline are not enumerated. The desktop
  signal comes before a poll takes it or after the new state is stored; one that
  arrives while the machine steps, and so meets at the next poll a session that
  started after it, is not modelled.
* An unreadable or older cache file is not modelled; a write of the cache is atomic
  (`AlarmCache.save` replaces the file).
* DST: times are integers. `_same_plan` compares UTC instants for that reason.
* `AudioPlayer` has no crash of the daemon, and its delays (retry, ramp) have no
  duration. A `terminate()` that raises is in the model an attempt after which
  the process is still held; that the wait after it succeeds, so that the process is
  gone and the error is reported all the same, is not modelled.
* `SnoozeWithinWindow` bounds where a snooze of a window ends. That no window has more
  snoozes than its policy grants is the guard of one step and has no property.
* Device handling of the activity monitor (which desktop events count) is an input of
  `AlarmDaemon`.
* `DelayPipeline` has one allowlisted station, one leg and one planning process at a
  time: planning processes share only the stored route and plan, whose concurrent
  replacement is in `Reminders`. The tables of a zip and of the allowlist are not
  parsed. DST is left out of `ServiceInstant`. Buses and LIRR never get an identity,
  so their delays are never padded.
* Which run saves a plan (morning, the plan command, a replan of poll) and whether a
  replan is significant is left open in `DelayPipeline.Apply`: each outcome is allowed
  at any time. Of what `_same_journey` compares, `journey` stands for the
  destination, the durations, and the lines, headsigns and stops; route-level times go
  with those of the boarding step. That comparison is not transitive, since a cached
  route has no explicit times: over a cached route, padding can pass from one departure
  to another of the same lines and stops. The model has this, and
  `OwnTrainOnly` promises only that the journey is the same and that the padding was
  right for the departure it was observed for.
* Text: MTA alerts and their relevance, selectors, formatting, LLM fallbacks. Pure
  requests: calendar, geocoding, weather, Home Assistant's client. Their outcomes
  are inputs of the models that use them.
* The tomorrow job is one of the `Publishers`; its digest is output. Configuration
  is validated and rewritten by one process with an atomic replace.

## 7. Plan

Done: `PingStore`, `Reminders` and the refinement to `ReminderLife`; `AlertLedger`;
`AlarmStep`, `AlarmDaemon`; `WakeChoice`, `ScheduleContract`, `WakePublication`;
`AudioPlayer`; `StaticIndex`, `RealtimeDelay`, `DelayPipeline`; the safety of all of
them proved.

Left, in this order:

1. An abstract specification of a publication (a register that only moves forward)
   that `WakePublication` implements under v1, and the proof.
2. A crash of the daemon in `AudioPlayer`, with the status export of a ring whose audio
   has failed.
