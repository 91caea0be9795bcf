---------------------------- MODULE AudioPlayer ----------------------------
(***************************************************************************)
(* The daemon's local audio (alarm_daemon.py: PipeWirePlayer).  The polling *)
(* thread starts, stops and checks a ring; while it lasts, a worker thread  *)
(* steps the volume and relaunches pw-play.  Every command to the sink or   *)
(* to a process may fail.  Both threads share the snapshot of the sink, the *)
(* process handle and the stop event; stop joins the worker first.          *)
(***************************************************************************)
EXTENDS Naturals

CONSTANTS
  None,
  Procs,        \* process identities (reused once reaped or replaced)
  Full,         \* the top of the ramp; levels are 1..Full, the user's volume is 0
  MaxRetries,   \* Len(_PLAYBACK_RETRY_DELAYS)
  MaxFailures,  \* _MAX_VOLUME_FAILURES
  MaxFaults     \* bound on failing commands and dying processes

\* What a sink is set to.
Settings == [vol : 0..Full, muted : BOOLEAN]

ASSUME AudioConstants ==
  /\ Full \in Nat \ {0} /\ MaxRetries \in Nat /\ MaxFailures \in Nat /\ MaxFaults \in Nat
  /\ None \notin Procs /\ None \notin Nat /\ None \notin Settings

VARIABLES
  main, goal,        \* polling thread: next step, and what follows a stop
  worker,            \* worker thread: next step, "none" when there is no thread
  stop, error,       \* _stop, _error
  sink, user,        \* volume and mute as they are, and as the user set them
  saved,             \* _saved
  proc, procs,       \* _proc, and what became of each process
  level, volume,     \* the ramp's level now, _volume
  failures, degraded, retries,  \* _volume_failures, _volume_degraded, _playback_retries
  broken,            \* errors collected by the _restore in progress
  ringing, healthy,  \* the daemon's: a ring was started, _audio_healthy
  faults

threads == <<main, goal, worker>>
gain    == <<level, volume, failures, degraded>>
daemon  == <<ringing, healthy>>
vars == <<threads, stop, error, sink, user, saved, proc, procs, gain, retries, broken,
          daemon, faults>>

Init ==
  /\ main = "rest" /\ goal = "rest" /\ worker = "none"
  /\ stop = FALSE /\ error = FALSE
  /\ user \in [vol : {0}, muted : BOOLEAN] /\ sink = user
  /\ saved = None /\ proc = None /\ procs = [i \in Procs |-> "gone"]
  /\ level = 1 /\ volume = None /\ failures = 0 /\ degraded = FALSE /\ retries = 0
  /\ broken = {} /\ ringing = FALSE /\ healthy = TRUE /\ faults = 0

Fault == faults < MaxFaults /\ faults' = faults + 1
NoFault == UNCHANGED faults

\* A command takes effect, or raises.
Command(effect, else) == \/ effect /\ NoFault
                         \/ else /\ Fault

-----------------------------------------------------------------------------
\* _restore, by whichever thread runs it: process, then volume, then mute.

\* Variant: the handle is dropped although the process could not be killed.
ReapForgets ==
  \/ /\ proc # None /\ proc' = None
     /\ Command(procs' = [procs EXCEPT ![proc] = "gone"] /\ UNCHANGED broken,
                broken' = broken \cup {"process"} /\ UNCHANGED procs)
  \/ /\ proc = None /\ NoFault
     /\ UNCHANGED <<proc, procs, broken>>

Reap ==
  \/ /\ proc # None
     /\ Command(/\ procs' = [procs EXCEPT ![proc] = "gone"] /\ proc' = None
                /\ UNCHANGED broken,
                broken' = broken \cup {"process"} /\ UNCHANGED <<proc, procs>>)
  \/ /\ proc = None /\ NoFault
     /\ UNCHANGED <<proc, procs, broken>>

RestoreVolume ==
  IF saved = None THEN NoFault /\ UNCHANGED <<sink, broken>>
  ELSE Command(sink' = [sink EXCEPT !.vol = saved.vol] /\ UNCHANGED broken,
               broken' = broken \cup {"volume"} /\ UNCHANGED sink)

\* Variant: the last command alone decides whether the snapshot is done with.
RestoreMuteForgets ==
  IF saved = None THEN NoFault /\ UNCHANGED <<sink, saved, broken>>
  ELSE Command(/\ sink' = [sink EXCEPT !.muted = saved.muted] /\ UNCHANGED broken
               /\ saved' = None,
               broken' = broken \cup {"mute"} /\ UNCHANGED <<sink, saved>>)

\* The snapshot is kept until both of its commands have succeeded.
RestoreMute ==
  IF saved = None THEN NoFault /\ UNCHANGED <<sink, saved, broken>>
  ELSE Command(/\ sink' = [sink EXCEPT !.muted = saved.muted] /\ UNCHANGED broken
               /\ saved' = IF "volume" \in broken THEN saved ELSE None,
               broken' = broken \cup {"mute"} /\ UNCHANGED <<sink, saved>>)

-----------------------------------------------------------------------------
\* Playback and gain, by whichever thread runs them.

Launch(i) == proc' = i /\ i # proc /\ procs[i] # "running"

\* _spawn: a process that runs on.
Spawned ==
  /\ \E i \in Procs : Launch(i) /\ procs' = [procs EXCEPT ![i] = "running"]
  /\ UNCHANGED retries /\ NoFault

\* It cannot be launched, or it exits at once.
SpawnFails ==
  /\ \/ UNCHANGED <<proc, procs>>
     \/ \E i \in Procs : Launch(i) /\ procs' = [procs EXCEPT ![i] = "failed"]
  /\ Fault

\* Variant: one relaunch too many.
RetryOnceMore == retries <= MaxRetries

CanRetry == retries < MaxRetries
Retry == retries' = retries + 1

\* _set_volume: gain never ends playback; after MaxFailures, full volume once.
SetVolume(v) ==
  \/ /\ sink' = [sink EXCEPT !.vol = v] /\ volume' = v /\ failures' = 0
     /\ NoFault /\ UNCHANGED degraded
  \/ /\ failures + 1 < MaxFailures /\ Fault
     /\ failures' = failures + 1 /\ UNCHANGED <<sink, volume, degraded>>
  \/ /\ failures + 1 >= MaxFailures /\ Fault
     /\ failures' = failures + 1 /\ degraded' = TRUE
     /\ \/ UNCHANGED <<sink, volume>>
        \/ ~stop /\ sink' = [sink EXCEPT !.vol = Full] /\ volume' = Full

-----------------------------------------------------------------------------
\* The polling thread.

Main(from, to) == main = from /\ main' = to

\* player.start begins with a stop; player.stop; player.tick finds the error.
StartRing ==
  /\ Main("rest", "stop") /\ goal' = "start" /\ ringing' = TRUE
  /\ UNCHANGED <<worker, stop, error, sink, user, saved, proc, procs, gain, retries, broken,
                 healthy, faults>>

StopRing ==
  /\ Main("rest", "stop") /\ ringing /\ goal' = "rest" /\ ringing' = FALSE
  /\ UNCHANGED <<worker, stop, error, sink, user, saved, proc, procs, gain, retries, broken,
                 healthy, faults>>

TickFails ==
  /\ Main("rest", "stop") /\ ringing /\ healthy /\ error
  /\ goal' = "rest" /\ healthy' = FALSE
  /\ UNCHANGED <<worker, stop, error, sink, user, saved, proc, procs, gain, retries, broken,
                 ringing, faults>>

SetStop ==
  /\ Main("stop", "join") /\ stop' = TRUE
  /\ UNCHANGED <<goal, worker, error, sink, user, saved, proc, procs, gain, retries, broken,
                 daemon, faults>>

\* Variant: stop signals the worker and does not wait for it.
DoNotJoin ==
  /\ Main("join", "reap")
  /\ broken' = {}
  /\ UNCHANGED <<goal, worker, stop, error, sink, user, saved, proc, procs, gain, retries,
                 daemon, faults>>

Join ==
  /\ Main("join", "reap") /\ worker = "none"
  /\ broken' = {}
  /\ UNCHANGED <<goal, worker, stop, error, sink, user, saved, proc, procs, gain, retries,
                 daemon, faults>>

MainRestores ==
  /\ \/ Main("reap", "volume") /\ Reap /\ UNCHANGED <<sink, saved>>
     \/ Main("volume", "mute") /\ RestoreVolume /\ UNCHANGED <<proc, procs, saved>>
     \/ Main("mute", "stopped") /\ RestoreMute /\ UNCHANGED <<proc, procs>>
  /\ UNCHANGED <<goal, worker, stop, error, user, gain, retries, daemon>>

\* An error of stop fails a start; a failed start stops twice (start, _apply).
Stopped ==
  /\ main = "stopped"
  /\ CASE goal = "start" /\ broken # {} ->
            main' = "stop" /\ goal' = "rest" /\ healthy' = FALSE
       [] goal = "start" /\ broken = {} ->
            main' = "snapshot" /\ UNCHANGED <<goal, healthy>>
       [] goal = "failed" ->
            main' = "stop" /\ goal' = "rest" /\ healthy' = FALSE
       [] goal = "rest" ->
            main' = "rest" /\ UNCHANGED <<goal, healthy>>
  /\ UNCHANGED <<worker, stop, error, sink, user, saved, proc, procs, gain, retries, broken,
                 ringing, faults>>

\* The sink is found and its volume read, or start raises.
Snapshot ==
  /\ main = "snapshot"
  /\ error' = FALSE /\ stop' = FALSE
  /\ Command(/\ main' = "gain" /\ saved' = sink
             /\ level' = 1 /\ volume' = None /\ failures' = 0 /\ degraded' = FALSE
             /\ retries' = 0 /\ UNCHANGED <<goal, healthy>>,
             /\ main' = "stop" /\ goal' = "rest" /\ healthy' = FALSE
             /\ UNCHANGED <<saved, gain, retries>>)
  /\ UNCHANGED <<worker, sink, user, proc, procs, broken, ringing>>

FirstGain ==
  /\ Main("gain", "unmute") /\ SetVolume(level)
  /\ UNCHANGED <<goal, worker, stop, error, user, saved, proc, procs, level, retries, broken,
                 daemon>>

Unmute ==
  /\ main = "unmute"
  /\ Command(main' = "spawn" /\ sink' = [sink EXCEPT !.muted = FALSE] /\ UNCHANGED goal,
             main' = "stop" /\ goal' = "failed" /\ UNCHANGED sink)
  /\ UNCHANGED <<worker, stop, error, user, saved, proc, procs, gain, retries, broken, daemon>>

FirstSpawn ==
  /\ main = "spawn"
  /\ \/ /\ Spawned /\ main' = "rest" /\ worker' = "loop" /\ healthy' = TRUE /\ UNCHANGED goal
     \/ /\ SpawnFails /\ CanRetry /\ Retry /\ UNCHANGED <<threads, healthy>>
     \/ /\ SpawnFails /\ ~CanRetry /\ main' = "stop" /\ goal' = "failed"
        /\ UNCHANGED <<worker, healthy, retries>>
  /\ UNCHANGED <<stop, error, sink, user, saved, gain, broken, ringing>>

-----------------------------------------------------------------------------
\* The worker: one turn sets the gain when the level moved, then sees to pw-play.

Worker(from, to) == worker = from /\ worker' = to
WorkerOnly == UNCHANGED <<main, goal, stop, user, daemon>>

LoopTurn ==
  /\ worker = "loop"
  /\ worker' = IF stop THEN "none"
               ELSE IF volume # level /\ ~degraded THEN "gain" ELSE "poll"
  /\ WorkerOnly
  /\ UNCHANGED <<error, sink, saved, proc, procs, gain, retries, broken, faults>>

\* The command to the sink, issued after stop was last looked at.
Gain ==
  /\ Worker("gain", "poll") /\ SetVolume(level)
  /\ WorkerOnly
  /\ UNCHANGED <<error, saved, proc, procs, level, retries, broken>>

\* Variant: a sound file that has ended is not played again.
PlayOnce ==
  /\ worker = "poll"
  /\ worker' = IF stop \/ procs[proc] # "running" THEN "none" ELSE "loop"
  /\ WorkerOnly
  /\ UNCHANGED <<error, sink, saved, proc, procs, gain, retries, broken, faults>>

PollProcess ==
  /\ worker = "poll"
  /\ \/ /\ stop /\ worker' = "none" /\ UNCHANGED retries
     \/ /\ ~stop /\ procs[proc] = "running" /\ worker' = "loop" /\ UNCHANGED retries
     \/ /\ ~stop /\ procs[proc] = "ended" /\ worker' = "spawn" /\ UNCHANGED retries
     \/ /\ ~stop /\ procs[proc] = "failed" /\ CanRetry /\ worker' = "spawn" /\ Retry
     \/ /\ ~stop /\ procs[proc] = "failed" /\ ~CanRetry /\ worker' = "failed"
        /\ UNCHANGED retries
  /\ WorkerOnly
  /\ UNCHANGED <<error, sink, saved, proc, procs, gain, broken, faults>>

Respawn ==
  /\ worker = "spawn"
  /\ \/ /\ stop /\ worker' = "none" /\ UNCHANGED <<proc, procs, retries, faults>>
     \/ /\ ~stop /\ Spawned /\ worker' = "loop"
     \/ /\ ~stop /\ SpawnFails /\ CanRetry /\ Retry /\ UNCHANGED worker
     \/ /\ ~stop /\ SpawnFails /\ ~CanRetry /\ worker' = "failed" /\ UNCHANGED retries
  /\ WorkerOnly
  /\ UNCHANGED <<error, sink, saved, gain, broken>>

\* Variant: the worker gives up without a word.
FailSilently ==
  /\ worker = "failed"
  /\ worker' = IF stop THEN "none" ELSE "reap"
  /\ broken' = {}
  /\ WorkerOnly
  /\ UNCHANGED <<error, sink, saved, proc, procs, gain, retries, faults>>

\* The error is left for tick; without a stop under way, the worker cleans up.
Fail ==
  /\ worker = "failed"
  /\ error' = TRUE
  /\ worker' = IF stop THEN "none" ELSE "reap"
  /\ broken' = {}
  /\ WorkerOnly
  /\ UNCHANGED <<sink, saved, proc, procs, gain, retries, faults>>

WorkerRestores ==
  /\ \/ Worker("reap", "volume") /\ Reap /\ UNCHANGED <<sink, saved>>
     \/ Worker("volume", "mute") /\ RestoreVolume /\ UNCHANGED <<proc, procs, saved>>
     \/ Worker("mute", "none") /\ RestoreMute /\ UNCHANGED <<proc, procs>>
  /\ WorkerOnly
  /\ UNCHANGED <<error, gain, retries>>

-----------------------------------------------------------------------------
\* Surroundings: time moves the ramp, the sound file ends or pw-play dies, and
\* the user sets the sink while no ring holds it.

Ramp ==
  /\ level < Full /\ worker # "none" /\ level' = level + 1
  /\ UNCHANGED <<threads, stop, error, sink, user, saved, proc, procs, volume, failures,
                 degraded, retries, broken, daemon, faults>>

ProcessEnds ==
  /\ \E i \in Procs, how \in {"ended", "failed"} :
       /\ procs[i] = "running" /\ procs' = [procs EXCEPT ![i] = how]
       /\ IF how = "failed" THEN Fault ELSE NoFault
  /\ UNCHANGED <<threads, stop, error, sink, user, saved, proc, gain, retries, broken, daemon>>

UserMutes ==
  /\ main = "rest" /\ saved = None /\ ~ringing
  /\ sink' = [sink EXCEPT !.muted = ~@] /\ user' = sink'
  /\ UNCHANGED <<threads, stop, error, saved, proc, procs, gain, retries, broken, daemon, faults>>

MainStep ==
  TickFails \/ SetStop \/ Join \/ MainRestores \/ Stopped \/ Snapshot \/ FirstGain \/ Unmute
  \/ FirstSpawn

WorkerStep ==
  LoopTurn \/ Gain \/ PollProcess \/ Respawn \/ Fail \/ WorkerRestores

Next == StartRing \/ StopRing \/ MainStep \/ WorkerStep \/ Ramp \/ ProcessEnds \/ UserMutes

\* Both threads keep running; rings, and the ends of processes, just happen.
Spec == Init /\ [][Next]_vars /\ WF_vars(MainStep) /\ WF_vars(WorkerStep)

-----------------------------------------------------------------------------
\* Steps of the threads, snapshot and handle are of their kinds.
ThreadTypes ==
  /\ main \in {"rest", "stop", "join", "reap", "volume", "mute", "stopped", "snapshot",
               "gain", "unmute", "spawn"}
  /\ goal \in {"start", "failed", "rest"}
  /\ worker \in {"none", "loop", "gain", "poll", "spawn", "failed", "reap", "volume", "mute"}
  /\ stop \in BOOLEAN /\ error \in BOOLEAN /\ ringing \in BOOLEAN /\ healthy \in BOOLEAN

SinkTypes ==
  /\ sink \in Settings /\ user \in Settings /\ saved \in Settings \cup {None}
  /\ level \in 1..Full /\ volume \in 1..Full \cup {None}
  /\ failures \in Nat /\ degraded \in BOOLEAN

ProcessTypes ==
  /\ proc \in Procs \cup {None} /\ procs \in [Procs -> {"gone", "running", "ended", "failed"}]
  /\ retries \in 0..MaxRetries /\ broken \subseteq {"process", "volume", "mute"}
  /\ faults \in Nat

TypeOK == ThreadTypes /\ SinkTypes /\ ProcessTypes

\* The sink is away from the user's setting only while the snapshot that leads
\* back to it is held: no command, of either thread and failing or not, comes
\* after the restoration, and no ring takes a ring's gain for the user's.
SnapshotKept == sink # user => saved = user

\* Whatever pw-play is running is the one the handle leads to: no relaunch, and
\* no failed kill, leaves a sound that a later stop cannot end.
NoStrayPlayer == \A i \in Procs : procs[i] = "running" => i = proc

\* A ring the daemon believes in has a worker behind it and an unmuted sink, or
\* its failure waits for the next tick.
HealthyIsServed ==
  main = "rest" /\ ringing /\ healthy => error \/ (worker # "none" /\ ~sink.muted)

\* Silence does not last unnoticed: pw-play runs again, or the ring ends, or the
\* daemon learns of the failure (so that Home Assistant's dead-man alert fires).
SilenceReported ==
  (ringing /\ healthy /\ (proc = None \/ procs[proc] # "running"))
    ~> (~ringing \/ ~healthy \/ (proc # None /\ procs[proc] = "running"))
=============================================================================
