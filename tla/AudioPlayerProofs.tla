-------------------------- MODULE AudioPlayerProofs --------------------------
(***************************************************************************)
(* Safety of the audio player for any number of process identities, ramp   *)
(* levels, retries and faults.                                             *)
(*                                                                         *)
(* The argument: once main is past the join there is no worker, so each    *)
(* piece of the sink, the snapshot and the handle has one writer at a      *)
(* time; a gain or a process is started only between a snapshot of the     *)
(* user's own setting and a restoration without errors.                    *)
(***************************************************************************)
EXTENDS AudioPlayer, TLAPS

Ringers == {"loop", "gain", "poll", "spawn", "failed"}
Starting == {"gain", "unmute", "spawn"}

\* One thread at a time past the join.
Alone == main \notin {"rest", "stop", "join"} => worker = "none"

\* The snapshot is the user's setting, and is held while gains are set.
Snapshots ==
  /\ saved \in {None, user}
  /\ saved = None => sink = user
  /\ main \in Starting \/ worker \in Ringers => saved = user
  /\ main = "snapshot" \/ (main = "stopped" /\ broken = {}) => saved = None
  /\ main = "mute" \/ worker = "mute" =>
       (saved # None /\ "volume" \notin broken => sink.vol = saved.vol)

\* A process is launched only when none runs.
Launches ==
  /\ \A i \in Procs : procs[i] = "running" => i = proc
  /\ \/ main \in Starting \cup {"snapshot"} \/ worker = "spawn"
     \/ main \in {"volume", "mute", "stopped"} /\ "process" \notin broken
     => \A i \in Procs : procs[i] # "running"
  /\ worker \in Ringers => proc # None

\* A ring the daemon believes in is served, being started, or failed and noticed.
Served ==
  /\ main = "rest" /\ ringing /\ healthy =>
       /\ ~stop
       /\ error \/ (worker \in Ringers /\ ~sink.muted)
  /\ goal = "rest" /\ main # "rest" => ~ringing \/ ~healthy
  /\ main \in Starting \cup {"snapshot"} => goal = "start"
  /\ main \in Starting => ~stop
  /\ main = "spawn" => ~sink.muted

IInv == TypeOK /\ Alone /\ Snapshots /\ Launches /\ Served

\* The ramp is not empty, and its levels are settings.
LEMMA Levels == 1 \in 1..Full /\ Full \in 1..Full /\ 1..Full \subseteq 0..Full
  BY AudioConstants

\* A sink set to a level is a setting.
LEMMA SetLevel ==
  ASSUME NEW s \in Settings, NEW v \in 0..Full
  PROVE  [s EXCEPT !.vol = v] \in Settings
  BY DEF Settings

\* The player at rest satisfies the invariant.
LEMMA InitInv == Init => IInv
<1> SUFFICES ASSUME Init PROVE IInv
  OBVIOUS
<1>1. ThreadTypes
  BY DEF Init, ThreadTypes
<1>2. SinkTypes
  <2>1. user \in Settings /\ sink \in Settings
    BY AudioConstants DEF Init, Settings
  <2> QED BY <2>1, Levels DEF Init, SinkTypes
<1>3. ProcessTypes
  BY AudioConstants DEF Init, ProcessTypes
<1>4. Alone /\ Snapshots /\ Launches /\ Served
  BY AudioConstants DEF Init, Alone, Snapshots, Launches, Served, Starting, Ringers, Settings
<1> QED BY <1>1, <1>2, <1>3, <1>4 DEF IInv, TypeOK

\* Every step of both threads and of the surroundings preserves it.
LEMMA StepInv ==
  ASSUME IInv, [Next]_vars
  PROVE  IInv'
<1> USE AudioConstants DEF IInv, TypeOK, ThreadTypes, SinkTypes, ProcessTypes, Settings, Alone, Snapshots, Launches, Served,
        Starting, Ringers, Fault, NoFault, Command, Main, Worker, WorkerOnly, threads, gain,
        daemon
<1>1. CASE StartRing
  BY <1>1 DEF StartRing
<1>2. CASE StopRing
  <2>1. TypeOK'
    <3>1. ThreadTypes'
      BY <1>2 DEF StopRing
    <3>2. SinkTypes'
      BY <1>2 DEF StopRing
    <3>3. ProcessTypes'
      BY <1>2 DEF StopRing
    <3> QED BY <3>1, <3>2, <3>3
  <2>2. Alone'
    BY <1>2 DEF StopRing
  <2>3. Snapshots'
    BY <1>2 DEF StopRing
  <2>4. Launches'
    BY <1>2 DEF StopRing
  <2>5. Served'
    BY <1>2 DEF StopRing
  <2> QED BY <2>1, <2>2, <2>3, <2>4, <2>5
<1>3. CASE TickFails
  <2>1. TypeOK'
    <3>1. ThreadTypes'
      BY <1>3 DEF TickFails
    <3>2. SinkTypes'
      BY <1>3 DEF TickFails
    <3>3. ProcessTypes'
      BY <1>3 DEF TickFails
    <3> QED BY <3>1, <3>2, <3>3
  <2>2. Alone'
    BY <1>3 DEF TickFails
  <2>3. Snapshots'
    BY <1>3 DEF TickFails
  <2>4. Launches'
    BY <1>3 DEF TickFails
  <2>5. Served'
    BY <1>3 DEF TickFails
  <2> QED BY <2>1, <2>2, <2>3, <2>4, <2>5
<1>4. CASE SetStop
  BY <1>4 DEF SetStop
<1>5. CASE Join
  BY <1>5 DEF Join
<1>6. CASE MainRestores
  BY <1>6 DEF MainRestores, Reap, RestoreVolume, RestoreMute
<1>7. CASE Stopped
  <2>1. TypeOK'
    <3>1. ThreadTypes'
      BY <1>7 DEF Stopped
    <3>2. SinkTypes'
      BY <1>7 DEF Stopped
    <3>3. ProcessTypes'
      BY <1>7 DEF Stopped
    <3> QED BY <3>1, <3>2, <3>3
  <2>2. Alone'
    BY <1>7 DEF Stopped
  <2>3. Snapshots'
    BY <1>7 DEF Stopped
  <2>4. Launches'
    BY <1>7 DEF Stopped
  <2>5. Served'
    BY <1>7 DEF Stopped
  <2> QED BY <2>1, <2>2, <2>3, <2>4, <2>5
<1>8. CASE Snapshot
  <2>1. TypeOK'
    <3>1. ThreadTypes'
      BY <1>8 DEF Snapshot
    <3>2. SinkTypes'
      <4> HIDE DEF Settings
      <4>1. sink' \in Settings /\ user' \in Settings /\ saved' \in Settings \cup {None}
        BY <1>8 DEF Snapshot
      <4>2. level' \in 1..Full /\ volume' \in 1..Full \cup {None}
        BY <1>8, Levels DEF Snapshot
      <4>3. failures' \in Nat
        BY <1>8 DEF Snapshot
      <4>4. degraded' \in BOOLEAN
        BY <1>8 DEF Snapshot
      <4> QED BY <4>1, <4>2, <4>3, <4>4
    <3>3. ProcessTypes'
      BY <1>8 DEF Snapshot
    <3> QED BY <3>1, <3>2, <3>3
  <2>2. Alone'
    BY <1>8 DEF Snapshot
  <2>3. Snapshots'
    BY <1>8 DEF Snapshot
  <2>4. Launches'
    BY <1>8 DEF Snapshot
  <2>5. Served'
    BY <1>8 DEF Snapshot
  <2> QED BY <2>1, <2>2, <2>3, <2>4, <2>5
<1>9. CASE FirstGain
  <2>1. TypeOK'
    <3>1. ThreadTypes'
      BY <1>9 DEF FirstGain, SetVolume
    <3>2. SinkTypes'
      <4> HIDE DEF Settings
      <4>1. /\ sink' = sink \/ sink' = [sink EXCEPT !.vol = level]
               \/ sink' = [sink EXCEPT !.vol = Full]
            /\ volume' \in {volume, level, Full}
        BY <1>9 DEF FirstGain, SetVolume
      <4>2. sink' \in Settings
        BY <4>1, Levels, SetLevel
      <4>3. level' \in 1..Full /\ volume' \in 1..Full \cup {None}
        BY <1>9, <4>1, Levels DEF FirstGain
      <4>4. failures' \in Nat
        BY <1>9 DEF FirstGain, SetVolume
      <4>5. degraded' \in BOOLEAN
        BY <1>9 DEF FirstGain, SetVolume
      <4>6. user' \in Settings /\ saved' \in Settings \cup {None}
        BY <1>9 DEF FirstGain
      <4> QED BY <4>2, <4>3, <4>4, <4>5, <4>6
    <3>3. ProcessTypes'
      BY <1>9 DEF FirstGain, SetVolume
    <3> QED BY <3>1, <3>2, <3>3
  <2>2. Alone'
    BY <1>9 DEF FirstGain, SetVolume
  <2>3. Snapshots'
    BY <1>9 DEF FirstGain, SetVolume
  <2>4. Launches'
    BY <1>9 DEF FirstGain, SetVolume
  <2>5. Served'
    BY <1>9 DEF FirstGain, SetVolume
  <2> QED BY <2>1, <2>2, <2>3, <2>4, <2>5
<1>10. CASE Unmute
  <2>1. TypeOK'
    <3>1. ThreadTypes'
      BY <1>10 DEF Unmute
    <3>2. SinkTypes'
      BY <1>10 DEF Unmute
    <3>3. ProcessTypes'
      BY <1>10 DEF Unmute
    <3> QED BY <3>1, <3>2, <3>3
  <2>2. Alone'
    BY <1>10 DEF Unmute
  <2>3. Snapshots'
    BY <1>10 DEF Unmute
  <2>4. Launches'
    BY <1>10 DEF Unmute
  <2>5. Served'
    BY <1>10 DEF Unmute
  <2> QED BY <2>1, <2>2, <2>3, <2>4, <2>5
<1>11. CASE FirstSpawn
  <2>1. TypeOK'
    <3>1. ThreadTypes'
      BY <1>11 DEF FirstSpawn, Spawned, SpawnFails, Launch, CanRetry, Retry
    <3>2. SinkTypes'
      BY <1>11 DEF FirstSpawn, Spawned, SpawnFails, Launch, CanRetry, Retry
    <3>3. ProcessTypes'
      BY <1>11 DEF FirstSpawn, Spawned, SpawnFails, Launch, CanRetry, Retry
    <3> QED BY <3>1, <3>2, <3>3
  <2>2. Alone'
    BY <1>11 DEF FirstSpawn, Spawned, SpawnFails, Launch, CanRetry, Retry
  <2>3. Snapshots'
    BY <1>11 DEF FirstSpawn, Spawned, SpawnFails, Launch, CanRetry, Retry
  <2>4. Launches'
    BY <1>11 DEF FirstSpawn, Spawned, SpawnFails, Launch, CanRetry, Retry
  <2>5. Served'
    BY <1>11 DEF FirstSpawn, Spawned, SpawnFails, Launch, CanRetry, Retry
  <2> QED BY <2>1, <2>2, <2>3, <2>4, <2>5
<1>12. CASE LoopTurn
  BY <1>12 DEF LoopTurn
<1>13. CASE Gain
  <2>1. TypeOK'
    <3>1. ThreadTypes'
      BY <1>13 DEF Gain, SetVolume
    <3>2. SinkTypes'
      <4> HIDE DEF Settings
      <4>1. /\ sink' = sink \/ sink' = [sink EXCEPT !.vol = level]
               \/ sink' = [sink EXCEPT !.vol = Full]
            /\ volume' \in {volume, level, Full}
        BY <1>13 DEF Gain, SetVolume
      <4>2. sink' \in Settings
        BY <4>1, Levels, SetLevel
      <4>3. level' \in 1..Full /\ volume' \in 1..Full \cup {None}
        BY <1>13, <4>1, Levels DEF Gain
      <4>4. failures' \in Nat
        BY <1>13 DEF Gain, SetVolume
      <4>5. degraded' \in BOOLEAN
        BY <1>13 DEF Gain, SetVolume
      <4>6. user' \in Settings /\ saved' \in Settings \cup {None}
        BY <1>13 DEF Gain
      <4> QED BY <4>2, <4>3, <4>4, <4>5, <4>6
    <3>3. ProcessTypes'
      BY <1>13 DEF Gain, SetVolume
    <3> QED BY <3>1, <3>2, <3>3
  <2>2. Alone'
    BY <1>13 DEF Gain, SetVolume
  <2>3. Snapshots'
    BY <1>13 DEF Gain, SetVolume
  <2>4. Launches'
    BY <1>13 DEF Gain, SetVolume
  <2>5. Served'
    BY <1>13 DEF Gain, SetVolume
  <2> QED BY <2>1, <2>2, <2>3, <2>4, <2>5
<1>14. CASE PollProcess
  BY <1>14 DEF PollProcess, CanRetry, Retry
<1>15. CASE Respawn
  BY <1>15 DEF Respawn, Spawned, SpawnFails, Launch, CanRetry, Retry
<1>16. CASE Fail
  BY <1>16 DEF Fail
<1>17. CASE WorkerRestores
  BY <1>17 DEF WorkerRestores, Reap, RestoreVolume, RestoreMute
<1>18. CASE Ramp
  BY <1>18 DEF Ramp
<1>19. CASE ProcessEnds
  BY <1>19 DEF ProcessEnds
<1>20. CASE UserMutes
  <2>1. TypeOK'
    <3>1. ThreadTypes'
      BY <1>20 DEF UserMutes
    <3>2. SinkTypes'
      BY <1>20 DEF UserMutes
    <3>3. ProcessTypes'
      BY <1>20 DEF UserMutes
    <3> QED BY <3>1, <3>2, <3>3
  <2>2. Alone'
    BY <1>20 DEF UserMutes
  <2>3. Snapshots'
    BY <1>20 DEF UserMutes
  <2>4. Launches'
    BY <1>20 DEF UserMutes
  <2>5. Served'
    BY <1>20 DEF UserMutes
  <2> QED BY <2>1, <2>2, <2>3, <2>4, <2>5
<1>21. CASE UNCHANGED vars
  BY <1>21 DEF vars
<1> QED BY <1>1, <1>2, <1>3, <1>4, <1>5, <1>6, <1>7, <1>8, <1>9, <1>10, <1>11, <1>12, <1>13,
           <1>14, <1>15, <1>16, <1>17, <1>18, <1>19, <1>20, <1>21
           DEF Next, MainStep, WorkerStep

\* The invariant holds in every reachable state.
THEOREM InvHolds == Spec => []IInv
  BY InitInv, StepInv, PTL DEF Spec

\* The player's state is well formed.
THEOREM TypeCorrect == Spec => []TypeOK
<1>1. IInv => TypeOK
  BY DEF IInv
<1> QED BY <1>1, InvHolds, PTL

\* The sink differs from the user's setting only while the way back is held.
THEOREM SnapshotKeptHolds == Spec => []SnapshotKept
<1>1. IInv => SnapshotKept
  BY DEF IInv, Snapshots, SnapshotKept
<1> QED BY <1>1, InvHolds, PTL

\* Whatever runs is the process of the handle.
THEOREM NoStrayPlayerHolds == Spec => []NoStrayPlayer
<1>1. IInv => NoStrayPlayer
  BY DEF IInv, Launches, NoStrayPlayer
<1> QED BY <1>1, InvHolds, PTL

\* A ring the daemon believes in is served, or its failure is about to be seen.
THEOREM HealthyIsServedHolds == Spec => []HealthyIsServed
<1>1. IInv => HealthyIsServed
  BY DEF IInv, Served, Ringers, HealthyIsServed
<1> QED BY <1>1, InvHolds, PTL
=============================================================================
