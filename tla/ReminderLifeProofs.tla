-------------------------- MODULE ReminderLifeProofs --------------------------
(***************************************************************************)
(* The reminder jobs and commands implement the life cycle ReminderLife,   *)
(* for every set of rows, planner, clock and interleaving.  Every step is  *)
(* mapped: a claim that hands a row out is Take, the acknowledgement of    *)
(* the notifier Deliver, release_ping GiveBack, and all the rest Revise,   *)
(* Forget or a stutter, by the evolution lemmas of RemindersProofs.        *)
(***************************************************************************)
EXTENDS ReminderRefinement, RemindersProofs

stage   == [i \in Ids |-> StageOf(rows[i])]
kind    == [i \in Ids |-> IF rows[i] = None THEN None ELSE rows[i].kind]
tries   == [i \in Ids |-> IF rows[i] = None THEN 0 ELSE rows[i].attempts]
sending == IF held = None THEN None ELSE held.id

\* The empty store is the empty life cycle.
LEMMA InitImplements == Init => Life!Init
  BY DEF Init, Life!Init, StageOf

\* What is in force, of the mapped generations, is what is live in the table.
LEMMA InForceIsLive ==
  ASSUME NEW k \in Kinds
  PROVE  Life!InForce(k) = LiveOf(rows, k)
BY DEF Life!InForce, LiveOf, StageOf

\* The same after a step.
LEMMA InForceIsLiveNext ==
  ASSUME NEW k \in Kinds
  PROVE  Life!InForce(k)' = LiveOf(rows', k)
BY DEF Life!InForce, LiveOf, StageOf

\* A transaction that evolves the rows while the poll job's entry stays in hand is
\* one revision of the life cycle.
LEMMA EvolutionRevises ==
  ASSUME Sound(rows), Evolves(rows, rows', now), UNCHANGED <<held, acknowledged>>
  PROVE  Life!Revise
<1>1. ASSUME NEW i \in Ids
      PROVE  /\ stage[i]' \in Life!Onward[stage[i]]
             /\ stage[i] = "absent" => tries[i]' = 0
             /\ stage[i] # "absent" => kind[i]' = kind[i] /\ tries[i]' = tries[i]
  BY DEF Evolves, Sound, Life!Onward, stage, kind, tries, StageOf
<1>2. ASSUME NEW k \in {"prep", "leave"}, NEW g \in Life!InForce(k)', NEW h \in Life!InForce(k)'
      PROVE  g = h
  <2>1. k \in Kinds
    BY DEF Kinds
  <2> QED BY <2>1, InForceIsLiveNext DEF Evolves, Sound
<1> QED BY <1>1, <1>2 DEF Life!Revise, stage, kind, tries

\* A claim hands out a row (Take), or consumes it unsent, or leaves it (Revise).
LEMMA ClaimImplements ==
  ASSUME Inv, PollClaim
  PROVE  Life!Revise \/ \E g \in Ids : Life!Take(g)
<1>1. PICK i \in todo : Claim(i)
  BY DEF PollClaim
<1>2. i \in Ids /\ pc = "dispatch" /\ held = None /\ Sound(rows) /\ acknowledged' = acknowledged
  BY SoundRows DEF Inv, TypeOK, PollTypeOK, PollClaim, HeldInv, HoldingPcs, history
<1>3. Evolves(rows, rows', now)
  BY <1>1, <1>2, ClaimKeeps
<1>4. CASE held' = held
  BY <1>2, <1>3, <1>4, EvolutionRevises
<1>5. CASE held' # held
  <2>1. /\ rows' = [rows EXCEPT ![i].fired = TRUE]
        /\ rows[i] # None /\ ~rows[i].fired /\ ~Suppressed(i, now)
        /\ held' = [id |-> i, kind |-> rows[i].kind, at |-> rows[i].at,
                    attempts |-> rows[i].attempts]
    BY <1>1, <1>5 DEF Claim, Claimable, Eligible
  <2>2. held' # None /\ held'.id = i
    BY <1>2, <1>5, <2>1
  <2>3. rows[i] \in Row /\ ~rows[i].retired
    BY <1>2, <2>1 DEF Sound
  <2>4. /\ rows'[i] = [rows[i] EXCEPT !.fired = TRUE]
        /\ \A j \in Ids \ {i} : rows'[j] = rows[j]
    BY <1>2, <2>1 DEF Sound
  <2>5. /\ rows'[i] # None /\ rows'[i].kind = rows[i].kind /\ rows'[i].fired
        /\ ~rows'[i].retired /\ rows'[i].attempts = rows[i].attempts
    BY <1>2, <1>3, <2>1, <2>3, <2>4 DEF Evolves, Row
  <2>6. /\ stage' = [stage EXCEPT ![i] = "spent"] /\ stage[i] = "pending"
        /\ kind' = kind /\ tries' = tries
    <3>1. stage' = [stage EXCEPT ![i] = "spent"] /\ stage[i] = "pending"
      BY <1>2, <2>1, <2>3, <2>4, <2>5 DEF stage, StageOf
    <3>2. \A j \in Ids : rows'[j] = None <=> rows[j] = None
      BY <2>1, <2>4, <2>5
    <3>3. kind' = kind
      BY <2>4, <2>5, <3>2 DEF kind
    <3>4. tries' = tries
      BY <2>4, <2>5, <3>2 DEF tries
    <3> QED BY <3>1, <3>3, <3>4
  <2>7. rows[i].kind = "prep" => LiveOf(rows, "leave") \cap acknowledged = {}
    <3> SUFFICES ASSUME rows[i].kind = "prep", NEW j \in LiveOf(rows, "leave"), j \in acknowledged
                 PROVE  FALSE
      OBVIOUS
    <3>1. rows[j].fired
      BY DEF Inv, Consumed
    <3> QED BY <2>1, <3>1 DEF Suppressed, ObsoletePrep
  <2>8. kind[i] = "prep" => Life!InForce("leave") \cap acknowledged = {}
    BY <1>2, <2>1, <2>7, InForceIsLive DEF kind, Kinds
  <2> QED BY <1>2, <2>2, <2>6, <2>8 DEF Life!Take, stage, kind, tries
<1> QED BY <1>4, <1>5

\* release_ping gives back the row in hand, or the sender forgets it.
LEMMA ReleaseImplements ==
  ASSUME Inv, PollRelease
  PROVE  Life!Forget \/ \E g \in Ids : Life!GiveBack(g)
<1> DEFINE h == held.id
<1>1. /\ pc = "failed" /\ held # None /\ h \in Ids /\ h # None
      /\ rows[h] # None /\ rows[h].fired /\ rows[h].attempts = held.attempts
      /\ h \notin acknowledged /\ held' = None /\ acknowledged' = acknowledged
      /\ Sound(rows)
  BY SoundRows, ConstantsOK, NoneIsNoId DEF Inv, HeldInv, HoldingPcs, PollRelease, Entry, history
<1> HIDE DEF h
<1>2. CASE UNCHANGED rows
  BY <1>1, <1>2 DEF Life!Forget, StageOf, h
<1>3. CASE ~UNCHANGED rows
  <2>1. /\ ReleaseAllowed(h) /\ held.attempts + 1 < MaxSendAttempts
        /\ rows' = [rows EXCEPT ![h].fired = FALSE, ![h].attempts = @ + 1]
    BY <1>1, <1>3, ReleaseProperties DEF h
  <2>2. rows[h] \in Row /\ ~rows[h].retired
    BY <1>1, <2>1 DEF ReleaseAllowed, Sound
  <2>3. /\ rows'[h] = [rows[h] EXCEPT !.fired = FALSE, !.attempts = @ + 1]
        /\ \A j \in Ids \ {h} : rows'[j] = rows[j]
    BY <1>1, <2>1 DEF Sound
  <2>4. /\ rows'[h] # None /\ rows'[h].kind = rows[h].kind /\ ~rows'[h].fired
        /\ ~rows'[h].retired /\ rows'[h].attempts = rows[h].attempts + 1
    <3>1. rows'[h] # None
      BY <1>1, ReleaseKeeps
    <3> QED BY <2>2, <2>3, <3>1 DEF Row
  <2>5. /\ stage' = [stage EXCEPT ![h] = "pending"] /\ stage[h] = "spent"
        /\ kind' = kind
    BY <1>1, <2>2, <2>3, <2>4 DEF stage, kind, StageOf
  <2>6. tries' = [tries EXCEPT ![h] = @ + 1] /\ tries[h] = held.attempts
    BY <1>1, <2>3, <2>4 DEF tries
  <2>7. ASSUME NEW g \in Life!InForce(kind[h]) PROVE g = h
    <3>1. kind[h] = rows[h].kind /\ rows[h].kind \in Kinds
      BY <1>1, <2>2 DEF kind, Row
    <3>2. g \in LiveOf(rows, rows[h].kind) /\ h \in LiveOf(rows, rows[h].kind)
      BY <1>1, <2>2, <3>1, InForceIsLive DEF LiveOf
    <3> QED BY <1>1, <3>1, <3>2 DEF Sound
  <2> QED BY <1>1, <2>1, <2>5, <2>6, <2>7 DEF Life!GiveBack, stage, kind, tries, h
<1> QED BY <1>2, <1>3

\* Every step of every process is a step of the life cycle or a stutter.
LEMMA StepImplements ==
  ASSUME Inv, [Next]_vars
  PROVE  [Life!Next]_(Life!lifeVars)
<1>1. Sound(rows)
  BY SoundRows
<1>2. CASE UNCHANGED <<held, acknowledged>> /\ Evolves(rows, rows', now)
  BY <1>1, <1>2, EvolutionRevises DEF Life!Next
<1>3. CASE PollClaim
  BY <1>3, ClaimImplements DEF Life!Next
<1>4. CASE PollRelease
  BY <1>4, ReleaseImplements DEF Life!Next
<1>5. CASE PollSend
  <2>1. /\ held # None /\ held.id # None /\ held.id \notin acknowledged
        /\ rows' = rows
    BY <1>5, ConstantsOK, NoneIsNoId DEF PollSend, Inv, HeldInv, HoldingPcs, Entry, storeVars
  <2>2. CASE acknowledged' = acknowledged \cup {held.id} /\ held' = None
    BY <2>1, <2>2 DEF Life!Next, Life!Deliver, StageOf
  <2>3. CASE UNCHANGED <<held, acknowledged>>
    BY <2>1, <2>3 DEF Life!lifeVars, StageOf
  <2> QED BY <1>5, <2>2, <2>3 DEF PollSend
<1>6. CASE UNCHANGED <<rows, acknowledged>> /\ (held' = None \/ held' = held)
  <2>1. CASE held' = held
    BY <1>6, <2>1 DEF Life!lifeVars, StageOf
  <2>2. CASE held' = None /\ held # None
    <3>1. held.id # None
      BY <2>2, NoneIsNoId DEF Inv, TypeOK, PollTypeOK, Entry
    <3> QED BY <1>6, <2>2, <3>1 DEF Life!Next, Life!Forget, StageOf
  <2> QED BY <1>6, <2>1, <2>2
<1>7. CASE MorningStep \/ CliStep
  BY <1>2, <1>7, MorningKeeps, CliKeeps DEF pollVars, history
<1>8. CASE Tick \/ Move \/ Crash \/ UNCHANGED vars
  BY <1>6, <1>8 DEF Tick, Move, Crash, vars, storeVars, pollVars, history
<1>9. CASE PollStart \/ PollScan \/ PollMuteCheck \/ PollReplanRead \/ PollPlan \/ PollEnd
  BY <1>6, <1>9 DEF PollStart, PollScan, PollMuteCheck, MuteCheck, PollReplanRead, PollPlan,
                    PollEnd, storeVars, history
<1>10. CASE PollObserve \/ PollCommit
  <2>1. UNCHANGED <<held, acknowledged>> /\ ~PollRelease
    BY <1>10 DEF PollObserve, PollCommit, PollRelease, history
  <2> QED BY <1>2, <2>1, StepCases
<1> QED BY <1>3, <1>4, <1>5, <1>7, <1>8, <1>9, <1>10 DEF Next, PollStep

\* The jobs and the commands implement the life cycle of a reminder.
THEOREM LifeCycleImplemented == Spec => LifeCycle
<1>1. Init => Life!Init
  BY InitImplements
<1>2. Inv /\ [Next]_vars => [Life!Next]_(Life!lifeVars)
  BY StepImplements
<1> QED BY <1>1, <1>2, InvHolds, PTL DEF Spec, Life!Spec, LifeCycle
=============================================================================
