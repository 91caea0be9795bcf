------------------------- MODULE WakePublicationProofs -------------------------
(***************************************************************************)
(* The publication keeps its promises, for every number of publishers,     *)
(* every configuration, calendar and intent, however calls are lost, late  *)
(* or executed twice and wherever a process dies.                          *)
(***************************************************************************)
EXTENDS WakePublication, WakeChoiceProofs

Counts == 0..MaxCount

Busy == {"call", "readback", "record", "bind"}

\* A snapshot is by its own deadline.
Timely(s) == s.deadline # None => s.wake <= s.deadline

NotOverslept(q) ==
  Live(q.manual, q.at) =>
    \/ q.result.wake <= q.manual.deadline
    \/ /\ q.result.source = "retained"
       /\ DayStart(q.manual.deadline) > DayStart(q.at) + Day

\* A publisher's result, given what was computed so far.
Published(q, comp) ==
  /\ Sound(Counts, q.result) /\ Carries(q.result, q.manual) /\ NotOverslept(q)
  /\ q.manual # None => <<q.manual.version, q.result.wake>> \in comp

SnapshotOf(q) == Snapshot(q.id, q.result)

\* A publisher, given what was computed, what was on show and the contract.
PublisherOK(q, comp, comm, con) ==
  /\ q \in Pubs
  /\ q.pc \in Busy => Published(q, comp)
  /\ q.pc \notin Busy => q.result = None
  /\ q.pc = "bind" => q.result.manualDeadline # None
  /\ q.pc = "readback" => con = "v1"
  /\ con = "v1" /\ q.pc \in {"call", "readback"} => Contract!Parses(SnapshotOf(q))
  /\ q.pc = "record" => SnapshotOf(q) \in comm

\* What binds the intent's row to a wake was computed from that very intent.
BindingComputed ==
  row.deadline # None /\ row.version = row.boundVersion =>
    <<row.version, row.wake>> \in computed

Inv ==
  /\ TypeOK
  /\ \A p \in Publishers : PublisherOK(pubs[p], computed, committed, contract)
  /\ last # None => Sound(Counts, last)
  /\ \A s \in calls \cup committed : Timely(s)
  /\ ConfirmedIsCommitted /\ BindingComputed

-----------------------------------------------------------------------------
\* Facts that actions share.

LEMMA Constants ==
  /\ None \notin Int /\ MaxCount \in Nat /\ Attempts \in Nat /\ MaxTime \in Nat
  /\ Counts \in SUBSET Nat /\ Config \in Configs /\ None \notin Nat
  /\ Day \in Nat /\ Day > 0
BY ChoiceConstants, PublicationConstants DEF Counts

\* History only grows, which is all the same to a publisher.
LEMMA Grown ==
  ASSUME NEW q, NEW A, NEW B, NEW C, NEW D, NEW con,
         PublisherOK(q, A, B, con), A \subseteq C, B \subseteq D
  PROVE  PublisherOK(q, C, D, con)
BY DEF PublisherOK, Published

\* One publisher steps and the others stay as they are.
LEMMA Stepped ==
  ASSUME NEW f \in [Publishers -> Pubs], NEW p \in Publishers, NEW q,
         NEW A, NEW B, NEW C, NEW D, NEW con,
         \A o \in Publishers : PublisherOK(f[o], A, B, con),
         A \subseteq C, B \subseteq D, PublisherOK(q, C, D, con)
  PROVE  /\ [f EXCEPT ![p] = q] \in [Publishers -> Pubs]
         /\ \A o \in Publishers : PublisherOK([f EXCEPT ![p] = q][o], C, D, con)
<1>1. q \in Pubs
  BY DEF PublisherOK
<1>2. ASSUME NEW o \in Publishers PROVE PublisherOK([f EXCEPT ![p] = q][o], C, D, con)
  <2>1. CASE o = p
    <3>1. [f EXCEPT ![p] = q][o] = q
      BY <2>1
    <3> QED BY <3>1
  <2>2. CASE o # p
    <3>1. [f EXCEPT ![p] = q][o] = f[o]
      BY <2>2
    <3>2. PublisherOK(f[o], C, D, con)
      BY Grown
    <3> QED BY <3>1, <3>2
  <2> QED BY <2>1, <2>2
<1> QED BY <1>1, <1>2

\* A publisher at rest has nothing to answer for.
LEMMA IdleOK ==
  ASSUME NEW A, NEW B, NEW con
  PROVE  PublisherOK(Idle, A, B, con)
<1>1. Idle \in Pubs
  BY Constants DEF Idle, Pubs, States, Optional
<1> QED BY <1>1 DEF Idle, PublisherOK, Busy

\* Nor has one that has only moved on, other than to record.
LEMMA MovedOn ==
  ASSUME NEW q, NEW A, NEW B, NEW con, PublisherOK(q, A, B, con),
         NEW pc \in States \ {"call", "readback", "record"},
         pc = "bind" <=> q.pc \in Busy, pc = "bind" => q.result.manualDeadline # None
  PROVE  PublisherOK([q EXCEPT !.pc = pc], A, B, con)
<1> DEFINE m == [q EXCEPT !.pc = pc]
<1>1. /\ m.pc = pc /\ m.at = q.at /\ m.manual = q.manual /\ m.result = q.result
      /\ m.id = q.id /\ m \in Pubs
  BY DEF PublisherOK, Pubs
<1> HIDE DEF m
<1>2. Published(q, A) => Published(m, A)
  BY <1>1 DEF Published, NotOverslept
<1> QED BY <1>1, <1>2 DEF PublisherOK, Busy, m

\* What a publisher hands over is a snapshot.
LEMMA SnapshotType ==
  ASSUME NEW q, NEW A, NEW B, NEW con, PublisherOK(q, A, B, con), q.pc \in Busy
  PROVE  /\ SnapshotOf(q) \in Snapshots /\ Timely(SnapshotOf(q))
         /\ SnapshotOf(q).wake = q.result.wake /\ SnapshotOf(q).id = q.id
         /\ SnapshotOf(q).snoozes = q.result.snoozes
<1>1. /\ Sound(Counts, q.result) /\ q.id \in Nat
      /\ q.result \in Results(Counts)
  BY DEF PublisherOK, Published, Pubs, Sound
<1> QED BY <1>1 DEF SnapshotOf, Snapshot, Snapshots, Timely, Sound, Results, Optional, Counts

\* The action Goto on one publisher, and Finish.
LEMMA Going ==
  ASSUME NEW f \in [Publishers -> Pubs], NEW p \in Publishers, NEW pc
  PROVE  [f EXCEPT ![p].pc = pc] = [f EXCEPT ![p] = [f[p] EXCEPT !.pc = pc]]
OBVIOUS

\* A clear row or a changed one is a row.
LEMMA RowSteps ==
  ASSUME NEW r \in Rows
  PROVE  /\ Cleared(r) \in Rows /\ Cleared(r).deadline = None
         /\ Cleared(Cleared(r)) = Cleared(r)
         /\ \A i \in Intents : SavedManual(r, i) \in Rows
         /\ \A at \in Int : AfterLoad(r, at) \in Rows
         /\ \A w \in Int, d \in Optional(Int) : \A m :
              /\ Bound(r, w, d, m) \in Rows
              /\ Bound(r, w, d, m).deadline = r.deadline
<1>1. Cleared(r) \in Rows /\ Cleared(r).deadline = None /\ Cleared(Cleared(r)) = Cleared(r)
  BY DEF Rows, Cleared, Optional
<1>2. ASSUME NEW i \in Intents PROVE SavedManual(r, i) \in Rows
  <2>1. i \in [deadline : Int, force : BOOLEAN, snoozes : Optional(0..MaxCount)]
    BY PublicationConstants
  <2> QED BY <2>1 DEF SavedManual, Rows, Optional
<1>3. ASSUME NEW at \in Int PROVE AfterLoad(r, at) \in Rows
  BY <1>1 DEF AfterLoad
<1>4. ASSUME NEW w \in Int, NEW d \in Optional(Int), NEW m
      PROVE  Bound(r, w, d, m) \in Rows /\ Bound(r, w, d, m).deadline = r.deadline
  BY DEF Bound, Rows, Optional
<1> QED BY <1>1, <1>2, <1>3, <1>4

\* The script leaves a helper that is on record, and forgets nothing.
LEMMA Executing ==
  ASSUME Inv, NEW s \in Snapshots, Timely(s), Execute(s)
  PROVE  /\ committed \subseteq committed' /\ committed' \subseteq Snapshots
         /\ helper' \in {Empty, Garbage} \cup committed'
         /\ \A x \in committed' : Timely(x)
         /\ helper' = s => s \in committed'
<1>1. Executed(s) = s \/ Executed(s) = helper
  BY DEF Executed
<1>2. /\ committed \subseteq Snapshots /\ helper \in {Empty, Garbage} \cup committed
      /\ \A x \in committed : Timely(x)
  BY DEF Inv, TypeOK
<1> QED BY <1>1, <1>2 DEF Execute

\* What was confirmed stays so.
LEMMA ConfirmedKept ==
  ASSUME Inv, committed \subseteq committed', UNCHANGED <<last, recorded>>
  PROVE  ConfirmedIsCommitted'
BY DEF Inv, ConfirmedIsCommitted

-----------------------------------------------------------------------------
\* The invariant holds at first, when no one has published.
THEOREM InitInv == Init => Inv
<1> SUFFICES ASSUME Init PROVE Inv
  OBVIOUS
<1>1. NoRow \in Rows /\ NoRow = Cleared(NoRow) /\ NoRow.deadline = None
  <2>1. NoRow \in Rows
    BY DEF NoRow, Rows, Optional
  <2>2. ASSUME NEW r \in Rows, r.deadline = None, r.force = FALSE, r.snoozes = None,
               r.wake = None, r.bound = None, r.boundVersion = None
        PROVE  r = Cleared(r)
    BY <2>2 DEF Rows, Cleared
  <2>3. NoRow = Cleared(NoRow)
    <3>1. /\ NoRow.deadline = None /\ NoRow.force = FALSE /\ NoRow.snoozes = None
          /\ NoRow.wake = None /\ NoRow.bound = None /\ NoRow.boundVersion = None
      BY DEF NoRow
    <3> QED BY <2>1, <2>2, <3>1
  <2> QED BY <2>1, <2>3 DEF NoRow
<1>2. \A p \in Publishers : PublisherOK(pubs[p], computed, committed, contract)
  BY IdleOK DEF Init
<1>3. pubs \in [Publishers -> Pubs]
  BY IdleOK DEF Init, PublisherOK
<1>4. TypeOK
  BY <1>1, <1>3, Constants DEF Init, TypeOK, Optional
<1> QED BY <1>1, <1>2, <1>4 DEF Init, Inv, ConfirmedIsCommitted, BindingComputed

-----------------------------------------------------------------------------
\* Steps.  One publisher moves on and leaves the others as they are.
LEMMA OthersStay ==
  ASSUME Inv, NEW p \in Publishers, NEW q, pubs' = [pubs EXCEPT ![p] = q],
         computed \subseteq computed', committed \subseteq committed', contract' = contract,
         PublisherOK(q, computed', committed', contract)
  PROVE  /\ pubs' \in [Publishers -> Pubs]
         /\ \A o \in Publishers : PublisherOK(pubs[o], computed, committed, contract)'
<1>1. /\ pubs \in [Publishers -> Pubs]
      /\ \A o \in Publishers : PublisherOK(pubs[o], computed, committed, contract)
  BY DEF Inv, TypeOK
<1>2. /\ [pubs EXCEPT ![p] = q] \in [Publishers -> Pubs]
      /\ \A o \in Publishers :
           PublisherOK([pubs EXCEPT ![p] = q][o], computed', committed', contract)
  BY <1>1, Stepped
<1>3. \A o \in Publishers : PublisherOK(pubs'[o], computed', committed', contract')
  BY <1>2
<1> QED BY <1>2, <1>3

\* It ends, or goes to a step before the call or to the binding.
LEMMA Moves ==
  ASSUME Inv, NEW p \in Publishers,
         \/ Finish(p)
         \/ \E pc \in States \ {"call", "readback", "record"} :
              /\ Goto(p, pc) /\ (pc = "bind" <=> pubs[p].pc \in Busy)
              /\ pc = "bind" => pubs[p].result.manualDeadline # None,
         UNCHANGED <<computed, contract>>, committed \subseteq committed'
  PROVE  /\ pubs' \in [Publishers -> Pubs]
         /\ \A o \in Publishers : PublisherOK(pubs[o], computed, committed, contract)'
<1>1. /\ pubs \in [Publishers -> Pubs]
      /\ PublisherOK(pubs[p], computed', committed', contract)
  <2>1. PublisherOK(pubs[p], computed, committed, contract) /\ computed \subseteq computed'
    BY DEF Inv
  <2> QED BY <2>1, Grown DEF Inv, TypeOK
<1>2. CASE Finish(p)
  <2>1. PublisherOK(Idle, computed', committed', contract)
    BY IdleOK
  <2> QED BY <1>2, <2>1, OthersStay DEF Finish
<1>3. ASSUME NEW pc \in States \ {"call", "readback", "record"},
             Goto(p, pc), pc = "bind" <=> pubs[p].pc \in Busy,
             pc = "bind" => pubs[p].result.manualDeadline # None
      PROVE  /\ pubs' \in [Publishers -> Pubs]
             /\ \A o \in Publishers : PublisherOK(pubs[o], computed, committed, contract)'
  <2>1. PublisherOK([pubs[p] EXCEPT !.pc = pc], computed', committed', contract)
    BY <1>1, <1>3, MovedOn
  <2>2. pubs' = [pubs EXCEPT ![p] = [pubs[p] EXCEPT !.pc = pc]]
    BY <1>1, <1>3, Going DEF Goto
  <2> QED BY <2>1, <2>2, OthersStay
<1> QED BY <1>2, <1>3

\* The commands change the intent's row and nothing that was published.
LEMMA CommandInv ==
  ASSUME Inv, NEW p \in Publishers, Command(p)
  PROVE  Inv'
<1>1. /\ UNCHANGED <<now, last, helper, calls, contract, issues, history>>
      /\ events' = events \/ events' = events + 1
  BY DEF Command, SaveIntent, ClearIntent, AskSkip, EndSkip, Occurs
<1>2. /\ pubs' \in [Publishers -> Pubs]
      /\ \A o \in Publishers : PublisherOK(pubs[o], computed, committed, contract)'
  <2>1. /\ UNCHANGED <<computed, contract>> /\ committed \subseteq committed'
        /\ \/ Finish(p)
           \/ (Goto(p, "begin") \/ Goto(p, "skipping")) /\ pubs[p].pc = "idle"
    BY <1>1 DEF history, Command, SaveIntent, ClearIntent, AskSkip, EndSkip, At
  <2>2. {"begin", "skipping"} \subseteq States \ {"call", "readback", "record"}
    BY DEF States
  <2> QED BY <2>1, <2>2, Moves DEF Busy
<1>3. row \in Rows /\ (row.deadline = None => row = Cleared(row)) /\ BindingComputed
  BY DEF Inv, TypeOK
<1>4. /\ row' \in Rows /\ (row'.deadline = None => row' = Cleared(row'))
      /\ BindingComputed'
  <2>1. CASE row' = row
    BY <1>1, <1>3, <2>1 DEF BindingComputed, history
  <2>2. CASE row' = Cleared(row)
    BY <1>3, <2>2, RowSteps DEF BindingComputed
  <2>3. ASSUME NEW i \in Intents, row' = SavedManual(row, i)
        PROVE  /\ row' \in Rows /\ (row'.deadline = None => row' = Cleared(row'))
               /\ BindingComputed'
    <3>1. i.deadline \in Int /\ row.version \in Nat
      BY <1>3, PublicationConstants DEF Rows
    <3>2. /\ row'.deadline = i.deadline /\ row'.version = row.version + 1
          /\ row'.boundVersion = None
      BY <2>3 DEF SavedManual
    <3> QED BY <1>3, <2>3, <3>1, <3>2, RowSteps, Constants DEF BindingComputed
  <2> QED BY <2>1, <2>2, <2>3 DEF Command, SaveIntent, ClearIntent, AskSkip, EndSkip
<1>5. TypeOK'
  <2>1. TypeOK
    BY DEF Inv
  <2>2. events' \in Nat
    BY <1>1, <2>1 DEF TypeOK
  <2> QED BY <1>1, <1>2, <1>4, <2>1, <2>2 DEF TypeOK, history
<1> QED BY <1>1, <1>2, <1>4, <1>5, ConfirmedKept DEF Inv, history

\* The clock is read, the row is loaded (or is not).
LEMMA StartInv ==
  ASSUME Inv, NEW p \in Publishers, Begin(p) \/ Load(p) \/ LoadFails(p)
  PROVE  Inv'
<1>1. /\ TypeOK /\ pubs[p] \in Pubs /\ row \in Rows /\ BindingComputed
      /\ row.deadline = None => row = Cleared(row)
      /\ PublisherOK(pubs[p], computed, committed, contract)
  BY DEF Inv, TypeOK
<1>2. UNCHANGED <<now, last, helper, calls, contract, history>>
  BY DEF Begin, Load, LoadFails
<1>3. CASE Begin(p)
  <2> DEFINE q == [Idle EXCEPT !.pc = "load", !.at = now, !.id = issues + 1]
  <2>1. q \in Pubs /\ q.pc = "load" /\ q.result = None
    <3>1. Idle \in Pubs /\ Idle.result = None
      BY IdleOK DEF PublisherOK, Idle
    <3>2. now \in 0..MaxTime /\ issues + 1 \in Nat /\ "load" \in States
      BY <1>1 DEF TypeOK, States
    <3> QED BY <3>1, <3>2 DEF Pubs
  <2>2. PublisherOK(q, computed', committed', contract)
    <3> HIDE DEF q
    <3> QED BY <2>1 DEF PublisherOK, Busy
  <2>3. /\ pubs' \in [Publishers -> Pubs]
        /\ \A o \in Publishers : PublisherOK(pubs[o], computed, committed, contract)'
    BY <1>2, <1>3, <2>2, OthersStay DEF Begin, history
  <2> QED BY <1>1, <1>2, <1>3, <2>3, ConfirmedKept
          DEF Begin, Inv, TypeOK, history, BindingComputed
<1>4. CASE Load(p)
  <2> DEFINE q == [pubs[p] EXCEPT !.pc = "compute", !.manual = Loaded(row')]
  <2>1. pubs[p].at \in Int /\ pubs[p].result = None
    BY <1>1, <1>4 DEF Pubs, Load, At, PublisherOK, Busy
  <2>2. /\ row' = row \/ row' = Cleared(row)
        /\ row' \in Rows /\ (row'.deadline = None => row' = Cleared(row'))
        /\ BindingComputed'
    <3>1. row' = row \/ row' = Cleared(row)
      BY <1>4 DEF Load, AfterLoad
    <3>2. CASE row' = row
      BY <1>1, <1>2, <3>2 DEF BindingComputed, history
    <3>3. CASE row' = Cleared(row)
      BY <1>1, <3>3, RowSteps DEF BindingComputed
    <3> QED BY <3>1, <3>2, <3>3
  <2>3. Loaded(row') \in Optional(Intended(Counts))
    BY <2>2 DEF Loaded, Rows, Intended, Optional, Counts
  <2>4. q \in Pubs /\ q.pc = "compute" /\ q.result = None
    BY <1>1, <2>1, <2>3 DEF Pubs, States, Counts
  <2>5. PublisherOK(q, computed', committed', contract)
    <3> HIDE DEF q
    <3> QED BY <2>4 DEF PublisherOK, Busy
  <2>6. pubs' = [pubs EXCEPT ![p] = q]
    BY <1>1, <1>4 DEF Load, TypeOK
  <2>7. /\ pubs' \in [Publishers -> Pubs]
        /\ \A o \in Publishers : PublisherOK(pubs[o], computed, committed, contract)'
    <3> HIDE DEF q
    <3> QED BY <1>2, <2>5, <2>6, OthersStay DEF history
  <2> QED BY <1>1, <1>2, <1>4, <2>2, <2>7, ConfirmedKept DEF Load, Inv, TypeOK, history
<1>5. CASE LoadFails(p)
  <2>1. /\ pubs' \in [Publishers -> Pubs]
        /\ \A o \in Publishers : PublisherOK(pubs[o], computed, committed, contract)'
    <3>1. "blind" \in States \ {"call", "readback", "record"} /\ pubs[p].pc \notin Busy
      BY <1>5 DEF States, Busy, LoadFails, At
    <3> QED BY <1>2, <1>5, <3>1, Moves DEF LoadFails, history
  <2> QED BY <1>1, <1>2, <1>5, <2>1, ConfirmedKept
          DEF LoadFails, Occurs, Inv, TypeOK, history, BindingComputed
<1> QED BY <1>3, <1>4, <1>5

\* What the helper holds in the place of a fallback chosen in distress.
LEMMA FromLiveSound ==
  ASSUME Inv, NEW manual \in Optional(Intended(Counts)), NEW at \in Int, LiveWake(manual, at)
  PROVE  LET r == FromLive(manual)
         IN  Sound(Counts, r) /\ Carries(r, manual) /\ r.source = "retained"
<1> DEFINE r == FromLive(manual)
<1> DEFINE m == IF helper.deadline # None THEN helper.deadline ELSE helper.wake
<1> SUFFICES Sound(Counts, r) /\ Carries(r, manual) /\ r.source = "retained"
  OBVIOUS
<1>1. helper \in Snapshots /\ Timely(helper)
  BY DEF LiveWake, Inv, TypeOK
<1>2. /\ helper.wake \in Int /\ helper.deadline \in Optional(Int)
      /\ helper.snoozes \in Optional(Counts) /\ helper.cap \in Optional(Int)
      /\ m \in Int /\ helper.wake <= m /\ Day \in Nat
      /\ helper.deadline # None => m = helper.deadline
  BY <1>1, Constants DEF Snapshots, Timely, Optional, Counts
<1>3. helper.snoozes # None =>
        /\ manual # None /\ manual.snoozes = helper.snoozes /\ manual.deadline \in Int
  BY DEF LiveWake, Intended, Optional
<1> HIDE DEF m
<1>4. DayStart(m) \in Int /\ IsDay(DayStart(m)) /\ m < DayStart(m) + Day
  BY <1>2, DayOfInstant, StartIsDay
<1>5. /\ r.wake = helper.wake /\ r.day = DayStart(m) /\ r.source = "retained"
      /\ r.deadline \in {None, helper.deadline} /\ r.snoozes = helper.snoozes
      /\ r.manualDeadline = IF helper.snoozes # None THEN manual.deadline ELSE None
  BY DEF FromLive, m
<1>6. r \in Results(Counts)
  BY <1>2, <1>3, <1>4 DEF FromLive, m, Results, Optional
<1> HIDE DEF r
<1> QED BY <1>1, <1>2, <1>3, <1>4, <1>5, <1>6 DEF Sound, Carries, Timely

\* The result that a computation and a look at Home Assistant end in.
LEMMA ComputedResult ==
  ASSUME Inv, NEW p \in Publishers, NEW cal,
         \A d \in Days3(pubs[p].at) : Readable(cal, d), NEW reached \in BOOLEAN
  PROVE  LET q == pubs[p]
             r == RetainLive(ComputeWake(Config, cal, last, q.manual, q.at),
                             q.manual, q.at, reached)
         IN  /\ Sound(Counts, r) /\ Carries(r, q.manual)
             /\ NotOverslept([q EXCEPT !.result = r])
<1> DEFINE q == pubs[p]
<1> DEFINE w == ComputeWake(Config, cal, last, q.manual, q.at)
<1> DEFINE r == RetainLive(w, q.manual, q.at, reached)
<1> DEFINE Goal == /\ Sound(Counts, r) /\ Carries(r, q.manual)
                   /\ NotOverslept([q EXCEPT !.result = r])
<1> SUFFICES Goal
  OBVIOUS
<1>1. /\ q \in Pubs /\ q.at \in Int /\ q.manual \in Optional(Intended(Counts))
      /\ last # None => Sound(Counts, last)
  BY Constants DEF Inv, TypeOK, Pubs, Counts
<1>2. /\ Sound(Counts, w) /\ Carries(w, q.manual)
      /\ Live(q.manual, q.at) => w.wake <= q.manual.deadline
      /\ Live(q.manual, q.at) /\ w.source = "fallback" /\ w.warning # "none" =>
           DayStart(q.manual.deadline) > DayStart(q.at) + Day
  <2>1. q.manual = None \/ q.manual \in Intended(Counts)
    BY <1>1 DEF Optional
  <2>2. \A d \in Days3(q.at) : Readable(cal, d)
    OBVIOUS
  <2> HIDE DEF q
  <2> QED BY <1>1, <2>1, <2>2, Constants, WakeIsSound
<1> HIDE DEF w
<1>3. NotOverslept([q EXCEPT !.result = r]) <=>
        (Live(q.manual, q.at) =>
           \/ r.wake <= q.manual.deadline
           \/ /\ r.source = "retained"
              /\ DayStart(q.manual.deadline) > DayStart(q.at) + Day)
  <2> DEFINE m == [q EXCEPT !.result = r]
  <2>1. m.manual = q.manual /\ m.at = q.at /\ m.result = r
    <3> HIDE DEF r, q
    <3> QED BY <1>1 DEF Pubs
  <2> HIDE DEF m
  <2> QED BY <2>1 DEF NotOverslept
<1>4. CASE w.warning # "none" /\ w.source = "fallback" /\ LiveWake(q.manual, q.at)
           /\ r = FromLive(q.manual)
  <2>1. Sound(Counts, r) /\ Carries(r, q.manual) /\ r.source = "retained"
    <3> HIDE DEF q, r
    <3> QED BY <1>1, <1>4, FromLiveSound
  <2> HIDE DEF r
  <2> QED BY <1>2, <1>3, <1>4, <2>1
<1>5. CASE r = w
  <2> HIDE DEF r
  <2> QED BY <1>2, <1>3, <1>5
<1> QED BY <1>4, <1>5 DEF RetainLive

\* compute_wake, and the snapshot that the contract accepts or refuses.
LEMMA ComputeInv ==
  ASSUME Inv, NEW p \in Publishers, Compute(p)
  PROVE  Inv'
<1>1. /\ TypeOK /\ pubs[p] \in Pubs /\ pubs[p].at \in 0..MaxTime /\ pubs[p].at \in Int
      /\ pubs[p].manual \in Optional(Intended(Counts)) /\ BindingComputed
      /\ PublisherOK(pubs[p], computed, committed, contract)
  BY Constants DEF Inv, TypeOK, Pubs, Counts
<1>2. UNCHANGED <<now, row, last, helper, calls, contract, issues, events, committed, recorded>>
  BY DEF Compute
<1>3. PICK cal \in Calendars \cup {NothingPlanned} : Choose(p, cal)
  BY DEF Compute
<1>4. \A d \in Days3(pubs[p].at) : Readable(cal, d)
  <2>1. CASE cal \in Calendars
    BY <1>1, <2>1, PublicationConstants
  <2>2. CASE cal = NothingPlanned
    <3>1. \A d \in Days3(pubs[p].at) : NothingPlanned[d] = Failed
      BY <1>1 DEF NothingPlanned
    <3> QED BY <2>2, <3>1 DEF Readable
  <2> QED BY <2>1, <2>2
<1> DEFINE q == pubs[p]
<1>5. PICK r : /\ Take(p, r)
               /\ Sound(Counts, r) /\ Carries(r, q.manual)
               /\ NotOverslept([q EXCEPT !.result = r])
  <2> DEFINE R(reached) == RetainLive(ComputeWake(Config, cal, last, q.manual, q.at),
                                      q.manual, q.at, reached)
  <2>1. PICK reached \in BOOLEAN : Take(p, R(reached))
    BY <1>3 DEF Choose
  <2>2. /\ Sound(Counts, R(reached)) /\ Carries(R(reached), q.manual)
        /\ NotOverslept([q EXCEPT !.result = R(reached)])
    BY <1>4, ComputedResult
  <2> HIDE DEF R, q
  <2> QED BY <2>1, <2>2
<1> DEFINE m == [q EXCEPT !.pc = "call", !.result = r, !.tries = Attempts]
<1>6. computed \subseteq computed' /\ computed' \subseteq Nat \X Int
  <2>1. r.wake \in Int
    BY <1>5 DEF Sound, Results
  <2>2. q.manual # None => q.manual.version \in Nat
    BY <1>1 DEF Optional, Intended
  <2> QED BY <1>1, <1>5, <2>1, <2>2 DEF Take, TypeOK
<1>7. /\ m \in Pubs /\ m.pc = "call" /\ m.result = r /\ m.manual = q.manual /\ m.at = q.at
      /\ m.id = q.id
  <2>1. r \in Results(0..MaxCount) /\ Attempts \in Nat /\ "call" \in States
    BY <1>5, Constants DEF Sound, Counts, States
  <2> HIDE DEF q
  <2> QED BY <1>1, <2>1 DEF Pubs, Optional, q
<1>8. Published(m, computed')
  <2>1. NotOverslept(m)
    <3> DEFINE n == [q EXCEPT !.result = r]
    <3>1. n.manual = q.manual /\ n.at = q.at /\ n.result = r /\ NotOverslept(n)
      <4> HIDE DEF q
      <4> QED BY <1>1, <1>5 DEF Pubs, q
    <3> HIDE DEF m, n
    <3> QED BY <1>7, <3>1 DEF NotOverslept
  <2>2. q.manual # None => <<q.manual.version, r.wake>> \in computed'
    BY <1>5 DEF Take
  <2> HIDE DEF m, q
  <2> QED BY <1>5, <1>7, <2>1, <2>2 DEF Published
<1>9. \/ pubs' = [pubs EXCEPT ![p] = Idle]
      \/ /\ pubs' = [pubs EXCEPT ![p] = m]
         /\ contract = "v1" => Contract!Parses(Snapshot(q.id, r))
  <2>1. [pubs EXCEPT ![p].pc = "call", ![p].result = r, ![p].tries = Attempts]
          = [pubs EXCEPT ![p] = m]
    BY <1>1 DEF TypeOK
  <2> HIDE DEF m
  <2> QED BY <1>5, <2>1 DEF Take
<1>10. /\ pubs' \in [Publishers -> Pubs]
       /\ \A o \in Publishers : PublisherOK(pubs[o], computed, committed, contract)'
  <2>1. CASE pubs' = [pubs EXCEPT ![p] = Idle]
    <3>1. PublisherOK(Idle, computed', committed', contract)
      BY IdleOK
    <3> QED BY <1>2, <1>6, <2>1, <3>1, OthersStay
  <2>2. CASE /\ pubs' = [pubs EXCEPT ![p] = m]
             /\ contract = "v1" => Contract!Parses(Snapshot(q.id, r))
    <3> HIDE DEF m, q
    <3>1. PublisherOK(m, computed', committed', contract)
      BY <1>7, <1>8, <2>2 DEF PublisherOK, Busy, SnapshotOf
    <3> QED BY <1>2, <1>6, <2>2, <3>1, OthersStay
  <2> QED BY <1>9, <2>1, <2>2
<1> QED BY <1>1, <1>2, <1>6, <1>10, ConfirmedKept DEF Inv, TypeOK, BindingComputed

\* The calls to Home Assistant, answered or not, and the read that confirms.
LEMMA CallInv ==
  ASSUME Inv, NEW p \in Publishers,
         CallExecuted(p) \/ AnswerLost(p) \/ CallTimesOut(p)
  PROVE  Inv'
<1> DEFINE q == pubs[p]
<1> DEFINE s == MySnapshot(p)
<1>1. /\ TypeOK /\ q \in Pubs /\ q.pc = "call" /\ pubs \in [Publishers -> Pubs]
      /\ PublisherOK(q, computed, committed, contract) /\ BindingComputed
      /\ \A x \in calls \cup committed : Timely(x)
  BY DEF Inv, TypeOK, CallExecuted, AnswerLost, CallTimesOut, At
<1>2. UNCHANGED <<now, row, last, contract, issues, computed, recorded>>
  BY DEF CallExecuted, AnswerLost, CallTimesOut, history
<1>3. s \in Snapshots /\ Timely(s) /\ s = SnapshotOf(q)
  <2>1. SnapshotOf(q) \in Snapshots /\ Timely(SnapshotOf(q))
    <3> HIDE DEF q
    <3> QED BY <1>1, SnapshotType DEF Busy
  <2> QED BY <2>1 DEF MySnapshot, SnapshotOf
<1>4. /\ committed \subseteq committed' /\ committed' \subseteq Snapshots
      /\ helper' \in {Empty, Garbage} \cup committed'
      /\ \A x \in calls' \cup committed' : Timely(x)
      /\ calls' \subseteq Snapshots /\ events' \in Nat
  <2> HIDE DEF s
  <2>1. CASE Execute(s) /\ calls' = calls /\ (events' = events \/ events' = events + 1)
    BY <1>1, <1>3, <2>1, Executing DEF TypeOK
  <2>2. CASE /\ calls' = calls \cup {s} /\ UNCHANGED <<helper, committed>>
             /\ events' = events + 1
    BY <1>1, <1>3, <2>2 DEF TypeOK
  <2> QED BY <2>1, <2>2 DEF CallExecuted, AnswerLost, CallTimesOut, Occurs, history, s
<1> DEFINE m(pc) == [q EXCEPT !.pc = pc]
<1>5. \/ Finish(p)
      \/ contract = "v1" /\ pubs' = [pubs EXCEPT ![p] = m("readback")]
      \/ contract # "v1" /\ Execute(s) /\ pubs' = [pubs EXCEPT ![p] = m("record")]
  BY <1>1, Going DEF CallExecuted, AnswerLost, CallTimesOut, Goto
<1>6. ASSUME NEW pc \in {"readback", "record"}
      PROVE  /\ m(pc) \in Pubs /\ m(pc).pc = pc /\ Published(m(pc), computed')
             /\ SnapshotOf(m(pc)) = s
  <2> DEFINE n == m(pc)
  <2>1. /\ n \in Pubs /\ n.pc = pc /\ n.result = q.result /\ n.manual = q.manual
        /\ n.at = q.at /\ n.id = q.id
    <3>1. pc \in States
      BY DEF States
    <3> HIDE DEF q
    <3> QED BY <1>1, <3>1 DEF Pubs
  <2> HIDE DEF n, q
  <2>2. Published(q, computed')
    BY <1>1, <1>2 DEF PublisherOK, Busy
  <2>3. Published(n, computed')
    BY <2>1, <2>2 DEF Published, NotOverslept
  <2> QED BY <1>3, <2>1, <2>3 DEF SnapshotOf, n
<1>7. /\ pubs' \in [Publishers -> Pubs]
      /\ \A o \in Publishers : PublisherOK(pubs[o], computed, committed, contract)'
  <2>1. CASE Finish(p)
    BY <1>2, <1>4, <2>1, Moves
  <2>2. CASE contract = "v1" /\ pubs' = [pubs EXCEPT ![p] = m("readback")]
    <3>1. Contract!Parses(s)
      BY <1>1, <1>3, <2>2 DEF PublisherOK
    <3> HIDE DEF m, s
    <3>2. PublisherOK(m("readback"), computed', committed', contract)
      BY <1>6, <2>2, <3>1 DEF PublisherOK, Busy
    <3> QED BY <1>2, <1>4, <2>2, <3>2, OthersStay
  <2>3. CASE contract # "v1" /\ Execute(s) /\ pubs' = [pubs EXCEPT ![p] = m("record")]
    <3>1. contract = "legacy"
      BY <1>1, <2>3, PublicationConstants DEF TypeOK
    <3>2. s \in committed'
      BY <2>3, <3>1 DEF Execute, Executed
    <3> HIDE DEF m, s
    <3>3. PublisherOK(m("record"), computed', committed', contract)
      BY <1>6, <2>3, <3>2 DEF PublisherOK, Busy
    <3> QED BY <1>2, <1>4, <2>3, <3>3, OthersStay
  <2> HIDE DEF s, m
  <2> QED BY <1>5, <2>1, <2>2, <2>3
<1> QED BY <1>1, <1>2, <1>4, <1>7, ConfirmedKept DEF Inv, TypeOK, BindingComputed

\* The exact snapshot read back is one that was on show.
LEMMA ReadInv ==
  ASSUME Inv, NEW p \in Publishers, ReadBack(p) \/ NotConfirmed(p)
  PROVE  Inv'
<1> DEFINE q == pubs[p]
<1>1. /\ TypeOK /\ q \in Pubs /\ q.pc = "readback" /\ pubs \in [Publishers -> Pubs]
      /\ PublisherOK(q, computed, committed, contract) /\ BindingComputed
  BY DEF Inv, TypeOK, ReadBack, NotConfirmed, At
<1>2. UNCHANGED <<now, row, last, helper, calls, contract, issues, history>> /\ events' \in Nat
  BY <1>1 DEF ReadBack, NotConfirmed, Occurs, TypeOK
<1>3. contract = "v1" /\ Contract!Parses(SnapshotOf(q)) /\ Published(q, computed)
  BY <1>1 DEF PublisherOK, Busy
<1>4. ASSUME NEW m, m.result = q.result, m.manual = q.manual, m.at = q.at, m.id = q.id
      PROVE  Published(m, computed) /\ SnapshotOf(m) = SnapshotOf(q)
  <2> HIDE DEF q
  <2> QED BY <1>3, <1>4 DEF Published, NotOverslept, SnapshotOf
<1>5. CASE ReadBack(p)
  <2> DEFINE m == [q EXCEPT !.pc = "record"]
  <2>1. SnapshotOf(q) \in committed
    BY <1>1, <1>3, <1>5 DEF ReadBack, MySnapshot, SnapshotOf, TypeOK, Contract!Parses
  <2>2. /\ m \in Pubs /\ m.pc = "record" /\ m.result = q.result /\ m.manual = q.manual
        /\ m.at = q.at /\ m.id = q.id
    <3> HIDE DEF q
    <3> QED BY <1>1 DEF Pubs, States
  <2>3. pubs' = [pubs EXCEPT ![p] = m]
    BY <1>1, <1>5, Going DEF ReadBack, Goto
  <2> HIDE DEF m, q
  <2>4. PublisherOK(m, computed', committed', contract)
    BY <1>2, <1>4, <2>1, <2>2 DEF PublisherOK, Busy, history
  <2> QED BY <1>1, <1>2, <2>3, <2>4, OthersStay, ConfirmedKept
          DEF Inv, TypeOK, history, BindingComputed
<1>6. CASE NotConfirmed(p)
  <2> DEFINE m == [q EXCEPT !.pc = "call", !.tries = @ - 1]
  <2>1. \/ pubs' = [pubs EXCEPT ![p] = Idle]
        \/ q.tries > 1 /\ pubs' = [pubs EXCEPT ![p] = m]
    <3>1. pubs' = [pubs EXCEPT ![p] = IF q.tries > 1 THEN m ELSE Idle]
      BY <1>6 DEF NotConfirmed
    <3> HIDE DEF m, q
    <3> QED BY <3>1
  <2>2. CASE pubs' = [pubs EXCEPT ![p] = Idle]
    <3>1. PublisherOK(Idle, computed', committed', contract)
      BY IdleOK
    <3> QED BY <1>1, <1>2, <2>2, <3>1, OthersStay, ConfirmedKept
            DEF Inv, TypeOK, history, BindingComputed
  <2>3. CASE q.tries > 1 /\ pubs' = [pubs EXCEPT ![p] = m]
    <3>1. /\ m \in Pubs /\ m.pc = "call" /\ m.result = q.result /\ m.manual = q.manual
          /\ m.at = q.at /\ m.id = q.id
      <4>1. q.tries - 1 \in Nat /\ "call" \in States
        BY <1>1, <2>3 DEF Pubs, States
      <4> HIDE DEF q
      <4> QED BY <1>1, <4>1 DEF Pubs, m
    <3> HIDE DEF m, q
    <3>2. PublisherOK(m, computed', committed', contract)
      BY <1>2, <1>3, <1>4, <3>1 DEF PublisherOK, Busy, history
    <3> QED BY <1>1, <1>2, <2>3, <3>2, OthersStay, ConfirmedKept
            DEF Inv, TypeOK, history, BindingComputed
  <2> QED BY <2>1, <2>2, <2>3
<1> QED BY <1>5, <1>6

\* record_success, and what ends a publication at any step.
LEMMA RecordInv ==
  ASSUME Inv, NEW p \in Publishers, Record(p) \/ Bind(p) \/ Crash(p)
  PROVE  Inv'
<1> DEFINE q == pubs[p]
<1>1. /\ TypeOK /\ q \in Pubs /\ row \in Rows /\ BindingComputed
      /\ row.deadline = None => row = Cleared(row)
      /\ PublisherOK(q, computed, committed, contract)
  BY DEF Inv, TypeOK
<1>2. UNCHANGED <<now, helper, calls, contract, issues, computed, committed>>
  BY DEF Record, Bind, Crash, history
<1>3. CASE Record(p)
  <2>1. q.pc = "record" /\ Published(q, computed) /\ SnapshotOf(q) \in committed
    BY <1>1, <1>3 DEF Record, At, PublisherOK, Busy
  <2>2. /\ pubs' \in [Publishers -> Pubs]
        /\ \A o \in Publishers : PublisherOK(pubs[o], computed, committed, contract)'
    <3>1. Finish(p) \/ (Goto(p, "bind") /\ pubs[p].result.manualDeadline # None)
      BY <1>3 DEF Record
    <3>2. "bind" \in States \ {"call", "readback", "record"} /\ pubs[p].pc \in Busy
      BY <2>1 DEF States, Busy
    <3> QED BY <1>2, <3>1, <3>2, Moves
  <2>3. Sound(Counts, q.result) /\ q.result \in Results(Counts) /\ q.id \in Nat
    BY <1>1, <2>1 DEF Published, Sound, Pubs
  <2>4. /\ last' = Stored(q.result) /\ recorded' = q.id /\ UNCHANGED <<row, events>>
    BY <1>3 DEF Record
  <2>5. /\ Sound(Counts, last') /\ last' \in Results(Counts)
        /\ last'.wake = q.result.wake /\ last'.snoozes = q.result.snoozes
    <3> DEFINE o == IF q.result.origin # None THEN q.result.origin
                    ELSE IF q.result.source = "retained" THEN None ELSE q.result.source
    <3>1. last' = [q.result EXCEPT !.warning = "none", !.origin = o]
      BY <2>4 DEF Stored
    <3>2. o \in Optional({"manual", "calendar", "fallback"})
      BY <2>3 DEF Results, Optional
    <3> HIDE DEF q, o
    <3>3. last' \in Results(Counts)
      BY <2>3, <3>1, <3>2 DEF Results
    <3>4. /\ last'.wake = q.result.wake /\ last'.snoozes = q.result.snoozes
          /\ last'.day = q.result.day /\ last'.deadline = q.result.deadline
      BY <2>3, <3>1 DEF Results
    <3> QED BY <2>3, <3>3, <3>4 DEF Sound
  <2>6. ConfirmedIsCommitted'
    <3>1. /\ SnapshotOf(q).id = q.id /\ SnapshotOf(q).wake = q.result.wake
          /\ SnapshotOf(q).snoozes = q.result.snoozes
      <4> HIDE DEF q
      <4> QED BY <1>1, <2>1, SnapshotType DEF Busy
    <3> QED BY <1>2, <2>1, <2>4, <2>5, <3>1 DEF ConfirmedIsCommitted
  <2> QED BY <1>1, <1>2, <2>2, <2>3, <2>4, <2>5, <2>6
          DEF Inv, TypeOK, BindingComputed, Optional, Counts
<1>4. CASE Bind(p)
  <2>1. q.pc = "bind" /\ Published(q, computed) /\ q.result.manualDeadline # None
    BY <1>1, <1>4 DEF Bind, At, PublisherOK, Busy
  <2>2. /\ q.result.wake \in Int /\ BoundDeadline(q.result) \in Optional(Int)
    BY <2>1 DEF Published, Sound, Results, BoundDeadline
  <2>3. row' = Bound(row, q.result.wake, BoundDeadline(q.result), q.manual)
    BY <1>4 DEF Bind
  <2>4. /\ row' \in Rows /\ row'.deadline = row.deadline
        /\ row.deadline = None => row' = row
    <3> HIDE DEF q
    <3> QED BY <1>1, <2>2, <2>3, RowSteps DEF Bound
  <2>5. BindingComputed'
    <3>1. CASE row' = row
      BY <1>1, <1>2, <3>1 DEF BindingComputed
    <3>2. CASE row' # row
      <4>1. /\ row.deadline # None /\ row.deadline = q.manual.deadline
            /\ row.version = q.manual.version
            /\ row' = [row EXCEPT !.wake = q.result.wake, !.bound = BoundDeadline(q.result),
                                  !.boundVersion = row.version]
        BY <2>3, <3>2 DEF Bound
      <4>2. row'.version = row.version /\ row'.wake = q.result.wake
        BY <1>1, <4>1 DEF Rows
      <4>3. q.manual # None
        BY <2>1 DEF Published, Carries
      <4> QED BY <1>2, <2>1, <4>1, <4>2, <4>3 DEF BindingComputed, Published
    <3> QED BY <3>1, <3>2
  <2>6. /\ pubs' \in [Publishers -> Pubs]
        /\ \A o \in Publishers : PublisherOK(pubs[o], computed, committed, contract)'
    BY <1>2, <1>4, Moves DEF Bind
  <2>7. UNCHANGED <<last, recorded, events>>
    BY <1>4 DEF Bind, history
  <2> QED BY <1>1, <1>2, <2>4, <2>5, <2>6, <2>7, ConfirmedKept DEF Inv, TypeOK
<1>5. CASE Crash(p)
  <2>1. /\ pubs' \in [Publishers -> Pubs]
        /\ \A o \in Publishers : PublisherOK(pubs[o], computed, committed, contract)'
    BY <1>2, <1>5, Moves DEF Crash
  <2> QED BY <1>1, <1>2, <1>5, <2>1, ConfirmedKept
          DEF Crash, Occurs, Inv, TypeOK, history, BindingComputed
<1> QED BY <1>3, <1>4, <1>5

\* What happens without a publisher: a late call, the daemon's end of a wake, time.
LEMMA WorldInv ==
  ASSUME Inv, ExecuteLate \/ Retire \/ Tick
  PROVE  Inv'
<1>1. /\ TypeOK /\ pubs \in [Publishers -> Pubs] /\ row \in Rows /\ BindingComputed
      /\ row.deadline = None => row = Cleared(row)
      /\ \A o \in Publishers : PublisherOK(pubs[o], computed, committed, contract)
      /\ \A x \in calls \cup committed : Timely(x)
  BY DEF Inv, TypeOK
<1>2. CASE ExecuteLate
  <2>1. PICK s \in calls : Execute(s) /\ calls' = calls \ {s}
    BY <1>2 DEF ExecuteLate
  <2>2. UNCHANGED <<now, row, last, pubs, contract, issues, events, computed, recorded>>
    BY <1>2 DEF ExecuteLate
  <2>3. /\ committed \subseteq committed' /\ committed' \subseteq Snapshots
        /\ helper' \in {Empty, Garbage} \cup committed'
        /\ \A x \in committed' : Timely(x)
    BY <1>1, <2>1, Executing DEF TypeOK
  <2>4. \A o \in Publishers : PublisherOK(pubs[o], computed, committed', contract)
    BY <1>1, <2>3, Grown
  <2>5. \A o \in Publishers : PublisherOK(pubs[o], computed, committed, contract)'
    BY <2>2, <2>4
  <2> QED BY <1>1, <2>1, <2>2, <2>3, <2>5, ConfirmedKept DEF Inv, TypeOK, BindingComputed
<1>3. CASE Retire
  <2>1. PICK s : row' = ClearedFor(row, s.wake)
    BY <1>3 DEF Retire
  <2>2. row' = row \/ row' = Cleared(row)
    BY <2>1 DEF ClearedFor
  <2>3. UNCHANGED <<now, last, helper, calls, pubs, contract, issues, events, history>>
    BY <1>3 DEF Retire
  <2>4. /\ row' \in Rows /\ (row'.deadline = None => row' = Cleared(row'))
        /\ BindingComputed'
    <3>1. CASE row' = row
      BY <1>1, <2>3, <3>1 DEF BindingComputed, history
    <3>2. CASE row' = Cleared(row)
      BY <1>1, <3>2, RowSteps DEF BindingComputed
    <3> QED BY <2>2, <3>1, <3>2
  <2> QED BY <1>1, <2>3, <2>4, ConfirmedKept DEF Inv, TypeOK, history
<1>4. CASE Tick
  BY <1>1, <1>4, Constants, ConfirmedKept DEF Tick, Inv, TypeOK, history, BindingComputed
<1> QED BY <1>2, <1>3, <1>4

\* Every step of a publisher, of Home Assistant, of the daemon and of time keeps it.
THEOREM StepInv == Inv /\ [Next]_vars => Inv'
<1> SUFFICES ASSUME Inv, [Next]_vars PROVE Inv'
  OBVIOUS
<1>1. ASSUME NEW p \in Publishers, Publish(p) PROVE Inv'
  BY <1>1, StartInv, ComputeInv, CallInv, ReadInv, RecordInv DEF Publish
<1>2. ASSUME NEW p \in Publishers, Command(p) PROVE Inv'
  BY <1>2, CommandInv
<1>3. CASE ExecuteLate \/ Retire \/ Tick
  BY <1>3, WorldInv
<1>4. CASE UNCHANGED vars
  BY <1>4 DEF vars, Inv, TypeOK, ConfirmedIsCommitted, BindingComputed
<1> QED BY <1>1, <1>2, <1>3, <1>4 DEF Next

LEMMA AlwaysInv == Spec => []Inv
BY InitInv, StepInv, PTL DEF Spec

-----------------------------------------------------------------------------
\* The state is well formed.
THEOREM PublicationTypeOK == Spec => []TypeOK
<1>1. Inv => TypeOK
  BY DEF Inv
<1> QED BY <1>1, AlwaysInv, PTL

\* What is recorded as the last successful publication was on show at Home
\* Assistant, however the calls to it ended.
THEOREM RecordedWasOnShow == Spec => []ConfirmedIsCommitted
<1>1. Inv => ConfirmedIsCommitted
  BY DEF Inv
<1> QED BY <1>1, AlwaysInv, PTL

\* No publication brings back an intent but the one it loaded.
THEOREM NothingResurrected == Spec => []NoResurrection
<1>1. Inv => NoResurrection
  BY DEF Inv, PublisherOK, Published, Carries, NoResurrection
<1> QED BY <1>1, AlwaysInv, PTL

\* No publication oversleeps the deadline of the intent it loaded.
THEOREM NothingOverslept == Spec => []IntentNotOverslept
<1>1. Inv => IntentNotOverslept
  BY DEF Inv, PublisherOK, Published, NotOverslept, IntentNotOverslept
<1> QED BY <1>1, AlwaysInv, PTL

\* Under v1 a schedule on show gives way only to one issued later.
THEOREM CommitsOnlyForward == Spec => CommitsMoveForward
<1> DEFINE Forward ==
      contract = "v1" /\ helper \notin {Empty, Garbage} =>
        helper' = helper \/ helper'.issued > helper.issued
<1>1. Next => Forward
  <2>1. ASSUME NEW s, Execute(s), contract = "v1", helper \notin {Empty, Garbage}
        PROVE  helper' = helper \/ helper'.issued > helper.issued
    <3>1. CASE Contract!DecideCommit(helper, s) = "commit"
      <4>1. helper' = s
        BY <2>1, <3>1 DEF Execute, Executed
      <4>2. Contract!CompareSchedules(helper, s) = "newer"
        BY <2>1, <3>1 DEF Contract!DecideCommit
      <4>3. s.issued > helper.issued
        BY <4>2 DEF Contract!CompareSchedules
      <4> QED BY <4>1, <4>3
    <3>2. CASE Contract!DecideCommit(helper, s) # "commit"
      BY <2>1, <3>2 DEF Execute, Executed
    <3> QED BY <3>1, <3>2
  <2>2. Next => helper' = helper \/ \E s : Execute(s)
    <3>1. ASSUME NEW p \in Publishers, Publish(p)
          PROVE  helper' = helper \/ \E s : Execute(s)
      BY <3>1 DEF Publish, Begin, Load, LoadFails, Compute, CallExecuted, AnswerLost,
                  CallTimesOut, ReadBack, NotConfirmed, Record, Bind, Crash
    <3>2. ASSUME NEW p \in Publishers, Command(p) PROVE helper' = helper
      BY <3>2 DEF Command, SaveIntent, ClearIntent, AskSkip, EndSkip
    <3>3. ExecuteLate \/ Retire \/ Tick => helper' = helper \/ \E s : Execute(s)
      BY DEF ExecuteLate, Retire, Tick
    <3> QED BY <3>1, <3>2, <3>3 DEF Next
  <2> QED BY <2>1, <2>2
<1>2. UNCHANGED vars => Forward
  BY DEF vars
<1>3. [Next]_vars => [Forward]_vars
  BY <1>1, <1>2
<1> QED BY <1>3, PTL DEF Spec, CommitsMoveForward

-----------------------------------------------------------------------------
\* What a call of the v1 script leaves in the helper that held h.
Applied(h, s) == IF Contract!DecideCommit(h, s) = "commit" THEN s ELSE h

\* Two snapshots are told apart by their identities and by their times.
Distinct(a, b) == a.id # b.id /\ a.issued # b.issued

\* Calls of the v1 script that are repeated or swapped leave the same schedule,
\* whatever the helper holds, as long as different snapshots are distinct
\* (decide_commit, which the retries of publish_v1 rely on).
THEOREM CallsConverge ==
  ASSUME NEW h, NEW a, NEW b,
         a.issued \in Int, b.issued \in Int,
         Contract!Parses(h) => h.issued \in Int,
         a = b \/ Distinct(a, b),
         Contract!Parses(h) => h = a \/ Distinct(h, a),
         Contract!Parses(h) => h = b \/ Distinct(h, b)
  PROVE  /\ Applied(Applied(h, a), a) = Applied(h, a)
         /\ Applied(Applied(h, a), b) = Applied(Applied(h, b), a)
<1> DEFINE Newer(x, y) == x.id # y.id /\ x.issued # y.issued /\ x.issued > y.issued
<1>1. ASSUME NEW g, NEW s
      PROVE  Applied(g, s) =
               IF Contract!Parses(s) /\ g # s
                  /\ (g = Empty \/ (Contract!Parses(g) /\ Newer(s, g)))
               THEN s ELSE g
  BY DEF Applied, Contract!DecideCommit, Contract!CompareSchedules
<1>2. Contract!Parses(a) => a # Empty
  BY DEF Contract!Parses
<1>3. Contract!Parses(b) => b # Empty
  BY DEF Contract!Parses
<1>4. ~Contract!Parses(Empty)
  BY DEF Contract!Parses
<1>5. Applied(Applied(h, a), a) = Applied(h, a)
  BY <1>1
<1>6. Applied(Applied(h, a), b) = Applied(Applied(h, b), a)
  <2>1. CASE ~Contract!Parses(a) \/ ~Contract!Parses(b) \/ a = b
    BY <1>1, <2>1
  <2>2. CASE Contract!Parses(a) /\ Contract!Parses(b) /\ a # b
    <3>1. a.id # b.id /\ (a.issued < b.issued \/ b.issued < a.issued)
      BY <2>2 DEF Distinct
    <3>2. CASE h = Empty
      <4>1. Applied(h, a) = a /\ Applied(h, b) = b
        BY <1>1, <1>2, <1>3, <2>2, <3>2
      <4> QED BY <1>1, <1>2, <1>3, <2>2, <3>1, <4>1
    <3>3. CASE h # Empty /\ ~Contract!Parses(h)
      BY <1>1, <3>3
    <3>4. CASE Contract!Parses(h)
      <4>1. /\ h = a \/ (h.id # a.id /\ (h.issued < a.issued \/ a.issued < h.issued))
            /\ h = b \/ (h.id # b.id /\ (h.issued < b.issued \/ b.issued < h.issued))
        BY <3>4 DEF Distinct
      <4>2. /\ Applied(h, a) = IF h = a \/ a.issued < h.issued THEN h ELSE a
            /\ Applied(h, b) = IF h = b \/ b.issued < h.issued THEN h ELSE b
        BY <1>1, <1>4, <2>2, <3>4, <4>1
      <4>3. /\ Applied(a, b) = IF b.issued < a.issued THEN a ELSE b
            /\ Applied(b, a) = IF a.issued < b.issued THEN b ELSE a
        BY <1>1, <1>2, <1>3, <2>2, <3>1
      <4>4. h.issued \in Int
        BY <3>4
      <4>5. CASE (h = a \/ a.issued < h.issued) /\ (h = b \/ b.issued < h.issued)
        <5>1. Applied(h, a) = h /\ Applied(h, b) = h
          BY <4>2, <4>5
        <5> QED BY <5>1
      <4>6. CASE (h = a \/ a.issued < h.issued) /\ ~(h = b \/ b.issued < h.issued)
        <5>1. Applied(h, a) = h /\ Applied(h, b) = b /\ ~(b.issued < a.issued)
          BY <3>1, <4>1, <4>2, <4>4, <4>6
        <5>2. Applied(b, a) = b
          BY <3>1, <4>3, <5>1
        <5> QED BY <5>1, <5>2
      <4>7. CASE ~(h = a \/ a.issued < h.issued) /\ (h = b \/ b.issued < h.issued)
        <5>1. Applied(h, a) = a /\ Applied(h, b) = h /\ ~(a.issued < b.issued)
          BY <3>1, <4>1, <4>2, <4>4, <4>7
        <5>2. Applied(a, b) = a
          BY <3>1, <4>3, <5>1
        <5> QED BY <5>1, <5>2
      <4>8. CASE ~(h = a \/ a.issued < h.issued) /\ ~(h = b \/ b.issued < h.issued)
        <5>1. Applied(h, a) = a /\ Applied(h, b) = b
          BY <4>2, <4>8
        <5>2. Applied(a, b) = Applied(b, a)
          BY <3>1, <4>3
        <5> QED BY <5>1, <5>2
      <4> QED BY <4>5, <4>6, <4>7, <4>8
    <3> QED BY <3>2, <3>3, <3>4
  <2> QED BY <2>1, <2>2
<1> QED BY <1>5, <1>6

\* Under v1 the helper shows the newest of all it has held, and no call that is
\* still under way can be anything but a schedule of the contract.
NewestOnShow ==
  contract = "v1" =>
    /\ \A s \in calls : Contract!Parses(s)
    /\ \A s \in committed : /\ Contract!Parses(s) /\ Contract!Parses(helper)
                            /\ s = helper \/ s.issued < helper.issued

\* So what was recorded as published can only have been overtaken by a
\* publication issued after it, however calls were lost, late or repeated.
THEOREM NewestIsOnShow == Spec => []NewestOnShow
<1>1. Init => NewestOnShow
  BY DEF Init, NewestOnShow
<1>2. ASSUME Inv, NewestOnShow, contract = "v1", NEW s, Contract!Parses(s), Execute(s),
             s \in Snapshots
      PROVE  \A x \in committed' : /\ Contract!Parses(x) /\ Contract!Parses(helper')
                                   /\ x = helper' \/ x.issued < helper'.issued
  <2>1. CASE Contract!DecideCommit(helper, s) = "commit"
    <3>1. helper' = s /\ committed' = committed \cup {s}
      BY <1>2, <2>1 DEF Execute, Executed
    <3>2. ASSUME NEW x \in committed PROVE Contract!Parses(x) /\ x.issued < s.issued
      <4>1. /\ Contract!Parses(x) /\ Contract!Parses(helper)
            /\ x = helper \/ x.issued < helper.issued
        BY <1>2 DEF NewestOnShow
      <4>2. helper # Empty /\ helper # Garbage
        BY <4>1 DEF Contract!Parses
      <4>3. helper \in Snapshots /\ x \in Snapshots
        BY <1>2, <4>2 DEF Inv, TypeOK
      <4>4. helper.issued \in Int /\ x.issued \in Int /\ s.issued \in Int
        BY <1>2, <4>3 DEF Snapshots
      <4>5. Contract!CompareSchedules(helper, s) = "newer"
        BY <2>1, <4>2 DEF Contract!DecideCommit
      <4>6. s.issued > helper.issued
        BY <4>5 DEF Contract!CompareSchedules
      <4> QED BY <4>1, <4>4, <4>6
    <3> QED BY <1>2, <3>1, <3>2
  <2>2. CASE Contract!DecideCommit(helper, s) # "commit"
    <3>1. helper' = helper /\ committed' = IF helper = s THEN committed \cup {s} ELSE committed
      BY <1>2, <2>2 DEF Execute, Executed
    <3> QED BY <1>2, <3>1 DEF NewestOnShow
  <2> QED BY <2>1, <2>2
<1>3. ASSUME Inv, NewestOnShow, Next PROVE NewestOnShow'
  <2>1. CASE UNCHANGED <<contract, helper, calls, committed>>
    BY <1>3, <2>1 DEF NewestOnShow
  <2>2. ASSUME NEW p \in Publishers, CallExecuted(p) \/ AnswerLost(p) \/ CallTimesOut(p)
        PROVE  NewestOnShow'
    <3> SUFFICES ASSUME contract = "v1" PROVE NewestOnShow'
      BY <2>2 DEF CallExecuted, AnswerLost, CallTimesOut, NewestOnShow
    <3>1. PublisherOK(pubs[p], computed, committed, contract) /\ pubs[p].pc = "call"
      BY <1>3, <2>2 DEF Inv, CallExecuted, AnswerLost, CallTimesOut, At
    <3>2. Contract!Parses(MySnapshot(p))
      BY <3>1 DEF PublisherOK, MySnapshot, SnapshotOf
    <3>3. CASE CallTimesOut(p)
      BY <1>3, <3>2, <3>3 DEF CallTimesOut, NewestOnShow, history
    <3>4. CASE CallExecuted(p)
      <4>1. MySnapshot(p) \in Snapshots
        BY <3>1, SnapshotType DEF MySnapshot, SnapshotOf, PublisherOK, Busy
      <4> QED BY <1>2, <1>3, <3>2, <3>4, <4>1 DEF CallExecuted, NewestOnShow
    <3> QED BY <2>2, <3>3, <3>4 DEF AnswerLost
  <2>3. CASE ExecuteLate
    <3> SUFFICES ASSUME contract = "v1" PROVE NewestOnShow'
      BY <2>3 DEF ExecuteLate, NewestOnShow
    <3>1. PICK s \in calls : Execute(s) /\ calls' = calls \ {s} /\ contract' = contract
      BY <2>3 DEF ExecuteLate
    <3>2. Contract!Parses(s) /\ s \in Snapshots
      BY <1>3, <3>1 DEF NewestOnShow, Inv, TypeOK
    <3> QED BY <1>2, <1>3, <3>1, <3>2 DEF NewestOnShow
  <2>4. ASSUME NEW p \in Publishers, Publish(p)
        PROVE  NewestOnShow'
    BY <2>1, <2>2, <2>4 DEF Publish, Begin, Load, LoadFails, Compute, ReadBack,
       NotConfirmed, Record, Bind, Crash, history
  <2>5. ASSUME NEW p \in Publishers, Command(p) PROVE NewestOnShow'
    BY <2>1, <2>5 DEF Command, SaveIntent, ClearIntent, AskSkip, EndSkip, history
  <2> QED BY <1>3, <2>1, <2>3, <2>4, <2>5 DEF Next, Retire, Tick, history
<1>4. UNCHANGED vars /\ NewestOnShow => NewestOnShow'
  BY DEF vars, NewestOnShow
<1>5. Inv /\ NewestOnShow /\ [Next]_vars => NewestOnShow'
  BY <1>3, <1>4
<1> QED BY <1>1, <1>5, AlwaysInv, PTL DEF Spec

\* An intent ends early only by the wake that was computed from it and shown.
THEOREM IntentEndsByItsOwnWake == Spec => IntentOutlivesOthers
<1> DEFINE Own ==
      row.deadline # None /\ row'.deadline = None /\ row.deadline > now /\ UNCHANGED pubs =>
        /\ <<row.version, row.wake>> \in computed
        /\ \E s \in committed : s.wake = row.wake
<1>1. Inv /\ Next => Own
  <2> SUFFICES ASSUME Inv, Next, row.deadline # None, row'.deadline = None, UNCHANGED pubs
               PROVE  /\ <<row.version, row.wake>> \in computed
                      /\ \E s \in committed : s.wake = row.wake
    OBVIOUS
  <2>1. pubs \in [Publishers -> Pubs] /\ row \in Rows
    BY DEF Inv, TypeOK
  <2>2. row' # row
    OBVIOUS
  <2>3. ASSUME NEW p \in Publishers, Publish(p) \/ Command(p) PROVE FALSE
    <3>1. ~(SaveIntent(p) \/ ClearIntent(p))
      BY <2>1 DEF SaveIntent, ClearIntent, At, Goto, Pubs
    <3>2. ~EndSkip(p)
      BY <2>1 DEF EndSkip, At, Finish, Idle
    <3>3. ~Load(p)
      BY <2>1 DEF Load, At, Pubs
    <3>4. ~Bind(p)
      BY <2>1 DEF Bind, At, Finish, Idle
    <3>5. Publish(p) \/ Command(p) => Load(p) \/ Bind(p) \/ SaveIntent(p)
                                       \/ ClearIntent(p) \/ EndSkip(p) \/ row' = row
      BY DEF Publish, Begin, LoadFails, Compute, CallExecuted, AnswerLost, CallTimesOut,
             ReadBack, NotConfirmed, Record, Crash, Command, AskSkip
    <3> QED BY <2>2, <2>3, <3>1, <3>2, <3>3, <3>4, <3>5
  <2>4. Retire
    BY <2>2, <2>3 DEF Next, ExecuteLate, Tick
  <2>5. PICK s \in committed : row' = ClearedFor(row, s.wake)
    BY <2>4 DEF Retire
  <2>6. row.wake = s.wake /\ row.version = row.boundVersion
    BY <2>2, <2>5 DEF ClearedFor
  <2> QED BY <2>5, <2>6 DEF Inv, BindingComputed
<1>2. UNCHANGED vars => Own
  BY DEF vars
<1>3. Inv /\ [Next]_vars => [Own]_vars
  BY <1>1, <1>2
<1> QED BY <1>3, AlwaysInv, PTL DEF Spec, IntentOutlivesOthers
=============================================================================
