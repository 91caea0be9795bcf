--------------------------- MODULE RemindersProofs ---------------------------
(***************************************************************************)
(* Safety of the reminder life cycle for every set of rows, every clock,   *)
(* every planner and every interleaving of poll, morning, the commands and *)
(* crashes.                                                                *)
(*                                                                         *)
(* The argument: every store transaction except release_ping makes the     *)
(* rows EVOLVE (no generation disappears, changes its kind, becomes        *)
(* unfired or unretired, or is retried; what is due is not postponed), and *)
(* release_ping touches only the generation that the poll job holds.       *)
(***************************************************************************)
EXTENDS Reminders, TLAPS

\* A well-formed pings table for one event.
Sound(r) ==
  /\ r \in [Ids -> Row \cup {None}]
  /\ \A i \in Ids : r[i] # None /\ r[i].retired => r[i].fired
  /\ \A k \in Kinds : \A i, j \in LiveOf(r, k) : i = j

\* What a transaction other than release_ping may do to it at time t.
Evolves(r, s, t) ==
  /\ Sound(s)
  /\ \A i \in Ids : r[i] # None =>
       /\ s[i] # None /\ s[i].kind = r[i].kind /\ s[i].attempts = r[i].attempts
       /\ r[i].fired => s[i].fired
       /\ r[i].retired => s[i].retired
       /\ r[i].at <= t => s[i].at <= r[i].at
  /\ \A i \in Ids : r[i] = None /\ s[i] # None => s[i].attempts = 0

-----------------------------------------------------------------------------
\* The transactions of the store, one lemma each.

\* Doing nothing is an evolution.
LEMMA EvolvesRefl ==
  ASSUME NEW r, Sound(r), NEW t \in Int
  PROVE  Evolves(r, r, t)
BY DEF Sound, Evolves, Row

\* Two transactions in a row are one evolution.
LEMMA EvolvesTrans ==
  ASSUME NEW r, NEW s, NEW u, NEW t \in Int, Sound(r), Evolves(r, s, t), Evolves(s, u, t)
  PROVE  Evolves(r, u, t)
<1> SUFFICES ASSUME NEW i \in Ids
    PROVE /\ r[i] # None =>
               /\ u[i] # None /\ u[i].kind = r[i].kind /\ u[i].attempts = r[i].attempts
               /\ r[i].fired => u[i].fired
               /\ r[i].retired => u[i].retired
               /\ r[i].at <= t => u[i].at <= r[i].at
          /\ r[i] = None /\ u[i] # None => u[i].attempts = 0
  BY DEF Evolves
<1>1. CASE r[i] # None
  <2>1. r[i].at \in Int /\ s[i] # None /\ u[i] # None /\ s[i].at \in Int /\ u[i].at \in Int
    BY <1>1 DEF Evolves, Sound, Row
  <2> QED BY <1>1, <2>1 DEF Evolves
<1>2. CASE r[i] = None
  BY <1>2 DEF Evolves
<1> QED BY <1>1, <1>2

\* CHOOSE picks a row that is really fresh.
LEMMA InsertIndex ==
  ASSUME NEW r, Fresh(r) # {}
  PROVE  \E c \in Ids : /\ r[c] = None
                        /\ \A k, t : Insert(r, k, t) = [r EXCEPT ![c] = NewRow(k, t)]
<1> DEFINE c == CHOOSE i \in Ids : r[i] = None
<1>1. c \in Ids /\ r[c] = None
  BY DEF Fresh
<1> QED BY <1>1 DEF Insert

\* Inserting the next generation of a kind that has none in force (schedule_ping).
LEMMA InsertEvolves ==
  ASSUME NEW r, Sound(r), Fresh(r) # {}, NEW k \in Kinds, LiveOf(r, k) = {},
         NEW at \in Int, NEW t \in Int
  PROVE  Evolves(r, Insert(r, k, at), t)
<1>1. PICK c \in Ids : r[c] = None /\ Insert(r, k, at) = [r EXCEPT ![c] = NewRow(k, at)]
  BY InsertIndex
<1> DEFINE s == Insert(r, k, at)
<1>2. NewRow(k, at) \in Row
  BY DEF NewRow, Row, Kinds
<1>3. s \in [Ids -> Row \cup {None}]
  BY <1>1, <1>2 DEF Sound
<1>4. s[c] = NewRow(k, at) /\ \A i \in Ids \ {c} : s[i] = r[i]
  BY <1>1 DEF Sound
<1>5. ~s[c].fired /\ ~s[c].retired /\ s[c].kind = k /\ s[c].attempts = 0
  BY <1>4 DEF NewRow
<1>6. Sound(s)
  <2>1. \A i \in Ids : s[i] # None /\ s[i].retired => s[i].fired
    BY <1>4, <1>5 DEF Sound
  <2>2. ASSUME NEW l \in Kinds, NEW i \in LiveOf(s, l), NEW j \in LiveOf(s, l)
        PROVE  i = j
    <3>1. CASE l = k
      BY <1>4, <3>1 DEF LiveOf
    <3>2. CASE l # k
      <4>1. i \in LiveOf(r, l) /\ j \in LiveOf(r, l)
        BY <1>4, <1>5, <3>2 DEF LiveOf
      <4> QED BY <4>1 DEF Sound
    <3> QED BY <3>1, <3>2
  <2> QED BY <1>3, <2>1, <2>2 DEF Sound
<1>7. \A i \in Ids : r[i] # None => s[i] = r[i] /\ r[i].at <= r[i].at
  BY <1>1, <1>4 DEF Sound, Row
<1>8. \A i \in Ids : r[i] = None /\ s[i] # None => s[i].attempts = 0
  BY <1>4, <1>5
<1> QED BY <1>6, <1>7, <1>8 DEF Evolves

\* Superseding the generations of some kinds (cancel_pings, _retire_pings).
LEMMA RetireEvolves ==
  ASSUME NEW r, Sound(r), NEW ks \in SUBSET Kinds, NEW t \in Int
  PROVE  /\ Evolves(r, RetirePings(r, ks), t)
         /\ Fresh(RetirePings(r, ks)) = Fresh(r)
         /\ \A k \in ks : LiveOf(RetirePings(r, ks), k) = {}
<1> DEFINE s == RetirePings(r, ks)
<1>1. ASSUME NEW i \in Ids, r[i] # None
      PROVE  /\ s[i] \in Row /\ s[i] # None
             /\ s[i].kind = r[i].kind /\ s[i].attempts = r[i].attempts /\ s[i].at = r[i].at
             /\ r[i].fired => s[i].fired
             /\ r[i].retired => s[i].retired
             /\ s[i].retired => s[i].fired
             /\ ~s[i].retired => ~r[i].retired
             /\ r[i].kind \in ks => s[i].retired
             /\ r[i].at <= r[i].at
  <2>1. r[i] \in Row /\ (r[i].retired => r[i].fired)
    BY <1>1 DEF Sound
  <2>2. CASE r[i].kind \in ks /\ ~r[i].retired
    <3>1. s[i] = [r[i] EXCEPT !.retired = TRUE, !.fired = TRUE]
      BY <1>1, <2>2 DEF RetirePings
    <3>2. s[i] \in Row
      BY <2>1, <3>1 DEF Row
    <3>3. s[i] # None
      BY <3>2, NoneIsNoValue
    <3> QED BY <2>1, <2>2, <3>1, <3>2, <3>3 DEF Row
  <2>3. CASE ~(r[i].kind \in ks /\ ~r[i].retired)
    <3>1. s[i] = r[i]
      BY <1>1, <2>3 DEF RetirePings
    <3> QED BY <1>1, <2>1, <2>3, <3>1 DEF Row
  <2> QED BY <2>2, <2>3
<1>2. \A i \in Ids : r[i] = None => s[i] = None
  BY DEF RetirePings
<1>3. s \in [Ids -> Row \cup {None}]
  BY <1>1, <1>2 DEF RetirePings
<1>4. ASSUME NEW k \in Kinds PROVE LiveOf(s, k) \subseteq LiveOf(r, k)
  BY <1>1, <1>2 DEF LiveOf
<1>5. Sound(s)
  BY <1>1, <1>2, <1>3, <1>4 DEF Sound
<1>6. Evolves(r, s, t)
  BY <1>1, <1>2, <1>5 DEF Evolves
<1>7. Fresh(s) = Fresh(r)
  BY <1>1, <1>2 DEF Fresh
<1>8. \A k \in ks : LiveOf(s, k) = {}
  BY <1>1, <1>2 DEF LiveOf
<1> QED BY <1>6, <1>7, <1>8

\* Superseding one kind and inserting its next generation leaves a row to spare.
LEMMA ReplaceEvolves ==
  ASSUME NEW r, Sound(r), Fresh(r) # {}, NEW k \in Kinds, NEW at \in Int, NEW t \in Int
  PROVE  /\ Evolves(r, Insert(RetirePings(r, {k}), k, at), t)
         /\ Spare(r) => Fresh(Insert(RetirePings(r, {k}), k, at)) # {}
<1> DEFINE s == RetirePings(r, {k})
<1>1. Evolves(r, s, t) /\ Fresh(s) = Fresh(r) /\ LiveOf(s, k) = {}
  BY RetireEvolves
<1>2. Evolves(s, Insert(s, k, at), t)
  BY <1>1, InsertEvolves DEF Evolves
<1>3. ASSUME Spare(r) PROVE Fresh(Insert(s, k, at)) # {}
  <2>1. PICK c \in Ids : Insert(s, k, at) = [s EXCEPT ![c] = NewRow(k, at)]
    <3> HIDE DEF s
    <3>1. Fresh(s) # {}
      BY <1>1
    <3> QED BY <3>1, InsertIndex
  <2>2. PICK a \in Fresh(s) : a # c
    BY <1>1, <1>3 DEF Spare
  <2>3. Insert(s, k, at)[a] = None
    BY <2>1, <2>2, <1>1 DEF Fresh, Evolves, Sound
  <2> QED BY <2>2, <2>3 DEF Fresh
<1> QED BY <1>1, <1>2, <1>3, EvolvesTrans

\* The deadline a pending row gets from a replan: due rows only come earlier.
LEMMA SafeTimeProperties ==
  ASSUME NEW at \in Int, NEW shifted \in Int, NEW t \in Int
  PROVE  SafeTime(at, shifted, t) \in Int /\ (at <= t => SafeTime(at, shifted, t) <= at)
BY DEF SafeTime, Min2, Max2

\* Moving the times of some pending rows, due ones never later.
LEMMA MoveEvolves ==
  ASSUME NEW r, Sound(r), NEW t \in Int, NEW s, NEW M \in SUBSET Ids, NEW f \in [M -> Int],
         \A i \in M : r[i] # None /\ ~r[i].fired,
         \A i \in M : r[i].at <= t => f[i] <= r[i].at,
         s = [i \in Ids |-> IF i \in M THEN [r[i] EXCEPT !.at = f[i]] ELSE r[i]]
  PROVE  Evolves(r, s, t) /\ Fresh(s) = Fresh(r) /\ \A k : LiveOf(s, k) = LiveOf(r, k)
<1>1. ASSUME NEW i \in M
      PROVE  /\ s[i] \in Row /\ s[i].at = f[i] /\ s[i].kind = r[i].kind
             /\ s[i].fired = r[i].fired /\ s[i].retired = r[i].retired
             /\ s[i].attempts = r[i].attempts
  <2>1. r[i] \in Row
    BY DEF Sound
  <2>2. s[i] = [r[i] EXCEPT !.at = f[i]]
    OBVIOUS
  <2> QED BY <2>1, <2>2 DEF Row
<1>2. \A i \in M : s[i] # None
  BY <1>1, NoneIsNoValue
<1>3. \A i \in Ids \ M : s[i] = r[i]
  OBVIOUS
<1>4. s \in [Ids -> Row \cup {None}]
  BY <1>1, <1>3 DEF Sound
<1>5. Fresh(s) = Fresh(r) /\ \A k : LiveOf(s, k) = LiveOf(r, k)
  BY <1>1, <1>2, <1>3 DEF Fresh, LiveOf
<1>6. Sound(s)
  BY <1>1, <1>2, <1>3, <1>4, <1>5 DEF Sound
<1>7. \A i \in Ids : r[i] # None => r[i].at <= r[i].at
  BY DEF Sound, Row
<1> QED BY <1>1, <1>2, <1>3, <1>5, <1>6, <1>7 DEF Evolves

\* Consuming a row (mark_fired, and the update in claim_ping_entry).
LEMMA FireEvolves ==
  ASSUME NEW r, Sound(r), NEW c \in Ids, r[c] # None, NEW t \in Int
  PROVE  Evolves(r, [r EXCEPT ![c].fired = TRUE], t)
<1> DEFINE s == [r EXCEPT ![c].fired = TRUE]
<1>1. r[c] \in Row /\ s[c] = [r[c] EXCEPT !.fired = TRUE] /\ \A i \in Ids \ {c} : s[i] = r[i]
  BY DEF Sound
<1>2. /\ s[c] \in Row /\ s[c].fired /\ s[c].kind = r[c].kind /\ s[c].at = r[c].at
      /\ s[c].retired = r[c].retired /\ s[c].attempts = r[c].attempts
  <2>1. r[c] \in Row /\ s[c] = [r[c] EXCEPT !.fired = TRUE]
    BY <1>1
  <2> QED BY <2>1 DEF Row
<1>3. s[c] # None
  BY <1>2, NoneIsNoValue
<1>4. s \in [Ids -> Row \cup {None}]
  BY <1>1, <1>2 DEF Sound
<1>5. \A k \in Kinds : LiveOf(s, k) = LiveOf(r, k)
  BY <1>1, <1>2, <1>3 DEF LiveOf
<1>6. Sound(s)
  BY <1>1, <1>2, <1>4, <1>5 DEF Sound
<1>7. \A i \in Ids : r[i] # None => r[i].at <= r[i].at
  BY DEF Sound, Row
<1> QED BY <1>1, <1>2, <1>3, <1>6, <1>7 DEF Evolves

\* One kind of the replan transaction (reconcile_poll_replan).
LEMMA ReplanKindEvolves ==
  ASSUME NEW r, Sound(r), NEW k \in Kinds, NEW old \in OptTime, NEW new \in OptTime,
         NEW t \in Int, NeedsPing(r, k, new) => Fresh(r) # {}
  PROVE  LET s == ReplanKind(r, k, old, new, t)
         IN  /\ Evolves(r, s, t)
             /\ Spare(r) => Fresh(s) # {}
             /\ \A l \in Kinds \ {k} : LiveOf(s, l) = LiveOf(r, l)
<1> DEFINE s == ReplanKind(r, k, old, new, t)
<1>0. Spare(r) => Fresh(r) # {}
  BY DEF Spare
<1>1. CASE new = None
  BY <1>0, <1>1, EvolvesRefl DEF ReplanKind
<1>2. CASE new # None /\ LiveOf(r, k) = {}
  <2>1. new \in Int /\ Max2(t, new) \in Int
    BY <1>2 DEF OptTime, Max2
  <2>2. s = Insert(r, k, Max2(t, new)) /\ Fresh(r) # {}
    BY <1>2 DEF ReplanKind, NeedsPing
  <2>3. Evolves(r, s, t)
    BY <1>2, <2>1, <2>2, InsertEvolves
  <2>4. PICK c \in Ids : r[c] = None /\ s = [r EXCEPT ![c] = NewRow(k, Max2(t, new))]
    BY <2>2, InsertIndex
  <2>5. s[c].kind = k /\ \A i \in Ids \ {c} : s[i] = r[i]
    BY <2>4 DEF Sound, NewRow
  <2>6. Spare(r) => Fresh(s) # {}
    BY <2>5 DEF Spare, Fresh
  <2>7. \A l \in Kinds \ {k} : LiveOf(s, l) = LiveOf(r, l)
    BY <2>4, <2>5 DEF LiveOf
  <2> QED BY <2>3, <2>6, <2>7
<1>3. CASE new # None /\ LiveOf(r, k) # {}
  <2> DEFINE M == {i \in Ids : i \in LiveOf(r, k) /\ ~r[i].fired}
             f == [i \in M |-> SafeTime(r[i].at,
                                        IF old = None THEN new ELSE r[i].at + (new - old), t)]
  <2>1. \A i \in M : r[i] # None /\ ~r[i].fired /\ r[i] \in Row
    BY DEF LiveOf, Sound
  <2>2. ASSUME NEW i \in M
        PROVE  f[i] \in Int /\ (r[i].at <= t => f[i] <= r[i].at)
    <3>1. r[i].at \in Int
      BY <2>1 DEF Row
    <3>2. (IF old = None THEN new ELSE r[i].at + (new - old)) \in Int
      BY <1>3, <3>1 DEF OptTime
    <3> QED BY <3>1, <3>2, SafeTimeProperties
  <2>3. f \in [M -> Int]
    BY <2>2
  <2>4. s = [i \in Ids |-> IF i \in M THEN [r[i] EXCEPT !.at = f[i]] ELSE r[i]]
    BY <1>3 DEF ReplanKind
  <2>5. /\ Evolves(r, s, t) /\ Fresh(s) = Fresh(r) /\ \A l : LiveOf(s, l) = LiveOf(r, l)
    <3> HIDE DEF s, f, M
    <3>1. M \in SUBSET Ids
      BY DEF M
    <3>2. \A i \in M : r[i].at <= t => f[i] <= r[i].at
      BY <2>2
    <3>3. \A i \in M : r[i] # None /\ ~r[i].fired
      BY <2>1
    <3>4. Evolves(r, s, t)
      BY <2>3, <2>4, <3>1, <3>2, <3>3, MoveEvolves
    <3>5. Fresh(s) = Fresh(r)
      BY <2>3, <2>4, <3>1, <3>2, <3>3, MoveEvolves
    <3>6. \A l : LiveOf(s, l) = LiveOf(r, l)
      BY <2>3, <2>4, <3>1, <3>2, <3>3, MoveEvolves
    <3> QED BY <3>4, <3>5, <3>6
  <2> QED BY <1>0, <2>5
<1> QED BY <1>1, <1>2, <1>3

\* The whole replan transaction on the rows.
LEMMA ReplanEvolves ==
  ASSUME NEW r, Sound(r), NEW old \in Plan, NEW new \in Plan, NEW t \in Int,
         NeedsPing(r, "prep", new.prep) \/ NeedsPing(r, "leave", new.leave) => Spare(r)
  PROVE  Evolves(r, ReplanRows(r, old, new, t), t)
<1> DEFINE s == ReplanKind(r, "prep", old.prep, new.prep, t)
<1>1. /\ old.prep \in OptTime /\ old.leave \in OptTime
      /\ new.prep \in OptTime /\ new.leave \in OptTime
  BY DEF Plan
<1>2. /\ Evolves(r, s, t)
      /\ Spare(r) => Fresh(s) # {}
      /\ LiveOf(s, "leave") = LiveOf(r, "leave")
  <2>1. NeedsPing(r, "prep", new.prep) => Fresh(r) # {}
    BY DEF Spare
  <2> QED BY <1>1, <2>1, ReplanKindEvolves DEF Kinds
<1>3. NeedsPing(s, "leave", new.leave) => Fresh(s) # {}
  BY <1>2 DEF NeedsPing
<1>4. Evolves(s, ReplanKind(s, "leave", old.leave, new.leave, t), t)
  BY <1>1, <1>2, <1>3, ReplanKindEvolves DEF Evolves, Kinds
<1> QED BY <1>2, <1>4, EvolvesTrans DEF ReplanRows

\* The realtime refresh on the rows (increase_realtime_buffer).
LEMMA BufferEvolves ==
  ASSUME NEW r, Sound(r), NEW delta \in Int, NEW t \in Int
  PROVE  Evolves(r, BufferedRows(r, delta, t), t)
<1> DEFINE s == BufferedRows(r, delta, t)
           M == {i \in Ids : r[i] # None /\ ~r[i].fired}
           f == [i \in M |-> Min2(r[i].at, Max2(t, r[i].at - delta))]
<1>1. \A i \in M : r[i] # None /\ ~r[i].fired /\ r[i] \in Row
  BY DEF Sound
<1>2. ASSUME NEW i \in M PROVE f[i] \in Int /\ f[i] <= r[i].at
  <2>1. r[i].at \in Int
    BY <1>1 DEF Row
  <2> QED BY <2>1 DEF Min2, Max2
<1>3. s = [i \in Ids |-> IF i \in M THEN [r[i] EXCEPT !.at = f[i]] ELSE r[i]]
  BY DEF BufferedRows
<1>4. f \in [M -> Int]
  BY <1>2
<1>5. M \in SUBSET Ids
  OBVIOUS
<1> HIDE DEF s, f, M
<1> QED BY <1>1, <1>2, <1>3, <1>4, <1>5, MoveEvolves DEF s

\* One kind of morning's reconciliation, for whatever clock poll goes by.
LEMMA MorningKindEvolves ==
  ASSUME NEW r, Sound(r), Fresh(r) # {}, NEW k \in Kinds, NEW new \in OptTime, NEW old,
         NEW p \in Plan, NEW frozen \in Int, NEW t \in Int
  PROVE  /\ Evolves(r, MorningKind(r, k, new, old, p, frozen), t)
         /\ Spare(r) => Fresh(MorningKind(r, k, new, old, p, frozen)) # {}
<1>1. \/ MorningKind(r, k, new, old, p, frozen) = RetirePings(r, {k})
      \/ MorningKind(r, k, new, old, p, frozen) = r
      \/ /\ new # None
         /\ MorningKind(r, k, new, old, p, frozen) = Insert(RetirePings(r, {k}), k, new)
  BY DEF MorningKind
<1>2. Evolves(r, RetirePings(r, {k}), t) /\ Fresh(RetirePings(r, {k})) = Fresh(r)
  BY RetireEvolves
<1>3. Evolves(r, r, t)
  BY EvolvesRefl
<1>4. new # None => /\ Evolves(r, Insert(RetirePings(r, {k}), k, new), t)
                    /\ Spare(r) => Fresh(Insert(RetirePings(r, {k}), k, new)) # {}
  BY ReplaceEvolves DEF OptTime
<1> QED BY <1>1, <1>2, <1>3, <1>4

\* Morning's reconciliation of both kinds (reconcile_morning_plan).
LEMMA MorningEvolves ==
  ASSUME NEW r, Sound(r), Spare(r), NEW p \in Plan, NEW old, NEW frozen \in Int, NEW t \in Int
  PROVE  Evolves(r, MorningRows(r, p, old, frozen), t)
<1> DEFINE oldPrep == IF old = None THEN None ELSE old.prep
           oldLeave == IF old = None THEN None ELSE old.leave
           s == MorningKind(r, "prep", p.prep, oldPrep, p, frozen)
<1>1. p.prep \in OptTime /\ p.leave \in OptTime /\ Fresh(r) # {}
  BY DEF Plan, Spare
<1>2. Evolves(r, s, t) /\ Fresh(s) # {}
  BY <1>1, MorningKindEvolves DEF Kinds
<1>3. Evolves(s, MorningKind(s, "leave", p.leave, oldLeave, p, frozen), t)
  <2> HIDE DEF s, oldLeave
  <2>1. Sound(s) /\ "leave" \in Kinds
    BY <1>2 DEF Evolves, Kinds
  <2> QED BY <1>1, <1>2, <2>1, MorningKindEvolves
<1> QED BY <1>2, <1>3, EvolvesTrans DEF MorningRows

-----------------------------------------------------------------------------
\* What the jobs and the commands compute is a plan again.

\* What the planner returns is a well-formed plan (plan_event).
LEMMA PlannedIsPlan ==
  ASSUME NEW o \in Plan, NEW t \in Int
  PROVE  Planned(o, t) \in Plan
BY DEF Planned, Plan, Errors

\* What poll keeps of the old plan, field by field (_retain_replan_safety).
LEMMA RetainedForm ==
  ASSUME NEW old \in Plan, NEW new \in Plan, NEW same \in BOOLEAN
  PROVE  \E padded \in Plan :
           Retained(old, new, same) =
             IF old.prep # None /\ old.leave # None /\ padded.leave # None
             THEN [padded EXCEPT !.prep = padded.leave - (old.leave - old.prep)]
             ELSE padded
<1> DEFINE kept == IF same /\ old.pad > new.pad THEN old.pad - new.pad ELSE 0
           Earlier(v) == IF v = None THEN None ELSE v - kept
           padded == [new EXCEPT !.leave = Earlier(@), !.prep = Earlier(@), !.pad = @ + kept]
<1>1. /\ kept \in Nat /\ new.pad + kept \in Nat
      /\ new.prep \in OptTime /\ new.leave \in OptTime
  BY DEF Plan
<1> HIDE DEF kept
<1>2. \A v \in OptTime : Earlier(v) \in OptTime
  BY <1>1 DEF OptTime
<1> HIDE DEF Earlier
<1>3. padded \in Plan
  BY <1>1, <1>2 DEF Plan
<1> HIDE DEF padded
<1>4. Retained(old, new, same) =
        IF old.prep # None /\ old.leave # None /\ padded.leave # None
        THEN [padded EXCEPT !.prep = padded.leave - (old.leave - old.prep)]
        ELSE padded
  BY DEF Retained, padded, Earlier, kept
<1> QED BY <1>3, <1>4

\* A replan keeps the interval the old plan had.
LEMMA RetainedProperties ==
  ASSUME NEW old \in Plan, NEW new \in Plan, NEW same \in BOOLEAN
  PROVE  LET p == Retained(old, new, same)
         IN  /\ p \in Plan
             /\ old.prep # None /\ old.leave # None /\ p.leave # None =>
                  p.prep # None /\ Interval(p) = Interval(old)
<1> DEFINE p == Retained(old, new, same)
<1>1. PICK q \in Plan :
        p = IF old.prep # None /\ old.leave # None /\ q.leave # None
            THEN [q EXCEPT !.prep = q.leave - (old.leave - old.prep)] ELSE q
  BY RetainedForm
<1>2. /\ old.prep \in OptTime /\ old.leave \in OptTime /\ q.leave \in OptTime
  BY DEF Plan
<1> HIDE DEF p
<1>3. CASE old.prep # None /\ old.leave # None /\ q.leave # None
  <2>1. old.prep \in Int /\ old.leave \in Int /\ q.leave \in Int
    BY <1>2, <1>3 DEF OptTime
  <2>2. q.leave - (old.leave - old.prep) \in Int
    BY <2>1
  <2>3. p = [q EXCEPT !.prep = q.leave - (old.leave - old.prep)]
    BY <1>1, <1>3
  <2>4. p.leave = q.leave /\ p.prep = q.leave - (old.leave - old.prep)
    BY <2>3 DEF Plan
  <2>5. p \in Plan
    BY <2>2, <2>3 DEF Plan, OptTime
  <2>6. p.prep # None
    BY <2>2, <2>4, NoneIsNoValue
  <2>7. Interval(p) = Interval(old)
    BY <2>1, <2>4 DEF Interval
  <2> QED BY <2>5, <2>6, <2>7 DEF p
<1>4. CASE ~(old.prep # None /\ old.leave # None /\ q.leave # None)
  BY <1>1, <1>4 DEF p
<1> QED BY <1>3, <1>4

\* A plan moved earlier by a realtime delay is well-formed (increase_realtime_buffer).
LEMMA BufferedIsPlan ==
  ASSUME NEW p \in Plan, NEW minutes \in Nat
  PROVE  BufferedPlan(p, minutes) \in Plan
<1> DEFINE Advance(v) == IF v = None THEN None ELSE v - (minutes - p.pad)
<1>1. Advance(p.leave) \in OptTime /\ Advance(p.prep) \in OptTime
  BY DEF Plan, OptTime
<1>2. BufferedPlan(p, minutes) =
        [p EXCEPT !.leave = Advance(p.leave), !.prep = Advance(p.prep), !.pad = minutes]
  BY DEF BufferedPlan
<1> HIDE DEF Advance
<1> QED BY <1>1, <1>2 DEF Plan

-----------------------------------------------------------------------------
\* The inductive invariant: types, plus what each process carries in its hands.

\* The entry poll holds is consumed, unacknowledged, and counts its attempts.
HeldInv ==
  /\ pc \in HoldingPcs =>
       /\ held \in Entry /\ rows[held.id] # None
       /\ rows[held.id].fired /\ rows[held.id].attempts = held.attempts
       /\ held.id \notin acknowledged
  /\ pc \notin HoldingPcs => held = None

PollCarries ==
  /\ pc \in {"observing", "planning", "planned"} => snap \in Plan
  /\ pc = "planned" =>
       /\ fresh \in Plan
       /\ snap.prep # None /\ snap.leave # None /\ fresh.leave # None =>
            fresh.prep # None /\ Interval(fresh) = Interval(snap)

MorningCarries == mpc = "planned" => mfresh \in Plan

CliCarries ==
  /\ cpc \in {"adjust.save", "undo.save", "plan.save"} => cplan \in Plan
  /\ cpc = "adjust.save" => cplan.prep # None
  /\ cpc \in {"adjust.ping", "undo.ping", "snooze.ping", "skip.mark"} => cping # None
  /\ cpc = "skip.mark" => cping.id \in Ids /\ rows[cping.id] # None

Consumed == \A i \in acknowledged : rows[i] # None /\ rows[i].fired

Inv ==
  /\ TypeOK /\ OneGeneration /\ HeldInv /\ PollCarries /\ MorningCarries /\ CliCarries
  /\ Consumed /\ AttemptsBounded

\* The empty store satisfies the invariant.
LEMMA InitInv ==
  ASSUME Init
  PROVE  Inv
<1> USE DEF Init
<1>1. \A i \in Ids : rows[i] = None
  OBVIOUS
<1>2. StoreTypeOK /\ OneGeneration
  BY <1>1 DEF StoreTypeOK, OneGeneration, LiveOf
<1>3. PollTypeOK /\ MorningTypeOK /\ CliTypeOK
  BY DEF PollTypeOK, MorningTypeOK, CliTypeOK
<1>4. TypeOK
  <2>1. now \in Int /\ events \in Nat
    OBVIOUS
  <2>2. present \in BOOLEAN /\ acknowledged \subseteq Ids /\ skipped \subseteq Ids
    OBVIOUS
  <2> QED BY <1>2, <1>3, <2>1, <2>2 DEF TypeOK
<1>5. HeldInv /\ PollCarries /\ MorningCarries /\ CliCarries
  BY DEF HeldInv, PollCarries, MorningCarries, CliCarries, HoldingPcs
<1>6. Consumed /\ AttemptsBounded
  BY <1>1 DEF Consumed, AttemptsBounded
<1> QED BY <1>2, <1>4, <1>5, <1>6 DEF Inv

\* Under the invariant the pings table is sound, and it stays well typed.
LEMMA SoundRows == Inv => Sound(rows)
BY DEF Inv, TypeOK, StoreTypeOK, OneGeneration, Sound

\* An evolution keeps every fact about rows that nobody else changed.
LEMMA EvolutionKeeps ==
  ASSUME Inv, Evolves(rows, rows', now), acknowledged' = acknowledged
  PROVE  /\ rows' \in [Ids -> Row \cup {None}]
         /\ OneGeneration' /\ Consumed' /\ AttemptsBounded'
         /\ pc' = pc /\ held' = held => HeldInv'
<1>1. Sound(rows')
  BY DEF Evolves
<1>2. rows' \in [Ids -> Row \cup {None}] /\ OneGeneration'
  BY <1>1 DEF Sound, OneGeneration
<1>3. acknowledged \subseteq Ids
  BY DEF Inv, TypeOK
<1>4. Consumed'
  BY <1>3 DEF Inv, Consumed, Evolves
<1>5. AttemptsBounded'
  <2>1. MaxSendAttempts > 0
    BY ConstantsOK
  <2> QED BY <2>1 DEF Inv, AttemptsBounded, Evolves
<1>6. ASSUME pc' = pc, held' = held PROVE HeldInv'
  <2>1. CASE pc \in HoldingPcs
    <3>1. held.id \in Ids
      BY <2>1 DEF Inv, HeldInv, Entry
    <3> QED BY <1>6, <2>1, <3>1 DEF Inv, HeldInv, Evolves
  <2>2. CASE pc \notin HoldingPcs
    BY <1>6, <2>2 DEF Inv, HeldInv
  <2> QED BY <2>1, <2>2
<1> QED BY <1>2, <1>4, <1>5, <1>6

\* Between two steps of a command, others may change the rows but never remove one.
LEMMA CommandKeeps ==
  ASSUME Inv, Evolves(rows, rows', now), UNCHANGED cliVars
  PROVE  CliTypeOK' /\ CliCarries'
BY DEF Inv, TypeOK, CliTypeOK, CliCarries, Evolves, cliVars

\* A step that leaves the poll job alone.
LEMMA PollIdles ==
  ASSUME Inv, UNCHANGED pollVars
  PROVE  PollTypeOK' /\ PollCarries'
BY DEF Inv, TypeOK, PollTypeOK, PollCarries, pollVars, Interval

\* A step that leaves the morning job alone.
LEMMA MorningIdles ==
  ASSUME Inv, UNCHANGED morningVars
  PROVE  MorningTypeOK' /\ MorningCarries'
BY DEF Inv, TypeOK, MorningTypeOK, MorningCarries, morningVars

\* Another event is counted.
LEMMA OccursKeeps ==
  ASSUME Inv, Occurs
  PROVE  events' \in Nat
BY DEF Inv, TypeOK, Occurs

-----------------------------------------------------------------------------
\* The commands.

\* schedule_ping and cancel_pings, as the commands use them.
LEMMA SavePingKeeps ==
  ASSUME Inv, NEW step \in {"adjust.ping", "undo.ping", "snooze.ping"}, SavePing(step)
  PROVE  /\ Evolves(rows, rows', now)
         /\ CliTypeOK' /\ CliCarries'
<1>1. now \in Int /\ Sound(rows) /\ Fresh(rows) # {}
  BY SoundRows DEF Inv, TypeOK, SavePing, Spare
<1>2. cping.at \in Int
  BY DEF Inv, TypeOK, CliTypeOK, CliCarries, SavePing, Target
<1>3. rows' = Insert(RetirePings(rows, {"prep"}), "prep", cping.at)
  BY DEF SavePing, SchedulePing
<1>4. Evolves(rows, rows', now)
  BY <1>1, <1>2, <1>3, ReplaceEvolves DEF Kinds
<1>5. CliTypeOK' /\ CliCarries'
  BY DEF SavePing, Inv, TypeOK, CliTypeOK, CliCarries
<1> QED BY <1>4, <1>5

\* What a step of a command does to the rest of the system.
LEMMA CliKeeps ==
  ASSUME Inv, CliStep
  PROVE  /\ Evolves(rows, rows', now)
         /\ plan' \in Plan \cup {None} /\ muted' \in BOOLEAN
         /\ CliTypeOK' /\ CliCarries'
         /\ events' \in Nat /\ skipped' \subseteq Ids
         /\ UNCHANGED <<now, present, pollVars, morningVars, acknowledged>>
<1>1. /\ Sound(rows) /\ now \in Int /\ plan \in Plan \cup {None} /\ muted \in BOOLEAN
      /\ events \in Nat /\ skipped \subseteq Ids
  BY SoundRows DEF Inv, TypeOK, StoreTypeOK
<1>2. /\ cplan \in Plan \cup {None}
      /\ cping \in Target \cup {None}
      /\ log \in Seq(Logged)
  BY DEF Inv, TypeOK, CliTypeOK
<1>3. Evolves(rows, rows, now)
  BY <1>1, EvolvesRefl
<1>4. Occurs => events' \in Nat
  BY <1>1 DEF Occurs
<1>a. CASE Adjust
  <2>1. plan \in Plan /\ plan.prep \in Int
    BY <1>a, <1>1 DEF Adjust, Plan, OptTime
  <2>2. PICK shift \in Shifts, key \in Keys \cup {None} :
          /\ log' = Append(log, [key |-> key, prev |-> plan.prep, undone |-> FALSE])
          /\ cplan' = [plan EXCEPT !.prep = @ - shift]
    BY <1>a DEF Adjust
  <2>3. plan.prep - shift \in Int
    BY <2>1, ConstantsOK
  <2>4. cplan' = [plan EXCEPT !.prep = plan.prep - shift]
    BY <2>2
  <2>5. cplan' \in Plan /\ cplan'.prep = plan.prep - shift
    BY <2>1, <2>3, <2>4 DEF Plan, OptTime
  <2>6. cplan'.prep # None
    BY <2>3, <2>5, NoneIsNoValue
  <2>7. [key |-> key, prev |-> plan.prep, undone |-> FALSE] \in Logged
    BY <2>1 DEF Logged
  <2>8. log' \in Seq(Logged)
    BY <1>2, <2>2, <2>7
  <2>9. CliTypeOK' /\ CliCarries'
    BY <1>a, <1>2, <2>5, <2>6, <2>8 DEF Adjust, CliTypeOK, CliCarries
  <2> QED BY <1>a, <1>1, <1>3, <1>4, <2>9 DEF Adjust, storeVars, history, CliRest
<1>b. CASE AdjustSave
  <2>1. cplan \in Plan /\ cplan.prep \in Int
    BY <1>b DEF AdjustSave, Inv, CliCarries, Plan, OptTime
  <2> DEFINE prep == Max2(cplan.prep, now)
  <2>2. prep \in Int
    BY <1>1, <2>1 DEF Max2
  <2>3. plan' = [cplan EXCEPT !.prep = prep]
    BY <1>b DEF AdjustSave
  <2>4. \/ cpc' = "adjust.ping" /\ cping' = [id |-> None, at |-> prep]
        \/ cpc' = "idle" /\ cping' = cping
    BY <1>b DEF AdjustSave
  <2> HIDE DEF prep
  <2>5. plan' \in Plan
    BY <2>1, <2>2, <2>3 DEF Plan, OptTime
  <2>6. [id |-> None, at |-> prep] \in Target
    BY <2>2 DEF Target
  <2>7. CliTypeOK' 
    BY <1>b, <1>2, <2>4, <2>6 DEF AdjustSave, CliTypeOK
  <2>8. [id |-> None, at |-> prep] # None
    BY <2>6, ConstantsOK
  <2>9. CliCarries'
    BY <1>b, <2>4, <2>8 DEF CliCarries
  <2> QED BY <1>b, <1>1, <1>3, <2>5, <2>7, <2>9 DEF AdjustSave, history, CliRest
<1>c. CASE AdjustPing
  BY <1>c, <1>1, SavePingKeeps DEF AdjustPing, SavePing, history, CliRest
<1>d. CASE Undo
  <2>1. PICK e \in LastAdjust :
         IF plan = None
         THEN /\ log' = [log EXCEPT ![e].undone = TRUE]
              /\ UNCHANGED <<cpc, cplan, cping>>
         ELSE LET prep == Max2(log[e].prev, now)
              IN  /\ cplan' = [plan EXCEPT !.prep = prep]
                  /\ cping' = IF prep > now THEN [id |-> None, at |-> prep] ELSE None
                  /\ cpc' = "undo.save" /\ UNCHANGED log
    BY <1>d DEF Undo
  <2>2. e \in 1..Len(log)
    BY DEF LastAdjust
  <2>3. log[e] \in Logged
    BY <1>2, <2>2
  <2>4. CASE plan = None
    <3>1. log' = [log EXCEPT ![e].undone = TRUE]
      BY <2>1, <2>4
    <3>2. [log[e] EXCEPT !.undone = TRUE] \in Logged
      BY <2>3 DEF Logged
    <3>3. log' = [log EXCEPT ![e] = [log[e] EXCEPT !.undone = TRUE]]
      BY <3>1
    <3>4. log' \in Seq(Logged)
      BY <1>2, <2>2, <3>2, <3>3
    <3>5. cpc' = "idle" /\ cplan' = cplan /\ cping' = cping
      BY <1>d, <2>1, <2>4 DEF Undo
    <3>6. CliTypeOK' /\ CliCarries'
      BY <1>2, <3>4, <3>5 DEF CliTypeOK, CliCarries
    <3> QED BY <1>d, <1>1, <1>3, <1>4, <3>6 DEF Undo, storeVars, history, CliRest
  <2>5. CASE plan # None
    <3> DEFINE prep == Max2(log[e].prev, now)
    <3>1. prep \in Int /\ plan \in Plan
      BY <1>1, <2>3, <2>5 DEF Max2, Logged
    <3>2. /\ cplan' = [plan EXCEPT !.prep = prep]
          /\ cping' \in {[id |-> None, at |-> prep], None}
          /\ cpc' = "undo.save" /\ UNCHANGED log
      BY <2>1, <2>5
    <3> HIDE DEF prep
    <3>3. cplan' \in Plan
      BY <3>1, <3>2 DEF Plan, OptTime
    <3>4. cping' \in Target \cup {None}
      BY <3>1, <3>2 DEF Target
    <3>5. CliTypeOK' /\ CliCarries'
      BY <1>2, <3>2, <3>3, <3>4 DEF CliTypeOK, CliCarries
    <3> QED BY <1>d, <1>1, <1>3, <1>4, <3>5 DEF Undo, storeVars, history, CliRest
  <2> QED BY <2>4, <2>5
<1>e. CASE UndoSave
  <2>1. cplan \in Plan
    BY <1>e DEF UndoSave, Inv, CliCarries
  <2>2. CliTypeOK' /\ CliCarries'
    BY <1>e, <1>2 DEF UndoSave, SavePlan, CliTypeOK, CliCarries
  <2> QED BY <1>e, <1>1, <1>3, <2>1, <2>2 DEF UndoSave, SavePlan, history, CliRest
<1>f. CASE UndoMark
  <2>1. PICK e \in LastAdjust : log' = [log EXCEPT ![e].undone = TRUE]
    BY <1>f DEF UndoMark
  <2>2. e \in 1..Len(log)
    BY DEF LastAdjust
  <2>3. log[e] \in Logged
    BY <1>2, <2>2
  <2>4. [log[e] EXCEPT !.undone = TRUE] \in Logged
    BY <2>3 DEF Logged
  <2>5. log' = [log EXCEPT ![e] = [log[e] EXCEPT !.undone = TRUE]]
    BY <2>1
  <2>6. log' \in Seq(Logged)
    BY <1>2, <2>2, <2>4, <2>5
  <2>7. CliTypeOK' /\ CliCarries'
    BY <1>f, <1>2, <2>6 DEF UndoMark, CliTypeOK, CliCarries
  <2> QED BY <1>f, <1>1, <1>3, <2>7 DEF UndoMark, storeVars, history, CliRest
<1>g. CASE UndoPing
  BY <1>g, <1>1, SavePingKeeps DEF UndoPing, SavePing, history, CliRest
<1>h. CASE Snooze
  <2>1. PICK i \in Pending(rows, "prep"), shift \in Shifts :
          cping' = [id |-> i, at |-> rows[i].at + shift]
    BY <1>h DEF Snooze
  <2>2. i \in Ids /\ rows[i].at \in Int /\ shift \in Int
    BY <1>1, ConstantsOK DEF Pending, Sound, Row
  <2>3. cping' \in Target
    BY <2>1, <2>2 DEF Target
  <2>4. cping' # None
    BY <2>3, ConstantsOK
  <2>5. CliTypeOK' /\ CliCarries'
    BY <1>h, <1>2, <2>3, <2>4 DEF Snooze, CliTypeOK, CliCarries
  <2> QED BY <1>h, <1>1, <1>3, <1>4, <2>5 DEF Snooze, storeVars, history, CliRest
<1>i. CASE SnoozePing
  BY <1>i, <1>1, SavePingKeeps DEF SnoozePing, SavePing, history, CliRest
<1>j. CASE Skip
  <2>1. PICK i \in Pending(rows, "prep") : cping' = [id |-> i, at |-> rows[i].at]
    BY <1>j DEF Skip
  <2>2. i \in Ids /\ rows[i].at \in Int /\ rows[i] # None
    BY <1>1 DEF Pending, Sound, Row
  <2>3. cping' \in Target /\ cping'.id = i
    BY <2>1, <2>2 DEF Target
  <2>4. cping' # None
    BY <2>3, ConstantsOK
  <2>5. CliTypeOK' /\ CliCarries'
    BY <1>j, <1>2, <2>2, <2>3, <2>4 DEF Skip, storeVars, CliTypeOK, CliCarries
  <2> QED BY <1>j, <1>1, <1>3, <1>4, <2>5 DEF Skip, storeVars, history, CliRest
<1>k. CASE SkipMark
  <2>1. cping.id \in Ids /\ rows[cping.id] # None
    BY <1>k DEF SkipMark, Inv, CliCarries
  <2>2. Evolves(rows, rows', now)
    BY <1>k, <1>1, <2>1, FireEvolves DEF SkipMark, MarkFired
  <2>3. CliTypeOK' /\ CliCarries'
    BY <1>k, <1>2 DEF SkipMark, CliTypeOK, CliCarries
  <2> QED BY <1>k, <1>1, <2>1, <2>2, <2>3 DEF SkipMark, history, CliRest
<1>l. CASE Mute
  <2>1. CliTypeOK' /\ CliCarries'
    BY <1>l, <1>2 DEF Mute, CliTypeOK, CliCarries
  <2> QED BY <1>l, <1>1, <1>3, <1>4, <2>1 DEF Mute, history, CliRest
<1>m. CASE MuteCancel
  <2>1. Evolves(rows, rows', now)
    BY <1>m, <1>1, RetireEvolves DEF MuteCancel, CancelPings
  <2>2. CliTypeOK' /\ CliCarries'
    BY <1>m, <1>2 DEF MuteCancel, CliTypeOK, CliCarries
  <2> QED BY <1>m, <1>1, <2>1, <2>2 DEF MuteCancel, history, CliRest
<1>n. CASE Unmute
  <2>1. CliTypeOK' /\ CliCarries'
    BY <1>n DEF Unmute, Inv, TypeOK, CliTypeOK, CliCarries
  <2> QED BY <1>n, <1>1, <1>3, <1>4, <2>1 DEF Unmute, history, CliRest
<1>o. CASE PlanCommand
  <2>1. PICK o \in Offers : cplan' = Planned(o, now)
    BY <1>o DEF PlanCommand
  <2>2. cplan' \in Plan
    BY <1>1, <2>1, PlannedIsPlan, ConstantsOK
  <2>3. CliTypeOK' /\ CliCarries'
    BY <1>o, <1>2, <2>2 DEF PlanCommand, CliTypeOK, CliCarries
  <2> QED BY <1>o, <1>1, <1>3, <1>4, <2>3 DEF PlanCommand, storeVars, history, CliRest
<1>p. CASE PlanSave
  <2>1. cplan \in Plan
    BY <1>p DEF PlanSave, Inv, CliCarries
  <2>2. CliTypeOK' /\ CliCarries'
    BY <1>p, <1>2 DEF PlanSave, SavePlan, CliTypeOK, CliCarries
  <2> QED BY <1>p, <1>1, <1>3, <2>1, <2>2 DEF PlanSave, SavePlan, history, CliRest
<1> QED BY <1>a, <1>b, <1>c, <1>d, <1>e, <1>f, <1>g, <1>h, <1>i, <1>j, <1>k, <1>l, <1>m,
           <1>n, <1>o, <1>p DEF CliStep

-----------------------------------------------------------------------------
\* The morning job, the clock and crashes.

\* Morning's reconciliation leaves a well-formed plan and evolves the rows
\* (reconcile_morning_plan).
LEMMA MorningKeeps ==
  ASSUME Inv, MorningStep
  PROVE  /\ Evolves(rows, rows', now)
         /\ plan' \in Plan \cup {None}
         /\ MorningTypeOK' /\ MorningCarries' /\ events' \in Nat
         /\ UNCHANGED <<muted, now, present, pollVars, cliVars, history>>
<1>1. /\ Sound(rows) /\ now \in Int /\ plan \in Plan \cup {None} /\ events \in Nat
      /\ mnow \in Int /\ msnap \in Plan \cup {None} /\ mfresh \in Plan \cup {None}
  BY SoundRows DEF Inv, TypeOK, StoreTypeOK, MorningTypeOK
<1>2. Evolves(rows, rows, now)
  BY <1>1, EvolvesRefl
<1>3. CASE MorningStart
  <2>1. MorningTypeOK' /\ MorningCarries'
    BY <1>1, <1>3 DEF MorningStart, MorningTypeOK, MorningCarries
  <2> QED BY <1>1, <1>2, <1>3, <2>1, OccursKeeps DEF MorningStart, storeVars
<1>4. CASE MorningPlan
  <2>1. MorningTypeOK' /\ MorningCarries'
    <3>1. \A o \in Offers : Planned(o, now) \in Plan
      BY <1>1, PlannedIsPlan, ConstantsOK
    <3> QED BY <1>1, <1>4, <3>1 DEF MorningPlan, MorningDone, MorningTypeOK, MorningCarries
  <2> QED BY <1>1, <1>2, <1>4, <2>1 DEF MorningPlan, storeVars
<1>5. CASE MorningCommit
  <2>1. MorningTypeOK' /\ MorningCarries'
    BY <1>5 DEF MorningCommit, MorningDone, MorningTypeOK, MorningCarries
  <2>2. Evolves(rows, rows', now) /\ plan' \in Plan \cup {None}
    <3>1. CASE mpc = "planned" /\ plan = msnap
      <4>1. Spare(rows) /\ ReconcileMorning(mfresh, msnap, mnow) /\ mfresh \in Plan
        BY <1>5, <3>1 DEF MorningCommit, Inv, MorningCarries
      <4>2. plan' \in Plan \cup {None}
        BY <1>1, <4>1 DEF ReconcileMorning
      <4>3. rows' = rows \/ rows' = MorningRows(rows, mfresh, msnap, mnow)
        BY <4>1 DEF ReconcileMorning
      <4> QED BY <1>1, <1>2, <4>1, <4>2, <4>3, MorningEvolves
    <3>2. CASE mpc = "absent" /\ plan = msnap /\ plan # None
      <4>1. plan' = None /\ rows' = RetirePings(rows, Kinds)
        BY <1>5, <3>2 DEF MorningCommit, RemovePlan
      <4> QED BY <1>1, <4>1, RetireEvolves
    <3>3. CASE ~(mpc = "planned" /\ plan = msnap) /\ ~(mpc = "absent" /\ plan = msnap /\ plan # None)
      <4>1. UNCHANGED <<plan, rows>>
        BY <1>5, <3>3 DEF MorningCommit
      <4> QED BY <1>1, <1>2, <4>1
    <3> QED BY <3>1, <3>2, <3>3
  <2> QED BY <1>1, <1>5, <2>1, <2>2 DEF MorningCommit
<1> QED BY <1>3, <1>4, <1>5 DEF MorningStep

-----------------------------------------------------------------------------
\* The poll job.  Claiming evolves the rows and takes one in hand; releasing
\* gives back the one in hand, the only way a row ever becomes unfired.

\* A claim evolves the rows and hands out the row it consumed (claim_ping_entry).
LEMMA ClaimKeeps ==
  ASSUME Inv, NEW i \in Ids, pc = "dispatch", Claim(i)
  PROVE  /\ Evolves(rows, rows', now)
         /\ pc' \in {"dispatch", "claimed"} /\ tried' \subseteq Ids
         /\ \/ held' = None /\ pc' = "dispatch"
            \/ /\ pc' = "claimed" /\ held' \in Entry /\ held'.id = i
               /\ held'.kind = rows[i].kind /\ held'.attempts = rows[i].attempts
               /\ rows[i] # None /\ ~rows[i].fired /\ rows'[i].fired
               /\ ~Suppressed(i, now)
<1>1. /\ Sound(rows) /\ now \in Int /\ tried \subseteq Ids /\ held = None
  BY SoundRows DEF Inv, TypeOK, PollTypeOK, HeldInv, HoldingPcs
<1>2. CASE ~Claimable(i, now, Quiet(now), present)
  BY <1>1, <1>2, EvolvesRefl DEF Claim
<1>3. CASE Claimable(i, now, Quiet(now), present)
  <2>1. rows[i] # None /\ ~rows[i].fired
    BY <1>3 DEF Claimable, Eligible
  <2>2. rows' = [rows EXCEPT ![i].fired = TRUE]
    BY <1>3 DEF Claim
  <2>3. Evolves(rows, rows', now)
    BY <1>1, <2>1, <2>2, FireEvolves
  <2>4. rows[i] \in Row
    BY <1>1, <2>1 DEF Sound
  <2>5. rows'[i].fired
    BY <1>1, <2>2, <2>4 DEF Sound, Row
  <2>6. \/ UNCHANGED <<held, pc>> /\ tried' \subseteq Ids
        \/ /\ held' = [id |-> i, kind |-> rows[i].kind, at |-> rows[i].at,
                       attempts |-> rows[i].attempts]
           /\ pc' = "claimed" /\ tried' \subseteq Ids /\ ~Suppressed(i, now)
    BY <1>1, <1>3 DEF Claim
  <2>7. [id |-> i, kind |-> rows[i].kind, at |-> rows[i].at,
         attempts |-> rows[i].attempts] \in Entry
    BY <2>4 DEF Row, Entry
  <2> QED BY <1>1, <2>1, <2>3, <2>5, <2>6, <2>7
<1> QED BY <1>2, <1>3

\* release_ping hands back the row in hand, if nothing superseded it.
LEMMA ReleaseProperties ==
  ASSUME Inv, pc = "failed", PollRelease
  PROVE  \/ UNCHANGED rows
         \/ /\ ReleaseAllowed(held.id) /\ held.attempts + 1 < MaxSendAttempts
            /\ rows' = [rows EXCEPT ![held.id].fired = FALSE, ![held.id].attempts = @ + 1]
BY DEF PollRelease, ReleasePing, Retryable

\* Handing a row back touches only the row the poll job holds (release_ping).
LEMMA ReleaseKeeps ==
  ASSUME Inv, pc = "failed", PollRelease
  PROVE  /\ rows' \in [Ids -> Row \cup {None}]
         /\ OneGeneration' /\ Consumed' /\ AttemptsBounded'
         /\ \A i \in Ids : rows[i] # None => rows'[i] # None
         /\ \A i \in Ids : rows[i] # None =>
              /\ rows'[i].kind = rows[i].kind /\ rows'[i].at = rows[i].at
              /\ rows'[i].retired = rows[i].retired
              /\ rows'[i].fired => rows[i].fired
              /\ rows[i].retired => rows'[i].fired
<1> DEFINE h == held.id
<1>1. /\ Sound(rows) /\ h \in Ids /\ rows[h] # None /\ rows[h].attempts = held.attempts
      /\ h \notin acknowledged /\ acknowledged \subseteq Ids /\ acknowledged' = acknowledged
      /\ held.attempts \in Nat
  BY SoundRows DEF Inv, TypeOK, HeldInv, HoldingPcs, Entry, PollRelease, history
<1>2. CASE UNCHANGED rows
  BY <1>1, <1>2 DEF Inv, OneGeneration, Consumed, AttemptsBounded, LiveOf, Sound
<1>3. CASE /\ ReleaseAllowed(h) /\ held.attempts + 1 < MaxSendAttempts
           /\ rows' = [rows EXCEPT ![h].fired = FALSE, ![h].attempts = @ + 1]
  <2>1. rows[h] \in Row /\ ~rows[h].retired
    BY <1>1, <1>3 DEF Sound, ReleaseAllowed
  <2>2. \A i \in Ids \ {h} : rows'[i] = rows[i]
    BY <1>1, <1>3 DEF Sound
  <2>3. rows'[h] = [rows[h] EXCEPT !.fired = FALSE, !.attempts = rows[h].attempts + 1]
    BY <1>1, <1>3 DEF Sound
  <2>4. /\ rows'[h] \in Row /\ ~rows'[h].fired /\ ~rows'[h].retired
        /\ rows'[h].kind = rows[h].kind /\ rows'[h].at = rows[h].at
        /\ rows'[h].attempts = held.attempts + 1 /\ rows'[h].retired = rows[h].retired
    <3> HIDE DEF h
    <3>1. rows[h].attempts + 1 \in Nat /\ rows[h].attempts = held.attempts
      BY <1>1
    <3> QED BY <2>1, <2>3, <3>1 DEF Row
  <2>5. rows'[h] # None
    BY <2>4, NoneIsNoValue
  <2>6. rows' \in [Ids -> Row \cup {None}]
    BY <1>1, <1>3, <2>2, <2>4 DEF Sound
  <2>7. \A k \in Kinds : LiveOf(rows', k) = LiveOf(rows, k)
    BY <1>1, <2>1, <2>2, <2>4, <2>5 DEF LiveOf
  <2>8. OneGeneration'
    BY <1>1, <2>2, <2>4, <2>7 DEF OneGeneration, Sound
  <2>9. Consumed'
    BY <1>1, <2>2 DEF Inv, Consumed
  <2>10. AttemptsBounded'
    BY <1>3, <2>2, <2>4 DEF Inv, AttemptsBounded
  <2>11. \A i \in Ids : rows[i] # None /\ rows[i].retired => rows[i].fired
    BY <1>1 DEF Sound
  <2> HIDE DEF h
  <2> QED BY <1>1, <2>1, <2>2, <2>4, <2>5, <2>6, <2>8, <2>9, <2>10, <2>11
<1> QED BY <1>2, <1>3, ReleaseProperties

\* What remains to be shown of a poll step that evolves the rows.
LEMMA PollFrame ==
  ASSUME Inv, Evolves(rows, rows', now), plan' \in Plan \cup {None}, events' \in Nat,
         UNCHANGED <<muted, now, present, morningVars, cliVars, history>>,
         PollTypeOK', HeldInv', PollCarries'
  PROVE  Inv'
<1>1. /\ rows' \in [Ids -> Row \cup {None}]
      /\ OneGeneration' /\ Consumed' /\ AttemptsBounded'
  BY EvolutionKeeps DEF history
<1>2. CliTypeOK' /\ CliCarries'
  BY CommandKeeps
<1>3. MorningTypeOK' /\ MorningCarries'
  BY MorningIdles
<1>4. StoreTypeOK'
  BY <1>1 DEF StoreTypeOK, Inv, TypeOK
<1>5. TypeOK'
  BY <1>2, <1>3, <1>4 DEF Inv, TypeOK, history
<1> QED BY <1>1, <1>2, <1>3, <1>5 DEF Inv

\* Every step of the poll job preserves the invariant.
LEMMA PollStepInv ==
  ASSUME Inv, PollStep
  PROVE  Inv'
<1>1. /\ Sound(rows) /\ now \in Int /\ plan \in Plan \cup {None} /\ events \in Nat
      /\ PollTypeOK /\ HeldInv /\ PollCarries
  BY SoundRows DEF Inv, TypeOK, StoreTypeOK
<1>2. Evolves(rows, rows, now)
  BY <1>1, EvolvesRefl
<1> USE DEF HoldingPcs
<1>a. CASE PollStart
  <2>1. PollTypeOK' /\ HeldInv' /\ PollCarries'
    BY <1>a, <1>1 DEF PollStart, Refreshable, PollTypeOK, HeldInv, PollCarries
  <2> QED BY <1>a, <1>1, <1>2, <2>1, PollFrame DEF PollStart, storeVars
<1>b. CASE PollObserve
  <2>1. PollTypeOK' /\ HeldInv' /\ PollCarries'
    BY <1>b, <1>1 DEF PollObserve, PollTypeOK, HeldInv, PollCarries
  <2>2. Evolves(rows, rows', now) /\ plan' \in Plan \cup {None}
    <3>1. CASE UNCHANGED <<plan, rows>>
      BY <1>1, <1>2, <3>1
    <3>2. CASE ~UNCHANGED <<plan, rows>>
      <4>1. PICK minutes \in 1..MaxPad :
              /\ BufferAccepted(snap, minutes, now)
              /\ plan' = BufferedPlan(plan, minutes)
              /\ rows' = BufferedRows(rows, minutes - plan.pad, now)
        BY <1>b, <3>2 DEF PollObserve, BufferWrite
      <4>2. plan \in Plan /\ minutes \in Nat
        BY <1>1, <4>1, ConstantsOK DEF BufferAccepted
      <4>3. minutes - plan.pad \in Int
        BY <4>2 DEF Plan
      <4> QED BY <1>1, <4>1, <4>2, <4>3, BufferedIsPlan, BufferEvolves
    <3> QED BY <3>1, <3>2
  <2> QED BY <1>b, <1>1, <2>1, <2>2, PollFrame DEF PollObserve
<1>c. CASE PollScan
  <2>1. PollTypeOK' /\ HeldInv' /\ PollCarries'
    BY <1>c, <1>1 DEF PollScan, Due, PollTypeOK, HeldInv, PollCarries
  <2> QED BY <1>c, <1>1, <1>2, <2>1, PollFrame DEF PollScan, storeVars
<1>d. CASE PollClaim
  <2>1. PICK i \in todo : Claim(i) /\ todo' = todo \ {i}
    BY <1>d DEF PollClaim
  <2>2. i \in Ids /\ pc = "dispatch" /\ acknowledged' = acknowledged
    BY <1>d, <1>1 DEF PollClaim, PollTypeOK, history
  <2>3. /\ Evolves(rows, rows', now)
        /\ pc' \in {"dispatch", "claimed"} /\ tried' \subseteq Ids
        /\ \/ held' = None /\ pc' = "dispatch"
           \/ /\ pc' = "claimed" /\ held' \in Entry /\ held'.id = i
              /\ held'.kind = rows[i].kind /\ held'.attempts = rows[i].attempts
              /\ rows[i] # None /\ ~rows[i].fired /\ rows'[i].fired
    BY <2>1, <2>2, ClaimKeeps
  <2>4. PollTypeOK' /\ PollCarries'
    BY <1>d, <1>1, <2>1, <2>3 DEF PollClaim, PollTypeOK, PollCarries
  <2>5. rows[i] # None /\ ~rows[i].fired => i \notin acknowledged
    BY DEF Inv, Consumed
  <2>6. rows[i] # None => rows'[i] # None /\ rows'[i].attempts = rows[i].attempts
    BY <2>2, <2>3 DEF Evolves
  <2>7. HeldInv'
    BY <2>2, <2>3, <2>5, <2>6 DEF HeldInv
  <2> QED BY <1>d, <1>1, <2>3, <2>4, <2>7, PollFrame DEF PollClaim
<1>e. CASE PollMuteCheck
  <2>1. PollTypeOK' /\ HeldInv' /\ PollCarries'
    BY <1>e, <1>1 DEF PollMuteCheck, MuteCheck, storeVars, history, PollTypeOK, HeldInv, PollCarries
  <2> QED BY <1>e, <1>1, <1>2, <2>1, PollFrame DEF PollMuteCheck, storeVars
<1>f. CASE PollSend
  <2>1. held.id \in Ids /\ rows[held.id] # None /\ rows[held.id].fired
    BY <1>f, <1>1 DEF PollSend, HeldInv, Entry
  <2>2. PollTypeOK' /\ HeldInv' /\ PollCarries'
    BY <1>f, <1>1 DEF PollSend, storeVars, PollTypeOK, HeldInv, PollCarries
  <2>3. acknowledged' \subseteq Ids /\ Consumed'
    BY <1>f, <2>1 DEF PollSend, storeVars, Inv, TypeOK, Consumed
  <2>4. StoreTypeOK' /\ OneGeneration' /\ AttemptsBounded'
    BY <1>f DEF PollSend, storeVars, Inv, TypeOK, StoreTypeOK, OneGeneration, LiveOf,
                AttemptsBounded
  <2>5. CliTypeOK' /\ CliCarries' /\ MorningTypeOK' /\ MorningCarries'
    BY <1>f, <1>2, CommandKeeps, MorningIdles DEF PollSend, storeVars
  <2>6. TypeOK'
    BY <1>f, <2>2, <2>3, <2>4, <2>5 DEF PollSend, Inv, TypeOK
  <2> QED BY <2>2, <2>3, <2>4, <2>5, <2>6 DEF Inv
<1>g. CASE PollRelease
  <2>1. /\ rows' \in [Ids -> Row \cup {None}]
        /\ OneGeneration' /\ Consumed' /\ AttemptsBounded'
        /\ \A i \in Ids : rows[i] # None => rows'[i] # None
    BY <1>g, ReleaseKeeps DEF PollRelease
  <2>2. PollTypeOK' /\ HeldInv' /\ PollCarries'
    BY <1>g, <1>1 DEF PollRelease, PollTypeOK, HeldInv, PollCarries
  <2>3. CliTypeOK' /\ CliCarries'
    BY <1>g, <2>1 DEF PollRelease, cliVars, Inv, TypeOK, CliTypeOK, CliCarries
  <2>4. MorningTypeOK' /\ MorningCarries'
    BY <1>g, MorningIdles DEF PollRelease
  <2>5. StoreTypeOK'
    BY <1>g, <2>1 DEF PollRelease, Inv, TypeOK, StoreTypeOK
  <2>6. TypeOK'
    BY <1>g, <2>2, <2>3, <2>4, <2>5 DEF PollRelease, history, Inv, TypeOK
  <2> QED BY <2>1, <2>2, <2>3, <2>4, <2>6 DEF Inv
<1>h. CASE PollReplanRead
  <2>1. PollTypeOK' /\ HeldInv' /\ PollCarries'
    BY <1>h, <1>1 DEF PollReplanRead, Replannable, Ready, PollTypeOK, HeldInv, PollCarries
  <2> QED BY <1>h, <1>1, <1>2, <2>1, OccursKeeps, PollFrame DEF PollReplanRead, storeVars
<1>i. CASE PollPlan
  <2>1. PICK o \in Offers, same \in BOOLEAN :
          \/ fresh' = Retained(snap, Planned(o, now), same) /\ pc' = "planned"
             /\ UNCHANGED <<phase, snap>>
          \/ pc' = "dispatch" /\ phase' = AfterPhase /\ snap' = None /\ UNCHANGED fresh
    BY <1>i DEF PollPlan
  <2>2. snap \in Plan /\ Planned(o, now) \in Plan
    BY <1>i, <1>1, ConstantsOK, PlannedIsPlan DEF PollPlan, PollCarries
  <2>3. LET p == Retained(snap, Planned(o, now), same)
        IN  /\ p \in Plan
            /\ snap.prep # None /\ snap.leave # None /\ p.leave # None =>
                 p.prep # None /\ Interval(p) = Interval(snap)
    BY <2>2, RetainedProperties
  <2>4. PollTypeOK' /\ HeldInv' /\ PollCarries'
    BY <1>i, <1>1, <2>1, <2>2, <2>3
       DEF PollPlan, AfterPhase, PollTypeOK, HeldInv, PollCarries
  <2> QED BY <1>i, <1>1, <1>2, <2>4, PollFrame DEF PollPlan, storeVars
<1>j. CASE PollCommit
  <2>1. PollTypeOK' /\ HeldInv' /\ PollCarries'
    BY <1>j, <1>1 DEF PollCommit, AfterPhase, PollTypeOK, HeldInv, PollCarries
  <2>2. Evolves(rows, rows', now) /\ plan' \in Plan \cup {None}
    <3>1. CASE UNCHANGED <<plan, rows>>
      BY <1>1, <1>2, <3>1
    <3>2. CASE ~UNCHANGED <<plan, rows>>
      <4>1. /\ NeedsPing(rows, "prep", fresh.prep) \/ NeedsPing(rows, "leave", fresh.leave)
                 => Spare(rows)
            /\ plan' = fresh /\ rows' = ReplanRows(rows, snap, fresh, now)
        BY <1>j, <3>2 DEF PollCommit
      <4>2. snap \in Plan /\ fresh \in Plan
        BY <1>j, <1>1 DEF PollCommit, PollCarries
      <4> QED BY <1>1, <4>1, <4>2, ReplanEvolves
    <3> QED BY <3>1, <3>2
  <2> QED BY <1>j, <1>1, <2>1, <2>2, PollFrame DEF PollCommit
<1>k. CASE PollEnd
  <2>1. PollTypeOK' /\ HeldInv' /\ PollCarries'
    BY <1>k, <1>1 DEF PollEnd, Ready, PollTypeOK, HeldInv, PollCarries
  <2> QED BY <1>k, <1>1, <1>2, <2>1, PollFrame DEF PollEnd, storeVars
<1> QED BY <1>a, <1>b, <1>c, <1>d, <1>e, <1>f, <1>g, <1>h, <1>i, <1>j, <1>k DEF PollStep

-----------------------------------------------------------------------------
\* The whole system.

\* The clock, the phone's location and crashes leave the store alone.
LEMMA SurroundingsInv ==
  ASSUME Inv, Tick \/ Move \/ Crash
  PROVE  Inv'
<1>1. Sound(rows) /\ now \in Int /\ events \in Nat
  BY SoundRows DEF Inv, TypeOK
<1>2. Evolves(rows, rows', now)
  BY <1>1, EvolvesRefl DEF Tick, Move, Crash, storeVars
<1>3. MorningTypeOK' /\ MorningCarries'
  BY MorningIdles DEF Tick, Move, Crash
<1>4. StoreTypeOK' /\ OneGeneration' /\ Consumed' /\ AttemptsBounded'
  BY <1>2, EvolutionKeeps DEF Tick, Move, Crash, storeVars, history, Inv, TypeOK, StoreTypeOK
<1>5. events' \in Nat /\ acknowledged' \subseteq Ids /\ skipped' \subseteq Ids
  BY <1>1, OccursKeeps DEF Tick, Move, Crash, history, Inv, TypeOK
<1>6. CASE Tick
  <2>1. now' \in Int /\ present' \in BOOLEAN
    BY <1>1, <1>6 DEF Tick, Inv, TypeOK
  <2>2. PollTypeOK' /\ PollCarries' /\ CliTypeOK' /\ CliCarries'
    BY <1>2, <1>6, PollIdles, CommandKeeps DEF Tick
  <2>3. HeldInv'
    BY <1>2, <1>6, EvolutionKeeps DEF Tick, pollVars, history
  <2> QED BY <1>3, <1>4, <1>5, <2>1, <2>2, <2>3 DEF Inv, TypeOK
<1>7. CASE Move
  <2>1. now' \in Int /\ present' \in BOOLEAN
    BY <1>1, <1>7, ConstantsOK DEF Move
  <2>2. PollTypeOK' /\ PollCarries' /\ CliTypeOK' /\ CliCarries'
    BY <1>2, <1>7, PollIdles, CommandKeeps DEF Move
  <2>3. HeldInv'
    BY <1>2, <1>7, EvolutionKeeps DEF Move, pollVars, history
  <2> QED BY <1>3, <1>4, <1>5, <2>1, <2>2, <2>3 DEF Inv, TypeOK
<1>8. CASE Crash
  <2>1. now' \in Int /\ present' \in BOOLEAN
    BY <1>1, <1>8 DEF Crash, Inv, TypeOK
  <2>2. CliTypeOK' /\ CliCarries'
    BY <1>8 DEF Crash, storeVars, Inv, TypeOK, CliTypeOK, CliCarries
  <2>3. PollTypeOK' /\ PollCarries' /\ HeldInv'
    <3>1. CASE UNCHANGED pollVars
      BY <1>2, <1>8, <3>1, PollIdles, EvolutionKeeps DEF Crash, pollVars, history
    <3>2. CASE ~UNCHANGED pollVars
      BY <1>8, <3>2 DEF Crash, Inv, TypeOK, PollTypeOK, PollCarries, HeldInv, HoldingPcs
    <3> QED BY <3>1, <3>2
  <2> QED BY <1>3, <1>4, <1>5, <2>1, <2>2, <2>3 DEF Inv, TypeOK
<1> QED BY <1>6, <1>7, <1>8

\* A step that changes nothing preserves the invariant.
LEMMA StutterInv ==
  ASSUME Inv, UNCHANGED vars
  PROVE  Inv'
BY DEF vars, storeVars, pollVars, morningVars, cliVars, history, Inv, TypeOK, StoreTypeOK,
       PollTypeOK, MorningTypeOK, CliTypeOK, OneGeneration, LiveOf, HeldInv, PollCarries,
       MorningCarries, CliCarries, Consumed, AttemptsBounded, Interval

\* Every step of every process preserves the invariant.
LEMMA StepInv ==
  ASSUME Inv, [Next]_vars
  PROVE  Inv'
<1>1. CASE PollStep
  BY <1>1, PollStepInv
<1>2. CASE MorningStep \/ CliStep
  <2>1. /\ Evolves(rows, rows', now) /\ plan' \in Plan \cup {None} /\ muted' \in BOOLEAN
        /\ CliTypeOK' /\ CliCarries' /\ MorningTypeOK' /\ MorningCarries'
        /\ events' \in Nat /\ skipped' \subseteq Ids
        /\ UNCHANGED <<now, present, pollVars, acknowledged>>
    BY <1>2, MorningKeeps, CliKeeps, CommandKeeps, MorningIdles
       DEF history, Inv, TypeOK, StoreTypeOK
  <2>2. PollTypeOK' /\ PollCarries'
    BY <2>1, PollIdles
  <2>3. /\ rows' \in [Ids -> Row \cup {None}]
        /\ OneGeneration' /\ Consumed' /\ AttemptsBounded' /\ HeldInv'
    BY <2>1, EvolutionKeeps DEF pollVars
  <2>4. TypeOK'
    BY <2>1, <2>2, <2>3 DEF Inv, TypeOK, StoreTypeOK
  <2> QED BY <2>1, <2>2, <2>3, <2>4 DEF Inv
<1>3. CASE Tick \/ Move \/ Crash
  BY <1>3, SurroundingsInv
<1>4. CASE UNCHANGED vars
  BY <1>4, StutterInv
<1> QED BY <1>1, <1>2, <1>3, <1>4 DEF Next

\* The invariant holds in every reachable state.
THEOREM InvHolds == Spec => []Inv
<1>1. Init => Inv
  BY InitInv
<1>2. Inv /\ [Next]_vars => Inv'
  BY StepInv
<1> QED BY <1>1, <1>2, PTL DEF Spec

\* Type correctness of the whole system.
THEOREM TypeCorrect == Spec => []TypeOK
<1>1. Inv => TypeOK
  BY DEF Inv
<1> QED BY <1>1, InvHolds, PTL

\* At most one generation of a reminder is in force at any time, however morning,
\* poll and the commands interleave: the unique index can never be violated.
THEOREM OneGenerationHolds == Spec => []OneGeneration
<1>1. Inv => OneGeneration
  BY DEF Inv
<1> QED BY <1>1, InvHolds, PTL

\* A generation is handed back fewer than _MAX_SEND_ATTEMPTS times.
THEOREM AttemptsAreBounded == Spec => []AttemptsBounded
<1>1. Inv => AttemptsBounded
  BY DEF Inv
<1> QED BY <1>1, InvHolds, PTL

\* No interleaving, retry, replan or crash sends an acknowledged reminder again.
THEOREM AcknowledgedOnceHolds == Spec => []AcknowledgedOnce
<1>1. Inv => AcknowledgedOnce
  BY DEF Inv, Consumed, HeldInv, AcknowledgedOnce
<1> QED BY <1>1, InvHolds, PTL

-----------------------------------------------------------------------------
\* Action properties: what no step may do.

\* Every step evolves the rows, or is a release of the row in hand; and only a
\* claim puts a row in hand: one that was pending and is not suppressed.
LEMMA StepCases ==
  ASSUME Inv, [Next]_vars
  PROVE  /\ Evolves(rows, rows', now) \/ PollRelease
         /\ \/ held' = held \/ held' = None
            \/ \E i \in Ids : /\ held'.id = i /\ held'.kind = rows[i].kind
                             /\ rows[i] # None /\ ~rows[i].fired /\ ~Suppressed(i, now)
<1>1. Sound(rows) /\ now \in Int /\ plan \in Plan \cup {None} /\ PollTypeOK /\ PollCarries
  BY SoundRows DEF Inv, TypeOK, StoreTypeOK
<1>2. Evolves(rows, rows, now)
  BY <1>1, EvolvesRefl
<1>3. CASE MorningStep \/ CliStep
  BY <1>3, MorningKeeps, CliKeeps DEF pollVars
<1>4. CASE Tick \/ Move \/ Crash \/ UNCHANGED vars
  BY <1>2, <1>4 DEF Tick, Move, Crash, vars, storeVars, pollVars
<1>5. CASE PollStart \/ PollScan \/ PollMuteCheck \/ PollReplanRead \/ PollPlan \/ PollEnd
  BY <1>2, <1>5 DEF PollStart, PollScan, PollMuteCheck, MuteCheck, PollReplanRead, PollPlan,
                    PollEnd, storeVars
<1>6. CASE PollObserve
  <2>1. held' = held
    BY <1>6 DEF PollObserve
  <2>2. CASE UNCHANGED rows
    BY <1>2, <2>1, <2>2
  <2>3. CASE ~UNCHANGED rows
    <3>1. PICK minutes \in 1..MaxPad :
            /\ BufferAccepted(snap, minutes, now)
            /\ rows' = BufferedRows(rows, minutes - plan.pad, now)
      BY <1>6, <2>3 DEF PollObserve, BufferWrite
    <3>2. minutes - plan.pad \in Int
      BY <1>1, <3>1, ConstantsOK DEF BufferAccepted, Plan
    <3> QED BY <1>1, <2>1, <3>1, <3>2, BufferEvolves
  <2> QED BY <2>2, <2>3
<1>7. CASE PollClaim
  <2>1. PICK i \in todo : Claim(i)
    BY <1>7 DEF PollClaim
  <2>2. i \in Ids /\ pc = "dispatch"
    BY <1>1, <1>7 DEF PollClaim, PollTypeOK
  <2> QED BY <2>1, <2>2, ClaimKeeps
<1>8. CASE PollSend \/ PollRelease
  BY <1>2, <1>8 DEF PollSend, PollRelease, storeVars
<1>9. CASE PollCommit
  <2>1. held' = held
    BY <1>9 DEF PollCommit
  <2>2. CASE UNCHANGED rows
    BY <1>2, <2>1, <2>2
  <2>3. CASE ~UNCHANGED rows
    <3>1. /\ NeedsPing(rows, "prep", fresh.prep) \/ NeedsPing(rows, "leave", fresh.leave)
               => Spare(rows)
          /\ rows' = ReplanRows(rows, snap, fresh, now)
      BY <1>9, <2>3 DEF PollCommit
    <3>2. snap \in Plan /\ fresh \in Plan
      BY <1>1, <1>9 DEF PollCommit, PollCarries
    <3> QED BY <1>1, <2>1, <3>1, <3>2, ReplanEvolves
  <2> QED BY <2>2, <2>3
<1> QED BY <1>3, <1>4, <1>5, <1>6, <1>7, <1>8, <1>9 DEF Next, PollStep

\* A superseded generation is dead: no failed send, retry or stale dispatch list
\* brings it back.
THEOREM SupersededStaysDeadHolds == Spec => SupersededStaysDead
<1> DEFINE Step == \A i \in Ids : rows[i] # None /\ rows[i].retired =>
              /\ rows'[i] # None /\ rows'[i].retired /\ rows'[i].fired
              /\ held' # None /\ held' # held => held'.id # i
<1>1. Inv /\ [Next]_vars => Step
  <2> SUFFICES ASSUME Inv, [Next]_vars, NEW i \in Ids, rows[i] # None, rows[i].retired
        PROVE  /\ rows'[i] # None /\ rows'[i].retired /\ rows'[i].fired
               /\ held' # None /\ held' # held => held'.id # i
    OBVIOUS
  <2>1. rows[i].fired
    BY SoundRows DEF Sound
  <2>2. held' # None /\ held' # held => held'.id # i
    BY <2>1, StepCases
  <2>3. CASE Evolves(rows, rows', now)
    BY <2>1, <2>2, <2>3 DEF Evolves
  <2>4. CASE PollRelease
    BY <2>1, <2>2, <2>4, ReleaseKeeps DEF PollRelease
  <2> QED BY <2>3, <2>4, StepCases
<1>2. Inv /\ [Next]_vars => [Step]_<<rows, held>>
  BY <1>1
<1> QED BY <1>2, InvHolds, PTL DEF Spec, SupersededStaysDead

\* Once a departure in force was acknowledged, its get-ready reminder is not sent.
THEOREM NoPrepAfterLeaveHolds == Spec => NoPrepAfterLeave
<1>1. Inv /\ [Next]_vars =>
        [held' # None /\ held' # held /\ held'.kind = "prep" =>
           LiveOf(rows, "leave") \cap acknowledged = {}]_held
  <2> SUFFICES ASSUME Inv, [Next]_vars, held' # None, held' # held, held'.kind = "prep",
                      NEW j \in LiveOf(rows, "leave"), j \in acknowledged
        PROVE  FALSE
    OBVIOUS
  <2>1. PICK i \in Ids : rows[i].kind = "prep" /\ ~Suppressed(i, now)
    BY StepCases
  <2>2. ~ObsoletePrep(plan, rows, now)
    BY <2>1 DEF Suppressed
  <2>3. rows[j].fired
    BY DEF Inv, Consumed
  <2> QED BY <2>2, <2>3 DEF ObsoletePrep
<1> QED BY <1>1, InvHolds, PTL DEF Spec, NoPrepAfterLeave

\* What poll planned from an old snapshot never overwrites a newer plan, and
\* the user's interval survives every replan and refresh.
THEOREM PollRespectsNewerPlanHolds == Spec => PollRespectsNewerPlan
<1> DEFINE Step == pc' # pc =>
             /\ plan = None => plan' = None
             /\ plan # None /\ plan.prep # None /\ plan.leave # None /\ plan'.leave # None =>
                  plan'.prep # None /\ Interval(plan') = Interval(plan)
<1>1. Inv /\ [Next]_vars => [Step]_plan
  <2> SUFFICES ASSUME Inv, [Next]_vars, plan' # plan, pc' # pc PROVE Step
    OBVIOUS
  <2>1. PollObserve \/ PollCommit
    BY DEF Next, MorningStep, MorningStart, MorningPlan, MorningCommit, CliStep, Adjust,
           AdjustSave, AdjustPing, Undo, UndoSave, UndoMark, UndoPing, Snooze, SnoozePing,
           Skip, SkipMark, Mute, MuteCancel, Unmute, PlanCommand, PlanSave, SavePlan, SavePing,
           CliRest, Tick, Move, Crash, PollStep, PollStart, PollScan, PollClaim, PollMuteCheck,
           PollSend, PollRelease, PollReplanRead, PollPlan, PollEnd, vars, pollVars, storeVars
  <2>2. CASE PollObserve
    <3>1. PICK minutes \in 1..MaxPad :
            BufferAccepted(snap, minutes, now) /\ plan' = BufferedPlan(plan, minutes)
      BY <2>2 DEF PollObserve, BufferWrite
    <3>2. plan \in Plan /\ minutes \in Int
      BY <3>1 DEF BufferAccepted, Inv, TypeOK, StoreTypeOK
    <3>3. ASSUME plan.prep # None, plan.leave # None
          PROVE  plan'.prep # None /\ Interval(plan') = Interval(plan)
      <4>1. /\ plan.prep \in Int /\ plan.leave \in Int /\ minutes - plan.pad \in Int
            /\ plan.prep - (minutes - plan.pad) \in Int
        BY <3>2, <3>3 DEF Plan, OptTime
      <4>2. /\ plan'.prep = plan.prep - (minutes - plan.pad)
            /\ plan'.leave = plan.leave - (minutes - plan.pad)
        BY <3>1, <3>2, <3>3 DEF BufferedPlan, Plan
      <4>3. plan'.prep # None
        BY <4>1, <4>2, NoneIsNoValue
      <4> QED BY <4>1, <4>2, <4>3 DEF Interval
    <3> QED BY <3>1, <3>3 DEF BufferAccepted
  <2>3. CASE PollCommit
    <3>1. plan # None /\ plan = snap /\ plan' = fresh
      BY <2>3 DEF PollCommit, ReplanCurrent, ReplanAccepted
    <3> QED BY <2>3, <3>1 DEF PollCommit, Inv, PollCarries
  <2> QED BY <2>1, <2>2, <2>3
<1> QED BY <1>1, InvHolds, PTL DEF Spec, PollRespectsNewerPlan

\* A replan neither consumes nor retires a pending row, one kind of it.
LEMMA ReplanKindConsumesNone ==
  ASSUME NEW r, Sound(r), NEW k \in Kinds, NEW old \in OptTime, NEW new \in OptTime,
         NEW t \in Int, NeedsPing(r, k, new) => Fresh(r) # {},
         NEW i \in Ids, r[i] # None, ~r[i].fired
  PROVE  /\ ~ReplanKind(r, k, old, new, t)[i].fired
         /\ ReplanKind(r, k, old, new, t)[i].retired = r[i].retired
<1> DEFINE s == ReplanKind(r, k, old, new, t)
<1>1. r[i] \in Row
  BY DEF Sound
<1>2. CASE new = None
  BY <1>2 DEF ReplanKind
<1>3. CASE new # None /\ LiveOf(r, k) = {}
  <2>1. PICK c \in Ids : r[c] = None /\ s = [r EXCEPT ![c] = NewRow(k, Max2(t, new))]
    BY <1>3, InsertIndex DEF ReplanKind, NeedsPing
  <2>2. s[i] = r[i]
    BY <2>1 DEF Sound
  <2> QED BY <2>2
<1>4. CASE new # None /\ LiveOf(r, k) # {}
  <2>1. \/ s[i] = r[i]
        \/ s[i] = [r[i] EXCEPT !.at =
               SafeTime(r[i].at, IF old = None THEN new ELSE r[i].at + (new - old), t)]
    BY <1>4 DEF ReplanKind
  <2> QED BY <1>1, <2>1 DEF Row
<1> QED BY <1>2, <1>3, <1>4

\* A replan consumes and retires no reminder (reconcile_poll_replan).
LEMMA ReplanConsumesNone ==
  ASSUME NEW r, Sound(r), NEW old \in Plan, NEW new \in Plan, NEW t \in Int,
         NeedsPing(r, "prep", new.prep) \/ NeedsPing(r, "leave", new.leave) => Spare(r),
         NEW i \in Ids, r[i] # None, ~r[i].fired
  PROVE  /\ ~ReplanRows(r, old, new, t)[i].fired
         /\ ReplanRows(r, old, new, t)[i].retired = r[i].retired
<1> DEFINE s == ReplanKind(r, "prep", old.prep, new.prep, t)
<1>1. /\ old.prep \in OptTime /\ old.leave \in OptTime
      /\ new.prep \in OptTime /\ new.leave \in OptTime
      /\ "prep" \in Kinds /\ "leave" \in Kinds
      /\ NeedsPing(r, "prep", new.prep) => Fresh(r) # {}
  BY DEF Plan, Kinds, Spare
<1>2. /\ Evolves(r, s, t)
      /\ Spare(r) => Fresh(s) # {}
      /\ LiveOf(s, "leave") = LiveOf(r, "leave")
  BY <1>1, ReplanKindEvolves
<1>3. ~s[i].fired /\ s[i].retired = r[i].retired
  BY <1>1, ReplanKindConsumesNone
<1>4. /\ NeedsPing(s, "leave", new.leave) => Fresh(s) # {}
      /\ Sound(s) /\ s[i] # None
  BY <1>2 DEF NeedsPing, Evolves
<1> HIDE DEF s
<1>5. /\ ~ReplanKind(s, "leave", old.leave, new.leave, t)[i].fired
      /\ ReplanKind(s, "leave", old.leave, new.leave, t)[i].retired = s[i].retired
  BY <1>1, <1>3, <1>4, ReplanKindConsumesNone
<1> QED BY <1>3, <1>5 DEF ReplanRows, s

\* A departure reminder is consumed only by being handed to the notifier, by its
\* event starting, or by a morning run or a user command.
THEOREM DepartureNotSwallowedHolds == Spec => DepartureNotSwallowed
<1> DEFINE Step(i) == rows'[i].fired =>
             \/ held' # None /\ held'.id = i
             \/ plan # None /\ now >= plan.start
             \/ mpc' # mpc \/ cpc' # cpc
<1>1. Inv /\ [Next]_vars => [\A i \in Pending(rows, "leave") : Step(i)]_rows
  <2> SUFFICES ASSUME Inv, [Next]_vars, rows' # rows, mpc' = mpc, cpc' = cpc,
                      NEW i \in Pending(rows, "leave"), rows'[i].fired
        PROVE  \/ held' # None /\ held'.id = i
               \/ plan # None /\ now >= plan.start
    OBVIOUS
  <2>1. i \in Ids /\ rows[i] # None /\ rows[i].kind = "leave" /\ ~rows[i].fired
    BY DEF Pending
  <2>2. Sound(rows) /\ now \in Int /\ rows[i] \in Row /\ todo \subseteq Ids
    BY <2>1, SoundRows DEF Inv, TypeOK, PollTypeOK, Sound
  <2>3. PollObserve \/ PollClaim \/ PollRelease \/ PollCommit
    BY DEF Next, MorningStep, MorningStart, MorningPlan, MorningCommit, MorningDone, CliStep,
           Adjust, AdjustSave, AdjustPing, Undo, UndoSave, UndoMark, UndoPing, Snooze,
           SnoozePing, Skip, SkipMark, Mute, MuteCancel, Unmute, PlanCommand, PlanSave,
           SavePlan, SavePing, CliRest, Tick, Move, Crash, PollStep, PollStart, PollScan,
           PollMuteCheck, PollSend, PollReplanRead, PollPlan, PollEnd, vars, storeVars
  <2>4. CASE PollObserve
    <3>1. PICK minutes \in 1..MaxPad : rows' = BufferedRows(rows, minutes - plan.pad, now)
      BY <2>4 DEF PollObserve, BufferWrite
    <3>2. \E v : rows'[i] = [rows[i] EXCEPT !.at = v]
      BY <2>1, <3>1 DEF BufferedRows
    <3> QED BY <2>1, <2>2, <3>2 DEF Row
  <2>5. CASE PollClaim
    <3>1. PICK j \in todo : Claim(j)
      BY <2>5 DEF PollClaim
    <3>2. rows' = [rows EXCEPT ![j].fired = TRUE]
      BY <3>1 DEF Claim
    <3>3. j = i
      BY <2>1, <2>2, <3>2 DEF Sound
    <3>4. ~Suppressed(i, now)
      BY <2>1 DEF Suppressed
    <3>5. \/ plan # None /\ now >= plan.start
          \/ held' = [id |-> i, kind |-> rows[i].kind, at |-> rows[i].at,
                      attempts |-> rows[i].attempts] /\ pc' = "claimed"
      BY <3>1, <3>3, <3>4 DEF Claim
    <3>6. pc' = "claimed" => held' # None
      BY StepInv, ConstantsOK DEF Inv, HeldInv, HoldingPcs
    <3> QED BY <3>5, <3>6
  <2>6. CASE PollRelease
    BY <2>1, <2>6, ReleaseKeeps DEF PollRelease
  <2>7. CASE PollCommit
    <3>1. /\ NeedsPing(rows, "prep", fresh.prep) \/ NeedsPing(rows, "leave", fresh.leave)
               => Spare(rows)
          /\ rows' = ReplanRows(rows, snap, fresh, now)
      BY <2>7 DEF PollCommit
    <3>2. snap \in Plan /\ fresh \in Plan
      BY <2>7 DEF PollCommit, Inv, PollCarries
    <3> QED BY <2>1, <2>2, <3>1, <3>2, ReplanConsumesNone
  <2> QED BY <2>3, <2>4, <2>5, <2>6, <2>7
<1> QED BY <1>1, InvHolds, PTL DEF Spec, DepartureNotSwallowed

\* One kind of morning's reconciliation retires pending rows of that kind only, and
\* only when its deadline changed or lapsed.
LEMMA MorningKindRetires ==
  ASSUME NEW r, Sound(r), Fresh(r) # {}, NEW k \in Kinds, NEW new \in OptTime, NEW old,
         NEW p, NEW t \in Int, NEW i \in Ids, r[i] # None, ~r[i].retired,
         MorningKind(r, k, new, old, p, t)[i].retired
  PROVE  /\ r[i].kind = k
         /\ p.start <= t \/ new = None \/ new # old \/ (k = "prep" /\ p.error = "too_imminent")
<1> DEFINE s == RetirePings(r, {k})
<1>1. r[i].kind # k => s[i] = r[i]
  BY DEF RetirePings
<1>2. Sound(s) /\ Fresh(s) = Fresh(r) /\ s[i] # None
  BY RetireEvolves DEF Evolves
<1>3. ASSUME NEW at PROVE Insert(s, k, at)[i] = s[i]
  <2> HIDE DEF s
  <2>1. PICK c \in Ids : s[c] = None /\ Insert(s, k, at) = [s EXCEPT ![c] = NewRow(k, at)]
    BY <1>2, InsertIndex
  <2> QED BY <1>2, <2>1 DEF Sound
<1>4. MorningKind(r, k, new, old, p, t) \in {s, r} \cup {Insert(s, k, new)}
  BY DEF MorningKind
<1>5. MorningKind(r, k, new, old, p, t)[i] = r[i] \/ MorningKind(r, k, new, old, p, t)[i] = s[i]
  BY <1>3, <1>4
<1>6. r[i].kind = k
  BY <1>1, <1>5
<1>7. i \in LiveOf(r, k)
  BY <1>6 DEF LiveOf
<1>8. MorningKind(r, k, new, old, p, t) # r
  OBVIOUS
<1> QED BY <1>6, <1>7, <1>8 DEF MorningKind

\* Morning's reconciliation of both kinds retires only what changed or lapsed.
LEMMA MorningRetires ==
  ASSUME NEW r, Sound(r), Spare(r), NEW p \in Plan, NEW old, NEW t \in Int,
         NEW i \in Ids, r[i] # None, ~r[i].retired, MorningRows(r, p, old, t)[i].retired
  PROVE  \/ p.start <= t \/ old = None \/ Deadline(p, r[i].kind) = None
         \/ Deadline(p, r[i].kind) # Deadline(old, r[i].kind)
         \/ r[i].kind = "prep" /\ p.error = "too_imminent"
<1> DEFINE oldPrep == IF old = None THEN None ELSE old.prep
           oldLeave == IF old = None THEN None ELSE old.leave
           s == MorningKind(r, "prep", p.prep, oldPrep, p, t)
<1>1. p.prep \in OptTime /\ p.leave \in OptTime /\ Fresh(r) # {}
  BY DEF Plan, Spare
<1>2. Evolves(r, s, t) /\ Fresh(s) # {}
  BY <1>1, MorningKindEvolves DEF Kinds
<1>3. CASE s[i].retired
  <2>1. /\ r[i].kind = "prep"
        /\ p.start <= t \/ p.prep = None \/ p.prep # oldPrep \/ p.error = "too_imminent"
    <3> HIDE DEF oldPrep
    <3> QED BY <1>1, <1>3, MorningKindRetires DEF Kinds
  <2> QED BY <2>1 DEF Deadline
<1>4. CASE ~s[i].retired
  <2>1. s[i] # None /\ s[i].kind = r[i].kind /\ Sound(s)
    BY <1>2 DEF Evolves
  <2>2. MorningKind(s, "leave", p.leave, oldLeave, p, t)[i].retired
    BY DEF MorningRows
  <2>3. s[i].kind = "leave" /\ (p.start <= t \/ p.leave = None \/ p.leave # oldLeave)
    <3> HIDE DEF s, oldLeave
    <3> QED BY <1>1, <1>2, <1>4, <2>1, <2>2, MorningKindRetires DEF Kinds
  <2> QED BY <2>1, <2>3 DEF Deadline
<1> QED BY <1>3, <1>4

\* A due reminder keeps its time or an earlier one, and is put out of force only by
\* a command of the user or by a morning run for which its deadline changed or lapsed.
THEOREM DueNeverPostponedHolds == Spec => DueNeverPostponed
<1> DEFINE Step(i) ==
      /\ rows'[i].at <= rows[i].at
      /\ rows'[i].retired =>
           \/ cpc' # cpc /\ UserSupersedes(rows[i].kind)
           \/ mpc' # mpc /\ MorningSupersedes(rows[i].kind)
<1>1. Inv /\ [Next]_vars => [\A i \in Due(rows, now) : Step(i)]_rows
  <2> SUFFICES ASSUME Inv, [Next]_vars, rows' # rows, NEW i \in Due(rows, now) PROVE Step(i)
    OBVIOUS
  <2>1. i \in Ids /\ rows[i] # None /\ ~rows[i].fired /\ rows[i].at <= now
    BY DEF Due
  <2>2. Sound(rows) /\ now \in Int /\ rows[i] \in Row /\ todo \subseteq Ids
    BY <2>1, SoundRows DEF Inv, TypeOK, PollTypeOK, Sound
  <2>3. ~rows[i].retired
    BY <2>1, <2>2 DEF Sound
  <2>4. rows'[i].at <= rows[i].at
    <3>1. CASE PollRelease
      <4>1. rows'[i].at = rows[i].at
        BY <2>1, <3>1, ReleaseKeeps DEF PollRelease
      <4> QED BY <2>2, <4>1 DEF Row
    <3>2. CASE Evolves(rows, rows', now)
      BY <2>1, <3>2 DEF Evolves
    <3> QED BY <3>1, <3>2, StepCases
  <2>5. SUFFICES ASSUME rows'[i].retired
                 PROVE  \/ cpc' # cpc /\ UserSupersedes(rows[i].kind)
                        \/ mpc' # mpc /\ MorningSupersedes(rows[i].kind)
    BY <2>4
  <2>6. \/ PollObserve \/ PollClaim \/ PollRelease \/ PollCommit \/ MorningCommit
        \/ AdjustPing \/ UndoPing \/ SnoozePing \/ SkipMark \/ MuteCancel
    BY DEF Next, MorningStep, MorningStart, MorningPlan, MorningDone, CliStep,
           Adjust, AdjustSave, Undo, UndoSave, UndoMark, Snooze,
           Skip, Mute, Unmute, PlanCommand, PlanSave,
           SavePlan, CliRest, Tick, Move, Crash, PollStep, PollStart, PollScan,
           PollMuteCheck, PollSend, PollReplanRead, PollPlan, PollEnd, vars, storeVars
  <2>7. CASE PollObserve
    <3>1. PICK minutes \in 1..MaxPad : rows' = BufferedRows(rows, minutes - plan.pad, now)
      BY <2>7 DEF PollObserve, BufferWrite
    <3>2. \E v : rows'[i] = [rows[i] EXCEPT !.at = v]
      BY <2>1, <3>1 DEF BufferedRows
    <3> QED BY <2>2, <2>3, <2>5, <3>2 DEF Row
  <2>8. CASE PollClaim
    <3>1. PICK j \in todo : Claim(j)
      BY <2>8 DEF PollClaim
    <3>2. rows' = [rows EXCEPT ![j].fired = TRUE]
      BY <3>1 DEF Claim
    <3> QED BY <2>2, <2>3, <2>5, <3>2 DEF Sound, Row
  <2>9. CASE PollRelease
    BY <2>1, <2>3, <2>5, <2>9, ReleaseKeeps DEF PollRelease
  <2>10. CASE PollCommit
    <3>1. /\ NeedsPing(rows, "prep", fresh.prep) \/ NeedsPing(rows, "leave", fresh.leave)
               => Spare(rows)
          /\ rows' = ReplanRows(rows, snap, fresh, now)
      BY <2>10 DEF PollCommit
    <3>2. snap \in Plan /\ fresh \in Plan
      BY <2>10 DEF PollCommit, Inv, PollCarries
    <3> QED BY <2>1, <2>2, <2>3, <2>5, <3>1, <3>2, ReplanConsumesNone
  <2>11. CASE MorningCommit
    <3>1. mpc \in {"planned", "absent"} /\ mpc' = "idle"
      BY <2>11 DEF MorningCommit, MorningDone
    <3>2. CASE mpc = "absent"
      <4>1. plan' = None
        BY <2>11, <3>2 DEF MorningCommit, RemovePlan
      <4> QED BY <3>1, <3>2, <4>1 DEF MorningSupersedes
    <3>3. CASE mpc = "planned"
      <4>1. /\ Spare(rows) /\ plan = msnap /\ mfresh \in Plan /\ mnow \in Int
            /\ ReconcileMorning(mfresh, msnap, mnow)
        BY <2>11, <3>3 DEF MorningCommit, Inv, MorningCarries, TypeOK, MorningTypeOK
      <4>2. plan' = mfresh /\ rows' = MorningRows(rows, mfresh, plan, mnow)
        BY <4>1 DEF ReconcileMorning
      <4>3. \/ plan'.start <= mnow \/ plan = None \/ Deadline(plan', rows[i].kind) = None
            \/ Deadline(plan', rows[i].kind) # Deadline(plan, rows[i].kind)
            \/ rows[i].kind = "prep" /\ plan'.error = "too_imminent"
        BY <2>1, <2>2, <2>3, <2>5, <4>1, <4>2, MorningRetires
      <4> QED BY <3>1, <4>3 DEF MorningSupersedes
    <3> QED BY <3>1, <3>2, <3>3
  <2>12. CASE AdjustPing \/ UndoPing \/ SnoozePing
    <3>1. /\ cpc \in {"adjust.ping", "undo.ping", "snooze.ping"} /\ cpc' = "idle"
          /\ Spare(rows) /\ rows' = Insert(RetirePings(rows, {"prep"}), "prep", cping.at)
      BY <2>12 DEF AdjustPing, UndoPing, SnoozePing, SavePing, SchedulePing
    <3>2. rows[i].kind = "prep"
      <4> DEFINE s == RetirePings(rows, {"prep"})
      <4>1. Sound(s) /\ Fresh(s) = Fresh(rows) /\ s[i] # None
        BY <2>1, <2>2, RetireEvolves DEF Evolves, Kinds
      <4>2. PICK c \in Ids : s[c] = None /\ rows' = [s EXCEPT ![c] = NewRow("prep", cping.at)]
        <5>1. Fresh(s) # {}
          BY <3>1, <4>1 DEF Spare
        <5> HIDE DEF s
        <5>2. rows' = Insert(s, "prep", cping.at)
          BY <3>1 DEF s
        <5> QED BY <5>1, <5>2, InsertIndex
      <4>3. rows'[i] = s[i]
        BY <2>1, <4>1, <4>2 DEF Sound
      <4>4. rows[i].kind # "prep" => s[i] = rows[i]
        BY <2>1 DEF RetirePings
      <4> QED BY <2>3, <2>5, <4>3, <4>4
    <3> QED BY <3>1, <3>2 DEF UserSupersedes
  <2>13. CASE SkipMark
    <3>1. rows' = [rows EXCEPT ![cping.id].fired = TRUE]
      BY <2>13 DEF SkipMark, MarkFired
    <3> QED BY <2>1, <2>2, <2>3, <2>5, <3>1 DEF Sound, Row
  <2>14. CASE MuteCancel
    BY <2>14 DEF MuteCancel, UserSupersedes
  <2> QED BY <2>6, <2>7, <2>8, <2>9, <2>10, <2>11, <2>12, <2>13, <2>14
<1> QED BY <1>1, InvHolds, PTL DEF Spec, DueNeverPostponed
=============================================================================
