--------------------------- MODULE WakePublication ---------------------------
(***************************************************************************)
(* Publishing the wake (alarm.py: publish; alarm_state.py; the alarm_state *)
(* row of store.py).  Publishers (poll, the tomorrow job, the command      *)
(* line) share one database row and one Home Assistant and hold no lock:   *)
(* each reads the clock, loads the manual intent, computes a wake,         *)
(* publishes it, and records and binds what it published.  Calls may be    *)
(* lost, answered too late or executed late; a process may die between any *)
(* two steps; the user and the daemon end intents meanwhile.               *)
(***************************************************************************)
EXTENDS WakeChoice

CONSTANTS
  Publishers,  \* processes that may publish at the same time
  Contracts,   \* alarm.schedule_contract: "v1", "legacy"
  Config,      \* the configuration
  Calendars,   \* what planning may find: logical day -> plans or Failed
  Intents,     \* [deadline, force, snoozes] the user may ask for
  Attempts,    \* attempts of publish_v1
  MaxCount,    \* MAX_MANUAL_SNOOZES
  Empty,       \* an unset helper
  Garbage,     \* a helper value that is no canonical snapshot
  MaxTime,     \* horizon of the clock
  MaxIssues,   \* bound on publications
  MaxEvents    \* bound on commands, faults and deaths

ASSUME PublicationConstants ==
  /\ {MaxCount, Attempts, MaxTime} \subseteq Nat /\ Contracts \subseteq {"v1", "legacy"}
  /\ Config \in Configs
  /\ Intents \subseteq [deadline : Int, force : BOOLEAN, snoozes : Optional(0..MaxCount)]
  /\ \A cal \in Calendars, t \in 0..MaxTime : \A d \in Days3(t) : Readable(cal, d)

Contract == INSTANCE ScheduleContract
  WITH FirstLead <- Config.lead, CountedLen <- SnoozeLen, NoValue <- None

VARIABLES
  now,
  row,        \* alarm_state: intent, version and binding
  last,       \* last_publish_json
  helper,     \* what Home Assistant holds
  calls,      \* script calls it has not executed (yet)
  pubs,       \* publishers
  contract,   \* which contract is configured
  issues, events,   \* counters for the bounds
  computed,   \* history: <<intent version, wake>> computed from that intent
  committed,  \* history: snapshots Home Assistant has held
  recorded    \* history: identity of the publication in last, or 0

vars == <<now, row, last, helper, calls, pubs, contract, issues, events,
          computed, committed, recorded>>
history == <<computed, committed, recorded>>

NoRow == [deadline |-> None, force |-> FALSE, snoozes |-> None, version |-> 0,
          wake |-> None, bound |-> None, boundVersion |-> None]

Idle == [pc |-> "idle", at |-> 0, id |-> 0, manual |-> None, result |-> None, tries |-> 0]

Init ==
  /\ now = 0 /\ row = NoRow /\ last = None /\ calls = {}
  /\ contract \in Contracts
  /\ helper \in IF contract = "v1" THEN {Empty, Garbage} ELSE {Empty}
  /\ pubs = [p \in Publishers |-> Idle]
  /\ issues = 0 /\ events = 0
  /\ computed = {} /\ committed = {} /\ recorded = 0

Occurs == events < MaxEvents /\ events' = events + 1

At(p, pc) == pubs[p].pc = pc
Goto(p, pc) == pubs' = [pubs EXCEPT ![p].pc = pc]
Finish(p) == pubs' = [pubs EXCEPT ![p] = Idle]

-----------------------------------------------------------------------------
\* The alarm_state row: one operator per transaction.

\* Clearing keeps the version, so a later intent is a new one.
Cleared(r) ==
  [r EXCEPT !.deadline = None, !.force = FALSE, !.snoozes = None,
            !.wake = None, !.bound = None, !.boundVersion = None]

\* save_alarm_manual: an equal intent is a new version, bound to nothing.
SavedManual(r, intent) ==
  [deadline |-> intent.deadline, force |-> intent.force, snoozes |-> intent.snoozes,
   version |-> r.version + 1, wake |-> None, bound |-> None, boundVersion |-> None]

\* Variant: expiry leaves the binding behind.
AfterLoadKeepsBinding(r, at) ==
  IF r.deadline # None /\ r.deadline <= at THEN [r EXCEPT !.deadline = None] ELSE r

\* load_alarm_manual expires what is due.
AfterLoad(r, at) == IF r.deadline # None /\ r.deadline <= at THEN Cleared(r) ELSE r

Loaded(r) ==
  IF r.deadline = None THEN None
  ELSE [deadline |-> r.deadline, force |-> r.force, snoozes |-> r.snoozes,
        version |-> r.version]

\* Variant: the deadline alone identifies the intent.
BoundByDeadline(r, wake, deadline, expected) ==
  IF r.deadline = None \/ r.deadline # expected.deadline THEN r
  ELSE [r EXCEPT !.wake = wake, !.bound = deadline, !.boundVersion = r.version]

\* bind_alarm_manual: only the very intent the publisher loaded is bound.
Bound(r, wake, deadline, expected) ==
  IF r.deadline = None \/ r.deadline # expected.deadline \/ r.version # expected.version
  THEN r
  ELSE [r EXCEPT !.wake = wake, !.bound = deadline, !.boundVersion = r.version]

\* clear_alarm_manual_for_wake
ClearedFor(r, wake) ==
  IF r.wake = wake /\ r.deadline # None /\ r.version = r.boundVersion THEN Cleared(r) ELSE r

-----------------------------------------------------------------------------
\* A publication.

\* alarm wake --leave: persistence precedes the publication.
SaveIntent(p) ==
  /\ At(p, "idle") /\ Occurs
  /\ \E i \in Intents : i.deadline > now /\ row' = SavedManual(row, i)
  /\ Goto(p, "begin")
  /\ UNCHANGED <<now, last, helper, calls, contract, issues, history>>

\* alarm wake --clear
ClearIntent(p) ==
  /\ At(p, "idle") /\ Occurs
  /\ row' = Cleared(row)
  /\ Goto(p, "begin")
  /\ UNCHANGED <<now, last, helper, calls, contract, issues, history>>

\* alarm skip, alarm off: Home Assistant accepts first.
AskSkip(p) ==
  /\ At(p, "idle") /\ Occurs
  /\ Goto(p, "skipping")
  /\ UNCHANGED <<now, row, last, helper, calls, contract, issues, history>>

EndSkip(p) ==
  /\ At(p, "skipping")
  /\ row' = Cleared(row)
  /\ Finish(p)
  /\ UNCHANGED <<now, last, helper, calls, contract, issues, events, history>>

\* The clock a publication is issued at; its order, id, is unique.
Begin(p) ==
  /\ At(p, "idle") \/ At(p, "begin")
  /\ issues < MaxIssues
  /\ issues' = issues + 1
  /\ pubs' = [pubs EXCEPT ![p] = [Idle EXCEPT !.pc = "load", !.at = now, !.id = issues + 1]]
  /\ UNCHANGED <<now, row, last, helper, calls, contract, events, history>>

Load(p) ==
  /\ At(p, "load")
  /\ row' = AfterLoad(row, pubs[p].at)
  /\ pubs' = [pubs EXCEPT ![p].pc = "compute", ![p].manual = Loaded(row')]
  /\ UNCHANGED <<now, last, helper, calls, contract, issues, events, history>>

\* The row cannot be read: no intent, and no plans either.
LoadFails(p) ==
  /\ At(p, "load") /\ Occurs
  /\ Goto(p, "blind")
  /\ UNCHANGED <<now, row, last, helper, calls, contract, issues, history>>

\* _retain_live_on_upgrade: without any record, a fallback chosen in distress
\* yields to the future wake Home Assistant already holds.
LiveWake(manual, at) ==
  /\ helper \notin {Empty, Garbage}
  /\ contract = "v1" => Contract!Parses(helper)
  /\ helper.snoozes # None =>
       /\ manual # None /\ manual.snoozes = helper.snoozes
       /\ manual.deadline = helper.deadline
  /\ helper.wake > at

FromLive(manual) ==
  [wake |-> helper.wake,
   day |-> DayStart(IF helper.deadline # None THEN helper.deadline ELSE helper.wake),
   source |-> "retained",
   deadline |-> IF contract = "legacy" /\ helper.snoozes = None THEN None ELSE helper.deadline,
   origin |-> IF helper.snoozes # None THEN "manual" ELSE None,
   cap |-> IF contract = "v1" THEN helper.cap ELSE None,
   manualDeadline |-> IF helper.snoozes # None THEN manual.deadline ELSE None,
   snoozes |-> helper.snoozes, warning |-> "degraded"]

\* reached: whether Home Assistant answers the read.
RetainLive(r, manual, at, reached) ==
  IF /\ r.warning # "none" /\ r.source = "fallback" /\ last = None
     /\ reached /\ LiveWake(manual, at)
  THEN FromLive(manual) ELSE r

\* build_schedule
Snapshot(id, r) ==
  [id |-> id, issued |-> id,
   kind |-> IF r.snoozes # None THEN "manual"
            ELSE IF r.deadline # None THEN "commute" ELSE "legacy",
   wake |-> r.wake, deadline |-> r.deadline, snoozes |-> r.snoozes, cap |-> r.cap]

\* A result the contract refuses ends the publication.
Take(p, r) ==
  /\ pubs' = IF contract = "v1" /\ ~Contract!Parses(Snapshot(pubs[p].id, r))
             THEN [pubs EXCEPT ![p] = Idle]
             ELSE [pubs EXCEPT ![p].pc = "call", ![p].result = r, ![p].tries = Attempts]
  /\ computed' = IF pubs[p].manual = None THEN computed
                 ELSE computed \cup {<<pubs[p].manual.version, r.wake>>}

Choose(p, cal) ==
  LET manual == pubs[p].manual
      at     == pubs[p].at
      r      == ComputeWake(Config, cal, last, manual, at)
  IN \E reached \in BOOLEAN : Take(p, RetainLive(r, manual, at, reached))

NothingPlanned == [d \in UNION {Days3(t) : t \in 0..MaxTime} |-> Failed]

Compute(p) ==
  /\ At(p, "compute") \/ At(p, "blind")
  /\ \E cal \in IF At(p, "blind") THEN {NothingPlanned} ELSE Calendars : Choose(p, cal)
  /\ UNCHANGED <<now, row, last, helper, calls, contract, issues, events, committed, recorded>>

-----------------------------------------------------------------------------
\* Home Assistant, and the calls to it.

\* The publish script: v1 decides on one atomic helper, legacy overwrites.
Executed(s) ==
  IF contract = "legacy" \/ Contract!DecideCommit(helper, s) = "commit" THEN s ELSE helper

Execute(s) ==
  /\ helper' = Executed(s)
  /\ committed' = IF Executed(s) = s THEN committed \cup {s} ELSE committed

MySnapshot(p) == Snapshot(pubs[p].id, pubs[p].result)

\* publish_v1 ignores how the call ends and reads back; legacy trusts the answer.
CallExecuted(p) ==
  /\ At(p, "call")
  /\ Execute(MySnapshot(p))
  /\ Goto(p, IF contract = "v1" THEN "readback" ELSE "record")
  /\ UNCHANGED <<now, row, last, calls, contract, issues, events, computed, recorded>>

\* The script runs, the answer is lost (v1: as above).
AnswerLost(p) ==
  /\ At(p, "call") /\ contract = "legacy" /\ Occurs
  /\ Execute(MySnapshot(p))
  /\ Finish(p)
  /\ UNCHANGED <<now, row, last, calls, contract, issues, computed, recorded>>

\* The call times out; Home Assistant may execute it later, or never.
CallTimesOut(p) ==
  /\ At(p, "call") /\ Occurs
  /\ calls' = calls \cup {MySnapshot(p)}
  /\ IF contract = "v1" THEN Goto(p, "readback") ELSE Finish(p)
  /\ UNCHANGED <<now, row, last, helper, contract, issues, history>>

ExecuteLate ==
  /\ \E s \in calls : Execute(s) /\ calls' = calls \ {s}
  /\ UNCHANGED <<now, row, last, pubs, contract, issues, events, computed, recorded>>

\* Variant: the end of the call is taken for success.
TrustCall(p) ==
  /\ At(p, "readback")
  /\ Goto(p, "record")
  /\ UNCHANGED <<now, row, last, helper, calls, contract, issues, events, history>>

\* Success is the exact snapshot read back, whoever's call committed it.
ReadBack(p) ==
  /\ At(p, "readback") /\ helper = MySnapshot(p)
  /\ Goto(p, "record")
  /\ UNCHANGED <<now, row, last, helper, calls, contract, issues, events, history>>

\* Another value, or (a fault) no answer: the same snapshot again, or give up.
NotConfirmed(p) ==
  /\ At(p, "readback")
  /\ IF helper = MySnapshot(p) THEN Occurs ELSE UNCHANGED events
  /\ pubs' = [pubs EXCEPT ![p] =
                IF pubs[p].tries > 1
                THEN [pubs[p] EXCEPT !.pc = "call", !.tries = @ - 1] ELSE Idle]
  /\ UNCHANGED <<now, row, last, helper, calls, contract, issues, history>>

\* record_success, in two transactions; a failure of either is only logged.
Record(p) ==
  /\ At(p, "record")
  /\ last' = Stored(pubs[p].result) /\ recorded' = pubs[p].id
  /\ IF pubs[p].result.manualDeadline # None THEN Goto(p, "bind") ELSE Finish(p)
  /\ UNCHANGED <<now, row, helper, calls, contract, issues, events, computed, committed>>

BoundDeadline(r) == IF r.deadline # None THEN r.deadline ELSE r.manualDeadline

Bind(p) ==
  /\ At(p, "bind")
  /\ row' = Bound(row, pubs[p].result.wake, BoundDeadline(pubs[p].result), pubs[p].manual)
  /\ Finish(p)
  /\ UNCHANGED <<now, last, helper, calls, contract, issues, events, history>>

\* A death, or a transaction of record_success that fails.
Crash(p) ==
  /\ ~At(p, "idle") /\ Occurs
  /\ Finish(p)
  /\ UNCHANGED <<now, row, last, helper, calls, contract, issues, history>>

\* The daemon ends a wake Home Assistant has shown it: dismissed once due, or skipped.
Retire ==
  /\ \E s \in committed :
       /\ s.wake <= now \/ s = helper
       /\ row' = ClearedFor(row, s.wake)
  /\ row' # row
  /\ UNCHANGED <<now, last, helper, calls, pubs, contract, issues, events, history>>

Tick ==
  /\ now < MaxTime /\ now' = now + 1
  /\ UNCHANGED <<row, last, helper, calls, pubs, contract, issues, events, history>>

Publish(p) ==
  \/ Begin(p) \/ Load(p) \/ LoadFails(p) \/ Compute(p)
  \/ CallExecuted(p) \/ AnswerLost(p) \/ CallTimesOut(p) \/ ReadBack(p) \/ NotConfirmed(p)
  \/ Record(p) \/ Bind(p) \/ Crash(p)

Command(p) == SaveIntent(p) \/ ClearIntent(p) \/ AskSkip(p) \/ EndSkip(p)

Next == (\E p \in Publishers : Publish(p) \/ Command(p)) \/ ExecuteLate \/ Retire \/ Tick

Spec == Init /\ [][Next]_vars
-----------------------------------------------------------------------------
\* The state is well formed: the intent's row, the publishers and what they
\* published, the helper; a cleared row holds nothing but its version.
Rows == [deadline : Optional(Int), force : BOOLEAN, snoozes : Optional(0..MaxCount),
         version : Nat, wake : Optional(Int), bound : Optional(Int),
         boundVersion : Optional(Nat)]

States == {"idle", "begin", "skipping", "load", "compute", "blind", "call", "readback",
           "record", "bind"}

Pubs == [pc : States, at : 0..MaxTime, id : Nat, manual : Optional(Intended(0..MaxCount)),
         result : Optional(Results(0..MaxCount)), tries : Nat]

Snapshots == [id : Nat, issued : Nat, kind : {"manual", "commute", "legacy"}, wake : Int,
              deadline : Optional(Int), snoozes : Optional(0..MaxCount),
              cap : Optional(Int)]

TypeOK ==
  /\ now \in 0..MaxTime /\ contract \in Contracts
  /\ row \in Rows /\ (row.deadline = None => row = Cleared(row))
  /\ pubs \in [Publishers -> Pubs]
  /\ last \in Optional(Results(0..MaxCount))
  /\ calls \subseteq Snapshots /\ committed \subseteq Snapshots
  /\ helper \in {Empty, Garbage} \cup committed
  /\ issues \in Nat /\ events \in Nat /\ recorded \in Nat
  /\ computed \subseteq Nat \X Int

\* An intent still ahead of its deadline, which no user ended, goes away only
\* when a wake computed from that very intent (not from an equal one it
\* replaced while a publisher was talking to Home Assistant) was on show there.
IntentOutlivesOthers ==
  [][row.deadline # None /\ row'.deadline = None /\ row.deadline > now /\ UNCHANGED pubs =>
       /\ <<row.version, row.wake>> \in computed
       /\ \E s \in committed : s.wake = row.wake]_vars

\* What is recorded as the last successful publication was on show at Home
\* Assistant, whatever was lost, late or refused (publish_v1's docstring).
ConfirmedIsCommitted ==
  recorded # 0 =>
    \E s \in committed : s.id = recorded /\ s.wake = last.wake /\ s.snoozes = last.snoozes

\* A publication carries the intent it loaded or none: neither the record nor
\* the helper brings back an intent that was cleared, expired or replaced.
NoResurrection ==
  \A p \in Publishers : pubs[p].result # None =>
    /\ pubs[p].result.manualDeadline # None =>
         pubs[p].manual # None /\ pubs[p].result.manualDeadline = pubs[p].manual.deadline
    /\ pubs[p].result.snoozes # None =>
         pubs[p].manual # None /\ pubs[p].result.snoozes = pubs[p].manual.snoozes

\* Under v1 the schedule on show only moves to publications issued later: a
\* late or repeated call of an overtaken publisher changes nothing.
CommitsMoveForward ==
  [][contract = "v1" /\ helper \notin {Empty, Garbage} =>
       helper' = helper \/ helper'.issued > helper.issued]_vars

\* A publisher that loaded a live intent publishes a wake no later than its
\* deadline, whatever calendars, the last record and the helper say; except
\* that, without computation and record, it keeps the helper's wake in the
\* place of the fallback it chose over an intent for a day after tomorrow.
IntentNotOverslept ==
  \A p \in Publishers :
    pubs[p].result # None /\ Live(pubs[p].manual, pubs[p].at) =>
      \/ pubs[p].result.wake <= pubs[p].manual.deadline
      \/ /\ pubs[p].result.source = "retained"
         /\ DayStart(pubs[p].manual.deadline) > DayStart(pubs[p].at) + Day
=============================================================================
