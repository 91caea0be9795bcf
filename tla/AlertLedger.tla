----------------------------- MODULE AlertLedger -----------------------------
(***************************************************************************)
(* One service alert as the poll job handles it for the events of a day    *)
(* (jobs/poll.py phases 2 and 4) over the two ledgers of store.py:         *)
(*   alert_processing     - has this event been replanned for the alert?   *)
(*   alert_notifications  - has the alert been announced on this day?      *)
(* Both bound the work by attempts and an expiry, and lease it by a token  *)
(* and a deadline, so that a poll run that died is taken over and one that *)
(* is merely late is fenced off.  Alerts do not share rows; one is enough. *)
(*                                                                         *)
(* The ledgers do not rely on the job lock, hence a set of Pollers.  A     *)
(* poller works on at most one row of each ledger at a time, so its        *)
(* identity stands for the uuid of its current claim.  Events are numbered *)
(* in the order the poll job visits them.                                  *)
(***************************************************************************)
EXTENDS Integers

CONSTANTS
  Events, Pollers, None,
  Plans,        \* contents a stored plan may have
  Start,        \* when each event starts
  Midnight,     \* the instant the logical day changes
  Quiet,        \* instants inside quiet hours
  MaxAttempts,  \* ALERT_NOTIFICATION_MAX_ATTEMPTS
  Grace,        \* ALERT_NOTIFICATION_GRACE_SECONDS
  Lease,        \* ALERT_NOTIFICATION_LEASE_SECONDS
  MaxTime,      \* horizon of the clock
  MaxChanges    \* bound on edits, mutes, removals and crashes

Days == {0, 1}
Keys == Events \X Days

\* A row of either ledger (delivered_at is a column of alert_notifications
\* only); a row has a lease deadline exactly when it has a token.
Row == {r \in [attempts : Nat, expires : Int, token : Pollers \cup {None},
               until : Int \cup {None}, delivered : BOOLEAN] :
          r.token = None <=> r.until = None}

ASSUME LedgerConstants ==
  /\ Events \subseteq Nat /\ Start \in [Events -> Int]
  /\ Midnight \in Int /\ Quiet \subseteq Int
  /\ MaxAttempts \in Nat \ {0} /\ Grace \in Nat \ {0} /\ Lease \in Nat \ {0}
  /\ MaxTime \in Nat /\ MaxChanges \in Nat
  /\ None \notin Plans \cup Pollers \cup Int /\ None \notin Keys /\ None \notin Row

VARIABLES
  now,
  plan,        \* plans: what is stored for each event, or None
  muted,       \* event_mutes
  cancelling,  \* mute commands that have yet to cancel the reminders
  seen,        \* alerts_seen
  processing,  \* alert_processing
  notes,       \* alert_notifications
  pc,          \* where each poll run is
  agenda,      \* announcements it still has to try
  tried,       \* announcements it already attempted in this run
  key,         \* the announcement it is sending, or None
  visit,       \* events it still has to look at
  event,       \* the event it is replanning, or None
  snap,        \* the plans it read, or committed since
  changes,     \* how many edits, mutes, removals and crashes happened
  verified,    \* history: plans checked against the alert, per event
  overrun      \* history: some sender was still at work when its lease ended

mutes    == <<muted, cancelling>>
ledger   == <<seen, processing, notes>>
pollVars == <<pc, agenda, tried, key, visit, event, snap>>
history  == <<changes, verified, overrun>>
vars     == <<now, plan, mutes, ledger, pollVars, history>>

Day(t) == IF t < Midnight THEN 0 ELSE 1

Vacant(row, t) == row.until = None \/ row.until <= t
Leased(k)      == notes[k] # None /\ ~Vacant(notes[k], now)
Delivered(k)   == notes[k] # None /\ notes[k].delivered

NewRow(expires) ==
  [attempts |-> 0, expires |-> expires, token |-> None, until |-> None, delivered |-> FALSE]

\* The update both claims make, and the one both finishes make.
Claimed(row, p) == [row EXCEPT !.attempts = @ + 1, !.token = p, !.until = now + Lease]

\* Plausible slip: giving up the token but not the deadline.
ReleasedTokenOnly(row) == [row EXCEPT !.token = None]

Released(row) == [row EXCEPT !.token = None, !.until = None]

Init ==
  /\ now = 0 /\ plan \in [Events -> Plans] /\ muted = {} /\ cancelling = {}
  /\ seen = {} /\ processing = [e \in Events |-> None] /\ notes = [k \in Keys |-> None]
  /\ pc = [p \in Pollers |-> "idle"]
  /\ agenda = [p \in Pollers |-> {}] /\ tried = [p \in Pollers |-> {}]
  /\ key = [p \in Pollers |-> None]
  /\ visit = [p \in Pollers |-> {}] /\ event = [p \in Pollers |-> None]
  /\ snap = [p \in Pollers |-> [e \in Events |-> None]]
  /\ changes = 0 /\ verified = [e \in Events |-> {}] /\ overrun = FALSE

-----------------------------------------------------------------------------
\* Announcing: dispatch_alert_notifications claims, sends and acknowledges one
\* row after the other, before the alerts are fetched ("announce") and after
\* each committed replan ("announce2").

PendingNotes ==
  {k \in Keys : /\ notes[k] # None /\ ~notes[k].delivered
                /\ notes[k].attempts < MaxAttempts /\ notes[k].expires > now}

\* The rows are listed once, except in quiet hours.
Listed(attempted) == IF now \in Quiet THEN {} ELSE PendingNotes \ attempted

Begin(p) ==
  /\ pc[p] = "idle"
  /\ agenda' = [agenda EXCEPT ![p] = Listed({})]
  /\ pc' = [pc EXCEPT ![p] = "announce"]
  /\ UNCHANGED <<now, plan, mutes, ledger, tried, key, visit, event, snap, history>>

Earliest(k, K) == \A j \in K : k[2] < j[2] \/ (k[2] = j[2] /\ k[1] <= j[1])

\* Plausible slip: siblings of the same day stop only an announced alert.
ClaimableUnlessDelivered(k) ==
  /\ plan[k[1]] # None /\ Start[k[1]] > now /\ k \in PendingNotes
  /\ \A j \in Keys : j[2] = k[2] => ~Delivered(j)

\* claim_alert_notification: no row of the same day is announced or leased.
Claimable(k) ==
  /\ plan[k[1]] # None /\ Start[k[1]] > now /\ k \in PendingNotes
  /\ \A j \in Keys : j[2] = k[2] => ~Delivered(j) /\ ~Leased(j)

ClaimNote(p) ==
  /\ pc[p] \in {"announce", "announce2"} /\ key[p] = None
  /\ \E k \in agenda[p] :
       /\ Earliest(k, agenda[p])
       /\ agenda' = [agenda EXCEPT ![p] = @ \ {k}]
       /\ IF Claimable(k)
          THEN /\ notes' = [notes EXCEPT ![k] = Claimed(@, p)]
               /\ tried' = [tried EXCEPT ![p] = @ \cup {k}]
               /\ key' = [key EXCEPT ![p] = k]
          ELSE UNCHANGED <<notes, tried, key>>
  /\ UNCHANGED <<now, plan, mutes, seen, processing, pc, visit, event, snap, history>>

\* Plausible slip: finishing a row without comparing the token.
FinishedUnfenced(k, p, delivered) ==
  IF notes[k] = None THEN notes[k]
  ELSE [Released(notes[k]) EXCEPT !.delivered = @ \/ delivered]

\* finish_alert_notification: only the current token may release or deliver.
Finished(k, p, delivered) ==
  IF notes[k] = None \/ notes[k].token # p THEN notes[k]
  ELSE [Released(notes[k]) EXCEPT !.delivered = @ \/ delivered]

\* The send succeeds, or fails or raises; its outcome is recorded.
AckNote(p) ==
  /\ key[p] # None
  /\ \E sent \in BOOLEAN : notes' = [notes EXCEPT ![key[p]] = Finished(key[p], p, sent)]
  /\ key' = [key EXCEPT ![p] = None]
  /\ UNCHANGED <<now, plan, mutes, seen, processing, pc, agenda, tried, visit, event, snap,
                 history>>

-----------------------------------------------------------------------------
\* Processing: one replan per event, committed with its announcement.

ReadPlans(p) ==
  /\ pc[p] = "announce" /\ key[p] = None /\ agenda[p] = {}
  /\ snap' = [snap EXCEPT ![p] = plan]
  /\ visit' = [visit EXCEPT ![p] = {e \in Events : plan[e] # None}]
  /\ pc' = [pc EXCEPT ![p] = "visit"]
  /\ UNCHANGED <<now, plan, mutes, ledger, agenda, tried, key, event, history>>

\* claim_alert_processing: create the row if it is missing, then lease it.
ProcessingRow(e) == IF processing[e] = None THEN NewRow(now + Grace) ELSE processing[e]

ClaimEvent(p) ==
  /\ pc[p] = "visit"
  /\ \E e \in visit[p] :
     LET row  == ProcessingRow(e)
         free == row.attempts < MaxAttempts /\ row.expires > now /\ Vacant(row, now)
     IN  /\ \A i \in visit[p] : e <= i
         /\ visit' = [visit EXCEPT ![p] = @ \ {e}]
         /\ IF Start[e] <= now \/ e \in seen
            THEN UNCHANGED <<processing, event, pc>>
            ELSE /\ processing' =
                      [processing EXCEPT ![e] = IF free THEN Claimed(row, p) ELSE row]
                 /\ IF free THEN /\ event' = [event EXCEPT ![p] = e]
                                 /\ pc' = [pc EXCEPT ![p] = "replan"]
                            ELSE UNCHANGED <<event, pc>>
  /\ UNCHANGED <<now, plan, mutes, seen, notes, agenda, tried, key, snap, history>>

\* Plausible slip: taking the outcome without comparing the stored plan.
ProcessedAnyway(p) == TRUE

\* finish_alert_processing: processed only while the verified plan is stored.
Processed(p) == plan[event[p]] = snap[p][event[p]]

\* The row is given back by its token's holder, and only then may the event
\* count as processed.
Finish(p, processed) ==
  /\ LET e == event[p]
     IN  IF processing[e].token = p
         THEN /\ processing' = [processing EXCEPT ![e] = Released(@)]
              /\ seen' = IF processed THEN seen \cup {e} ELSE seen
         ELSE UNCHANGED <<processing, seen>>
  /\ snap' = [snap EXCEPT ![p][event[p]] = None]
  /\ event' = [event EXCEPT ![p] = None]
  /\ pc' = [pc EXCEPT ![p] = "visit"]

\* The planner raised or returned an error.
FailReplan(p) ==
  /\ pc[p] = "replan"
  /\ Finish(p, FALSE)
  /\ UNCHANGED <<now, plan, mutes, notes, agenda, tried, key, visit, history>>

\* The replanned route does not differ significantly from the one read.
KeepRoute(p) ==
  /\ pc[p] = "replan"
  /\ verified' = [verified EXCEPT ![event[p]] = @ \cup {snap[p][event[p]]}]
  /\ Finish(p, Processed(p))
  /\ UNCHANGED <<now, plan, mutes, notes, agenda, tried, key, visit, changes, overrun>>

\* It differs: reconcile_poll_replan stores it and the intent to announce it in
\* one transaction, unless the plan was changed meanwhile or the event started.
Stale(p) == plan[event[p]] = None \/ plan[event[p]] # snap[p][event[p]] \/ Start[event[p]] <= now

CommitReplan(p) ==
  /\ pc[p] = "replan" /\ ~Stale(p)
  /\ LET e == event[p]
         k == <<e, Day(now)>>
         expires == IF Start[e] < now + Grace THEN Start[e] ELSE now + Grace
     IN  \E new \in Plans \ {plan[e]} :
           /\ plan' = [plan EXCEPT ![e] = new]
           /\ snap' = [snap EXCEPT ![p][e] = new]
           /\ verified' = [verified EXCEPT ![e] = @ \cup {new}]
           /\ notes' = IF notes[k] = None THEN [notes EXCEPT ![k] = NewRow(expires)] ELSE notes
  /\ pc' = [pc EXCEPT ![p] = "committed"]
  /\ UNCHANGED <<now, mutes, seen, processing, agenda, tried, key, visit, event, changes,
                 overrun>>

DiscardReplan(p) ==
  /\ pc[p] = "replan" /\ Stale(p)
  /\ Finish(p, FALSE)
  /\ UNCHANGED <<now, plan, mutes, notes, agenda, tried, key, visit, history>>

ListCommitted(p) ==
  /\ pc[p] = "committed"
  /\ agenda' = [agenda EXCEPT ![p] = Listed(tried[p])]
  /\ pc' = [pc EXCEPT ![p] = "announce2"]
  /\ UNCHANGED <<now, plan, mutes, ledger, tried, key, visit, event, snap, history>>

FinishReplan(p) ==
  /\ pc[p] = "announce2" /\ key[p] = None /\ agenda[p] = {}
  /\ Finish(p, Processed(p))
  /\ UNCHANGED <<now, plan, mutes, notes, agenda, tried, key, visit, history>>

\* The process ends, in order or by a crash, and its locals with it.
Exit(p) ==
  /\ pc' = [pc EXCEPT ![p] = "idle"]
  /\ agenda' = [agenda EXCEPT ![p] = {}] /\ tried' = [tried EXCEPT ![p] = {}]
  /\ key' = [key EXCEPT ![p] = None]
  /\ visit' = [visit EXCEPT ![p] = {}] /\ event' = [event EXCEPT ![p] = None]
  /\ snap' = [snap EXCEPT ![p] = [e \in Events |-> None]]

End(p) ==
  /\ pc[p] = "visit" /\ visit[p] = {}
  /\ Exit(p)
  /\ UNCHANGED <<now, plan, mutes, ledger, history>>

PollStep(p) ==
  \/ Begin(p) \/ ClaimNote(p) \/ AckNote(p) \/ ReadPlans(p)
  \/ ClaimEvent(p) \/ FailReplan(p) \/ KeepRoute(p) \/ CommitReplan(p) \/ DiscardReplan(p)
  \/ ListCommitted(p) \/ FinishReplan(p) \/ End(p)

-----------------------------------------------------------------------------
\* Everything else: other writers of plans, cancellation, the clock, crashes.

Occurs == changes < MaxChanges /\ changes' = changes + 1

\* Plausible slip: taking the reminders and leaving the announcements.
KeptAll(e) == notes

\* What cancel_pings and remove_plan_if_current leave: delivered rows only.
Kept(e) == [k \in Keys |-> IF k[1] = e /\ ~Delivered(k) THEN None ELSE notes[k]]

\* upsert_plan, by a command or another job.
Edit(e) ==
  /\ Occurs
  /\ \E new \in Plans : new # plan[e] /\ plan' = [plan EXCEPT ![e] = new]
  /\ UNCHANGED <<now, mutes, ledger, pollVars, verified, overrun>>

\* The mute command commits mute_event, then cancel_pings.
Mute(e) ==
  /\ Occurs /\ plan[e] # None
  /\ muted' = muted \cup {e} /\ cancelling' = cancelling \cup {e}
  /\ UNCHANGED <<now, plan, ledger, pollVars, verified, overrun>>

CancelMuted(e) ==
  /\ e \in cancelling
  /\ cancelling' = cancelling \ {e} /\ notes' = Kept(e)
  /\ UNCHANGED <<now, plan, muted, seen, processing, pollVars, history>>

Remove(e) ==
  /\ Occurs /\ plan[e] # None
  /\ plan' = [plan EXCEPT ![e] = None] /\ notes' = Kept(e)
  /\ UNCHANGED <<now, mutes, seen, processing, pollVars, verified, overrun>>

Crash(p) ==
  /\ Occurs /\ pc[p] # "idle"
  /\ Exit(p)
  /\ UNCHANGED <<now, plan, mutes, ledger, verified, overrun>>

Outlived(p, t) ==
  key[p] # None /\ notes[key[p]] # None /\ notes[key[p]].token = p /\ Vacant(notes[key[p]], t)

Tick ==
  /\ now < MaxTime /\ now' = now + 1
  /\ overrun' = (overrun \/ \E p \in Pollers : Outlived(p, now + 1))
  /\ UNCHANGED <<plan, mutes, ledger, pollVars, changes, verified>>

Next ==
  \/ \E p \in Pollers : PollStep(p) \/ Crash(p)
  \/ \E e \in Events : Edit(e) \/ Mute(e) \/ CancelMuted(e) \/ Remove(e)
  \/ Tick

Spec == Init /\ [][Next]_vars

-----------------------------------------------------------------------------

StoreTypes ==
  /\ plan \in [Events -> Plans \cup {None}]
  /\ muted \subseteq Events /\ cancelling \subseteq muted /\ seen \subseteq Events
  /\ processing \in [Events -> Row \cup {None}] /\ notes \in [Keys -> Row \cup {None}]

PollTypes ==
  /\ pc \in [Pollers -> {"idle", "announce", "visit", "replan", "committed", "announce2"}]
  /\ agenda \in [Pollers -> SUBSET Keys] /\ tried \in [Pollers -> SUBSET Keys]
  /\ key \in [Pollers -> Keys \cup {None}]
  /\ visit \in [Pollers -> SUBSET Events] /\ event \in [Pollers -> Events \cup {None}]
  /\ snap \in [Pollers -> [Events -> Plans \cup {None}]]

\* Every row of either ledger is leased by a token and until a deadline or by
\* neither, and every poll run holds what its place in the job allows.
TypeOK ==
  /\ now \in Int /\ changes \in Nat /\ overrun \in BOOLEAN
  /\ verified \in [Events -> SUBSET Plans]
  /\ StoreTypes /\ PollTypes

\* "One alert/day has one active sender": no two rows of a day are leased at
\* once, whatever their events and however many poll runs claim them
\* (claim_alert_notification).
OneSender ==
  \A j, k \in Keys : j[2] = k[2] /\ Leased(j) /\ Leased(k) => j = k

\* Unless a sender was still at work when its lease ended, an alert is recorded
\* as announced for at most one event of a day (finish_alert_notification).
OneAnnouncement ==
  ~overrun => \A j, k \in Keys : j[2] = k[2] /\ Delivered(j) /\ Delivered(k) => j = k

\* "An expired owner cannot ack a new lease": a lease in force is ended by the
\* acknowledgement of the poll run that holds it, or with its row by a
\* cancellation, and by nobody else (finish_alert_notification).
LeaseEndsByOwner ==
  [][\A k \in Keys : Leased(k) /\ notes'[k] # None /\ notes'[k].token # notes[k].token =>
       LET p == notes[k].token IN key[p] = k /\ key'[p] = None]_notes

\* An alert is marked as seen for an event only while the stored plan is one
\* that was checked against the alert, never a plan written meanwhile by someone
\* else (finish_alert_processing).
SeenMeansVerified ==
  [][\A e \in seen' \ seen : plan[e] \in verified'[e]]_seen

\* An announcement still to be sent is about an event that has a plan: removing
\* the event takes its announcements along, so that a later plan of the same
\* event never announces the old one's change (remove_plan_if_current).
PendingHasPlan ==
  \A k \in Keys : notes[k] # None /\ ~notes[k].delivered => plan[k[1]] # None

\* What the mute command says of itself: it suppresses notifications for the
\* event; no announcement about it is sent once the command is done
\* (dispatch_alert_notifications).
MuteSuppresses ==
  [][\A p \in Pollers : key'[p] # key[p] /\ key'[p] # None => key'[p][1] \notin muted \ cancelling]_key
=============================================================================
