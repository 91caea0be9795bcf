-------------------------- MODULE AlertLedgerProofs --------------------------
(***************************************************************************)
(* Safety of the alert ledgers for any events, poll runs, leases, retries  *)
(* and crashes.                                                            *)
(*                                                                         *)
(* The argument: a claim needs a day without a delivered and without a     *)
(* leased row, so a day has one lease at a time; unless a sender outlived  *)
(* its lease, whoever can still deliver holds that lease (Timely), hence   *)
(* a day with a delivered row has no other that is leased (Announced).     *)
(* A poll run carries the plan it checked until it marks the event seen    *)
(* (Working).                                                              *)
(***************************************************************************)
EXTENDS AlertLedger, TLAPS

\* What a poll run carries from reading the plans to finishing an event.
Working ==
  \A p \in Pollers :
    /\ event[p] # None <=> pc[p] \in {"replan", "committed", "announce2"}
    /\ event[p] \notin visit[p]
    /\ \A e \in visit[p] : snap[p][e] # None
    /\ event[p] # None => snap[p][event[p]] # None /\ processing[event[p]] # None
    /\ pc[p] \in {"committed", "announce2"} => snap[p][event[p]] \in verified[event[p]]

\* No sender has outlived its lease yet.
Timely == ~overrun => \A p \in Pollers : ~Outlived(p, now)

\* A day with a delivered row has no other row delivered or about to be.
Announced ==
  ~overrun =>
    \A j, k \in Keys : j[2] = k[2] /\ Delivered(j) /\ (Delivered(k) \/ Leased(k)) => j = k

Ledgers == PendingHasPlan /\ OneSender /\ Announced /\ Timely

IInv == TypeOK /\ Ledgers /\ Working

-----------------------------------------------------------------------------
\* Rows and keys.

\* A key is an event and a day.
LEMMA KeyParts ==
  ASSUME NEW k \in Keys
  PROVE  k[1] \in Events /\ k[2] \in Days /\ k = <<k[1], k[2]>>
  BY DEF Keys

\* No event, no plan and no key is None.
LEMMA NoneIsNothing == None \notin Events /\ None \notin Plans /\ None \notin Keys
<1>1. None \notin Int /\ Events \subseteq Nat
  BY LedgerConstants
<1>2. None \notin Events
  <2>1. \A n \in Nat : n \in Int
    OBVIOUS
  <2> QED BY <1>1, <2>1, Zenon
<1>3. None \notin Plans /\ None \notin Keys
  BY LedgerConstants
<1> QED BY <1>2, <1>3

\* A new row is a row, leased by nobody.
LEMMA NewRowIsRow ==
  ASSUME NEW t \in Int
  PROVE  NewRow(t) \in Row /\ NewRow(t) # None
<1>1. NewRow(t) \in Row
  BY DEF NewRow, Row
<1> QED BY <1>1, LedgerConstants

\* A claim leases the row to the claimer until a later instant, and nothing else.
LEMMA ClaimedIsRow ==
  ASSUME NEW row \in Row, NEW p \in Pollers, now \in Int
  PROVE  LET r == Claimed(row, p)
         IN  /\ r \in Row /\ r # None /\ r.token = p /\ r.until = now + Lease
             /\ r.until # None /\ ~Vacant(r, now) /\ r.delivered = row.delivered
<1> DEFINE r == Claimed(row, p)
<1>0. row \in [attempts : Nat, expires : Int, token : Pollers \cup {None},
               until : Int \cup {None}, delivered : BOOLEAN]
  BY DEF Row
<1>1. now + Lease \in Int /\ ~(now + Lease <= now) /\ p # None /\ now + Lease # None
  BY LedgerConstants
<1>2. /\ r \in Row /\ r.token = p /\ r.until = now + Lease
      /\ r.delivered = row.delivered
  <2>1. r.token = p /\ r.until = now + Lease /\ r.delivered = row.delivered
    BY <1>0 DEF Claimed
  <2>2. row.attempts + 1 \in Nat
    BY <1>0
  <2>3. r \in [attempts : Nat, expires : Int, token : Pollers \cup {None},
               until : Int \cup {None}, delivered : BOOLEAN]
    BY <1>0, <1>1, <2>2 DEF Claimed
  <2> QED BY <1>1, <2>1, <2>3 DEF Row
<1> HIDE DEF r
<1>3. r # None
  BY <1>2, LedgerConstants
<1> QED BY <1>1, <1>2, <1>3 DEF Vacant, r

\* Releasing ends the lease, and nothing else.
LEMMA ReleasedIsRow ==
  ASSUME NEW row \in Row
  PROVE  LET r == Released(row)
         IN  /\ r \in Row /\ r # None /\ r.token = None /\ r.until = None
             /\ r.delivered = row.delivered /\ r.attempts = row.attempts
<1> DEFINE r == Released(row)
<1>0. row \in [attempts : Nat, expires : Int, token : Pollers \cup {None},
               until : Int \cup {None}, delivered : BOOLEAN]
  BY DEF Row
<1>1. /\ r \in Row /\ r.token = None /\ r.until = None
      /\ r.delivered = row.delivered /\ r.attempts = row.attempts
  BY <1>0 DEF Released, Row
<1> HIDE DEF r
<1>2. r # None
  BY <1>1, LedgerConstants
<1> QED BY <1>1, <1>2 DEF r

\* The end of a send touches the row only if the sender still holds it.
LEMMA FinishedIsRow ==
  ASSUME NEW k \in Keys, NEW p \in Pollers, NEW sent \in BOOLEAN, notes[k] \in Row \cup {None}
  PROVE  LET r == Finished(k, p, sent)
         IN  \/ r = notes[k] /\ (notes[k] = None \/ notes[k].token # p)
             \/ /\ notes[k] # None /\ notes[k].token = p
                /\ r \in Row /\ r # None /\ r.token = None /\ r.until = None
                /\ r.delivered \in {notes[k].delivered, TRUE}
<1>1. CASE notes[k] = None \/ notes[k].token # p
  BY <1>1 DEF Finished
<1>2. CASE notes[k] # None /\ notes[k].token = p
  <2> DEFINE q == Released(notes[k])
             r == [q EXCEPT !.delivered = q.delivered \/ sent]
  <2>1. q \in Row /\ q.token = None /\ q.until = None /\ q.delivered = notes[k].delivered
    BY <1>2, ReleasedIsRow
  <2>2. Finished(k, p, sent) = r
    BY <1>2 DEF Finished
  <2> HIDE DEF q
  <2>3. q.delivered \in BOOLEAN
    BY <2>1 DEF Row
  <2>4. r \in Row /\ r.token = None /\ r.until = None /\ r.delivered = (q.delivered \/ sent)
    BY <2>1, <2>3 DEF Row
  <2>5. r.delivered \in {notes[k].delivered, TRUE}
    BY <2>1, <2>3, <2>4
  <2> QED BY <1>2, <2>2, <2>4, <2>5, LedgerConstants
<1> QED BY <1>1, <1>2

-----------------------------------------------------------------------------
\* Frames: what a step keeps that leaves the announcements, or the processing, alone.

\* Without a change to the announcements, the plans and the clock the ledger stands.
LEMMA LedgersStand ==
  ASSUME IInv, UNCHANGED <<notes, now, plan, overrun>>,
         \A p \in Pollers : key'[p] \in {key[p], None}
  PROVE  Ledgers'
<1>1. PendingHasPlan' /\ OneSender' /\ Announced'
  BY DEF IInv, Ledgers, PendingHasPlan, OneSender, Announced, Delivered, Leased, Vacant
<1>2. Timely'
  BY DEF IInv, Ledgers, Timely, Outlived, Vacant
<1> QED BY <1>1, <1>2 DEF Ledgers

\* A step that leaves the places and the snapshots of all poll runs alone.
LEMMA WorkStands ==
  ASSUME IInv, UNCHANGED <<pc, visit, event, snap, processing, verified>>
  PROVE  Working'
  BY DEF IInv, Working

\* A poll run that ends leaves nothing behind (Exit).
LEMMA ExitKeeps ==
  ASSUME IInv, NEW p \in Pollers, Exit(p), UNCHANGED <<processing, verified>>
  PROVE  PollTypes' /\ Working' /\ \A q \in Pollers : key'[q] \in {key[q], None}
<1> USE DEF IInv, TypeOK, PollTypes
<1>1. /\ pc' = [pc EXCEPT ![p] = "idle"] /\ agenda' = [agenda EXCEPT ![p] = {}]
      /\ tried' = [tried EXCEPT ![p] = {}] /\ key' = [key EXCEPT ![p] = None]
      /\ visit' = [visit EXCEPT ![p] = {}] /\ event' = [event EXCEPT ![p] = None]
      /\ snap' = [snap EXCEPT ![p] = [e \in Events |-> None]]
  BY DEF Exit
<1>2. PollTypes'
  BY <1>1
<1>3. ASSUME NEW q \in Pollers
      PROVE  /\ event'[q] # None <=> pc'[q] \in {"replan", "committed", "announce2"}
             /\ event'[q] \notin visit'[q]
             /\ \A e \in visit'[q] : snap'[q][e] # None
             /\ event'[q] # None => snap'[q][event'[q]] # None /\ processing'[event'[q]] # None
             /\ pc'[q] \in {"committed", "announce2"} => snap'[q][event'[q]] \in verified'[event'[q]]
  BY <1>1 DEF Working
<1>4. Working'
  BY <1>3 DEF Working
<1> QED BY <1>1, <1>2, <1>4

\* Finishing an event gives its row back and goes on (Finish).
LEMMA FinishKeeps ==
  ASSUME IInv, NEW p \in Pollers, NEW done, Finish(p, done), event[p] # None,
         pc[p] # "idle",
         UNCHANGED <<agenda, tried, key, visit>>,
         \A e \in Events : verified[e] \subseteq verified'[e]
  PROVE  /\ processing' \in [Events -> Row \cup {None}] /\ seen' \subseteq Events
         /\ PollTypes' /\ Working'
         /\ \A e \in seen' \ seen : done /\ e = event[p]
<1> USE DEF IInv, TypeOK, PollTypes, StoreTypes
<1> DEFINE e == event[p]
<1>1. /\ e \in Events /\ event' = [event EXCEPT ![p] = None]
      /\ pc' = [pc EXCEPT ![p] = "visit"] /\ snap' = [snap EXCEPT ![p][e] = None]
  BY DEF Finish
<1>2. \/ UNCHANGED <<processing, seen>>
      \/ /\ processing[e].token = p /\ processing' = [processing EXCEPT ![e] = Released(@)]
         /\ seen' = IF done THEN seen \cup {e} ELSE seen
  BY DEF Finish
<1>3. seen' \subseteq Events /\ \A f \in seen' \ seen : done /\ f = event[p]
  BY <1>1, <1>2
<1>4. processing' \in [Events -> Row \cup {None}]
  <2>1. processing[e] \in Row
    BY <1>1 DEF Working
  <2> QED BY <1>1, <1>2, <2>1, ReleasedIsRow
<1>5. PollTypes'
  BY <1>1
<1>6. \A f \in Events : processing[f] # None => processing'[f] # None
  BY <1>1, <1>2, ReleasedIsRow
<1>7. ASSUME NEW q \in Pollers
      PROVE  /\ event'[q] # None <=> pc'[q] \in {"replan", "committed", "announce2"}
             /\ event'[q] \notin visit'[q]
             /\ \A f \in visit'[q] : snap'[q][f] # None
             /\ event'[q] # None => snap'[q][event'[q]] # None /\ processing'[event'[q]] # None
             /\ pc'[q] \in {"committed", "announce2"} => snap'[q][event'[q]] \in verified'[event'[q]]
  <2>1. CASE q = p
    <3>1. event'[p] = None /\ pc'[p] = "visit" /\ visit'[p] = visit[p]
      BY <1>1
    <3>2. \A f \in visit[p] : f # e /\ snap'[p][f] = snap[p][f] /\ snap[p][f] # None
      BY <1>1 DEF Working
    <3>3. None \notin visit[p]
      BY NoneIsNothing
    <3> QED BY <2>1, <3>1, <3>2, <3>3
  <2>2. CASE q # p
    <3>1. event'[q] = event[q] /\ pc'[q] = pc[q] /\ visit'[q] = visit[q]
      BY <1>1, <2>2
    <3>2. snap'[q] = snap[q]
      BY <1>1, <2>2
    <3>3. event[q] # None => event[q] \in Events /\ verified[event[q]] \subseteq verified'[event[q]]
      OBVIOUS
    <3> QED BY <1>6, <3>1, <3>2, <3>3 DEF Working
  <2> QED BY <2>1, <2>2
<1> QED BY <1>3, <1>4, <1>5, <1>7 DEF Working

-----------------------------------------------------------------------------
\* The steps.

\* The stores at the start are well formed and announce nothing.
LEMMA InitInv == Init => IInv
<1> SUFFICES ASSUME Init PROVE IInv
  OBVIOUS
<1> USE DEF Init
<1>1. TypeOK
  <2>1. plan \in [Events -> Plans \cup {None}]
    OBVIOUS
  <2>2. StoreTypes
    BY <2>1 DEF StoreTypes
  <2>3. PollTypes
    BY DEF PollTypes
  <2>4. verified \in [Events -> SUBSET Plans]
    OBVIOUS
  <2>5. now \in Int /\ changes \in Nat
    OBVIOUS
  <2>6. overrun \in BOOLEAN
    OBVIOUS
  <2> QED BY <2>2, <2>3, <2>4, <2>5, <2>6 DEF TypeOK
<1>2. Ledgers
  BY DEF Ledgers, PendingHasPlan, OneSender, Announced, Timely, Delivered, Leased, Outlived
<1>3. Working
  BY DEF Working
<1> QED BY <1>1, <1>2, <1>3 DEF IInv

\* Announcing: one sender a day (claim_alert_notification).
LEMMA ClaimNoteKeeps ==
  ASSUME IInv, NEW p \in Pollers, ClaimNote(p)
  PROVE  IInv'
<1> USE DEF IInv, TypeOK, StoreTypes, PollTypes, mutes
<1>1. Working'
  BY WorkStands DEF ClaimNote, history
<1>2. PICK k \in agenda[p] :
        /\ agenda' = [agenda EXCEPT ![p] = @ \ {k}]
        /\ IF Claimable(k)
           THEN /\ notes' = [notes EXCEPT ![k] = Claimed(@, p)]
                /\ tried' = [tried EXCEPT ![p] = @ \cup {k}]
                /\ key' = [key EXCEPT ![p] = k]
           ELSE UNCHANGED <<notes, tried, key>>
  BY DEF ClaimNote
<1>3. k \in Keys /\ agenda' \in [Pollers -> SUBSET Keys]
  BY <1>2
<1>4. CASE ~Claimable(k)
  <2>1. Ledgers'
    BY <1>2, <1>4, LedgersStand DEF ClaimNote, history
  <2> QED BY <1>1, <1>2, <1>3, <1>4, <2>1 DEF ClaimNote, history
<1>5. CASE Claimable(k)
  <2> DEFINE r == Claimed(notes[k], p)
  <2>1. /\ notes[k] \in Row /\ plan[k[1]] # None /\ ~notes[k].delivered
        /\ \A j \in Keys : j[2] = k[2] => ~Delivered(j) /\ ~Leased(j)
    BY <1>3, <1>5 DEF Claimable, PendingNotes
  <2>2. /\ r \in Row /\ r # None /\ r.token = p /\ ~Vacant(r, now)
        /\ r.delivered = notes[k].delivered
    BY <2>1, ClaimedIsRow
  <2> HIDE DEF r
  <2>3. /\ notes' = [notes EXCEPT ![k] = r] /\ key' = [key EXCEPT ![p] = k]
        /\ tried' = [tried EXCEPT ![p] = @ \cup {k}]
    BY <1>2, <1>5 DEF r
  <2>4. UNCHANGED <<now, plan, overrun>>
    BY DEF ClaimNote, history
  <2>5. TypeOK'
    BY <1>3, <2>2, <2>3 DEF ClaimNote, history
  <2>6. PendingHasPlan'
    BY <1>3, <2>1, <2>3, <2>4 DEF Ledgers, PendingHasPlan
  <2>7. \A j \in Keys : j # k => (Leased(j)' <=> Leased(j)) /\ (Delivered(j)' <=> Delivered(j))
    BY <2>3, <2>4 DEF Leased, Delivered, Vacant
  <2>8. ~Delivered(k)'
    BY <1>3, <2>1, <2>2, <2>3 DEF Delivered
  <2>9. OneSender'
    BY <1>3, <2>1, <2>7 DEF Ledgers, OneSender
  <2>10. Announced'
    BY <1>3, <2>1, <2>4, <2>7, <2>8 DEF Ledgers, Announced
  <2>11. Timely'
    <3> SUFFICES ASSUME ~overrun', NEW q \in Pollers PROVE ~Outlived(q, now)'
      BY DEF Timely
    <3>1. CASE q = p
      BY <1>3, <2>2, <2>3, <2>4, <3>1 DEF Outlived, Vacant
    <3>2. CASE q # p
      <4>1. key'[q] = key[q] /\ ~Outlived(q, now)
        BY <2>3, <2>4, <3>2 DEF Ledgers, Timely
      <4>2. CASE key[q] # k
        BY <2>3, <2>4, <4>1, <4>2 DEF Outlived, Vacant
      <4>3. CASE key[q] = k
        BY <1>3, <2>2, <2>3, <3>2, <4>1, <4>3 DEF Outlived
      <4> QED BY <4>2, <4>3
    <3> QED BY <3>1, <3>2
  <2> QED BY <1>1, <2>5, <2>6, <2>9, <2>10, <2>11 DEF Ledgers
<1> QED BY <1>4, <1>5

\* The end of a send releases the row of its holder and of nobody else
\* (finish_alert_notification).
LEMMA AckNoteKeeps ==
  ASSUME IInv, NEW p \in Pollers, AckNote(p)
  PROVE  IInv'
<1> USE DEF IInv, TypeOK, StoreTypes, PollTypes, mutes
<1>1. Working'
  BY WorkStands DEF AckNote, history
<1>0. PICK k \in Keys : k = key[p]
  BY DEF AckNote
<1>2. k \in Keys /\ key' = [key EXCEPT ![p] = None] /\ UNCHANGED <<now, plan, overrun>>
  BY DEF AckNote, history
<1>3. PICK sent \in BOOLEAN : notes' = [notes EXCEPT ![k] = Finished(k, p, sent)]
  BY <1>0 DEF AckNote
<1> DEFINE r == Finished(k, p, sent)
<1>4. \/ r = notes[k] /\ (notes[k] = None \/ notes[k].token # p)
      \/ /\ notes[k] # None /\ notes[k].token = p
         /\ r \in Row /\ r # None /\ r.token = None /\ r.until = None
         /\ r.delivered \in {notes[k].delivered, TRUE}
  <2>1. notes[k] \in Row \cup {None}
    BY <1>2
  <2> QED BY ZenonT(30), <1>2, <2>1, FinishedIsRow
<1> HIDE DEF r
<1>5. notes' = [notes EXCEPT ![k] = r]
  BY <1>3 DEF r
<1>6. CASE r = notes[k]
  <2>1. notes' = notes
    BY <1>2, <1>5, <1>6
  <2>2. \A q \in Pollers : key'[q] \in {key[q], None}
    BY <1>2
  <2>3. Ledgers'
    BY <1>2, <2>1, <2>2, LedgersStand
  <2> QED BY <1>1, <1>2, <2>1, <2>3 DEF AckNote, history
<1>7. CASE r # notes[k]
  <2>1. /\ notes[k] # None /\ notes[k].token = p
        /\ r \in Row /\ r # None /\ r.token = None /\ r.until = None
        /\ r.delivered \in {notes[k].delivered, TRUE}
    BY <1>4, <1>7
  <2>2. TypeOK'
    BY <1>2, <1>5, <2>1 DEF AckNote, history
  <2>3. \A j \in Keys : j # k => notes'[j] = notes[j]
    BY <1>2, <1>5
  <2>4. \A j \in Keys : j # k => (Leased(j)' <=> Leased(j)) /\ (Delivered(j)' <=> Delivered(j))
    BY <1>2, <2>3 DEF Leased, Delivered, Vacant
  <2>5. notes'[k] = r
    BY <1>2, <1>5
  <2>6. ~Leased(k)'
    BY <2>1, <2>5 DEF Leased, Vacant
  <2>7. PendingHasPlan'
    BY <1>2, <2>1, <2>3, <2>5 DEF Ledgers, PendingHasPlan
  <2>8. OneSender'
    <3> SUFFICES ASSUME NEW i \in Keys, NEW j \in Keys, i[2] = j[2], Leased(i)', Leased(j)'
                 PROVE  i = j
      BY DEF OneSender
    <3> QED BY <2>4, <2>6 DEF Ledgers, OneSender
  <2>9. Announced'
    <3> SUFFICES ASSUME ~overrun', NEW i \in Keys, NEW j \in Keys, i[2] = j[2],
                        Delivered(i)', Delivered(j)' \/ Leased(j)'
                 PROVE  i = j
      BY DEF Announced
    <3>1. Leased(k)
      <4>1. key[p] = k /\ ~Outlived(p, now)
        BY <1>0, <1>2 DEF Ledgers, Timely
      <4> QED BY <2>1, <4>1, <1>2, NoneIsNothing DEF Outlived, Leased
    <3>2. CASE i # k /\ j # k
      BY <1>2, <2>4, <3>2 DEF Ledgers, Announced
    <3>3. CASE i = k /\ j # k
      BY <1>2, <2>4, <3>1, <3>3 DEF Ledgers, Announced, OneSender
    <3>4. CASE i # k /\ j = k
      BY <1>2, <2>4, <3>1, <3>4 DEF Ledgers, Announced
    <3> QED BY <3>2, <3>3, <3>4
  <2>10. Timely'
    <3> SUFFICES ASSUME ~overrun', NEW q \in Pollers PROVE ~Outlived(q, now)'
      BY DEF Timely
    <3>1. CASE q = p
      BY <1>2, <3>1 DEF Outlived
    <3>2. CASE q # p
      <4>1. key'[q] = key[q] /\ ~Outlived(q, now)
        BY <1>2, <3>2 DEF Ledgers, Timely
      <4>2. CASE key[q] # k
        BY <1>2, <2>3, <4>1, <4>2 DEF Outlived, Vacant
      <4>3. CASE key[q] = k
        BY <2>1, <2>5, <4>1, <4>3, LedgerConstants DEF Outlived
      <4> QED BY <4>2, <4>3
    <3> QED BY <3>1, <3>2
  <2> QED BY <1>1, <2>2, <2>7, <2>8, <2>9, <2>10 DEF Ledgers
<1> QED BY <1>6, <1>7

\* A step that only moves a poll run on, or starts or ends it.
LEMMA RunKeeps ==
  ASSUME IInv, NEW p \in Pollers,
         Begin(p) \/ ReadPlans(p) \/ ListCommitted(p) \/ End(p) \/ Crash(p)
  PROVE  IInv'
<1> USE DEF IInv, TypeOK, StoreTypes, PollTypes, mutes, ledger, history
<1>1. UNCHANGED <<notes, now, plan, overrun, processing, verified, seen, muted, cancelling>>
  BY DEF Begin, ReadPlans, ListCommitted, End, Crash
<1>2. changes' \in Nat
  BY DEF Begin, ReadPlans, ListCommitted, End, Crash, Occurs
<1>3. PollTypes' /\ Working' /\ \A q \in Pollers : key'[q] \in {key[q], None}
  <2>1. CASE End(p) \/ Crash(p)
    BY <1>1, <2>1, ExitKeeps DEF End, Crash
  <2>2. CASE Begin(p) \/ ListCommitted(p)
    <3>1. Listed({}) \in SUBSET Keys /\ Listed(tried[p]) \in SUBSET Keys
      BY DEF Listed, PendingNotes
    <3>2. PollTypes' /\ key' = key
      <4>1. CASE Begin(p)
        BY <3>1, <4>1 DEF Begin
      <4>2. CASE ListCommitted(p)
        BY <3>1, <4>2 DEF ListCommitted
      <4> QED BY <2>2, <4>1, <4>2
    <3>3. ASSUME NEW q \in Pollers
          PROVE  /\ event'[q] = event[q] /\ visit'[q] = visit[q] /\ snap'[q] = snap[q]
                 /\ \/ pc'[q] = pc[q]
                    \/ pc[q] = "idle" /\ pc'[q] = "announce"
                    \/ pc[q] = "committed" /\ pc'[q] = "announce2"
      BY <2>2 DEF Begin, ListCommitted
    <3>4. Working'
      BY <1>1, <3>3 DEF Working
    <3> QED BY <3>2, <3>4
  <2>3. CASE ReadPlans(p)
    <3>1. /\ pc[p] = "announce" /\ pc' = [pc EXCEPT ![p] = "visit"]
          /\ snap' = [snap EXCEPT ![p] = plan] /\ UNCHANGED <<event, agenda, tried, key>>
          /\ visit' = [visit EXCEPT ![p] = {e \in Events : plan[e] # None}]
      BY <2>3 DEF ReadPlans
    <3>2. PollTypes'
      BY <3>1
    <3>3. ASSUME NEW q \in Pollers
          PROVE  /\ event'[q] # None <=> pc'[q] \in {"replan", "committed", "announce2"}
                 /\ event'[q] \notin visit'[q]
                 /\ \A e \in visit'[q] : snap'[q][e] # None
                 /\ event'[q] # None => snap'[q][event'[q]] # None /\ processing'[event'[q]] # None
                 /\ pc'[q] \in {"committed", "announce2"} => snap'[q][event'[q]] \in verified'[event'[q]]
      BY <1>1, <3>1, NoneIsNothing DEF Working
    <3> QED BY <3>1, <3>2, <3>3 DEF Working
  <2> QED BY <2>1, <2>2, <2>3
<1>4. Ledgers'
  BY <1>1, <1>3, LedgersStand
<1> QED BY <1>1, <1>2, <1>3, <1>4

\* Processing one event, up to the commit of its replan.
LEMMA ProcessKeeps ==
  ASSUME IInv, NEW p \in Pollers,
         ClaimEvent(p) \/ FailReplan(p) \/ KeepRoute(p) \/ DiscardReplan(p) \/ FinishReplan(p)
  PROVE  IInv' /\ \A e \in seen' \ seen : plan[e] \in verified'[e]
<1> USE DEF IInv, TypeOK, StoreTypes, PollTypes, mutes
<1>1. UNCHANGED <<notes, now, plan, overrun, key, muted, cancelling, changes>>
  BY DEF ClaimEvent, FailReplan, KeepRoute, DiscardReplan, FinishReplan, history
<1>2. Ledgers'
  BY <1>1, LedgersStand
<1>3. CASE ClaimEvent(p)
  <2>1. PICK e \in visit[p] :
          LET row  == ProcessingRow(e)
              free == row.attempts < MaxAttempts /\ row.expires > now /\ Vacant(row, now)
          IN  /\ visit' = [visit EXCEPT ![p] = @ \ {e}]
              /\ IF Start[e] <= now \/ e \in seen
                 THEN UNCHANGED <<processing, event, pc>>
                 ELSE /\ processing' = [processing EXCEPT ![e] = IF free THEN Claimed(row, p) ELSE row]
                      /\ IF free THEN /\ event' = [event EXCEPT ![p] = e]
                                      /\ pc' = [pc EXCEPT ![p] = "replan"]
                                 ELSE UNCHANGED <<event, pc>>
    BY <1>3 DEF ClaimEvent
  <2>2. /\ e \in Events /\ pc[p] = "visit" /\ snap[p][e] # None /\ event[p] = None
        /\ UNCHANGED <<seen, agenda, tried, snap, verified>>
    BY <1>3 DEF ClaimEvent, Working, history
  <2>3. visit' = [visit EXCEPT ![p] = @ \ {e}]
    BY <2>1
  <2>4. ProcessingRow(e) \in Row /\ ProcessingRow(e) # None
    <3>1. now + Grace \in Int
      BY LedgerConstants
    <3> QED BY <2>2, <3>1, NewRowIsRow DEF ProcessingRow
  <2>5. /\ Claimed(ProcessingRow(e), p) \in Row /\ Claimed(ProcessingRow(e), p) # None
    BY <2>4, ClaimedIsRow
  <2>6. \/ UNCHANGED <<processing, event, pc>>
        \/ \E r \in Row :
             /\ r # None /\ processing' = [processing EXCEPT ![e] = r]
             /\ \/ UNCHANGED <<event, pc>>
                \/ event' = [event EXCEPT ![p] = e] /\ pc' = [pc EXCEPT ![p] = "replan"]
    BY <2>1, <2>4, <2>5
  <2>7. /\ processing' \in [Events -> Row \cup {None}]
        /\ \A f \in Events : processing[f] # None => processing'[f] # None
        /\ event' # event => processing'[e] # None
    <3>1. CASE UNCHANGED <<processing, event, pc>>
      BY <3>1
    <3>2. CASE ~UNCHANGED <<processing, event, pc>>
      <4>1. PICK r \in Row : r # None /\ processing' = [processing EXCEPT ![e] = r]
        BY <2>6, <3>2
      <4> QED BY <2>2, <4>1
    <3> QED BY <3>1, <3>2
  <2>8. PollTypes'
    <3>1. event' \in [Pollers -> Events \cup {None}]
      BY <2>2, <2>6
    <3>2. pc' \in [Pollers -> {"idle", "announce", "visit", "replan", "committed", "announce2"}]
      BY <2>6
    <3>3. visit' \in [Pollers -> SUBSET Events]
      BY <2>3
    <3> QED BY <1>1, <2>2, <3>1, <3>2, <3>3
  <2>9. ASSUME NEW q \in Pollers
        PROVE  /\ event'[q] # None <=> pc'[q] \in {"replan", "committed", "announce2"}
               /\ event'[q] \notin visit'[q]
               /\ \A f \in visit'[q] : snap'[q][f] # None
               /\ event'[q] # None => snap'[q][event'[q]] # None /\ processing'[event'[q]] # None
               /\ pc'[q] \in {"committed", "announce2"} => snap'[q][event'[q]] \in verified'[event'[q]]
    <3>1. CASE UNCHANGED <<event, pc>> \/ q # p
      <4>1. event'[q] = event[q] /\ pc'[q] = pc[q] /\ visit'[q] \subseteq visit[q]
        BY <2>3, <2>6, <3>1
      <4>2. event[q] # None => event[q] \in Events
        OBVIOUS
      <4> QED BY <2>2, <2>7, <4>1, <4>2 DEF Working
    <3>2. CASE ~(UNCHANGED <<event, pc>>) /\ q = p
      <4>1. event'[p] = e /\ pc'[p] = "replan" /\ visit'[p] = visit[p] \ {e} /\ event' # event
        BY <2>2, <2>3, <2>6, <3>2, NoneIsNothing
      <4> QED BY <2>2, <2>7, <3>2, <4>1, NoneIsNothing DEF Working
    <3> QED BY <3>1, <3>2
  <2>10. Working'
    BY <2>9 DEF Working
  <2> QED BY <1>1, <1>2, <2>2, <2>7, <2>8, <2>10
<1>4. CASE FailReplan(p) \/ KeepRoute(p) \/ DiscardReplan(p) \/ FinishReplan(p)
  <2>1. pc[p] \in {"replan", "announce2"} /\ event[p] # None /\ event[p] \in Events
    BY <1>4 DEF FailReplan, KeepRoute, DiscardReplan, FinishReplan, Working
  <2>2. PICK done \in BOOLEAN :
          /\ Finish(p, done)
          /\ done => plan[event[p]] = snap[p][event[p]] /\ ~FailReplan(p) /\ ~DiscardReplan(p)
    <3>1. CASE FailReplan(p) \/ DiscardReplan(p)
      BY <3>1 DEF FailReplan, DiscardReplan
    <3>2. CASE ~(FailReplan(p) \/ DiscardReplan(p))
      BY <1>4, <3>2 DEF KeepRoute, FinishReplan, Processed
    <3> QED BY <3>1, <3>2
  <2>3. UNCHANGED <<agenda, tried, visit>>
    BY <1>4 DEF FailReplan, KeepRoute, DiscardReplan, FinishReplan
  <2>4. snap[p][event[p]] \in Plans
    BY <2>1 DEF Working
  <2>5. /\ verified' \in [Events -> SUBSET Plans]
        /\ \A e \in Events : verified[e] \subseteq verified'[e]
        /\ done => snap[p][event[p]] \in verified'[event[p]]
    <3>1. CASE KeepRoute(p)
      BY <2>1, <2>4, <3>1 DEF KeepRoute
    <3>2. CASE ~KeepRoute(p)
      <4>1. verified' = verified
        BY <1>4, <3>2 DEF FailReplan, DiscardReplan, FinishReplan, history
      <4>2. done => pc[p] = "announce2"
        BY <1>4, <2>2, <3>2 DEF FinishReplan
      <4> QED BY <4>1, <4>2 DEF Working
    <3> QED BY <3>1, <3>2
  <2>6. /\ processing' \in [Events -> Row \cup {None}] /\ seen' \subseteq Events
        /\ PollTypes' /\ Working'
        /\ \A e \in seen' \ seen : done /\ e = event[p]
    BY <1>1, <2>1, <2>2, <2>3, <2>5, FinishKeeps
  <2>7. \A e \in seen' \ seen : plan[e] \in verified'[e]
    BY <2>2, <2>5, <2>6
  <2> QED BY <1>1, <1>2, <2>5, <2>6, <2>7
<1> QED BY <1>3, <1>4

\* A committed replan is announced by a row that nobody leases yet.
LEMMA CommitKeeps ==
  ASSUME IInv, NEW p \in Pollers, CommitReplan(p)
  PROVE  IInv' /\ seen' = seen
<1> USE DEF IInv, TypeOK, StoreTypes, PollTypes, mutes
<1>1. PICK e \in Events : e = event[p]
  BY DEF CommitReplan, Working
<1> DEFINE expires == IF Start[e] < now + Grace THEN Start[e] ELSE now + Grace
<1>2. PICK k \in Keys : k = <<e, Day(now)>>
  <2>1. Day(now) \in Days
    BY DEF Day, Days
  <2>2. <<e, Day(now)>> \in Keys
    BY <2>1 DEF Keys
  <2> QED BY <2>2
<1>3. PICK new \in Plans \ {plan[e]} :
        /\ plan' = [plan EXCEPT ![e] = new]
        /\ snap' = [snap EXCEPT ![p][e] = new]
        /\ verified' = [verified EXCEPT ![e] = @ \cup {new}]
        /\ notes' = IF notes[k] = None THEN [notes EXCEPT ![k] = NewRow(expires)] ELSE notes
  BY <1>1, <1>2 DEF CommitReplan
<1>4. /\ UNCHANGED <<now, overrun, key, muted, cancelling, seen, processing, changes, agenda,
                     tried, visit, event>>
      /\ pc' = [pc EXCEPT ![p] = "committed"] /\ pc[p] = "replan" /\ plan[e] # None /\ new # None
  BY <1>1, NoneIsNothing DEF CommitReplan, Stale
<1>5. expires \in Int
  BY LedgerConstants
<1>6. PICK r \in Row : r # None /\ r = NewRow(expires)
  BY <1>5, NewRowIsRow
<1>7. r.token = None /\ r.until = None /\ ~r.delivered
  BY <1>6 DEF NewRow
<1>8. notes' = notes \/ (notes[k] = None /\ notes' = [notes EXCEPT ![k] = r])
  BY <1>3, <1>6
<1> HIDE DEF expires
<1>9. notes' \in [Keys -> Row \cup {None}]
  BY <1>8
<1>10. PollTypes'
  BY <1>1, <1>3, <1>4
<1>11. verified' \in [Events -> SUBSET Plans] /\ plan' \in [Events -> Plans \cup {None}]
  BY <1>3
<1>12. \A f \in Events : plan[f] # None => plan'[f] # None
  BY <1>3, <1>4
<1>13. \A j \in Keys : notes'[j] = notes[j] \/ (j = k /\ notes[j] = None /\ notes'[j] = r)
  BY <1>8
<1>14. PendingHasPlan'
  <2> SUFFICES ASSUME NEW j \in Keys, notes'[j] # None, ~notes'[j].delivered
               PROVE  plan'[j[1]] # None
    BY DEF PendingHasPlan
  <2>1. j[1] \in Events
    BY KeyParts
  <2>2. CASE notes'[j] = notes[j]
    BY <1>12, <2>1, <2>2 DEF Ledgers, PendingHasPlan
  <2>3. CASE j = k
    BY <1>2, <1>3, <1>4, <2>3
  <2> QED BY <1>13, <2>2, <2>3
<1>15. \A j \in Keys : (Leased(j)' => Leased(j)) /\ (Delivered(j)' => Delivered(j))
  BY <1>4, <1>7, <1>13 DEF Leased, Delivered, Vacant
<1>16. OneSender' /\ Announced'
  BY <1>4, <1>15 DEF Ledgers, OneSender, Announced
<1>17. Timely'
  <2> SUFFICES ASSUME ~overrun', NEW q \in Pollers PROVE ~Outlived(q, now)'
    BY DEF Timely
  <2>1. ~Outlived(q, now) /\ key'[q] = key[q]
    BY <1>4 DEF Ledgers, Timely
  <2>2. q # None
    BY LedgerConstants
  <2> QED BY <1>4, <1>7, <1>13, <2>1, <2>2 DEF Outlived, Vacant
<1>18. Working'
  <2> SUFFICES ASSUME NEW q \in Pollers
               PROVE  /\ event'[q] # None <=> pc'[q] \in {"replan", "committed", "announce2"}
                      /\ event'[q] \notin visit'[q]
                      /\ \A f \in visit'[q] : snap'[q][f] # None
                      /\ event'[q] # None => snap'[q][event'[q]] # None /\ processing'[event'[q]] # None
                      /\ pc'[q] \in {"committed", "announce2"} => snap'[q][event'[q]] \in verified'[event'[q]]
    BY DEF Working
  <2>1. CASE q = p
    <3>1. /\ pc'[p] = "committed" /\ event'[p] = e /\ visit'[p] = visit[p]
          /\ \A f \in Events : snap'[p][f] = IF f = e THEN new ELSE snap[p][f]
      BY <1>1, <1>3, <1>4
    <3>2. new \in verified'[e] /\ e # None
      BY <1>3, NoneIsNothing
    <3> QED BY <1>1, <1>4, <2>1, <3>1, <3>2 DEF Working
  <2>2. CASE q # p
    <3>1. snap'[q] = snap[q] /\ pc'[q] = pc[q]
      BY <1>3, <1>4, <2>2
    <3>2. event[q] # None => event[q] \in Events /\ verified[event[q]] \subseteq verified'[event[q]]
      BY <1>3
    <3> QED BY <1>4, <3>1, <3>2 DEF Working
  <2> QED BY <2>1, <2>2
<1> QED BY <1>4, <1>9, <1>10, <1>11, <1>14, <1>16, <1>17, <1>18 DEF Ledgers

\* Edits, mutes, cancellations, removals and the clock.
LEMMA SurroundingsKeep ==
  ASSUME IInv, (\E e \in Events : Edit(e) \/ Mute(e) \/ CancelMuted(e) \/ Remove(e)) \/ Tick
  PROVE  IInv' /\ seen' = seen
<1> USE DEF IInv, TypeOK, StoreTypes, PollTypes, mutes, ledger, pollVars, history
<1>1. CASE \E e \in Events : Mute(e)
  <2>1. Ledgers'
    BY <1>1, LedgersStand DEF Mute
  <2>2. Working'
    BY <1>1, WorkStands DEF Mute
  <2> QED BY <1>1, <2>1, <2>2 DEF Mute, Occurs
<1>2. CASE \E e \in Events : Edit(e) \/ CancelMuted(e) \/ Remove(e)
  <2>1. PICK e \in Events : Edit(e) \/ CancelMuted(e) \/ Remove(e)
    BY <1>2
  <2>2. Working'
    BY <2>1, WorkStands DEF Edit, CancelMuted, Remove
  <2>3. /\ UNCHANGED <<now, overrun, key, seen, processing>> /\ notes' \in {notes, Kept(e)}
        /\ changes' \in Nat
    BY <2>1 DEF Edit, CancelMuted, Remove, Occurs
  <2>4. \A j \in Keys : \/ notes'[j] = notes[j]
                        \/ notes'[j] = None
    BY <2>3 DEF Kept
  <2>5. notes' \in [Keys -> Row \cup {None}]
    BY <2>3 DEF Kept
  <2>6. plan' \in [Events -> Plans \cup {None}] /\ muted' \subseteq Events /\ cancelling' \subseteq muted'
    BY ZenonT(30), <2>1 DEF Edit, CancelMuted, Remove
  <2>7. PendingHasPlan'
    <3> SUFFICES ASSUME NEW j \in Keys, notes'[j] # None, ~notes'[j].delivered
                 PROVE  plan'[j[1]] # None
      BY DEF PendingHasPlan
    <3>1. j[1] \in Events /\ notes'[j] = notes[j] /\ plan[j[1]] # None
      BY <2>4, KeyParts DEF Ledgers, PendingHasPlan
    <3>2. CASE Edit(e)
      BY <3>1, <3>2, NoneIsNothing DEF Edit
    <3>3. CASE CancelMuted(e)
      BY <3>1, <3>3 DEF CancelMuted
    <3>4. CASE Remove(e)
      <4>1. notes' = Kept(e) /\ plan' = [plan EXCEPT ![e] = None]
        BY <3>4 DEF Remove
      <4>2. j[1] # e
        BY <3>1, <4>1 DEF Kept, Delivered
      <4> QED BY <3>1, <4>1, <4>2
    <3> QED BY <2>1, <3>2, <3>3, <3>4
  <2>8. \A j \in Keys : (Leased(j)' => Leased(j)) /\ (Delivered(j)' => Delivered(j))
    BY <2>3, <2>4 DEF Leased, Delivered, Vacant
  <2>9. OneSender' /\ Announced'
    BY <2>3, <2>8 DEF Ledgers, OneSender, Announced
  <2>10. Timely'
    <3> SUFFICES ASSUME ~overrun', NEW q \in Pollers PROVE ~Outlived(q, now)'
      BY DEF Timely
    <3>1. ~Outlived(q, now) /\ key'[q] = key[q]
      BY <2>3 DEF Ledgers, Timely
    <3> QED BY <2>3, <2>4, <3>1 DEF Outlived, Vacant
  <2>11. UNCHANGED <<pc, agenda, tried, visit, event, snap, verified>>
    BY <2>1 DEF Edit, CancelMuted, Remove
  <2> QED BY <2>2, <2>3, <2>5, <2>6, <2>7, <2>9, <2>10, <2>11 DEF Ledgers
<1>3. CASE Tick
  <2>1. /\ now' = now + 1 /\ overrun' = (overrun \/ \E p \in Pollers : Outlived(p, now + 1))
        /\ UNCHANGED <<plan, muted, cancelling, seen, processing, notes, pc, agenda, tried, key,
                       visit, event, snap, changes, verified>>
    BY <1>3 DEF Tick
  <2>2. overrun' \in BOOLEAN
    BY <2>1
  <2>3. TypeOK'
    BY <2>1, <2>2
  <2>4. Working'
    BY <2>1, WorkStands
  <2>5. PendingHasPlan'
    BY <2>1 DEF Ledgers, PendingHasPlan
  <2>6. \A j \in Keys : (Leased(j)' => Leased(j)) /\ (Delivered(j)' <=> Delivered(j))
    <3> SUFFICES ASSUME NEW j \in Keys, notes[j] # None PROVE Leased(j)' => Leased(j)
      BY <2>1 DEF Delivered, Leased
    <3>1. notes[j].until = None \/ notes[j].until \in Int
      BY DEF Row
    <3> QED BY <2>1, <3>1 DEF Leased, Vacant
  <2>7. OneSender'
    BY <2>6 DEF Ledgers, OneSender
  <2>8. Announced'
    BY <2>1, <2>6 DEF Ledgers, Announced
  <2>9. Timely'
    BY <2>1 DEF Timely, Outlived
  <2> QED BY <2>1, <2>3, <2>4, <2>5, <2>7, <2>8, <2>9 DEF Ledgers
<1> QED BY <1>1, <1>2, <1>3

\* Every step preserves the invariant.
LEMMA StepInv ==
  ASSUME IInv, [Next]_vars
  PROVE  IInv'
<1>1. CASE \E p \in Pollers : ClaimNote(p) \/ AckNote(p)
  BY <1>1, ClaimNoteKeeps, AckNoteKeeps
<1>2. CASE \E p \in Pollers : Begin(p) \/ ReadPlans(p) \/ ListCommitted(p) \/ End(p) \/ Crash(p)
  BY <1>2, RunKeeps
<1>3. CASE \E p \in Pollers : \/ ClaimEvent(p) \/ FailReplan(p) \/ KeepRoute(p)
                              \/ DiscardReplan(p) \/ FinishReplan(p)
  BY <1>3, ProcessKeeps
<1>4. CASE \E p \in Pollers : CommitReplan(p)
  BY <1>4, CommitKeeps
<1>5. CASE (\E e \in Events : Edit(e) \/ Mute(e) \/ CancelMuted(e) \/ Remove(e)) \/ Tick
  BY <1>5, SurroundingsKeep
<1>6. CASE UNCHANGED vars
  BY <1>6 DEF vars, mutes, ledger, pollVars, history, IInv, TypeOK, StoreTypes, PollTypes,
       Ledgers, PendingHasPlan, OneSender, Announced, Timely, Working, Delivered, Leased,
       Outlived, Vacant
<1> QED BY <1>1, <1>2, <1>3, <1>4, <1>5, <1>6 DEF Next, PollStep

\* The invariant holds in every reachable state.
THEOREM InvHolds == Spec => []IInv
  BY InitInv, StepInv, PTL DEF Spec

\* The ledgers are well formed.
THEOREM TypeCorrect == Spec => []TypeOK
<1>1. IInv => TypeOK
  BY DEF IInv
<1> QED BY <1>1, InvHolds, PTL

\* "One alert/day has one active sender", whatever the number of poll runs.
THEOREM OneSenderHolds == Spec => []OneSender
<1>1. IInv => OneSender
  BY DEF IInv, Ledgers
<1> QED BY <1>1, InvHolds, PTL

\* Unless a sender outlived its lease, an alert is announced once a day.
THEOREM OneAnnouncementHolds == Spec => []OneAnnouncement
<1>1. IInv => OneAnnouncement
  BY DEF IInv, Ledgers, Announced, OneAnnouncement
<1> QED BY <1>1, InvHolds, PTL

\* No announcement is pending for an event without a plan.
THEOREM PendingHasPlanHolds == Spec => []PendingHasPlan
<1>1. IInv => PendingHasPlan
  BY DEF IInv, Ledgers
<1> QED BY <1>1, InvHolds, PTL

-----------------------------------------------------------------------------
\* Action properties.

\* A lease in force is ended by its owner, or with its row.
THEOREM LeaseEndsByOwnerHolds == Spec => LeaseEndsByOwner
<1> DEFINE Step == \A k \in Keys :
             Leased(k) /\ notes'[k] # None /\ notes'[k].token # notes[k].token =>
               LET p == notes[k].token IN key[p] = k /\ key'[p] = None
<1>1. IInv /\ [Next]_vars => [Step]_notes
  <2> SUFFICES ASSUME IInv, [Next]_vars, NEW k \in Keys, Leased(k), notes'[k] # None,
                      notes'[k].token # notes[k].token
               PROVE  LET p == notes[k].token IN key[p] = k /\ key'[p] = None
    OBVIOUS
  <2> USE DEF IInv, TypeOK, StoreTypes, PollTypes, mutes, ledger, pollVars, history
  <2>1. notes[k] # None
    BY DEF Leased
  <2>2. CASE \E p \in Pollers : AckNote(p)
    <3>1. PICK p \in Pollers : AckNote(p)
      BY <2>2
    <3>2. PICK sent \in BOOLEAN : notes' = [notes EXCEPT ![key[p]] = Finished(key[p], p, sent)]
      BY <3>1 DEF AckNote
    <3>3. key[p] = k /\ notes'[k] = Finished(k, p, sent)
      BY <3>2
    <3>4. notes[k].token = p
      BY <2>1, <3>3 DEF Finished
    <3> QED BY <3>1, <3>3, <3>4 DEF AckNote
  <2>3. CASE \E p \in Pollers : ClaimNote(p)
    <3>1. PICK p \in Pollers, j \in Keys : Claimable(j) /\ notes' = [notes EXCEPT ![j] = Claimed(@, p)]
      BY <2>3 DEF ClaimNote
    <3>2. j = k
      BY <3>1
    <3> QED BY <3>1, <3>2 DEF Claimable
  <2>4. CASE \E p \in Pollers : CommitReplan(p)
    <3>1. \E j, row : notes' = IF notes[j] = None THEN [notes EXCEPT ![j] = row] ELSE notes
      BY <2>4 DEF CommitReplan
    <3>2. PICK j, row : notes' = IF notes[j] = None THEN [notes EXCEPT ![j] = row] ELSE notes
      BY <3>1
    <3>3. j # k => notes'[k] = notes[k]
      BY <3>2
    <3>4. j = k => notes'[k] = notes[k]
      BY <2>1, <3>2
    <3> QED BY <3>3, <3>4
  <2>5. CASE \E e \in Events : Edit(e) \/ Mute(e) \/ CancelMuted(e) \/ Remove(e)
    BY <2>5 DEF Edit, Mute, CancelMuted, Remove, Kept
  <2>6. CASE UNCHANGED notes
    BY <2>6
  <2>7. ASSUME NEW p \in Pollers,
               \/ Begin(p) \/ ReadPlans(p) \/ ListCommitted(p) \/ End(p) \/ Crash(p)
               \/ ClaimEvent(p) \/ FailReplan(p) \/ KeepRoute(p) \/ DiscardReplan(p)
               \/ FinishReplan(p)
        PROVE  UNCHANGED notes
    BY <2>7 DEF Begin, ReadPlans, ListCommitted, End, Crash, ClaimEvent, FailReplan, KeepRoute,
         DiscardReplan, FinishReplan
  <2> QED BY <2>2, <2>3, <2>4, <2>5, <2>6, <2>7 DEF Next, PollStep, Tick, vars
<1> QED BY <1>1, InvHolds, PTL DEF Spec, LeaseEndsByOwner

\* An alert counts as seen only for a plan that was checked against it.
THEOREM SeenMeansVerifiedHolds == Spec => SeenMeansVerified
<1> DEFINE Step == \A e \in seen' \ seen : plan[e] \in verified'[e]
<1>1. IInv /\ [Next]_vars => [Step]_seen
  <2> SUFFICES ASSUME IInv, [Next]_vars PROVE Step
    OBVIOUS
  <2>1. CASE \E p \in Pollers : \/ ClaimEvent(p) \/ FailReplan(p) \/ KeepRoute(p)
                                \/ DiscardReplan(p) \/ FinishReplan(p)
    BY <2>1, ProcessKeeps
  <2>2. CASE UNCHANGED seen
    BY <2>2
  <2>3. ASSUME NEW p \in Pollers,
               \/ Begin(p) \/ ReadPlans(p) \/ ListCommitted(p) \/ End(p) \/ Crash(p)
               \/ ClaimNote(p) \/ AckNote(p) \/ CommitReplan(p)
        PROVE  UNCHANGED seen
    BY <2>3, CommitKeeps DEF Begin, ReadPlans, ListCommitted, End, Crash, ClaimNote, AckNote, ledger
  <2>4. CASE (\E e \in Events : Edit(e) \/ Mute(e) \/ CancelMuted(e) \/ Remove(e)) \/ Tick
    BY <2>4, SurroundingsKeep
  <2> QED BY <2>1, <2>2, <2>3, <2>4 DEF Next, PollStep, vars, ledger
<1> QED BY <1>1, InvHolds, PTL DEF Spec, SeenMeansVerified
=============================================================================
