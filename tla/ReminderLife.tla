----------------------------- MODULE ReminderLife -----------------------------
(***************************************************************************)
(* What the reminder store promises, without tables, clocks or jobs.       *)
(*                                                                         *)
(* A reminder of one event exists in generations.  A generation moves      *)
(* forward only: absent, pending, spent, dead.  At most one generation of  *)
(* a kind is in force; one sender at a time takes a pending generation,    *)
(* which spends it, and then delivers it, gives it back or forgets it.     *)
(* Giving back is the only way from spent to pending: never for a          *)
(* generation that is dead or delivered, and fewer than Limit times.       *)
(***************************************************************************)
EXTENDS Integers

CONSTANTS
  Generations, \* identities of generations
  Nobody,      \* no kind, no generation
  Limit        \* bound on the attempts to deliver a generation

\* The stages a generation may be in from now on, if it is never given back.
Onward == [absent  |-> {"absent", "pending", "spent", "dead"},
           pending |-> {"pending", "spent", "dead"},
           spent   |-> {"spent", "dead"},
           dead    |-> {"dead"}]

VARIABLES
  stage,       \* of each generation
  kind,        \* of each generation that is not absent
  tries,       \* how often it was given back
  sending,     \* the generation taken by the sender, or Nobody
  delivered    \* the generations the notifier acknowledged

lifeVars == <<stage, kind, tries, sending, delivered>>

\* Pending or spent, not superseded.
InForce(k) == {g \in Generations : kind[g] = k /\ stage[g] \in {"pending", "spent"}}

Init ==
  /\ stage = [g \in Generations |-> "absent"]
  /\ kind = [g \in Generations |-> Nobody]
  /\ tries = [g \in Generations |-> 0]
  /\ sending = Nobody /\ delivered = {}

\* Planning, snoozing, muting, skipping: generations appear, are spent unsent or
\* are superseded, any number of them in one transaction.
Revise ==
  /\ \A g \in Generations :
       /\ stage'[g] \in Onward[stage[g]]
       /\ IF stage[g] = "absent" THEN tries'[g] = 0
          ELSE kind'[g] = kind[g] /\ tries'[g] = tries[g]
  /\ \A k \in {"prep", "leave"} : \A g, h \in InForce(k)' : g = h
  /\ UNCHANGED <<sending, delivered>>

\* The sender takes what is pending; a get-ready reminder only while the departure
\* in force has not been delivered.
Take(g) ==
  /\ sending = Nobody /\ stage[g] = "pending"
  /\ kind[g] = "prep" => InForce("leave") \cap delivered = {}
  /\ stage' = [stage EXCEPT ![g] = "spent"] /\ sending' = g
  /\ UNCHANGED <<kind, tries, delivered>>

Deliver ==
  /\ sending # Nobody /\ sending \notin delivered
  /\ delivered' = delivered \cup {sending} /\ sending' = Nobody
  /\ UNCHANGED <<stage, kind, tries>>

\* A muted event, the last attempt, a send whose generation was superseded, a crash.
Forget ==
  /\ sending # Nobody /\ sending' = Nobody
  /\ UNCHANGED <<stage, kind, tries, delivered>>

GiveBack(g) ==
  /\ sending = g /\ stage[g] = "spent" /\ g \notin delivered
  /\ \A h \in InForce(kind[g]) : h = g
  /\ tries[g] + 1 < Limit
  /\ stage' = [stage EXCEPT ![g] = "pending"]
  /\ tries' = [tries EXCEPT ![g] = @ + 1]
  /\ sending' = Nobody
  /\ UNCHANGED <<kind, delivered>>

Next == Revise \/ Deliver \/ Forget \/ \E g \in Generations : Take(g) \/ GiveBack(g)

Spec == Init /\ [][Next]_lifeVars
=============================================================================
