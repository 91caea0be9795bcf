---------------------------- MODULE MCAlertLedger ----------------------------
(***************************************************************************)
(* Small instances of AlertLedger.  A lease lasts one unit of time and an  *)
(* intent two, as against one and fifteen minutes.                         *)
(***************************************************************************)
EXTENDS AlertLedger, TLC, FiniteSets

\* One event that starts after the logical day has changed.
StartsLate == 1 :> 3

\* Two events of the same day.
StartsApart == 1 :> 2 @@ 2 :> 4

\* How many rows of either ledger were claimed more than n times.
ClaimedOver(n) ==
  Cardinality({k \in Keys : notes[k] # None /\ notes[k].attempts > n}) +
  Cardinality({e \in Events : processing[e] # None /\ processing[e].attempts > n})

\* Where a row is claimed a second time, at most two rows are claimed at all.
FewRetries == ClaimedOver(1) > 0 => ClaimedOver(0) + ClaimedOver(1) <= 3

\* Poll runs differ by nothing but their name, and so do plans.
Interchangeable == Permutations(Pollers) \cup Permutations(Plans)
=============================================================================
