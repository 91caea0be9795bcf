-------------------------- MODULE ReminderRefinement --------------------------
(***************************************************************************)
(* The jobs and commands of Reminders, whatever they interleave, implement *)
(* ReminderLife.  The mapping forgets the plan, the clock and the program  *)
(* counters: a row is a generation, its two flags are its stage, and the   *)
(* entry poll holds is the generation being sent.                          *)
(***************************************************************************)
EXTENDS Reminders

StageOf(row) ==
  IF row = None THEN "absent"
  ELSE IF row.retired THEN "dead"
  ELSE IF row.fired THEN "spent" ELSE "pending"

Life == INSTANCE ReminderLife WITH
  Generations <- Ids,
  Nobody      <- None,
  Limit       <- MaxSendAttempts,
  stage       <- [i \in Ids |-> StageOf(rows[i])],
  kind        <- [i \in Ids |-> IF rows[i] = None THEN None ELSE rows[i].kind],
  tries       <- [i \in Ids |-> IF rows[i] = None THEN 0 ELSE rows[i].attempts],
  sending     <- IF held = None THEN None ELSE held.id,
  delivered   <- acknowledged

\* Every behaviour of the poll job, the morning job, the commands and their crashes
\* is one of the life cycle: generations only move forward, except that the one the
\* poll job holds may be given back, unless it was delivered or superseded meanwhile.
LifeCycle == Life!Spec
=============================================================================
