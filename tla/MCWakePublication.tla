------------------------- MODULE MCWakePublication -------------------------
\* A small instance of WakePublication: logical days of four hours, a wake
\* window of one hour, a fallback two hours into the day.
EXTENDS WakePublication, TLC

MCConfig == [window |-> TRUE, lead |-> 1, advance |-> 0, wakeLead |-> 0,
             fallback |-> 2, startHour |-> 0]

MCIntents == {[deadline |-> 3, force |-> TRUE, snoozes |-> 2],
              [deadline |-> 7, force |-> FALSE, snoozes |-> None]}

Departure(leave) == [start |-> leave + 1, prep |-> leave - 1, leave |-> leave, error |-> "ok"]

Days == {0, Day, 2 * Day, 3 * Day}
Nothing == [d \in Days |-> <<>>]
Morning == [Nothing EXCEPT ![0] = <<Departure(2)>>, ![Day] = <<Departure(Day + 2)>>]
Broken == [d \in Days |-> Failed]

MCCalendars == {Morning, Broken}

PublisherSymmetry == Permutations(Publishers)
=============================================================================
