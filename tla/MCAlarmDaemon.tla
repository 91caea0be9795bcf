--------------------------- MODULE MCAlarmDaemon ----------------------------
EXTENDS AlarmDaemon

Sched(w, l, p, c) == [wake |-> w, deadline |-> l, prep |-> p, count |-> c]

\* Publications: an automatic window, the same window replanned a tick earlier, a
\* manual wake with two snoozes, and tomorrow's window.
WindowSchedules ==
  {Sched(1, 5, 1, None), Sched(0, 4, 0, None), Sched(2, 4, None, 2), Sched(6, 10, 6, None)}

=============================================================================
