--------------------------- MODULE MCProcessTracer ---------------------------
(* The command lines the runs explore.  The tracer's other option, -p, is   *)
(* the constant Target; -c is in each process's comm.                       *)
EXTENDS ProcessTracer

Option(mode, session, duration, n) ==
  [mode |-> mode, session |-> session, duration |-> duration, cgroup |-> FALSE,
   events |-> n]

\* With --cgroup-filter.
Filtered(mode, n) == [Option(mode, FALSE, FALSE, n) EXCEPT !.cgroup = TRUE]

MCSafety   == {Option("filter", FALSE, FALSE, 3), Option("filter", TRUE, FALSE, 2),
               Option("proc", FALSE, FALSE, 3), Option("all", FALSE, FALSE, 2),
               Filtered("filter", 2), Filtered("all", 2)}
MCDuration == {Option("filter", FALSE, TRUE, 3)}
=============================================================================
