------------------------------- MODULE MCLive -------------------------------
(* What must eventually happen in three programs: the process tracer, the    *)
(* stdio probe in a session, and the background monitor.  They share no      *)
(* state, so that a behaviour is of one of them.                             *)
EXTENDS ProcessTracer

VARIABLES
  part,  \* the program of this behaviour: "tracer", "stdio" or "monitor"
  ioOpts, ioPhase, ioAttached, ioScan, ioAlive, ioParent, ioSess, ioEvents,
  ioCalls, ioCurrent, ioArgs, ioTracked, ioRing, ioShown, ioKin, ioSeen,
  ioLost, monInst, monFile, monDb, monOthers, monService, monLeft,
  monDisturbed, monImpostor

ioVars ==
  <<ioOpts, ioPhase, ioAttached, ioScan, ioAlive, ioParent, ioSess, ioEvents,
    ioCalls, ioCurrent, ioArgs, ioTracked, ioRing, ioShown, ioKin, ioSeen,
    ioLost>>

monVars ==
  <<monInst, monFile, monDb, monOthers, monService, monLeft, monDisturbed,
    monImpostor>>

Option(mode, cgroup) ==
  [mode |-> mode, session |-> FALSE, duration |-> FALSE, cgroup |-> cgroup, events |-> 2]
MCLive == {Option("filter", FALSE), Option("proc", FALSE), Option("filter", TRUE)}

\* Nobody reads or writes here.
MCStdio == {[session |-> TRUE, pid |-> 0, allFds |-> FALSE, traffic |-> {}]}

Io == INSTANCE StdioProbe WITH
  Pids <- {1, 2, 3}, Alive0 <- {1, 3}, Session0 <- {1}, Options <- MCStdio,
  Levels <- 2, Entries <- 2, RingSize <- 1, Events <- 4, NoPid <- 0,
  opts <- ioOpts, phase <- ioPhase, attached <- ioAttached, scan <- ioScan,
  alive <- ioAlive, parent <- ioParent, sess <- ioSess, events <- ioEvents,
  calls <- ioCalls, current <- ioCurrent, args <- ioArgs,
  tracked <- ioTracked, ring <- ioRing, shown <- ioShown, kin <- ioKin,
  seen <- ioSeen, lost <- ioLost

\* The service with another program and a fault, or with two faults.
MCBudgets == {[starts |-> 1, faults |-> 1], [starts |-> 0, faults |-> 2]}

Monitor == INSTANCE MonitorService WITH
  Pids <- {1, 2}, Budgets <- MCBudgets, MaxInst <- 3,
  inst <- monInst, file <- monFile, db <- monDb, others <- monOthers,
  service <- monService, left <- monLeft, disturbed <- monDisturbed,
  impostor <- monImpostor
ASSUME Monitor!MonitorAssumption

\* The program that a behaviour is not of is in some initial state.
MCInit ==
  /\ part \in {"tracer", "stdio", "monitor"}
  /\ Init /\ Io!Init /\ Monitor!Init
  /\ part # "tracer" => opts = CHOOSE o \in Options : TRUE
  /\ part # "monitor" => monFile = Monitor!Absent /\ monLeft.starts = 0

MCNext ==
  \/ part = "tracer" /\ Next /\ UNCHANGED <<part, ioVars, monVars>>
  \/ part = "stdio" /\ Io!Next /\ UNCHANGED <<part, vars, monVars>>
  \/ part = "monitor" /\ Monitor!Next /\ UNCHANGED <<part, vars, ioVars>>

MCSpec == MCInit /\ [][MCNext]_<<part, vars, ioVars, monVars>>

\* The properties, each of its own program, under the fairness of that program
\* and explained in its module.

\* handle_event of the process tracer forgets every process that has exited.
EventuallyForgottenByTracer == part = "tracer" /\ Fairness => EventuallyForgotten

\* refresh_session_pids of stdiocap finds whoever stays in the session.
EventuallyTracked == part = "stdio" /\ Io!Fairness => Io!EventuallyTracked

\* run_monitor returns after a signal.
StopsOnSignal == part = "monitor" /\ Monitor!Fairness => Monitor!StopsOnSignal

\* A monitor service that failed or was rebooted comes to run again.
ServiceReturns == part = "monitor" /\ Monitor!Fairness => Monitor!ServiceReturns
=============================================================================
