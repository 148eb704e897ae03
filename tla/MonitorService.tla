--------------------------- MODULE MonitorService ---------------------------
(***************************************************************************)
(* The background monitor and its pid file (collector/src/cmd_monitor.rs). *)
(*                                                                         *)
(* At most one monitor is to run, and `agentsight top` is to find it.      *)
(* Both are left to a file with a PID in it: a program reads the file,     *)
(* asks the kernel whether that PID lives, removes the file if it does     *)
(* not, and a monitor then writes its own.  None of this is atomic, PIDs   *)
(* are reused, and the file survives crashes and reboots.  systemd starts  *)
(* a monitor again that has failed, and not one that has exited with 0.    *)
(*                                                                         *)
(* The database has one path here: that of a monitor which was started in  *)
(* another week differs, and is its own business.                          *)
(***************************************************************************)
EXTENDS Naturals, Sequences, FiniteSetsExt

CONSTANTS
  Pids,    \* PIDs, naturals above 0
  Budgets, \* bounds, one of which a behaviour keeps to: programs started by hand,
           \* installations included; and faults, which are failing calls, crashes,
           \* reboots and deletions of the database
  MaxInst  \* bound: programs started

MonitorAssumption ==
  /\ Pids \subseteq Nat \ {0} /\ MaxInst \in Nat
  /\ Budgets \subseteq [starts : Nat, faults : Nat]

VARIABLES
  inst,      \* the programs started so far: kind, PID, place in the code, the
             \* content of the file as it was read, SHUTDOWN_REQUESTED, and
             \* whether the program is about to exit with 0
  file,      \* monitor.pid: "absent", "partial", or "whole" with the PID in it,
             \* and (history) which program wrote it
  db,        \* the database exists
  others,    \* PIDs of processes that are no AgentSight
  service,   \* systemd's state: "waiting" to start, "active", "stopping", "stopped",
             \* "restarting", and "inactive" after an exit with 0 nobody asked for
  left,      \* starts and faults left of the budget
  disturbed, \* history: monitors during whose start, or whose end, another
             \* program was using the file, or whose database was deleted
  impostor   \* history: a monitor has refused to run because of a process
             \* that had not written the file

vars == <<inst, file, db, others, service, left, disturbed, impostor>>

Kinds == {"service", "user", "top"}
Absent == [state |-> "absent", pid |-> 0, by |-> 0]
Partial == [state |-> "partial", pid |-> 0, by |-> 0]

Alive(i) == inst[i].pc # "exited"
PidIsAlive(p) == p \in others \/ \E i \in DOMAIN inst : inst[i].pid = p /\ Alive(i)
At(i, pc) == i \in DOMAIN inst /\ inst[i].pc = pc

\* PIDs that a file names, or a program remembers; all others are alike.
NamedPids == ({file.pid} \cup {inst[i].seen.pid : i \in DOMAIN inst}) \ {0}

FreshPids ==
  LET free == {p \in Pids : ~PidIsAlive(p)} IN
  (free \cap NamedPids) \cup
    (IF free \subseteq NamedPids THEN {} ELSE {Min(free \ NamedPids)})

\* Where a program has read the file and may still change it
UsesFile(i) == inst[i].pc \in {"verify", "remove", "open", "truncate", "write", "unlink"}
Serving(i) == inst[i].pc \in {"work", "select", "sleep", "guard", "unlink"}

\* A file left over by a monitor that crashed before is what Init adds to
\* an empty directory; it names a PID that anyone may have now.
Init ==
  /\ inst = << >>
  /\ file \in {Absent} \cup {[state |-> "whole", pid |-> p, by |-> 0] : p \in Pids}
  /\ db = (file # Absent)
  /\ others = {} /\ service = "waiting"
  /\ left \in Budgets
  /\ disturbed = {} /\ impostor = FALSE

Goto(i, pc) == inst' = [inst EXCEPT ![i].pc = pc]

\* Another program that uses the file at the moment, and i itself if there is one
Disturbs(i) ==
  LET them == {j \in DOMAIN inst \ {i} : UsesFile(j)} IN
  disturbed' = disturbed \cup them \cup (IF them = {} THEN {} ELSE {i})

Exited == [kind |-> "user", pid |-> 0, pc |-> "exited", seen |-> Absent,
           asked |-> FALSE, ok |-> TRUE]

\* Process i ends with the given exit status.
Ends(i, ok) ==
  /\ inst' = [inst EXCEPT ![i] = Exited]
  /\ service' = IF inst[i].kind # "service" THEN service
                ELSE IF service = "stopping" THEN "stopped"
                ELSE IF ok /\ service = "active" THEN "inactive" ELSE "waiting"

-----------------------------------------------------------------------------
\* systemd and the user

Begin(kind) ==
  /\ Len(inst) < MaxInst
  /\ \E p \in IF kind = "top" THEN {0} ELSE FreshPids :
          inst' = Append(inst, [kind |-> kind, pid |-> p, pc |-> "read", seen |-> Absent,
                               asked |-> FALSE, ok |-> TRUE])
  /\ UNCHANGED <<file, db, others, disturbed, impostor>>

StartService == service = "waiting" /\ service' = "active" /\ Begin("service") /\ UNCHANGED left

\* agentsight monitor, or one of the two times that top --plain asks
StartByHand(kind) ==
  /\ left.starts > 0 /\ left' = [left EXCEPT !.starts = @ - 1]
  /\ Begin(kind) /\ UNCHANGED service

\* The task of setup_signal_handler sets the flag and notifies those who wait at
\* this moment.
Asked(i) == [inst[i] EXCEPT !.asked = TRUE, !.pc = IF @ = "sleep" THEN "guard" ELSE @]

\* SIGINT or SIGTERM to a monitor
Signal(i) ==
  /\ Alive(i) /\ inst[i].kind # "top" /\ ~inst[i].asked
  /\ inst' = [inst EXCEPT ![i] = Asked(i)]
  /\ UNCHANGED <<file, db, others, service, left, disturbed, impostor>>

\* SIGTERM to the service, if it has a process
Terminate(after) ==
  /\ service' = after
  /\ inst' = [i \in DOMAIN inst |->
                 IF inst[i].kind = "service" /\ Alive(i) THEN Asked(i) ELSE inst[i]]
  /\ UNCHANGED <<file, db, others, disturbed, impostor>>

\* systemctl stop
StopService ==
  /\ \/ service = "active" /\ Terminate("stopping")
     \/ service = "waiting" /\ Terminate("stopped")
  /\ UNCHANGED left

\* agentsight monitor install-service, which ends with systemctl restart
InstallService ==
  /\ left.starts > 0 /\ left' = [left EXCEPT !.starts = @ - 1]
  /\ \/ service \in {"inactive", "stopped"} /\ Terminate("waiting")
     \/ service = "active" /\ Terminate("restarting")

-----------------------------------------------------------------------------
\* active_monitor

\* A mutant: a file that cannot be parsed is taken for a running monitor's.
ReadOrRefuse(i) ==
  /\ At(i, "read")
  /\ IF file.state = "whole"
       THEN inst' = [inst EXCEPT ![i].pc = "verify", ![i].seen = file] /\ UNCHANGED service
       ELSE IF file.state = "partial" \/ inst[i].kind = "top"
         THEN Ends(i, TRUE)
         ELSE Goto(i, "open") /\ UNCHANGED service
  /\ Disturbs(i)
  /\ UNCHANGED <<file, db, others, left, impostor>>

\* read_to_string and from_str: no file, or one that cannot be parsed, is no
\* monitor and stays as it is.
Read(i) ==
  /\ At(i, "read")
  /\ IF file.state = "whole"
       THEN inst' = [inst EXCEPT ![i].pc = "verify", ![i].seen = file] /\ UNCHANGED service
       ELSE IF inst[i].kind = "top"
         THEN Ends(i, TRUE)
         ELSE Goto(i, "open") /\ UNCHANGED service
  /\ Disturbs(i)
  /\ UNCHANGED <<file, db, others, left, impostor>>

\* pid_is_alive and db_path.exists(): "AgentSight monitor already running" ends a
\* monitor with 0, and has top show the database.
Verify(i) ==
  /\ At(i, "verify")
  /\ IF PidIsAlive(inst[i].seen.pid) /\ db
       THEN /\ Ends(i, TRUE)
            /\ impostor' = (impostor \/ /\ inst[i].kind # "top"
                                        /\ \/ inst[i].seen.by = 0
                                           \/ ~Alive(inst[i].seen.by))
       ELSE Goto(i, "remove") /\ UNCHANGED <<service, impostor>>
  /\ UNCHANGED <<file, db, others, left, disturbed>>

\* remove_file, whatever is in the file by now
RemoveStale(i) ==
  /\ At(i, "remove")
  /\ file' = Absent
  /\ IF inst[i].kind = "top" THEN Ends(i, TRUE) ELSE Goto(i, "open") /\ UNCHANGED service
  /\ UNCHANGED <<db, others, left, disturbed, impostor>>

-----------------------------------------------------------------------------
\* run_monitor

\* MonitorStore::open_default
OpenStore(i) ==
  /\ At(i, "open")
  /\ db' = TRUE /\ Goto(i, "truncate")
  /\ UNCHANGED <<file, others, service, left, disturbed, impostor>>

\* write_monitor_pid_file: fs::write empties the file and then writes it.
Truncate(i) ==
  /\ At(i, "truncate")
  /\ file' = Partial /\ Goto(i, "write")
  /\ UNCHANGED <<db, others, service, left, disturbed, impostor>>

WritePid(i) ==
  /\ At(i, "write")
  /\ file' = [state |-> "whole", pid |-> inst[i].pid, by |-> i]
  /\ Goto(i, "work")
  /\ UNCHANGED <<db, others, service, left, disturbed, impostor>>

\* A mutant: only the notification ends the loop.
NeverAsks(i) ==
  /\ At(i, "work") /\ Goto(i, "select")
  /\ UNCHANGED <<file, db, others, service, left, disturbed, impostor>>

\* refresh_monitor_sample, insert_sample, and shutdown_requested
Work(i) ==
  /\ At(i, "work")
  /\ Goto(i, IF inst[i].asked THEN "guard" ELSE "select")
  /\ UNCHANGED <<file, db, others, service, left, disturbed, impostor>>

\* select! waits from here on; a notification before this is lost.  Then the
\* interval passes.
Wait(i) ==
  /\ \/ At(i, "select") /\ Goto(i, "sleep")
     \/ At(i, "sleep") /\ Goto(i, "work")
  /\ UNCHANGED <<file, db, others, service, left, disturbed, impostor>>

\* A mutant: the file is removed whoever is named in it.
GuardTakesAny(i) ==
  /\ At(i, "guard") /\ Goto(i, "unlink") /\ Disturbs(i)
  /\ UNCHANGED <<file, db, others, service, left, impostor>>

\* checkpoint, and MonitorPidGuard::drop
Guard(i) ==
  /\ At(i, "guard")
  /\ IF file.state = "whole" /\ file.pid = inst[i].pid
       THEN Goto(i, "unlink") /\ UNCHANGED service
       ELSE Ends(i, inst[i].ok)
  /\ Disturbs(i)
  /\ UNCHANGED <<file, db, others, left, impostor>>

Unlink(i) ==
  /\ At(i, "unlink")
  /\ file' = Absent /\ Ends(i, inst[i].ok)
  /\ UNCHANGED <<db, others, left, disturbed, impostor>>

Step(i) ==
  \/ Read(i) \/ Verify(i) \/ RemoveStale(i) \/ OpenStore(i) \/ Truncate(i)
  \/ WritePid(i) \/ Work(i) \/ Wait(i) \/ Guard(i) \/ Unlink(i)

-----------------------------------------------------------------------------
\* What goes wrong

Fault == left.faults > 0 /\ left' = [left EXCEPT !.faults = @ - 1]

\* A call returns an error: before the guard exists, the program ends at once, and
\* leaves an empty file if it could empty it and not write it; afterwards the guard is dropped.
Fails(i) ==
  /\ Fault
  /\ \/ /\ At(i, "open") \/ At(i, "truncate") \/ At(i, "write")
        /\ Ends(i, FALSE)
     \/ /\ At(i, "work") \/ At(i, "guard")
        /\ inst' = [inst EXCEPT ![i].pc = "guard", ![i].ok = FALSE]
        /\ UNCHANGED service
  /\ UNCHANGED <<file, db, others, disturbed, impostor>>

\* SIGKILL
Crash(i) ==
  /\ Fault
  /\ Alive(i) /\ inst[i].kind # "top"
  /\ Ends(i, FALSE)
  /\ UNCHANGED <<file, db, others, disturbed, impostor>>

\* The file survives a reboot, unless it had not reached the disk; PIDs are dealt
\* anew, and the service is started.
Reboot ==
  /\ Fault
  /\ inst' = [i \in DOMAIN inst |-> Exited]
  /\ file' \in {file, Partial}
  /\ others' \in SUBSET ({file.pid} \ {0})
  /\ service' = "waiting"
  /\ UNCHANGED <<db, disturbed, impostor>>

DeleteDb ==
  /\ Fault
  /\ db /\ db' = FALSE
  /\ disturbed' = disturbed \cup {i \in DOMAIN inst : Alive(i)}
  /\ UNCHANGED <<inst, file, others, service, impostor>>

\* Other processes begin and end; bound: one of them at a time has a PID that matters.
Reuse ==
  /\ \/ others # {} /\ others' = {}
     \/ others = {} /\ \E p \in NamedPids : ~PidIsAlive(p) /\ others' = {p}
  /\ UNCHANGED <<inst, file, db, service, left, disturbed, impostor>>

Next ==
  \/ StartService \/ InstallService \/ StopService \/ Reboot \/ DeleteDb \/ Reuse
  \/ \E kind \in {"user", "top"} : StartByHand(kind)
  \/ \E i \in DOMAIN inst : Step(i) \/ Fails(i) \/ Crash(i) \/ Signal(i)

Spec == Init /\ [][Next]_vars

\* The scheduler lets every program go on, and systemd's timer expires.
Fairness ==
  /\ \A i \in 1 .. MaxInst : WF_vars(Step(i))
  /\ WF_vars(StartService)

FairSpec == Spec /\ Fairness

-----------------------------------------------------------------------------
TypeOK ==
  /\ file.state \in {"absent", "partial", "whole"} /\ file.by \in DOMAIN inst \cup {0}
  /\ \A i \in DOMAIN inst : inst[i].kind \in Kinds /\ inst[i].pid \in Pids \cup {0}
  /\ \A i, j \in DOMAIN inst : inst[i].pid = inst[j].pid /\ inst[i].pid # 0 => i = j

\* A monitor at whose start nobody else was using the file, and whose database
\* nobody has deleted, is named in the file for as long as it runs, so top finds
\* it, and there is no other such monitor: whatever crashes, failures and reboots
\* came before and whoever has the PIDs that were left in the file.  Two monitors
\* run only if one of them was started while another program was between reading
\* the file and writing or removing it, or was running when the database was
\* deleted: the next start then takes its file for a stale one (active_monitor),
\* removes it and runs, without any race.
NamedInFile ==
  /\ TypeOK
  /\ \A i \in DOMAIN inst : Serving(i) /\ i \notin disturbed => file.by = i

\* A monitor that is signalled ends, although a notification between the test of
\* the flag and select! reaches nobody.
StopsOnSignal ==
  \A i \in 1 .. MaxInst : (i \in DOMAIN inst /\ inst[i].asked)
                        ~> (i \in DOMAIN inst /\ inst[i].pc = "exited")

\* A service that is due to run comes to run, after failures, crashes and reboots,
\* or another monitor does, or systemd was told to stop it.  There is one way out:
\* the PID in a file that was left over belongs to a process that is no
\* monitor, the new monitor itself included, and it exits with 0.
ServiceReturns ==
  (service = "waiting") ~> (\/ \E i \in DOMAIN inst : Serving(i)
                            \/ impostor \/ service \in {"stopping", "stopped"})

=============================================================================
