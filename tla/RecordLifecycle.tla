--------------------------- MODULE RecordLifecycle ---------------------------
(***************************************************************************)
(* The life of a recording: run_exec, which launches a target and records  *)
(* it, and run_trace, which only records (HasTarget = FALSE).  The main    *)
(* task starts one child process per probe, merges their output, and waits *)
(* in a select for output, the target's exit or the shutdown notification, *)
(* while the target runs, probes exit and the signal task notifies.        *)
(***************************************************************************)
EXTENDS Naturals, FiniteSets

CONSTANTS
  Probes,     \* 1 .. n, in the order AgentRunner starts them
  HasTarget,  \* run_exec; otherwise run_trace
  HasSystem,  \* a SystemRunner is among the runners: its stream never ends
  NeedsSudo,  \* the effective user is not root
  MaxLines    \* bound: lines in the pipe of a probe

ASSUME RecordAssumption ==
  /\ IsFiniteSet(Probes) /\ Probes = 1 .. Cardinality(Probes)
  /\ HasTarget \in BOOLEAN /\ HasSystem \in BOOLEAN
  /\ NeedsSudo \in BOOLEAN
  /\ MaxLines \in Nat

VARIABLES
  pc,        \* where the main task is
  target,    \* the launched command
  probe,     \* each probe's process
  stream,    \* the recorder's end of each probe's output
  lines,     \* lines written by each probe and not yet read
  signal,    \* whether SIGINT or SIGTERM has been handled (the handler runs once)
  woken,     \* the notification reached a future the main task waits on
  readied,   \* history: preparation and startup have succeeded
  late,      \* history: SIGCONT was sent before the shell had stopped itself
  refused    \* history: the probes, and 0 for the target, that the recorder
             \* tried to end and could not

past == <<readied, late, refused>>
vars == <<pc, target, probe, stream, lines, signal, woken, past>>
io   == <<stream, lines>>

Init ==
  /\ pc = "prepare"
  /\ target = IF HasTarget THEN "shell" ELSE "none"
  /\ probe = [p \in Probes |-> "none"]
  /\ stream = [p \in Probes |-> "none"]
  /\ lines = [p \in Probes |-> 0]
  /\ signal = FALSE /\ woken = FALSE
  /\ readied = FALSE /\ late = FALSE /\ refused = {}

-----------------------------------------------------------------------------
\* What the select of the main task is not doing

\* The shell of run_exec stops itself; once continued it is the command.
ShellStops ==
  /\ target = "shell" /\ target' = "stopped"
  /\ UNCHANGED <<pc, probe, io, signal, woken, past>>

\* The command ends, or somebody kills the shell.
TargetExits ==
  /\ target \in {"shell", "stopped", "running"} /\ target' = "exited"
  /\ UNCHANGED <<pc, probe, io, signal, woken, past>>

ProbeWrites(p) ==
  /\ probe[p] = "up" /\ lines[p] < MaxLines
  /\ lines' = [lines EXCEPT ![p] = @ + 1]
  /\ UNCHANGED <<pc, target, probe, stream, signal, woken, past>>

ProbeExits(p, status) ==
  /\ probe[p] = "up"
  /\ probe' = [probe EXCEPT ![p] = status]
  /\ UNCHANGED <<pc, target, io, signal, woken, past>>

Waiting == pc \in {"select", "drain"}

\* The signal task: notify_waiters wakes the futures that exist now, and the
\* task ends, so that a later signal is only absorbed.
Signal ==
  /\ ~signal /\ signal' = TRUE
  /\ woken' = Waiting
  /\ UNCHANGED <<pc, target, probe, io, past>>

-----------------------------------------------------------------------------
\* The main task up to its loop

\* prepare_process_seeds, build_trace_agent_with_view and the web server;
\* each may fail, and the target's shell is not stopped then.
Prepare ==
  /\ pc = "prepare"
  /\ pc' \in {"start", "returned"}
  /\ UNCHANGED <<target, probe, io, signal, woken, past>>

\* A mutant: the guard never uses sudo.
DroppedWithoutSudo(p) == IF probe[p] = "up" /\ ~NeedsSudo THEN "killed" ELSE probe[p]

\* A runner that is dropped: the guard exists once its stream has been
\* polled, and terminates the process group, with sudo if need be; before
\* that there is only kill_on_drop, which cannot kill what sudo runs.
Dropped(p) ==
  IF probe[p] = "up" /\ (stream[p] = "open" \/ (stream[p] = "unpolled" /\ ~NeedsSudo))
    THEN "killed" ELSE probe[p]

\* terminate runs sudo -n kill and ignores its status: it does nothing once sudo
\* has forgotten the user's password.
Refusals == SUBSET {p \in Probes : NeedsSudo /\ probe[p] = "up" /\ stream[p] = "open"}

DropStreams ==
  \E spared \in Refusals :
    /\ probe' = [p \in Probes |-> IF p \in spared THEN probe[p] ELSE Dropped(p)]
    /\ stream' = [p \in Probes |-> IF stream[p] = "open" THEN "ended" ELSE stream[p]]
    /\ refused' = refused \cup spared

\* get_json_stream of one runner after the other; a failure (spawn, or an
\* exit during the startup delay) drops the streams opened so far.
StartProbe(p) ==
  /\ pc = "start"
  /\ probe[p] = "none" /\ \A q \in Probes : q < p => probe[q] # "none"
  /\ probe' = [probe EXCEPT ![p] = "up"]
  /\ stream' = [stream EXCEPT ![p] = "unpolled"]
  /\ UNCHANGED <<pc, target, lines, signal, woken, past>>

StartFails ==
  /\ pc = "start"
  /\ \E p \in Probes : probe[p] = "none"
  /\ DropStreams
  /\ pc' = "stopTarget"
  /\ UNCHANGED <<target, lines, signal, woken, readied, late>>

\* A mutant: SIGCONT is not sent.
StartedSilently ==
  /\ pc = "start"
  /\ \A p \in Probes : probe[p] # "none"
  /\ readied' = TRUE
  /\ pc' = "select"
  /\ UNCHANGED <<target, probe, io, signal, woken, late, refused>>

\* The delay of 250 ms and SIGCONT, which does nothing to a shell that has
\* not stopped itself yet; run_trace has neither.
Started ==
  /\ pc = "start"
  /\ \A p \in Probes : probe[p] # "none"
  /\ target' = IF target = "stopped" THEN "running" ELSE target
  /\ readied' = TRUE
  /\ late' = (target = "shell")
  /\ pc' = "select"
  /\ UNCHANGED <<probe, io, signal, woken, refused>>

-----------------------------------------------------------------------------
\* The select: its branches are polled in random order, and a notification
\* that reached the future of an iteration is gone with the iteration.

\* Polling the merged stream polls the probes' streams until one has a line.
Poll(p) ==
  /\ Waiting /\ stream[p] = "unpolled"
  /\ stream' = [stream EXCEPT ![p] = "open"]
  /\ UNCHANGED <<pc, target, probe, lines, signal, woken, past>>

\* A line is analyzed; the next iteration waits on a new future.
TakeLine(p) ==
  /\ Waiting /\ stream[p] = "open" /\ lines[p] > 0
  /\ lines' = [lines EXCEPT ![p] = @ - 1]
  /\ pc' = IF pc = "select" THEN "handle" ELSE "drainHandle"
  /\ woken' = FALSE
  /\ UNCHANGED <<target, probe, stream, signal, past>>

NextIteration ==
  /\ pc \in {"handle", "drainHandle"}
  /\ pc' = IF pc = "handle" THEN "select" ELSE "drain"
  /\ UNCHANGED <<target, probe, io, signal, woken, past>>

\* End of a probe's output: killed and waited for, and an error event if its
\* status was not success, which ends the recording.
EndOfOutput(p) ==
  /\ Waiting /\ stream[p] = "open" /\ lines[p] = 0 /\ probe[p] \in {"ok", "failed"}
  /\ IF probe[p] = "failed"
       THEN /\ pc' = IF pc = "select" THEN "stopTarget" ELSE "drop"
            /\ UNCHANGED stream
       ELSE /\ stream' = [stream EXCEPT ![p] = "ended"]
            /\ UNCHANGED pc
  /\ UNCHANGED <<target, probe, lines, signal, woken, past>>

StreamEnds ==
  /\ Waiting /\ ~HasSystem /\ \A p \in Probes : stream[p] = "ended"
  /\ pc' = IF pc = "select" THEN "stopTarget" ELSE "drop"
  /\ UNCHANGED <<target, probe, io, signal, woken, past>>

TargetGone ==
  /\ pc = "select" /\ target = "exited"
  /\ pc' = "drain" /\ woken' = FALSE
  /\ UNCHANGED <<target, probe, io, signal, past>>

\* A mutant: the drain waits for the streams to end.
DrainToEnd ==
  /\ pc = "drain" /\ \A p \in Probes : stream[p] = "ended"
  /\ pc' = "drop"
  /\ UNCHANGED <<target, probe, io, signal, woken, past>>

\* drain_stream_for returns after five seconds.
DrainDeadline ==
  /\ pc = "drain" /\ pc' = "drop"
  /\ UNCHANGED <<target, probe, io, signal, woken, past>>

Shutdown ==
  /\ Waiting /\ woken
  /\ pc' = IF pc = "select" THEN "stopTarget" ELSE "drop"
  /\ UNCHANGED <<target, probe, io, signal, woken, past>>

\* A mutant: the target is left alone.
StopTargetNot ==
  /\ pc = "stopTarget" /\ pc' = "drop"
  /\ UNCHANGED <<target, probe, io, signal, woken, past>>

\* stop_child: the target has two seconds to exit, then it is killed.  If waiting
\* for it or killing it fails (it may have become another user's), it is left.
StopTarget ==
  /\ pc = "stopTarget"
  /\ \E ended \in BOOLEAN :
       /\ ended \/ target \in {"shell", "stopped", "running"}
       /\ target' = IF HasTarget /\ ended THEN "exited" ELSE target
       /\ refused' = IF ended THEN refused ELSE refused \cup {0}
  /\ pc' = "drop"
  /\ UNCHANGED <<probe, io, signal, woken, readied, late>>

Return ==
  /\ pc = "drop"
  /\ DropStreams
  /\ pc' = "returned"
  /\ UNCHANGED <<target, lines, signal, woken, readied, late>>

Main ==
  \/ Prepare \/ StartFails \/ Started
  \/ NextIteration \/ StreamEnds \/ TargetGone \/ DrainDeadline \/ Shutdown
  \/ StopTarget \/ Return
  \/ \E p \in Probes : StartProbe(p) \/ Poll(p) \/ TakeLine(p) \/ EndOfOutput(p)

Next ==
  \/ Main \/ ShellStops \/ TargetExits \/ Signal
  \/ \E p \in Probes : ProbeWrites(p) \/ \E s \in {"ok", "failed"} : ProbeExits(p, s)

Spec == Init /\ [][Next]_vars

\* The runtime schedules the main task, and its timers fire; select starts
\* with a random branch, so that lines without end do not hide for ever that
\* the target is gone or the deadline has passed.  Nothing makes the target or
\* a probe exit, or the shell stop itself.
FairSpec == Spec /\ WF_vars(Main) /\ SF_vars(TargetGone) /\ SF_vars(DrainDeadline)

-----------------------------------------------------------------------------
\* The shape of the state: there is output only where there was a probe, and
\* nobody is waited for before the probes have been started.
TypeOK ==
  /\ pc \in {"prepare", "start", "select", "handle", "drain", "drainHandle",
            "stopTarget", "drop", "returned"}
  /\ target \in {"none", "shell", "stopped", "running", "exited"}
  /\ probe \in [Probes -> {"none", "up", "ok", "failed", "killed"}]
  /\ stream \in [Probes -> {"none", "unpolled", "open", "ended"}]
  /\ lines \in [Probes -> 0 .. MaxLines]
  /\ signal \in BOOLEAN /\ woken \in BOOLEAN /\ readied \in BOOLEAN /\ late \in BOOLEAN
  /\ refused \subseteq Probes \cup {0}
  /\ HasTarget <=> target # "none"
  /\ \A p \in Probes : stream[p] = "none" <=> probe[p] = "none"
  /\ (Waiting \/ pc \in {"handle", "drainHandle"}) => \A p \in Probes : stream[p] # "none"
  /\ target = "running" => readied

\* When a recording that got under way returns, by whichever branch, its target
\* has ended, whether it was running or its shell was still stopped: the recorder
\* leaves no command behind but one it tried to end and could not.
TargetStopped ==
  pc = "returned" /\ readied => target \in {"none", "exited"} \/ 0 \in refused

\* A probe outlives the recording only if sudo runs it, and either its stream was
\* never polled, which is so when a later probe fails to start, or sudo refused to
\* kill it (common.rs ignores the status of sudo -n kill).
ProbesStopped == pc = "returned" =>
  \A p \in Probes : probe[p] = "up" => NeedsSudo /\ (stream[p] = "unpolled" \/ p \in refused)

\* The recording stops when the target does ("Monitoring stops automatically
\* when the child exits", run_exec).
StopsWithTarget == target = "exited" ~> pc = "returned"

\* The command that was asked for is executed, unless the recording ends, its shell
\* is killed first, or the 250 ms of run_exec were over before the shell had
\* stopped itself.  In the last case SIGCONT is lost, the shell stops afterwards,
\* and the recording waits for a command that never runs.
TargetRuns ==
  target \in {"shell", "stopped"} ~> (target \in {"running", "exited"} \/ late \/ pc = "returned")

\* A shutdown signal, which is answered with "Received shutdown signal,
\* shutting down...", ends the recording.
ShutdownIsObeyed == signal ~> pc = "returned"
=============================================================================
