----------------------------- MODULE StdioProbe -----------------------------
(***************************************************************************)
(* The stdio probe: tracepoints on read and write (src/bpf/stdiocap.bpf.c) *)
(* and the program that keeps their set of tracked processes up to date    *)
(* and prints their records (src/bpf/stdiocap.c).                          *)
(*                                                                         *)
(* With --session, the program scans /proc before every poll and adds the  *)
(* members of the session to tracked_pids; the enter probe adds a process  *)
(* one of whose ancestors it finds there.  Nothing is ever removed.  The   *)
(* exit probe looks only at what an enter probe has left for its thread.   *)
(*                                                                         *)
(* Left out are -c, which drops records as they are printed, -u, which     *)
(* with --session leaves out the session's processes of other users, and a *)
(* signal to the program, which ends its loop (EINTR).                     *)
(***************************************************************************)
EXTENDS Naturals, FiniteSets, Sequences, SequencesExt, FiniteSetsExt

CONSTANTS
  Pids,      \* process ids, naturals; each process has one thread
  Alive0,    \* the processes that live when the program starts
  Session0,  \* those of them that are in the session of --session
  Options,   \* command lines explored
  Levels,    \* ancestors that tracked_or_descendant visits (8)
  Entries,   \* max_entries of io_args and of tracked_pids
  RingSize,  \* records the ring buffer holds
  Events,    \* bound: calls made and changes of processes
  NoPid      \* no target; the parent of a process whose parent has exited

StdioAssumption ==
  /\ Pids \subseteq Nat \ {0} /\ NoPid \notin Pids
  /\ Session0 \subseteq Alive0 /\ Alive0 \subseteq Pids
  /\ Levels \in Nat /\ Entries \in Nat /\ RingSize \in Nat
  /\ Events \in Nat
  /\ \A o \in Options : /\ o.session \in BOOLEAN /\ o.allFds \in BOOLEAN
                        /\ o.traffic \subseteq Pids \X {"read", "write"} \X Nat

VARIABLES
  opts,      \* the command line: pid, session, allFds; and the bound traffic:
             \* which calls are made, by process, direction and descriptor
  phase,     \* "attaching", "scanning" or "polling"
  attached,  \* the tracepoints attached, in the order of Tracepoints
  scan,      \* the PIDs that the scan of /proc has still to visit
  alive, parent, sess,  \* processes; their parents; members of the session
  events,    \* bound on Events
  calls,     \* history: every read and write, with how it ended
  current,   \* the call each process is in, or None
  args,      \* io_args: the call whose arguments are stored, or None
  tracked,   \* keys of tracked_pids
  ring, shown,  \* records in the ring; history: calls that were printed
  kin,       \* history: PIDs that ever were of the session or descended from it
  seen,      \* history: living processes that a scan has met in the session
  lost       \* history: calls whose record found the ring full, or for which
             \* io_args or tracked_pids had no room

kernel  == <<alive, parent, sess>>
program == <<opts, phase, attached, scan>>
records == <<ring, shown>>
vars    == <<program, kernel, events, calls, current, args, tracked, records, kin, seen, lost>>

None == 0
Tracepoints == <<<<"enter", "read">>, <<"exit", "read">>, <<"enter", "write">>, <<"exit", "write">>>>
On(side, dir) == \E i \in 1 .. attached : Tracepoints[i] = <<side, dir>>

Init ==
  /\ opts \in Options
  /\ phase = "attaching" /\ attached = 0 /\ scan = {}
  /\ alive = Alive0 /\ parent = [p \in Pids |-> NoPid] /\ sess = Session0
  /\ events = 0
  /\ calls = << >> /\ current = [p \in Pids |-> None]
  /\ args = [p \in Pids |-> None] /\ tracked = {}
  /\ ring = << >> /\ shown = {}
  /\ kin = Session0 /\ seen = {} /\ lost = {}

-----------------------------------------------------------------------------
\* The program

Attach ==
  /\ phase = "attaching"
  /\ attached' = attached + 1
  /\ IF attached' = Len(Tracepoints)
       THEN IF opts.session
              THEN phase' = "scanning" /\ scan' = Pids
              ELSE phase' = "polling" /\ UNCHANGED scan
       ELSE UNCHANGED <<phase, scan>>
  /\ UNCHANGED <<opts, kernel, events, calls, current, args, tracked, records, kin, seen, lost>>

Room(entries) == Cardinality(entries) < Entries

\* refresh_session_pids: one entry of /proc, in the order of the PIDs; a
\* failed update is not noticed.
Visit(p) ==
  /\ phase = "scanning" /\ p \in scan /\ p = Min(scan)
  /\ scan' = scan \ {p}
  /\ tracked' = IF p \in sess /\ Room(tracked) THEN tracked \cup {p} ELSE tracked
  /\ seen' = IF p \in sess /\ p \in tracked' THEN seen \cup {p} ELSE seen
  /\ UNCHANGED <<opts, phase, attached, kernel, events, calls, current, args, records, kin, lost>>

EndScan ==
  /\ phase = "scanning" /\ scan = {}
  /\ phase' = "polling"
  /\ UNCHANGED <<opts, attached, scan, kernel, events, calls, current, args, tracked, records,
                 kin, seen, lost>>

\* ring_buffer__poll hands over one record ...
Handle ==
  /\ phase = "polling" /\ ring # << >>
  /\ ring' = Tail(ring)
  /\ shown' = shown \cup {Head(ring)}
  /\ UNCHANGED <<program, kernel, events, calls, current, args, tracked, kin, seen, lost>>

\* A mutant: the session is scanned once, when the program starts.
ScannedOnce ==
  /\ phase = "polling" /\ opts.session /\ ring = << >>
  /\ UNCHANGED vars

\* ... and returns when there is none left or the timeout has passed; a
\* record that arrives at that moment arrives during the next scan.
EndPoll ==
  /\ phase = "polling" /\ opts.session /\ ring = << >>
  /\ phase' = "scanning" /\ scan' = Pids
  /\ UNCHANGED <<opts, attached, kernel, events, calls, current, args, tracked, records, kin,
                 seen, lost>>

-----------------------------------------------------------------------------
\* The probes

\* The line of descent that ends with p, from the parent on
Descent(line, p, n) ==
  line[0] = p /\ \A i \in 1 .. n : line[i] = parent[line[i - 1]]

\* The first ancestors, of which those are missing whose descendants have
\* outlived them: their children are reparented to a process outside Pids.
Ancestors(p) ==
  {q \in Pids : \E n \in 1 .. Levels : \E line \in [0 .. n -> Pids] :
                   Descent(line, p, n) /\ line[n] = q}

\* A mutant: descendants are recognised and not remembered.
AdoptNobody(p) == {}

\* tracked_or_descendant: whom the enter probe adds to tracked_pids
Adopted(p) == IF p \notin tracked /\ Ancestors(p) \cap tracked # {} THEN {p} ELSE {}

SelectedFd(fd) == opts.allFds \/ fd <= 2

\* trace_allowed; -u selects a subset of the processes like -p does.
Allowed(p, fd) ==
  /\ SelectedFd(fd)
  /\ IF opts.session THEN p \in tracked \/ Adopted(p) # {}
     ELSE opts.pid = NoPid \/ opts.pid = p

Stored(p, c) == [args EXCEPT ![p] = c]

ArgsRoom(p) == args[p] # None \/ Room({q \in Pids : args[q] # None})

\* A process of the session that was met by a scan, or a descendant of one
Due(p) == p \in seen \/ Ancestors(p) \cap seen # {}

Happens == events < Events /\ events' = events + 1

\* A process calls read or write: sys_enter, and enter_common if it is attached.
Enter(p, dir, fd) ==
  LET c == Len(calls) + 1
      probed == On("enter", dir)
      entered == probed /\ Allowed(p, fd)
      adopts == IF probed /\ SelectedFd(fd) /\ opts.session THEN Adopted(p) ELSE {}
  IN  /\ Happens
      /\ p \in alive /\ current[p] = None
      /\ calls' = Append(calls, [pid |-> p, dir |-> dir, fd |-> fd, end |-> "running",
                                 exited |-> FALSE, due |-> Due(p)])
      /\ current' = [current EXCEPT ![p] = c]
      /\ tracked' = IF Room(tracked) THEN tracked \cup adopts ELSE tracked
      /\ args' = IF entered /\ ArgsRoom(p) THEN Stored(p, c) ELSE args
      /\ lost' = IF entered /\ ~ArgsRoom(p) THEN lost \cup {c} ELSE lost
      /\ UNCHANGED <<program, kernel, records, kin, seen>>

\* A mutant: a call that fails leaves its arguments.
KeepsFailed(p, data) ==
  /\ args' = IF data THEN [args EXCEPT ![p] = None] ELSE args
  /\ IF args[p] = None \/ ~data \/ Len(ring) = RingSize
       THEN UNCHANGED <<ring, lost>>
       ELSE /\ ring' = Append(ring, [call |-> current[p], from |-> args[p]])
            /\ UNCHANGED lost

\* exit_common: the call moved data, or failed.  All paths that find the
\* thread's arguments delete them.
ExitProbe(p, data) ==
  /\ args' = [args EXCEPT ![p] = None]
  /\ IF args[p] = None \/ ~data
       THEN UNCHANGED <<ring, lost>>
       ELSE IF Len(ring) < RingSize
              THEN /\ ring' = Append(ring, [call |-> current[p], from |-> args[p]])
                   /\ UNCHANGED lost
              ELSE /\ lost' = lost \cup {current[p]}
                   /\ UNCHANGED ring

Exit(p, data) ==
  /\ current[p] # None
  /\ calls' = [calls EXCEPT ![current[p]].end = IF data THEN "data" ELSE "failed",
                            ![current[p]].exited = On("exit", calls[current[p]].dir)]
  /\ current' = [current EXCEPT ![p] = None]
  /\ IF On("exit", calls[current[p]].dir)
       THEN ExitProbe(p, data)
       ELSE UNCHANGED <<args, ring, lost>>
  /\ UNCHANGED <<program, kernel, events, tracked, shown, kin, seen>>

-----------------------------------------------------------------------------
\* Processes.  One that is killed in a call leaves it first, with an error.

Fork(p, child) ==
  /\ Happens
  /\ p \in alive /\ current[p] = None /\ child \in Pids \ alive
  /\ alive' = alive \cup {child}
  /\ parent' = [parent EXCEPT ![child] = p]
  /\ sess' = IF p \in sess THEN sess \cup {child} ELSE sess
  /\ kin' = IF p \in kin THEN kin \cup {child} ELSE kin
  /\ UNCHANGED <<program, calls, current, args, tracked, records, seen, lost>>

Setsid(p) ==
  /\ Happens
  /\ p \in sess /\ current[p] = None
  /\ sess' = sess \ {p}
  /\ UNCHANGED <<program, alive, parent, calls, current, args, tracked, records,
                 kin, seen, lost>>

Ends(p) ==
  /\ Happens
  /\ p \in alive /\ current[p] = None
  /\ alive' = alive \ {p}
  /\ parent' = [q \in Pids |-> IF q = p \/ parent[q] = p THEN NoPid ELSE parent[q]]
  /\ sess' = sess \ {p}
  /\ seen' = seen \ {p}
  /\ UNCHANGED <<program, calls, current, args, tracked, records, kin, lost>>

\* Who lives, and whose child it is, matters to the probe in a session only.
ProcessChanges(p) ==
  /\ opts.session
  /\ Setsid(p) \/ Ends(p) \/ \E child \in Pids : Fork(p, child)

Next ==
  \/ Attach \/ EndScan \/ Handle \/ EndPoll
  \/ \E p \in Pids :
       \/ Visit(p) \/ ProcessChanges(p)
       \/ \E io \in opts.traffic : io[1] = p /\ Enter(p, io[2], io[3])
       \/ \E data \in BOOLEAN : Exit(p, data)

Spec == Init /\ [][Next]_vars

\* The main loop scans and polls for ever; ring_buffer__poll has a timeout.
Fairness ==
  /\ WF_vars(Attach) /\ WF_vars(EndScan) /\ WF_vars(EndPoll) /\ WF_vars(Handle)
  /\ \A p \in Pids : WF_vars(Visit(p))

FairSpec == Spec /\ Fairness

-----------------------------------------------------------------------------
Records == ToSet(ring) \cup shown
Reported == {r.call : r \in Records}

\* The maps keep within their sizes.  A record has the descriptor, direction
\* and buffer of its own call, or of one that returned before its exit
\* tracepoint was attached; and only of such a call do arguments stay, until
\* the next call of the thread returns.
OwnArguments ==
  /\ Cardinality(tracked) <= Entries
  /\ Cardinality({p \in Pids : args[p] # None}) <= Entries
  /\ \A p \in Pids : args[p] \notin {None, current[p]} => ~calls[args[p]].exited
  /\ \A r \in Records : r.from = r.call \/ ~calls[r.from].exited

\* What a process of the session does on the selected descriptors once a scan
\* has met it, and what its descendants do as long as the chain of living
\* parents reaches it, is reported, or was lost for want of room.  And nothing
\* is printed of a process whose PID no process of the session or descendant of
\* one has ever had.
KinReported ==
  opts.session =>
    /\ \A c \in DOMAIN calls :
         (phase # "attaching" /\ calls[c].due /\ calls[c].end = "data"
          /\ SelectedFd(calls[c].fd)) => c \in Reported \cup lost
    /\ \A r \in Records : calls[r.call].pid \in kin

\* A process that stays in the session is tracked eventually, however late it
\* joined and whether or not its parents live, while there is room.
EventuallyTracked ==
  \A p \in Pids :
    (p \in sess /\ opts.session) ~> (p \in tracked \/ p \notin sess \/ ~Room(tracked))

=============================================================================
