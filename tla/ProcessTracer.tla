--------------------------- MODULE ProcessTracer ----------------------------
(***************************************************************************)
(* The process tracer end to end: processes of the traced machine, the     *)
(* sched_process_exec / sched_process_exit / sys_enter_open probes         *)
(* (src/bpf/process.bpf.c), the BPF ring buffer, and the event handler     *)
(* that keeps the PID table, the tracked_pids BPF map and the file-open    *)
(* aggregates (src/bpf/process.c).                                         *)
(*                                                                         *)
(* Probes run on any CPU: a record is reserved, filled and submitted in    *)
(* two steps, and records are consumed in reservation order.  A process    *)
(* has at most one probe in flight.  The handler is single-threaded, so    *)
(* one record is handled in one step.                                      *)
(***************************************************************************)
EXTENDS PidTable, Sequences, FiniteSets

CONSTANTS
  Options,     \* command lines explored: mode (env.filter_mode), session
               \* (--session was given), duration (-d was given) and cgroup
               \* (--cgroup-filter was given); and a bound: the forks, execs and
               \* opens explored under it
  Target,      \* the PID of -p, or NoPid
  Seeds,       \* the PIDs of --seed-pid
  Alive0,      \* the processes that live when the probes are attached
  Named0,      \* those of them whose comm matches -c
  Threaded,    \* bound: PIDs whose process may have threads beside the leader
  RingSize,    \* records the ring buffer holds
  NoPid        \* the ppid of an orphan, and an absent target

ASSUME ProcessTracerAssumption ==
  /\ Options \subseteq [mode : {"all", "proc", "filter"}, session : BOOLEAN,
                  duration : BOOLEAN, cgroup : BOOLEAN, events : Nat]
  /\ NoPid \in Nat \ Pids
  /\ Target \in Pids \cup {NoPid}
  /\ Threaded \subseteq Pids /\ Seeds \subseteq Pids
  /\ Alive0 \subseteq Pids /\ Named0 \subseteq Alive0
  /\ RingSize \in Nat

VARIABLES
  opts,      \* the command line of this tracer
  st,        \* "free", "run", "headless" (only the leader thread has exited)
             \* or "dying" (all threads have, the PID is not yet released)
  parent,    \* real_parent
  named,     \* processes whose comm matches a -c filter
  sess,      \* members of the session of --session
  ring,      \* the ring buffer
  started,   \* keys of exec_start
  exitMem,   \* keys of exit_mem
  table,     \* pid_tracker.entries
  bpfPids,   \* keys of tracked_pids
  held,      \* PIDs with an entry in file_hashes
  budget,    \* bound on Fork, Exec and Open
  ours,      \* history: living processes that satisfied the filter by
             \* themselves, were seeded, or were forked or exec'ed while their
             \* parent was such a process
  selected,  \* history: living processes that satisfied it by themselves
             \* at an exec the tracer was able to record, and whose leader
             \* thread has not exited since
  unseen,    \* history: PIDs that exited and whose EXIT the ring had no room
             \* for or is_cgroup_tracked dropped
  missed     \* history: kinds of records of selected processes that were
             \* handled and not reported

kernel  == <<st, parent, named, sess, started, budget, ours, selected, unseen>>
tracker == <<opts, table, bpfPids, held, missed>>
vars    == <<kernel, ring, exitMem, tracker>>

Mode        == opts.mode
SessionOn   == opts.session
MinDuration == opts.duration

\* What seed_initial_pids leaves in the table: seeds added in some order, of which
\* only a full table refuses any.  An entry is past its home slot only because of
\* entries that were there at its turn.
SeededTables ==
  {t \in Tables :
     /\ StoredIn(t) \subseteq Seeds
     /\ StoredIn(t) = Seeds \/ \A s \in Slots : t[s] # Free
     /\ \E turn \in [Seeds -> Slots] :
          \A s \in Slots : t[s] # Free =>
            \E i \in Slots :
              /\ Probe(t[s], i) = s
              /\ \A j \in 0 .. (i - 1) : /\ t[Probe(t[s], j)] # Free
                                         /\ turn[t[Probe(t[s], j)]] < turn[t[s]]}

\* seed_initial_pids, then attach.  A seed that died in between stays.
Init ==
  /\ opts \in Options
  /\ st = [p \in Pids |-> IF p \in Alive0 THEN "run" ELSE "free"]
  /\ parent = [p \in Pids |-> NoPid]
  /\ named = Named0
  /\ sess = IF SessionOn THEN Alive0 ELSE {}
  /\ ring = << >>
  /\ started = {}
  /\ exitMem = {}
  /\ table \in SeededTables
  /\ bpfPids = StoredIn(table)
  /\ held = {}
  /\ budget = opts.events
  /\ ours = Alive0 \cap (Seeds \cup {Target})
  /\ selected = {}
  /\ unseen = Seeds \ Alive0
  /\ missed = {}

-----------------------------------------------------------------------------
\* Probes

InProbe(p) == \E i \in DOMAIN ring : ring[i].pid = p /\ ~ ring[i].ready

\* bpf_ringbuf_reserve: the record takes its place in the ring, or is lost.
Reserve(r) == ring' = IF Len(ring) < RingSize THEN Append(ring, r) ELSE ring

Record(type, p, due, ready) ==
  [type |-> type, pid |-> p, ppid |-> NoPid, named |-> p \in named',
   due |-> due, ready |-> ready]

\* The process satisfies the filter by itself, whatever its ancestors.
SelfSelected(p, m) ==
  IF SessionOn THEN p \in sess ELSE m \/ p = Target

\* A new process, with its parent's comm and session.  No probe on fork.
Fork(p, c) ==
  /\ budget > 0
  /\ st[p] \in {"run", "headless"} /\ ~ InProbe(p)
  /\ st[c] = "free"
  /\ st' = [st EXCEPT ![c] = "run"]
  /\ parent' = [parent EXCEPT ![c] = p]
  /\ named' = IF p \in named THEN named \cup {c} ELSE named \ {c}
  /\ sess' = IF p \in sess THEN sess \cup {c} ELSE sess
  /\ ours' = IF p \in ours THEN ours \cup {c} ELSE ours
  /\ budget' = budget - 1
  /\ UNCHANGED <<ring, started, exitMem, selected, unseen, tracker>>

\* With a cgroup filter is_cgroup_tracked may say anything of any process: it moves
\* between cgroups, and the map of their ids is cleared and filled again every 2 s.

\* handle_exec up to the reservation, by a process is_cgroup_tracked lets pass;
\* m: the new comm matches a filter.  An exec by a surviving thread makes that
\* thread the leader.
Exec(p, m) ==
  /\ budget > 0
  /\ st[p] \in {"run", "headless"} /\ ~ InProbe(p)
  /\ st' = [st EXCEPT ![p] = "run"]
  /\ named' = IF m THEN named \cup {p} ELSE named \ {p}
  /\ started' = started \cup {p}
  /\ IF MinDuration THEN UNCHANGED ring
     ELSE Reserve(Record("EXEC", p, SelfSelected(p, m), FALSE))
  /\ ours' = IF SelfSelected(p, m) \/ parent[p] \in ours THEN ours \cup {p} ELSE ours
  /\ selected' = IF SelfSelected(p, m) /\ (MinDuration \/ Len(ring) < RingSize)
                   THEN selected \cup {p} ELSE selected
  /\ budget' = budget - 1
  /\ UNCHANGED <<parent, sess, exitMem, unseen, tracker>>

\* An exec is_cgroup_tracked drops: handle_exec returns at once.
ExecOutside(p, m) ==
  /\ opts.cgroup /\ budget > 0
  /\ st[p] \in {"run", "headless"} /\ ~ InProbe(p)
  /\ st' = [st EXCEPT ![p] = "run"]
  /\ named' = IF m THEN named \cup {p} ELSE named \ {p}
  /\ ours' = IF SelfSelected(p, m) \/ parent[p] \in ours THEN ours \cup {p} ELSE ours
  /\ budget' = budget - 1
  /\ UNCHANGED <<parent, sess, started, selected, unseen, ring, exitMem, tracker>>

\* A mutant: only a process whose exec was recorded has an EXIT, with or without
\* -d (process.bpf.c: "else if (min_duration_ns)").
ExitNeedsStart(p, others, long) ==
  /\ others => p \in Threaded
  /\ MinDuration \/ long
  /\ st[p] = "run" /\ ~ InProbe(p)
  /\ st' = [st EXCEPT ![p] = IF others THEN "headless" ELSE "dying"]
  /\ started' = started \ {p}
  /\ UNCHANGED named
  /\ IF p \notin started \/ ~ long
       THEN UNCHANGED <<ring, unseen>>
       ELSE /\ Reserve(Record("EXIT", p, p \in selected, FALSE))
            /\ unseen' = IF Len(ring) < RingSize THEN unseen ELSE unseen \cup {p}
  /\ selected' = selected \ {p}
  /\ UNCHANGED <<parent, sess, exitMem, budget, ours, tracker>>

\* handle_exit up to the reservation, on the exit of the leader thread of a
\* process is_cgroup_tracked lets pass.
\* others: other threads of the process live on.  long: it lived for at least
\* the minimum duration.
Exit(p, others, long) ==
  /\ others => p \in Threaded
  /\ MinDuration \/ long
  /\ st[p] = "run" /\ ~ InProbe(p)
  /\ st' = [st EXCEPT ![p] = IF others THEN "headless" ELSE "dying"]
  /\ started' = started \ {p}
  /\ UNCHANGED named
  /\ IF MinDuration /\ (p \notin started \/ ~ long)
       THEN UNCHANGED <<ring, unseen>>
       ELSE /\ Reserve(Record("EXIT", p, p \in selected, FALSE))
            /\ unseen' = IF Len(ring) < RingSize THEN unseen ELSE unseen \cup {p}
  /\ selected' = selected \ {p}
  /\ UNCHANGED <<parent, sess, exitMem, budget, ours, tracker>>

\* An exit is_cgroup_tracked drops: no record, and exec_start keeps its entry.
ExitOutside(p, others) ==
  /\ opts.cgroup /\ (others => p \in Threaded)
  /\ st[p] = "run" /\ ~ InProbe(p)
  /\ st' = [st EXCEPT ![p] = IF others THEN "headless" ELSE "dying"]
  /\ selected' = selected \ {p}
  /\ unseen' = unseen \cup {p}
  /\ UNCHANGED <<parent, named, sess, started, budget, ours, ring, exitMem, tracker>>

\* The last other thread exits: handle_exit returns, pid # tid.
LastThreadExit(p) ==
  /\ st[p] = "headless" /\ ~ InProbe(p)
  /\ st' = [st EXCEPT ![p] = "dying"]
  /\ UNCHANGED <<parent, named, sess, started, budget, ours, selected, unseen,
                 ring, exitMem, tracker>>

\* The rest of handle_exec and handle_exit: the parent is read only now.  The
\* kernel knows a peak of memory of some exits only (mem.hiwater_rss > 0).
Submit(i) ==
  /\ i \in DOMAIN ring /\ ~ ring[i].ready
  /\ ring' = [ring EXCEPT ![i].ready = TRUE, ![i].ppid = parent[ring[i].pid]]
  /\ \E peak \in BOOLEAN :
       exitMem' = IF ring[i].type = "EXIT" /\ peak THEN exitMem \cup {ring[i].pid}
                  ELSE exitMem
  /\ UNCHANGED <<kernel, tracker>>

\* The PID is released and the children go to init.
Reap(p) ==
  /\ st[p] = "dying" /\ ~ InProbe(p)
  /\ st' = [st EXCEPT ![p] = "free"]
  /\ parent' = [q \in Pids |-> IF q = p \/ parent[q] = p THEN NoPid ELSE parent[q]]
  /\ named' = named \ {p}
  /\ sess' = sess \ {p}
  /\ ours' = ours \ {p}
  /\ UNCHANGED <<started, budget, selected, unseen, ring, exitMem, tracker>>

\* trace_openat, trace_open: no field depends on another process.  There is no
\* record if is_cgroup_tracked drops it or the name cannot be read.
Open(p) ==
  /\ budget > 0
  /\ st[p] \in {"run", "headless"} /\ ~ InProbe(p)
  /\ UNCHANGED named
  /\ Reserve(Record("OPEN", p, FALSE, TRUE)) \/ UNCHANGED ring
  /\ budget' = budget - 1
  /\ UNCHANGED <<st, parent, sess, started, ours, selected, unseen, exitMem, tracker>>

-----------------------------------------------------------------------------
\* handle_event

Tracked(p) == Find(table, p)

\* should_track_event_process: the session is asked of the kernel when the
\* record is handled, everything else was read by the probe.
ShouldTrack(r) ==
  IF SessionOn THEN r.pid \in sess /\ st[r.pid] # "free"
  ELSE Mode # "filter" \/ r.pid = Target \/ Tracked(r.ppid) \/ r.named

HandleExec(r) ==
  /\ IF ShouldTrack(r) \/ Mode = "proc"
       THEN table' = Add(table, r.pid) /\ bpfPids' = bpfPids \cup {r.pid}
       ELSE UNCHANGED <<table, bpfPids>>
  /\ missed' = IF ~ ShouldTrack(r) /\ Mode = "filter" /\ r.due
                 THEN missed \cup {"EXEC"} ELSE missed
  /\ UNCHANGED <<held, exitMem>>

\* A mutant: the tracker is asked after the PID has been removed from it.
HandleExitLateCheck(r) ==
  LET reported == Find(Remove(table, r.pid), r.pid) \/ Mode # "filter"
  IN  /\ table' = Remove(table, r.pid)
      /\ bpfPids' = bpfPids \ {r.pid}
      /\ held' = IF reported THEN held \ {r.pid} ELSE held
      /\ exitMem' = IF reported THEN exitMem \ {r.pid} ELSE exitMem
      /\ missed' = IF ~ reported /\ r.due THEN missed \cup {"EXIT"} ELSE missed

\* A mutant: only the tracker is updated.
HandleExitTrackerOnly(r) ==
  LET reported == Tracked(r.pid) \/ Mode # "filter"
  IN  /\ table' = Remove(table, r.pid)
      /\ missed' = IF ~ reported /\ r.due THEN missed \cup {"EXIT"} ELSE missed
      /\ UNCHANGED <<bpfPids, held, exitMem>>

HandleExit(r) ==
  LET reported == Tracked(r.pid) \/ Mode # "filter"
  IN  /\ table' = Remove(table, r.pid)
      /\ bpfPids' = bpfPids \ {r.pid}
      /\ held' = IF reported THEN held \ {r.pid} ELSE held
      /\ exitMem' = IF reported THEN exitMem \ {r.pid} ELSE exitMem
      /\ missed' = IF ~ reported /\ r.due THEN missed \cup {"EXIT"} ELSE missed

\* The entries of get_file_open_count whose window has expired go first.
HandleOpen(r) ==
  /\ IF Mode = "all" \/ Tracked(r.pid)
       THEN \E expired \in SUBSET held : held' = (held \ expired) \cup {r.pid}
       ELSE UNCHANGED held
  /\ UNCHANGED <<table, bpfPids, exitMem, missed>>

\* A mutant: per-CPU buffers, whose records come in any order.
PollAnyCpu ==
  \E i \in DOMAIN ring :
    /\ ring[i].ready
    /\ ring' = SubSeq(ring, 1, i - 1) \o SubSeq(ring, i + 1, Len(ring))
    /\ \/ ring[i].type = "EXEC" /\ HandleExec(ring[i])
       \/ ring[i].type = "EXIT" /\ HandleExit(ring[i])
       \/ ring[i].type = "OPEN" /\ HandleOpen(ring[i])
    /\ UNCHANGED <<kernel, opts>>

Poll ==
  /\ ring # << >> /\ Head(ring).ready
  /\ ring' = Tail(ring)
  /\ \/ Head(ring).type = "EXEC" /\ HandleExec(Head(ring))
     \/ Head(ring).type = "EXIT" /\ HandleExit(Head(ring))
     \/ Head(ring).type = "OPEN" /\ HandleOpen(Head(ring))
  /\ UNCHANGED <<kernel, opts>>

Next ==
  \/ \E p, c \in Pids : Fork(p, c)
  \/ \E p \in Pids, m \in BOOLEAN : Exec(p, m)
  \/ \E p \in Pids, m \in BOOLEAN : ExecOutside(p, m)
  \/ \E p \in Pids, others, long \in BOOLEAN : Exit(p, others, long)
  \/ \E p \in Pids, others \in BOOLEAN : ExitOutside(p, others)
  \/ \E p \in Pids : LastThreadExit(p)
  \/ \E i \in 1 .. RingSize : Submit(i)
  \/ \E p \in Pids : Reap(p)
  \/ \E p \in Pids : Open(p)
  \/ Poll

Spec == Init /\ [][Next]_vars

\* A probe that reserved a record submits it, and the main loop keeps polling.
Fairness ==
  /\ WF_vars(Poll)
  /\ \A i \in 1 .. RingSize : WF_vars(Submit(i))

FairSpec == Spec /\ Fairness

-----------------------------------------------------------------------------
Records == [type : {"EXEC", "EXIT", "OPEN"}, pid : Pids, ppid : Pids \cup {NoPid},
            named : BOOLEAN, due : BOOLEAN, ready : BOOLEAN]

TypeOK ==
  /\ st \in [Pids -> {"free", "run", "headless", "dying"}]
  /\ parent \in [Pids -> Pids \cup {NoPid}]
  /\ ring \in Seq(Records) /\ Len(ring) <= RingSize
  /\ table \in Tables
  /\ \A s \in {named, sess, started, exitMem, bpfPids, held, ours, selected, unseen} :
       s \subseteq Pids
  /\ opts \in Options /\ budget \in 0 .. opts.events
  /\ missed \subseteq {"EXEC", "EXIT"}

NoCollisions == DistinctHomes(Pids)

ExitPending(p) == \E i \in DOMAIN ring : ring[i].type = "EXIT" /\ ring[i].pid = p

\* A PID the handler believes tracked is a process whose leader still runs,
\* or one whose EXIT record is waiting in the ring.  The only PIDs tracked
\* beyond their process are those whose EXIT the ring had no room for or the cgroup
\* filter dropped (the process was outside the subtree when it exited, or the map
\* of the subtree was being refreshed), and the seeds that died before the probes
\* were attached.  And in FILTER
\* mode, while there are none of these, a tracked PID is a process that
\* satisfied the filter itself or descends from one that did (or its EXIT is on
\* the way): a released and reused PID never inherits tracking, neither its own
\* nor its parent's.  With -d many an exit has no record, and a seed may stay.
NoStaleTracking ==
  NoCollisions /\ ~ MinDuration =>
    \A p \in TrackedIn(table) :
      /\ st[p] = "run" \/ ExitPending(p) \/ p \in unseen
      /\ (Mode = "filter" /\ unseen = {}) => p \in ours \/ ExitPending(p)

\* Records of processes that satisfied the filter by themselves are reported:
\* the tracker learns of a process before its EXIT is handled, and is asked
\* before it forgets.  With --session this holds only of processes that live
\* until their record is handled, and with -d not at all; and after a removal the
\* table may no longer find a PID that collided with the removed one.
SelectedIsReported == NoCollisions /\ ~ SessionOn /\ ~ MinDuration => missed = {}

\* With -d the exits of such processes are reported if they have lived for
\* long enough (process.c, usage: "ssh" -d 1000 traces ssh processes lasting
\* over a second).
LongLivedIsReported == MinDuration => missed = {}

\* Except in ALL mode, file-open aggregates belong to tracked PIDs, so the
\* EXIT that ends the tracking finds and flushes them.
HeldAreTracked == (NoCollisions /\ Mode # "all") => held \subseteq TrackedIn(table)

\* Outside FILTER mode an exit_mem entry lives no longer than the EXIT record
\* that will print it, so the map's 4096 entries suffice.
ExitMemDrains == Mode # "filter" => \A p \in exitMem : ExitPending(p)

\* The tracked_pids map the syscall probes filter on and the userspace table
\* are updated in the same places and stay the same set.
MapAgreement == NoCollisions => bpfPids = TrackedIn(table)

\* What the tracer keeps by PID is bounded by what goes on: the state's shape,
\* the probes' copy of the table, the aggregates of tracked PIDs only, and the
\* peaks that are on their way.
NothingIsLeft == TypeOK /\ MapAgreement /\ HeldAreTracked /\ ExitMemDrains

\* A process whose leader thread has exited is eventually forgotten by the
\* tracker, whether or not its exec was seen, unless the ring had no room for
\* its EXIT or the cgroup filter dropped it: without -d every other exit has a
\* record, which is submitted and polled, and removes the PID.
EventuallyForgotten ==
  \A p \in Pids :
    (st[p] # "run") ~>
      (st[p] = "run" \/ p \in unseen \/ p \notin TrackedIn(table))

=============================================================================
