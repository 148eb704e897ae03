----------------------------- MODULE WriteProbe -----------------------------
(***************************************************************************)
(* The probes of the process tracer that count system calls, behind its    *)
(* cgroup and PID filters: those of one event (unlink, bind, mmap, ...),   *)
(* and the pair on the entry and the exit of the calls that write          *)
(* (src/bpf/process_ext/bpf_write.h), which carries the descriptor from    *)
(* one to the other in write_ctx_map.  Each of the two asks the filters    *)
(* anew, while the program rebuilds the map of cgroups, processes are      *)
(* moved between cgroups, and PIDs are tracked and forgotten.              *)
(***************************************************************************)
EXTENDS CgroupFilter

CONSTANTS
  Procs,       \* single-threaded processes
  Where0,      \* the path of the cgroup of each, or one that is not in Paths
  FilterPids,  \* values of filter_pids explored
  CtxSize,     \* entries of write_ctx_map (8192)
  Calls,       \* bound: system calls
  Moves        \* bound: processes moved, PIDs tracked and forgotten

WriteAssumption ==
  /\ CgroupAssumption
  /\ FilterPids \subseteq BOOLEAN /\ CtxSize \in Nat /\ Calls \in Nat /\ Moves \in Nat

VARIABLES
  filterPids,  \* filter_pids
  pids,        \* keys of tracked_pids, which the main loop changes
  moves,       \* bound on Moves
  where,       \* the cgroup of each process
  calls,       \* history: for each call, whether its entry was recorded
  current,     \* the call each process is in, or None
  ctx,         \* write_ctx_map: the call whose descriptor is stored, or None
  sure,        \* history: processes that have been selected, by the target or
               \* by a complete map, since their current call began
  due,         \* history: calls that returned data, of processes still sure
  counted      \* history: calls counted, each with the call whose descriptor
               \* it was counted under

procVars == <<filterPids, pids, moves, where, calls, current, ctx, sure, due, counted>>
vars     == <<cgroupVars, procVars>>

None == 0

Init ==
  /\ CgroupInit
  /\ filterPids \in FilterPids /\ pids = {} /\ moves = 0
  /\ where = [p \in Procs |-> <<Where0[p], 1>>]
  /\ calls = << >>
  /\ current = [p \in Procs |-> None] /\ ctx = current
  /\ sure = {} /\ due = {} /\ counted = {}

-----------------------------------------------------------------------------
\* A mutant: with --cgroup-filter-children, only the map decides.
MapDecides(p) ==
  /\ where[p] \in (IF children THEN tracked ELSE {target})
  /\ filterPids => p \in pids

\* is_event_tracked
EventTracked(p) ==
  /\ CgroupTracked(where[p])
  /\ filterPids => p \in pids

\* What p does from here on is to be counted: it is in the target cgroup, or in
\* one that has been below it since before the last refresh, which is over.
Selected(p) ==
  /\ filterPids => p \in pids
  /\ \/ where[p] = target
     \/ /\ children /\ phase = "running"
        /\ where[p] \in through /\ Cardinality(tracked) < MapSize

\* The probes of one event: agg_path_event, trace_bind, trace_setsid, ...; the former
\* counts nothing if it cannot read the path.
Act(p, readable) ==
  LET c == Len(calls) + 1 IN
  /\ phase # "ended" /\ attached /\ c <= Calls /\ current[p] = None
  /\ calls' = Append(calls, "recorded")
  /\ counted' = IF EventTracked(p) /\ readable
                  THEN counted \cup {[call |-> c, from |-> c]} ELSE counted
  /\ due' = IF Selected(p) /\ readable THEN due \cup {c} ELSE due
  /\ UNCHANGED <<cgroupVars, filterPids, pids, moves, where, current, ctx, sure>>

CtxRoom(p) == ctx[p] # None \/ Cardinality({q \in Procs : ctx[q] # None}) < CtxSize

\* A mutant: an entry that is there is left.
KeepFirst(p, c) == IF ctx[p] = None THEN [ctx EXCEPT ![p] = c] ELSE ctx

Stored(p, c) == [ctx EXCEPT ![p] = c]

\* trace_write_enter_common
Enter(p) ==
  LET c == Len(calls) + 1
      recorded == attached /\ EventTracked(p) /\ CtxRoom(p)
  IN  /\ phase # "ended" /\ c <= Calls /\ current[p] = None
      /\ calls' = Append(calls, IF recorded THEN "recorded"
                                ELSE IF attached /\ EventTracked(p) THEN "noRoom" ELSE "missed")
      /\ current' = [current EXCEPT ![p] = c]
      /\ ctx' = IF recorded THEN Stored(p, c) ELSE ctx
      /\ sure' = IF attached /\ Selected(p) THEN sure \cup {p} ELSE sure \ {p}
      /\ UNCHANGED <<cgroupVars, filterPids, pids, moves, where, due, counted>>

\* trace_write_exit_common: a call that wrote nothing, or whose process is not
\* selected any more, leaves its descriptor.
Exit(p, wrote) ==
  /\ phase # "ended" /\ current[p] # None
  /\ current' = [current EXCEPT ![p] = None]
  /\ IF attached /\ wrote /\ EventTracked(p) /\ ctx[p] # None
       THEN /\ ctx' = [ctx EXCEPT ![p] = None]
            /\ counted' = counted \cup {[call |-> current[p], from |-> ctx[p]]}
       ELSE UNCHANGED <<ctx, counted>>
  /\ due' = IF wrote /\ p \in sure THEN due \cup {current[p]} ELSE due
  /\ UNCHANGED <<cgroupVars, filterPids, pids, moves, where, calls, sure>>

Moved == phase # "ended" /\ moves < Moves /\ moves' = moves + 1

\* A process is moved to another cgroup, also in the middle of a call; so is,
\* to the probe, the next process that gets the PID of one that has ended.
Move(p, id) ==
  /\ Moved /\ id \in live \ {where[p]}
  /\ where' = [where EXCEPT ![p] = id]
  /\ sure' = sure \ {p}
  /\ UNCHANGED <<cgroupVars, filterPids, pids, calls, current, ctx, due, counted>>

\* The handlers of the main loop, which rebuilds no map meanwhile
Track(p) ==
  /\ Moved /\ filterPids /\ phase = "running"
  /\ pids' = IF p \in pids THEN pids \ {p} ELSE pids \cup {p}
  /\ sure' = sure \ {p}
  /\ UNCHANGED <<cgroupVars, filterPids, where, calls, current, ctx, due, counted>>

\* Only the target is accepted at every moment of a refresh.
Refresh ==
  /\ Populate
  /\ sure' = IF phase' = "running" THEN sure ELSE {p \in sure : where[p] = target}
  /\ UNCHANGED <<filterPids, pids, moves, where, calls, current, ctx, due, counted>>

Cgroups ==
  /\ \E p \in Paths : Mkdir(p) \/ (Rmdir(p) /\ \A q \in Procs : where[q] # IdOf(p))
  /\ UNCHANGED procVars

Next ==
  \/ Refresh \/ Cgroups
  \/ \E p \in Procs :
       \/ \E readable \in BOOLEAN : Act(p, readable)
       \/ Enter(p) \/ Track(p)
       \/ \E wrote \in BOOLEAN : Exit(p, wrote)
       \/ \E id \in live : Move(p, id)

Spec == Init /\ [][Next]_vars

-----------------------------------------------------------------------------
\* A write is counted under the descriptor of another call only if its own
\* entry was not recorded: because the filters refused the process, or because
\* write_ctx_map was full.  Everything else that stays in the map, of writes
\* that failed and of processes moved or forgotten in a call, is harmless: an
\* entry that is recorded replaces it.
OwnDescriptor ==
  /\ Cardinality({p \in Procs : ctx[p] # None}) <= CtxSize
  /\ \A p \in Procs : current[p] # None /\ calls[current[p]] = "recorded" => ctx[p] = current[p]
  /\ \A r \in counted : r.from = r.call \/ calls[r.call] # "recorded"

\* Whatever the filters are to select is counted: always if the process is in
\* the target cgroup itself, and if it is in a descendant, unless the map is
\* being rebuilt during the call, or is full.
SelectedAreCounted ==
  \A c \in due : calls[c] = "noRoom" \/ \E r \in counted : r.call = c

=============================================================================
